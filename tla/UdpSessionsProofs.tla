------------------------- MODULE UdpSessionsProofs -------------------------
(***************************************************************************)
(* The map of a UDP egress and its expiry channel agree, for every number  *)
(* of origins, sessions and tunnels.                                       *)
(***************************************************************************)
EXTENDS UdpSessions, TLAPS

(* An entry is of a session spawned in the current epoch, for its origin. *)
EntriesMatch ==
    \A o \in Origins : sockets[o] # 0 =>
        /\ sockets[o] <= spawned
        /\ origin[sockets[o]] = o
        /\ born[sockets[o]] = epoch

(* Map and channel exist while a tunnel is served. *)
NothingOutsideTunnel ==
    phase # "serving" => expired = <<>> /\ \A o \in Origins : sockets[o] = 0

(* Session numbers are given out in order, of past and present epochs. *)
Numbered ==
    /\ \A n \in Sessions : forward[n] = "unborn" <=> n > spawned
    /\ \A n \in Sessions : born[n] <= epoch
    /\ phase = "serving" => epoch # 0

(* No origin is in the channel twice: a second message would remove the    *)
(* entry of the next session of the origin.                                *)
ExpiredOnce ==
    \A i, j \in 1..Len(expired) : expired[i] = expired[j] => i = j

IInv ==
    /\ TypeOK
    /\ EntriesMatch
    /\ NothingOutsideTunnel
    /\ Numbered
    /\ LiveSessionHasEntry
    /\ ExpiredEntryIsDead
    /\ ExpiredOnce

USE DEF Sessions
USE OriginsAssumption, CapacityAssumption, MaxSessionsAssumption, MaxEpochsAssumption

LEMMA InitIInv == Init => IInv
<1> SUFFICES ASSUME Init PROVE IInv OBVIOUS
<1>1. (CHOOSE o \in Origins : TRUE) \in Origins OBVIOUS
<1>2. 0 \in 0..MaxSessions /\ 0 \in 0..MaxEpochs /\ 0 \in 0..Capacity OBVIOUS
<1>3. expired \in Seq(Origins) BY DEF Init
<1>4. origin \in [Sessions -> Origins] BY <1>1 DEF Init
<1>5. /\ sockets \in [Origins -> 0..MaxSessions]
      /\ inbox \in [Sessions -> 0..Capacity]
  BY <1>2 DEF Init
<1>6. /\ born \in [Sessions -> 0..MaxEpochs]
      /\ forward \in [Sessions -> {"unborn", "opening", "piping", "done"}]
      /\ back \in [Sessions -> {"unborn", "piping", "done"}]
  BY <1>2 DEF Init
<1>7. TypeOK BY <1>2, <1>3, <1>4, <1>5, <1>6 DEF Init, TypeOK
<1> QED
  BY <1>7 DEF Init, IInv, EntriesMatch, NothingOutsideTunnel, Numbered,
     LiveSessionHasEntry, ExpiredEntryIsDead, ExpiredOnce, Live

(* A session that reports its end while its tunnel is served: its origin   *)
(* is not in the channel yet, and the entry of the origin is its own.      *)
LEMMA Reports ==
    ASSUME IInv, NEW n \in Sessions, Live(n), ReportExpired(n),
           forward' = [forward EXCEPT ![n] = "done"],
           UNCHANGED <<mainVars, tableVars, back, inbox>>,
           expiry' \subseteq Sessions
    PROVE  IInv'
<1> USE DEF IInv, mainVars, tableVars, Live
<1>1. CASE phase = "serving" /\ born[n] = epoch
  <2>1. expired' = Append(expired, origin[n]) BY <1>1 DEF ReportExpired
  <2>2. sockets[origin[n]] = n BY <1>1 DEF LiveSessionHasEntry
  <2>3. /\ Len(expired') = Len(expired) + 1
        /\ \A i \in 1..Len(expired) : expired'[i] = expired[i]
        /\ expired'[Len(expired) + 1] = origin[n]
        /\ expired' \in Seq(Origins)
    BY <2>1 DEF TypeOK
  <2>4. \A i \in 1..Len(expired) : expired[i] # origin[n]
    BY <2>2 DEF ExpiredEntryIsDead
  <2>5. TypeOK' BY <2>3 DEF TypeOK
  <2>6. EntriesMatch' /\ NothingOutsideTunnel'
    BY <1>1 DEF EntriesMatch, NothingOutsideTunnel
  <2>7. Numbered' BY DEF Numbered, TypeOK
  <2>8. LiveSessionHasEntry' BY DEF LiveSessionHasEntry, TypeOK
  <2>9. ExpiredEntryIsDead'
    <3> SUFFICES ASSUME NEW i \in 1..Len(expired')
                 PROVE sockets'[expired'[i]] # 0 /\ forward'[sockets'[expired'[i]]] = "done"
      BY DEF ExpiredEntryIsDead
    <3>1. CASE i = Len(expired) + 1 BY <3>1, <2>2, <2>3 DEF TypeOK
    <3>2. CASE i \in 1..Len(expired)
      <4>1. sockets[expired[i]] # 0 /\ forward[sockets[expired[i]]] = "done"
        BY <3>2 DEF ExpiredEntryIsDead
      <4>2. sockets[expired[i]] \in Sessions BY <3>2, <4>1 DEF TypeOK
      <4> QED BY <3>2, <4>1, <4>2, <2>3 DEF TypeOK
    <3>3. Len(expired) \in Nat BY DEF TypeOK
    <3> QED BY <3>1, <3>2, <3>3, <2>3
  <2>10. ExpiredOnce'
    <3>1. Len(expired) \in Nat BY DEF TypeOK
    <3> QED BY <3>1, <2>3, <2>4 DEF ExpiredOnce
  <2> QED BY <2>5, <2>6, <2>7, <2>8, <2>9, <2>10
<1>2. CASE ~(phase = "serving" /\ born[n] = epoch)
  <2>1. expired' = expired BY <1>2 DEF ReportExpired
  <2>2. TypeOK' BY <2>1 DEF TypeOK
  <2>3. EntriesMatch' /\ NothingOutsideTunnel' /\ ExpiredOnce'
    BY <2>1 DEF EntriesMatch, NothingOutsideTunnel, ExpiredOnce
  <2>4. Numbered' BY DEF Numbered, TypeOK
  <2>5. LiveSessionHasEntry' BY DEF LiveSessionHasEntry, TypeOK
  <2>6. ExpiredEntryIsDead' BY <2>1 DEF ExpiredEntryIsDead, TypeOK
  <2> QED BY <2>2, <2>3, <2>4, <2>5, <2>6
<1> QED BY <1>1, <1>2

(* A session that ends with no report to make: it is cancelled, or its     *)
(* entry is gone.                                                          *)
LEMMA EndsSilently ==
    ASSUME IInv, NEW n \in Sessions, Live(n),
           forward' = [forward EXCEPT ![n] = "done"],
           UNCHANGED <<mainVars, tableVars, expired, back, inbox, expiry>>
    PROVE  IInv'
<1> USE DEF IInv, mainVars, tableVars, Live
<1>1. TypeOK' BY DEF TypeOK
<1>2. EntriesMatch' /\ NothingOutsideTunnel' /\ ExpiredOnce'
  BY DEF EntriesMatch, NothingOutsideTunnel, ExpiredOnce
<1>3. Numbered' BY DEF Numbered, TypeOK
<1>4. LiveSessionHasEntry' BY DEF LiveSessionHasEntry, TypeOK
<1>5. ExpiredEntryIsDead' BY DEF ExpiredEntryIsDead, TypeOK
<1> QED BY <1>1, <1>2, <1>3, <1>4, <1>5

(* The steps of the tasks of a session. *)
LEMMA SessionStep ==
    ASSUME IInv, NEW n \in Sessions,
           \/ SocketStep(n) \/ ForwardEnds(n) \/ BackEnds(n)
           \/ Deliver(n) \/ IdleTimeout(n)
    PROVE  IInv'
<1>1. CASE SocketFails(n)
  BY <1>1, Reports DEF SocketFails, Live, IInv, TypeOK
<1>2. CASE ForwardTunnelClosed(n)
  BY <1>2, Reports DEF ForwardTunnelClosed, Live, IInv, TypeOK
<1>3. CASE IdleTimeout(n)
  BY <1>3, Reports DEF IdleTimeout, Live, IInv, TypeOK
<1>4. CASE ChannelClosed(n) BY <1>4, EndsSilently DEF ChannelClosed, Live
<1>5. CASE ForwardCancelled(n) BY <1>5, EndsSilently DEF ForwardCancelled, Live
<1>6. CASE SocketOpens(n)
  <2> USE <1>6 DEF SocketOpens, IInv, mainVars, tableVars
  <2>1. TypeOK' BY DEF TypeOK
  <2>2. EntriesMatch' /\ NothingOutsideTunnel' /\ ExpiredOnce'
    BY DEF EntriesMatch, NothingOutsideTunnel, ExpiredOnce
  <2>3. Numbered' BY DEF Numbered, TypeOK
  <2>4. LiveSessionHasEntry' BY DEF LiveSessionHasEntry, TypeOK, Live
  <2>5. ExpiredEntryIsDead' BY DEF ExpiredEntryIsDead, TypeOK
  <2> QED BY <2>1, <2>2, <2>3, <2>4, <2>5
<1>7. CASE Deliver(n) \/ BackEnds(n)
  <2>1. UNCHANGED <<mainVars, tableVars, expired, forward, expiry>>
    BY <1>7 DEF Deliver, BackEnds
  <2>2. inbox' \in [Sessions -> 0..Capacity]
    <3>1. 0 \in 0..Capacity /\ inbox \in [Sessions -> 0..Capacity]
      BY DEF IInv, TypeOK
    <3>2. inbox' = inbox \/ inbox' = [inbox EXCEPT ![n] = 0]
      BY <1>7 DEF Deliver, BackEnds
    <3> QED BY <3>1, <3>2
  <2>3. back' \in [Sessions -> {"unborn", "piping", "done"}]
    BY <1>7 DEF Deliver, BackEnds, IInv, TypeOK
  <2>4. TypeOK' BY <2>1, <2>2, <2>3 DEF IInv, TypeOK, mainVars, tableVars
  <2> QED
    BY <2>1, <2>4 DEF IInv, mainVars, tableVars, EntriesMatch, Live, Numbered,
       NothingOutsideTunnel, ExpiredOnce, LiveSessionHasEntry, ExpiredEntryIsDead
<1> QED
  BY <1>1, <1>2, <1>3, <1>4, <1>5, <1>6, <1>7 DEF SocketStep, ForwardEnds

(* The tunnel task and its environment. *)
LEMMA MainStep ==
    ASSUME IInv, Connect \/ TunnelLost \/ Cancel \/ TunnelTask
    PROVE  IInv'
<1> USE DEF IInv, mainVars, tableVars
<1>1. CASE Connect
  <2> USE <1>1 DEF Connect
  <2>1. TypeOK'
    <3>1. epoch' \in 0..MaxEpochs BY DEF TypeOK
    <3>2. up' \in BOOLEAN OBVIOUS
    <3> QED BY <3>1, <3>2 DEF TypeOK
  <2>2. EntriesMatch' /\ NothingOutsideTunnel' /\ ExpiredOnce' /\ ExpiredEntryIsDead'
    BY DEF EntriesMatch, NothingOutsideTunnel, ExpiredOnce, ExpiredEntryIsDead
  <2>3. Numbered' BY DEF Numbered, TypeOK
  <2>4. LiveSessionHasEntry' BY DEF LiveSessionHasEntry, Numbered, TypeOK
  <2> QED BY <2>1, <2>2, <2>3, <2>4
<1>2. CASE TunnelLost \/ Cancel
  <2>1. UNCHANGED <<phase, epoch, tableVars, expired, forward, back, inbox, expiry>>
    BY <1>2 DEF TunnelLost, Cancel
  <2>2. up' \in BOOLEAN /\ cancelled' \in BOOLEAN
    BY <1>2 DEF TunnelLost, Cancel, TypeOK
  <2>3. TypeOK' BY <2>1, <2>2 DEF TypeOK
  <2> QED
    BY <2>1, <2>3 DEF EntriesMatch, NothingOutsideTunnel, Numbered, Live,
       ExpiredOnce, LiveSessionHasEntry, ExpiredEntryIsDead
<1>3. CASE RemoveExpired
  <2> USE <1>3 DEF RemoveExpired
  <2> DEFINE h == Head(expired)
  <2>1. /\ expired \in Seq(Origins) /\ expired # <<>> /\ h \in Origins
        /\ Len(expired) \in Nat /\ Len(expired) > 0 /\ h = expired[1]
    BY DEF TypeOK
  <2>2. /\ expired' \in Seq(Origins)
        /\ Len(expired') = Len(expired) - 1
        /\ \A i \in 1..Len(expired') : expired'[i] = expired[i + 1]
    BY <2>1
  <2>3. TypeOK'
    <3>1. sockets' \in [Origins -> 0..MaxSessions] BY <2>1 DEF TypeOK
    <3> QED BY <3>1, <2>2 DEF TypeOK
  <2>4. EntriesMatch' BY <2>1 DEF EntriesMatch, TypeOK
  <2>5. NothingOutsideTunnel' BY DEF NothingOutsideTunnel
  <2>6. Numbered' BY DEF Numbered
  <2>7. LiveSessionHasEntry'
    <3> SUFFICES ASSUME NEW n \in Sessions, Live(n), born[n] = epoch
                 PROVE  sockets'[origin[n]] = n
      BY DEF LiveSessionHasEntry, Live
    <3>1. sockets[origin[n]] = n BY DEF LiveSessionHasEntry
    <3>2. origin[n] # h BY <3>1, <2>1 DEF ExpiredEntryIsDead, Live
    <3> QED BY <3>1, <3>2, <2>1 DEF TypeOK
  <2>8. ExpiredEntryIsDead'
    <3> SUFFICES ASSUME NEW i \in 1..Len(expired')
                 PROVE sockets'[expired'[i]] # 0 /\ forward'[sockets'[expired'[i]]] = "done"
      BY DEF ExpiredEntryIsDead
    <3>1. i + 1 \in 1..Len(expired) /\ expired'[i] = expired[i + 1] BY <2>1, <2>2
    <3>2. expired[i + 1] # h /\ expired[i + 1] \in Origins
      BY <3>1, <2>1 DEF ExpiredOnce
    <3>3. sockets'[expired'[i]] = sockets[expired[i + 1]]
      BY <3>1, <3>2, <2>1 DEF TypeOK
    <3> QED BY <3>1, <3>3 DEF ExpiredEntryIsDead
  <2>9. ExpiredOnce' BY <2>1, <2>2 DEF ExpiredOnce
  <2> QED BY <2>3, <2>4, <2>5, <2>6, <2>7, <2>8, <2>9
<1>4. CASE TunnelClosed \/ ServeCancelled
  <2>1. /\ UNCHANGED <<epoch, cancelled, spawned, origin, born, forward, back, inbox, expiry>>
        /\ phase' \in {"connecting", "done"} /\ up' \in BOOLEAN
        /\ sockets' = [o \in Origins |-> 0] /\ expired' = <<>>
    BY <1>4 DEF TunnelClosed, ServeCancelled, TypeOK
  <2>2. TypeOK'
    <3>1. sockets' \in [Origins -> 0..MaxSessions] /\ expired' \in Seq(Origins)
      BY <2>1
    <3> QED BY <2>1, <3>1 DEF TypeOK
  <2> QED
    BY <2>1, <2>2 DEF EntriesMatch, NothingOutsideTunnel, Numbered, Live,
       ExpiredOnce, LiveSessionHasEntry, ExpiredEntryIsDead
<1>5. CASE ReconnectCancelled
  BY <1>5 DEF ReconnectCancelled, TypeOK, EntriesMatch, NothingOutsideTunnel,
     Numbered, Live, ExpiredOnce, LiveSessionHasEntry, ExpiredEntryIsDead
<1> QED BY <1>1, <1>2, <1>3, <1>4, <1>5 DEF TunnelTask

(* process_datagram() *)
LEMMA DatagramStep ==
    ASSUME IInv, NEW o \in Origins, DatagramToSession(o) \/ DatagramSpawns(o)
    PROVE  IInv'
<1> USE DEF IInv, mainVars, tableVars
<1>1. CASE DatagramToSession(o)
  <2>1. inbox' \in [Sessions -> 0..Capacity]
    <3>1. sockets[o] \in Sessions BY <1>1 DEF DatagramToSession, TypeOK
    <3>2. inbox[sockets[o]] \in 0..Capacity BY <3>1 DEF TypeOK
    <3>3. inbox[sockets[o]] < Capacity => inbox[sockets[o]] + 1 \in 0..Capacity
      BY <3>2
    <3> QED BY <1>1, <3>1, <3>2, <3>3 DEF DatagramToSession, TypeOK
  <2>2. UNCHANGED <<mainVars, tableVars, expired, forward, back, expiry>>
    BY <1>1 DEF DatagramToSession
  <2>3. TypeOK' BY <2>1, <2>2 DEF TypeOK
  <2> QED
    BY <2>2, <2>3 DEF EntriesMatch, NothingOutsideTunnel, Numbered, Live,
       ExpiredOnce, LiveSessionHasEntry, ExpiredEntryIsDead
<1>2. CASE DatagramSpawns(o)
  <2> DEFINE k == spawned'
  <2>1. /\ k \in Sessions /\ spawned \in Nat /\ k = spawned + 1
        /\ phase = "serving" /\ sockets[o] = 0
    BY <1>2 DEF DatagramSpawns, TypeOK
  <2>2. /\ sockets' = [sockets EXCEPT ![o] = k]
        /\ origin' = [origin EXCEPT ![k] = o]
        /\ born' = [born EXCEPT ![k] = epoch]
        /\ forward' = [forward EXCEPT ![k] = "opening"]
        /\ inbox' = [inbox EXCEPT ![k] = 1]
        /\ UNCHANGED <<phase, epoch, up, cancelled, expired, back, expiry>>
    BY <1>2 DEF DatagramSpawns
  <2>3. /\ sockets \in [Origins -> 0..MaxSessions]
        /\ origin \in [Sessions -> Origins]
        /\ born \in [Sessions -> 0..MaxEpochs]
        /\ forward \in [Sessions -> {"unborn", "opening", "piping", "done"}]
        /\ inbox \in [Sessions -> 0..Capacity]
        /\ epoch \in 0..MaxEpochs
    BY DEF TypeOK
  <2> HIDE DEF k, IInv
  <2>4. /\ sockets'[o] = k
        /\ \A q \in Origins \ {o} : sockets'[q] = sockets[q]
    BY <2>2, <2>3
  <2>5. /\ origin'[k] = o /\ born'[k] = epoch /\ forward'[k] = "opening"
        /\ \A n \in Sessions \ {k} : /\ origin'[n] = origin[n]
                                     /\ born'[n] = born[n]
                                     /\ forward'[n] = forward[n]
    BY <2>1, <2>2, <2>3
  <2>6. \A q \in Origins : sockets[q] # 0 =>
           sockets[q] \in Sessions \ {k} /\ sockets[q] <= spawned
    <3> SUFFICES ASSUME NEW q \in Origins, sockets[q] # 0
                 PROVE  sockets[q] \in Sessions \ {k} /\ sockets[q] <= spawned
      OBVIOUS
    <3>1. sockets[q] <= spawned BY DEF IInv, EntriesMatch
    <3>2. sockets[q] \in Sessions BY <2>3
    <3> QED BY <3>1, <3>2, <2>1
  <2>7. TypeOK'
    <3>1. 1 \in 0..Capacity OBVIOUS
    <3>2. inbox' \in [Sessions -> 0..Capacity] BY <3>1, <2>1, <2>2, <2>3
    <3>3. sockets' \in [Origins -> 0..MaxSessions] BY <2>1, <2>2, <2>3
    <3>4. origin' \in [Sessions -> Origins] /\ born' \in [Sessions -> 0..MaxEpochs]
      BY <2>1, <2>2, <2>3
    <3>5. forward' \in [Sessions -> {"unborn", "opening", "piping", "done"}]
      BY <2>1, <2>2, <2>3
    <3>6. spawned' \in 0..MaxSessions BY <2>1 DEF k
    <3> QED BY <2>2, <3>2, <3>3, <3>4, <3>5, <3>6 DEF IInv, TypeOK
  <2>8. EntriesMatch'
    <3> SUFFICES ASSUME NEW q \in Origins, sockets'[q] # 0
                 PROVE  /\ sockets'[q] <= k
                        /\ origin'[sockets'[q]] = q
                        /\ born'[sockets'[q]] = epoch
      BY <2>2 DEF EntriesMatch, k
    <3>1. CASE q = o BY <3>1, <2>1, <2>4, <2>5
    <3>2. CASE q # o
      <4>1. sockets'[q] = sockets[q] BY <3>2, <2>4
      <4>2. origin[sockets[q]] = q /\ born[sockets[q]] = epoch
        BY <4>1 DEF IInv, EntriesMatch
      <4> QED BY <4>1, <4>2, <2>1, <2>5, <2>6
    <3> QED BY <3>1, <3>2
  <2>9. NothingOutsideTunnel' BY <2>1, <2>2 DEF NothingOutsideTunnel
  <2>10. Numbered'
    <3>1. \A n \in Sessions : forward'[n] = "unborn" <=> n > k
      <4> TAKE n \in Sessions
      <4>1. forward[n] = "unborn" <=> n > spawned BY DEF IInv, Numbered
      <4> QED BY <4>1, <2>1, <2>5
    <3>2. \A n \in Sessions : born'[n] <= epoch
      <4> TAKE n \in Sessions
      <4>1. born[n] <= epoch BY DEF IInv, Numbered
      <4>2. epoch <= epoch BY <2>3
      <4> QED BY <4>1, <4>2, <2>5
    <3> QED BY <2>1, <2>2, <3>1, <3>2 DEF IInv, Numbered, k
  <2>11. LiveSessionHasEntry'
    <3> SUFFICES ASSUME NEW n \in Sessions, Live(n)', born'[n] = epoch
                 PROVE  sockets'[origin'[n]] = n
      BY <2>2 DEF LiveSessionHasEntry
    <3>1. CASE n = k BY <3>1, <2>4, <2>5
    <3>2. CASE n # k
      <4>1. Live(n) /\ born[n] = epoch /\ origin'[n] = origin[n]
        BY <3>2, <2>5 DEF Live
      <4>2. sockets[origin[n]] = n BY <4>1, <2>1 DEF IInv, LiveSessionHasEntry
      <4>3. origin[n] # o /\ origin[n] \in Origins BY <4>2, <2>1, <2>3
      <4> QED BY <4>1, <4>2, <4>3, <2>4
    <3> QED BY <3>1, <3>2
  <2>12. ExpiredEntryIsDead'
    <3> SUFFICES ASSUME NEW i \in 1..Len(expired)
                 PROVE  /\ sockets'[expired[i]] # 0
                        /\ forward'[sockets'[expired[i]]] = "done"
      BY <2>2 DEF ExpiredEntryIsDead
    <3>1. /\ sockets[expired[i]] # 0 /\ forward[sockets[expired[i]]] = "done"
          /\ expired[i] \in Origins
      BY DEF IInv, ExpiredEntryIsDead, TypeOK
    <3>2. sockets'[expired[i]] = sockets[expired[i]] BY <3>1, <2>1, <2>4
    <3> QED BY <3>1, <3>2, <2>5, <2>6
  <2>13. ExpiredOnce' BY <2>2 DEF IInv, ExpiredOnce
  <2> QED BY <2>7, <2>8, <2>9, <2>10, <2>11, <2>12, <2>13 DEF IInv
<1> QED BY <1>1, <1>2

(* IInv is an inductive invariant of the sessions. *)
THEOREM Inductive == Spec => []IInv
<1>1. Init => IInv BY InitIInv
<1>2. IInv /\ [Next]_vars => IInv'
  <2> SUFFICES ASSUME IInv, [Next]_vars PROVE IInv' OBVIOUS
  <2>1. CASE Next BY <2>1, MainStep, DatagramStep, SessionStep DEF Next
  <2>2. CASE UNCHANGED vars
    <3> USE <2>2 DEF vars, mainVars, tableVars, IInv
    <3>1. TypeOK' BY DEF TypeOK
    <3> QED
      BY <3>1 DEF EntriesMatch, NothingOutsideTunnel, Numbered, Live,
         ExpiredOnce, LiveSessionHasEntry, ExpiredEntryIsDead
  <2> QED BY <2>1, <2>2
<1> QED BY <1>1, <1>2, PTL DEF Spec

(* Every variable keeps its type. *)
THEOREM TypeCorrect == Spec => []TypeOK
<1>1. IInv => TypeOK BY DEF IInv
<1> QED BY <1>1, Inductive, PTL

(* A session that is alive keeps the entry of its origin, whatever expiry  *)
(* messages of earlier sessions are under way: udp_egress.rs:176-180.      *)
THEOREM EntryIsKept == Spec => []LiveSessionHasEntry
<1>1. IInv => LiveSessionHasEntry BY DEF IInv
<1> QED BY <1>1, Inductive, PTL

(* An expiry message always names the entry of a session that is over, and *)
(* only once: udp_egress.rs:256, 285, 293.                                 *)
THEOREM ExpiryIsSound == Spec => [](ExpiredEntryIsDead /\ ExpiredOnce)
<1>1. IInv => ExpiredEntryIsDead /\ ExpiredOnce BY DEF IInv
<1> QED BY <1>1, Inductive, PTL
============================================================================
