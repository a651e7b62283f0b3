-------------------------- MODULE TunnelPoolProofs --------------------------
(***************************************************************************)
(* What assign_tunnel() and the watchers keep true of the vector of        *)
(* tunnels, for every number of tunnels and of picks.                      *)
(***************************************************************************)
EXTENDS TunnelPool, Integers, TLAPS

(* Only an assigned tunnel is in the vector. *)
OnlyAssignedInPool == \A t \in Tunnels : InPool(t) => reg[t] = "assigned"

(* A watcher is done when its tunnel is closed. *)
WatcherDoneMeansClosed == \A t \in Tunnels : watcher[t] = "done" => Closed(t)

PoolIInv ==
    /\ PoolTypeOK
    /\ OnlyAssignedInPool
    /\ WatcherDoneMeansClosed
    /\ OpenTunnelsInPool
    /\ NoDuplicates

(* swap_remove(i) of a vector without duplicates keeps every element but   *)
(* the one at i, and makes no duplicates.                                  *)
LEMMA SwapRemoveKeeps ==
    ASSUME NEW S, NEW s \in Seq(S), NEW i \in 1..Len(s),
           \A j, k \in 1..Len(s) : s[j] = s[k] => j = k
    PROVE  LET r == SwapRemove(s, i)
           IN  /\ r \in Seq(S)
               /\ Len(r) = Len(s) - 1
               /\ \A j, k \in 1..Len(r) : r[j] = r[k] => j = k
               /\ \A k \in 1..Len(r) : r[k] # s[i] /\ \E j \in 1..Len(s) : r[k] = s[j]
               /\ \A j \in 1..Len(s) : j # i => \E k \in 1..Len(r) : r[k] = s[j]
<1> DEFINE n == Len(s)
           r == SwapRemove(s, i)
<1>1. n \in Nat /\ n > 0 /\ n - 1 \in Nat /\ i <= n OBVIOUS
<1>2. r = [k \in 1..(n - 1) |-> IF k = i THEN s[n] ELSE s[k]] BY DEF SwapRemove
<1>3. \A k \in 1..(n - 1) : s[k] \in S /\ s[n] \in S BY <1>1
<1> HIDE DEF r
<1>4. r \in Seq(S) /\ Len(r) = n - 1
  <2>1. r \in [1..(n - 1) -> S] BY <1>2, <1>3
  <2> QED BY <2>1, <1>1
<1>5. \A k \in 1..(n - 1) : r[k] = IF k = i THEN s[n] ELSE s[k] BY <1>2
<1>6. \A j, k \in 1..Len(r) : r[j] = r[k] => j = k BY <1>1, <1>4, <1>5
<1>7. \A k \in 1..Len(r) : r[k] # s[i] /\ \E j \in 1..n : r[k] = s[j]
  BY <1>1, <1>4, <1>5
<1>8. \A j \in 1..n : j # i => \E k \in 1..Len(r) : r[k] = s[j]
  <2> SUFFICES ASSUME NEW j \in 1..n, j # i
               PROVE  \E k \in 1..Len(r) : r[k] = s[j]
    OBVIOUS
  <2>1. CASE j = n
    <3>1. i \in 1..Len(r) /\ r[i] = s[j] BY <2>1, <1>1, <1>4, <1>5
    <3> QED BY <3>1
  <2>2. CASE j # n
    <3>1. j \in 1..Len(r) /\ r[j] = s[j] BY <2>2, <1>1, <1>4, <1>5
    <3> QED BY <3>1
  <2> QED BY <2>1, <2>2
<1> QED BY <1>4, <1>6, <1>7, <1>8 DEF r

LEMMA PoolInitIInv == PoolInit => PoolIInv
BY MaxRotationAssumption
   DEF PoolInit, PoolIInv, PoolTypeOK, OnlyAssignedInPool, OpenTunnelsInPool,
       WatcherDoneMeansClosed, NoDuplicates, InPool, Closed

(* The steps that leave the vector alone. *)
LEMMA OutsideStep ==
    ASSUME PoolIInv, NEW t \in Tunnels,
           Establish(t) \/ Close(t) \/ AssignBegin(t) \/ AssignWatch(t)
    PROVE  PoolIInv'
<1> USE DEF PoolIInv
<1>1. UNCHANGED <<tunnels, rotation, picks>>
  BY DEF Establish, Close, AssignBegin, AssignWatch
<1>2. PoolTypeOK'
  <2>1. CASE Establish(t) BY <2>1 DEF Establish, PoolTypeOK
  <2>2. CASE Close(t) BY <2>2 DEF Close, PoolTypeOK
  <2>3. CASE AssignBegin(t) BY <2>3 DEF AssignBegin, PoolTypeOK
  <2>4. CASE AssignWatch(t) BY <2>4 DEF AssignWatch, PoolTypeOK
  <2> QED BY <2>1, <2>2, <2>3, <2>4
<1>3. NoDuplicates' BY <1>1 DEF NoDuplicates
<1>4. \A u \in Tunnels : InPool(u)' <=> InPool(u) BY <1>1 DEF InPool
<1>5. \A u \in Tunnels : reg[u] = "assigned" <=> reg'[u] = "assigned"
  BY DEF Establish, Close, AssignBegin, AssignWatch, PoolTypeOK
<1>6. \A u \in Tunnels : Closed(u) => Closed(u)'
  BY DEF Establish, Close, AssignBegin, AssignWatch, PoolTypeOK, Closed
<1>7. \A u \in Tunnels : watcher'[u] = "done" => watcher[u] = "done"
  BY DEF Establish, Close, AssignBegin, AssignWatch, PoolTypeOK
<1>8. OnlyAssignedInPool' BY <1>4, <1>5 DEF OnlyAssignedInPool
<1>9. WatcherDoneMeansClosed' BY <1>6, <1>7 DEF WatcherDoneMeansClosed
<1>10. OpenTunnelsInPool' BY <1>4, <1>5, <1>6 DEF OpenTunnelsInPool
<1> QED BY <1>2, <1>3, <1>8, <1>9, <1>10

(* A tunnel is pushed: it was not there before. *)
LEMMA PushStep ==
    ASSUME PoolIInv, NEW t \in Tunnels, AssignPush(t)
    PROVE  PoolIInv'
<1> USE DEF PoolIInv
<1>1. /\ reg[t] = "push" /\ reg' = [reg EXCEPT ![t] = "assigned"]
      /\ UNCHANGED <<conn, watcher, rotation>> /\ picks' = <<>>
      /\ tunnels' = Append(tunnels, t)
  BY DEF AssignPush
<1>2. /\ tunnels' \in Seq(Tunnels) /\ Len(tunnels) \in Nat
      /\ Len(tunnels') = Len(tunnels) + 1
      /\ \A i \in 1..Len(tunnels) : tunnels'[i] = tunnels[i]
      /\ tunnels'[Len(tunnels) + 1] = t
  BY <1>1 DEF PoolTypeOK
<1>3. PoolTypeOK' BY <1>1, <1>2 DEF PoolTypeOK
<1>4. \A i \in 1..Len(tunnels) : tunnels[i] # t
  BY <1>1 DEF OnlyAssignedInPool, InPool
<1>5. NoDuplicates' BY <1>2, <1>4 DEF NoDuplicates
<1>6. \A u \in Tunnels : InPool(u)' <=> InPool(u) \/ u = t
  BY <1>2 DEF InPool
<1>7. OnlyAssignedInPool' BY <1>1, <1>6 DEF OnlyAssignedInPool, PoolTypeOK
<1>8. OpenTunnelsInPool' BY <1>1, <1>6 DEF OpenTunnelsInPool, PoolTypeOK, Closed
<1>9. WatcherDoneMeansClosed' BY <1>1 DEF WatcherDoneMeansClosed, Closed
<1> QED BY <1>3, <1>5, <1>7, <1>8, <1>9

(* A watcher removes its own tunnel and no other. *)
LEMMA WatcherStep ==
    ASSUME PoolIInv, NEW t \in Tunnels, WatcherRemoves(t)
    PROVE  PoolIInv'
<1> USE DEF PoolIInv
<1>1. /\ Closed(t) /\ watcher' = [watcher EXCEPT ![t] = "done"]
      /\ UNCHANGED <<conn, reg, rotation>>
  BY DEF WatcherRemoves
<1>2. WatcherDoneMeansClosed'
  BY <1>1 DEF WatcherDoneMeansClosed, PoolTypeOK, Closed
<1>3. watcher' \in [Tunnels -> {"none", "waiting", "done"}] BY <1>1 DEF PoolTypeOK
<1>4. CASE \E i \in 1..Len(tunnels) : /\ tunnels[i] = t
                                      /\ tunnels' = SwapRemove(tunnels, i)
                                      /\ picks' = <<>>
  <2>1. PICK i \in 1..Len(tunnels) : /\ tunnels[i] = t
                                     /\ tunnels' = SwapRemove(tunnels, i)
                                     /\ picks' = <<>>
    BY <1>4
  <2>2. /\ tunnels' \in Seq(Tunnels)
        /\ \A j, k \in 1..Len(tunnels') : tunnels'[j] = tunnels'[k] => j = k
        /\ \A k \in 1..Len(tunnels') : \E j \in 1..Len(tunnels) : tunnels'[k] = tunnels[j]
        /\ \A j \in 1..Len(tunnels) : j # i =>
              \E k \in 1..Len(tunnels') : tunnels'[k] = tunnels[j]
    <3>1. /\ tunnels \in Seq(Tunnels)
          /\ \A j, k \in 1..Len(tunnels) : tunnels[j] = tunnels[k] => j = k
      BY DEF NoDuplicates, PoolTypeOK
    <3> HIDE DEF PoolIInv
    <3> DEFINE r == SwapRemove(tunnels, i)
    <3>2. /\ r \in Seq(Tunnels)
          /\ \A j, k \in 1..Len(r) : r[j] = r[k] => j = k
          /\ \A k \in 1..Len(r) : \E j \in 1..Len(tunnels) : r[k] = tunnels[j]
          /\ \A j \in 1..Len(tunnels) : j # i =>
                \E k \in 1..Len(r) : r[k] = tunnels[j]
      BY <3>1, SwapRemoveKeeps
    <3> HIDE DEF r
    <3>3. tunnels' = r BY <2>1 DEF r
    <3> QED BY <3>2, <3>3
  <2>3. PoolTypeOK' BY <1>1, <1>3, <2>1, <2>2 DEF PoolTypeOK
  <2>4. NoDuplicates' BY <2>2 DEF NoDuplicates
  <2>5. \A u \in Tunnels : InPool(u)' => InPool(u) BY <2>2 DEF InPool
  <2>6. \A u \in Tunnels : InPool(u) /\ u # t => InPool(u)'
    BY <2>1, <2>2 DEF InPool
  <2>7. OnlyAssignedInPool' BY <1>1, <2>5 DEF OnlyAssignedInPool
  <2>8. OpenTunnelsInPool' BY <1>1, <2>6 DEF OpenTunnelsInPool, Closed
  <2> QED BY <1>2, <2>3, <2>4, <2>7, <2>8
<1>5. CASE UNCHANGED <<tunnels, picks>>
  <2>1. PoolTypeOK' BY <1>1, <1>3, <1>5 DEF PoolTypeOK
  <2> QED
    BY <1>1, <1>2, <1>5, <2>1 DEF OnlyAssignedInPool, OpenTunnelsInPool,
       NoDuplicates, InPool, Closed
<1> QED BY <1>4, <1>5 DEF WatcherRemoves

(* The rotation points into the vector. *)
LEMMA PickedIsTunnel ==
    ASSUME PoolIInv, Pick
    PROVE  Picked \in Tunnels
<1>1. /\ Len(tunnels) \in Nat /\ Len(tunnels) > 0
      /\ tunnels \in Seq(Tunnels) /\ rotation \in Nat
  BY MaxRotationAssumption DEF Pick, PoolIInv, PoolTypeOK
<1>2. CASE Len(tunnels) = 1
  <2>1. 1 \in 1..Len(tunnels) BY <1>2
  <2>2. tunnels[1] \in Tunnels BY <1>1, <2>1
  <2> QED BY <1>2, <2>2 DEF Picked
<1>3. CASE Len(tunnels) # 1
  <2>1. (rotation % Len(tunnels)) + 1 \in 1..Len(tunnels) BY <1>1
  <2> QED BY <1>1, <1>3, <2>1 DEF Picked
<1> QED BY <1>2, <1>3

(* A pick moves the rotation only. *)
LEMMA PickStep ==
    ASSUME PoolIInv, Pick
    PROVE  PoolIInv'
<1> USE DEF PoolIInv
<1>1. UNCHANGED <<conn, reg, watcher, tunnels>> /\ Len(tunnels) \in Nat /\ Len(tunnels) > 0
  BY DEF Pick, PoolTypeOK
<1>2. Picked \in Tunnels BY PickedIsTunnel
<1>3. picks' \in Seq(Tunnels)
  <2>1. Append(picks, Picked) \in Seq(Tunnels) BY <1>2 DEF PoolTypeOK
  <2>2. CASE picks = <<>>
    <3>1. Len(picks) < Len(tunnels) BY <2>2, <1>1
    <3> QED BY <2>1, <3>1 DEF Pick
  <2>3. CASE picks # <<>>
    <3>1. Tail(picks) \in Seq(Tunnels) BY <2>3 DEF PoolTypeOK
    <3>2. Append(Tail(picks), Picked) \in Seq(Tunnels) BY <3>1, <1>2
    <3> QED BY <2>1, <3>2 DEF Pick
  <2> QED BY <2>2, <2>3
<1>4. rotation' \in 0..MaxRotation
  <2>1. rotation \in 0..MaxRotation BY DEF PoolTypeOK
  <2>2. \/ Len(tunnels) = 1 /\ rotation' = rotation
        \/ Len(tunnels) # 1 /\ rotation < MaxRotation /\ rotation' = rotation + 1
    <3>1. CASE Len(tunnels) = 1 BY <3>1 DEF Pick, Rotate
    <3>2. CASE Len(tunnels) # 1
      <4>1. Len(tunnels) > 1 BY <3>2, <1>1
      <4>2. rotation < MaxRotation BY <4>1 DEF Pick
      <4>3. rotation' = rotation + 1 BY <3>2 DEF Pick, Rotate
      <4> QED BY <3>2, <4>2, <4>3
    <3> QED BY <3>1, <3>2
  <2> QED BY <2>1, <2>2, MaxRotationAssumption
<1>5. PoolTypeOK' BY <1>1, <1>3, <1>4 DEF PoolTypeOK
<1> QED
  BY <1>1, <1>5 DEF OnlyAssignedInPool, OpenTunnelsInPool, NoDuplicates, InPool,
     Closed, WatcherDoneMeansClosed

(* PoolIInv is an inductive invariant of the pool. *)
THEOREM PoolInductive == PoolSpec => []PoolIInv
<1>1. PoolInit => PoolIInv BY PoolInitIInv
<1>2. PoolIInv /\ [PoolNext]_poolVars => PoolIInv'
  <2> SUFFICES ASSUME PoolIInv, [PoolNext]_poolVars PROVE PoolIInv' OBVIOUS
  <2>1. CASE PoolNext
    BY <2>1, OutsideStep, PushStep, WatcherStep, PickStep DEF PoolNext, AssignStep
  <2>2. CASE UNCHANGED poolVars
    BY <2>2 DEF poolVars, PoolIInv, PoolTypeOK, OnlyAssignedInPool, Closed,
       WatcherDoneMeansClosed, OpenTunnelsInPool, NoDuplicates, InPool
  <2> QED BY <2>1, <2>2
<1> QED BY <1>1, <1>2, PTL DEF PoolSpec

(* Every variable of the pool keeps its type. *)
THEOREM PoolTypeCorrect == PoolSpec => []PoolTypeOK
<1>1. PoolIInv => PoolTypeOK BY DEF PoolIInv
<1> QED BY <1>1, PoolInductive, PTL

(* However tunnels come and go, one that is assigned and open can be       *)
(* picked: tcp_ingress.rs:52-62.                                           *)
THEOREM OpenTunnelsArePicked == PoolSpec => []OpenTunnelsInPool
<1>1. PoolIInv => OpenTunnelsInPool BY DEF PoolIInv
<1> QED BY <1>1, PoolInductive, PTL

(* No tunnel gets two shares of the rotation: tcp_ingress.rs:57-62. *)
THEOREM OneShareEach == PoolSpec => []NoDuplicates
<1>1. PoolIInv => NoDuplicates BY DEF PoolIInv
<1> QED BY <1>1, PoolInductive, PTL
----------------------------------------------------------------------------
(* The turns *)

(* The k-th pick from the end was made with the k-th value of the counter  *)
(* from the end: no value is used twice and none is skipped while the      *)
(* vector stays as it is.                                                  *)
PicksRotate ==
    /\ Len(picks) <= Len(tunnels)
    /\ Len(tunnels) > 1 =>
        /\ Len(picks) <= rotation
        /\ \A i \in 1..Len(picks) :
              picks[i] = tunnels[((rotation - Len(picks) + (i - 1)) % Len(tunnels)) + 1]

(* Values of a counter that are less than n apart differ modulo n. *)
LEMMA ModDiffers ==
    ASSUME NEW n \in Nat, n > 0, NEW a \in Nat, NEW b \in Nat, a < b, b - a < n
    PROVE  a % n # b % n
<1> SUFFICES ASSUME a % n = b % n PROVE FALSE OBVIOUS
<1> DEFINE p == a \div n
           q == b \div n
<1>1. p \in Int /\ a = n * p + (a % n) OBVIOUS
<1>2. q \in Int /\ b = n * q + (b % n) OBVIOUS
<1> HIDE DEF p, q
<1>3. b - a = n * q - n * p BY <1>1, <1>2
<1>4. n * q - n * p = n * (q - p) BY <1>1, <1>2
<1>5. CASE q - p <= 0
  <2>1. n * (q - p) <= 0 BY <1>1, <1>2, <1>5
  <2> QED BY <2>1, <1>3, <1>4
<1>6. CASE q - p >= 1
  <2>1. n * (q - p) >= n BY <1>1, <1>2, <1>6
  <2> QED BY <2>1, <1>3, <1>4
<1> QED BY <1>1, <1>2, <1>5, <1>6

(* A step of the pool keeps the picks in step with the counter. *)
LEMMA TurnStep ==
    ASSUME PoolIInv, PicksRotate, [PoolNext]_poolVars
    PROVE  PicksRotate'
<1>1. CASE UNCHANGED <<tunnels, rotation, picks>>
  BY <1>1 DEF PicksRotate
<1>2. CASE picks' = <<>> /\ UNCHANGED rotation /\ tunnels' \in Seq(Tunnels)
  BY <1>2, MaxRotationAssumption DEF PicksRotate, PoolIInv, PoolTypeOK
<1>3. CASE Pick
  <2> DEFINE n == Len(tunnels)
             m == Len(picks)
             at(k) == tunnels[(k % n) + 1]
  <2>1. /\ n \in Nat /\ n > 0 /\ m \in Nat /\ m <= n /\ rotation \in Nat
        /\ UNCHANGED tunnels
    BY <1>3, MaxRotationAssumption DEF Pick, PicksRotate, PoolIInv, PoolTypeOK
  <2>2. \/ m < n /\ picks' = Append(picks, Picked)
        \/ m = n /\ picks' = Append(Tail(picks), Picked)
    BY <1>3, <2>1 DEF Pick
  <2>3. picks \in Seq(Tunnels) /\ Picked \in Tunnels
    BY <1>3, PickedIsTunnel DEF PoolIInv, PoolTypeOK
  <2> HIDE DEF n, m
  <2>4. \/ /\ m < n /\ Len(picks') = m + 1
           /\ \A i \in 1..m : picks'[i] = picks[i]
           /\ picks'[m + 1] = Picked
        \/ /\ m = n /\ Len(picks') = m
           /\ \A i \in 1..(m - 1) : picks'[i] = picks[i + 1]
           /\ picks'[m] = Picked
    <3>1. CASE m < n /\ picks' = Append(picks, Picked)
      BY <3>1, <2>1, <2>3 DEF m
    <3>2. CASE m = n /\ picks' = Append(Tail(picks), Picked)
      <4>1. picks # <<>> BY <3>2, <2>1 DEF m
      <4>2. /\ Tail(picks) \in Seq(Tunnels) /\ Len(Tail(picks)) = m - 1
            /\ \A i \in 1..(m - 1) : Tail(picks)[i] = picks[i + 1]
        BY <4>1, <2>3 DEF m
      <4> QED BY <3>2, <4>2, <2>1, <2>3
    <3> QED BY <2>2, <3>1, <3>2
  <2>5. Len(picks') <= n BY <2>1, <2>4
  <2>6. CASE n > 1
    <3>1. rotation' = rotation + 1 /\ Picked = at(rotation)
      <4>1. n # 1 BY <2>1, <2>6
      <4>2. Len(tunnels) # 1 BY <4>1 DEF n
      <4> QED BY <1>3, <4>2 DEF Pick, Rotate, Picked, n
    <3>2. m <= rotation /\ \A i \in 1..m : picks[i] = at(rotation - m + (i - 1))
      BY <2>6 DEF PicksRotate, n, m
    <3> HIDE DEF at
    <3>3. Len(picks') <= rotation' BY <2>1, <2>4, <3>1, <3>2
    <3>4. ASSUME NEW i \in 1..Len(picks')
          PROVE  picks'[i] = at(rotation' - Len(picks') + (i - 1))
      <4>1. CASE m < n /\ Len(picks') = m + 1
        <5>1. rotation' - Len(picks') + (i - 1) = rotation - m + (i - 1)
          BY <4>1, <2>1, <3>1
        <5>2. CASE i \in 1..m BY <5>1, <5>2, <4>1, <2>1, <2>4, <3>2
        <5>3. CASE i = m + 1
          <6>1. rotation - m + (i - 1) = rotation BY <5>3, <2>1
          <6> QED BY <5>1, <5>3, <6>1, <4>1, <2>1, <2>4, <3>1
        <5> QED BY <4>1, <5>2, <5>3, <2>1
      <4>2. CASE m = n /\ Len(picks') = m
        <5>1. CASE i \in 1..(m - 1)
          <6>1. rotation' - Len(picks') + (i - 1) = rotation - m + ((i + 1) - 1)
            BY <4>2, <5>1, <2>1, <3>1
          <6>2. i + 1 \in 1..m BY <5>1, <2>1
          <6> QED BY <5>1, <6>1, <6>2, <4>2, <2>1, <2>4, <3>2
        <5>2. CASE i = m
          <6>1. rotation' - Len(picks') + (i - 1) = rotation
            BY <4>2, <5>2, <2>1, <3>1
          <6> QED BY <5>2, <6>1, <4>2, <2>1, <2>4, <3>1
        <5> QED BY <4>2, <5>1, <5>2, <2>1
      <4> QED BY <2>4, <4>1, <4>2
    <3> QED BY <2>1, <2>5, <2>6, <3>3, <3>4 DEF PicksRotate, n, at
  <2>7. CASE n = 1 BY <2>1, <2>5, <2>7 DEF PicksRotate, n
  <2> QED BY <2>1, <2>6, <2>7
<1>4. ASSUME NEW t \in Tunnels, AssignPush(t) \/ WatcherRemoves(t)
      PROVE  \/ UNCHANGED <<tunnels, rotation, picks>>
             \/ picks' = <<>> /\ UNCHANGED rotation /\ tunnels' \in Seq(Tunnels)
  <2>1. UNCHANGED rotation /\ (UNCHANGED <<tunnels, picks>> \/ picks' = <<>>)
    BY <1>4 DEF AssignPush, WatcherRemoves
  <2>2. tunnels' \in Seq(Tunnels) BY <1>4, PushStep, WatcherStep DEF PoolIInv, PoolTypeOK
  <2> QED BY <2>1, <2>2
<1>5. ASSUME NEW t \in Tunnels, Establish(t) \/ Close(t) \/ AssignBegin(t) \/ AssignWatch(t)
      PROVE  UNCHANGED <<tunnels, rotation, picks>>
  BY <1>5 DEF Establish, Close, AssignBegin, AssignWatch
<1> QED BY <1>1, <1>2, <1>3, <1>4, <1>5 DEF PoolNext, AssignStep, poolVars

(* Picks in step with the counter are picks in turn. *)
LEMMA RotationIsFair ==
    ASSUME PoolIInv, PicksRotate
    PROVE  RoundRobin
<1> SUFFICES ASSUME NEW i \in 1..Len(picks), NEW j \in 1..Len(picks),
                    i < j, j - i < Len(tunnels), picks[i] = picks[j]
             PROVE  FALSE
  BY DEF RoundRobin
<1> DEFINE n == Len(tunnels)
           a == rotation - Len(picks) + (i - 1)
           b == rotation - Len(picks) + (j - 1)
<1>1. /\ n \in Nat /\ n > 1 /\ rotation \in Nat /\ Len(picks) \in Nat
  BY MaxRotationAssumption DEF PoolIInv, PoolTypeOK
<1>2. Len(picks) <= rotation /\ tunnels[(a % n) + 1] = tunnels[(b % n) + 1]
  BY <1>1 DEF PicksRotate
<1>3. a \in Nat /\ b \in Nat /\ a < b /\ b - a < n BY <1>1, <1>2
<1> HIDE DEF n, a, b
<1>4. a % n # b % n BY <1>1, <1>3, ModDiffers
<1>5. (a % n) + 1 \in 1..n /\ (b % n) + 1 \in 1..n BY <1>1, <1>3
<1>6. (a % n) + 1 = (b % n) + 1 BY <1>2, <1>5 DEF PoolIInv, NoDuplicates, n
<1> QED BY <1>1, <1>3, <1>4, <1>5, <1>6

(* While no tunnel comes or goes, each has its turn before any has two:    *)
(* tcp_ingress.rs:191-206, for every number of tunnels and of picks.       *)
THEOREM TurnsAreFair == PoolSpec => []RoundRobin
<1>1. PoolInit => PicksRotate BY DEF PoolInit, PicksRotate
<1>2. PoolIInv /\ PicksRotate /\ [PoolNext]_poolVars => PicksRotate' BY TurnStep
<1>3. PoolIInv /\ PicksRotate => RoundRobin BY RotationIsFair
<1> QED BY <1>1, <1>2, <1>3, PoolInductive, PTL DEF PoolSpec
============================================================================
