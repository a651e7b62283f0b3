----------------------------- MODULE CodecProofs -----------------------------
(***************************************************************************)
(* What is encoded is what is decoded, for bytes of any base, names,       *)
(* tunnel ids, addresses and payloads of any admissible length, and        *)
(* streams of any number of frames that are cut into pieces anywhere.      *)
(***************************************************************************)
EXTENDS Codec, Integers, SequenceTheorems, TLAPS

Bytes == 0..Base-1

(***************************************************************************)
(* Numbers of two bytes                                                    *)
(***************************************************************************)

LEMMA DivMod ==
    ASSUME NEW b \in Nat \ {0}, NEW n \in Nat
    PROVE  /\ n = (n \div b) * b + (n % b)
           /\ n % b \in 0..b-1 /\ n \div b \in Nat
BY Z3

(* A number that fits in two bytes survives put_u16 and get_u16. *)
LEMMA U16 ==
    ASSUME NEW n \in Nat, n < Base * Base
    PROVE  /\ PutU16(n) \in Seq(Bytes) /\ Len(PutU16(n)) = 2
           /\ PutU16(n)[1] * Base + PutU16(n)[2] = n
<1> DEFINE q == n \div Base
           r == n % Base
<1>1. Base \in Nat \ {0} BY BaseAssumption
<1>2. n = q * Base + r /\ r \in 0..Base-1 /\ q \in Nat BY <1>1, DivMod
<1>3. PutU16(n) = <<q % Base, r>> BY DEF PutU16
<1> HIDE DEF q, r
<1>4. q < Base
  <2>1. ASSUME q >= Base PROVE FALSE
    <3>1. q * Base >= Base * Base BY <1>1, <1>2, <2>1
    <3>2. q * Base \in Nat /\ Base * Base \in Nat BY <1>1, <1>2
    <3> QED BY <1>2, <3>1, <3>2
  <2> QED BY <1>1, <1>2, <2>1
<1>5. q % Base = q BY <1>1, <1>2, <1>4
<1>6. PutU16(n) = <<q, r>> /\ q \in Bytes /\ r \in Bytes
  BY <1>1, <1>2, <1>3, <1>4, <1>5 DEF Bytes
<1>7. /\ PutU16(n) \in Seq(Bytes) /\ Len(PutU16(n)) = 2
      /\ PutU16(n)[1] = q /\ PutU16(n)[2] = r
  BY <1>6
<1> QED BY <1>2, <1>7

LEMMA U8 ==
    ASSUME NEW n \in Bytes
    PROVE  PutU8(n) = <<n>> /\ PutU8(n) \in Seq(Bytes)
<1>1. n % Base = n BY BaseAssumption DEF Bytes
<1> QED BY <1>1 DEF PutU8

(* A sequence is found again where a concatenation put it. *)
LEMMA SubSeqFound ==
    ASSUME NEW S, NEW s, NEW t \in Seq(S), NEW m \in Nat,
           \A i \in 1..Len(t) : s[m + i] = t[i]
    PROVE  SubSeq(s, m + 1, m + Len(t)) = t
<1> DEFINE u == SubSeq(s, m + 1, m + Len(t))
<1>1. Len(t) \in Nat /\ \A i \in 1..Len(t) : t[i] \in S
  BY LenProperties, ElementOfSeq
<1>2. \A i \in (m + 1)..(m + Len(t)) : s[i] \in S
  <2> SUFFICES ASSUME NEW i \in (m + 1)..(m + Len(t)) PROVE s[i] \in S OBVIOUS
  <2>1. i - m \in 1..Len(t) /\ m + (i - m) = i BY <1>1
  <2>2. s[m + (i - m)] \in S BY <1>1, <2>1
  <2> QED BY <2>1, <2>2
<1>3. /\ u \in Seq(S)
      /\ Len(u) = IF m + 1 <= m + Len(t) THEN (m + Len(t)) - (m + 1) + 1 ELSE 0
      /\ \A i \in 1..((m + Len(t)) - (m + 1) + 1) : u[i] = s[(m + 1) + i - 1]
  <2>1. m + 1 \in Int /\ m + Len(t) \in Int BY <1>1
  <2> QED BY <1>2, <2>1, SubSeqProperties
<1> HIDE DEF u
<1>4. Len(u) = Len(t) BY <1>1, <1>3
<1>5. \A i \in 1..Len(u) : u[i] = t[i]
  <2> SUFFICES ASSUME NEW i \in 1..Len(t) PROVE u[i] = t[i] BY <1>4
  <2>1. i \in 1..((m + Len(t)) - (m + 1) + 1) /\ (m + 1) + i - 1 = m + i BY <1>1
  <2>2. u[i] = s[m + i] BY <1>3, <2>1
  <2> QED BY <2>2
<1> QED BY <1>3, <1>4, <1>5, SeqEqual DEF u

LEMMA Joined ==
    ASSUME NEW S, NEW s \in Seq(S), NEW t \in Seq(S)
    PROVE  /\ s \o t \in Seq(S) /\ Len(s \o t) = Len(s) + Len(t)
           /\ Len(s) \in Nat /\ Len(t) \in Nat
           /\ \A i \in 1..Len(s) : (s \o t)[i] = s[i]
           /\ \A i \in 1..Len(t) : (s \o t)[Len(s) + i] = t[i]
<1>1. Len(s) \in Nat /\ Len(t) \in Nat BY LenProperties
<1>2. /\ s \o t \in Seq(S) /\ Len(s \o t) = Len(s) + Len(t)
      /\ \A i \in 1..(Len(s) + Len(t)) :
            (s \o t)[i] = IF i <= Len(s) THEN s[i] ELSE t[i - Len(s)]
  BY ConcatProperties
<1>3. \A i \in 1..Len(s) : (s \o t)[i] = s[i] BY <1>1, <1>2
<1>4. ASSUME NEW i \in 1..Len(t) PROVE (s \o t)[Len(s) + i] = t[i]
  <2>1. /\ Len(s) + i \in 1..(Len(s) + Len(t)) /\ ~(Len(s) + i <= Len(s))
        /\ (Len(s) + i) - Len(s) = i
    BY <1>1
  <2> QED BY <1>2, <2>1
<1> QED BY <1>1, <1>2, <1>3, <1>4

----------------------------------------------------------------------------
(***************************************************************************)
(* Datagrams                                                               *)
(***************************************************************************)

Origins ==
    {a \in [octets : Seq(Bytes), port : 0..Base*Base-1, scope : Nat] :
        Len(a.octets) \in {V4Size, V6Size}}

(* What extract_origin_socket_addr_from_datagram() finds in a datagram is  *)
(* what to_datagram() put there, but for the scope.                        *)
LEMMA RoundTrip ==
    ASSUME NEW addr \in Origins, NEW data \in Seq(Bytes)
    PROVE  /\ extract_origin_socket_addr(to_datagram(addr, data)) =
                 [octets |-> addr.octets, port |-> addr.port, scope |-> 0]
           /\ Data(to_datagram(addr, data)) = data
<1> DEFINE kind == IF Len(addr.octets) = V4Size THEN 0 ELSE 1
           n == Len(addr.octets)
           u == PutU16(addr.port)
           head == PutU8(kind) \o addr.octets
           front == head \o u
           d == to_datagram(addr, data)
<1>1. /\ addr.octets \in Seq(Bytes) /\ n \in {V4Size, V6Size}
      /\ addr.port \in Nat /\ addr.port < Base * Base
  BY BaseAssumption DEF Origins
<1>2. V4Size \in Nat /\ V6Size \in Nat /\ V4Size # V6Size /\ n \in Nat
  BY <1>1, AddressesAssumption
<1> HIDE DEF n
<1>3. PutU8(kind) = <<kind>> /\ PutU8(kind) \in Seq(Bytes)
  <2>1. kind \in Bytes BY BaseAssumption DEF Bytes
  <2> QED BY <2>1, U8
<1>4. u \in Seq(Bytes) /\ Len(u) = 2 /\ u[1] * Base + u[2] = addr.port
  BY <1>1, U16
<1>5. d = front \o data BY DEF to_datagram
<1>6. /\ head \in Seq(Bytes) /\ Len(head) = 1 + n
      /\ head[1] = kind
      /\ \A i \in 1..n : head[1 + i] = addr.octets[i]
  <2>1. Len(PutU8(kind)) = 1 /\ PutU8(kind)[1] = kind BY <1>3
  <2> HIDE DEF kind
  <2>2. /\ head \in Seq(Bytes) /\ Len(head) = Len(PutU8(kind)) + Len(addr.octets)
        /\ \A i \in 1..Len(PutU8(kind)) : head[i] = PutU8(kind)[i]
        /\ \A i \in 1..Len(addr.octets) : head[Len(PutU8(kind)) + i] = addr.octets[i]
    BY <1>1, <1>3, Joined
  <2>3. 1 \in 1..Len(PutU8(kind)) BY <2>1
  <2> HIDE DEF head
  <2> QED BY <2>1, <2>2, <2>3 DEF n
<1> HIDE DEF head, u
<1>7. /\ front \in Seq(Bytes) /\ Len(front) = 3 + n
      /\ \A i \in 1..(1 + n) : front[i] = head[i]
      /\ front[(1 + n) + 1] = u[1] /\ front[(1 + n) + 2] = u[2]
  <2>0. head \in Seq(Bytes) /\ u \in Seq(Bytes) BY <1>4, <1>6
  <2>1. /\ front \in Seq(Bytes) /\ Len(front) = Len(head) + Len(u)
        /\ \A i \in 1..Len(head) : front[i] = head[i]
        /\ \A i \in 1..Len(u) : front[Len(head) + i] = u[i]
    BY <2>0, Joined
  <2>2. 1 \in 1..Len(u) /\ 2 \in 1..Len(u) BY <1>4
  <2>3. Len(head) + Len(u) = 3 + n BY <1>2, <1>4, <1>6
  <2> HIDE DEF front
  <2> QED BY <1>6, <2>1, <2>2, <2>3
<1> HIDE DEF front
<1>8. /\ d \in Seq(Bytes) /\ Len(d) = (3 + n) + Len(data) /\ Len(data) \in Nat
      /\ \A i \in 1..(3 + n) : d[i] = front[i]
      /\ \A i \in 1..Len(data) : d[(3 + n) + i] = data[i]
  <2>1. /\ d \in Seq(Bytes) /\ Len(d) = Len(front) + Len(data) /\ Len(data) \in Nat
        /\ \A i \in 1..Len(front) : d[i] = front[i]
        /\ \A i \in 1..Len(data) : d[Len(front) + i] = data[i]
    BY <1>5, <1>7, Joined
  <2> HIDE DEF d
  <2> QED BY <1>7, <2>1
<1> HIDE DEF d, kind
<1>9. d[1] = kind
  <2>1. 1 \in 1..(1 + n) /\ 1 \in 1..(3 + n) BY <1>2
  <2> QED BY <1>6, <1>7, <1>8, <2>1
<1>10. n = IF d[1] = 0 THEN V4Size ELSE V6Size BY <1>1, <1>9 DEF kind, n
<1>11. SubSeq(d, 2, n + 1) = addr.octets
  <2>1. \A i \in 1..n : d[1 + i] = addr.octets[i]
    <3> SUFFICES ASSUME NEW i \in 1..n PROVE d[1 + i] = addr.octets[i] OBVIOUS
    <3>1. 1 + i \in 1..(3 + n) /\ 1 + i \in 1..(1 + n) BY <1>2
    <3> QED BY <1>6, <1>7, <1>8, <3>1
  <2>2. SubSeq(d, 1 + 1, 1 + n) = addr.octets
    BY <1>1, <2>1, SubSeqFound DEF n
  <2>3. 1 + 1 = 2 /\ 1 + n = n + 1 BY <1>2
  <2> QED BY <2>2, <2>3
<1>12. d[n + 2] * Base + d[n + 3] = addr.port
  <2>1. /\ n + 2 \in 1..(3 + n) /\ n + 3 \in 1..(3 + n)
        /\ (1 + n) + 1 = n + 2 /\ (1 + n) + 2 = n + 3
    BY <1>2
  <2>2. d[n + 2] = u[1] /\ d[n + 3] = u[2] BY <1>7, <1>8, <2>1
  <2> QED BY <1>4, <2>2
<1>13. SubSeq(d, n + 4, Len(d)) = data
  <2>1. SubSeq(d, (3 + n) + 1, (3 + n) + Len(data)) = data
    <3> DEFINE m == 3 + n
    <3>1. m \in Nat BY <1>2
    <3>2. \A i \in 1..Len(data) : d[m + i] = data[i] BY <1>8
    <3> HIDE DEF m
    <3>3. SubSeq(d, m + 1, m + Len(data)) = data
      <4>1. data \in Seq(Bytes) OBVIOUS
      <4> QED BY <3>1, <3>2, <4>1, SubSeqFound, SMTT(30)
    <3> QED BY <3>3 DEF m
  <2>2. (3 + n) + 1 = n + 4 BY <1>2
  <2> QED BY <1>8, <2>1, <2>2
<1>14. extract_origin_socket_addr(d) =
         [octets |-> addr.octets, port |-> addr.port, scope |-> 0]
  BY <1>10, <1>11, <1>12 DEF extract_origin_socket_addr
<1>15. Data(d) = data
  BY <1>10, <1>13 DEF Data
<1> QED BY <1>14, <1>15 DEF d

WithoutScope(addr) == [addr EXCEPT !.scope = 0]

(* Whatever is under way was asked. *)
DatagramInv ==
    /\ asked \subseteq Origins \X Seq(Bytes)
    /\ \A bytes \in out : \E a \in asked : bytes = to_datagram(a[1], a[2])
    /\ \A bytes \in back : \E a \in asked : bytes = to_datagram(WithoutScope(a[1]), a[2])
    /\ \A r \in replied : \E a \in asked : r = <<WithoutScope(a[1]), a[2]>>

LEMMA ScopeIsLost ==
    ASSUME NEW addr \in Origins
    PROVE  /\ WithoutScope(addr) \in Origins
           /\ WithoutScope(addr) =
                [octets |-> addr.octets, port |-> addr.port, scope |-> 0]
           /\ WithoutScope(WithoutScope(addr)) = WithoutScope(addr)
<1>1. addr \in [octets : Seq(Bytes), port : 0..Base*Base-1, scope : Nat]
  BY DEF Origins
<1>2. WithoutScope(addr) = [octets |-> addr.octets, port |-> addr.port, scope |-> 0]
  BY <1>1 DEF WithoutScope
<1>3. WithoutScope(WithoutScope(addr)) = WithoutScope(addr)
  BY <1>2 DEF WithoutScope
<1>4. WithoutScope(addr) \in Origins
  BY <1>1, <1>2 DEF Origins
<1> QED BY <1>2, <1>3, <1>4

LEMMA ExtractLosesScope ==
    ASSUME NEW addr \in Origins, NEW data \in Seq(Bytes)
    PROVE  /\ extract_origin_socket_addr(to_datagram(addr, data)) = WithoutScope(addr)
           /\ Data(to_datagram(addr, data)) = data
<1>1. /\ extract_origin_socket_addr(to_datagram(addr, data)) =
            [octets |-> addr.octets, port |-> addr.port, scope |-> 0]
      /\ Data(to_datagram(addr, data)) = data
  BY RoundTrip
<1>2. WithoutScope(addr) = [octets |-> addr.octets, port |-> addr.port, scope |-> 0]
  BY ScopeIsLost
<1> QED BY <1>1, <1>2, Zenon

LEMMA DatagramStep == DatagramInv /\ [Next]_vars => DatagramInv'
<1> SUFFICES ASSUME DatagramInv, [Next]_vars PROVE DatagramInv' OBVIOUS
<1> USE DEF DatagramInv
<1>1. ASSUME NEW addr \in Addresses, NEW data \in Payloads, IngressForwards(addr, data)
      PROVE  DatagramInv'
  <2>1. addr \in Origins /\ data \in Seq(Bytes)
    BY AddressesAssumption, PayloadsAssumption DEF Origins, Bytes
  <2>2. /\ asked' = asked \cup {<<addr, data>>}
        /\ out' = out \cup {to_datagram(addr, data)}
        /\ back' = back /\ replied' = replied
    BY <1>1 DEF IngressForwards
  <2>3. asked' \subseteq Origins \X Seq(Bytes) BY <2>1, <2>2
  <2>4. \A bytes \in out' : \E a \in asked' : bytes = to_datagram(a[1], a[2])
    <3>1. <<addr, data>> \in asked' BY <2>2
    <3>2. to_datagram(addr, data) = to_datagram(<<addr, data>>[1], <<addr, data>>[2])
      OBVIOUS
    <3> QED BY <2>2, <3>1, <3>2, Zenon
  <2> QED BY <2>2, <2>3, <2>4
<1>2. ASSUME NEW bytes \in out, EgressAnswers(bytes) PROVE DatagramInv'
  <2>1. PICK a \in asked : bytes = to_datagram(a[1], a[2]) OBVIOUS
  <2>2. a[1] \in Origins /\ a[2] \in Seq(Bytes) OBVIOUS
  <2>3. /\ back' = back \cup {to_datagram(WithoutScope(a[1]), a[2])}
        /\ asked' = asked /\ replied' = replied /\ out' \subseteq out
    BY <1>2, <2>1, <2>2, ExtractLosesScope DEF EgressAnswers
  <2>4. \A b \in back' : \E c \in asked' : b = to_datagram(WithoutScope(c[1]), c[2])
    BY <2>3
  <2> QED BY <2>3, <2>4
<1>3. ASSUME NEW bytes \in back, IngressReplies(bytes) PROVE DatagramInv'
  <2>1. PICK a \in asked : bytes = to_datagram(WithoutScope(a[1]), a[2]) OBVIOUS
  <2>2. a[1] \in Origins /\ a[2] \in Seq(Bytes) OBVIOUS
  <2>3. /\ extract_origin_socket_addr(bytes) = WithoutScope(a[1])
        /\ Data(bytes) = a[2]
    BY <2>1, <2>2, ExtractLosesScope, ScopeIsLost
  <2>4. /\ replied' = replied \cup {<<WithoutScope(a[1]), a[2]>>}
        /\ asked' = asked /\ out' = out /\ back' \subseteq back
    BY <1>3, <2>3 DEF IngressReplies
  <2>5. \A r \in replied' : \E c \in asked' : r = <<WithoutScope(c[1]), c[2]>>
    BY <2>4
  <2> QED BY <2>4, <2>5
<1>4. CASE UNCHANGED datagramVars BY <1>4 DEF datagramVars
<1>5. CASE UNCHANGED vars BY <1>4, <1>5 DEF vars
<1>6. CASE \/ \E frame \in Frames : Send(frame)
           \/ \E n \in 1..Len(wire) : Read(n)
           \/ Reader
  BY <1>4, <1>6 DEF Send, Read, Reader, DecodeFrame, DecodeNone, DecodePanics
<1> QED BY <1>1, <1>2, <1>3, <1>5, <1>6 DEF Next

(* A reply goes back to an origin that asked, with the data it asked for,  *)
(* for addresses and payloads of any content and any interleaving of the   *)
(* two ways: frames/v1.rs:34-87.                                           *)
THEOREM RepliesReturn == Spec => []RepliesReturnToOrigin
<1>1. Init => DatagramInv BY DEF Init, DatagramInv
<1>2. DatagramInv => RepliesReturnToOrigin
  BY DEF DatagramInv, RepliesReturnToOrigin, WithoutScope
<1> QED BY <1>1, <1>2, DatagramStep, PTL DEF Spec

----------------------------------------------------------------------------
(***************************************************************************)
(* The bytes of a frame                                                    *)
(***************************************************************************)

(* `name` of Payload: a name behind its length. *)
LEMMA NameBytes ==
    ASSUME NEW name \in Names
    PROVE  LET b == PutU8(Len(name)) \o name IN
           /\ name \in Seq(Bytes) /\ Len(name) \in 1..Base-1
           /\ b \in Seq(Bytes) /\ Len(b) = 1 + Len(name)
           /\ b[1] = Len(name)
           /\ \A i \in 1..Len(name) : b[1 + i] = name[i]
<1> DEFINE l == PutU8(Len(name))
           b == l \o name
<1>1. name \in Seq(Bytes) /\ Len(name) \in 1..Base-1
  BY NamesAssumption DEF Bytes
<1>2. l = <<Len(name)>> /\ l \in Seq(Bytes)
  <2>1. Len(name) \in Bytes BY <1>1 DEF Bytes
  <2> QED BY <2>1, U8
<1>3. Len(l) = 1 /\ l[1] = Len(name) BY <1>2
<1> HIDE DEF l
<1>4. /\ b \in Seq(Bytes) /\ Len(b) = Len(l) + Len(name)
      /\ \A i \in 1..Len(l) : b[i] = l[i]
      /\ \A i \in 1..Len(name) : b[Len(l) + i] = name[i]
  <2>1. l \in Seq(Bytes) /\ name \in Seq(Bytes) BY <1>1, <1>2
  <2> QED BY <2>1, Joined
<1> HIDE DEF b
<1>5. 1 \in 1..Len(l) BY <1>3
<1>6. /\ b \in Seq(Bytes) /\ Len(b) = 1 + Len(name) /\ b[1] = Len(name)
      /\ \A i \in 1..Len(name) : b[1 + i] = name[i]
  BY <1>3, <1>4, <1>5
<1> QED BY <1>1, <1>6 DEF b, l

(* A frame with a payload p: its type, the length of p in two bytes, p. *)
LEMMA HeaderBytes ==
    ASSUME NEW type \in Bytes, NEW p \in Seq(Bytes), Len(p) < Base * Base
    PROVE  LET e == PutU8(type) \o (PutU16(Len(p)) \o p) IN
           /\ e \in Seq(Bytes) /\ Len(e) = 3 + Len(p)
           /\ e[1] = type /\ e[2] * Base + e[3] = Len(p)
           /\ \A i \in 1..Len(p) : e[3 + i] = p[i]
<1> DEFINE t == PutU8(type)
           u == PutU16(Len(p))
           r == u \o p
           e == t \o r
<1>1. Len(p) \in Nat BY LenProperties
<1>2. t = <<type>> /\ t \in Seq(Bytes) BY U8
<1>3. Len(t) = 1 /\ t[1] = type BY <1>2
<1>4. u \in Seq(Bytes) /\ Len(u) = 2 /\ u[1] * Base + u[2] = Len(p) BY <1>1, U16
<1> HIDE DEF t, u
<1>5. u \in Seq(Bytes) /\ t \in Seq(Bytes) BY <1>2, <1>4
<1>6. /\ r \in Seq(Bytes) /\ Len(r) = Len(u) + Len(p)
      /\ \A i \in 1..Len(u) : r[i] = u[i]
      /\ \A i \in 1..Len(p) : r[Len(u) + i] = p[i]
  BY <1>5, Joined
<1> HIDE DEF r
<1>7. /\ e \in Seq(Bytes) /\ Len(e) = Len(t) + Len(r)
      /\ \A i \in 1..Len(t) : e[i] = t[i]
      /\ \A i \in 1..Len(r) : e[Len(t) + i] = r[i]
  <2>1. t \in Seq(Bytes) /\ r \in Seq(Bytes) BY <1>5, <1>6
  <2> QED BY <2>1, Joined
<1> HIDE DEF e
<1>8. Len(u) = 2 /\ Len(t) = 1 BY <1>3, <1>4
<1>9. Len(r) = 2 + Len(p) /\ Len(e) = 3 + Len(p) BY <1>1, <1>6, <1>7, <1>8
<1>10. e[1] = type
  <2>1. 1 \in 1..Len(t) BY <1>8
  <2> QED BY <1>3, <1>7, <2>1
<1>11. e[2] = u[1] /\ e[3] = u[2]
  <2>1. 1 \in 1..Len(u) /\ 2 \in 1..Len(u) /\ 1 \in 1..Len(r) /\ 2 \in 1..Len(r)
    BY <1>1, <1>8, <1>9
  <2>2. e[1 + 1] = r[1] /\ e[1 + 2] = r[2] BY <1>7, <1>8, <2>1
  <2>3. r[1] = u[1] /\ r[2] = u[2] BY <1>6, <2>1
  <2> QED BY <2>2, <2>3
<1>12. ASSUME NEW i \in 1..Len(p) PROVE e[3 + i] = p[i]
  <2>1. 2 + i \in 1..Len(r) /\ 1 + (2 + i) = 3 + i BY <1>1, <1>9
  <2>2. e[1 + (2 + i)] = r[2 + i] BY <1>7, <1>8, <2>1
  <2>3. r[2 + i] = p[i] BY <1>6, <1>8
  <2> QED BY <2>1, <2>2, <2>3
<1>13. e[2] * Base + e[3] = Len(p) BY <1>4, <1>11
<1> QED BY <1>7, <1>9, <1>10, <1>12, <1>13 DEF e, r, t, u

(* The payload of a frame: a name behind its length, and what follows it.  *)
LEMMA PayloadBytes ==
    ASSUME NEW name \in Names, NEW rest \in Seq(Bytes), NEW type \in Bytes,
           1 + Len(name) + Len(rest) < Base * Base
    PROVE  LET p == (PutU8(Len(name)) \o name) \o rest
               e == PutU8(type) \o (PutU16(1 + Len(name) + Len(rest)) \o p)
           IN  /\ e \in Seq(Bytes) /\ Len(e) = 4 + Len(name) + Len(rest)
               /\ e[1] = type /\ e[2] * Base + e[3] = 1 + Len(name) + Len(rest)
               /\ e[4] = Len(name)
               /\ \A i \in 1..Len(name) : e[4 + i] = name[i]
               /\ \A i \in 1..Len(rest) : e[4 + Len(name) + i] = rest[i]
<1> DEFINE n == PutU8(Len(name)) \o name
           p == n \o rest
           e == PutU8(type) \o (PutU16(Len(p)) \o p)
<1>1. /\ n \in Seq(Bytes) /\ Len(n) = 1 + Len(name) /\ n[1] = Len(name)
      /\ \A i \in 1..Len(name) : n[1 + i] = name[i]
  BY NameBytes
<1>2. Len(name) \in Nat /\ Len(rest) \in Nat
  BY NameBytes, LenProperties, BaseAssumption
<1> HIDE DEF n
<1>3. /\ p \in Seq(Bytes) /\ Len(p) = Len(n) + Len(rest)
      /\ \A i \in 1..Len(n) : p[i] = n[i]
      /\ \A i \in 1..Len(rest) : p[Len(n) + i] = rest[i]
  <2>1. n \in Seq(Bytes) BY <1>1
  <2> QED BY <2>1, Joined
<1>4. Len(n) = 1 + Len(name) /\ Len(p) = 1 + Len(name) + Len(rest)
  BY <1>1, <1>2, <1>3
<1> HIDE DEF p
<1>5. /\ e \in Seq(Bytes) /\ Len(e) = 3 + Len(p)
      /\ e[1] = type /\ e[2] * Base + e[3] = Len(p)
      /\ \A i \in 1..Len(p) : e[3 + i] = p[i]
  <2>1. p \in Seq(Bytes) /\ Len(p) < Base * Base BY <1>3, <1>4
  <2> QED BY <2>1, HeaderBytes
<1> HIDE DEF e
<1>6. e[4] = Len(name)
  <2>1. 1 \in 1..Len(p) /\ 1 \in 1..Len(n) /\ 3 + 1 = 4 BY <1>2, <1>4
  <2>2. e[3 + 1] = p[1] /\ p[1] = n[1] BY <1>3, <1>5, <2>1
  <2> QED BY <1>1, <2>1, <2>2
<1>7. ASSUME NEW i \in 1..Len(name) PROVE e[4 + i] = name[i]
  <2>1. 1 + i \in 1..Len(p) /\ 1 + i \in 1..Len(n) /\ 3 + (1 + i) = 4 + i
    BY <1>2, <1>4
  <2>2. e[3 + (1 + i)] = p[1 + i] /\ p[1 + i] = n[1 + i] BY <1>3, <1>5, <2>1
  <2>3. n[1 + i] = name[i] BY <1>1
  <2> QED BY <2>1, <2>2, <2>3
<1>8. ASSUME NEW i \in 1..Len(rest) PROVE e[4 + Len(name) + i] = rest[i]
  <2>1. /\ Len(n) + i \in 1..Len(p)
        /\ 3 + (Len(n) + i) = 4 + Len(name) + i
    BY <1>2, <1>4
  <2>2. e[3 + (Len(n) + i)] = p[Len(n) + i] BY <1>5, <2>1
  <2>3. p[Len(n) + i] = rest[i] BY <1>3
  <2> QED BY <2>1, <2>2, <2>3
<1>9. Len(e) = 4 + Len(name) + Len(rest) BY <1>2, <1>4, <1>5
<1>10. /\ e \in Seq(Bytes) /\ e[1] = type
       /\ e[2] * Base + e[3] = 1 + Len(name) + Len(rest)
  BY <1>4, <1>5
<1> QED BY <1>4, <1>6, <1>7, <1>8, <1>9, <1>10 DEF e, p, n

LEMMA AuthBytes ==
    ASSUME NEW key \in Names, NEW id \in Names
    PROVE  LET e == encode(Auth(key, id)) IN
           /\ e \in Seq(Bytes) /\ Len(e) = 5 + Len(key) + Len(id)
           /\ e[1] = AUTH_TYPE /\ e[2] * Base + e[3] = 2 + Len(key) + Len(id)
           /\ e[4] = Len(key)
           /\ \A i \in 1..Len(key) : e[4 + i] = key[i]
           /\ e[5 + Len(key)] = Len(id)
           /\ \A i \in 1..Len(id) : e[5 + Len(key) + i] = id[i]
<1> DEFINE rest == PutU8(Len(id)) \o id
           f == Auth(key, id)
           e == encode(f)
           g == PutU8(AUTH_TYPE) \o (PutU16(1 + Len(key) + Len(rest))
                                     \o ((PutU8(Len(key)) \o key) \o rest))
<1>1. /\ rest \in Seq(Bytes) /\ Len(rest) = 1 + Len(id) /\ rest[1] = Len(id)
      /\ \A i \in 1..Len(id) : rest[1 + i] = id[i]
  BY NameBytes
<1>2. /\ Len(key) \in Nat /\ Len(id) \in Nat /\ Base \in Nat /\ Base > 4
      /\ Len(key) < Base /\ Len(id) < Base
  BY NamesAssumption, BaseAssumption
<1>3. e = g
  <2>1. f.type = AUTH_TYPE /\ f.fields[1] = key /\ f.fields[2] = id BY DEF Auth
  <2>2. f \notin {Ping, Pong}
    BY <2>1 DEF Ping, Pong, AUTH_TYPE, PING_TYPE, PONG_TYPE
  <2>3. PayloadLength(f) = 1 + Len(key) + Len(rest)
    <3>1. PayloadLength(f) = (1 + Len(key)) + (1 + Len(id)) BY <2>1 DEF PayloadLength
    <3> QED BY <1>1, <1>2, <3>1
  <2>4. Payload(f) = (PutU8(Len(key)) \o key) \o rest BY <2>1 DEF Payload
  <2> HIDE DEF f
  <2> QED BY <2>1, <2>2, <2>3, <2>4 DEF encode
<1>4. AUTH_TYPE \in Bytes BY BaseAssumption DEF AUTH_TYPE, Bytes
<1>5. 1 + Len(key) + Len(rest) < Base * Base
  <2> DEFINE square == Base * Base
  <2>1. square \in Nat /\ square >= 5 * Base BY <1>2
  <2> HIDE DEF square, rest
  <2>2. 1 + Len(key) + Len(rest) < square
    <3>1. Len(rest) = 1 + Len(id) BY <1>1
    <3> QED BY <1>2, <2>1, <3>1
  <2> QED BY <2>2 DEF square
<1> HIDE DEF rest
<1>6. /\ g \in Seq(Bytes) /\ Len(g) = 4 + Len(key) + Len(rest)
      /\ g[1] = AUTH_TYPE /\ g[2] * Base + g[3] = 1 + Len(key) + Len(rest)
      /\ g[4] = Len(key)
      /\ \A i \in 1..Len(key) : g[4 + i] = key[i]
      /\ \A i \in 1..Len(rest) : g[4 + Len(key) + i] = rest[i]
  <2>1. rest \in Seq(Bytes) BY <1>1
  <2> QED BY <1>4, <1>5, <2>1, PayloadBytes
<1> HIDE DEF e, g
<1>7. e[5 + Len(key)] = Len(id)
  <2>1. 1 \in 1..Len(rest) /\ 4 + Len(key) + 1 = 5 + Len(key) BY <1>1, <1>2
  <2> QED BY <1>1, <1>3, <1>6, <2>1
<1>8. ASSUME NEW i \in 1..Len(id) PROVE e[5 + Len(key) + i] = id[i]
  <2>1. 1 + i \in 1..Len(rest) /\ 4 + Len(key) + (1 + i) = 5 + Len(key) + i
    BY <1>1, <1>2
  <2>2. g[4 + Len(key) + (1 + i)] = rest[1 + i] BY <1>6, <2>1
  <2>3. rest[1 + i] = id[i] BY <1>1
  <2> QED BY <1>3, <2>1, <2>2, <2>3
<1>9. /\ 4 + Len(key) + Len(rest) = 5 + Len(key) + Len(id)
      /\ 1 + Len(key) + Len(rest) = 2 + Len(key) + Len(id)
  BY <1>1, <1>2
<1>10. /\ e \in Seq(Bytes) /\ Len(e) = 5 + Len(key) + Len(id)
       /\ e[1] = AUTH_TYPE /\ e[2] * Base + e[3] = 2 + Len(key) + Len(id)
       /\ e[4] = Len(key)
       /\ \A i \in 1..Len(key) : e[4 + i] = key[i]
  BY <1>3, <1>6, <1>9, Zenon
<1> QED BY <1>7, <1>8, <1>10 DEF e

LEMMA AuthenticatedBytes ==
    ASSUME NEW uuid \in Uuids, NEW id \in Names
    PROVE  LET e == encode(Authenticated(uuid, id)) IN
           /\ e \in Seq(Bytes) /\ Len(e) = 4 + Len(id) + UuidSize
           /\ e[1] = AUTHENTICATED_TYPE
           /\ e[2] * Base + e[3] = 1 + Len(id) + UuidSize
           /\ e[4] = Len(id)
           /\ \A i \in 1..Len(id) : e[4 + i] = id[i]
           /\ \A i \in 1..UuidSize : e[4 + Len(id) + i] = uuid[i]
<1> DEFINE f == Authenticated(uuid, id)
           g == PutU8(AUTHENTICATED_TYPE) \o (PutU16(1 + Len(id) + Len(uuid))
                                     \o ((PutU8(Len(id)) \o id) \o uuid))
<1>1. uuid \in Seq(Bytes) /\ Len(uuid) = UuidSize BY UuidsAssumption DEF Bytes
<1>2. encode(f) = g
  <2>1. f.type = AUTHENTICATED_TYPE /\ f.fields[1] = id /\ f.fields[2] = uuid
    BY DEF Authenticated
  <2>2. f.type # AUTH_TYPE /\ f \notin {Ping, Pong}
    BY <2>1 DEF Ping, Pong, AUTH_TYPE, AUTHENTICATED_TYPE, PING_TYPE, PONG_TYPE
  <2>3. PayloadLength(f) = 1 + Len(id) + Len(uuid)
    BY <1>1, <2>1, <2>2 DEF PayloadLength
  <2>4. Payload(f) = (PutU8(Len(id)) \o id) \o uuid BY <2>1, <2>2 DEF Payload
  <2> HIDE DEF f
  <2> QED BY <2>1, <2>2, <2>3, <2>4 DEF encode
<1>3. AUTHENTICATED_TYPE \in Bytes BY BaseAssumption DEF AUTHENTICATED_TYPE, Bytes
<1>4. 1 + Len(id) + Len(uuid) < Base * Base
  <2>1. /\ Len(id) \in Nat /\ Len(id) < Base /\ UuidSize \in Nat /\ Base \in Nat
        /\ Base + UuidSize < Base * Base /\ Base * Base \in Nat
    BY NamesAssumption, BaseAssumption, UuidsAssumption
  <2> QED BY <1>1, <2>1
<1> HIDE DEF f
<1>5. /\ g \in Seq(Bytes) /\ Len(g) = 4 + Len(id) + Len(uuid)
      /\ g[1] = AUTHENTICATED_TYPE /\ g[2] * Base + g[3] = 1 + Len(id) + Len(uuid)
      /\ g[4] = Len(id)
      /\ \A i \in 1..Len(id) : g[4 + i] = id[i]
      /\ \A i \in 1..Len(uuid) : g[4 + Len(id) + i] = uuid[i]
  <2>1. uuid \in Seq(Bytes) BY <1>1
  <2> QED BY <1>3, <1>4, <2>1, PayloadBytes
<1> HIDE DEF g
<1> QED BY <1>1, <1>2, <1>5, Zenon DEF f

----------------------------------------------------------------------------
(***************************************************************************)
(* Decoding what was encoded                                               *)
(***************************************************************************)

(* The bytes of e stand at the beginning of src, all of them. *)
Begins(src, e) == Len(e) <= Len(src) /\ \A i \in 1..Len(e) : src[i] = e[i]

(* decode() of a buffer that begins with frame. *)
Decodes(src, frame) ==
    /\ src[1] \in Types /\ ~Overrun(src)
    /\ Decoded(src) = frame /\ Consumed(src) = Len(encode(frame))

LEMMA AuthDecodes ==
    ASSUME NEW key \in Names, NEW id \in Names, NEW src \in Seq(Bytes),
           Begins(src, encode(Auth(key, id)))
    PROVE  Decodes(src, Auth(key, id))
<1> DEFINE e == encode(Auth(key, id))
           k == Len(key)
           n == Len(id)
<1>1. /\ e \in Seq(Bytes) /\ Len(e) = 5 + k + n /\ e[1] = AUTH_TYPE /\ e[4] = k
      /\ \A i \in 1..k : e[4 + i] = key[i]
      /\ e[5 + k] = n
      /\ \A i \in 1..n : e[5 + k + i] = id[i]
  BY AuthBytes
<1>2. Len(e) <= Len(src) /\ \A i \in 1..Len(e) : src[i] = e[i] BY DEF Begins
<1>3. /\ key \in Seq(Bytes) /\ id \in Seq(Bytes) /\ k \in Nat /\ n \in Nat
      /\ Len(src) \in Nat
  <2>1. key \in Seq(Bytes) /\ id \in Seq(Bytes) BY NamesAssumption DEF Bytes
  <2> QED BY <2>1, LenProperties
<1> HIDE DEF e
<1>4. src[1] = AUTH_TYPE /\ src[4] = k /\ src[5 + k] = n
  <2>1. 1 \in 1..Len(e) /\ 4 \in 1..Len(e) /\ 5 + k \in 1..Len(e)
    <3> HIDE DEF k, n
    <3> QED BY <1>1, <1>3
  <2> HIDE DEF k, n
  <2> QED BY <1>1, <1>2, <2>1
<1>5. SubSeq(src, 4 + 1, 4 + k) = key
  <2>1. ASSUME NEW i \in 1..k PROVE src[4 + i] = key[i]
    <3> HIDE DEF k, n
    <3>1. 4 + i \in 1..Len(e) BY <1>1, <1>3
    <3> QED BY <1>1, <1>2, <3>1
  <2>2. \A i \in 1..Len(key) : src[4 + i] = key[i] BY <2>1
  <2>3. key \in Seq(Bytes) /\ 4 \in Nat BY <1>3
  <2> QED BY <2>2, <2>3, SubSeqFound
<1>6. SubSeq(src, (5 + k) + 1, (5 + k) + n) = id
  <2> DEFINE m == 5 + k
  <2>1. ASSUME NEW i \in 1..n PROVE src[m + i] = id[i]
    <3> HIDE DEF k, n
    <3>1. 5 + k + i \in 1..Len(e) BY <1>1, <1>3
    <3> QED BY <1>1, <1>2, <3>1
  <2>2. \A i \in 1..Len(id) : src[m + i] = id[i] BY <2>1
  <2>3. id \in Seq(Bytes) /\ m \in Nat BY <1>3
  <2> HIDE DEF m
  <2>4. SubSeq(src, m + 1, m + Len(id)) = id BY <2>2, <2>3, SubSeqFound
  <2> QED BY <2>4 DEF m
<1> HIDE DEF k, n
<1>7. Second(src) = 5 + k /\ End(src) = 5 + k + n
  <2>1. Second(src) = 5 + k BY <1>4 DEF Second
  <2> QED BY <1>4, <2>1 DEF End
<1>8. HasPayload(src) /\ src[1] \in Types BY <1>4 DEF HasPayload, Types
<1>9. ~Overrun(src) /\ Consumed(src) = Len(e)
  <2>1. Len(e) = 5 + k + n /\ 4 <= Len(src) /\ 5 + k <= Len(src) /\ 5 + k + n <= Len(src)
    BY <1>1, <1>2, <1>3
  <2>2. ~Overrun(src) BY <1>3, <1>7, <2>1 DEF Overrun
  <2> QED BY <1>7, <1>8, <2>1, <2>2 DEF Consumed
<1>10. Decoded(src) = Auth(key, id)
  <2>1. Name(src, 4) = key BY <1>4, <1>5 DEF Name
  <2>2. Name(src, Second(src)) = id BY <1>4, <1>6, <1>7 DEF Name
  <2> QED BY <1>4, <2>1, <2>2
      DEF Decoded, AUTH_TYPE, AUTHENTICATED_TYPE, PING_TYPE, PONG_TYPE
<1> QED BY <1>8, <1>9, <1>10 DEF Decodes, e

LEMMA AuthenticatedDecodes ==
    ASSUME NEW uuid \in Uuids, NEW id \in Names, NEW src \in Seq(Bytes),
           Begins(src, encode(Authenticated(uuid, id)))
    PROVE  Decodes(src, Authenticated(uuid, id))
<1> DEFINE e == encode(Authenticated(uuid, id))
           n == Len(id)
<1>1. /\ e \in Seq(Bytes) /\ Len(e) = 4 + n + UuidSize
      /\ e[1] = AUTHENTICATED_TYPE /\ e[4] = n
      /\ \A i \in 1..n : e[4 + i] = id[i]
      /\ \A i \in 1..UuidSize : e[4 + n + i] = uuid[i]
  BY AuthenticatedBytes
<1>2. Len(e) <= Len(src) /\ \A i \in 1..Len(e) : src[i] = e[i] BY DEF Begins
<1>3. /\ id \in Seq(Bytes) /\ uuid \in Seq(Bytes) /\ Len(uuid) = UuidSize
      /\ n \in Nat /\ UuidSize \in Nat \ {0} /\ Len(src) \in Nat
  <2>1. id \in Seq(Bytes) /\ uuid \in Seq(Bytes) /\ Len(uuid) = UuidSize
    BY NamesAssumption, UuidsAssumption DEF Bytes
  <2>2. UuidSize \in Nat \ {0} BY UuidsAssumption
  <2> QED BY <2>1, <2>2, LenProperties
<1> HIDE DEF e
<1>4. src[1] = AUTHENTICATED_TYPE /\ src[4] = n
  <2>1. 1 \in 1..Len(e) /\ 4 \in 1..Len(e)
    <3> HIDE DEF n
    <3> QED BY <1>1, <1>3
  <2> HIDE DEF n
  <2> QED BY <1>1, <1>2, <2>1
<1>5. SubSeq(src, 4 + 1, 4 + n) = id
  <2>1. ASSUME NEW i \in 1..n PROVE src[4 + i] = id[i]
    <3> HIDE DEF n
    <3>1. 4 + i \in 1..Len(e) BY <1>1, <1>3
    <3> QED BY <1>1, <1>2, <3>1
  <2>2. \A i \in 1..Len(id) : src[4 + i] = id[i] BY <2>1
  <2>3. id \in Seq(Bytes) /\ 4 \in Nat BY <1>3
  <2> QED BY <2>2, <2>3, SubSeqFound
<1>6. SubSeq(src, (4 + n) + 1, (4 + n) + UuidSize) = uuid
  <2> DEFINE m == 4 + n
  <2>1. ASSUME NEW i \in 1..UuidSize PROVE src[m + i] = uuid[i]
    <3> HIDE DEF n
    <3>1. 4 + n + i \in 1..Len(e) BY <1>1, <1>3
    <3> QED BY <1>1, <1>2, <3>1
  <2>2. \A i \in 1..Len(uuid) : src[m + i] = uuid[i] BY <1>3, <2>1
  <2>3. uuid \in Seq(Bytes) /\ m \in Nat BY <1>3
  <2> HIDE DEF m
  <2>4. SubSeq(src, m + 1, m + Len(uuid)) = uuid BY <2>2, <2>3, SubSeqFound
  <2> QED BY <1>3, <2>4 DEF m
<1> HIDE DEF n
<1>7. Second(src) = (4 + n) + 1 /\ End(src) = (4 + n) + UuidSize
  <2>1. Second(src) = 5 + n BY <1>4 DEF Second
  <2>2. src[1] # AUTH_TYPE BY <1>4 DEF AUTH_TYPE, AUTHENTICATED_TYPE
  <2>3. End(src) = 5 + n + UuidSize - 1 BY <2>1, <2>2 DEF End
  <2> QED BY <1>3, <2>1, <2>3
<1>8. HasPayload(src) /\ src[1] \in Types BY <1>4 DEF HasPayload, Types
<1>9. ~Overrun(src) /\ Consumed(src) = Len(e)
  <2>1. /\ Len(e) = (4 + n) + UuidSize
        /\ 4 <= Len(src) /\ (4 + n) + 1 <= Len(src) /\ (4 + n) + UuidSize <= Len(src)
    BY <1>1, <1>2, <1>3
  <2>2. ~Overrun(src) BY <1>3, <1>7, <2>1 DEF Overrun
  <2> QED BY <1>7, <1>8, <2>1, <2>2 DEF Consumed
<1>10. Decoded(src) = Authenticated(uuid, id)
  <2>1. Name(src, 4) = id BY <1>4, <1>5 DEF Name
  <2>2. SubSeq(src, Second(src), End(src)) = uuid BY <1>6, <1>7
  <2> QED BY <1>4, <2>1, <2>2
      DEF Decoded, AUTH_TYPE, AUTHENTICATED_TYPE, PING_TYPE, PONG_TYPE
<1> QED BY <1>8, <1>9, <1>10 DEF Decodes, e

(* A frame without a payload is its type. *)
LEMMA SignalBytes ==
    /\ encode(Ping) = <<PING_TYPE>> /\ encode(Pong) = <<PONG_TYPE>>
    /\ encode(Ping) \in Seq(Bytes) /\ encode(Pong) \in Seq(Bytes)
<1>1. PING_TYPE \in Bytes /\ PONG_TYPE \in Bytes
  BY BaseAssumption DEF PING_TYPE, PONG_TYPE, Bytes
<1>2. /\ PutU8(PING_TYPE) = <<PING_TYPE>> /\ PutU8(PONG_TYPE) = <<PONG_TYPE>>
      /\ PutU8(PING_TYPE) \in Seq(Bytes) /\ PutU8(PONG_TYPE) \in Seq(Bytes)
  BY <1>1, U8
<1>3. /\ encode(Ping) = PutU8(PING_TYPE) \o <<>>
      /\ encode(Pong) = PutU8(PONG_TYPE) \o <<>>
  BY DEF encode, Ping, Pong
<1>4. /\ encode(Ping) = PutU8(PING_TYPE) /\ encode(Pong) = PutU8(PONG_TYPE)
  BY <1>2, <1>3, ConcatEmptySeq
<1> QED BY <1>2, <1>4

LEMMA SignalDecodes ==
    ASSUME NEW src \in Seq(Bytes)
    PROVE  /\ Begins(src, encode(Ping)) => Decodes(src, Ping)
           /\ Begins(src, encode(Pong)) => Decodes(src, Pong)
<1>1. ASSUME Begins(src, <<PING_TYPE>>) PROVE Decodes(src, Ping)
  <2>1. src[1] = PING_TYPE BY <1>1 DEF Begins
  <2>2. ~HasPayload(src) /\ src[1] \in Types
    BY <2>1 DEF HasPayload, Types, PING_TYPE, AUTH_TYPE, AUTHENTICATED_TYPE
  <2>3. Decoded(src) = Ping
    BY <2>1 DEF Decoded, PING_TYPE, AUTH_TYPE, AUTHENTICATED_TYPE, PONG_TYPE
  <2>4. Consumed(src) = Len(encode(Ping)) BY <2>2, SignalBytes DEF Consumed
  <2> QED BY <2>2, <2>3, <2>4 DEF Decodes, Overrun
<1>2. ASSUME Begins(src, <<PONG_TYPE>>) PROVE Decodes(src, Pong)
  <2>1. src[1] = PONG_TYPE BY <1>2 DEF Begins
  <2>2. ~HasPayload(src) /\ src[1] \in Types
    BY <2>1 DEF HasPayload, Types, PONG_TYPE, AUTH_TYPE, AUTHENTICATED_TYPE
  <2>3. Decoded(src) = Pong
    BY <2>1 DEF Decoded, PING_TYPE, AUTH_TYPE, AUTHENTICATED_TYPE, PONG_TYPE
  <2>4. Consumed(src) = Len(encode(Pong)) BY <2>2, SignalBytes DEF Consumed
  <2> QED BY <2>2, <2>3, <2>4 DEF Decodes, Overrun
<1> QED BY <1>1, <1>2, SignalBytes

LEMMA FrameDecodes ==
    ASSUME NEW frame \in Frames, NEW src \in Seq(Bytes), Begins(src, encode(frame))
    PROVE  Decodes(src, frame)
<1>1. CASE \E key \in Names, id \in Names : frame = Auth(key, id)
  BY <1>1, AuthDecodes
<1>2. CASE \E uuid \in Uuids, id \in Names : frame = Authenticated(uuid, id)
  BY <1>2, AuthenticatedDecodes
<1>3. CASE frame \in {Ping, Pong} BY <1>3, SignalDecodes
<1> QED BY <1>1, <1>2, <1>3 DEF Frames

(* The first three bytes of a frame with a payload say how long it is. *)
LEMMA FrameBytes ==
    ASSUME NEW frame \in Frames
    PROVE  LET e == encode(frame) IN
           /\ e \in Seq(Bytes) /\ Len(e) \in Nat \ {0}
           /\ \/ Len(e) = 1 /\ ~HasPayload(e)
              \/ HasPayload(e) /\ Len(e) >= 3 /\ Len(e) = ExpectedLength(e)
<1> DEFINE e == encode(frame)
<1>1. CASE \E key \in Names, id \in Names : frame = Auth(key, id)
  <2>1. PICK key \in Names, id \in Names : frame = Auth(key, id) BY <1>1
  <2>2. /\ e \in Seq(Bytes) /\ Len(e) = 5 + Len(key) + Len(id)
        /\ e[1] = AUTH_TYPE /\ e[2] * Base + e[3] = 2 + Len(key) + Len(id)
    BY <2>1, AuthBytes
  <2>3. Len(key) \in Nat /\ Len(id) \in Nat BY NamesAssumption, LenProperties
  <2> HIDE DEF e
  <2> DEFINE product == e[2] * Base
  <2>4. /\ e[2] \in Nat /\ e[3] \in Nat /\ Base \in Nat /\ product \in Nat
    <3>1. 2 \in 1..Len(e) /\ 3 \in 1..Len(e) BY <2>2, <2>3
    <3>2. e[2] \in Bytes /\ e[3] \in Bytes BY <2>2, <3>1, ElementOfSeq
    <3> QED BY <3>2, BaseAssumption DEF Bytes
  <2>5. ExpectedLength(e) = 3 + product + e[3] BY DEF ExpectedLength
  <2> HIDE DEF product
  <2>6. ExpectedLength(e) = Len(e)
    <3>1. product + e[3] = 2 + Len(key) + Len(id) BY <2>2 DEF product
    <3> QED BY <2>2, <2>3, <2>4, <2>5, <3>1
  <2>7. Len(e) >= 3 /\ Len(e) \in Nat \ {0} BY <2>2, <2>3
  <2>8. HasPayload(e) BY <2>2 DEF HasPayload
  <2> QED BY <2>2, <2>6, <2>7, <2>8 DEF e
<1>2. CASE \E uuid \in Uuids, id \in Names : frame = Authenticated(uuid, id)
  <2>1. PICK uuid \in Uuids, id \in Names : frame = Authenticated(uuid, id) BY <1>2
  <2>2. /\ e \in Seq(Bytes) /\ Len(e) = 4 + Len(id) + UuidSize
        /\ e[1] = AUTHENTICATED_TYPE /\ e[2] * Base + e[3] = 1 + Len(id) + UuidSize
    BY <2>1, AuthenticatedBytes
  <2>3. Len(id) \in Nat /\ UuidSize \in Nat
    BY NamesAssumption, UuidsAssumption, LenProperties
  <2> HIDE DEF e
  <2> DEFINE product == e[2] * Base
  <2>4. /\ e[2] \in Nat /\ e[3] \in Nat /\ Base \in Nat /\ product \in Nat
    <3>1. 2 \in 1..Len(e) /\ 3 \in 1..Len(e) BY <2>2, <2>3
    <3>2. e[2] \in Bytes /\ e[3] \in Bytes BY <2>2, <3>1, ElementOfSeq
    <3> QED BY <3>2, BaseAssumption DEF Bytes
  <2>5. ExpectedLength(e) = 3 + product + e[3] BY DEF ExpectedLength
  <2> HIDE DEF product
  <2>6. ExpectedLength(e) = Len(e)
    <3>1. product + e[3] = 1 + Len(id) + UuidSize BY <2>2 DEF product
    <3> QED BY <2>2, <2>3, <2>4, <2>5, <3>1
  <2>7. Len(e) >= 3 /\ Len(e) \in Nat \ {0} BY <2>2, <2>3
  <2>8. HasPayload(e) BY <2>2 DEF HasPayload
  <2> QED BY <2>2, <2>6, <2>7, <2>8 DEF e
<1>3. CASE frame \in {Ping, Pong}
  <2>1. /\ e \in Seq(Bytes)
        /\ e = <<PING_TYPE>> \/ e = <<PONG_TYPE>>
    BY <1>3, SignalBytes
  <2>2. Len(e) = 1 /\ ~HasPayload(e)
    BY <2>1 DEF HasPayload, PING_TYPE, PONG_TYPE, AUTH_TYPE, AUTHENTICATED_TYPE
  <2> HIDE DEF e
  <2> QED BY <2>1, <2>2 DEF e
<1> QED BY <1>1, <1>2, <1>3 DEF Frames

(* A buffer that has passed the two checks of decode() holds all of the    *)
(* frame whose first bytes it holds.                                       *)
LEMMA PassedIsWhole ==
    ASSUME NEW frame \in Frames, NEW src \in Seq(Bytes), src # <<>>,
           \A i \in 1..Len(src) : i <= Len(encode(frame)) => src[i] = encode(frame)[i],
           ~HeaderCut(src), ~Incomplete(src)
    PROVE  Begins(src, encode(frame))
<1> DEFINE e == encode(frame)
<1>1. /\ e \in Seq(Bytes) /\ Len(e) \in Nat \ {0}
      /\ \/ Len(e) = 1 /\ ~HasPayload(e)
         \/ HasPayload(e) /\ Len(e) >= 3 /\ Len(e) = ExpectedLength(e)
  BY FrameBytes
<1>2. Len(src) \in Nat \ {0} BY EmptySeq
<1>3. \A i \in 1..Len(src) : i <= Len(e) => src[i] = e[i] OBVIOUS
<1> HIDE DEF e
<1>4. Len(e) <= Len(src)
  <2>1. CASE Len(e) = 1 BY <1>2, <2>1
  <2>2. CASE HasPayload(e) /\ Len(e) >= 3 /\ Len(e) = ExpectedLength(e)
    <3>1. src[1] = e[1]
      <4>1. 1 \in 1..Len(src) /\ 1 <= Len(e) BY <1>1, <1>2
      <4> QED BY <1>3, <4>1
    <3>2. HasPayload(src) BY <2>2, <3>1 DEF HasPayload
    <3>3. Len(src) >= 3 BY <1>2, <3>2 DEF HeaderCut
    <3>4. src[2] = e[2] /\ src[3] = e[3]
      <4>1. 2 \in 1..Len(src) /\ 2 <= Len(e) /\ 3 \in 1..Len(src) /\ 3 <= Len(e)
        BY <1>1, <1>2, <2>2, <3>3
      <4> QED BY <1>3, <4>1
    <3>5. ExpectedLength(src) = ExpectedLength(e) BY <3>4 DEF ExpectedLength
    <3>6. ~(Len(src) < Len(e)) BY <2>2, <3>2, <3>5 DEF Incomplete
    <3> QED BY <1>1, <1>2, <3>6
  <2> QED BY <1>1, <2>1, <2>2
<1>5. \A i \in 1..Len(e) : src[i] = e[i]
  <2> SUFFICES ASSUME NEW i \in 1..Len(e) PROVE src[i] = e[i] OBVIOUS
  <2>1. i \in 1..Len(src) /\ i <= Len(e) BY <1>1, <1>2, <1>4
  <2> QED BY <1>3, <2>1
<1> QED BY <1>4, <1>5 DEF Begins, e

----------------------------------------------------------------------------
(***************************************************************************)
(* The stream                                                              *)
(***************************************************************************)

(* a is what has arrived of the stream e \o r, whose rest is b: where both *)
(* have a byte, a and e agree.                                             *)
LEMMA CutAgrees ==
    ASSUME NEW a \in Seq(Bytes), NEW b \in Seq(Bytes),
           NEW e \in Seq(Bytes), NEW r \in Seq(Bytes), a \o b = e \o r
    PROVE  \A i \in 1..Len(a) : i <= Len(e) => a[i] = e[i]
<1>1. /\ \A i \in 1..Len(a) : (a \o b)[i] = a[i]
      /\ Len(a) \in Nat
  BY Joined
<1>2. /\ \A i \in 1..Len(e) : (e \o r)[i] = e[i]
      /\ Len(e) \in Nat
  BY Joined
<1> SUFFICES ASSUME NEW i \in 1..Len(a), i <= Len(e) PROVE a[i] = e[i] OBVIOUS
<1>3. i \in 1..Len(e) BY <1>1, <1>2
<1> QED BY <1>1, <1>2, <1>3

LEMMA Associative ==
    ASSUME NEW x \in Seq(Bytes), NEW y \in Seq(Bytes), NEW z \in Seq(Bytes)
    PROVE  (x \o y) \o z = x \o (y \o z)
BY ConcatAssociative

(* What is left of a once e is taken off, and b behind it, is r. *)
LEMMA RestIsLeft ==
    ASSUME NEW a \in Seq(Bytes), NEW b \in Seq(Bytes),
           NEW e \in Seq(Bytes), NEW r \in Seq(Bytes), a \o b = e \o r,
           Begins(a, e)
    PROVE  /\ SubSeq(a, Len(e) + 1, Len(a)) \in Seq(Bytes)
           /\ SubSeq(a, Len(e) + 1, Len(a)) \o b = r
<1> DEFINE s == SubSeq(a, 1, Len(e))
           t == SubSeq(a, Len(e) + 1, Len(a))
<1>1. Len(a) \in Nat /\ Len(e) \in Nat /\ Len(e) <= Len(a)
  BY LenProperties DEF Begins
<1>2. s = e
  <2>1. \A i \in 1..Len(e) : a[0 + i] = e[i] BY <1>1 DEF Begins
  <2>2. SubSeq(a, 0 + 1, 0 + Len(e)) = e
    <3>1. 0 \in Nat /\ e \in Seq(Bytes) OBVIOUS
    <3> QED BY <2>1, <3>1, SubSeqFound
  <2>3. 0 + 1 = 1 /\ 0 + Len(e) = Len(e) BY <1>1
  <2> QED BY <2>2, <2>3
<1>3. t \in Seq(Bytes)
  <2>1. Len(e) + 1 \in Int /\ Len(a) \in Int BY <1>1
  <2>2. \A i \in (Len(e) + 1)..Len(a) : a[i] \in Bytes
    <3> SUFFICES ASSUME NEW i \in (Len(e) + 1)..Len(a) PROVE a[i] \in Bytes OBVIOUS
    <3>1. i \in 1..Len(a) BY <1>1
    <3> QED BY <3>1, ElementOfSeq
  <2> QED BY <2>1, <2>2, SubSeqProperties
<1>4. s \o t = a
  <2>1. 1 \in 1..Len(a)+1 /\ Len(e) \in 1-1..Len(a) /\ Len(a) \in Len(e)..Len(a)
    BY <1>1
  <2>2. s \o t = SubSeq(a, 1, Len(a)) BY <2>1, ConcatAdjacentSubSeq
  <2>3. SubSeq(a, 1, Len(a)) = a BY SubSeqFull
  <2> QED BY <2>2, <2>3
<1> HIDE DEF s, t
<1>5. e \o t = a BY <1>2, <1>4
<1>6. (e \o t) \o b = e \o (t \o b)
  <2>1. e \in Seq(Bytes) /\ t \in Seq(Bytes) /\ b \in Seq(Bytes) BY <1>3
  <2> QED BY <2>1, Associative, Zenon
<1>7. e \o (t \o b) = e \o r BY <1>5, <1>6
<1>8. t \o b \in Seq(Bytes) BY <1>3, ConcatProperties
<1>9. t \o b = r BY <1>7, <1>8, ConcatSimplifications
<1> QED BY <1>3, <1>9 DEF t

(* g[k] are the bytes of the frames of s from the k-th on. *)
Tails(s, g) ==
    /\ g \in [1..Len(s)+1 -> Seq(Bytes)]
    /\ g[Len(s)+1] = <<>>
    /\ \A k \in 1..Len(s) : g[k] = encode(s[k]) \o g[k+1]

(* The frames decoded are the first ones sent, and what is in the buffer   *)
(* and on the wire are the bytes of all the others.                        *)
StreamInv ==
    /\ sent \in Seq(Frames) /\ received \in Seq(Frames)
    /\ wire \in Seq(Bytes) /\ buffer \in Seq(Bytes)
    /\ Len(received) <= Len(sent)
    /\ \A k \in 1..Len(received) : received[k] = sent[k]
    /\ \E g : Tails(sent, g) /\ g[Len(received)+1] = buffer \o wire
    /\ PanicsOnCutHeaderOnly

(* One more frame is sent: its bytes come behind all the others. *)
LEMMA TailsGrow ==
    ASSUME NEW s \in Seq(Frames), NEW frame \in Frames, NEW g, Tails(s, g)
    PROVE  \E h : /\ Tails(Append(s, frame), h)
                  /\ \A k \in 1..Len(s)+1 : h[k] = g[k] \o encode(frame)
<1> DEFINE e == encode(frame)
           n == Len(s)
           t == Append(s, frame)
           h == [k \in 1..n+2 |-> IF k = n+2 THEN <<>> ELSE g[k] \o e]
<1>1. e \in Seq(Bytes) BY FrameBytes
<1>2. n \in Nat BY LenProperties
<1>3. /\ Len(t) = n + 1 /\ t[n + 1] = frame /\ \A k \in 1..n : t[k] = s[k]
  BY AppendProperties
<1>4. /\ g \in [1..n+1 -> Seq(Bytes)] /\ g[n+1] = <<>>
      /\ \A k \in 1..n : g[k] = encode(s[k]) \o g[k+1]
  BY DEF Tails
<1> HIDE DEF e, n, t
<1>5. ASSUME NEW k \in 1..n+1 PROVE h[k] = g[k] \o e /\ h[k] \in Seq(Bytes)
  <2>1. k \in 1..n+2 /\ k # n+2 BY <1>2
  <2>2. h[k] = g[k] \o e BY <2>1
  <2>3. g[k] \in Seq(Bytes) BY <1>4
  <2>4. g[k] \o e \in Seq(Bytes) BY <1>1, <2>3, ConcatProperties
  <2> QED BY <2>2, <2>4
<1>6. h[n+2] = <<>> BY <1>2
<1>7. h \in [1..n+2 -> Seq(Bytes)]
  <2>1. <<>> \in Seq(Bytes) BY EmptySeq
  <2>2. ASSUME NEW k \in 1..n+2
        PROVE  (IF k = n+2 THEN <<>> ELSE g[k] \o e) \in Seq(Bytes)
    <3>1. CASE k = n+2 BY <2>1, <3>1
    <3>2. CASE k # n+2
      <4>1. k \in 1..n+1 BY <1>2, <3>2
      <4>2. g[k] \o e \in Seq(Bytes) BY <1>1, <1>4, <4>1, ConcatProperties
      <4> QED BY <3>2, <4>2
    <3> QED BY <3>1, <3>2
  <2> QED BY <2>2
<1> HIDE DEF h
<1>8. ASSUME NEW k \in 1..n+1 PROVE h[k] = encode(t[k]) \o h[k+1]
  <2>1. CASE k = n + 1
    <3>1. h[k] = <<>> \o e BY <1>4, <1>5, <2>1
    <3>2. k + 1 = n + 2 BY <1>2, <2>1
    <3>3. h[k + 1] = <<>> BY <1>6, <3>2
    <3>4. t[k] = frame BY <1>3, <2>1
    <3>5. <<>> \o e = e /\ e \o <<>> = e BY <1>1, ConcatEmptySeq
    <3> QED BY <3>1, <3>3, <3>4, <3>5 DEF e
  <2>2. CASE k # n + 1
    <3>1. k \in 1..n /\ k + 1 \in 1..n+1 BY <1>2, <2>2
    <3>2. h[k] = (encode(s[k]) \o g[k+1]) \o e BY <1>4, <1>5, <3>1
    <3>3. h[k+1] = g[k+1] \o e BY <1>5, <3>1
    <3>4. encode(s[k]) \in Seq(Bytes) /\ g[k+1] \in Seq(Bytes)
      <4>1. s[k] \in Frames BY <3>1, ElementOfSeq DEF n
      <4> QED BY <1>4, <3>1, <4>1, FrameBytes
    <3>5. (encode(s[k]) \o g[k+1]) \o e = encode(s[k]) \o (g[k+1] \o e)
      BY <1>1, <3>4, Associative, Zenon
    <3>6. t[k] = s[k] BY <1>3, <3>1
    <3> QED BY <3>2, <3>3, <3>5, <3>6
  <2> QED BY <2>1, <2>2
<1>9. Tails(t, h)
  <2>1. Len(t) + 1 = n + 2 BY <1>2, <1>3
  <2> QED BY <1>3, <1>6, <1>7, <1>8, <2>1 DEF Tails
<1>10. \A k \in 1..Len(s)+1 : h[k] = g[k] \o encode(frame)
  BY <1>5 DEF n, e
<1> QED BY <1>9, <1>10 DEF t

(* decode() returns the frame after the first n of s and takes it off the  *)
(* buffer a; the bytes of the others stay in a and in b.                   *)
Takes(s, g, n, a, b) ==
    /\ n < Len(s) /\ s[n+1] \in Frames /\ Decodes(a, s[n+1])
    /\ SubSeq(a, Consumed(a) + 1, Len(a)) \in Seq(Bytes)
    /\ g[n+2] = SubSeq(a, Consumed(a) + 1, Len(a)) \o b

(* n frames are decoded, and a is in the buffer: if a passes the checks of *)
(* decode(), it is the next frame that decode() returns and takes off.     *)
LEMMA NextFrame ==
    ASSUME NEW s \in Seq(Frames), NEW g, Tails(s, g), NEW n \in 0..Len(s),
           NEW a \in Seq(Bytes), NEW b \in Seq(Bytes), g[n+1] = a \o b,
           a # <<>>, ~HeaderCut(a), ~Incomplete(a)
    PROVE  Takes(s, g, n, a, b)
<1>1. Len(s) \in Nat BY LenProperties
<1>2. /\ g \in [1..Len(s)+1 -> Seq(Bytes)] /\ g[Len(s)+1] = <<>>
      /\ \A k \in 1..Len(s) : g[k] = encode(s[k]) \o g[k+1]
  BY DEF Tails
<1>3. n < Len(s)
  <2>1. ASSUME n = Len(s) PROVE FALSE
    <3>1. a \o b = <<>> BY <1>2, <2>1
    <3>2. a = <<>> BY <3>1, ConcatEqualIffEmpty
    <3> QED BY <3>2
  <2> QED BY <1>1, <2>1
<1>4. n + 1 \in 1..Len(s) /\ n + 2 \in 1..Len(s)+1 /\ (n + 1) + 1 = n + 2
  BY <1>1, <1>3
<1>5. s[n+1] \in Frames BY <1>4, ElementOfSeq
<1> DEFINE e == encode(s[n+1])
           r == g[n+2]
<1>6. e \in Seq(Bytes) /\ r \in Seq(Bytes) BY <1>2, <1>4, <1>5, FrameBytes
<1>7. a \o b = e \o r BY <1>2, <1>4
<1>8. \A i \in 1..Len(a) : i <= Len(e) => a[i] = e[i]
  <2> HIDE DEF e, r
  <2> QED BY <1>6, <1>7, CutAgrees
<1>9. Begins(a, e) BY <1>5, <1>8, PassedIsWhole
<1>10. Decodes(a, s[n+1]) BY <1>5, <1>9, FrameDecodes
<1>11. Consumed(a) = Len(e) BY <1>10 DEF Decodes
<1> HIDE DEF e, r
<1>12. /\ SubSeq(a, Len(e) + 1, Len(a)) \in Seq(Bytes)
       /\ SubSeq(a, Len(e) + 1, Len(a)) \o b = r
  BY <1>6, <1>7, <1>9, RestIsLeft, ZenonT(60)
<1> QED BY <1>3, <1>5, <1>10, <1>11, <1>12 DEF r, Takes

LEMMA SendStep ==
    ASSUME StreamInv, NEW frame \in Frames, Send(frame)
    PROVE  StreamInv'
<1> DEFINE n == Len(received)
<1>1. /\ sent \in Seq(Frames) /\ received \in Seq(Frames)
      /\ wire \in Seq(Bytes) /\ buffer \in Seq(Bytes)
      /\ n <= Len(sent) /\ \A k \in 1..n : received[k] = sent[k]
  BY DEF StreamInv
<1>2. PICK g : Tails(sent, g) /\ g[n+1] = buffer \o wire BY DEF StreamInv
<1>3. /\ sent' = Append(sent, frame) /\ wire' = wire \o encode(frame)
      /\ buffer' = buffer /\ received' = received /\ reader' = reader
  BY DEF Send
<1>4. encode(frame) \in Seq(Bytes) BY FrameBytes
<1>5. n \in Nat /\ Len(sent) \in Nat BY <1>1, LenProperties
<1>6. /\ sent' \in Seq(Frames) /\ Len(sent') = Len(sent) + 1
      /\ \A k \in 1..Len(sent) : sent'[k] = sent[k]
  BY <1>1, <1>3, AppendProperties
<1>7. wire' \in Seq(Bytes) BY <1>1, <1>3, <1>4, ConcatProperties
<1>8. PICK h : /\ Tails(Append(sent, frame), h)
               /\ \A k \in 1..Len(sent)+1 : h[k] = g[k] \o encode(frame)
  BY <1>1, <1>2, TailsGrow
<1>9. h[n+1] = buffer \o (wire \o encode(frame))
  <2>1. n + 1 \in 1..Len(sent)+1 BY <1>1, <1>5
  <2>2. h[n+1] = (buffer \o wire) \o encode(frame) BY <1>2, <1>8, <2>1
  <2>3. (buffer \o wire) \o encode(frame) = buffer \o (wire \o encode(frame))
    BY <1>1, <1>4, Associative, Zenon
  <2> QED BY <2>2, <2>3
<1>10. Tails(sent', h) /\ h[Len(received')+1] = buffer' \o wire'
  BY <1>3, <1>8, <1>9
<1>11. \A k \in 1..Len(received') : received'[k] = sent'[k]
  <2> SUFFICES ASSUME NEW k \in 1..n PROVE received[k] = sent'[k] BY <1>3
  <2>1. k \in 1..Len(sent) BY <1>1, <1>5
  <2> QED BY <1>1, <1>6, <2>1
<1>12. Len(received') <= Len(sent') BY <1>1, <1>3, <1>5, <1>6
<1>13. PanicsOnCutHeaderOnly' BY <1>3 DEF StreamInv, PanicsOnCutHeaderOnly
<1>14. received' \in Seq(Frames) /\ buffer' \in Seq(Bytes) BY <1>1, <1>3
<1>15. \E f : Tails(sent', f) /\ f[Len(received')+1] = buffer' \o wire' BY <1>10
<1> QED BY <1>6, <1>7, <1>11, <1>12, <1>13, <1>14, <1>15 DEF StreamInv

LEMMA ReadStep ==
    ASSUME StreamInv, NEW n \in 1..Len(wire), Read(n)
    PROVE  StreamInv'
<1> DEFINE s == SubSeq(wire, 1, n)
           t == SubSeq(wire, n + 1, Len(wire))
<1>1. wire \in Seq(Bytes) /\ buffer \in Seq(Bytes) BY DEF StreamInv
<1>2. /\ buffer' = buffer \o s /\ wire' = t /\ reader' = "decoding"
      /\ sent' = sent /\ received' = received
  BY DEF Read
<1>3. Len(wire) \in Nat BY <1>1, LenProperties
<1>4. s \in Seq(Bytes) /\ t \in Seq(Bytes)
  <2>1. \A i \in 1..Len(wire) : wire[i] \in Bytes BY <1>1, ElementOfSeq
  <2>2. s \in Seq(Bytes)
    <3>1. \A i \in 1..n : wire[i] \in Bytes BY <1>3, <2>1
    <3>2. 1 \in Int /\ n \in Int BY <1>3
    <3> QED BY <3>1, <3>2, SubSeqProperties
  <2>3. t \in Seq(Bytes)
    <3>1. \A i \in n+1..Len(wire) : wire[i] \in Bytes BY <1>3, <2>1
    <3>2. n + 1 \in Int /\ Len(wire) \in Int BY <1>3
    <3> QED BY <3>1, <3>2, SubSeqProperties
  <2> QED BY <2>2, <2>3
<1>5. s \o t = wire
  <2>1. 1 \in 1..Len(wire)+1 /\ n \in 1-1..Len(wire) /\ Len(wire) \in n..Len(wire)
    BY <1>3
  <2>2. s \o t = SubSeq(wire, 1, Len(wire)) BY <1>1, <2>1, ConcatAdjacentSubSeq
  <2>3. SubSeq(wire, 1, Len(wire)) = wire BY <1>1, SubSeqFull
  <2> QED BY <2>2, <2>3
<1> HIDE DEF s, t
<1>6. buffer' \in Seq(Bytes) /\ wire' \in Seq(Bytes)
  BY <1>1, <1>2, <1>4, ConcatProperties
<1>7. buffer' \o wire' = buffer \o wire
  <2>1. (buffer \o s) \o t = buffer \o (s \o t) BY <1>1, <1>4, Associative, Zenon
  <2> QED BY <1>2, <1>5, <2>1
<1>8. PanicsOnCutHeaderOnly' BY <1>2 DEF PanicsOnCutHeaderOnly
<1> QED BY <1>2, <1>6, <1>7, <1>8 DEF StreamInv

LEMMA DecodeStep ==
    ASSUME StreamInv, DecodeFrame
    PROVE  StreamInv'
<1> DEFINE n == Len(received)
<1>1. /\ sent \in Seq(Frames) /\ received \in Seq(Frames)
      /\ wire \in Seq(Bytes) /\ buffer \in Seq(Bytes)
      /\ n <= Len(sent) /\ \A k \in 1..n : received[k] = sent[k]
  BY DEF StreamInv
<1>2. PICK g : Tails(sent, g) /\ g[n+1] = buffer \o wire BY DEF StreamInv
<1>3. /\ received' = Append(received, Decoded(buffer))
      /\ buffer' = SubSeq(buffer, Consumed(buffer) + 1, Len(buffer))
      /\ sent' = sent /\ wire' = wire /\ reader' = reader /\ reader = "decoding"
  BY DEF DecodeFrame
<1>4. buffer # <<>> /\ ~HeaderCut(buffer) /\ ~Incomplete(buffer)
  BY DEF DecodeFrame, decode
<1>5. n \in Nat /\ Len(sent) \in Nat BY <1>1, LenProperties
<1>6. /\ n < Len(sent) /\ sent[n+1] \in Frames /\ Decodes(buffer, sent[n+1])
      /\ SubSeq(buffer, Consumed(buffer) + 1, Len(buffer)) \in Seq(Bytes)
      /\ g[n+2] = SubSeq(buffer, Consumed(buffer) + 1, Len(buffer)) \o wire
  <2>1. n \in 0..Len(sent) BY <1>1, <1>5
  <2>2. sent \in Seq(Frames) /\ buffer \in Seq(Bytes) /\ wire \in Seq(Bytes) BY <1>1
  <2> HIDE DEF n
  <2>3. Takes(sent, g, n, buffer, wire)
    BY <1>2, <1>4, <2>1, <2>2, NextFrame, ZenonT(60)
  <2> QED BY <2>3 DEF Takes
<1>7. received' = Append(received, sent[n+1]) BY <1>3, <1>6 DEF Decodes
<1>8. /\ received' \in Seq(Frames) /\ Len(received') = n + 1
      /\ \A k \in 1..n : received'[k] = received[k]
      /\ received'[n+1] = sent[n+1]
  BY <1>1, <1>6, <1>7, AppendProperties
<1> HIDE DEF n
<1>9. \A k \in 1..Len(received') : received'[k] = sent'[k]
  <2> SUFFICES ASSUME NEW k \in 1..n+1 PROVE received'[k] = sent[k] BY <1>3, <1>8
  <2>1. CASE k = n + 1 BY <1>8, <2>1
  <2>2. CASE k # n + 1
    <3>1. k \in 1..n BY <1>5, <2>2
    <3> QED BY <1>1, <1>8, <3>1
  <2> QED BY <2>1, <2>2
<1>10. g[Len(received')+1] = buffer' \o wire'
  <2>1. Len(received') + 1 = n + 2 BY <1>5, <1>8
  <2> QED BY <1>3, <1>6, <2>1
<1>11. Len(received') <= Len(sent') BY <1>3, <1>5, <1>6, <1>8
<1>12. PanicsOnCutHeaderOnly' BY <1>3 DEF PanicsOnCutHeaderOnly
<1>13. buffer' \in Seq(Bytes) /\ wire' \in Seq(Bytes) /\ sent' \in Seq(Frames)
  BY <1>1, <1>3, <1>6
<1>14. \E f : Tails(sent', f) /\ f[Len(received')+1] = buffer' \o wire'
  BY <1>2, <1>3, <1>10
<1> QED BY <1>8, <1>9, <1>11, <1>12, <1>13, <1>14 DEF StreamInv

(* A panic of decode() with less than a header in the buffer, or none. *)
LEMMA PanicStep ==
    ASSUME StreamInv, DecodePanics
    PROVE  StreamInv'
<1>1. /\ reader' = "panicked" /\ buffer' = buffer /\ wire' = wire
      /\ sent' = sent /\ received' = received
  BY DEF DecodePanics
<1>2. buffer # <<>> /\ (HeaderCut(buffer) \/ (~Incomplete(buffer) /\ Overrun(buffer)))
  BY DEF DecodePanics, decode
<1>3. HeaderCut(buffer)
  <2>1. ASSUME ~HeaderCut(buffer) PROVE FALSE
    <3>1. PICK g : Tails(sent, g) /\ g[Len(received)+1] = buffer \o wire
      BY DEF StreamInv
    <3> DEFINE n == Len(received)
    <3>2. /\ sent \in Seq(Frames) /\ received \in Seq(Frames)
          /\ wire \in Seq(Bytes) /\ buffer \in Seq(Bytes) /\ n <= Len(sent)
      BY DEF StreamInv
    <3>3. n \in 0..Len(sent)
      <4>1. n \in Nat /\ Len(sent) \in Nat BY <3>2, LenProperties
      <4> QED BY <3>2, <4>1
    <3> HIDE DEF n
    <3>4. g[n+1] = buffer \o wire BY <3>1 DEF n
    <3>5. ~Incomplete(buffer) /\ Overrun(buffer) BY <1>2, <2>1
    <3>6. Takes(sent, g, n, buffer, wire)
      BY <1>2, <2>1, <3>1, <3>2, <3>3, <3>4, <3>5, NextFrame, ZenonT(60)
    <3> QED BY <3>5, <3>6 DEF Takes, Decodes
  <2> QED BY <2>1
<1>4. Len(buffer) < 3 BY <1>3 DEF HeaderCut
<1>5. PanicsOnCutHeaderOnly' BY <1>1, <1>4 DEF PanicsOnCutHeaderOnly
<1> QED BY <1>1, <1>5 DEF StreamInv

LEMMA StreamStep == StreamInv /\ [Next]_vars => StreamInv'
<1> SUFFICES ASSUME StreamInv, [Next]_vars PROVE StreamInv' OBVIOUS
<1>1. CASE UNCHANGED streamVars
  BY <1>1 DEF streamVars, StreamInv, PanicsOnCutHeaderOnly
<1>2. CASE DecodeNone
  BY <1>2 DEF DecodeNone, StreamInv, PanicsOnCutHeaderOnly
<1>3. CASE Reader BY <1>2, <1>3, DecodeStep, PanicStep DEF Reader
<1>4. CASE \/ \E addr \in Addresses, data \in Payloads : IngressForwards(addr, data)
           \/ \E bytes \in out : EgressAnswers(bytes)
           \/ \E bytes \in back : IngressReplies(bytes)
  BY <1>1, <1>4 DEF IngressForwards, EgressAnswers, IngressReplies
<1>5. CASE UNCHANGED vars BY <1>1, <1>5 DEF vars
<1>6. CASE \E frame \in Frames : Send(frame) BY <1>6, SendStep
<1>7. CASE \E n \in 1..Len(wire) : Read(n) BY <1>7, ReadStep
<1> QED BY <1>3, <1>4, <1>5, <1>6, <1>7 DEF Next

(* StreamInv is an inductive invariant of the codec (frames/v1.rs:92-210). *)
THEOREM StreamInductive == Spec => []StreamInv
<1>1. Init => StreamInv
  <2> SUFFICES ASSUME Init PROVE StreamInv OBVIOUS
  <2>1. /\ sent = <<>> /\ wire = <<>> /\ buffer = <<>> /\ received = <<>>
        /\ reader = "starving"
    BY DEF Init
  <2>2. /\ sent \in Seq(Frames) /\ received \in Seq(Frames) /\ Len(sent) = 0
        /\ wire \in Seq(Bytes) /\ buffer \in Seq(Bytes) /\ Len(received) = 0
    BY <2>1, EmptySeq
  <2> DEFINE g == [k \in 1..1 |-> <<>>]
  <2>3. g \in [1..1 -> Seq(Bytes)] /\ g[1] = <<>> BY EmptySeq
  <2> HIDE DEF g
  <2>4. Len(sent) + 1 = 1 /\ Len(received) + 1 = 1 /\ 1..Len(sent) = {} BY <2>2
  <2>5. Tails(sent, g) BY <2>3, <2>4 DEF Tails
  <2>6. buffer \o wire = <<>> BY <2>1, EmptySeq, ConcatEmptySeq
  <2>7. \E f : Tails(sent, f) /\ f[Len(received)+1] = buffer \o wire
    BY <2>3, <2>4, <2>5, <2>6
  <2>8. PanicsOnCutHeaderOnly BY <2>1 DEF PanicsOnCutHeaderOnly
  <2>9. /\ Len(received) <= Len(sent)
        /\ \A k \in 1..Len(received) : received[k] = sent[k]
    BY <2>2
  <2> QED BY <2>2, <2>7, <2>8, <2>9 DEF StreamInv
<1> QED BY <1>1, StreamStep, PTL DEF Spec

(* The frames decoded are the frames encoded, in their order, for any      *)
(* number of frames, names of any admissible length and any cut of the     *)
(* stream into pieces: frames/v1.rs:92-210.                                *)
THEOREM StreamIsKept == Spec => []ReceivedAreSent
<1>1. StreamInv => ReceivedAreSent
  <2> SUFFICES ASSUME StreamInv PROVE IsPrefix(received, sent) BY DEF ReceivedAreSent
  <2>1. /\ sent \in Seq(Frames) /\ received \in Seq(Frames)
        /\ Len(received) <= Len(sent)
        /\ \A k \in 1..Len(received) : received[k] = sent[k]
    BY DEF StreamInv
  <2>2. SubSeq(received, 1, Len(received)) = received BY <2>1, SubSeqFull
  <2>3. SubSeq(sent, 1, Len(received)) = received
    <3>1. Len(received) \in Nat BY <2>1, LenProperties
    <3>2. \A k \in 1..Len(received) : sent[0 + k] = received[k] BY <2>1, <3>1
    <3>3. SubSeq(sent, 0 + 1, 0 + Len(received)) = received
      <4>1. received \in Seq(Frames) /\ 0 \in Nat BY <2>1
      <4> QED BY <3>2, <4>1, SubSeqFound
    <3>4. 0 + 1 = 1 /\ 0 + Len(received) = Len(received) BY <3>1
    <3> QED BY <3>3, <3>4
  <2> QED BY <2>1, <2>2, <2>3 DEF IsPrefix
<1> QED BY <1>1, StreamInductive, PTL

(* A reader panics on a header that is cut, and on nothing else: the       *)
(* lengths in a frame never lead beyond its end (frames/v1.rs:101-130,     *)
(* 162-191).                                                               *)
THEOREM OnlyCutHeadersPanic == Spec => []PanicsOnCutHeaderOnly
<1>1. StreamInv => PanicsOnCutHeaderOnly BY DEF StreamInv
<1> QED BY <1>1, StreamInductive, PTL
============================================================================
