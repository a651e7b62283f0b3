---------------------------- MODULE IngressProofs ----------------------------
(***************************************************************************)
(* Both kinds of ingress implement the pool of tunnels: whatever their     *)
(* sockets, listeners and connections do, the vector changes only as       *)
(* TunnelPool says, so what is proved of the pool holds of the ingress.    *)
(* And no tunnel of a UDP ingress stays tied to a socket that stop() took  *)
(* away.  For every number of tunnels, sockets, listeners and connections. *)
(***************************************************************************)
EXTENDS UdpIngress, TunnelPoolProofs

(* What a TCP ingress has besides its pool. *)
CONSTANTS Connections, MaxListeners, MaxStreams, DebugLog
VARIABLES listener, bound, loop, client

Tcp == INSTANCE TcpIngress

(* Sockets are numbered in the order they are opened. *)
Numbered ==
    /\ socket <= opened
    /\ \A t \in Tunnels : uses[t] <= opened

(* Of the sockets opened so far only the one of the ingress is not         *)
(* cancelled.                                                              *)
OldSocketsCancelled == \A g \in 1..opened : g # socket => g \in cancelled

IInv ==
    /\ PoolIInv
    /\ PicksRotate
    /\ TypeOK
    /\ Numbered
    /\ OldSocketsCancelled

LEMMA InitIInv == Init => IInv
<1> SUFFICES ASSUME Init PROVE IInv OBVIOUS
<1>1. PoolIInv BY PoolInitIInv DEF Init
<1>2. PicksRotate BY DEF Init, PoolInit, PicksRotate
<1> QED
  BY <1>1, <1>2, MaxSocketsAssumption DEF Init, IInv, PoolIInv, TypeOK, Numbered,
     OldSocketsCancelled, Sockets

(* assign_tunnel() finds no socket. *)
Refuses(t) ==
    /\ reg[t] = "none"
    /\ reg' = [reg EXCEPT ![t] = "refused"]
    /\ UNCHANGED <<conn, watcher, tunnels, rotation, picks>>

PoolStep(t) == \/ Establish(t) \/ Close(t) \/ AssignBegin(t) \/ AssignStep(t)
               \/ WatcherRemoves(t)

(* What a step of the ingress does to the pool: nothing, a step of the     *)
(* pool, or a refusal.  A reader that is cancelled closes its tunnel.      *)
LEMMA PoolPart ==
    ASSUME PoolTypeOK, [Next]_vars
    PROVE  \/ UNCHANGED poolVars
           \/ Pick
           \/ \E t \in Tunnels : PoolStep(t) \/ Refuses(t)
<1>1. CASE Start \/ Stop \/ UNCHANGED vars BY <1>1 DEF Start, Stop, vars
<1>2. ASSUME NEW g \in Sockets,
             StartSpawn(g) \/ Forward(g) \/ ForwarderFails(g) \/ ForwarderCancelled(g)
      PROVE  UNCHANGED poolVars \/ Pick
  BY <1>2 DEF StartSpawn, Forward, ForwarderFails, ForwarderCancelled
<1>3. ASSUME NEW t \in Tunnels, Arrive(t) \/ AssignRefused(t) \/ AssignGetSocket(t) \/ Watch(t)
      PROVE  PoolStep(t) \/ Refuses(t)
  BY <1>3 DEF Arrive, AssignRefused, AssignGetSocket, Watch, PoolStep, Refuses
<1>4. ASSUME NEW t \in Tunnels, Assign(t)
      PROVE  UNCHANGED poolVars \/ PoolStep(t)
  BY <1>4 DEF Assign, AssignReader, AssignRest, PoolStep
<1>5. ASSUME NEW t \in Tunnels, ReaderSeesEof(t)
      PROVE  UNCHANGED poolVars
  BY <1>5 DEF ReaderSeesEof
<1>6. ASSUME NEW t \in Tunnels, ReaderCancelled(t)
      PROVE  UNCHANGED poolVars \/ PoolStep(t)
  <2>1. /\ conn' = [conn EXCEPT ![t] = IF conn[t] = "open" THEN "eof" ELSE conn[t]]
        /\ UNCHANGED <<reg, watcher, tunnels, rotation, picks>>
    BY <1>6 DEF ReaderCancelled
  <2>2. CASE conn[t] = "open" BY <2>1, <2>2 DEF PoolStep, Close
  <2>3. CASE conn[t] # "open"
    <3>1. conn' = conn BY <2>1, <2>3 DEF PoolTypeOK
    <3> QED BY <2>1, <3>1 DEF poolVars
  <2> QED BY <2>2, <2>3
<1> QED BY <1>1, <1>2, <1>3, <1>4, <1>5, <1>6 DEF Next, Reader

(* The picks stay in step with the counter. *)
LEMMA PicksStep ==
    ASSUME PoolIInv, PicksRotate, [Next]_vars
    PROVE  PicksRotate'
<1>1. CASE UNCHANGED <<tunnels, rotation, picks>> BY <1>1 DEF PicksRotate
<1>2. CASE Pick \/ \E t \in Tunnels : PoolStep(t)
  BY <1>2, TurnStep DEF PoolStep, PoolNext
<1> QED BY <1>1, <1>2, PoolPart DEF PoolIInv, Refuses, poolVars

(* The invariant of the pool is one of the ingress. *)
LEMMA PoolInvariantStep ==
    ASSUME PoolIInv, [Next]_vars
    PROVE  PoolIInv'
<1>1. CASE UNCHANGED poolVars
  BY <1>1 DEF poolVars, PoolIInv, PoolTypeOK, OnlyAssignedInPool, Closed,
     WatcherDoneMeansClosed, OpenTunnelsInPool, NoDuplicates, InPool
<1>2. CASE Pick BY <1>2, PickStep
<1>3. ASSUME NEW t \in Tunnels, PoolStep(t) PROVE PoolIInv'
  BY <1>3, OutsideStep, PushStep, WatcherStep DEF PoolStep, AssignStep
<1>4. ASSUME NEW t \in Tunnels, Refuses(t) PROVE PoolIInv'
  <2>1. PoolTypeOK' BY <1>4 DEF Refuses, PoolIInv, PoolTypeOK
  <2>2. \A u \in Tunnels : reg'[u] = "assigned" <=> reg[u] = "assigned"
    BY <1>4 DEF Refuses, PoolIInv, PoolTypeOK
  <2> QED
    BY <1>4, <2>1, <2>2 DEF Refuses, PoolIInv, OnlyAssignedInPool, Closed,
       WatcherDoneMeansClosed, OpenTunnelsInPool, NoDuplicates, InPool
<1> QED BY <1>1, <1>2, <1>3, <1>4, PoolPart DEF PoolIInv

(* The tasks and the socket. *)
LEMMA SocketStep ==
    ASSUME IInv, [Next]_vars, PoolIInv', PicksRotate'
    PROVE  IInv'
<1> USE MaxSocketsAssumption DEF IInv, Sockets
<1>0. PoolTypeOK' BY DEF PoolIInv
<1>1. CASE Start
  BY <1>0, <1>1 DEF Start, TypeOK, Numbered, OldSocketsCancelled
<1>2. CASE Stop
  BY <1>0, <1>2 DEF Stop, TypeOK, Numbered, OldSocketsCancelled
<1>3. ASSUME NEW t \in Tunnels, AssignGetSocket(t) PROVE IInv'
  BY <1>0, <1>3 DEF AssignGetSocket, TypeOK, Numbered, OldSocketsCancelled
<1>4. CASE /\ UNCHANGED <<socket, opened, cancelled, uses>>
           /\ forwarder' \in [Sockets -> {"none", "spawn", "running", "failed", "stopped"}]
           /\ reader' \in [Tunnels -> {"none", "reading", "done"}]
  BY <1>0, <1>4 DEF TypeOK, Numbered, OldSocketsCancelled
<1>5. ASSUME NEW g \in Sockets,
             StartSpawn(g) \/ Forward(g) \/ ForwarderFails(g) \/ ForwarderCancelled(g)
      PROVE  IInv'
  BY <1>4, <1>5 DEF StartSpawn, Forward, ForwarderFails, ForwarderCancelled, udpVars, TypeOK
<1>6. ASSUME NEW t \in Tunnels,
             Arrive(t) \/ AssignRefused(t) \/ Assign(t) \/ Watch(t) \/ Reader(t)
      PROVE  IInv'
  BY <1>4, <1>6 DEF Arrive, AssignRefused, Assign, AssignReader, AssignRest, Watch,
     Reader, ReaderSeesEof, ReaderCancelled, udpVars, TypeOK
<1>7. CASE UNCHANGED vars
  BY <1>4, <1>7 DEF vars, udpVars, TypeOK
<1> QED BY <1>1, <1>2, <1>3, <1>5, <1>6, <1>7 DEF Next

(* IInv is an inductive invariant of the UDP ingress. *)
THEOREM Inductive == Spec => []IInv
<1>1. Init => IInv BY InitIInv
<1>2. IInv /\ [Next]_vars => IInv' BY PoolInvariantStep, PicksStep, SocketStep DEF IInv
<1> QED BY <1>1, <1>2, PTL DEF Spec

(* Every variable of the UDP ingress keeps its type. *)
THEOREM TypeCorrect == Spec => []TypeOK
<1>1. IInv => TypeOK BY DEF IInv
<1> QED BY <1>1, Inductive, PTL

(* However start(), stop() and assign_tunnel() interleave, a tunnel whose  *)
(* replies go to an old socket has a reader that is cancelled:             *)
(* udp_ingress.rs:42-58, 172-182.                                          *)
THEOREM NoTunnelKeepsOldSocket == Spec => []StaleSocketIsCancelled
<1>1. IInv => StaleSocketIsCancelled
  BY DEF IInv, TypeOK, Numbered, OldSocketsCancelled, StaleSocketIsCancelled
<1> QED BY <1>1, Inductive, PTL

(* A datagram is forwarded to a vector that holds every open tunnel that   *)
(* was assigned, once, and gives them turns: udp_ingress.rs:105-121,       *)
(* 208-258.                                                                *)
THEOREM UdpPoolSafe == Spec => [](OpenTunnelsInPool /\ NoDuplicates /\ RoundRobin)
<1>1. IInv => OpenTunnelsInPool /\ NoDuplicates /\ RoundRobin
  BY RotationIsFair DEF IInv, PoolIInv
<1> QED BY <1>1, Inductive, PTL

(* Every step of the ingress is a step of the pool or leaves it alone. *)
LEMMA UdpStepImplementsPool ==
    ASSUME PoolTypeOK, PoolTypeOK', [Next]_vars
    PROVE  [Pool!PoolNext]_(Pool!poolVars)
<1>1. CASE UNCHANGED poolVars BY <1>1 DEF poolVars, Pool!poolVars
<1>2. CASE Pick
  <2>1. Pool!Pick BY <1>2 DEF Pick, Pool!Pick, Rotate, Pool!Rotate, Picked, Pool!Picked
  <2> QED BY <2>1 DEF Pool!PoolNext
<1>3. ASSUME NEW t \in Tunnels, PoolStep(t) PROVE Pool!PoolNext
  <2>1. CASE Establish(t)
    <3>1. Pool!Establish(t) BY <2>1 DEF Establish, Pool!Establish
    <3> QED BY <3>1 DEF Pool!PoolNext
  <2>2. CASE Close(t)
    <3>1. Pool!Close(t) BY <2>2 DEF Close, Pool!Close
    <3> QED BY <3>1 DEF Pool!PoolNext
  <2>3. CASE AssignBegin(t)
    <3>1. Pool!AssignBegin(t) BY <2>3 DEF AssignBegin, Pool!AssignBegin, PoolTypeOK
    <3> QED BY <3>1 DEF Pool!PoolNext
  <2>4. CASE AssignWatch(t)
    <3>1. Pool!AssignWatch(t) BY <2>4 DEF AssignWatch, Pool!AssignWatch, PoolTypeOK
    <3> QED BY <3>1 DEF Pool!PoolNext, Pool!AssignStep
  <2>5. CASE AssignPush(t)
    <3>1. Pool!AssignPush(t) BY <2>5 DEF AssignPush, Pool!AssignPush, PoolTypeOK
    <3> QED BY <3>1 DEF Pool!PoolNext, Pool!AssignStep
  <2>6. CASE WatcherRemoves(t)
    <3>1. Pool!WatcherRemoves(t)
      BY <2>6 DEF WatcherRemoves, Pool!WatcherRemoves, Closed, Pool!Closed, InPool,
         Pool!InPool, SwapRemove, Pool!SwapRemove
    <3> QED BY <3>1 DEF Pool!PoolNext
  <2> QED BY <1>3, <2>1, <2>2, <2>3, <2>4, <2>5, <2>6 DEF PoolStep, AssignStep
<1>4. ASSUME NEW t \in Tunnels, Refuses(t) PROVE UNCHANGED Pool!poolVars
  BY <1>4 DEF Refuses, Pool!poolVars, PoolTypeOK
<1> QED BY <1>1, <1>2, <1>3, <1>4, PoolPart

(* The UDP ingress refines the tunnel pool: udp_ingress.rs:41-124,         *)
(* 208-258.                                                                *)
THEOREM UdpImplementsPool == Spec => PoolRefined
<1>1. Init => Pool!PoolInit BY DEF Init, PoolInit, Pool!PoolInit
<1>2. IInv /\ IInv' /\ [Next]_vars => [Pool!PoolNext]_(Pool!poolVars)
  BY UdpStepImplementsPool DEF IInv, PoolIInv
<1> QED BY <1>1, <1>2, Inductive, PTL DEF Spec, PoolRefined, Pool!PoolSpec
----------------------------------------------------------------------------
(***************************************************************************)
(* The TCP ingress                                                         *)
(***************************************************************************)

(* Every step of the ingress is a step of the pool or leaves it alone. *)
LEMMA TcpStepImplementsPool == [Tcp!Next]_(Tcp!vars) => [PoolNext]_poolVars
<1> SUFFICES ASSUME [Tcp!Next]_(Tcp!vars) PROVE [PoolNext]_poolVars OBVIOUS
<1> USE DEF poolVars, Tcp!poolVars
<1>1. ASSUME NEW t \in Tunnels, Tcp!PoolStep(t) PROVE PoolNext
  <2>1. \/ Establish(t) \/ Close(t) \/ AssignBegin(t) \/ AssignStep(t)
        \/ WatcherRemoves(t)
    BY <1>1 DEF Tcp!PoolStep, Tcp!Establish, Tcp!Close, Tcp!AssignBegin,
       Tcp!AssignStep, Tcp!AssignWatch, Tcp!AssignPush, Tcp!WatcherRemoves,
       Tcp!Closed, Tcp!InPool, Tcp!SwapRemove, Establish, Close, AssignBegin,
       AssignStep, AssignWatch, AssignPush, WatcherRemoves, Closed, InPool, SwapRemove
  <2> QED BY <2>1 DEF PoolNext
<1>2. CASE Tcp!Start \/ Tcp!Stop BY <1>2 DEF Tcp!Start, Tcp!Stop
<1>3. CASE \E l \in Tcp!Listeners :
             \/ Tcp!StartSpawn(l) \/ Tcp!AcceptFails(l) \/ Tcp!AcceptPanics(l)
             \/ \E k \in Connections : Tcp!Accept(l, k)
  BY <1>3 DEF Tcp!StartSpawn, Tcp!AcceptFails, Tcp!AcceptPanics, Tcp!Accept
<1>4. ASSUME NEW k \in Connections,
             Tcp!StreamTask(k) \/ Tcp!Open(k) \/ Tcp!TargetEnds(k) \/ Tcp!PipeEnds(k)
      PROVE  [PoolNext]_poolVars
  <2>1. CASE Tcp!Route(k)
    <3>1. Pick BY <2>1 DEF Tcp!Route, Tcp!Pick, Tcp!Rotate, Tcp!Picked, Pick, Rotate, Picked
    <3> QED BY <3>1 DEF PoolNext
  <2>2. CASE \/ Tcp!RouteFails(k) \/ Tcp!OpenFails(k) \/ Tcp!PipeBreaks(k)
             \/ Tcp!Open(k) \/ Tcp!TargetEnds(k) \/ Tcp!PipeEnds(k)
    BY <2>2 DEF Tcp!RouteFails, Tcp!OpenFails, Tcp!PipeBreaks, Tcp!Open,
       Tcp!TargetEnds, Tcp!PipeEnds
  <2> QED BY <1>4, <2>1, <2>2 DEF Tcp!StreamTask
<1>5. CASE UNCHANGED Tcp!vars BY <1>5 DEF Tcp!vars
<1> QED BY <1>1, <1>2, <1>3, <1>4, <1>5 DEF Tcp!Next, PoolNext

(* The TCP ingress changes its vector of tunnels as the pool does. *)
LEMMA TcpImplementsPool == Tcp!Spec => PoolSpec
<1>1. Tcp!Init => PoolInit BY DEF Tcp!Init, Tcp!PoolInit, PoolInit
<1> QED BY <1>1, TcpStepImplementsPool, PTL DEF Tcp!Spec, PoolSpec

(* A connection is routed to a vector that holds every open tunnel that    *)
(* was assigned, once, and gives them turns: tcp_ingress.rs:169-171,       *)
(* 191-206.                                                                *)
THEOREM TcpPoolSafe == Tcp!Spec => [](OpenTunnelsInPool /\ NoDuplicates /\ RoundRobin)
BY TcpImplementsPool, OpenTunnelsArePicked, OneShareEach, TurnsAreFair, PTL
============================================================================
