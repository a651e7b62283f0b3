---------------------------- MODULE EgressProofs ----------------------------
(***************************************************************************)
(* Safety of the egress lifecycle for every number of callers, processes,  *)
(* streams and retries.                                                    *)
(***************************************************************************)
EXTENDS Egress, TLAPS

(* A start() that passed its check owns process_lock, and nobody has put a *)
(* process there since: only start() does, and it needs the lock.          *)
StartOwnsLock ==
    \A c \in Callers : pc[c] \in {"notify", "spawn"} =>
        processLock = {c} /\ process = 0 /\ spawned < MaxProcesses

(* A stop() holds a process exactly while it cancels and awaits it. *)
StopHolds ==
    \A c \in Callers : held[c] # 0 <=> pc[c] \in {"cancel", "join"}

(* Process numbers are given out in order. *)
Numbered ==
    /\ process <= spawned
    /\ \A c \in Callers : held[c] <= spawned
    /\ \A p \in Processes : task[p] = "unborn" <=> p > spawned

(* A wait is entered below the bound on retries. *)
WaitBelowBound == \A p \in Processes : task[p] = "waiting" => retry[p] < MaxRetry

IInv ==
    /\ TypeOK
    /\ StartOwnsLock
    /\ StopHolds
    /\ Numbered
    /\ WaitBelowBound
    /\ NoOrphanTask
    /\ HeldAreDistinct
    /\ EndedTaskClosedItsTunnel

USE DEF Processes, Running

LEMMA InitIInv == Init => IInv
BY MaxProcessesAssumption, MaxRetryAssumption
   DEF Init, IInv, TypeOK, StartOwnsLock, StopHolds, Numbered, WaitBelowBound,
       NoOrphanTask, HeldAreDistinct, EndedTaskClosedItsTunnel, States, Free

(* A step of start() or stop(), by conjunct of the invariant. *)
LEMMA CallerStep ==
    ASSUME IInv, NEW c \in Callers, Start(c) \/ Stop(c)
    PROVE  IInv'
<1> USE MaxProcessesAssumption, MaxRetryAssumption DEF IInv, taskVars, callerVars
<1>1. CASE StartBegin(c)
  BY <1>1 DEF StartBegin, TypeOK, StartOwnsLock, StopHolds, Numbered,
     WaitBelowBound, NoOrphanTask, HeldAreDistinct, EndedTaskClosedItsTunnel
<1>2. CASE StartRefused(c)
  BY <1>2 DEF StartRefused, TypeOK, StartOwnsLock, StopHolds, Numbered,
     WaitBelowBound, NoOrphanTask, HeldAreDistinct, EndedTaskClosedItsTunnel
<1>3. CASE StartNotify(c)
  BY <1>3 DEF StartNotify, TypeOK, StartOwnsLock, StopHolds, Numbered, States,
     WaitBelowBound, NoOrphanTask, HeldAreDistinct, EndedTaskClosedItsTunnel
<1>4. CASE StartSpawn(c)
  <2> USE <1>4 DEF StartSpawn
  <2>1. TypeOK' BY DEF TypeOK, StartOwnsLock
  <2>2. StartOwnsLock' BY DEF TypeOK, StartOwnsLock
  <2>3. StopHolds' BY DEF TypeOK, StopHolds
  <2>4. Numbered' BY DEF TypeOK, StartOwnsLock, Numbered
  <2>5. WaitBelowBound' BY DEF TypeOK, WaitBelowBound
  <2>6. NoOrphanTask' BY DEF TypeOK, NoOrphanTask, StartOwnsLock
  <2>7. HeldAreDistinct' BY DEF TypeOK, HeldAreDistinct, Numbered
  <2>8. EndedTaskClosedItsTunnel'
    BY DEF TypeOK, EndedTaskClosedItsTunnel, Numbered, StartOwnsLock
  <2> QED BY <2>1, <2>2, <2>3, <2>4, <2>5, <2>6, <2>7, <2>8
<1>5. CASE StopTake(c)
  <2> USE <1>5 DEF StopTake
  <2>1. TypeOK' BY DEF TypeOK
  <2>2. StartOwnsLock' BY DEF TypeOK, StartOwnsLock
  <2>3. StopHolds' BY DEF TypeOK, StopHolds
  <2>4. Numbered' BY DEF TypeOK, Numbered
  <2>5. WaitBelowBound' BY DEF TypeOK, WaitBelowBound
  <2>6. NoOrphanTask' BY DEF TypeOK, NoOrphanTask, StopHolds
  <2>7. HeldAreDistinct' BY DEF TypeOK, HeldAreDistinct, StopHolds
  <2>8. EndedTaskClosedItsTunnel' BY DEF TypeOK, EndedTaskClosedItsTunnel
  <2> QED BY <2>1, <2>2, <2>3, <2>4, <2>5, <2>6, <2>7, <2>8
<1>6. CASE StopRefused(c)
  BY <1>6 DEF StopRefused, TypeOK, StartOwnsLock, StopHolds, Numbered,
     WaitBelowBound, NoOrphanTask, HeldAreDistinct, EndedTaskClosedItsTunnel
<1>7. CASE StopCancel(c)
  <2> USE <1>7 DEF StopCancel
  <2>1. TypeOK'
    <3>1. held[c] \in Processes BY DEF TypeOK, StopHolds
    <3> QED BY <3>1 DEF TypeOK
  <2>2. StartOwnsLock' BY DEF TypeOK, StartOwnsLock
  <2>3. StopHolds' BY DEF TypeOK, StopHolds
  <2>4. UNCHANGED <<process, held, spawned, task, tunnel, retry>> OBVIOUS
  <2> QED
    BY <2>1, <2>2, <2>3, <2>4 DEF Numbered, WaitBelowBound, NoOrphanTask,
       HeldAreDistinct, EndedTaskClosedItsTunnel
<1>8. CASE StopJoin(c) \/ StopJoinError(c)
  <2> USE <1>8 DEF StopJoin, StopJoinError
  <2>1. TypeOK'
    <3>1. CASE StopJoin(c) BY <3>1 DEF TypeOK
    <3>2. CASE StopJoinError(c) BY <3>2 DEF TypeOK
    <3> QED BY <3>1, <3>2
  <2>2. StartOwnsLock' BY DEF TypeOK, StartOwnsLock
  <2>3. StopHolds' BY DEF TypeOK, StopHolds
  <2>4. Numbered'
    <3>1. /\ UNCHANGED <<process, spawned, task>>
          /\ \A d \in Callers : held'[d] = held[d] \/ held'[d] = 0
      BY DEF TypeOK
    <3>2. Numbered /\ spawned \in Nat BY DEF TypeOK
    <3>3. \A d \in Callers : held'[d] <= spawned BY <3>1, <3>2 DEF Numbered
    <3>4. \A p \in Processes : task'[p] = "unborn" <=> p > spawned
      BY <3>1, <3>2, Zenon DEF Numbered
    <3>5. process' <= spawned BY <3>1, <3>2, Zenon DEF Numbered
    <3> QED BY <3>1, <3>3, <3>4, <3>5, Zenon DEF Numbered
  <2>5. WaitBelowBound' BY DEF TypeOK, WaitBelowBound
  <2>6. NoOrphanTask' BY DEF TypeOK, NoOrphanTask, StopHolds
  <2>7. HeldAreDistinct'
    <3>1. process' = process /\ \A d \in Callers : held'[d] # 0 => held'[d] = held[d]
      BY DEF TypeOK
    <3> QED BY <3>1 DEF HeldAreDistinct
  <2>8. EndedTaskClosedItsTunnel' BY DEF TypeOK, EndedTaskClosedItsTunnel
  <2> QED BY <2>1, <2>2, <2>3, <2>4, <2>5, <2>6, <2>7, <2>8
<1>9. CASE StopReport(c)
  BY <1>9 DEF StopReport, TypeOK, StartOwnsLock, StopHolds, Numbered, States,
     WaitBelowBound, NoOrphanTask, HeldAreDistinct, EndedTaskClosedItsTunnel
<1> QED BY <1>1, <1>2, <1>3, <1>4, <1>5, <1>6, <1>7, <1>8, <1>9 DEF Start, Stop

(* The steps of the tunnel task of a process that runs. *)
LEMMA TunnelStep ==
    ASSUME IInv, NEW p \in Processes, TunnelTask(p) \/ TunnelLost(p)
    PROVE  IInv'
<1> USE MaxProcessesAssumption, MaxRetryAssumption DEF IInv, callerVars, Ends
<1>1. TypeOK'
  <2>1. CASE ConnectOk(p) BY <2>1 DEF ConnectOk, TypeOK, States
  <2>2. CASE ConnectErr(p)
    <3>1. retry[p] \in 0..MaxRetry BY DEF TypeOK
    <3> QED BY <2>2, <3>1 DEF ConnectErr, TypeOK
  <2>3. CASE BackoffPanics(p) BY <2>3 DEF BackoffPanics, TypeOK
  <2>4. CASE RetryTimer(p) BY <2>4 DEF RetryTimer, TypeOK, WaitBelowBound
  <2>5. CASE WaitCancelled(p) BY <2>5 DEF WaitCancelled, TypeOK
  <2>6. CASE TunnelClosed(p) BY <2>6 DEF TunnelClosed, TypeOK
  <2>7. CASE ServeCancelled(p) BY <2>7 DEF ServeCancelled, TypeOK
  <2>8. CASE TunnelLost(p) BY <2>8 DEF TunnelLost, TypeOK
  <2> QED BY <2>1, <2>2, <2>3, <2>4, <2>5, <2>6, <2>7, <2>8 DEF TunnelTask
<1>2. UNCHANGED <<process, processLock, spawned, cancelled, pc, held>>
  BY DEF TunnelTask, ConnectOk, ConnectErr, BackoffPanics, RetryTimer,
         WaitCancelled, TunnelClosed, ServeCancelled, TunnelLost
<1>3. StartOwnsLock' /\ StopHolds' /\ HeldAreDistinct'
  BY <1>2 DEF StartOwnsLock, StopHolds, HeldAreDistinct
(* Only the task of p moves, it was running before the step or it is one   *)
(* whose tunnel alone changed, and it is not unborn after it.              *)
<1>4. /\ \A q \in Processes \ {p} : task'[q] = task[q]
      /\ task'[p] \in Running => task[p] \in Running
      /\ task'[p] = "unborn" <=> task[p] = "unborn"
  BY DEF TunnelTask, ConnectOk, ConnectErr, BackoffPanics, RetryTimer, TypeOK,
         WaitCancelled, TunnelClosed, ServeCancelled, TunnelLost
<1>5. Numbered' BY <1>2, <1>4 DEF Numbered
<1>6. NoOrphanTask' BY <1>2, <1>4 DEF NoOrphanTask
<1>7. WaitBelowBound'
  BY DEF TunnelTask, ConnectOk, ConnectErr, BackoffPanics, RetryTimer, TypeOK,
         WaitCancelled, TunnelClosed, ServeCancelled, TunnelLost, WaitBelowBound
<1>8. EndedTaskClosedItsTunnel'
  BY DEF TunnelTask, ConnectOk, ConnectErr, BackoffPanics, RetryTimer, TypeOK,
         WaitCancelled, TunnelClosed, ServeCancelled, TunnelLost,
         EndedTaskClosedItsTunnel
<1> QED BY <1>1, <1>3, <1>5, <1>6, <1>7, <1>8

(* Streams come and go without touching the lifecycle. *)
LEMMA StreamStep ==
    ASSUME IInv, NEW s \in Streams,
           \/ \E p \in Processes : AcceptStream(p, s)
           \/ StreamTask(s)
           \/ StreamFinishes(s)
    PROVE  IInv'
<1> USE MaxProcessesAssumption, MaxRetryAssumption DEF IInv, taskVars, callerVars
<1>1. UNCHANGED <<process, processLock, state, spawned, cancelled, taskVars,
                  callerVars>>
  BY DEF AcceptStream, StreamTask, StreamFinishes, DialOk, DialErr, StreamStops
<1>2. stream' \in [Streams -> [pc : {"free", "dialing", "piping"},
                               proc : 0..MaxProcesses]]
  <2>1. CASE \E p \in Processes : AcceptStream(p, s)
    <3>1. PICK p \in Processes : AcceptStream(p, s) BY <2>1
    <3> QED BY <3>1 DEF AcceptStream, TypeOK
  <2>2. CASE DialOk(s) BY <2>2 DEF DialOk, TypeOK
  <2>3. CASE DialErr(s) \/ StreamStops(s) \/ StreamFinishes(s)
    <3>1. stream' = [stream EXCEPT ![s] = Free]
      BY <2>3 DEF DialErr, StreamStops, StreamFinishes
    <3>2. Free \in [pc : {"free", "dialing", "piping"},
                    proc : 0..MaxProcesses]
      BY DEF Free
    <3> QED BY <3>1, <3>2 DEF TypeOK
  <2> QED BY <2>1, <2>2, <2>3 DEF StreamTask
<1>3. TypeOK' BY <1>1, <1>2 DEF TypeOK
<1> QED
  BY <1>1, <1>3 DEF StartOwnsLock, StopHolds, Numbered, WaitBelowBound,
     NoOrphanTask, HeldAreDistinct, EndedTaskClosedItsTunnel

(* IInv is an inductive invariant of the egress. *)
THEOREM Inductive == Spec => []IInv
<1>1. Init => IInv BY InitIInv
<1>2. IInv /\ [Next]_vars => IInv'
  <2> SUFFICES ASSUME IInv, [Next]_vars PROVE IInv' OBVIOUS
  <2>1. CASE Next BY <2>1, CallerStep, TunnelStep, StreamStep DEF Next
  <2>2. CASE UNCHANGED vars
    BY <2>2 DEF vars, taskVars, callerVars, IInv, TypeOK, StartOwnsLock,
       StopHolds, Numbered, WaitBelowBound, NoOrphanTask, HeldAreDistinct,
       EndedTaskClosedItsTunnel
  <2> QED BY <2>1, <2>2
<1> QED BY <1>1, <1>2, PTL DEF Spec

(* Every variable keeps its type. *)
THEOREM TypeCorrect == Spec => []TypeOK
<1>1. IInv => TypeOK BY DEF IInv
<1> QED BY <1>1, Inductive, PTL

(* However start() and stop() interleave, every tunnel task that runs is   *)
(* the process of the egress or is held by the stop() that will await it:  *)
(* tcp_egress.rs:61-100.                                                   *)
THEOREM NoOrphans == Spec => []NoOrphanTask
<1>1. IInv => NoOrphanTask BY DEF IInv
<1> QED BY <1>1, Inductive, PTL

(* Two stop() calls never await the same process: tcp_egress.rs:86. *)
THEOREM OneStopper == Spec => []HeldAreDistinct
<1>1. IInv => HeldAreDistinct BY DEF IInv
<1> QED BY <1>1, Inductive, PTL

(* A tunnel is open only while its task serves it: tcp_egress.rs:135-177. *)
THEOREM NoTunnelLeak == Spec => []EndedTaskClosedItsTunnel
<1>1. IInv => EndedTaskClosedItsTunnel BY DEF IInv
<1> QED BY <1>1, Inductive, PTL
----------------------------------------------------------------------------
(***************************************************************************)
(* What the watch channel says, when calls do not overlap                  *)
(***************************************************************************)

(* A call begins after the one before it has returned. *)
OneCallAtATime ==
    \A c, d \in Callers : pc[c] # "idle" /\ pc[d] # "idle" => c = d

(* The last process spawned is the only one that can be the process of the *)
(* egress, or be held; and no call is in progress while there is one.      *)
LastProcessOnly ==
    /\ process # 0 => process = spawned
    /\ \A c \in Callers : held[c] # 0 => held[c] = spawned
    /\ \A c \in Callers : pc[c] # "idle" => process = 0

ServedIsReady ==
    process # 0 /\ task[process] = "serving" => state = "Ready"

StoppedWhenQuiet ==
    Quiet /\ process = 0 => \/ state = "Stopped"
                            \/ spawned # 0 /\ task[spawned] = "panicked"

ChannelInv == LastProcessOnly /\ ServedIsReady /\ StoppedWhenQuiet

LEMMA ChannelCallerStep ==
    ASSUME IInv, ChannelInv, OneCallAtATime, NEW c \in Callers, Start(c) \/ Stop(c)
    PROVE  ChannelInv'
<1> USE MaxProcessesAssumption
    DEF ChannelInv, IInv, TypeOK, taskVars, callerVars
<1>1. CASE StartBegin(c) \/ StartRefused(c) \/ StopRefused(c)
  BY <1>1 DEF StartBegin, StartRefused, StopRefused, LastProcessOnly,
     ServedIsReady, StoppedWhenQuiet, Quiet
<1>2. CASE StartNotify(c)
  BY <1>2 DEF StartNotify, LastProcessOnly, ServedIsReady, StoppedWhenQuiet, Quiet
<1>3. CASE StartSpawn(c)
  <2> USE <1>3 DEF StartSpawn
  <2>1. spawned' \in Processes /\ process' = spawned' BY DEF StartOwnsLock
  <2>2. \A d \in Callers : pc'[d] = "idle" /\ held'[d] = 0
    <3> SUFFICES ASSUME NEW d \in Callers PROVE pc'[d] = "idle" /\ held'[d] = 0
      OBVIOUS
    <3>1. CASE d = c BY <3>1 DEF StopHolds
    <3>2. CASE d # c BY <3>2 DEF StopHolds, OneCallAtATime
    <3> QED BY <3>1, <3>2
  <2>3. task'[process'] = "connecting" BY <2>1
  <2> QED BY <2>1, <2>2, <2>3 DEF LastProcessOnly, ServedIsReady, StoppedWhenQuiet
<1>4. CASE StopTake(c)
  BY <1>4 DEF StopTake, LastProcessOnly, ServedIsReady, StoppedWhenQuiet, Quiet
<1>5. CASE StopCancel(c)
  BY <1>5 DEF StopCancel, LastProcessOnly, ServedIsReady, StoppedWhenQuiet, Quiet
<1>6. CASE StopJoin(c)
  BY <1>6 DEF StopJoin, LastProcessOnly, ServedIsReady, StoppedWhenQuiet, Quiet
<1>7. CASE StopJoinError(c)
  <2> USE <1>7 DEF StopJoinError
  <2>1. held[c] # 0 /\ held[c] = spawned BY DEF StopHolds, LastProcessOnly
  <2>2. StoppedWhenQuiet' BY <2>1 DEF StoppedWhenQuiet
  <2> QED BY <2>2 DEF LastProcessOnly, ServedIsReady
<1>8. CASE StopReport(c)
  BY <1>8 DEF StopReport, LastProcessOnly, ServedIsReady, StoppedWhenQuiet
<1> QED BY <1>1, <1>2, <1>3, <1>4, <1>5, <1>6, <1>7, <1>8 DEF Start, Stop

(* A task says Ready when it has a tunnel; without a process, and with no  *)
(* call in progress, no task runs that could say so.                       *)
LEMMA ChannelTunnelStep ==
    ASSUME IInv, ChannelInv, NEW p \in Processes, TunnelTask(p) \/ TunnelLost(p)
    PROVE  ChannelInv'
<1> USE MaxProcessesAssumption DEF ChannelInv, IInv, TypeOK, callerVars, Ends
<1>1. UNCHANGED <<process, spawned, pc, held>>
  BY DEF TunnelTask, ConnectOk, ConnectErr, BackoffPanics, RetryTimer,
         WaitCancelled, TunnelClosed, ServeCancelled, TunnelLost
<1>2. LastProcessOnly' BY <1>1 DEF LastProcessOnly
<1>3. /\ \A q \in Processes : task[q] = "panicked" => task'[q] = "panicked"
      /\ \/ state' = state /\ \A q \in Processes : task'[q] = "serving" => task[q] = "serving"
         \/ state' = "Ready" /\ task[p] = "connecting"
  BY DEF TunnelTask, ConnectOk, ConnectErr, BackoffPanics, RetryTimer,
         WaitCancelled, TunnelClosed, ServeCancelled, TunnelLost
<1>4. ServedIsReady' BY <1>1, <1>3 DEF ServedIsReady
<1>5. StoppedWhenQuiet'
  <2>1. Quiet /\ process = 0 => task[p] # "connecting"
    <3>1. NoOrphanTask /\ StopHolds /\ p # 0 OBVIOUS
    <3>2. \A c \in Callers : pc[c] = "idle" => held[c] = 0
      BY <3>1, Zenon DEF StopHolds
    <3> QED BY <3>1, <3>2 DEF NoOrphanTask, Quiet
  <2>2. Quiet' <=> Quiet BY <1>1 DEF Quiet
  <2>3. spawned # 0 => spawned \in Processes OBVIOUS
  <2> QED BY <1>1, <1>3, <2>1, <2>2, <2>3 DEF StoppedWhenQuiet
<1> QED BY <1>2, <1>4, <1>5

(* However tasks and streams interleave with calls that do not overlap,    *)
(* the channel says Stopped when there is no process and Ready when the    *)
(* process has a tunnel: tcp_egress.rs:70, 92-93, 141.                     *)
THEOREM ChannelIsTrue == Spec /\ []OneCallAtATime => []StateMatchesProcess
<1>1. Init => ChannelInv
  BY DEF Init, ChannelInv, LastProcessOnly, ServedIsReady, StoppedWhenQuiet
<1>2. IInv /\ ChannelInv /\ OneCallAtATime /\ [Next]_vars => ChannelInv'
  <2> SUFFICES ASSUME IInv, ChannelInv, OneCallAtATime, [Next]_vars PROVE ChannelInv'
    OBVIOUS
  <2>1. CASE \E c \in Callers : Start(c) \/ Stop(c) BY <2>1, ChannelCallerStep
  <2>2. CASE \E p \in Processes : TunnelTask(p) \/ TunnelLost(p)
    BY <2>2, ChannelTunnelStep
  <2>3. ASSUME UNCHANGED <<process, state, spawned, task, pc, held>>
        PROVE  ChannelInv'
    BY <2>3 DEF ChannelInv, LastProcessOnly, ServedIsReady, StoppedWhenQuiet, Quiet
  <2>4. CASE \E s \in Streams : \/ \E p \in Processes : AcceptStream(p, s)
                                \/ StreamTask(s) \/ StreamFinishes(s)
    BY <2>3, <2>4 DEF AcceptStream, StreamTask, StreamFinishes, DialOk, DialErr,
       StreamStops, taskVars, callerVars
  <2>5. CASE UNCHANGED vars BY <2>3, <2>5 DEF vars, taskVars, callerVars
  <2> QED BY <2>1, <2>2, <2>4, <2>5 DEF Next
<1>3. ChannelInv => StateMatchesProcess
  BY DEF ChannelInv, ServedIsReady, StoppedWhenQuiet, StateMatchesProcess
<1> QED BY <1>1, <1>2, <1>3, Inductive, PTL DEF Spec
============================================================================
