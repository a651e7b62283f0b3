------------------------------- MODULE Egress -------------------------------
(***************************************************************************)
(* The lifecycle of a TCP egress: start() and stop() called by any number  *)
(* of callers, the tunnel task that each start() spawns, its reconnection  *)
(* loop and the tasks of the streams it accepts.  The lifecycle of a UDP   *)
(* egress is the same code with datagrams in the place of streams (module  *)
(* UdpSessions).                                                           *)
(*                                                                         *)
(* The processes an egress goes through are numbered in the order they are *)
(* spawned; 0 stands for None.  Callers run on a multi-threaded runtime,   *)
(* so a step ends wherever another thread can observe or change the state: *)
(* after each lock is released, each watch-channel send, each await.       *)
(***************************************************************************)
EXTENDS Naturals, FiniteSets, Backoff

CONSTANTS
    Callers,        \* threads or tasks that call start() and stop()
    Streams,        \* slots for the streams that are alive at one time
    MaxProcesses,   \* bound: how often start() succeeds
    MaxRetry,       \* bound: consecutive failed connections
    OverflowChecks  \* TRUE in a dev build, FALSE in a release build

ASSUME MaxProcessesAssumption == MaxProcesses \in Nat
ASSUME MaxRetryAssumption == MaxRetry \in Nat
ASSUME OverflowChecksAssumption == OverflowChecks \in BOOLEAN

VARIABLES
    process,      \* TcpEgressInner.process: the process of the egress, or 0
    processLock,  \* {} or the caller that holds TcpEgressInner.process_lock
    state,        \* the value in the watch channel
    spawned,      \* number of processes spawned so far
    cancelled,    \* the processes whose token is cancelled
    task,         \* where the tunnel task of each process is
    tunnel,       \* the tunnel of each process
    retry,        \* the retry counter of each tunnel task, 0 when it ended
    delay,        \* observer: the last wait (ms) since a tunnel was up, or 0
    pc,           \* where each caller is in start() or stop()
    held,         \* the process that the stop() of each caller took, or 0
    outcome,      \* the result of the last call of each caller
    stream        \* the stream tasks

callerVars == <<pc, held, outcome>>
taskVars == <<task, tunnel, retry, delay>>
vars == <<process, processLock, state, spawned, cancelled, taskVars,
          callerVars, stream>>

Processes == 1..MaxProcesses
States == {"Stopped", "Starting", "Ready"}
Free == [pc |-> "free", proc |-> 0]

Running == {"connecting", "serving", "waiting"}

(* The caller and task locations, and the values of each variable. *)
TypeOK ==
    /\ process \in 0..MaxProcesses
    /\ processLock \subseteq Callers
    /\ state \in States
    /\ spawned \in 0..MaxProcesses
    /\ cancelled \subseteq Processes
    /\ task \in [Processes -> Running \cup {"unborn", "done", "panicked"}]
    /\ tunnel \in [Processes -> {"none", "open", "lost", "closed"}]
    /\ retry \in [Processes -> 0..MaxRetry]
    /\ delay \in [Processes -> {0} \cup {BackoffMillis(r) : r \in 0..MaxRetry}]
    /\ pc \in [Callers -> {"idle", "notify", "spawn", "cancel", "join", "report"}]
    /\ held \in [Callers -> 0..MaxProcesses]
    /\ outcome \in [Callers -> {"none", "started", "EgressAlreadyStarted",
                                "stopped", "EgressNotStarted", "JoinError"}]
    /\ stream \in [Streams -> [pc : {"free", "dialing", "piping"},
                               proc : 0..MaxProcesses]]

Init ==
    /\ process = 0
    /\ processLock = {}
    /\ state = "Stopped"
    /\ spawned = 0
    /\ cancelled = {}
    /\ task = [p \in Processes |-> "unborn"]
    /\ tunnel = [p \in Processes |-> "none"]
    /\ retry = [p \in Processes |-> 0]
    /\ delay = [p \in Processes |-> 0]
    /\ pc = [c \in Callers |-> "idle"]
    /\ held = [c \in Callers |-> 0]
    /\ outcome = [c \in Callers |-> "none"]
    /\ stream = [s \in Streams |-> Free]

----------------------------------------------------------------------------
(* start() *)

\* The check for a running process forgotten.
StartBeginUnchecked(c) ==
    /\ pc[c] = "idle"
    /\ processLock = {}
    /\ spawned < MaxProcesses
    /\ processLock' = {c}
    /\ pc' = [pc EXCEPT ![c] = "notify"]
    /\ UNCHANGED <<process, state, spawned, cancelled, taskVars, held, outcome,
                   stream>>

(* Takes process_lock and finds no process. *)
StartBegin(c) ==
    /\ pc[c] = "idle"
    /\ processLock = {}
    /\ process = 0
    /\ spawned < MaxProcesses
    /\ processLock' = {c}
    /\ pc' = [pc EXCEPT ![c] = "notify"]
    /\ UNCHANGED <<process, state, spawned, cancelled, taskVars, held, outcome,
                   stream>>

(* Takes process_lock, finds a process, and returns. *)
StartRefused(c) ==
    /\ pc[c] = "idle"
    /\ processLock = {}
    /\ process # 0
    /\ outcome' = [outcome EXCEPT ![c] = "EgressAlreadyStarted"]
    /\ UNCHANGED <<process, processLock, state, spawned, cancelled, taskVars,
                   pc, held, stream>>

StartNotify(c) ==
    /\ pc[c] = "notify"
    /\ state' = "Starting"
    /\ pc' = [pc EXCEPT ![c] = "spawn"]
    /\ UNCHANGED <<process, processLock, spawned, cancelled, taskVars, held,
                   outcome, stream>>

(* Under the write lock of process; process_lock is released on return. *)
StartSpawn(c) ==
    /\ pc[c] = "spawn"
    /\ spawned' = spawned + 1
    /\ process' = spawned'
    /\ task' = [task EXCEPT ![spawned'] = "connecting"]
    /\ processLock' = {}
    /\ pc' = [pc EXCEPT ![c] = "idle"]
    /\ outcome' = [outcome EXCEPT ![c] = "started"]
    /\ UNCHANGED <<state, cancelled, tunnel, retry, delay, held, stream>>

----------------------------------------------------------------------------
(* stop() *)

\* The process is cloned where it should be taken.
StopTakeClones(c) ==
    /\ pc[c] = "idle"
    /\ process # 0
    /\ held' = [held EXCEPT ![c] = process]
    /\ pc' = [pc EXCEPT ![c] = "cancel"]
    /\ UNCHANGED <<process, processLock, state, spawned, cancelled, taskVars,
                   outcome, stream>>

(* Takes the process out, without process_lock. *)
StopTake(c) ==
    /\ pc[c] = "idle"
    /\ process # 0
    /\ held' = [held EXCEPT ![c] = process]
    /\ process' = 0
    /\ pc' = [pc EXCEPT ![c] = "cancel"]
    /\ UNCHANGED <<processLock, state, spawned, cancelled, taskVars, outcome,
                   stream>>

StopRefused(c) ==
    /\ pc[c] = "idle"
    /\ process = 0
    /\ outcome' = [outcome EXCEPT ![c] = "EgressNotStarted"]
    /\ UNCHANGED <<process, processLock, state, spawned, cancelled, taskVars,
                   pc, held, stream>>

\* The token is dropped without being cancelled.
StopCancelForgotten(c) ==
    /\ pc[c] = "cancel"
    /\ pc' = [pc EXCEPT ![c] = "join"]
    /\ UNCHANGED <<process, processLock, state, spawned, cancelled, taskVars,
                   held, outcome, stream>>

StopCancel(c) ==
    /\ pc[c] = "cancel"
    /\ cancelled' = cancelled \cup {held[c]}
    /\ pc' = [pc EXCEPT ![c] = "join"]
    /\ UNCHANGED <<process, processLock, state, spawned, taskVars, held,
                   outcome, stream>>

\* The task is detached instead of awaited.
StopJoinDetached(c) ==
    /\ pc[c] = "join"
    /\ pc' = [pc EXCEPT ![c] = "report"]
    /\ held' = [held EXCEPT ![c] = 0]
    /\ UNCHANGED <<process, processLock, state, spawned, cancelled, taskVars,
                   outcome, stream>>

StopJoin(c) ==
    /\ pc[c] = "join"
    /\ task[held[c]] = "done"
    /\ pc' = [pc EXCEPT ![c] = "report"]
    /\ held' = [held EXCEPT ![c] = 0]
    /\ UNCHANGED <<process, processLock, state, spawned, cancelled, taskVars,
                   outcome, stream>>

(* `tunnel_task.await?`: a panic of the task ends stop() before it reports. *)
StopJoinError(c) ==
    /\ pc[c] = "join"
    /\ task[held[c]] = "panicked"
    /\ pc' = [pc EXCEPT ![c] = "idle"]
    /\ held' = [held EXCEPT ![c] = 0]
    /\ outcome' = [outcome EXCEPT ![c] = "JoinError"]
    /\ UNCHANGED <<process, processLock, state, spawned, cancelled, taskVars,
                   stream>>

StopReport(c) ==
    /\ pc[c] = "report"
    /\ state' = "Stopped"
    /\ pc' = [pc EXCEPT ![c] = "idle"]
    /\ outcome' = [outcome EXCEPT ![c] = "stopped"]
    /\ UNCHANGED <<process, processLock, spawned, cancelled, taskVars, held,
                   stream>>

----------------------------------------------------------------------------
(* The tunnel task of process p *)

(* The task ends, and its retry counter with it. *)
Ends(p, how) ==
    /\ task' = [task EXCEPT ![p] = how]
    /\ retry' = [retry EXCEPT ![p] = 0]
    /\ delay' = [delay EXCEPT ![p] = 0]

\* The retry counter is kept over a successful connection.
ConnectOkKeepsRetry(p) ==
    /\ task[p] = "connecting"
    /\ task' = [task EXCEPT ![p] = "serving"]
    /\ tunnel' = [tunnel EXCEPT ![p] = "open"]
    /\ delay' = [delay EXCEPT ![p] = 0]
    /\ state' = "Ready"
    /\ UNCHANGED <<process, processLock, spawned, cancelled, retry, callerVars,
                   stream>>

(* connect() is awaited with no regard to the token. *)
ConnectOk(p) ==
    /\ task[p] = "connecting"
    /\ task' = [task EXCEPT ![p] = "serving"]
    /\ tunnel' = [tunnel EXCEPT ![p] = "open"]
    /\ retry' = [retry EXCEPT ![p] = 0]
    /\ delay' = [delay EXCEPT ![p] = 0]
    /\ state' = "Ready"
    /\ UNCHANGED <<process, processLock, spawned, cancelled, callerVars, stream>>

(* The guard on MaxRetry keeps RetryTimer enabled in every wait. *)
ConnectErr(p) ==
    /\ task[p] = "connecting"
    /\ retry[p] < MaxRetry
    /\ ~(OverflowChecks /\ Overflows(retry[p]))
    /\ task' = [task EXCEPT ![p] = "waiting"]
    /\ delay' = [delay EXCEPT ![p] = BackoffMillis(retry[p])]
    /\ UNCHANGED <<process, processLock, state, spawned, cancelled, tunnel,
                   retry, callerVars, stream>>

(* The multiplication overflows in a build that checks it. *)
BackoffPanics(p) ==
    /\ task[p] = "connecting"
    /\ OverflowChecks
    /\ Overflows(retry[p])
    /\ Ends(p, "panicked")
    /\ UNCHANGED <<process, processLock, state, spawned, cancelled, tunnel,
                   callerVars, stream>>

RetryTimer(p) ==
    /\ task[p] = "waiting"
    /\ retry' = [retry EXCEPT ![p] = @ + 1]
    /\ task' = [task EXCEPT ![p] = "connecting"]
    /\ UNCHANGED <<process, processLock, state, spawned, cancelled, tunnel,
                   delay, callerVars, stream>>

WaitCancelled(p) ==
    /\ task[p] = "waiting"
    /\ p \in cancelled
    /\ Ends(p, "done")
    /\ UNCHANGED <<process, processLock, state, spawned, cancelled, tunnel,
                   callerVars, stream>>

\* The loop is left for good when the tunnel closes.
TunnelClosedReturns(p) ==
    /\ task[p] = "serving"
    /\ tunnel[p] = "lost"
    /\ Ends(p, "done")
    /\ tunnel' = [tunnel EXCEPT ![p] = "none"]
    /\ UNCHANGED <<process, processLock, state, spawned, cancelled, callerVars,
                   stream>>

(* tunnel.closed(): back to connecting; the channel still says Ready. *)
TunnelClosed(p) ==
    /\ task[p] = "serving"
    /\ tunnel[p] = "lost"
    /\ task' = [task EXCEPT ![p] = "connecting"]
    /\ tunnel' = [tunnel EXCEPT ![p] = "none"]
    /\ UNCHANGED <<process, processLock, state, spawned, cancelled, retry,
                   delay, callerVars, stream>>

\* The task ends without closing its tunnel.
ServeCancelledLeavesOpen(p) ==
    /\ task[p] = "serving"
    /\ p \in cancelled
    /\ Ends(p, "done")
    /\ UNCHANGED <<process, processLock, state, spawned, cancelled, tunnel,
                   callerVars, stream>>

ServeCancelled(p) ==
    /\ task[p] = "serving"
    /\ p \in cancelled
    /\ Ends(p, "done")
    /\ tunnel' = [tunnel EXCEPT ![p] = "closed"]
    /\ UNCHANGED <<process, processLock, state, spawned, cancelled, callerVars,
                   stream>>

(* Environment: the server, or the network, ends the QUIC connection. *)
TunnelLost(p) ==
    /\ tunnel[p] = "open"
    /\ tunnel' = [tunnel EXCEPT ![p] = "lost"]
    /\ UNCHANGED <<process, processLock, state, spawned, cancelled, task,
                   retry, delay, callerVars, stream>>

----------------------------------------------------------------------------
(* The stream tasks *)

(* accept_bi() hands out streams that arrived before the connection ended,  *)
(* and select! may prefer it to a cancelled token.                          *)
AcceptStream(p, s) ==
    /\ task[p] = "serving"
    /\ stream[s] = Free
    /\ stream' = [stream EXCEPT ![s] = [pc |-> "dialing", proc |-> p]]
    /\ UNCHANGED <<process, processLock, state, spawned, cancelled, taskVars,
                   callerVars>>

(* The connection to the target is established; no token is consulted. *)
DialOk(s) ==
    /\ stream[s].pc = "dialing"
    /\ stream' = [stream EXCEPT ![s].pc = "piping"]
    /\ UNCHANGED <<process, processLock, state, spawned, cancelled, taskVars,
                   callerVars>>

(* No socket after three attempts, or no connection: the tunnel stream is   *)
(* shut down.                                                               *)
DialErr(s) ==
    /\ stream[s].pc = "dialing"
    /\ stream' = [stream EXCEPT ![s] = Free]
    /\ UNCHANGED <<process, processLock, state, spawned, cancelled, taskVars,
                   callerVars>>

(* Both directions reach their end, or the copy between them fails (module *)
(* TcpStream).  A lost tunnel is one such failure, but not at once: a copy *)
(* that waits for a silent target does not notice it.                      *)
StreamFinishes(s) ==
    /\ stream[s].pc = "piping"
    /\ stream' = [stream EXCEPT ![s] = Free]
    /\ UNCHANGED <<process, processLock, state, spawned, cancelled, taskVars,
                   callerVars>>

\* Only the streams of the current process heed the token.
StreamStopsIfCurrent(s) ==
    /\ stream[s].pc = "piping"
    /\ stream[s].proc \in cancelled
    /\ stream[s].proc = process
    /\ stream' = [stream EXCEPT ![s] = Free]
    /\ UNCHANGED <<process, processLock, state, spawned, cancelled, taskVars,
                   callerVars>>

(* The child of the process token is cancelled. *)
StreamStops(s) ==
    /\ stream[s].pc = "piping"
    /\ stream[s].proc \in cancelled
    /\ stream' = [stream EXCEPT ![s] = Free]
    /\ UNCHANGED <<process, processLock, state, spawned, cancelled, taskVars,
                   callerVars>>

----------------------------------------------------------------------------
(* start() and stop(), the same in both kinds of egress. *)
Start(c) == StartBegin(c) \/ StartRefused(c) \/ StartNotify(c) \/ StartSpawn(c)

Stop(c) == \/ StopTake(c) \/ StopRefused(c) \/ StopCancel(c)
           \/ StopJoin(c) \/ StopJoinError(c) \/ StopReport(c)

(* The rest of a call that has begun. *)
Return(c) == \/ StartNotify(c) \/ StartSpawn(c) \/ StopCancel(c)
             \/ StopJoin(c) \/ StopJoinError(c) \/ StopReport(c)

TunnelTask(p) == \/ ConnectOk(p) \/ ConnectErr(p) \/ BackoffPanics(p)
                 \/ RetryTimer(p) \/ WaitCancelled(p)
                 \/ TunnelClosed(p) \/ ServeCancelled(p)

StreamTask(s) == DialOk(s) \/ DialErr(s) \/ StreamStops(s)

Next ==
    \/ \E c \in Callers : Start(c) \/ Stop(c)
    \/ \E p \in Processes : TunnelTask(p) \/ TunnelLost(p)
    \/ \E p \in Processes, s \in Streams : AcceptStream(p, s)
    \/ \E s \in Streams : StreamTask(s) \/ StreamFinishes(s)

Spec == Init /\ [][Next]_vars

(***************************************************************************)
(* Fairness.  The runtime polls every ready task, so a call and a task in  *)
(* progress go on.  connect() always returns: the QUIC handshake has an    *)
(* idle timeout and each authentication step a timeout of 5 s.  select!    *)
(* polls its branches in a random order, so a cancelled token that is      *)
(* ready again and again is served (strong fairness).  Nobody has to call, *)
(* to lose a tunnel, to open a stream, or to end one.                      *)
(***************************************************************************)
Fairness ==
    /\ \A c \in Callers : WF_vars(Return(c))
    /\ \A p \in Processes :
        /\ WF_vars(TunnelTask(p))
        /\ SF_vars(WaitCancelled(p))
        /\ SF_vars(ServeCancelled(p))
    /\ \A s \in Streams : WF_vars(StreamTask(s))

FairSpec == Spec /\ Fairness

(* The server accepts the connection if it is tried often enough. *)
ReachableServer == \A p \in Processes : SF_vars(ConnectOk(p))
----------------------------------------------------------------------------
(***************************************************************************)
(* Safety                                                                  *)
(***************************************************************************)

Quiet == \A c \in Callers : pc[c] = "idle"

(* A tunnel task that runs is reachable: it is the process of the egress,  *)
(* or a stop() that took the process is about to cancel and await it.  So  *)
(* no start() overwrites a process that still runs, and no stop() lets one *)
(* go before it has ended (tcp_egress.rs:61-100).                          *)
NoOrphanTask ==
    \A p \in Processes : task[p] \in Running =>
        p = process \/ \E c \in Callers : held[c] = p

(* A process is stopped by one caller only, and no longer the process of   *)
(* the egress while it is: its JoinHandle has one owner                    *)
(* (tcp_egress.rs:86).                                                     *)
HeldAreDistinct ==
    /\ \A c \in Callers : held[c] # 0 => held[c] # process
    /\ \A c, d \in Callers : held[c] = held[d] /\ held[c] # 0 => c = d

(* A tunnel task that ended leaves no open tunnel behind                   *)
(* (tcp_egress.rs:173-176).                                                *)
EndedTaskClosedItsTunnel ==
    \A p \in Processes : tunnel[p] = "open" => task[p] = "serving"

(* When no call is in progress the channel tells the truth: Stopped        *)
(* without a process (unless the last one panicked, which makes stop()     *)
(* return before it reports), Ready with a tunnel that is served           *)
(* (tcp_egress.rs:70, 92-93, 141).  It takes callers that do not overlap:  *)
(* a stop() that took the process before a start() may report after it.    *)
StateMatchesProcess ==
    Quiet =>
        /\ process = 0 => \/ state = "Stopped"
                          \/ task[spawned] = "panicked"
        /\ process # 0 /\ task[process] = "serving" => state = "Ready"

----------------------------------------------------------------------------
(***************************************************************************)
(* Action properties                                                       *)
(***************************************************************************)

(* readme.md: the wait doubles from 100 ms with every failed attempt since *)
(* the last tunnel, up to 30 s (tcp_egress.rs:137, 180-188).               *)
WaitDoublesUpToLimit ==
    [][\A p \in Processes :
         task[p] = "connecting" /\ task'[p] = "waiting" =>
            delay'[p] = IF delay[p] = 0 THEN 100
                        ELSE Min({2 * delay[p], BackoffLimit})]_vars

----------------------------------------------------------------------------
(***************************************************************************)
(* Liveness                                                                *)
(***************************************************************************)

(* stop() returns, whatever the tunnel task was doing when it was          *)
(* cancelled (tcp_egress.rs:85-100).                                       *)
StopReturns == \A c \in Callers : pc[c] = "join" ~> pc[c] = "idle"

(* Once a process is cancelled its streams, the ones still dialing their   *)
(* target included, end for good (tcp_egress.rs:26, 201-253).              *)
CancelledProcessDrains ==
    \A p \in Processes :
        p \in cancelled ~> [](\A s \in Streams : stream[s].proc # p)

(* With a server that can be reached, an egress that lost its tunnel gets  *)
(* one again unless it is stopped, or fails to connect until its task      *)
(* panics (tcp_egress.rs:132, 169-172, 181).                               *)
Reconnects ==
    ReachableServer =>
        \A p \in Processes :
            tunnel[p] = "lost" ~>
                tunnel[p] = "open" \/ p \in cancelled \/ task[p] = "panicked"
============================================================================
