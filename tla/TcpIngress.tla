----------------------------- MODULE TcpIngress -----------------------------
(***************************************************************************)
(* A TCP ingress: start() and stop(), the accept loop that each start()    *)
(* spawns, and the TCP connections, each routed to a tunnel of the pool    *)
(* over a QUIC stream.                                                     *)
(*                                                                         *)
(* Listeners are numbered in the order they are bound.  A listener is an   *)
(* Arc with two owners, the field tcp_listener and its accept loop, and    *)
(* its socket is closed when the last of them lets go.                     *)
(***************************************************************************)
EXTENDS TunnelPool, FiniteSets

CONSTANTS
    Connections,    \* slots for the TCP connections alive at one time
    MaxListeners,   \* bound: how often bind() succeeds
    MaxStreams,     \* streams that a client allows on a tunnel (1000)
    DebugLog        \* TRUE when debug! events are enabled, in a dev build

ASSUME MaxListenersAssumption == MaxListeners \in Nat
ASSUME MaxStreamsAssumption == MaxStreams \in Nat
ASSUME DebugLogAssumption == DebugLog \in BOOLEAN

VARIABLES
    listener,  \* TcpIngressInner.tcp_listener, or 0
    bound,     \* number of listeners bound so far
    loop,      \* where the accept loop of each listener is
    client     \* the TCP connections

tcpVars == <<listener, bound, loop, client>>
vars == <<poolVars, tcpVars>>

Listeners == 1..MaxListeners
Idle == [pc |-> "free", loop |-> 0, tunnel |-> {}]

(* The socket of l is open while the field or the loop owns the listener. *)
SocketOpen(l) == listener = l \/ loop[l] \in {"spawn", "accepting"}

OnTunnel(t) ==
    {k \in Connections : client[k].pc \in {"piping", "half"} /\ client[k].tunnel = {t}}

Init ==
    /\ PoolInit
    /\ listener = 0
    /\ bound = 0
    /\ loop = [l \in Listeners |-> "none"]
    /\ client = [k \in Connections |-> Idle]

----------------------------------------------------------------------------
(* start(), with the mutex of tcp_listener held over bind().  A call that  *)
(* returns an error, of start() on an ingress that listens or of stop() on *)
(* one that does not, changes nothing, and neither does a bind() that      *)
(* fails: always while an open socket listens on the address, and for      *)
(* other causes at any time.                                               *)
Start ==
    /\ listener = 0
    /\ bound < MaxListeners
    /\ \A l \in Listeners : ~SocketOpen(l)
    /\ bound' = bound + 1
    /\ listener' = bound'
    /\ loop' = [loop EXCEPT ![bound'] = "spawn"]
    /\ UNCHANGED <<poolVars, client>>

(* The accept loop is spawned after the mutex is released. *)
StartSpawn(l) ==
    /\ loop[l] = "spawn"
    /\ loop' = [loop EXCEPT ![l] = "accepting"]
    /\ UNCHANGED <<poolVars, listener, bound, client>>

(* stop() drops the Arc of the field. *)
Stop ==
    /\ listener # 0
    /\ listener' = 0
    /\ UNCHANGED <<poolVars, bound, loop, client>>

----------------------------------------------------------------------------
(* handle_listener() *)

(* A connection is accepted and gets a task of its own. *)
Accept(l, k) ==
    /\ loop[l] = "accepting"
    /\ client[k] = Idle
    /\ client' = [client EXCEPT ![k] = [Idle EXCEPT !.pc = "routing", !.loop = l]]
    /\ UNCHANGED <<poolVars, listener, bound, loop>>

(* accept() fails: the loop ends and cancels the token of its streams. *)
AcceptFails(l) ==
    /\ loop[l] = "accepting"
    /\ loop' = [loop EXCEPT ![l] = "ended"]
    /\ UNCHANGED <<poolVars, listener, bound, client>>

(* The peer is gone when debug! asks for its address: `?` ends the loop    *)
(* before the token is cancelled and unwrap() panics.  A dev build unwinds *)
(* the task; the release profile aborts the process instead.               *)
AcceptPanics(l) ==
    /\ DebugLog
    /\ loop[l] = "accepting"
    /\ loop' = [loop EXCEPT ![l] = "panicked"]
    /\ UNCHANGED <<poolVars, listener, bound, client>>

Cancelled(k) == client[k].loop \in Listeners /\ loop[client[k].loop] = "ended"

----------------------------------------------------------------------------
(* handle_stream() for the connection in slot k *)

(* No tunnel, or the peer is gone: the TCP connection is dropped. *)
RouteFails(k) ==
    /\ client[k].pc = "routing"
    /\ client' = [client EXCEPT ![k] = Idle]
    /\ UNCHANGED <<poolVars, listener, bound, loop>>

Route(k) ==
    /\ client[k].pc = "routing"
    /\ Pick
    /\ client' = [client EXCEPT ![k].pc = "opening", ![k].tunnel = {Picked}]
    /\ UNCHANGED <<listener, bound, loop>>

(* create_stream(): open_bi() waits while the peer allows no more streams. *)
Open(k) ==
    /\ client[k].pc = "opening"
    /\ \E t \in client[k].tunnel : ~Closed(t) /\ Cardinality(OnTunnel(t)) < MaxStreams
    /\ client' = [client EXCEPT ![k].pc = "piping"]
    /\ UNCHANGED <<poolVars, listener, bound, loop>>

\* Waits for the tunnel to come back.
OpenFailsNever(k) ==
    /\ client[k].pc = "opening"
    /\ client[k].tunnel = {}
    /\ client' = [client EXCEPT ![k] = Idle]
    /\ UNCHANGED <<poolVars, listener, bound, loop>>

(* The tunnel chosen is closed by now: the TCP connection is dropped. *)
OpenFails(k) ==
    /\ client[k].pc = "opening"
    /\ \E t \in client[k].tunnel : Closed(t)
    /\ client' = [client EXCEPT ![k] = Idle]
    /\ UNCHANGED <<poolVars, listener, bound, loop>>

(* The target has said all it had: nothing reads the tunnel from now on,   *)
(* and the copy that is left waits for the origin.                         *)
TargetEnds(k) ==
    /\ client[k].pc = "piping"
    /\ client' = [client EXCEPT ![k].pc = "half"]
    /\ UNCHANGED <<poolVars, listener, bound, loop>>

(* Both directions reach their end or fail (module TcpStream). *)
PipeEnds(k) ==
    /\ client[k].pc \in {"piping", "half"}
    /\ client' = [client EXCEPT ![k] = Idle]
    /\ UNCHANGED <<poolVars, listener, bound, loop>>

\* The task that copies to the tunnel does not look at the token.
PipeBreaksIfReading(k) ==
    /\ client[k].pc = "piping"
    /\ Cancelled(k) \/ \E t \in client[k].tunnel : Closed(t)
    /\ client' = [client EXCEPT ![k] = Idle]
    /\ UNCHANGED <<poolVars, listener, bound, loop>>

(* The read of a closed tunnel fails, or the token of the accept loop is   *)
(* cancelled.                                                              *)
PipeBreaks(k) ==
    /\ \/ client[k].pc = "piping" /\ \E t \in client[k].tunnel : Closed(t)
       \/ client[k].pc \in {"piping", "half"} /\ Cancelled(k)
    /\ client' = [client EXCEPT ![k] = Idle]
    /\ UNCHANGED <<poolVars, listener, bound, loop>>

----------------------------------------------------------------------------
PoolStep(t) == /\ \/ Establish(t) \/ Close(t)
                  \/ AssignBegin(t) \/ AssignStep(t) \/ WatcherRemoves(t)
               /\ UNCHANGED tcpVars

StreamTask(k) == Route(k) \/ RouteFails(k) \/ OpenFails(k) \/ PipeBreaks(k)

Next ==
    \/ \E t \in Tunnels : PoolStep(t)
    \/ Start \/ Stop
    \/ \E l \in Listeners : \/ StartSpawn(l) \/ AcceptFails(l) \/ AcceptPanics(l)
                            \/ \E k \in Connections : Accept(l, k)
    \/ \E k \in Connections : StreamTask(k) \/ Open(k) \/ TargetEnds(k) \/ PipeEnds(k)

Spec == Init /\ [][Next]_vars

(* Tasks run; a waiting open_bi() gets its stream when there is room again  *)
(* and again.  Nobody has to connect, and accept() need not fail.           *)
Fairness ==
    /\ \A t \in Tunnels : /\ WF_vars(AssignStep(t) /\ UNCHANGED tcpVars)
                          /\ WF_vars(WatcherRemoves(t) /\ UNCHANGED tcpVars)
    /\ \A l \in Listeners : WF_vars(StartSpawn(l))
    /\ \A k \in Connections : WF_vars(StreamTask(k)) /\ SF_vars(Open(k))

FairSpec == Spec /\ Fairness
----------------------------------------------------------------------------
(* readme.md: when the tunnel of a TCP connection ends the server ends the *)
(* connection.  It does for one that waits for a stream, and for one whose *)
(* target was still to be heard when the tunnel went, which may become     *)
(* half-closed instead (tcp_ingress.rs:169-186, v1.rs:108-140).            *)
ConnectionsEndWithTunnel ==
    \A k \in Connections, t \in Tunnels :
        client[k].pc \in {"opening", "piping"} /\ client[k].tunnel = {t} /\ Closed(t)
        ~> client[k].tunnel # {t} \/ client[k].pc = "half"

(* When accept() fails the loop takes every connection it has accepted     *)
(* with it: one that pipes, one that is half-closed, and one that is still *)
(* to be routed or waits for a stream, which meets the cancelled token     *)
(* later (tcp_ingress.rs:133-186, v1.rs:83-92 and 142-152).                *)
FailedLoopEndsConnections ==
    \A k \in Connections : Cancelled(k) ~> client[k] = Idle

(* An ingress that was stopped does not listen: the accept loop of a       *)
(* listener that is no longer the field's ends (tcp_ingress.rs:99-107).    *)
StoppedIngressStopsAccepting ==
    \A l \in Listeners : loop[l] = "accepting" /\ listener = 0
                         ~> loop[l] # "accepting"
============================================================================
