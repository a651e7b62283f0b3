----------------------------- MODULE UdpIngress -----------------------------
(***************************************************************************)
(* A UDP ingress: start() and stop(), the task that forwards the datagrams *)
(* of its socket to the tunnels of the pool, and for each tunnel the task  *)
(* that reads datagrams from it and sends them to their origins.           *)
(*                                                                         *)
(* Sockets, each with its cancellation token, are numbered in the order    *)
(* they are bound.  SO_REUSEPORT is set, so binding the address again      *)
(* never fails while an older socket is still open.                        *)
(***************************************************************************)
EXTENDS TunnelPool

CONSTANT MaxSockets   \* bound: how often start() succeeds

ASSUME MaxSocketsAssumption == MaxSockets \in Nat

VARIABLES
    socket,     \* UdpIngressInner.udp_socket, or 0
    opened,     \* number of sockets opened so far
    cancelled,  \* the sockets whose token is cancelled
    forwarder,  \* the task socket -> tunnel of each socket
    reader,     \* the task tunnel -> socket of each tunnel
    uses        \* the socket that the reader of each tunnel got, or 0

udpVars == <<socket, opened, cancelled, forwarder, reader, uses>>
vars == <<poolVars, udpVars>>

Sockets == 1..MaxSockets

(* Every variable has its type. *)
TypeOK ==
    /\ PoolTypeOK
    /\ socket \in 0..MaxSockets
    /\ opened \in 0..MaxSockets
    /\ cancelled \subseteq Sockets
    /\ forwarder \in [Sockets -> {"none", "spawn", "running", "failed", "stopped"}]
    /\ reader \in [Tunnels -> {"none", "reading", "done"}]
    /\ uses \in [Tunnels -> 0..MaxSockets]

Init ==
    /\ PoolInit
    /\ socket = 0
    /\ opened = 0
    /\ cancelled = {}
    /\ forwarder = [g \in Sockets |-> "none"]
    /\ reader = [t \in Tunnels |-> "none"]
    /\ uses = [t \in Tunnels |-> 0]

----------------------------------------------------------------------------
(* start(), with the lock of udp_socket held over bind().  A start() or a  *)
(* stop() that returns an error changes nothing.                           *)
Start ==
    /\ socket = 0
    /\ opened < MaxSockets
    /\ opened' = opened + 1
    /\ socket' = opened'
    /\ forwarder' = [forwarder EXCEPT ![opened'] = "spawn"]
    /\ UNCHANGED <<poolVars, cancelled, reader, uses>>

(* The forwarder is spawned after the lock is released. *)
StartSpawn(g) ==
    /\ forwarder[g] = "spawn"
    /\ forwarder' = [forwarder EXCEPT ![g] = "running"]
    /\ UNCHANGED <<poolVars, socket, opened, cancelled, reader, uses>>

\* The socket is dropped and its token not cancelled.
StopDropsOnly ==
    /\ socket # 0
    /\ socket' = 0
    /\ UNCHANGED <<poolVars, opened, cancelled, forwarder, reader, uses>>

Stop ==
    /\ socket # 0
    /\ cancelled' = cancelled \cup {socket}
    /\ socket' = 0
    /\ UNCHANGED <<poolVars, opened, forwarder, reader, uses>>

----------------------------------------------------------------------------
(* assign_tunnel() *)

(* There is no socket: the server logs the error and keeps the client. *)
AssignRefused(t) ==
    /\ reg[t] = "none"
    /\ conn[t] # "new"
    /\ socket = 0
    /\ reg' = [reg EXCEPT ![t] = "refused"]
    /\ UNCHANGED <<conn, watcher, tunnels, rotation, picks, udpVars>>

(* The socket and its token are cloned under the lock, which is released. *)
AssignGetSocket(t) ==
    /\ AssignBegin(t)
    /\ socket # 0
    /\ uses' = [uses EXCEPT ![t] = socket]
    /\ UNCHANGED <<socket, opened, cancelled, forwarder, reader>>

(* The reader is spawned first. *)
AssignReader(t) ==
    /\ reg[t] = "watch"
    /\ reader[t] = "none"
    /\ reader' = [reader EXCEPT ![t] = "reading"]
    /\ UNCHANGED <<poolVars, socket, opened, cancelled, forwarder, uses>>

(* The watcher is spawned after the reader, and the tunnel pushed last. *)
AssignRest(t) ==
    /\ reader[t] # "none"
    /\ AssignStep(t)
    /\ UNCHANGED udpVars

----------------------------------------------------------------------------
(* The reader of tunnel t *)

\* The reader takes its tunnel out of the vector, before the watcher does.
ReaderSeesEofAndRemoves(t) ==
    /\ reader[t] = "reading"
    /\ conn[t] = "eof"
    /\ reader' = [reader EXCEPT ![t] = "done"]
    /\ tunnels' = SelectSeq(tunnels, LAMBDA u : u # t)
    /\ picks' = <<>>
    /\ UNCHANGED <<conn, reg, watcher, rotation, socket, opened, cancelled,
                   forwarder, uses>>

(* read_datagram() reports ClosedTunnel. *)
ReaderSeesEof(t) ==
    /\ reader[t] = "reading"
    /\ conn[t] = "eof"
    /\ reader' = [reader EXCEPT ![t] = "done"]
    /\ UNCHANGED <<poolVars, socket, opened, cancelled, forwarder, uses>>

\* The reader returns and leaves its tunnel open.
ReaderCancelledLeavesOpen(t) ==
    /\ reader[t] = "reading"
    /\ uses[t] \in cancelled
    /\ reader' = [reader EXCEPT ![t] = "done"]
    /\ UNCHANGED <<poolVars, socket, opened, cancelled, forwarder, uses>>

(* The token is cancelled: the reader closes the tunnel. *)
ReaderCancelled(t) ==
    /\ reader[t] = "reading"
    /\ uses[t] \in cancelled
    /\ reader' = [reader EXCEPT ![t] = "done"]
    /\ conn' = [conn EXCEPT ![t] = IF @ = "open" THEN "eof" ELSE @]
    /\ UNCHANGED <<reg, watcher, tunnels, rotation, picks,
                   socket, opened, cancelled, forwarder, uses>>

----------------------------------------------------------------------------
(* handle_socket_to_tunnel() for socket g *)

(* A datagram is forwarded to a tunnel; without one it is dropped. *)
Forward(g) ==
    /\ forwarder[g] = "running"
    /\ Pick
    /\ UNCHANGED udpVars

(* recv_from() fails: the task ends and the ingress keeps its socket. *)
ForwarderFails(g) ==
    /\ forwarder[g] = "running"
    /\ forwarder' = [forwarder EXCEPT ![g] = "failed"]
    /\ UNCHANGED <<poolVars, socket, opened, cancelled, reader, uses>>

ForwarderCancelled(g) ==
    /\ forwarder[g] = "running"
    /\ g \in cancelled
    /\ forwarder' = [forwarder EXCEPT ![g] = "stopped"]
    /\ UNCHANGED <<poolVars, socket, opened, cancelled, reader, uses>>

----------------------------------------------------------------------------
Watch(t) == WatcherRemoves(t) /\ UNCHANGED udpVars
Arrive(t) == (Establish(t) \/ Close(t)) /\ UNCHANGED udpVars
Assign(t) == AssignReader(t) \/ AssignRest(t)
Reader(t) == ReaderSeesEof(t) \/ ReaderCancelled(t)

Next ==
    \/ Start \/ Stop
    \/ \E t \in Tunnels : \/ Arrive(t) \/ AssignRefused(t) \/ AssignGetSocket(t)
                          \/ Assign(t) \/ Watch(t) \/ Reader(t)
    \/ \E g \in Sockets : \/ StartSpawn(g) \/ Forward(g)
                          \/ ForwarderFails(g) \/ ForwarderCancelled(g)

Spec == Init /\ [][Next]_vars

(* Tasks run, and select! does not starve a token that stays cancelled. *)
Fairness ==
    /\ \A t \in Tunnels : WF_vars(Assign(t)) /\ WF_vars(Watch(t)) /\ WF_vars(Reader(t))
    /\ \A g \in Sockets : WF_vars(StartSpawn(g)) /\ WF_vars(ForwarderCancelled(g))

FairSpec == Spec /\ Fairness
----------------------------------------------------------------------------
(* The ingress implements the pool of module TunnelPool, where a refused   *)
(* tunnel is one that assign_tunnel() is never called for                  *)
(* (udp_ingress.rs:41-124, 208-258).                                       *)
Pool == INSTANCE TunnelPool
    WITH reg <- [t \in Tunnels |-> IF reg[t] = "refused" THEN "none" ELSE reg[t]]

PoolRefined == Pool!PoolSpec

(* A tunnel whose replies go to a socket that is no longer the ingress's   *)
(* has a cancelled reader, that will close it: after stop() and start() no *)
(* tunnel stays tied to the old socket (udp_ingress.rs:42-58, 172-182).    *)
StaleSocketIsCancelled ==
    \A t \in Tunnels : uses[t] # 0 /\ uses[t] # socket => uses[t] \in cancelled

(* stop() closes every tunnel of its socket, those included whose          *)
(* assign_tunnel() had read the socket before, and ends the forwarder,     *)
(* even one that is not spawned yet (udp_ingress.rs:89-97, 161-165,        *)
(* 235-238).                                                               *)
StopEndsSocketTasks ==
    \A g \in Sockets :
        /\ \A t \in Tunnels : uses[t] = g /\ g \in cancelled ~> Closed(t)
        /\ g \in cancelled ~> forwarder[g] \in {"failed", "stopped"}
============================================================================
