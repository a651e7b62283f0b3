------------------------------- MODULE Server -------------------------------
(***************************************************************************)
(* The server of the library: its endpoint, the ingresses registered with  *)
(* it, the task of every QUIC connection, and stop().                      *)
(*                                                                         *)
(* The locks of `endpoint` and `ingress_by_id` block the thread that wants *)
(* them, and stop() holds the first until it returns and the second while  *)
(* it stops the ingresses.  The tasks of connections, and the driver of    *)
(* the endpoint that wait_idle() waits for, share Workers threads.  stop() *)
(* has a thread of its own: a future that keeps a guard of parking_lot     *)
(* cannot be spawned.  What passes between the two ends of a connection is *)
(* in module Handshake, what an ingress does with a tunnel in TunnelPool.  *)
(***************************************************************************)
EXTENDS Naturals, Sequences, FiniteSets

CONSTANTS
    Connections,  \* slots for the QUIC connections alive at one time
    Workers       \* worker threads of the runtime

ASSUME WorkersAssumption == Workers \in Nat \ {0}

VARIABLES
    endpoint,   \* ServerInner.endpoint is Some
    open,       \* the QUIC endpoint is open
    ingresses,  \* the ingresses created so far: configuration and state
    registry,   \* ingress_by_id: the indices of the registered ingresses
    stopping,   \* where stop() is
    conn        \* the connections and their tasks

serverVars == <<endpoint, open, ingresses, registry, stopping, conn>>

NoConnection == [pc |-> "none", up |-> FALSE, id |-> <<>>, key |-> <<>>, ingress |-> 0]

ServerInit ==
    /\ endpoint = FALSE
    /\ open = FALSE
    /\ ingresses = <<>>
    /\ registry = {}
    /\ stopping = "no"
    /\ conn = [k \in Connections |-> NoConnection]

\* The guard is bound to a variable and lives until stop() returns.
RegistryLockedToTheEnd == stopping # "no"

(* stop() holds the write lock of ingress_by_id. *)
RegistryLocked == stopping = "drain"

(* A task that waits for a lock keeps its thread. *)
FreeWorker == Cardinality({k \in Connections : conn[k].pc = "blocked"}) < Workers

----------------------------------------------------------------------------
(* listen() *)
Listen ==
    /\ ~endpoint
    /\ stopping = "no"
    /\ endpoint' = TRUE
    /\ open' = TRUE
    /\ UNCHANGED <<ingresses, registry, stopping, conn>>

(* Two TCP ingresses cannot listen on one address; UDP sockets share it,   *)
(* SO_REUSEPORT is set.                                                    *)
CanBind(config) ==
    config.kind = "TCP" =>
        \A i \in DOMAIN ingresses :
            ~(/\ ingresses[i].kind = "TCP"
              /\ ingresses[i].state = "listening"
              /\ ingresses[i].addr = config.addr)

\* The future of start() is dropped and never awaited.
StartIngressUnawaited(config) ==
    /\ ingresses' = Append(ingresses,
                         [kind |-> config.kind, id |-> config.id, addr |-> config.addr,
                          auth_key |-> config.auth_key, state |-> "stopped"])
    /\ UNCHANGED <<endpoint, open, registry, stopping, conn>>

(* new() and start() of an ingress. *)
StartIngress(config) ==
    /\ CanBind(config)
    /\ ingresses' = Append(ingresses,
                         [kind |-> config.kind, id |-> config.id, addr |-> config.addr,
                          auth_key |-> config.auth_key, state |-> "listening"])
    /\ UNCHANGED <<endpoint, open, registry, stopping, conn>>

IdTaken(i) == \E j \in registry : ingresses[j].id = ingresses[i].id

(* assign_ingress() *)
AssignIngress(i) ==
    /\ ~RegistryLocked
    /\ ~IdTaken(i)
    /\ registry' = registry \cup {i}
    /\ UNCHANGED <<endpoint, open, ingresses, stopping, conn>>

----------------------------------------------------------------------------
(* stop() *)

(* Takes the endpoint, and the lock of the ingresses. *)
StopTake ==
    /\ endpoint
    /\ stopping = "no"
    /\ endpoint' = FALSE
    /\ stopping' = "drain"
    /\ UNCHANGED <<open, ingresses, registry, conn>>

(* drain() hands out an ingress, which is stopped. *)
StopIngress(i) ==
    /\ stopping = "drain"
    /\ i \in registry
    /\ registry' = registry \ {i}
    /\ ingresses' = [ingresses EXCEPT ![i].state = "stopped"]
    /\ UNCHANGED <<endpoint, open, stopping, conn>>

(* drain() is at its end: the lock of the ingresses is released. *)
StopRelease ==
    /\ stopping = "drain"
    /\ registry = {}
    /\ stopping' = "close"
    /\ UNCHANGED <<endpoint, open, ingresses, registry, conn>>

(* close() ends every connection, and the accept loop. *)
StopClose ==
    /\ stopping = "close"
    /\ open' = FALSE
    /\ conn' = [k \in Connections |-> [conn[k] EXCEPT !.up = FALSE]]
    /\ stopping' = "idle"
    /\ UNCHANGED <<endpoint, ingresses, registry>>

(* wait_idle() returns once the driver has drained the connections. *)
StopIdle ==
    /\ stopping = "idle"
    /\ FreeWorker
    /\ stopping' = "no"
    /\ UNCHANGED <<endpoint, open, ingresses, registry, conn>>

Stopping == StopRelease \/ StopClose \/ StopIdle \/ \E i \in registry : StopIngress(i)

----------------------------------------------------------------------------
(* handle_connection() *)

Accept(k, id, key) ==
    /\ open
    /\ FreeWorker
    /\ conn[k] = NoConnection
    /\ conn' = [conn EXCEPT ![k] = [NoConnection EXCEPT !.pc = "auth", !.up = TRUE,
                                                        !.id = id, !.key = key]]
    /\ UNCHANGED <<endpoint, open, ingresses, registry, stopping>>

Matching(k) ==
    {i \in registry : /\ ingresses[i].id = conn[k].id
                      /\ ingresses[i].auth_key = conn[k].key}

(* get_ingress_by_id() finds no such ingress, the key is another one, or   *)
(* the answer cannot be sent: the connection is closed, the task ends.     *)
Reject(k) ==
    /\ Matching(k) = {} \/ ~conn[k].up
    /\ conn' = [conn EXCEPT ![k] = NoConnection]

Authenticate(k) ==
    /\ conn[k].up
    /\ \E i \in Matching(k) :
        conn' = [conn EXCEPT ![k].pc = "assign", ![k].ingress = i]

LookUp(k) ==
    /\ \/ conn[k].pc = "auth" /\ FreeWorker
       \/ conn[k].pc = "blocked"
    /\ ~RegistryLocked
    /\ Reject(k) \/ Authenticate(k)
    /\ UNCHANGED <<endpoint, open, ingresses, registry, stopping>>

(* stop() holds the lock: the thread waits, and the task with it. *)
LookUpBlocks(k) ==
    /\ conn[k].pc = "auth"
    /\ FreeWorker
    /\ RegistryLocked
    /\ conn' = [conn EXCEPT ![k].pc = "blocked"]
    /\ UNCHANGED <<endpoint, open, ingresses, registry, stopping>>

(* A UDP ingress without a socket refuses the tunnel.  The error is logged *)
(* and the connection served all the same.                                 *)
AssignTunnel(k) ==
    /\ conn[k].pc = "assign"
    /\ FreeWorker
    /\ LET ingress == ingresses[conn[k].ingress] IN
        conn' = [conn EXCEPT ![k].pc =
                    IF ingress.kind = "UDP" /\ ingress.state = "stopped"
                    THEN "refused" ELSE "tunnel"]
    /\ UNCHANGED <<endpoint, open, ingresses, registry, stopping>>

(* The command stream, or the wait for the first frame, ends with the      *)
(* connection.                                                             *)
ConnectionEnds(k) ==
    /\ conn[k].pc \in {"auth", "tunnel", "refused"}
    /\ FreeWorker
    /\ ~conn[k].up
    /\ conn' = [conn EXCEPT ![k] = NoConnection]
    /\ UNCHANGED <<endpoint, open, ingresses, registry, stopping>>

(* The reader of a tunnel at a UDP ingress that stopped closes the tunnel. *)
ReaderCloses(k) ==
    /\ conn[k].pc = "tunnel"
    /\ conn[k].up
    /\ FreeWorker
    /\ ingresses[conn[k].ingress].kind = "UDP"
    /\ ingresses[conn[k].ingress].state = "stopped"
    /\ conn' = [conn EXCEPT ![k].up = FALSE]
    /\ UNCHANGED <<endpoint, open, ingresses, registry, stopping>>

ConnectionTask(k) ==
    LookUp(k) \/ LookUpBlocks(k) \/ AssignTunnel(k) \/ ConnectionEnds(k) \/ ReaderCloses(k)

(* The peer closes the connection, or the network fails. *)
LinkLost(k) ==
    /\ conn[k].up
    /\ conn' = [conn EXCEPT ![k].up = FALSE]
    /\ UNCHANGED <<endpoint, open, ingresses, registry, stopping>>
============================================================================
