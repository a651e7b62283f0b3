----------------------------- MODULE TunnelPool -----------------------------
(***************************************************************************)
(* The tunnels of an ingress: assign_tunnel() adds one, a watcher task per *)
(* tunnel removes it when its connection ends, and get_tunnel_to_connect() *)
(* picks one for a TCP connection or a datagram, in rotation.  TcpIngress  *)
(* and UdpIngress have the same code for this; the modules of these names  *)
(* extend this one.                                                        *)
(*                                                                         *)
(* A tunnel identifies one QUIC connection: a client that reconnects comes *)
(* back as another tunnel.                                                 *)
(***************************************************************************)
EXTENDS Naturals, Sequences

CONSTANTS
    Tunnels,      \* the QUIC connections that clients make
    MaxRotation   \* bound: increments of tunnel_rotation (usize in the code)

ASSUME MaxRotationAssumption == MaxRotation \in Nat

VARIABLES
    conn,      \* each connection: not made yet, open, or how it ended
    reg,       \* where assign_tunnel() is, for each tunnel
    watcher,   \* the task that waits for the end of each tunnel
    tunnels,   \* the vector of assigned tunnels
    rotation,  \* tunnel_rotation
    picks      \* observer: the last picks since the vector changed

poolVars == <<conn, reg, watcher, tunnels, rotation, picks>>

InPool(t) == \E i \in 1..Len(tunnels) : tunnels[i] = t
Closed(t) == conn[t] \in {"eof", "error"}

(* "eof": this side or the peer closed it; "error": it timed out, was reset *)
(* or was closed with another code (error.rs:162-178).                      *)
PoolTypeOK ==
    /\ conn \in [Tunnels -> {"new", "open", "eof", "error"}]
    /\ reg \in [Tunnels -> {"none", "watch", "push", "assigned", "refused"}]
    /\ watcher \in [Tunnels -> {"none", "waiting", "done"}]
    /\ tunnels \in Seq(Tunnels)
    /\ rotation \in 0..MaxRotation
    /\ picks \in Seq(Tunnels)

PoolInit ==
    /\ conn = [t \in Tunnels |-> "new"]
    /\ reg = [t \in Tunnels |-> "none"]
    /\ watcher = [t \in Tunnels |-> "none"]
    /\ tunnels = <<>>
    /\ rotation = 0
    /\ picks = <<>>

----------------------------------------------------------------------------
(* Environment: a client is connected and authenticated. *)
Establish(t) ==
    /\ conn[t] = "new"
    /\ conn' = [conn EXCEPT ![t] = "open"]
    /\ UNCHANGED <<reg, watcher, tunnels, rotation, picks>>

(* Environment: the connection ends; at any time, before or while the      *)
(* tunnel is assigned too.                                                 *)
Close(t) ==
    /\ conn[t] = "open"
    /\ \E how \in {"eof", "error"} : conn' = [conn EXCEPT ![t] = how]
    /\ UNCHANGED <<reg, watcher, tunnels, rotation, picks>>

(* The server calls assign_tunnel(). *)
AssignBegin(t) ==
    /\ reg[t] = "none"
    /\ conn[t] # "new"
    /\ reg' = [reg EXCEPT ![t] = "watch"]
    /\ UNCHANGED <<conn, watcher, tunnels, rotation, picks>>

(* The watcher is spawned before the tunnel is in the vector. *)
AssignWatch(t) ==
    /\ reg[t] = "watch"
    /\ watcher' = [watcher EXCEPT ![t] = "waiting"]
    /\ reg' = [reg EXCEPT ![t] = "push"]
    /\ UNCHANGED <<conn, tunnels, rotation, picks>>

\* The new tunnel takes the place of the last one.
AssignPushReplaces(t) ==
    /\ reg[t] = "push"
    /\ tunnels' = IF Len(tunnels) = 0 THEN <<t>> ELSE [tunnels EXCEPT ![Len(tunnels)] = t]
    /\ reg' = [reg EXCEPT ![t] = "assigned"]
    /\ picks' = <<>>
    /\ UNCHANGED <<conn, watcher, rotation>>

AssignPush(t) ==
    /\ reg[t] = "push"
    /\ tunnels' = Append(tunnels, t)
    /\ reg' = [reg EXCEPT ![t] = "assigned"]
    /\ picks' = <<>>
    /\ UNCHANGED <<conn, watcher, rotation>>

\* The last element is copied and not taken.
SwapRemoveKeepsLast(s, i) ==
    [k \in 1..Len(s) |-> IF k = i THEN s[Len(s)] ELSE s[k]]

\* The place is emptied and kept.
SwapRemoveLeavesHole(s, i) == [s EXCEPT ![i] = "None"]

(* Vec::swap_remove: the last element takes the place of the removed one. *)
SwapRemove(s, i) ==
    [k \in 1..(Len(s) - 1) |-> IF k = i THEN s[Len(s)] ELSE s[k]]

\* Only the end of the vector is looked at.
WatcherRemovesOnlyLast(t) ==
    /\ watcher[t] = "waiting"
    /\ Closed(t)
    /\ watcher' = [watcher EXCEPT ![t] = "done"]
    /\ IF Len(tunnels) > 0 /\ tunnels[Len(tunnels)] = t
       THEN tunnels' = SubSeq(tunnels, 1, Len(tunnels) - 1) /\ picks' = <<>>
       ELSE UNCHANGED <<tunnels, picks>>
    /\ UNCHANGED <<conn, reg, rotation>>

(* closed() returns; the vector is searched and changed under its lock. *)
WatcherRemoves(t) ==
    /\ watcher[t] = "waiting"
    /\ Closed(t)
    /\ watcher' = [watcher EXCEPT ![t] = "done"]
    /\ \/ \E i \in 1..Len(tunnels) :
            /\ tunnels[i] = t
            /\ \A k \in 1..(i - 1) : tunnels[k] # t
            /\ tunnels' = SwapRemove(tunnels, i)
            /\ picks' = <<>>
       \/ /\ ~InPool(t)
          /\ UNCHANGED <<tunnels, picks>>
    /\ UNCHANGED <<conn, reg, rotation>>

(* The tunnel that get_tunnel_to_connect() returns, for a non-empty vector. *)
Picked == IF Len(tunnels) = 1 THEN tunnels[1]
          ELSE tunnels[(rotation % Len(tunnels)) + 1]

\* The counter is read and increased in two steps, so that two picks may
\* read the same value.
RotateSlowly ==
    rotation' = IF Len(tunnels) = 1 \/ Len(picks) % 2 = 1
                THEN rotation ELSE rotation + 1

(* fetch_add(1), for two tunnels or more. *)
Rotate == rotation' = IF Len(tunnels) = 1 THEN rotation ELSE rotation + 1

(* get_tunnel_to_connect() returns a tunnel. *)
Pick ==
    /\ Len(tunnels) > 0
    /\ Len(tunnels) > 1 => rotation < MaxRotation
    /\ Rotate
    /\ picks' = IF Len(picks) < Len(tunnels)
                THEN Append(picks, Picked)
                ELSE Append(Tail(picks), Picked)
    /\ UNCHANGED <<conn, reg, watcher, tunnels>>

AssignStep(t) == AssignWatch(t) \/ AssignPush(t)

PoolNext ==
    \/ \E t \in Tunnels : \/ Establish(t) \/ Close(t)
                          \/ AssignBegin(t) \/ AssignStep(t) \/ WatcherRemoves(t)
    \/ Pick

PoolSpec == PoolInit /\ [][PoolNext]_poolVars

(* assign_tunnel() and the watchers run; nobody has to connect, to close or *)
(* to pick.                                                                 *)
PoolFairness ==
    \A t \in Tunnels : WF_poolVars(AssignStep(t)) /\ WF_poolVars(WatcherRemoves(t))

FairPoolSpec == PoolSpec /\ PoolFairness
----------------------------------------------------------------------------
(* A tunnel that is assigned and still open is a candidate: the removals   *)
(* of other tunnels, that move elements around, never lose it              *)
(* (tcp_ingress.rs:52-62).                                                 *)
OpenTunnelsInPool ==
    \A t \in Tunnels : reg[t] = "assigned" /\ ~Closed(t) => InPool(t)

(* No tunnel is in the vector twice, so none gets two shares of the        *)
(* traffic and position() finds the one there is (tcp_ingress.rs:57-58).   *)
NoDuplicates ==
    \A i, j \in 1..Len(tunnels) : tunnels[i] = tunnels[j] => i = j

(* readme.md: while the vector does not change, the tunnels take turns:    *)
(* Len(tunnels) picks in a row are all different (tcp_ingress.rs:191-206). *)
RoundRobin ==
    \A i, j \in 1..Len(picks) :
        i < j /\ j - i < Len(tunnels) => picks[i] # picks[j]

(* A tunnel that was in the vector when it closed leaves it                *)
(* (tcp_ingress.rs:52-60).                                                 *)
ClosedTunnelLeaves ==
    \A t \in Tunnels :
        InPool(t) /\ watcher[t] = "waiting" /\ Closed(t) ~> ~InPool(t)

(* readme.md: an ingress stops tunneling to an egress that is disconnected *)
(* (tcp_ingress.rs:52-62).                                                 *)
DisconnectedTunnelLeaves ==
    \A t \in Tunnels : Closed(t) /\ InPool(t) ~> ~InPool(t)
============================================================================
