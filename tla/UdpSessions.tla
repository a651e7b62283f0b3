---------------------------- MODULE UdpSessions ----------------------------
(***************************************************************************)
(* The sessions of a UDP egress process.  For every origin address whose   *)
(* datagrams arrive over the tunnel there is an entry in the map           *)
(* udp_sockets: the sender of a bounded channel to a task that owns a      *)
(* socket to the target (tunnel -> socket), with a second task for the way *)
(* back (socket -> tunnel).  A session that ends reports its origin on the *)
(* channel expired_origin_socket_addr; the tunnel task then removes the    *)
(* entry of that origin, whichever session it belongs to by then.          *)
(*                                                                         *)
(* Map and channel live as long as one tunnel, called an epoch here; a     *)
(* session keeps the token of the process and the tunnel of its epoch.     *)
(* Payloads are counted, not kept.                                         *)
(***************************************************************************)
EXTENDS Naturals, Sequences

CONSTANTS
    Origins,      \* addresses that send datagrams to the ingress
    Capacity,     \* MAX_MESSAGES_RECEIVED, the bound of a session's channel
    MaxSessions,  \* bound: sessions spawned
    MaxEpochs     \* bound: tunnels established

ASSUME OriginsAssumption == Origins # {}
ASSUME CapacityAssumption == Capacity \in Nat \ {0}
ASSUME MaxSessionsAssumption == MaxSessions \in Nat
ASSUME MaxEpochsAssumption == MaxEpochs \in Nat

VARIABLES
    phase,      \* where the tunnel task is
    epoch,      \* number of tunnels established
    up,         \* whether the tunnel of the current epoch is open
    cancelled,  \* whether the token of the process is cancelled
    sockets,    \* udp_sockets: the session of each origin, or 0
    expired,    \* expired_origin_socket_addr_receiver
    spawned,    \* number of sessions spawned
    origin,     \* the origin of each session
    born,       \* the epoch of each session
    forward,    \* the task tunnel -> socket of each session
    back,       \* the task socket -> tunnel of each session
    inbox,      \* datagrams in the channel of each session
    expiry      \* the sessions whose socket_token is cancelled

mainVars == <<phase, epoch, up, cancelled>>
tableVars == <<sockets, spawned, origin, born>>
vars == <<mainVars, tableVars, expired, forward, back, inbox, expiry>>

Sessions == 1..MaxSessions

(* Every variable has its type. *)
TypeOK ==
    /\ phase \in {"connecting", "serving", "done"}
    /\ epoch \in 0..MaxEpochs
    /\ up \in BOOLEAN
    /\ cancelled \in BOOLEAN
    /\ sockets \in [Origins -> 0..MaxSessions]
    /\ expired \in Seq(Origins)
    /\ spawned \in 0..MaxSessions
    /\ origin \in [Sessions -> Origins]
    /\ born \in [Sessions -> 0..MaxEpochs]
    /\ forward \in [Sessions -> {"unborn", "opening", "piping", "done"}]
    /\ back \in [Sessions -> {"unborn", "piping", "done"}]
    /\ inbox \in [Sessions -> 0..Capacity]
    /\ expiry \subseteq Sessions

Init ==
    /\ phase = "connecting"
    /\ epoch = 0
    /\ up = FALSE
    /\ cancelled = FALSE
    /\ sockets = [o \in Origins |-> 0]
    /\ expired = <<>>
    /\ spawned = 0
    /\ origin = [n \in Sessions |-> CHOOSE o \in Origins : TRUE]
    /\ born = [n \in Sessions |-> 0]
    /\ forward = [n \in Sessions |-> "unborn"]
    /\ back = [n \in Sessions |-> "unborn"]
    /\ inbox = [n \in Sessions |-> 0]
    /\ expiry = {}

(* The tunnel of session n is closed. *)
TunnelGone(n) == born[n] # epoch \/ ~up

(* The map no longer has the sender of session n. *)
SenderDropped(n) == sockets[origin[n]] # n

----------------------------------------------------------------------------
(* The tunnel task *)

Connect ==
    /\ phase = "connecting"
    /\ epoch < MaxEpochs
    /\ phase' = "serving"
    /\ epoch' = epoch + 1
    /\ up' = TRUE
    /\ UNCHANGED <<cancelled, tableVars, expired, forward, back, inbox, expiry>>

(* Environment: the connection ends. *)
TunnelLost ==
    /\ up
    /\ up' = FALSE
    /\ UNCHANGED <<phase, epoch, cancelled, tableVars, expired, forward, back,
                   inbox, expiry>>

(* Environment: stop() cancels the token of the process. *)
Cancel ==
    /\ ~cancelled
    /\ cancelled' = TRUE
    /\ UNCHANGED <<phase, epoch, up, tableVars, expired, forward, back, inbox,
                   expiry>>

\* The channel has no bound.
DatagramUnbounded(o) ==
    /\ phase = "serving"
    /\ sockets[o] # 0
    /\ inbox' = [inbox EXCEPT ![sockets[o]] = @ + 1]
    /\ UNCHANGED <<mainVars, tableVars, expired, forward, back, expiry>>

(* process_datagram() for an origin with an entry: try_send() drops the     *)
(* datagram if the channel is full or its receiver is gone.                 *)
DatagramToSession(o) ==
    /\ phase = "serving"
    /\ sockets[o] # 0
    /\ inbox' = [inbox EXCEPT ![sockets[o]] =
                    IF forward[sockets[o]] # "done" /\ @ < Capacity THEN @ + 1 ELSE @]
    /\ UNCHANGED <<mainVars, tableVars, expired, forward, back, expiry>>

\* A session is spawned for every datagram.
DatagramAlwaysSpawns(o) ==
    /\ phase = "serving"
    /\ spawned < MaxSessions
    /\ spawned' = spawned + 1
    /\ sockets' = [sockets EXCEPT ![o] = spawned']
    /\ origin' = [origin EXCEPT ![spawned'] = o]
    /\ born' = [born EXCEPT ![spawned'] = epoch]
    /\ forward' = [forward EXCEPT ![spawned'] = "opening"]
    /\ inbox' = [inbox EXCEPT ![spawned'] = 1]
    /\ UNCHANGED <<mainVars, expired, back, expiry>>

(* process_datagram() for another origin: a session is spawned, gets the    *)
(* datagram and an entry.                                                   *)
DatagramSpawns(o) ==
    /\ phase = "serving"
    /\ sockets[o] = 0
    /\ spawned < MaxSessions
    /\ spawned' = spawned + 1
    /\ sockets' = [sockets EXCEPT ![o] = spawned']
    /\ origin' = [origin EXCEPT ![spawned'] = o]
    /\ born' = [born EXCEPT ![spawned'] = epoch]
    /\ forward' = [forward EXCEPT ![spawned'] = "opening"]
    /\ inbox' = [inbox EXCEPT ![spawned'] = 1]
    /\ UNCHANGED <<mainVars, expired, back, expiry>>

(* An origin is received from the channel and its entry removed. *)
RemoveExpired ==
    /\ phase = "serving"
    /\ expired # <<>>
    /\ sockets' = [sockets EXCEPT ![Head(expired)] = 0]
    /\ expired' = Tail(expired)
    /\ UNCHANGED <<mainVars, spawned, origin, born, forward, back, inbox, expiry>>

\* The channel outlives the tunnel, and the map does not.
TunnelClosedKeepsChannel ==
    /\ phase = "serving"
    /\ ~up
    /\ phase' = "connecting"
    /\ sockets' = [o \in Origins |-> 0]
    /\ UNCHANGED <<epoch, up, cancelled, expired, spawned, origin, born, forward,
                   back, inbox, expiry>>

(* closed(): map and channel are dropped and the task connects again. *)
TunnelClosed ==
    /\ phase = "serving"
    /\ ~up
    /\ phase' = "connecting"
    /\ sockets' = [o \in Origins |-> 0]
    /\ expired' = <<>>
    /\ UNCHANGED <<epoch, up, cancelled, spawned, origin, born, forward, back,
                   inbox, expiry>>

(* The token is cancelled: the tunnel is closed and the task ends. *)
ServeCancelled ==
    /\ phase = "serving"
    /\ cancelled
    /\ phase' = "done"
    /\ up' = FALSE
    /\ sockets' = [o \in Origins |-> 0]
    /\ expired' = <<>>
    /\ UNCHANGED <<epoch, cancelled, spawned, origin, born, forward, back,
                   inbox, expiry>>

(* A wait for the next attempt to connect is given up. *)
ReconnectCancelled ==
    /\ phase = "connecting"
    /\ cancelled
    /\ phase' = "done"
    /\ UNCHANGED <<epoch, up, cancelled, tableVars, expired, forward, back,
                   inbox, expiry>>

----------------------------------------------------------------------------
(* The tasks of session n *)

(* expired_origin_socket_addr_sender.send(): nobody receives it after the   *)
(* tunnel of the session was left.                                          *)
ReportExpired(n) ==
    expired' = IF phase = "serving" /\ born[n] = epoch
               THEN Append(expired, origin[n])
               ELSE expired

\* The origin is not reported.
SocketFailsSilently(n) ==
    /\ forward[n] = "opening"
    /\ forward' = [forward EXCEPT ![n] = "done"]
    /\ UNCHANGED <<mainVars, tableVars, expired, back, inbox, expiry>>

(* get_udp_socket() fails. *)
SocketFails(n) ==
    /\ forward[n] = "opening"
    /\ forward' = [forward EXCEPT ![n] = "done"]
    /\ ReportExpired(n)
    /\ UNCHANGED <<mainVars, tableVars, back, inbox, expiry>>

(* The socket is open and the task of the way back is spawned. *)
SocketOpens(n) ==
    /\ forward[n] = "opening"
    /\ forward' = [forward EXCEPT ![n] = "piping"]
    /\ back' = [back EXCEPT ![n] = "piping"]
    /\ UNCHANGED <<mainVars, tableVars, expired, inbox, expiry>>

(* recv_many() takes all there is; each datagram is sent, or dropped if the *)
(* socket is not ready.                                                     *)
Deliver(n) ==
    /\ forward[n] = "piping"
    /\ inbox[n] > 0
    /\ inbox' = [inbox EXCEPT ![n] = 0]
    /\ UNCHANGED <<mainVars, tableVars, expired, forward, back, expiry>>

(* recv_many() returns 0: the sender is dropped.  socket_token is left as   *)
(* it is.                                                                   *)
ChannelClosed(n) ==
    /\ forward[n] = "piping"
    /\ inbox[n] = 0
    /\ SenderDropped(n)
    /\ forward' = [forward EXCEPT ![n] = "done"]
    /\ UNCHANGED <<mainVars, tableVars, expired, back, inbox, expiry>>

\* The way back is not told that the session is over.
IdleTimeoutKeepsSocket(n) ==
    /\ forward[n] = "piping"
    /\ forward' = [forward EXCEPT ![n] = "done"]
    /\ ReportExpired(n)
    /\ UNCHANGED <<mainVars, tableVars, back, inbox, expiry>>

(* Nothing came from the tunnel for 60 s.  A datagram that arrives as the   *)
(* timer fires may be lost: select! picks either.                           *)
IdleTimeout(n) ==
    /\ forward[n] = "piping"
    /\ forward' = [forward EXCEPT ![n] = "done"]
    /\ ReportExpired(n)
    /\ expiry' = expiry \cup {n}
    /\ UNCHANGED <<mainVars, tableVars, back, inbox>>

ForwardCancelled(n) ==
    /\ forward[n] = "piping"
    /\ cancelled
    /\ forward' = [forward EXCEPT ![n] = "done"]
    /\ UNCHANGED <<mainVars, tableVars, expired, back, inbox, expiry>>

ForwardTunnelClosed(n) ==
    /\ forward[n] = "piping"
    /\ TunnelGone(n)
    /\ forward' = [forward EXCEPT ![n] = "done"]
    /\ ReportExpired(n)
    /\ UNCHANGED <<mainVars, tableVars, back, inbox, expiry>>

BackEnds(n) ==
    /\ back[n] = "piping"
    /\ n \in expiry \/ TunnelGone(n) \/ cancelled
    /\ back' = [back EXCEPT ![n] = "done"]
    /\ UNCHANGED <<mainVars, tableVars, expired, forward, inbox, expiry>>

----------------------------------------------------------------------------
TunnelTask == \/ RemoveExpired \/ TunnelClosed
              \/ ServeCancelled \/ ReconnectCancelled

SocketStep(n) == SocketFails(n) \/ SocketOpens(n)

ForwardEnds(n) == ChannelClosed(n) \/ ForwardCancelled(n) \/ ForwardTunnelClosed(n)

Next ==
    \/ Connect \/ TunnelLost \/ Cancel \/ TunnelTask
    \/ \E o \in Origins : DatagramToSession(o) \/ DatagramSpawns(o)
    \/ \E n \in Sessions : \/ SocketStep(n) \/ ForwardEnds(n) \/ BackEnds(n)
                           \/ Deliver(n) \/ IdleTimeout(n)

Spec == Init /\ [][Next]_vars

(* The runtime polls tasks that are ready, and select! starves no branch   *)
(* that stays ready.  A timer fires at the end of 60 quiet seconds, which  *)
(* no session has to see; nobody has to send, to stop or to disconnect.    *)
Fairness ==
    /\ WF_vars(RemoveExpired)
    /\ WF_vars(TunnelClosed)
    /\ WF_vars(ServeCancelled)
    /\ WF_vars(ReconnectCancelled)
    /\ \A n \in Sessions : /\ WF_vars(SocketStep(n)) /\ WF_vars(Deliver(n))
                           /\ WF_vars(ForwardEnds(n)) /\ WF_vars(BackEnds(n))

FairSpec == Spec /\ Fairness
----------------------------------------------------------------------------
Live(n) == forward[n] \in {"opening", "piping"}

(* A session of the current tunnel that is alive has the entry of its      *)
(* origin: no expiry message of an earlier session takes its entry away,   *)
(* and no origin has two sessions (udp_egress.rs:176-180, 224-241).        *)
LiveSessionHasEntry ==
    \A n \in Sessions :
        Live(n) /\ born[n] = epoch /\ phase = "serving" => sockets[origin[n]] = n

(* Every message in the expiry channel names the entry of the session that *)
(* sent it, which is over (udp_egress.rs:256, 285, 293).                   *)
ExpiredEntryIsDead ==
    \A i \in 1..Len(expired) :
        sockets[expired[i]] # 0 /\ forward[sockets[expired[i]]] = "done"

(* An entry whose session is over, to which datagrams are sent in vain,    *)
(* goes away (udp_egress.rs:176-180, 225).                                 *)
DeadEntriesLeave ==
    \A n \in Sessions, o \in Origins :
        sockets[o] = n /\ forward[n] = "done" ~> sockets[o] # n

(* Both tasks of a session end when its tunnel or its process ends, or     *)
(* when it is idle (udp_egress.rs:273-332).                                *)
SessionsEnd ==
    \A n \in Sessions :
        forward[n] = "done" \/ (forward[n] # "unborn" /\ (TunnelGone(n) \/ cancelled))
            ~> forward[n] = "done" /\ back[n] # "piping"
============================================================================
