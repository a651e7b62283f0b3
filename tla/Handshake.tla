----------------------------- MODULE Handshake -----------------------------
(***************************************************************************)
(* One connection of a client to the server: authentication on the first   *)
(* stream, the assignment of the tunnel to its ingress, and the command    *)
(* stream that the authentication stream becomes.                          *)
(*                                                                         *)
(* Each side has its own view of the QUIC connection and learns that the   *)
(* other closed it some time later, by a close frame or by the idle        *)
(* timeout.  Frames are delivered in order, or not at all.  quinn closes a *)
(* connection with code 0 when the last handle to it is dropped.           *)
(*                                                                         *)
(* Left out, as no two such peers reach it: a first frame that is not the  *)
(* expected one, a frame that does not decode, and a command stream that   *)
(* is finished by a side whose connection is still open.                   *)
(***************************************************************************)
EXTENDS Naturals, Sequences

CONSTANT MaxFrames   \* bound: frames under way in one direction

ASSUME MaxFramesAssumption == MaxFrames \in Nat \ {0}

VARIABLES
    known,     \* the server was given the ingress that the client asks for
    keyOk,     \* the client has the key of that ingress
    stopping,  \* where Server::stop() is
    client,    \* where handle_client_protocol_v1_auth() is
    result,    \* what it returned
    ccommand,  \* the command task of the client
    server,    \* where handle_connection() is
    cview,     \* the connection as the client sees it: open, or why it ended
    sview,     \* the connection as the server sees it
    ccode,     \* the code of the close frame that the client sent
    scode,     \* the code of the close frame that the server sent
    toServer,  \* frames under way to the server
    toClient   \* frames under way to the client

ingressVars == <<known, keyOk, stopping>>
clientVars == <<client, result, ccommand, cview, ccode>>
serverVars == <<server, sview, scode>>
vars == <<ingressVars, clientVars, serverVars, toServer, toClient>>

Codes == {"CONNECTION_EOF", "REJECTED_AUTH_KEY", "REJECTED_INGRESS_ID",
          "FRAME_NOT_RECEIVED_ON_TIME", "UNKNOWN_ERROR"}
Views == Codes \cup {"open", "Local", "TimedOut"}
Frames == {"Auth", "Authenticated", "Ping", "Pong"}
Errors == {"ClosedTunnel", "RejectedAuthKey", "RejectedIngressId", "Unknown",
           "FrameNotReceivedOnTime", "ConnectError"}

(* Every variable has its type. *)
TypeOK ==
    /\ known \in BOOLEAN /\ keyOk \in BOOLEAN
    /\ stopping \in {"no", "draining", "drained", "closed"}
    /\ client \in {"dialing", "opening", "awaiting", "tunnel", "failed"}
    /\ result \in Errors \cup {"none", "Ok"}
    /\ ccommand \in {"none", "running", "ended"}
    /\ server \in {"accepting", "auth", "assign", "command", "ended"}
    /\ cview \in Views /\ sview \in Views
    /\ ccode \in Codes \cup {"none"} /\ scode \in Codes \cup {"none"}
    /\ toServer \in Seq(Frames) /\ toClient \in Seq(Frames)

Init ==
    /\ known \in BOOLEAN /\ keyOk \in BOOLEAN /\ stopping = "no"
    /\ client = "dialing" /\ result = "none" /\ ccommand = "none"
    /\ server = "accepting"
    /\ cview = "open" /\ sview = "open"
    /\ ccode = "none" /\ scode = "none"
    /\ toServer = <<>> /\ toClient = <<>>

(* impl From<ConnectionError> for Error *)
ErrorOf(view) ==
    CASE view = "CONNECTION_EOF"      -> "ClosedTunnel"
      [] view = "Local"               -> "ClosedTunnel"
      [] view = "REJECTED_AUTH_KEY"   -> "RejectedAuthKey"
      [] view = "REJECTED_INGRESS_ID" -> "RejectedIngressId"
      [] OTHER                        -> "Unknown"

(* connection.close(code): nothing happens if it is closed already. *)
ClientCloses(code) ==
    IF cview = "open" THEN cview' = "Local" /\ ccode' = code
                      ELSE UNCHANGED <<cview, ccode>>

ServerCloses(code) ==
    IF sview = "open" THEN sview' = "Local" /\ scode' = code
                      ELSE UNCHANGED <<sview, scode>>

ClientFails(error) == client' = "failed" /\ result' = error

----------------------------------------------------------------------------
(* connect() and handle_client_protocol_v1_auth() *)

(* endpoint.close() refuses what comes after it. *)
Dial ==
    /\ client = "dialing"
    /\ stopping # "closed"
    /\ client' = "opening"
    /\ UNCHANGED <<ingressVars, result, ccommand, cview, ccode, serverVars, toServer,
                   toClient>>

(* No server, or not the certificate that the client expects. *)
DialFails ==
    /\ client = "dialing"
    /\ ClientFails("ConnectError")
    /\ ClientCloses("CONNECTION_EOF")
    /\ UNCHANGED <<ingressVars, ccommand, serverVars, toServer, toClient>>

(* open_bi() and the Auth frame; an error ends it, and drops the connection. *)
SendAuth ==
    /\ client = "opening"
    /\ \/ /\ cview = "open"
          /\ toServer' = Append(toServer, "Auth")
          /\ client' = "awaiting"
          /\ UNCHANGED result
       \/ /\ cview # "open"
          /\ ClientFails(ErrorOf(cview))
          /\ UNCHANGED toServer
    /\ UNCHANGED <<ingressVars, ccommand, cview, ccode, serverVars, toClient>>

(* Authenticated is received: the command task is spawned. *)
ReceiveAuthenticated ==
    /\ client = "awaiting"
    /\ toClient # <<>>
    /\ Head(toClient) = "Authenticated"
    /\ toClient' = Tail(toClient)
    /\ client' = "tunnel"
    /\ result' = "Ok"
    /\ ccommand' = "running"
    /\ UNCHANGED <<ingressVars, cview, ccode, serverVars, toServer>>

(* The read fails with the reason the connection ended for. *)
AwaitFails ==
    /\ client = "awaiting"
    /\ cview # "open"
    /\ ClientFails(ErrorOf(cview))
    /\ UNCHANGED <<ingressVars, ccommand, cview, ccode, serverVars, toServer, toClient>>

\* The client gives up and leaves the connection open.
AwaitTimeoutLeavesOpen ==
    /\ client = "awaiting"
    /\ ClientFails("FrameNotReceivedOnTime")
    /\ UNCHANGED <<ingressVars, ccommand, cview, ccode, serverVars, toServer, toClient>>

(* Five seconds without an answer; one may be under way, or be there. *)
AwaitTimeout ==
    /\ client = "awaiting"
    /\ ClientFails("FrameNotReceivedOnTime")
    /\ ClientCloses("FRAME_NOT_RECEIVED_ON_TIME")
    /\ UNCHANGED <<ingressVars, ccommand, serverVars, toServer, toClient>>

----------------------------------------------------------------------------
(* handle_client_protocol_v1_command_stream() *)

(* Every five seconds. *)
ClientPing ==
    /\ ccommand = "running"
    /\ cview = "open"
    /\ Len(toServer) < MaxFrames
    /\ toServer' = Append(toServer, "Ping")
    /\ UNCHANGED <<ingressVars, clientVars, serverVars, toClient>>

(* A Ping is answered; the result of the answer is ignored. *)
ClientReceives ==
    /\ ccommand = "running"
    /\ toClient # <<>>
    /\ toClient' = Tail(toClient)
    /\ IF Head(toClient) = "Ping" /\ cview = "open"
       THEN Len(toServer) < MaxFrames /\ toServer' = Append(toServer, "Pong")
       ELSE UNCHANGED toServer
    /\ UNCHANGED <<ingressVars, clientVars, serverVars>>

\* Errors are logged and the loop goes on, except for a regular end.
ClientCommandEndsOnEofOnly ==
    /\ ccommand = "running"
    /\ cview # "open"
    /\ ErrorOf(cview) = "ClosedTunnel"
    /\ ccommand' = "ended"
    /\ UNCHANGED <<ingressVars, client, result, cview, ccode, serverVars, toServer,
                   toClient>>

(* A read or a ping fails: the connection is over. *)
ClientCommandEnds ==
    /\ ccommand = "running"
    /\ cview # "open"
    /\ ccommand' = "ended"
    /\ UNCHANGED <<ingressVars, client, result, cview, ccode, serverVars, toServer,
                   toClient>>

(* tunnel.close() by the egress. *)
EgressCloses ==
    /\ client = "tunnel"
    /\ cview = "open"
    /\ ClientCloses("CONNECTION_EOF")
    /\ UNCHANGED <<ingressVars, client, result, ccommand, serverVars, toServer, toClient>>

----------------------------------------------------------------------------
(* Server::handle_connection() and handle_server_protocol_v1_auth() *)

(* accept_bi() returns when the first bytes of the stream are there, with   *)
(* no limit on the time.                                                    *)
AcceptStream ==
    /\ server = "accepting"
    /\ sview = "open"
    /\ toServer # <<>>
    /\ server' = "auth"
    /\ UNCHANGED <<ingressVars, clientVars, sview, scode, toServer, toClient>>

AcceptFails ==
    /\ server = "accepting"
    /\ sview # "open"
    /\ server' = "ended"
    /\ UNCHANGED <<ingressVars, clientVars, sview, scode, toServer, toClient>>

ReceivesAuth == server = "auth" /\ toServer # <<>> /\ Head(toServer) = "Auth"

(* get_ingress_by_id() waits for the lock that stop() holds while it stops *)
(* the ingresses, and finds none of them afterwards.                       *)
LooksUp == ReceivesAuth /\ stopping # "draining"
Registered == known /\ stopping = "no"

\* The lock is held while the map is emptied, and no longer.
RejectIngressUnlocked ==
    /\ ReceivesAuth
    /\ ~Registered
    /\ ServerCloses("REJECTED_INGRESS_ID")
    /\ server' = "ended"
    /\ toServer' = Tail(toServer)
    /\ UNCHANGED <<ingressVars, clientVars, toClient>>

RejectIngress ==
    /\ LooksUp
    /\ ~Registered
    /\ ServerCloses("REJECTED_INGRESS_ID")
    /\ server' = "ended"
    /\ toServer' = Tail(toServer)
    /\ UNCHANGED <<ingressVars, clientVars, toClient>>

RejectKey ==
    /\ LooksUp
    /\ Registered /\ ~keyOk
    /\ ServerCloses("REJECTED_AUTH_KEY")
    /\ server' = "ended"
    /\ toServer' = Tail(toServer)
    /\ UNCHANGED <<ingressVars, clientVars, toClient>>

\* The key is not compared.
AuthenticateAnyKey ==
    /\ LooksUp
    /\ Registered
    /\ toServer' = Tail(toServer)
    /\ server' = "assign"
    /\ toClient' = Append(toClient, "Authenticated")
    /\ UNCHANGED <<ingressVars, clientVars, sview, scode>>

(* The ingress is cloned, the answer sent and the tunnel made; if the answer *)
(* cannot be sent, the connection is dropped.                                *)
Authenticate ==
    /\ LooksUp
    /\ Registered /\ keyOk
    /\ toServer' = Tail(toServer)
    /\ \/ /\ sview = "open"
          /\ server' = "assign"
          /\ toClient' = Append(toClient, "Authenticated")
       \/ /\ sview # "open"
          /\ server' = "ended"
          /\ UNCHANGED toClient
    /\ UNCHANGED <<ingressVars, clientVars, sview, scode>>

AuthTimeout ==
    /\ server = "auth"
    /\ ServerCloses("FRAME_NOT_RECEIVED_ON_TIME")
    /\ server' = "ended"
    /\ UNCHANGED <<ingressVars, clientVars, toServer, toClient>>

AuthFails ==
    /\ server = "auth"
    /\ sview # "open"
    /\ server' = "ended"
    /\ UNCHANGED <<ingressVars, clientVars, sview, scode, toServer, toClient>>

(* assign_tunnel() (module TunnelPool); an error is logged and no more. *)
Assign ==
    /\ server = "assign"
    /\ server' = "command"
    /\ UNCHANGED <<ingressVars, clientVars, sview, scode, toServer, toClient>>

(* handle_server_protocol_v1_command_stream() *)
ServerPing ==
    /\ server = "command"
    /\ sview = "open"
    /\ Len(toClient) < MaxFrames
    /\ toClient' = Append(toClient, "Ping")
    /\ UNCHANGED <<ingressVars, clientVars, serverVars, toServer>>

ServerReceives ==
    /\ server = "command"
    /\ toServer # <<>>
    /\ sview = "open"
    /\ toServer' = Tail(toServer)
    /\ IF Head(toServer) = "Ping"
       THEN Len(toClient) < MaxFrames /\ toClient' = Append(toClient, "Pong")
       ELSE UNCHANGED toClient
    /\ UNCHANGED <<ingressVars, clientVars, serverVars>>

(* A read or a write fails.  close_with_reason() finds it closed. *)
ServerCommandEnds ==
    /\ server = "command"
    /\ sview # "open"
    /\ server' = "ended"
    /\ UNCHANGED <<ingressVars, clientVars, sview, scode, toServer, toClient>>

(***************************************************************************)
(* Server::stop(): the map of ingresses is drained and every ingress       *)
(* stopped with the lock held; the lock is let go; every connection is     *)
(* closed.                                                                 *)
(***************************************************************************)
StopDrains ==
    /\ stopping = "no"
    /\ stopping' = "draining"
    /\ UNCHANGED <<known, keyOk, clientVars, serverVars, toServer, toClient>>

StopUnlocks ==
    /\ stopping = "draining"
    /\ stopping' = "drained"
    /\ UNCHANGED <<known, keyOk, clientVars, serverVars, toServer, toClient>>

StopCloses ==
    /\ stopping = "drained"
    /\ stopping' = "closed"
    /\ ServerCloses("CONNECTION_EOF")
    /\ UNCHANGED <<known, keyOk, clientVars, server, toServer, toClient>>

(* The reader of a UDP ingress that was stopped closes its tunnel, before  *)
(* stop() does.  A TCP ingress leaves it open.                             *)
IngressCloses ==
    /\ stopping # "no"
    /\ server = "command"
    /\ sview = "open"
    /\ ServerCloses("CONNECTION_EOF")
    /\ UNCHANGED <<ingressVars, clientVars, server, toServer, toClient>>

----------------------------------------------------------------------------
(* The network *)

(* A side whose peer is gone hears of it: the close frame, or silence. *)
ClientHears ==
    /\ cview = "open"
    /\ sview # "open"
    /\ \/ scode # "none" /\ cview' = scode
       \/ cview' = "TimedOut"
    /\ UNCHANGED <<ingressVars, client, result, ccommand, ccode, serverVars, toServer,
                   toClient>>

ServerHears ==
    /\ sview = "open"
    /\ cview # "open"
    /\ \/ ccode # "none" /\ sview' = ccode
       \/ sview' = "TimedOut"
    /\ UNCHANGED <<ingressVars, clientVars, server, scode, toServer, toClient>>

(* The network fails for longer than the idle timeout of one side. *)
NetworkFails ==
    /\ cview = "open" /\ sview = "open"
    /\ \/ cview' = "TimedOut" /\ UNCHANGED sview
       \/ sview' = "TimedOut" /\ UNCHANGED cview
    /\ UNCHANGED <<ingressVars, client, result, ccommand, ccode, server, scode,
                   toServer, toClient>>

----------------------------------------------------------------------------
Connecting == \/ Dial \/ DialFails \/ SendAuth
              \/ ReceiveAuthenticated \/ AwaitFails \/ AwaitTimeout
Serving == \/ AcceptStream \/ AcceptFails
           \/ RejectIngress \/ RejectKey \/ Authenticate
           \/ AuthTimeout \/ AuthFails \/ Assign \/ ServerCommandEnds

Next == \/ Connecting \/ Serving
        \/ ClientPing \/ ClientReceives \/ ClientCommandEnds \/ EgressCloses
        \/ ServerPing \/ ServerReceives
        \/ StopDrains \/ StopUnlocks \/ StopCloses \/ IngressCloses
        \/ ClientHears \/ ServerHears \/ NetworkFails

Spec == Init /\ [][Next]_vars

(***************************************************************************)
(* Fairness.  The client runs, and its timers fire.  Of the server only    *)
(* the tasks of a tunnel it has made are assumed to go on: it may sit on a *)
(* connection that is not authenticated.  A side hears sooner or later     *)
(* that its peer is gone, by a close frame or by the idle timeout.         *)
(***************************************************************************)
ClientFairness == WF_vars(Connecting) /\ WF_vars(ClientCommandEnds)
ServerFairness == WF_vars(Assign \/ ServerCommandEnds)
NetworkFairness == WF_vars(ClientHears) /\ WF_vars(ServerHears)

FairSpec == Spec /\ ClientFairness /\ ServerFairness /\ NetworkFairness
----------------------------------------------------------------------------
(* A client has a tunnel only if it has the key of the ingress and the     *)
(* server has made the tunnel too: no answer, however late or early, makes *)
(* a tunnel on one side alone (client v1.rs:46-63, server v1.rs:31-63).    *)
TunnelMeansAuthenticated ==
    client = "tunnel" => keyOk /\ server \in {"assign", "command", "ended"}

(* A rejection that the client reports is true.  The key is wrong; or the  *)
(* server was never given the ingress; or it stops, and then the stop()    *)
(* of every ingress has returned: no client is told that an ingress is not *)
(* there while it is still being stopped (error.rs:165-169, server         *)
(* v1.rs:31-45, server.rs:144-161).                                        *)
RejectionIsTrue ==
    /\ result = "RejectedAuthKey" => ~keyOk
    /\ result = "RejectedIngressId" => ~known \/ stopping \in {"drained", "closed"}

(* Once one side has lost the connection both have, and both command tasks *)
(* are over (client v1.rs:116-148, server v1.rs:110-142).                  *)
SidesEndTogether ==
    cview # "open" \/ sview # "open" ~>
        /\ cview # "open" /\ sview # "open"
        /\ ccommand # "running" /\ server # "command"

(* A client that waits for an answer stops waiting, even if the server     *)
(* never answers; and a tunnel that the server made for a client that had  *)
(* given up, because the answer lost the race against the timer, does not  *)
(* stay (client v1.rs:83-89, server.rs:202-223).                           *)
HandshakeEnds ==
    /\ client = "awaiting" ~> client \in {"tunnel", "failed"}
    /\ client = "failed" /\ server \in {"assign", "command"} ~> server = "ended"
============================================================================
