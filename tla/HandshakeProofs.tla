-------------------------- MODULE HandshakeProofs --------------------------
(***************************************************************************)
(* What the handshake guarantees however answers, timers, close frames and *)
(* the end of the server race, for every number of frames under way.       *)
(***************************************************************************)
EXTENDS Handshake, TLAPS

(* The server has made the tunnel, for a client with the right key. *)
ServerAuthenticated == keyOk /\ server \in {"assign", "command", "ended"}

(* An answer is under way only if the server has authenticated. *)
AnswerMeansAuthenticated ==
    \A i \in 1..Len(toClient) : toClient[i] = "Authenticated" => ServerAuthenticated

(* The key stays what it is, and stop() goes in one direction: a code of   *)
(* rejection that is true when it is sent remains true on its way, when it *)
(* is heard, and when it is reported.                                      *)
CodeIsTrue(code) ==
    /\ code = "REJECTED_AUTH_KEY" => ~keyOk
    /\ code = "REJECTED_INGRESS_ID" => ~known \/ stopping \in {"drained", "closed"}

IInv ==
    /\ TypeOK
    /\ AnswerMeansAuthenticated
    /\ CodeIsTrue(scode)
    /\ CodeIsTrue(cview)
    /\ TunnelMeansAuthenticated
    /\ RejectionIsTrue

(* From<ConnectionError> reports a rejection for its own code only. *)
LEMMA ErrorOfView ==
    ASSUME NEW view \in Views
    PROVE  /\ ErrorOf(view) \in Errors
           /\ ErrorOf(view) = "RejectedAuthKey" => view = "REJECTED_AUTH_KEY"
           /\ ErrorOf(view) = "RejectedIngressId" => view = "REJECTED_INGRESS_ID"
BY DEF ErrorOf, Views, Codes, Errors

LEMMA InitIInv == Init => IInv
BY DEF Init, IInv, TypeOK, AnswerMeansAuthenticated, CodeIsTrue, Views, Codes,
   TunnelMeansAuthenticated, RejectionIsTrue, Errors

(* Taking the first frame leaves frames that were there. *)
LEMMA TailFrames ==
    ASSUME NEW s \in Seq(Frames), s # <<>>
    PROVE  /\ Tail(s) \in Seq(Frames)
           /\ Head(s) = s[1] /\ 1 \in 1..Len(s)
           /\ \A i \in 1..Len(Tail(s)) : i + 1 \in 1..Len(s) /\ Tail(s)[i] = s[i + 1]
OBVIOUS

LEMMA AppendFrames ==
    ASSUME NEW s \in Seq(Frames), NEW f \in Frames
    PROVE  /\ Append(s, f) \in Seq(Frames)
           /\ \A i \in 1..Len(Append(s, f)) :
                \/ i \in 1..Len(s) /\ Append(s, f)[i] = s[i]
                \/ Append(s, f)[i] = f
OBVIOUS

(* connect() and the command task of the client. *)
LEMMA ClientStep ==
    ASSUME IInv, Connecting \/ ClientPing \/ ClientReceives \/ ClientCommandEnds \/ EgressCloses
    PROVE  IInv'
<1> USE DEF IInv, ingressVars, serverVars, clientVars
<1>1. CASE Dial
  BY <1>1 DEF Dial, TypeOK, AnswerMeansAuthenticated, CodeIsTrue, 
     TunnelMeansAuthenticated, RejectionIsTrue, ServerAuthenticated
<1>2. CASE DialFails \/ AwaitTimeout \/ EgressCloses
  <2>1. /\ UNCHANGED <<known, keyOk, stopping, server, sview, scode, toServer, toClient, ccommand>>
        /\ \/ UNCHANGED <<client, result>>
           \/ client' = "failed" /\ result' \in {"ConnectError", "FrameNotReceivedOnTime"}
        /\ \/ UNCHANGED <<cview, ccode>>
           \/ cview' = "Local" /\ ccode' \in {"CONNECTION_EOF", "FRAME_NOT_RECEIVED_ON_TIME"}
    BY <1>2 DEF DialFails, AwaitTimeout, EgressCloses, ClientFails, ClientCloses
  <2>2. TypeOK' BY <2>1 DEF TypeOK, Views, Codes, Errors
  <2> QED
    BY <2>1, <2>2 DEF AnswerMeansAuthenticated, CodeIsTrue, 
       TunnelMeansAuthenticated, RejectionIsTrue, ServerAuthenticated
<1>3. CASE SendAuth \/ AwaitFails
  <2>1. /\ UNCHANGED <<known, keyOk, stopping, server, sview, scode, cview, ccode, toClient, ccommand>>
        /\ \/ UNCHANGED toServer
           \/ toServer' = Append(toServer, "Auth")
        /\ \/ client' = "awaiting" /\ UNCHANGED result
           \/ client' = "failed" /\ result' = ErrorOf(cview)
    BY <1>3 DEF SendAuth, AwaitFails, ClientFails
  <2>2. /\ ErrorOf(cview) \in Errors
        /\ ErrorOf(cview) = "RejectedAuthKey" => cview = "REJECTED_AUTH_KEY"
        /\ ErrorOf(cview) = "RejectedIngressId" => cview = "REJECTED_INGRESS_ID"
    BY ErrorOfView DEF TypeOK
  <2>3. toServer' \in Seq(Frames) BY <2>1, AppendFrames DEF TypeOK, Frames
  <2>4. TypeOK' BY <2>1, <2>2, <2>3 DEF TypeOK
  <2> QED
    BY <2>1, <2>2, <2>4 DEF AnswerMeansAuthenticated, CodeIsTrue, 
       TunnelMeansAuthenticated, RejectionIsTrue, ServerAuthenticated
<1>4. CASE ReceiveAuthenticated \/ ClientReceives
  <2>1. toClient # <<>> /\ toClient' = Tail(toClient)
    BY <1>4 DEF ReceiveAuthenticated, ClientReceives
  <2>2. UNCHANGED <<known, keyOk, stopping, server, sview, scode, cview, ccode>>
    BY <1>4 DEF ReceiveAuthenticated, ClientReceives
  <2>3. AnswerMeansAuthenticated'
    BY <2>1, <2>2, TailFrames DEF AnswerMeansAuthenticated, TypeOK, ServerAuthenticated
  <2>4. toClient' \in Seq(Frames) BY <2>1, TailFrames DEF TypeOK
  <2>5. CASE ReceiveAuthenticated
    <3>1. ServerAuthenticated
      BY <2>1, <2>5, TailFrames DEF ReceiveAuthenticated, AnswerMeansAuthenticated, TypeOK
    <3>2. TypeOK' BY <2>4, <2>5 DEF ReceiveAuthenticated, TypeOK
    <3> QED
      BY <2>2, <2>3, <2>5, <3>1, <3>2 DEF ReceiveAuthenticated, CodeIsTrue,
         TunnelMeansAuthenticated, RejectionIsTrue, ServerAuthenticated
  <2>6. CASE ClientReceives
    <3>1. toServer' \in Seq(Frames)
      <4>1. "Pong" \in Frames BY DEF Frames
      <4>2. toServer' \in {toServer, Append(toServer, "Pong")} BY <2>6 DEF ClientReceives
      <4> QED BY <4>1, <4>2, AppendFrames DEF TypeOK
    <3>2. UNCHANGED <<client, result, ccommand>> BY <2>6 DEF ClientReceives
    <3>3. TypeOK' BY <2>2, <2>4, <3>1, <3>2 DEF TypeOK
    <3> QED
      BY <2>2, <2>3, <3>2, <3>3 DEF CodeIsTrue, 
         TunnelMeansAuthenticated, RejectionIsTrue
  <2> QED BY <1>4, <2>5, <2>6
<1>5. CASE ClientPing \/ ClientCommandEnds
  <2>1. /\ UNCHANGED <<known, keyOk, stopping, client, result, server, sview, scode, cview, ccode,
                       toClient>>
        /\ ccommand' \in {ccommand, "ended"}
        /\ toServer' \in {toServer, Append(toServer, "Ping")}
    BY <1>5 DEF ClientPing, ClientCommandEnds
  <2>2. toServer' \in Seq(Frames) BY <2>1, AppendFrames DEF TypeOK, Frames
  <2>3. TypeOK' BY <2>1, <2>2 DEF TypeOK
  <2> QED
    BY <2>1, <2>3 DEF AnswerMeansAuthenticated, CodeIsTrue, 
       TunnelMeansAuthenticated, RejectionIsTrue, ServerAuthenticated
<1> QED BY <1>1, <1>2, <1>3, <1>4, <1>5 DEF Connecting

(* handle_connection() of the server, its command stream and its end. *)
LEMMA ServerStep ==
    ASSUME IInv, Serving \/ ServerPing \/ ServerReceives \/ IngressCloses
           \/ StopDrains \/ StopUnlocks \/ StopCloses
    PROVE  IInv'
<1> USE DEF IInv, ingressVars, serverVars, clientVars
<1>1. UNCHANGED <<known, keyOk, client, result, ccommand, cview, ccode>>
  BY DEF Serving, AcceptStream, AcceptFails, RejectIngress, RejectKey, Authenticate,
     AuthTimeout, AuthFails, Assign, ServerCommandEnds, ServerPing, ServerReceives,
     IngressCloses, StopDrains, StopUnlocks, StopCloses
<1>2. CASE Authenticate
  <2>1. UNCHANGED <<known, stopping, sview, scode>> BY <1>2 DEF Authenticate
  <2>2. keyOk /\ server' \in {"assign", "ended"} BY <1>2 DEF Authenticate
  <2>3. toServer' \in Seq(Frames)
    BY <1>2, TailFrames DEF Authenticate, LooksUp, ReceivesAuth, TypeOK
  <2>4. toClient' \in Seq(Frames)
    BY <1>2, AppendFrames DEF Authenticate, TypeOK, Frames
  <2>5. TypeOK' BY <1>1, <2>1, <2>2, <2>3, <2>4 DEF TypeOK
  <2> QED
    BY <1>1, <2>1, <2>2, <2>5 DEF AnswerMeansAuthenticated, ServerAuthenticated,
       CodeIsTrue, TunnelMeansAuthenticated, RejectionIsTrue
<1>3. CASE RejectIngress \/ RejectKey \/ AuthTimeout
  <2>1. UNCHANGED <<known, stopping, toClient>> /\ server' = "ended"
    BY <1>3 DEF RejectIngress, RejectKey, AuthTimeout
  <2>2. toServer' \in Seq(Frames)
    BY <1>3, TailFrames DEF RejectIngress, RejectKey, AuthTimeout, LooksUp, ReceivesAuth,
       TypeOK
  <2>3. /\ sview' \in {sview, "Local"}
        /\ scode' \in {scode, "REJECTED_INGRESS_ID", "REJECTED_AUTH_KEY",
                       "FRAME_NOT_RECEIVED_ON_TIME"}
    BY <1>3 DEF RejectIngress, RejectKey, AuthTimeout, ServerCloses
  <2>4. CodeIsTrue(scode)'
    <3>1. RejectIngress => ~known \/ stopping \in {"drained", "closed"}
      BY DEF RejectIngress, LooksUp, Registered, TypeOK
    <3>2. RejectKey => ~keyOk BY DEF RejectKey
    <3> QED
      BY <1>1, <1>3, <2>1, <3>1, <3>2
         DEF RejectIngress, RejectKey, AuthTimeout, ServerCloses, CodeIsTrue
  <2>5. TypeOK' BY <1>1, <2>1, <2>2, <2>3 DEF TypeOK, Views, Codes
  <2> QED
    BY <1>1, <2>1, <2>4, <2>5 DEF AnswerMeansAuthenticated, ServerAuthenticated,
       CodeIsTrue, TunnelMeansAuthenticated, RejectionIsTrue
<1>4. CASE AcceptStream \/ AcceptFails \/ AuthFails \/ Assign \/ ServerCommandEnds
  <2>1. /\ UNCHANGED <<known, stopping, sview, scode, toServer, toClient>>
        /\ \/ server' = "ended"
           \/ server = "accepting" /\ server' = "auth"
           \/ server = "assign" /\ server' = "command"
    BY <1>4 DEF AcceptStream, AcceptFails, AuthFails, Assign, ServerCommandEnds
  <2>2. TypeOK' BY <1>1, <2>1 DEF TypeOK
  <2> QED
    BY <1>1, <2>1, <2>2 DEF AnswerMeansAuthenticated, ServerAuthenticated,
       CodeIsTrue, TunnelMeansAuthenticated, RejectionIsTrue
<1>5. CASE ServerPing \/ ServerReceives
  <2>1. UNCHANGED <<known, stopping, server, sview, scode>> BY <1>5 DEF ServerPing, ServerReceives
  <2>2. toClient' \in {toClient, Append(toClient, "Ping"), Append(toClient, "Pong")}
    BY <1>5 DEF ServerPing, ServerReceives
  <2>3. toServer' \in Seq(Frames)
    BY <1>5, TailFrames DEF ServerPing, ServerReceives, TypeOK
  <2>4. "Ping" \in Frames /\ "Pong" \in Frames BY DEF Frames
  <2>5. toClient' \in Seq(Frames) BY <2>2, <2>4, AppendFrames DEF TypeOK
  <2>6. AnswerMeansAuthenticated'
    BY <1>1, <2>1, <2>2, <2>4, AppendFrames
       DEF AnswerMeansAuthenticated, ServerAuthenticated, TypeOK
  <2>7. TypeOK' BY <1>1, <2>1, <2>3, <2>5 DEF TypeOK
  <2> QED
    BY <1>1, <2>1, <2>6, <2>7 DEF CodeIsTrue, 
       TunnelMeansAuthenticated, RejectionIsTrue
<1>6. CASE IngressCloses \/ StopDrains \/ StopUnlocks \/ StopCloses
  <2>1. /\ UNCHANGED <<server, toServer, toClient>>
        /\ sview' \in {sview, "Local"} /\ scode' \in {scode, "CONNECTION_EOF"}
    BY <1>6 DEF IngressCloses, StopDrains, StopUnlocks, StopCloses, ServerCloses
  <2>2. /\ stopping' \in {"no", "draining", "drained", "closed"}
        /\ stopping \in {"drained", "closed"} => stopping' \in {"drained", "closed"}
    BY <1>6 DEF IngressCloses, StopDrains, StopUnlocks, StopCloses, TypeOK
  <2>3. sview' \in Views /\ scode' \in Codes \cup {"none"} BY <2>1 DEF TypeOK, Views, Codes
  <2>4. TypeOK' BY <1>1, <2>1, <2>2, <2>3 DEF TypeOK
  <2>5. CodeIsTrue(scode)' /\ CodeIsTrue(cview)' /\ RejectionIsTrue'
    BY <1>1, <2>1, <2>2 DEF CodeIsTrue, RejectionIsTrue
  <2> QED
    BY <1>1, <2>1, <2>4, <2>5 DEF AnswerMeansAuthenticated, ServerAuthenticated,
       TunnelMeansAuthenticated
<1> QED BY <1>2, <1>3, <1>4, <1>5, <1>6 DEF Serving

(* A side hears that the connection has ended: what it hears is what was   *)
(* sent, or silence.                                                       *)
LEMMA NetworkStep ==
    ASSUME IInv, ClientHears \/ ServerHears \/ NetworkFails
    PROVE  IInv'
<1> USE DEF IInv, ingressVars, serverVars, clientVars
<1>1. /\ UNCHANGED <<known, keyOk, stopping, client, result, ccommand, ccode, server, scode,
                     toServer, toClient>>
      /\ \/ UNCHANGED cview
         \/ cview' = scode /\ scode # "none"
         \/ cview' = "TimedOut"
      /\ \/ UNCHANGED sview
         \/ sview' = ccode /\ ccode # "none"
         \/ sview' = "TimedOut"
  BY DEF ClientHears, ServerHears, NetworkFails
<1>2. TypeOK' BY <1>1 DEF TypeOK, Views
<1>3. CodeIsTrue(cview)' BY <1>1 DEF CodeIsTrue
<1> QED
  BY <1>1, <1>2, <1>3 DEF AnswerMeansAuthenticated, ServerAuthenticated,
     CodeIsTrue, TunnelMeansAuthenticated, RejectionIsTrue

(* IInv is an inductive invariant of the handshake. *)
THEOREM Inductive == Spec => []IInv
<1>1. Init => IInv BY InitIInv
<1>2. IInv /\ [Next]_vars => IInv'
  <2> SUFFICES ASSUME IInv, [Next]_vars PROVE IInv' OBVIOUS
  <2>1. CASE Next BY <2>1, ClientStep, ServerStep, NetworkStep DEF Next
  <2>2. CASE UNCHANGED vars
    BY <2>2 DEF vars, ingressVars, clientVars, serverVars, IInv, TypeOK,
       AnswerMeansAuthenticated, ServerAuthenticated, CodeIsTrue, 
       TunnelMeansAuthenticated, RejectionIsTrue
  <2> QED BY <2>1, <2>2
<1> QED BY <1>1, <1>2, PTL DEF Spec

(* Every variable of the handshake keeps its type. *)
THEOREM TypeCorrect == Spec => []TypeOK
<1>1. IInv => TypeOK BY DEF IInv
<1> QED BY <1>1, Inductive, PTL

(* No race of answers, timers and closes gives a tunnel to a client that   *)
(* the server has not authenticated: client v1.rs:46-63, server            *)
(* v1.rs:31-63.                                                            *)
THEOREM TunnelIsAuthenticated == Spec => []TunnelMeansAuthenticated
<1>1. IInv => TunnelMeansAuthenticated BY DEF IInv
<1> QED BY <1>1, Inductive, PTL

(* A client that reports a rejection was rejected for that reason, also by *)
(* a server that is being stopped: wherever stop() is when the frame is    *)
(* read, an ingress is said not to be there only if it never was, or if    *)
(* all ingresses have been stopped: error.rs:165-169, server v1.rs:31-45,  *)
(* server.rs:144-161.                                                      *)
THEOREM RejectionsAreTrue == Spec => []RejectionIsTrue
<1>1. IInv => RejectionIsTrue BY DEF IInv
<1> QED BY <1>1, Inductive, PTL
============================================================================
