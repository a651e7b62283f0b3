-------------------------- MODULE TcpStreamProofs --------------------------
(***************************************************************************)
(* A direction of a TCP connection that ends well is complete, whatever    *)
(* bytes, half-closes, failures and cancellations the four tasks meet, and *)
(* for every number of bytes.                                              *)
(***************************************************************************)
EXTENDS TcpStream, TLAPS

(* Nothing is delivered that was not taken, nor taken that was not sent. *)
Conservation ==
    \A e \in Ends : delivered[e] <= taken[Other(e)] /\ taken[e] <= sent[e]

(* The egress runs no task before it pipes. *)
NoTaskBeforePiping ==
    dial # "piping" => up["egress"] = "none" /\ down["egress"] = "none"

(* A stream that was finished by its task has carried all there will be;   *)
(* the other way to finish one is to refuse it.                            *)
FinishedIsComplete ==
    \A e \in Ends : wend[e] = "finished" =>
        \/ up[e] = "ok" /\ peer[e] # "open" /\ taken[e] = sent[e]
        \/ e = "egress" /\ dial = "refused"

(* A task that saw the end of the stream has delivered what was taken. *)
EofIsDelivered ==
    \A e \in Ends : down[e] = "ok" =>
        wend[Other(e)] = "finished" /\ delivered[e] = taken[Other(e)]

IInv ==
    /\ TypeOK
    /\ Conservation
    /\ NoTaskBeforePiping
    /\ FinishedIsComplete
    /\ EofIsDelivered

LEMMA InitIInv == Init => IInv
BY MaxBytesAssumption
   DEF Init, IInv, TypeOK, Conservation, NoTaskBeforePiping, FinishedIsComplete,
       EofIsDelivered, Ends, Other

(* The TCP peers, the network and whoever cancels the parent of a token. *)
LEMMA EnvironmentStep ==
    ASSUME IInv,
           \/ LinkLost
           \/ \E e \in Ends : PeerSends(e) \/ PeerEnds(e) \/ ParentCancelled(e)
    PROVE  IInv'
<1> USE MaxBytesAssumption DEF IInv, tcp, Ends, Other
<1>1. CASE LinkLost
  BY <1>1 DEF LinkLost, TypeOK, Conservation, NoTaskBeforePiping,
     FinishedIsComplete, EofIsDelivered
<1>2. ASSUME NEW e \in Ends, PeerSends(e) PROVE IInv'
  BY <1>2 DEF PeerSends, TypeOK, Conservation, NoTaskBeforePiping,
     FinishedIsComplete, EofIsDelivered
<1>3. ASSUME NEW e \in Ends, PeerEnds(e) PROVE IInv'
  BY <1>3 DEF PeerEnds, TypeOK, Conservation, NoTaskBeforePiping,
     FinishedIsComplete, EofIsDelivered
<1>4. ASSUME NEW e \in Ends, ParentCancelled(e) PROVE IInv'
  BY <1>4 DEF ParentCancelled, TypeOK, Conservation, NoTaskBeforePiping,
     FinishedIsComplete, EofIsDelivered
<1> QED BY <1>1, <1>2, <1>3, <1>4

(* handle_stream() of the egress. *)
LEMMA DialStep ==
    ASSUME IInv, EgressAccepts \/ Dial
    PROVE  IInv'
<1> USE DEF IInv, tcp, Ends, Other
<1>1. CASE EgressAccepts
  BY <1>1 DEF EgressAccepts, TypeOK, Conservation, NoTaskBeforePiping,
     FinishedIsComplete, EofIsDelivered
<1>2. CASE DialOk
  BY <1>2 DEF DialOk, TypeOK, Conservation, NoTaskBeforePiping,
     FinishedIsComplete, EofIsDelivered
<1>3. CASE DialErr
  BY <1>3 DEF DialErr, TypeOK, Conservation, NoTaskBeforePiping,
     FinishedIsComplete, EofIsDelivered
<1> QED BY <1>1, <1>2, <1>3 DEF Dial

(* The task tcp -> tunnel. *)
LEMMA UpStep ==
    ASSUME IInv, NEW e \in Ends, Up(e)
    PROVE  IInv'
<1> USE MaxBytesAssumption DEF IInv, tcp, Ends, Other
<1>1. CASE UpCopies(e)
  BY <1>1 DEF UpCopies, TypeOK, Conservation, NoTaskBeforePiping,
     FinishedIsComplete, EofIsDelivered
<1>2. CASE UpEof(e)
  BY <1>2 DEF UpEof, TypeOK, Conservation, NoTaskBeforePiping,
     FinishedIsComplete, EofIsDelivered
<1>3. CASE UpFails(e)
  BY <1>3 DEF UpFails, TypeOK, Conservation, NoTaskBeforePiping,
     FinishedIsComplete, EofIsDelivered
<1>4. CASE UpCancelled(e)
  BY <1>4 DEF UpCancelled, TypeOK, Conservation, NoTaskBeforePiping,
     FinishedIsComplete, EofIsDelivered
<1> QED BY <1>1, <1>2, <1>3, <1>4 DEF Up

(* The task tunnel -> tcp. *)
LEMMA DownStep ==
    ASSUME IInv, NEW e \in Ends, Down(e)
    PROVE  IInv'
<1> USE MaxBytesAssumption DEF IInv, tcp, Ends, Other
<1>1. CASE DownCopies(e)
  BY <1>1 DEF DownCopies, UnderWay, TypeOK, Conservation, NoTaskBeforePiping,
     FinishedIsComplete, EofIsDelivered
<1>2. CASE DownEof(e)
  BY <1>2 DEF DownEof, UnderWay, TypeOK, Conservation, NoTaskBeforePiping,
     FinishedIsComplete, EofIsDelivered
<1>3. CASE DownFails(e)
  BY <1>3 DEF DownFails, TypeOK, Conservation, NoTaskBeforePiping,
     FinishedIsComplete, EofIsDelivered
<1>4. CASE DownCancelled(e)
  BY <1>4 DEF DownCancelled, TypeOK, Conservation, NoTaskBeforePiping,
     FinishedIsComplete, EofIsDelivered
<1> QED BY <1>1, <1>2, <1>3, <1>4 DEF Down

(* IInv is an inductive invariant of a piped connection. *)
THEOREM Inductive == Spec => []IInv
<1>1. Init => IInv BY InitIInv
<1>2. IInv /\ [Next]_vars => IInv'
  <2> SUFFICES ASSUME IInv, [Next]_vars PROVE IInv' OBVIOUS
  <2>1. CASE Next BY <2>1, EnvironmentStep, DialStep, UpStep, DownStep DEF Next
  <2>2. CASE UNCHANGED vars
    BY <2>2 DEF vars, tcp, IInv, TypeOK, Conservation, NoTaskBeforePiping,
       FinishedIsComplete, EofIsDelivered
  <2> QED BY <2>1, <2>2
<1> QED BY <1>1, <1>2, PTL DEF Spec

(* Every variable of a piped connection keeps its type. *)
THEOREM TypeCorrect == Spec => []TypeOK
<1>1. IInv => TypeOK BY DEF IInv
<1> QED BY <1>1, Inductive, PTL

(* A TCP peer that sees a regular end of a direction that ended well has   *)
(* all that the other peer sent, however long: v1.rs:49-81, 108-140.       *)
THEOREM CleanEnds == Spec => []CleanEndIsComplete
<1>1. IInv => CleanEndIsComplete
  BY DEF IInv, EofIsDelivered, FinishedIsComplete, NoTaskBeforePiping,
     CleanEndIsComplete, Ends, Other
<1> QED BY <1>1, Inductive, PTL
============================================================================
