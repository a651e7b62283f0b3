----------------------------- MODULE TcpStream -----------------------------
(***************************************************************************)
(* One TCP connection through a tunnel: the origin's connection at the     *)
(* ingress, a QUIC stream, and the connection that the egress opens to the *)
(* target.  At each end handle_protocol_v1_tcp_stream() runs two tasks,    *)
(* one per direction, that share a cancellation token.                     *)
(*                                                                         *)
(* "ingress" and "egress" name the ends; the TCP peer of an end is the     *)
(* origin or the target.  Bytes are counted.  QUIC is external: the peer   *)
(* learns of a stream with its first frame, a reset discards what is under *)
(* way, and dropping a RecvStream asks the sender to stop.                 *)
(***************************************************************************)
EXTENDS Naturals

CONSTANT MaxBytes   \* bound: bytes that a TCP peer sends

ASSUME MaxBytesAssumption == MaxBytes \in Nat

VARIABLES
    peer,       \* what the TCP peer of each end did: open, fin, or rst
    sent,       \* bytes that the peer sent
    taken,      \* bytes that the task tcp -> tunnel has written to the stream
    delivered,  \* bytes that the task tunnel -> tcp has written to the peer
    up,         \* the task tcp -> tunnel of each end
    down,       \* the task tunnel -> tcp of each end
    cancelled,  \* the stream token of each end
    wend,       \* the sending half of the QUIC stream at each end
    stopped,    \* whether its receiver has stopped reading
    out,        \* whether the end has shut down its TCP write half
    dial,       \* handle_stream() of the egress, before it pipes
    linkUp      \* whether the QUIC connection is up

tcp == <<peer, sent>>
vars == <<tcp, taken, delivered, up, down, cancelled, wend, stopped, out, dial,
          linkUp>>

Ends == {"ingress", "egress"}
Other(e) == IF e = "ingress" THEN "egress" ELSE "ingress"
UnderWay(e) == taken[e] > delivered[Other(e)]

(* Every variable has its type. *)
TypeOK ==
    /\ peer \in [Ends -> {"open", "fin", "rst"}]
    /\ sent \in [Ends -> 0..MaxBytes]
    /\ taken \in [Ends -> 0..MaxBytes]
    /\ delivered \in [Ends -> 0..MaxBytes]
    /\ up \in [Ends -> {"none", "running", "ok", "failed", "cancelled"}]
    /\ down \in [Ends -> {"none", "running", "ok", "failed", "cancelled"}]
    /\ cancelled \in [Ends -> BOOLEAN]
    /\ wend \in [Ends -> {"open", "finished", "reset"}]
    /\ stopped \in [Ends -> BOOLEAN]
    /\ out \in [Ends -> {"open", "fin"}]
    /\ dial \in {"unaware", "dialing", "refused", "piping"}
    /\ linkUp \in BOOLEAN

(* TcpIngress::handle_stream() has a tunnel, a stream on it, and pipes. *)
Init ==
    /\ peer = [e \in Ends |-> "open"]
    /\ sent = [e \in Ends |-> 0]
    /\ taken = [e \in Ends |-> 0]
    /\ delivered = [e \in Ends |-> 0]
    /\ up = [e \in Ends |-> IF e = "ingress" THEN "running" ELSE "none"]
    /\ down = [e \in Ends |-> IF e = "ingress" THEN "running" ELSE "none"]
    /\ cancelled = [e \in Ends |-> FALSE]
    /\ wend = [e \in Ends |-> "open"]
    /\ stopped = [e \in Ends |-> FALSE]
    /\ out = [e \in Ends |-> "open"]
    /\ dial = "unaware"
    /\ linkUp = TRUE

----------------------------------------------------------------------------
(* The environment *)

Connected(e) == e = "egress" => dial = "piping"

PeerSends(e) ==
    /\ Connected(e)
    /\ peer[e] = "open"
    /\ sent[e] < MaxBytes
    /\ sent' = [sent EXCEPT ![e] = @ + 1]
    /\ UNCHANGED <<peer, taken, delivered, up, down, cancelled, wend, stopped,
                   out, dial, linkUp>>

(* The peer closes its sending half, or aborts the connection. *)
PeerEnds(e) ==
    /\ Connected(e)
    /\ \/ peer[e] = "open" /\ peer' = [peer EXCEPT ![e] = "fin"]
       \/ peer[e] # "rst" /\ peer' = [peer EXCEPT ![e] = "rst"]
    /\ UNCHANGED <<sent, taken, delivered, up, down, cancelled, wend, stopped,
                   out, dial, linkUp>>

LinkLost ==
    /\ linkUp
    /\ linkUp' = FALSE
    /\ UNCHANGED <<tcp, taken, delivered, up, down, cancelled, wend, stopped,
                   out, dial>>

(* The parent of the token is cancelled: the egress stops, or the accept   *)
(* loop of the ingress ends.                                               *)
ParentCancelled(e) ==
    /\ ~cancelled[e]
    /\ cancelled' = [cancelled EXCEPT ![e] = TRUE]
    /\ UNCHANGED <<tcp, taken, delivered, up, down, wend, stopped, out, dial,
                   linkUp>>

----------------------------------------------------------------------------
(* TcpEgress::handle_stream() *)

(* accept_bi() returns when the first frame of the stream is there. *)
EgressAccepts ==
    /\ dial = "unaware"
    /\ linkUp
    /\ taken["ingress"] > 0 \/ wend["ingress"] # "open"
    /\ dial' = "dialing"
    /\ UNCHANGED <<tcp, taken, delivered, up, down, cancelled, wend, stopped,
                   out, linkUp>>

DialOk ==
    /\ dial = "dialing"
    /\ dial' = "piping"
    /\ up' = [up EXCEPT !["egress"] = "running"]
    /\ down' = [down EXCEPT !["egress"] = "running"]
    /\ UNCHANGED <<tcp, taken, delivered, cancelled, wend, stopped, out, linkUp>>

(* The sending half is shut down and the receiving half dropped. *)
DialErr ==
    /\ dial = "dialing"
    /\ dial' = "refused"
    /\ wend' = [wend EXCEPT !["egress"] = "finished"]
    /\ stopped' = [stopped EXCEPT !["ingress"] = TRUE]
    /\ UNCHANGED <<tcp, taken, delivered, up, down, cancelled, out, linkUp>>

----------------------------------------------------------------------------
(* The task tcp -> tunnel of end e *)

UpCopies(e) ==
    /\ up[e] = "running"
    /\ sent[e] > taken[e]
    /\ peer[e] # "rst" /\ linkUp /\ ~stopped[e]
    /\ taken' = [taken EXCEPT ![e] = @ + 1]
    /\ UNCHANGED <<tcp, delivered, up, down, cancelled, wend, stopped, out, dial,
                   linkUp>>

\* The end of input leaves the stream open.
UpEofKeepsOpen(e) ==
    /\ up[e] = "running"
    /\ peer[e] = "fin" /\ sent[e] = taken[e]
    /\ up' = [up EXCEPT ![e] = "ok"]
    /\ UNCHANGED <<tcp, taken, delivered, down, cancelled, wend, stopped, out,
                   dial, linkUp>>

(* End of input: finish(). *)
UpEof(e) ==
    /\ up[e] = "running"
    /\ peer[e] = "fin" /\ sent[e] = taken[e]
    /\ up' = [up EXCEPT ![e] = "ok"]
    /\ wend' = [wend EXCEPT ![e] = "finished"]
    /\ UNCHANGED <<tcp, taken, delivered, down, cancelled, stopped, out, dial,
                   linkUp>>

\* A failure ends the stream as the end of input does.
UpFailsFinishes(e) ==
    /\ up[e] = "running"
    /\ peer[e] = "rst" \/ (sent[e] > taken[e] /\ (stopped[e] \/ ~linkUp))
    /\ up' = [up EXCEPT ![e] = "failed"]
    /\ wend' = [wend EXCEPT ![e] = "finished"]
    /\ cancelled' = [cancelled EXCEPT ![e] = TRUE]
    /\ UNCHANGED <<tcp, taken, delivered, down, stopped, out, dial, linkUp>>

(* The TCP read fails, or the write of bytes that were read: the stream is *)
(* reset and the other task cancelled.                                     *)
UpFails(e) ==
    /\ up[e] = "running"
    /\ peer[e] = "rst" \/ (sent[e] > taken[e] /\ (stopped[e] \/ ~linkUp))
    /\ up' = [up EXCEPT ![e] = "failed"]
    /\ wend' = [wend EXCEPT ![e] = "reset"]
    /\ cancelled' = [cancelled EXCEPT ![e] = TRUE]
    /\ UNCHANGED <<tcp, taken, delivered, down, stopped, out, dial, linkUp>>

UpCancelled(e) ==
    /\ up[e] = "running"
    /\ cancelled[e]
    /\ up' = [up EXCEPT ![e] = "cancelled"]
    /\ wend' = [wend EXCEPT ![e] = "reset"]
    /\ UNCHANGED <<tcp, taken, delivered, down, cancelled, stopped, out, dial,
                   linkUp>>

----------------------------------------------------------------------------
(* The task tunnel -> tcp of end e *)

DownCopies(e) ==
    /\ down[e] = "running"
    /\ UnderWay(Other(e))
    /\ peer[e] # "rst"
    /\ delivered' = [delivered EXCEPT ![e] = @ + 1]
    /\ UNCHANGED <<tcp, taken, up, down, cancelled, wend, stopped, out, dial,
                   linkUp>>

(* The peer has finished and all is delivered: shutdown(). *)
DownEof(e) ==
    /\ down[e] = "running"
    /\ wend[Other(e)] = "finished" /\ ~UnderWay(Other(e))
    /\ down' = [down EXCEPT ![e] = "ok"]
    /\ out' = [out EXCEPT ![e] = "fin"]
    /\ UNCHANGED <<tcp, taken, delivered, up, cancelled, wend, stopped, dial,
                   linkUp>>

\* The loss of the connection is taken for silence.
DownFailsOnReset(e) ==
    /\ down[e] = "running"
    /\ \/ wend[Other(e)] = "reset"
       \/ peer[e] = "rst" /\ UnderWay(Other(e))
    /\ down' = [down EXCEPT ![e] = "failed"]
    /\ out' = [out EXCEPT ![e] = "fin"]
    /\ cancelled' = [cancelled EXCEPT ![e] = TRUE]
    /\ stopped' = [stopped EXCEPT ![Other(e)] = TRUE]
    /\ UNCHANGED <<tcp, taken, delivered, up, wend, dial, linkUp>>

(* The stream was reset, the connection lost, or the TCP write failed: TCP *)
(* is shut down as well, the other task cancelled.                         *)
DownFails(e) ==
    /\ down[e] = "running"
    /\ \/ wend[Other(e)] = "reset"
       \/ ~linkUp
       \/ peer[e] = "rst" /\ UnderWay(Other(e))
    /\ down' = [down EXCEPT ![e] = "failed"]
    /\ out' = [out EXCEPT ![e] = "fin"]
    /\ cancelled' = [cancelled EXCEPT ![e] = TRUE]
    /\ stopped' = [stopped EXCEPT ![Other(e)] = TRUE]
    /\ UNCHANGED <<tcp, taken, delivered, up, wend, dial, linkUp>>

DownCancelled(e) ==
    /\ down[e] = "running"
    /\ cancelled[e]
    /\ down' = [down EXCEPT ![e] = "cancelled"]
    /\ out' = [out EXCEPT ![e] = "fin"]
    /\ stopped' = [stopped EXCEPT ![Other(e)] = TRUE]
    /\ UNCHANGED <<tcp, taken, delivered, up, cancelled, wend, dial, linkUp>>

----------------------------------------------------------------------------
Up(e) == UpCopies(e) \/ UpEof(e) \/ UpFails(e) \/ UpCancelled(e)
Down(e) == DownCopies(e) \/ DownEof(e) \/ DownFails(e) \/ DownCancelled(e)
Dial == DialOk \/ DialErr

Next ==
    \/ \E e \in Ends : \/ Up(e) \/ Down(e)
                       \/ PeerSends(e) \/ PeerEnds(e) \/ ParentCancelled(e)
    \/ EgressAccepts \/ Dial \/ LinkLost

Spec == Init /\ [][Next]_vars

(* Tasks that are ready run, and connecting to the target ends.  The TCP   *)
(* peers may stay silent for ever.                                         *)
Fairness ==
    /\ \A e \in Ends : WF_vars(Up(e)) /\ WF_vars(Down(e))
    /\ WF_vars(EgressAccepts)
    /\ WF_vars(Dial)

FairSpec == Spec /\ Fairness
----------------------------------------------------------------------------
Over(e) == up[e] # "running" /\ down[e] # "running"

(* A direction that ends well has carried everything that the peer on the  *)
(* other side sent before it closed (v1.rs:49-81, 108-140).                *)
CleanEndIsComplete ==
    \A e \in Ends : down[e] = "ok" /\ dial # "refused" =>
        /\ delivered[e] = sent[Other(e)]
        /\ up[Other(e)] = "ok"

(* The end of input of one peer reaches the other, which may have more to  *)
(* say, unless the connection is lost; and an origin whose target cannot   *)
(* be reached is told, though nothing was piped (v1.rs:52-53, 111-112,     *)
(* tcp_egress.rs:218, 235).                                                *)
EndOfInputArrives ==
    /\ \A e \in Ends : peer[e] # "open" ~>
          out[Other(e)] = "fin" \/ ~linkUp \/ dial = "refused"
    /\ dial = "refused" ~> out["ingress"] = "fin"

(* A direction that fails, or an end that is cancelled, takes the other    *)
(* task of its end along.  readme.md: when the QUIC connection ends the    *)
(* server terminates the TCP connections tunneled to the client.  It does  *)
(* unless the target had finished: then nothing reads the tunnel any more, *)
(* and the task that is left waits for a silent origin (v1.rs:49, 79,      *)
(* 108-140).                                                               *)
FailureEndsConnection ==
    /\ \A e \in Ends : up[e] = "failed" \/ down[e] = "failed" \/ cancelled[e]
                       ~> Over(e)
    /\ ~linkUp ~> Over("ingress") \/ down["ingress"] = "ok"
============================================================================
