------------------------------- MODULE Codec -------------------------------
(***************************************************************************)
(* What travels over a QUIC connection, byte by byte: the frames of the    *)
(* command stream (CodecV1 behind FramedWrite and FramedRead), which the   *)
(* receiver reads in pieces of any size, and the datagrams of a UDP tunnel *)
(* with the address of their origin in front.                              *)
(*                                                                         *)
(* A byte is a number below Base, 256 in the code; names and numbers of    *)
(* two bytes are made of such bytes.  Names come from constructors that    *)
(* admit 1..Base-1 bytes, so decoding never finds an invalid one.          *)
(***************************************************************************)
EXTENDS Naturals, Sequences, SequencesExt

CONSTANTS
    Base,       \* values of a byte (256)
    Names,      \* auth keys, ingress ids and server ids
    Uuids,      \* tunnel ids, UuidSize bytes each
    UuidSize,   \* 16
    Addresses,  \* origins: [octets, port, scope]
    V4Size,     \* octets of an IPv4 address (4)
    V6Size,     \* octets of an IPv6 address (16)
    Payloads,   \* data of datagrams
    MaxSent     \* bound: frames sent

ASSUME BaseAssumption == Base \in Nat /\ Base > 4
ASSUME NamesAssumption == \A n \in Names : n \in Seq(0..Base-1) /\ Len(n) \in 1..Base-1
ASSUME UuidsAssumption ==
    /\ UuidSize \in Nat \ {0} /\ Base + UuidSize < Base * Base
    /\ \A u \in Uuids : u \in Seq(0..Base-1) /\ Len(u) = UuidSize
ASSUME AddressesAssumption ==
    /\ V4Size \in Nat /\ V6Size \in Nat /\ V4Size # V6Size
    /\ \A a \in Addresses :
        /\ a \in [octets : Seq(0..Base-1), port : 0..Base*Base-1, scope : Nat]
        /\ Len(a.octets) \in {V4Size, V6Size}
ASSUME PayloadsAssumption == \A data \in Payloads : data \in Seq(0..Base-1)
ASSUME MaxSentAssumption == MaxSent \in Nat

VARIABLES
    sent,      \* observer: the frames encoded so far
    wire,      \* bytes of the stream under way
    buffer,    \* the read buffer of FramedRead
    reader,    \* FramedRead: decoding, starving (needs more bytes), or panicked
    received,  \* observer: the frames decoded so far
    out,       \* datagrams under way from the ingress to the egress
    back,      \* datagrams under way from the egress to the ingress
    asked,     \* observer: <<origin, data>> that arrived at the ingress
    replied    \* observer: <<address, data>> that the ingress sent back

streamVars == <<sent, wire, buffer, reader, received>>
datagramVars == <<out, back, asked, replied>>
vars == <<streamVars, datagramVars>>

AUTH_TYPE == 0
AUTHENTICATED_TYPE == 1
PING_TYPE == 3
PONG_TYPE == 4
Types == {AUTH_TYPE, AUTHENTICATED_TYPE, PING_TYPE, PONG_TYPE}

Auth(key, id) == [type |-> AUTH_TYPE, fields |-> <<key, id>>]
Authenticated(uuid, id) == [type |-> AUTHENTICATED_TYPE, fields |-> <<id, uuid>>]
Ping == [type |-> PING_TYPE, fields |-> <<>>]
Pong == [type |-> PONG_TYPE, fields |-> <<>>]

Frames ==
    {Auth(key, id) : key \in Names, id \in Names}
    \cup {Authenticated(uuid, id) : uuid \in Uuids, id \in Names}
    \cup {Ping, Pong}

(* put_u8 and put_u16, with the truncation of `as u8` and `as u16`. *)
PutU8(n) == <<n % Base>>
PutU16(n) == <<(n \div Base) % Base, n % Base>>

----------------------------------------------------------------------------
(* impl Encoder for CodecV1 *)

\* The bytes that hold the lengths of the fields are not counted.
PayloadLengthOfNames(frame) ==
    Len(frame.fields[1]) + Len(frame.fields[2])

(* A name has a byte for its length in front, a tunnel id has not. *)
PayloadLength(frame) ==
    IF frame.type = AUTH_TYPE
    THEN (1 + Len(frame.fields[1])) + (1 + Len(frame.fields[2]))
    ELSE (1 + Len(frame.fields[1])) + UuidSize

Payload(frame) ==
    LET name(f) == PutU8(Len(f)) \o f
    IN  name(frame.fields[1])
        \o IF frame.type = AUTH_TYPE THEN name(frame.fields[2]) ELSE frame.fields[2]

encode(frame) ==
    PutU8(frame.type)
    \o IF frame \in {Ping, Pong} THEN <<>>
       ELSE PutU16(PayloadLength(frame)) \o Payload(frame)

----------------------------------------------------------------------------
(* impl Decoder for CodecV1, on a buffer that is not empty *)

HasPayload(src) == src[1] \in {AUTH_TYPE, AUTHENTICATED_TYPE}

(* src[1] and src[2] are read before the length of src is looked at. *)
HeaderCut(src) == HasPayload(src) /\ Len(src) < 3

ExpectedLength(src) == 3 + src[2] * Base + src[3]

\* A frame that ends with the buffer is taken for one that is cut.
IncompleteAtEnd(src) == HasPayload(src) /\ Len(src) <= ExpectedLength(src)

(* Some of the payload is still to come. *)
Incomplete(src) == HasPayload(src) /\ Len(src) < ExpectedLength(src)

(* get_u8() and split_to() at position `at`: the bytes of a name. *)
Name(src, at) == SubSeq(src, at + 1, at + src[at])

(* Where the second field of a payload begins, and where the payload ends. *)
Second(src) == 5 + src[4]
End(src) ==
    IF src[1] = AUTH_TYPE THEN Second(src) + src[Second(src)]
                          ELSE Second(src) + UuidSize - 1

(* get_u8() or split_to() beyond the end of the buffer. *)
Overrun(src) ==
    /\ HasPayload(src)
    /\ Len(src) < 4 \/ Second(src) > Len(src) \/ End(src) > Len(src)

(* decode(): Ok(None), Ok(Some(frame)) or a panic.  A type that is unknown  *)
(* waits for more bytes, too.                                               *)
decode(src) ==
    IF src = <<>> THEN "none"
    ELSE IF HeaderCut(src) THEN "panic"
    ELSE IF Incomplete(src) \/ src[1] \notin Types THEN "none"
    ELSE IF Overrun(src) THEN "panic"
    ELSE "frame"

Decoded(src) ==
    CASE src[1] = AUTH_TYPE -> Auth(Name(src, 4), Name(src, Second(src)))
      [] src[1] = AUTHENTICATED_TYPE ->
            Authenticated(SubSeq(src, Second(src), End(src)), Name(src, 4))
      [] src[1] = PING_TYPE -> Ping
      [] src[1] = PONG_TYPE -> Pong

Consumed(src) == IF HasPayload(src) THEN End(src) ELSE 1

----------------------------------------------------------------------------
(* Datagrams *)

\* The port is cut to a byte.
ToDatagramShortPort(addr, data) ==
    PutU8(IF Len(addr.octets) = V4Size THEN 0 ELSE 1)
    \o addr.octets \o <<0, addr.port % Base>> \o data

(* to_datagram(): the scope of an IPv6 address is not sent. *)
to_datagram(addr, data) ==
    PutU8(IF Len(addr.octets) = V4Size THEN 0 ELSE 1)
    \o addr.octets \o PutU16(addr.port) \o data

(* extract_origin_socket_addr_from_datagram(), and the bytes it leaves. *)
extract_origin_socket_addr(bytes) ==
    LET n == IF bytes[1] = 0 THEN V4Size ELSE V6Size
    IN  [octets |-> SubSeq(bytes, 2, n + 1),
         port |-> bytes[n + 2] * Base + bytes[n + 3],
         scope |-> 0]

Data(bytes) ==
    SubSeq(bytes, IF bytes[1] = 0 THEN V4Size + 4 ELSE V6Size + 4, Len(bytes))

----------------------------------------------------------------------------
Init ==
    /\ sent = <<>> /\ wire = <<>> /\ buffer = <<>> /\ received = <<>>
    /\ reader = "starving"
    /\ out = {} /\ back = {} /\ asked = {} /\ replied = {}

(* FramedWrite::send() *)
Send(frame) ==
    /\ Len(sent) < MaxSent
    /\ sent' = Append(sent, frame)
    /\ wire' = wire \o encode(frame)
    /\ UNCHANGED <<buffer, reader, received, datagramVars>>

(* FramedRead reads some of what has arrived, and decodes again. *)
Read(n) ==
    /\ reader = "starving"
    /\ n \in 1..Len(wire)
    /\ buffer' = buffer \o SubSeq(wire, 1, n)
    /\ wire' = SubSeq(wire, n + 1, Len(wire))
    /\ reader' = "decoding"
    /\ UNCHANGED <<sent, received, datagramVars>>

\* What follows the frame in the buffer is lost.
DecodeFrameClears ==
    /\ reader = "decoding"
    /\ decode(buffer) = "frame"
    /\ received' = Append(received, Decoded(buffer))
    /\ buffer' = <<>>
    /\ UNCHANGED <<sent, wire, reader, datagramVars>>

DecodeFrame ==
    /\ reader = "decoding"
    /\ decode(buffer) = "frame"
    /\ received' = Append(received, Decoded(buffer))
    /\ buffer' = SubSeq(buffer, Consumed(buffer) + 1, Len(buffer))
    /\ UNCHANGED <<sent, wire, reader, datagramVars>>

(* More bytes are needed. *)
DecodeNone ==
    /\ reader = "decoding"
    /\ decode(buffer) = "none"
    /\ reader' = "starving"
    /\ UNCHANGED <<sent, wire, buffer, received, datagramVars>>

(* An index or a split out of bounds: the task that reads dies. *)
DecodePanics ==
    /\ reader = "decoding"
    /\ decode(buffer) = "panic"
    /\ reader' = "panicked"
    /\ UNCHANGED <<sent, wire, buffer, received, datagramVars>>

(* UdpIngress::handle_socket_to_tunnel(): a datagram comes from an origin. *)
IngressForwards(addr, data) ==
    /\ <<addr, data>> \notin asked
    /\ asked' = asked \cup {<<addr, data>>}
    /\ out' = out \cup {to_datagram(addr, data)}
    /\ UNCHANGED <<streamVars, back, replied>>

(* The egress gives the data to the session of the origin, and sends what  *)
(* the target answers, here the same data, with the origin in front.       *)
EgressAnswers(bytes) ==
    /\ out' = out \ {bytes}
    /\ back' = back \cup {to_datagram(extract_origin_socket_addr(bytes), Data(bytes))}
    /\ UNCHANGED <<streamVars, asked, replied>>

(* The reader of the tunnel at the ingress: send_to() the origin. *)
IngressReplies(bytes) ==
    /\ back' = back \ {bytes}
    /\ replied' = replied \cup {<<extract_origin_socket_addr(bytes), Data(bytes)>>}
    /\ UNCHANGED <<streamVars, out, asked>>

Reader == DecodeFrame \/ DecodeNone \/ DecodePanics

Next ==
    \/ \E frame \in Frames : Send(frame)
    \/ \E n \in 1..Len(wire) : Read(n)
    \/ Reader
    \/ \E addr \in Addresses, data \in Payloads : IngressForwards(addr, data)
    \/ \E bytes \in out : EgressAnswers(bytes)
    \/ \E bytes \in back : IngressReplies(bytes)

Spec == Init /\ [][Next]_vars

(* A stream is delivered, and its reader runs.  Datagrams may be lost. *)
Fairness == WF_vars(Reader) /\ WF_vars(\E n \in 1..Len(wire) : Read(n))

FairSpec == Spec /\ Fairness
----------------------------------------------------------------------------
(* The frames that are decoded are the frames that were encoded, in order, *)
(* wherever the stream was cut into pieces (frames/v1.rs:92-210).          *)
ReceivedAreSent == IsPrefix(received, sent)

(* Decoding panics for one reason only, a frame that arrives with less     *)
(* than its header: the lengths in a frame never lead beyond its end       *)
(* (frames/v1.rs:101-130, 162-191).                                        *)
PanicsOnCutHeaderOnly == reader = "panicked" => Len(buffer) < 3

(* No frame waits in the buffer for bytes that never come: all that was    *)
(* sent is decoded, if no header is cut (frames/v1.rs:164, 183).           *)
AllFramesArrive == [](\A k \in 1..MaxSent : Len(sent) >= k
                        => <>(Len(received) >= k \/ reader = "panicked"))

(* A reply goes to the origin of the datagram it answers and carries its   *)
(* data, whatever is lost or reordered: the origin survives the way to the *)
(* egress, where it names the session, and the way back.  Of an IPv6       *)
(* address the scope does not come back (frames/v1.rs:34-87).              *)
RepliesReturnToOrigin ==
    \A r \in replied : \E a \in asked :
        r = <<[a[1] EXCEPT !.scope = 0], a[2]>>
============================================================================
