------------------------------ MODULE MCCodec ------------------------------
(***************************************************************************)
(* Model checking of Codec with bytes of five values: the longest name has *)
(* four bytes, and two of them make a length that needs both bytes.  Bytes *)
(* of names look like frame types and lengths.                             *)
(***************************************************************************)
EXTENDS Codec

MCNames == {<<3>>, <<0, 1, 4, 3>>}
MCUuids == {<<1, 0>>}
MCAddresses == {[octets |-> <<1>>, port |-> 7, scope |-> 0],
                [octets |-> <<1, 2>>, port |-> 7, scope |-> 0],
                [octets |-> <<1, 2>>, port |-> 12, scope |-> 1]}
MCPayloads == {<<1, 0>>}
============================================================================
