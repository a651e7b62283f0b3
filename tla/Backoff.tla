------------------------------ MODULE Backoff ------------------------------
(***************************************************************************)
(* How long an egress waits after a failed connection:                     *)
(*                                                                         *)
(*     Duration::from_millis((100 * 2_u64.pow(retry)).min(30_000_u64))     *)
(*                                                                         *)
(* A u64 is the set of the positions of its 1 bits, because TLC has no     *)
(* integer of 64 bits.  100 is 0b1100100, so multiplying it by a power of  *)
(* two shifts three bits, and the bits shifted past 63 are lost.           *)
(***************************************************************************)
EXTENDS Naturals, FiniteSetsExt

U64 == 0..63
Hundred == {2, 5, 6}
BackoffLimit == 30000

(* 100 * 2^retry before it is reduced to 64 bits. *)
Shifted(retry) == {b + retry : b \in Hundred}

(* The value the wrapping multiplication of a release build leaves. *)
Product(retry) == Shifted(retry) \cap U64

(* A build with overflow checks panics instead. *)
Overflows(retry) == Shifted(retry) \ U64 # {}

(* .min(30_000): a number with a bit at 15 or above is larger than 30000. *)
Capped(bits) ==
    IF \E b \in bits : b >= 15
    THEN BackoffLimit
    ELSE Min({BackoffLimit, MapThenSumSet(LAMBDA b : 2^b, bits)})

BackoffMillis(retry) == Capped(Product(retry))
============================================================================
