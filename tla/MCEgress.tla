----------------------------- MODULE MCEgress -----------------------------
(* Model checking of Egress: symmetry of callers and of stream slots. *)
EXTENDS Egress, TLC

Symmetry == Permutations(Callers) \cup Permutations(Streams)
============================================================================
