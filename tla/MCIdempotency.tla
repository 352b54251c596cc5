--------------------------- MODULE MCIdempotency ---------------------------
(* Small instances of Idempotency for TLC: callers are alike.              *)
EXTENDS Idempotency, TLC

CONSTANTS c1, c2, c3, c4

Symmetry == Permutations(Callers)

=============================================================================
