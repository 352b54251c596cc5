-------------------------- MODULE MCOrderPipeline --------------------------
(* Small instances of OrderPipeline for TLC.  Orders do not interact and   *)
(* workers are alike, so both may be permuted where no liveness is checked.*)
EXTENDS OrderPipeline, TLC

CONSTANTS o1, o2, w1, w2

Symmetry == Permutations(Orders) \cup Permutations(Workers)

=============================================================================
