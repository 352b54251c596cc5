---------------------------- MODULE MCRateLimit ----------------------------
(* A small instance of RateLimit for TLC.                                  *)
EXTENDS RateLimit, TLC

CONSTANTS p1, p2, s1, s2

(* Processes are alike, and so are the requests of one.                    *)
Symmetry == Permutations({p1, p2}) \cup Permutations({s1, s2})

=============================================================================
