----------------------------- MODULE MCLiveView -----------------------------
(* Small instances of LiveView for TLC.  Its publishers are alike.         *)
EXTENDS LiveView, TLC

CONSTANTS p1, p2

Symmetry == Permutations(Publishers)

=============================================================================
