--------------------------- MODULE MCTokenRefresh ---------------------------
(* Constants and symmetry for the model checking of TokenRefresh. *)
EXTENDS TokenRefresh, TLC

CONSTANTS w1, w2

TwoWorkers == {w1, w2}
Symmetry   == Permutations(Workers)
=============================================================================
