---------------------------- MODULE MCCollection ----------------------------
(* Constants and symmetry for the model checking of Collection. *)
EXTENDS Collection, TLC

CONSTANTS r1, r2

OneRunner  == {r1}
TwoRunners == {r1, r2}
Symmetry   == Permutations(Runners)
=============================================================================
