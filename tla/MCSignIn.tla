------------------------------ MODULE MCSignIn ------------------------------
(* Constants and symmetry for the model checking of SignIn. *)
EXTENDS SignIn, TLC

CONSTANTS r1, r2, s1, s2, f1, f2

TwoRequests == {r1, r2}
TwoSessions == {s1, s2}
TwoFlows    == {f1, f2}
Symmetry    == Permutations(Requests) \cup Permutations(Sessions) \cup Permutations(Flows)
=============================================================================
