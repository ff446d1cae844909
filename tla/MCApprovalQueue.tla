--------------------------- MODULE MCApprovalQueue ---------------------------
(* Constants for the model checking of ApprovalQueue: two proposals of one   *)
(* topic, two requests.                                                      *)
EXTENDS ApprovalQueue

CONSTANTS a1, a2, n1, r1, r2

OneRequest  == {r1}
TwoRequests == {r1, r2}
TwoActions  == {a1, a2}
OneName     == {n1}
=============================================================================
