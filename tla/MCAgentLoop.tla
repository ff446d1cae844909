---------------------------- MODULE MCAgentLoop ----------------------------
(* Constants for the model checking of AgentLoop: two workers.               *)
EXTENDS AgentLoop

CONSTANTS w1, w2, c1

TwoWorkers == {w1, w2}
OneRec     == {c1}
Increase   == {[direction |-> "INCREASE", baseline |-> TRUE]}
=============================================================================
