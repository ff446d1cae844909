----------------------------- MODULE MCCadence -----------------------------
(* The model checking of Cadence.  The tiers are in the shipped proportions: *)
(* several samples in each, intervals that grow, and a window of polls.      *)
EXTENDS Cadence
=============================================================================
