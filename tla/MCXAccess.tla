------------------------------ MODULE MCXAccess ------------------------------
(* Constants of the model checking of XAccess: a worker that collects and    *)
(* probes on demand, and one that runs the probes of beat.                   *)
EXTENDS XAccess

CONSTANTS busy, beat

BothWorkers == {busy, beat}
JustBusy    == {busy}
JustBeat    == {beat}
=============================================================================
