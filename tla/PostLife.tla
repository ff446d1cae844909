------------------------------ MODULE PostLife ------------------------------
(***************************************************************************)
(* What the collector promises about the life of a post, whatever runs,    *)
(* workers, faults and clocks do: a post that was never seen is either     *)
(* tracked or, past the cliff, recorded as closed; a tracked post may be   *)
(* frozen, only once its freeze window is open and no later than one run   *)
(* after the cliff; nothing is ever unfrozen, forgotten or reopened.       *)
(* Several posts may move in one step, as one transaction commits them.    *)
(***************************************************************************)
EXTENDS Integers

CONSTANTS Posts, FreezeOpens, Cliff, RunLimit, None

VARIABLES now, postedAt, stage

Age(p) == now - postedAt[p]

Init == stage = [p \in Posts |-> "unseen"]

Discover(p) ==
    /\ stage[p] = "unseen"
    /\ postedAt[p] # None
    /\ \/ stage'[p] = "tracked" /\ Age(p) <= Cliff + RunLimit
       \/ stage'[p] = "closed"  /\ Age(p) >= Cliff

Freeze(p) ==
    /\ stage[p] = "tracked"
    /\ FreezeOpens <= Age(p) /\ Age(p) <= Cliff + RunLimit
    /\ stage'[p] = "frozen"

Stay(p) == stage'[p] = stage[p]

Next == \A p \in Posts : Discover(p) \/ Freeze(p) \/ Stay(p)

Spec == Init /\ [][Next]_stage
=============================================================================
