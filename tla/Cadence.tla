------------------------------ MODULE Cadence ------------------------------
(***************************************************************************)
(* One post over its tracked life, as the cadence rules of                 *)
(* collectors/schedule.py see it: the post ages, the collector polls it    *)
(* (or misses polls), and each poll that finds it due takes a snapshot.    *)
(* No other component is involved: Collection.tla has the runs, the budget *)
(* gate and the races.                                                     *)
(***************************************************************************)
EXTENDS Schedule

VARIABLES
    age,         \* of the post
    lastAge,     \* age at the newest snapshot, or None
    frozen,      \* final_freeze_at is set
    taken,       \* snapshots taken so far
    budgetState, \* the governor's budget state at this poll
    excuses      \* history: why polls since the newest snapshot may have
                 \* left the post alone

cadenceVars == <<age, lastAge, frozen, taken, budgetState, excuses>>

Excuses == {"missed", "exhausted"}

SinceSample == IF lastAge = None THEN None ELSE age - lastAge

(* Nothing is sampled past the cliff, and polling stops there.               *)
CadenceTypeOK ==
    /\ age \in 0 .. Cliff
    /\ lastAge \in 0 .. Cliff - 1 \cup {None}
    /\ frozen \in BOOLEAN
    /\ taken \in 0 .. Cliff
    /\ budgetState \in BudgetStates
    /\ excuses \subseteq Excuses

CadenceInit ==
    /\ age = 0
    /\ lastAge = None
    /\ frozen = FALSE
    /\ taken = 0
    /\ budgetState \in BudgetStates
    /\ excuses = {}

(* Before the next poll an hour goes by, and the spend with it may change.   *)
Hour == age' = age + 1 /\ budgetState' \in BudgetStates

(* A poll that finds the post due writes a snapshot, which is the freeze     *)
(* exactly when decide() says so.                                            *)
Sample ==
    /\ Due(age, SinceSample, frozen, budgetState)
    /\ taken' = taken + 1
    /\ lastAge' = age
    /\ frozen' = (frozen \/ FreezeDue(age, frozen))
    /\ excuses' = {}
    /\ Hour

(* A poll that finds nothing due.                                            *)
Idle ==
    /\ age < Cliff
    /\ ~Due(age, SinceSample, frozen, budgetState)
    /\ excuses' = IF budgetState = "exhausted" THEN excuses \cup {"exhausted"} ELSE excuses
    /\ Hour
    /\ UNCHANGED <<lastAge, frozen, taken>>

(* A poll that never ran, or whose run came to nothing.                      *)
Miss ==
    /\ age < Cliff
    /\ excuses' = excuses \cup {"missed"}
    /\ Hour
    /\ UNCHANGED <<lastAge, frozen, taken>>

CadenceNext == Sample \/ Idle \/ Miss

CadenceSpec == CadenceInit /\ [][CadenceNext]_cadenceVars

-----------------------------------------------------------------------------
(* The cost projection of the README and of expected_snapshots_per_post is  *)
(* an upper bound: no order of polls, missed polls and budget states takes   *)
(* more snapshots of one post than the projection says.                      *)
WithinProjection == taken <= ExpectedSnapshots

(* "The governor is allowed to reduce resolution but never to forfeit data   *)
(* that cannot be re-acquired" (schedule.py, decide): a post is frozen from  *)
(* the first poll of the freeze window on, whatever the budget states before *)
(* and at that poll were; only a missed poll is an excuse.                   *)
FrozenOnTime == (age > FreezeOpens /\ ~frozen) => "missed" \in excuses

(* "Daily at most, whatever the tier" (effective_interval): while no poll is *)
(* missed or finds the budget exhausted, the ladder of stretched intervals   *)
(* never leaves a hole longer than a day in the record of a tracked post,    *)
(* however often the budget state and the tier change in between.            *)
NoLongGap ==
    (excuses = {} /\ lastAge # None /\ ~frozen) => age - lastAge <= Daily
=============================================================================
