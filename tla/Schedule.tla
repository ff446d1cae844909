------------------------------ MODULE Schedule ------------------------------
(***************************************************************************)
(* The pure cadence rules of collectors/schedule.py: which post is due for *)
(* a metric snapshot, how urgent it is, and how a tightening budget        *)
(* stretches the sampling interval.                                        *)
(*                                                                         *)
(* Ages and intervals are naturals in one time unit (an hour for the       *)
(* shipped constants).  The three tiers are given by their upper age and   *)
(* their interval.                                                         *)
(***************************************************************************)
EXTENDS Integers, FiniteSets

CONSTANTS
    FirstDay,        \* upper age of the "first_day" tier
    FirstWeek,       \* upper age of the "first_week" tier
    FreezeOpens,     \* upper age of the "first_month" tier: the freeze opens
    Cliff,           \* age at which X stops returning non-public metrics
    FreshInterval,   \* sampling interval of each tier
    RecentInterval,
    Daily,           \* interval of the last tier, and the stretched maximum
    None             \* absence of a timestamp (NULL) or of a tier

ASSUME AgesOrdered ==
    /\ FirstDay \in Nat /\ FirstWeek \in Nat
    /\ FreezeOpens \in Nat /\ Cliff \in Nat
    /\ 0 < FirstDay /\ FirstDay <= FirstWeek
    /\ FirstWeek <= FreezeOpens /\ FreezeOpens < Cliff

ASSUME IntervalsOrdered ==
    /\ FreshInterval \in Nat /\ RecentInterval \in Nat /\ Daily \in Nat
    /\ 0 < FreshInterval /\ FreshInterval <= RecentInterval
    /\ RecentInterval <= Daily

ASSUME NoneIsNoTime == None \notin Nat

(* SnapshotPriority: lower is more urgent. *)
FinalFreeze   == 0
NeverCaptured == 1
Fresh         == 2
Recent        == 3
Mature        == 4
Priorities    == FinalFreeze .. Mature

BudgetStates == {"healthy", "warning", "critical", "exhausted"}

CadenceTiers ==
    << [maxAge |-> FirstDay,    interval |-> FreshInterval,  priority |-> Fresh],
       [maxAge |-> FirstWeek,   interval |-> RecentInterval, priority |-> Recent],
       [maxAge |-> FreezeOpens, interval |-> Daily,          priority |-> Mature] >>

ASSUME NoneIsNoTier == \A i \in 1 .. 3 : None # CadenceTiers[i]

(* The first tier whose upper age is not reached yet. *)
TierForAge(age) ==
    IF age >= FreezeOpens
    THEN None
    ELSE CadenceTiers[CHOOSE i \in 1 .. 3 :
                        /\ age < CadenceTiers[i].maxAge
                        /\ \A j \in 1 .. i - 1 : age >= CadenceTiers[j].maxAge]

(* Mutant: the window opens one unit late. *)
InFreezeWindow_Late(age) == FreezeOpens < age /\ age < Cliff

InFreezeWindow(age) == FreezeOpens <= age /\ age < Cliff

(* Mutant: the doubled interval is not floored at daily. *)
EffectiveInterval_NoFloor(tier, budget) ==
    CASE budget = "healthy" -> tier.interval
      [] budget = "warning" -> 2 * tier.interval
      [] OTHER              -> Daily

EffectiveInterval(tier, budget) ==
    CASE budget = "healthy" -> tier.interval
      [] budget = "warning" -> IF 2 * tier.interval < Daily
                               THEN 2 * tier.interval ELSE Daily
      [] OTHER              -> Daily

-----------------------------------------------------------------------------
(* The cascade of early returns of decide(), one operator per exit that     *)
(* finds the post due.  "sinceLast" is None for a post without a snapshot.  *)

FreezeDue(age, frozen) == InFreezeWindow(age) /\ ~frozen

(* Mutant: a post sampled one unit short of the interval is due again. *)
Sampled_OneEarly(age, sinceLast, frozen, budget) ==
    /\ age < Cliff
    /\ budget # "exhausted"
    /\ ~frozen
    /\ TierForAge(age) # None
    /\ sinceLast # None => sinceLast + 1 >= EffectiveInterval(TierForAge(age), budget)

Sampled(age, sinceLast, frozen, budget) ==
    /\ age < Cliff
    /\ budget # "exhausted"
    /\ ~frozen
    /\ TierForAge(age) # None
    /\ sinceLast # None => sinceLast >= EffectiveInterval(TierForAge(age), budget)

Due(age, sinceLast, frozen, budget) ==
    FreezeDue(age, frozen) \/ Sampled(age, sinceLast, frozen, budget)

PriorityOf(age, sinceLast, frozen, everImp) ==
    IF FreezeDue(age, frozen) THEN FinalFreeze
    ELSE IF sinceLast = None /\ ~everImp THEN NeverCaptured
    ELSE TierForAge(age).priority

(* expected_snapshots_per_post: one sample per interval and the freeze.  The *)
(* shipped intervals divide their tiers, so no rounding is involved.         *)
ExpectedSnapshots ==
      FirstDay \div FreshInterval
    + (FirstWeek - FirstDay) \div RecentInterval
    + (FreezeOpens - FirstWeek) \div Daily
    + 1
=============================================================================
