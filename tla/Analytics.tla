------------------------------ MODULE Analytics ------------------------------
(***************************************************************************)
(* The views that services/analytics_service.py derives from what was      *)
(* collected, with the pure functions of analytics/ they rest on: follower *)
(* growth with its holes, baselines and anomalies.                         *)
(*                                                                         *)
(* A history is a sequence with one element per hour since collection      *)
(* began: the follower count that was captured, or None.  The views are    *)
(* taken after its last hour.  Medians are doubled, so that every figure   *)
(* is an integer.                                                          *)
(***************************************************************************)
EXTENDS Integers, Sequences, FiniteSetsExt, SequencesExt

CONSTANTS
    HoursPerDay,
    MinObservations,   \* baselines.MIN_OBSERVATIONS
    None

ASSUME AnalyticsAssumption ==
    /\ HoursPerDay \in Nat \ {0} /\ MinObservations \in Nat \ {0}
    /\ None \notin Int

-----------------------------------------------------------------------------
(* Medians *)

(* The k-th smallest value of s.                                             *)
Kth(s, k) ==
    CHOOSE v \in Range(s) :
        /\ Cardinality({i \in DOMAIN s : s[i] < v}) < k
        /\ k <= Cardinality({i \in DOMAIN s : s[i] <= v})

(* Mutant: the mean.                                                         *)
Median2_Mean(s) == (2 * MapThenSumSet(LAMBDA i : s[i], DOMAIN s)) \div Len(s)

(* statistics.median, doubled                                                *)
Median2(s) == Kth(s, (Len(s) + 1) \div 2) + Kth(s, Len(s) \div 2 + 1)

Distance(x, y) == IF x > y THEN x - y ELSE y - x

(* The sum of a function's values.                                           *)
Total(f) == MapThenSumSet(LAMBDA x : f[x], DOMAIN f)

-----------------------------------------------------------------------------
(* Days *)

Day(i) == (i - 1) \div HoursPerDay

(* The snapshots of the last days.                                           *)
Snapshots(h, days) == {i \in DOMAIN h : h[i] # None /\ i > Len(h) - days * HoursPerDay}

(* by_day: the highest count of every day that has one.                      *)
ByDay(h, days) ==
    LET seen == Snapshots(h, days)
    IN  [d \in {Day(i) : i \in seen} |-> Max({h[i] : i \in {j \in seen : Day(j) = d}})]

(* The numbers of a finite set in increasing order.                          *)
InOrder(S) ==
    [k \in 1 .. Cardinality(S) |-> CHOOSE n \in S : Cardinality({m \in S : m <= n}) = k]

(* growth: from one observed day to the next one, whatever lies between.     *)
DailyDeltas(h, days) ==
    LET by   == ByDay(h, days)
        kept == InOrder(DOMAIN by)
    IN  [k \in 1 .. Len(kept) - 1 |-> by[kept[k + 1]] - by[kept[k]]]

(* Mutant: the change since the last day that was observed.                  *)
ChangeOn_Bridged(by, d) ==
    LET before == {e \in DOMAIN by : e < d}
    IN  IF before = {} \/ d \notin DOMAIN by THEN None ELSE by[d] - by[Max(before)]

(* follower_series: the day after a hole has no change of its own.           *)
ChangeOn(by, d) == IF {d - 1, d} \subseteq DOMAIN by THEN by[d] - by[d - 1] ELSE None

(* The calendar from the first snapshot's day to the last one's.             *)
Calendar(h, days) ==
    LET kept == DOMAIN ByDay(h, days)
    IN  IF kept = {} THEN {} ELSE Min(kept) .. Max(kept)

(* Mutant: one day more.                                                     *)
LastDays_OneMore(calendar, days) == {d \in calendar : d >= Max(calendar) - days}

(* daily[-days:], which ends where the calendar does.                        *)
LastDays(calendar, days) == {d \in calendar : d > Max(calendar) - days}

-----------------------------------------------------------------------------
(* Baselines *)

(* compute_baseline over its whole window.                                   *)
Reliable(values) == Len(values) >= MinObservations
Mad4(values) == Median2([i \in DOMAIN values |-> Distance(2 * values[i], Median2(values))])

(* |z| >= sigmas, where sigma is 1.4826 times the median deviation.          *)
Beyond(x, values, sigmas) ==
    20000 * Distance(2 * x, Median2(values)) >= sigmas * 14826 * Mad4(values)

Direction(x, values) == IF 2 * x > Median2(values) THEN "SPIKE" ELSE "DROP"

(* detect_anomaly: direction and severity, NONE to EXTREME as 0 to 3.  In a  *)
(* flat history a departure is notable and has no scale.                     *)
Anomaly(x, values) ==
    IF ~Reliable(values) \/ 2 * x = Median2(values) THEN <<"NORMAL", 0>>
    ELSE IF Mad4(values) = 0 THEN <<Direction(x, values), 1>>
    ELSE IF ~Beyond(x, values, 3) THEN <<"NORMAL", 0>>
    ELSE <<Direction(x, values),
           CASE Beyond(x, values, 8) -> 3 [] Beyond(x, values, 5) -> 2 [] OTHER -> 1>>
=============================================================================
