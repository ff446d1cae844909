-------------------------- MODULE CollectionProofs --------------------------
(***************************************************************************)
(* Theorems about the collector: the cadence rules of Schedule, one post   *)
(* over its life (Cadence), for every choice of ages, intervals and polls, *)
(* and Collection, for any number of workers and posts, every budget and   *)
(* every fault.                                                            *)
(***************************************************************************)
EXTENDS Collection, Cadence, FiniteSetTheorems, WellFoundedInduction, TLAPS

-----------------------------------------------------------------------------
(* The cadence rules *)

(* The type of a tier, and of what TierForAge returns. *)
LEMMA TierType ==
    ASSUME NEW a \in Nat, a < FreezeOpens
    PROVE  /\ TierForAge(a) \in {CadenceTiers[i] : i \in 1 .. 3}
           /\ TierForAge(a).priority \in {Fresh, Recent, Mature}
           /\ TierForAge(a).interval \in 1 .. Daily
           /\ a < TierForAge(a).maxAge
  <1> DEFINE Fits(i) == /\ a < CadenceTiers[i].maxAge
                        /\ \A j \in 1 .. i - 1 : a >= CadenceTiers[j].maxAge
  <1>1. \E i \in 1 .. 3 : Fits(i)
    <2>1. CASE a < FirstDay
      <3>1. Fits(1) BY <2>1, AgesOrdered DEF CadenceTiers
      <3> QED BY <3>1
    <2>2. CASE FirstDay <= a /\ a < FirstWeek
      <3>1. Fits(2) BY <2>2, AgesOrdered DEF CadenceTiers
      <3> QED BY <3>1
    <2>3. CASE FirstWeek <= a
      <3>1. Fits(3) BY <2>3, AgesOrdered DEF CadenceTiers
      <3> QED BY <3>1
    <2> QED BY <2>1, <2>2, <2>3, AgesOrdered
  <1>2. PICK i \in 1 .. 3 : TierForAge(a) = CadenceTiers[i] /\ Fits(i)
    <2>1. TierForAge(a) = CadenceTiers[CHOOSE i \in 1 .. 3 : Fits(i)]
      BY AgesOrdered DEF TierForAge
    <2> HIDE DEF Fits
    <2> QED BY <1>1, <2>1
  <1> QED
    BY <1>2, IntervalsOrdered
       DEF CadenceTiers, Fresh, Recent, Mature

(* The tiers by the age they begin at.                                       *)
LEMMA TierIs ==
    ASSUME NEW a \in Nat
    PROVE  /\ a < FirstDay => TierForAge(a).interval = FreshInterval
           /\ FirstDay <= a /\ a < FirstWeek
                => TierForAge(a).interval = RecentInterval
           /\ FirstWeek <= a /\ a < FreezeOpens
                => TierForAge(a).interval = Daily
  <1> DEFINE Fits(i) == /\ a < CadenceTiers[i].maxAge
                        /\ \A j \in 1 .. i - 1 : a >= CadenceTiers[j].maxAge
  <1>0. a < FreezeOpens => TierForAge(a) = CadenceTiers[CHOOSE i \in 1 .. 3 : Fits(i)]
    BY AgesOrdered DEF TierForAge
  <1>1. ASSUME a < FirstDay PROVE TierForAge(a) = CadenceTiers[1]
    <2>1. \A i \in 1 .. 3 : Fits(i) <=> i = 1
      BY <1>1, AgesOrdered DEF CadenceTiers
    <2> HIDE DEF Fits
    <2>2. (CHOOSE i \in 1 .. 3 : Fits(i)) = 1 BY <2>1
    <2>3. a < FreezeOpens BY <1>1, AgesOrdered
    <2> QED BY <1>0, <2>2, <2>3
  <1>2. ASSUME FirstDay <= a, a < FirstWeek PROVE TierForAge(a) = CadenceTiers[2]
    <2>1. \A i \in 1 .. 3 : Fits(i) <=> i = 2
      BY <1>2, AgesOrdered DEF CadenceTiers
    <2> HIDE DEF Fits
    <2>2. (CHOOSE i \in 1 .. 3 : Fits(i)) = 2 BY <2>1
    <2>3. a < FreezeOpens BY <1>2, AgesOrdered
    <2> QED BY <1>0, <2>2, <2>3
  <1>3. ASSUME FirstWeek <= a, a < FreezeOpens PROVE TierForAge(a) = CadenceTiers[3]
    <2>1. \A i \in 1 .. 3 : Fits(i) <=> i = 3
      BY <1>3, AgesOrdered DEF CadenceTiers
    <2> HIDE DEF Fits
    <2>2. (CHOOSE i \in 1 .. 3 : Fits(i)) = 3 BY <2>1
    <2> QED BY <1>0, <1>3, <2>2
  <1> QED BY <1>1, <1>2, <1>3 DEF CadenceTiers

(* A stretched interval is never shorter than the tier's own, and never      *)
(* longer than a day.                                                        *)
LEMMA StretchBounds ==
    ASSUME NEW state \in BudgetStates, NEW a \in Nat, a < FreezeOpens
    PROVE  /\ EffectiveInterval(TierForAge(a), state) \in Nat
           /\ TierForAge(a).interval <= EffectiveInterval(TierForAge(a), state)
           /\ EffectiveInterval(TierForAge(a), state) <= Daily
  BY TierType, IntervalsOrdered DEF EffectiveInterval, BudgetStates

(* The freeze outranks the budget: inside the freeze window an unfrozen post *)
(* is due, as a freeze and with the highest priority, in every budget state  *)
(* and whatever was sampled before (decide, step 2).                         *)
THEOREM FreezeOutranksBudget ==
    ASSUME NEW a \in Nat, NEW since, NEW ever \in BOOLEAN,
           NEW state \in BudgetStates, InFreezeWindow(a)
    PROVE  /\ Due(a, since, FALSE, state)
           /\ FreezeDue(a, FALSE)
           /\ PriorityOf(a, since, FALSE, ever) = FinalFreeze
  BY DEF Due, FreezeDue, PriorityOf

(* Degradation only reduces resolution: what is due while the budget is      *)
(* tighter is also due, and as the same kind of work, while it is looser.    *)
Looser(b, c) ==
    \/ b = c
    \/ b = "healthy"
    \/ b = "warning" /\ c \in {"critical", "exhausted"}
    \/ b = "critical" /\ c = "exhausted"

THEOREM TighterNeverMore ==
    ASSUME NEW a \in Nat, NEW since \in Nat \cup {None},
           NEW done \in BOOLEAN,
           NEW tight \in BudgetStates, NEW loose \in BudgetStates,
           Looser(loose, tight), Due(a, since, done, tight)
    PROVE  Due(a, since, done, loose)
  <1>1. CASE FreezeDue(a, done) BY <1>1 DEF Due
  <1>2. CASE Sampled(a, since, done, tight)
    <2>1. loose # "exhausted" /\ tight # "exhausted"
      BY <1>2 DEF Sampled, Looser, BudgetStates
    <2>2. a < FreezeOpens
      BY <1>2, AgesOrdered DEF Sampled, TierForAge
    <2>3. EffectiveInterval(TierForAge(a), loose)
            <= EffectiveInterval(TierForAge(a), tight)
      BY <2>1, <2>2, TierType, IntervalsOrdered
         DEF EffectiveInterval, Looser, BudgetStates
    <2>4. /\ EffectiveInterval(TierForAge(a), loose) \in Nat
          /\ EffectiveInterval(TierForAge(a), tight) \in Nat
      BY <2>2, StretchBounds
    <2>5. Sampled(a, since, done, loose)
      BY <1>2, <2>1, <2>3, <2>4, NoneIsNoTime DEF Sampled
    <2> QED BY <2>5 DEF Due
  <1> QED BY <1>1, <1>2 DEF Due

(* A post that is not a freeze never has a freeze's priority, so a cycle     *)
(* that is cut short by priority drops ordinary samples before any freeze.   *)
THEOREM OnlyFreezesOutrank ==
    ASSUME NEW a \in Nat, NEW since, NEW ever \in BOOLEAN,
           NEW done \in BOOLEAN, NEW state \in BudgetStates,
           Due(a, since, done, state), ~FreezeDue(a, done)
    PROVE  /\ PriorityOf(a, since, done, ever) \in Priorities
           /\ PriorityOf(a, since, done, ever) > FinalFreeze
  <1>1. Sampled(a, since, done, state) BY DEF Due
  <1>2. a < FreezeOpens
    BY <1>1, AgesOrdered DEF Sampled, FreezeDue, InFreezeWindow, TierForAge
  <1>3. TierForAge(a).priority \in {Fresh, Recent, Mature}
    BY <1>2, TierType
  <1> QED
    BY <1>3 DEF PriorityOf, Priorities, FinalFreeze, NeverCaptured,
                Fresh, Recent, Mature

-----------------------------------------------------------------------------
(* A post over its life *)

(* A post gets at most one snapshot per age, so the count never passes the   *)
(* age: what makes the type of the count inductive.                          *)
CadenceInv == CadenceTypeOK /\ taken <= age

LEMMA CadenceInductive == CadenceInv /\ [CadenceNext]_cadenceVars => CadenceInv'
  <1> SUFFICES ASSUME CadenceInv, [CadenceNext]_cadenceVars PROVE CadenceInv'
    OBVIOUS
  <1> USE AgesOrdered DEF CadenceInv, CadenceTypeOK, Excuses
  <1>1. ASSUME Sample PROVE CadenceInv'
    <2>1. age < Cliff
      BY <1>1 DEF Sample, Due, FreezeDue, InFreezeWindow, Sampled
    <2> QED BY <1>1, <2>1 DEF Sample, Hour, FreezeDue, InFreezeWindow
  <1>2. ASSUME Idle PROVE CadenceInv'
    BY <1>2 DEF Idle, Hour
  <1>3. ASSUME Miss PROVE CadenceInv'
    BY <1>3 DEF Miss, Hour
  <1>4. ASSUME UNCHANGED cadenceVars PROVE CadenceInv'
    BY <1>4 DEF cadenceVars
  <1> QED BY <1>1, <1>2, <1>3, <1>4 DEF CadenceNext

LEMMA InitCadenceInv == CadenceInit => CadenceInv
  <1> SUFFICES ASSUME CadenceInit PROVE CadenceInv
    OBVIOUS
  <1>1. age \in 0 .. Cliff /\ taken \in 0 .. Cliff /\ taken <= age
    BY AgesOrdered DEF CadenceInit
  <1>2. lastAge \in 0 .. Cliff - 1 \cup {None} /\ frozen \in BOOLEAN
    BY DEF CadenceInit
  <1>3. budgetState \in BudgetStates /\ excuses \subseteq Excuses
    BY DEF CadenceInit
  <1> QED BY <1>1, <1>2, <1>3 DEF CadenceInv, CadenceTypeOK

(* Polling stops at the cliff, and no snapshot is taken past it.             *)
THEOREM CadenceTyping == CadenceSpec => []CadenceTypeOK
  <1>1. CadenceInv => CadenceTypeOK BY DEF CadenceInv
  <1> QED BY <1>1, InitCadenceInv, CadenceInductive, PTL DEF CadenceSpec

(* No budget state and no change of budget state delays the freeze: a post   *)
(* that is not frozen inside or after its window missed a poll.              *)
THEOREM FreezeIsOnTime == CadenceSpec => []FrozenOnTime
  <1>1. CadenceInit => FrozenOnTime
    BY AgesOrdered DEF CadenceInit, FrozenOnTime
  <1>2. CadenceInv /\ FrozenOnTime /\ [CadenceNext]_cadenceVars => FrozenOnTime'
    <2> SUFFICES ASSUME CadenceInv, FrozenOnTime, [CadenceNext]_cadenceVars PROVE FrozenOnTime'
      OBVIOUS
    <2> USE AgesOrdered DEF CadenceInv, CadenceTypeOK, FrozenOnTime
    <2>1. CASE Sample
      <3>1. age >= FreezeOpens => ~Sampled(age, SinceSample, frozen, budgetState)
        BY DEF Sampled, TierForAge
      <3>2. age >= FreezeOpens => frozen'
        BY <2>1, <3>1 DEF Sample, Due
      <3>3. age' > FreezeOpens => age >= FreezeOpens
        BY <2>1 DEF Sample, Hour
      <3> QED BY <3>2, <3>3
    <2>2. CASE Idle
      <3>1. ASSUME age = FreezeOpens PROVE frozen
        BY <2>2, <3>1 DEF Idle, Due, FreezeDue, InFreezeWindow
      <3> QED BY <2>2, <3>1 DEF Idle, Hour
    <2>3. CASE Miss
      BY <2>3 DEF Miss
    <2>4. CASE UNCHANGED cadenceVars
      BY <2>4 DEF cadenceVars
    <2> QED BY <2>1, <2>2, <2>3, <2>4 DEF CadenceNext
  <1> QED BY <1>1, <1>2, InitCadenceInv, CadenceInductive, PTL DEF CadenceSpec

(* A poll that leaves a sampled post alone, with money left, does so less    *)
(* than a day after its newest snapshot.                                     *)
LEMMA IdleIsRecent ==
  ASSUME CadenceInv, Idle, budgetState # "exhausted", ~frozen, lastAge # None
  PROVE  age - lastAge < Daily
  <1> USE AgesOrdered, IntervalsOrdered, NoneIsNoTime DEF CadenceInv, CadenceTypeOK
  <1>1. age < Cliff /\ age \in Nat /\ SinceSample = age - lastAge /\ lastAge \in Nat
    BY DEF Idle, SinceSample
  <1>2. ~FreezeDue(age, frozen) /\ ~Sampled(age, SinceSample, frozen, budgetState)
    BY DEF Idle, Due
  <1>3. age < FreezeOpens
    BY <1>1, <1>2 DEF FreezeDue, InFreezeWindow
  <1>4. TierForAge(age) # None
    BY <1>1, <1>3, TierType, NoneIsNoTier
  <1>5. ~(age - lastAge >= EffectiveInterval(TierForAge(age), budgetState))
    BY <1>1, <1>2, <1>4 DEF Sampled
  <1>6. /\ EffectiveInterval(TierForAge(age), budgetState) \in Nat
        /\ EffectiveInterval(TierForAge(age), budgetState) <= Daily
    BY <1>1, <1>3, StretchBounds
  <1> QED BY <1>1, <1>5, <1>6

(* The ladder of stretched intervals never leaves a hole longer than a day,  *)
(* for every layout of tiers, unless a poll was missed or found no money.    *)
THEOREM LadderIsDaily == CadenceSpec => []NoLongGap
  <1>1. CadenceInit => NoLongGap
    BY DEF CadenceInit, NoLongGap
  <1>2. CadenceInv /\ NoLongGap /\ [CadenceNext]_cadenceVars => NoLongGap'
    <2> SUFFICES ASSUME CadenceInv, NoLongGap, [CadenceNext]_cadenceVars PROVE NoLongGap'
      OBVIOUS
    <2> USE AgesOrdered, IntervalsOrdered, NoneIsNoTime DEF CadenceInv, CadenceTypeOK, NoLongGap
    <2>1. CASE Sample
      BY <2>1 DEF Sample, Hour
    <2>2. CASE Idle
      <3> SUFFICES ASSUME excuses' = {}, lastAge # None, ~frozen
                   PROVE  age + 1 - lastAge <= Daily
        BY <2>2 DEF Idle, Hour
      <3>1. budgetState # "exhausted"
        BY <2>2 DEF Idle
      <3>2. age - lastAge < Daily
        BY <2>2, <3>1, IdleIsRecent
      <3> QED BY <3>2
    <2>3. CASE Miss
      BY <2>3 DEF Miss
    <2>4. CASE UNCHANGED cadenceVars
      BY <2>4 DEF cadenceVars
    <2> QED BY <2>1, <2>2, <2>3, <2>4 DEF CadenceNext
  <1> QED BY <1>1, <1>2, InitCadenceInv, CadenceInductive, PTL DEF CadenceSpec
-----------------------------------------------------------------------------
(* The cost projection *)

Divides(d, n) == d * (n \div d) = n

(* The shape of the shipped tiers: each lasts a whole number of its          *)
(* intervals, which is what makes the projection's division exact.  Without  *)
(* it a tier may take one sample more than its quotient.                     *)
TiersDivide ==
    /\ Divides(FreshInterval, FirstDay)
    /\ Divides(RecentInterval, FirstWeek - FirstDay)
    /\ Divides(Daily, FreezeOpens - FirstWeek)

FirstDayQuota  == FirstDay \div FreshInterval
FirstWeekQuota == (FirstWeek - FirstDay) \div RecentInterval
MatureQuota    == (FreezeOpens - FirstWeek) \div Daily

LEMMA Quotient ==
    ASSUME NEW d \in Nat, d > 0, NEW n \in Nat, Divides(d, n)
    PROVE  /\ n \div d \in Nat
           /\ (n \div d) * d = n
  <1> DEFINE q == n \div d
  <1>1. q \in Int BY DEF Divides
  <1>2. d * q = n BY DEF Divides
  <1> HIDE DEF q
  <1>3. q * d = n BY <1>1, <1>2
  <1>4. q >= 0 BY <1>1, <1>2
  <1> QED BY <1>1, <1>3, <1>4 DEF q

LEMMA QuotasFit ==
    ASSUME TiersDivide
    PROVE  /\ FirstDayQuota \in Nat /\ FirstDayQuota * FreshInterval = FirstDay
           /\ FirstWeekQuota \in Nat
           /\ FirstWeekQuota * RecentInterval = FirstWeek - FirstDay
           /\ MatureQuota \in Nat
           /\ MatureQuota * Daily = FreezeOpens - FirstWeek
  BY Quotient, AgesOrdered, IntervalsOrdered
     DEF TiersDivide, FirstDayQuota, FirstWeekQuota, MatureQuota

(* What a tier's samples add up to: with k samples before the tier and n     *)
(* after its newest one, n - 1 - k whole intervals lie behind that one.      *)
Spaced(n, k, interval, since) == (n - 1 - k) * interval <= since

(* A sample an interval after the newest keeps the tier's samples spaced.    *)
LEMMA OneMore ==
    ASSUME NEW n \in Nat, NEW k \in Nat, NEW interval \in Nat,
           NEW since \in Nat, NEW later \in Nat,
           Spaced(n, k, interval, since), since + interval <= later
    PROVE  Spaced(n + 1, k, interval, later)
  <1> DEFINE m == n - 1 - k
  <1>1. m \in Int OBVIOUS
  <1>2. n + 1 - 1 - k = m + 1 OBVIOUS
  <1>3. m * interval <= since BY DEF Spaced
  <1> HIDE DEF m
  <1>4. (m + 1) * interval = m * interval + interval BY <1>1
  <1>5. m * interval \in Int BY <1>1
  <1>6. (m + 1) * interval <= later BY <1>3, <1>4, <1>5
  <1> QED BY <1>2, <1>6 DEF Spaced

(* The first sample of a tier is spaced, if the earlier tiers kept theirs.   *)
LEMMA FirstOfTier ==
    ASSUME NEW n \in Nat, NEW k \in Nat, NEW interval \in Nat, NEW since \in Nat,
           n <= k
    PROVE  Spaced(n + 1, k, interval, since)
  <1> DEFINE m == n - k
  <1>1. m \in Int /\ m <= 0 OBVIOUS
  <1>2. n + 1 - 1 - k = m OBVIOUS
  <1> HIDE DEF m
  <1>3. m * interval <= 0 BY <1>1
  <1>4. m * interval \in Int BY <1>1
  <1> QED BY <1>2, <1>3, <1>4 DEF Spaced

(* Spaced samples inside a tier of q intervals are at most q.                *)
LEMMA TierIsFull ==
    ASSUME NEW n \in Nat, NEW k \in Nat, NEW interval \in Nat, NEW since \in Nat,
           NEW q \in Nat, Spaced(n, k, interval, since), since < q * interval
    PROVE  n <= k + q
  <1> DEFINE m == n - 1 - k
  <1>1. m \in Int OBVIOUS
  <1>2. m * interval <= since BY DEF Spaced
  <1> HIDE DEF m
  <1>3. m * interval \in Int /\ q * interval \in Int BY <1>1
  <1>4. m * interval < q * interval BY <1>2, <1>3
  <1>5. m < q BY <1>1, <1>4
  <1> QED BY <1>1, <1>5 DEF m

(* Where the newest sample lies tells how many there may be.                 *)
TierKept ==
    \/ lastAge = None /\ taken = 0
    \/ /\ lastAge \in 0 .. FirstDay - 1
       /\ Spaced(taken, 0, FreshInterval, lastAge)
    \/ /\ lastAge \in FirstDay .. FirstWeek - 1
       /\ Spaced(taken, FirstDayQuota, RecentInterval, lastAge - FirstDay)
    \/ /\ lastAge \in FirstWeek .. FreezeOpens - 1
       /\ Spaced(taken, FirstDayQuota + FirstWeekQuota, Daily, lastAge - FirstWeek)

(* Up to the freeze the samples keep to their tiers; after it there is one   *)
(* more and none follows.                                                    *)
ProjectionInv ==
    /\ CadenceInv
    /\ lastAge # None => lastAge < age
    /\ ~frozen => TierKept
    /\ WithinProjection

LEMMA TierCounts ==
    ASSUME TiersDivide, CadenceInv, TierKept
    PROVE  /\ lastAge = None \/ lastAge < FirstDay => taken <= FirstDayQuota
           /\ lastAge = None \/ lastAge < FirstWeek
                => taken <= FirstDayQuota + FirstWeekQuota
           /\ taken <= FirstDayQuota + FirstWeekQuota + MatureQuota
  <1> USE AgesOrdered, IntervalsOrdered, NoneIsNoTime, QuotasFit
  <1>0. taken \in Nat BY DEF CadenceInv, CadenceTypeOK
  <1>1. CASE lastAge = None /\ taken = 0
    BY <1>1
  <1>2. CASE lastAge \in 0 .. FirstDay - 1 /\ Spaced(taken, 0, FreshInterval, lastAge)
    <2>1. lastAge \in Nat /\ lastAge < FirstDayQuota * FreshInterval
      BY <1>2
    <2>2. taken <= 0 + FirstDayQuota
      BY <1>0, <1>2, <2>1, TierIsFull
    <2> QED BY <1>0, <1>2, <2>2
  <1>3. CASE /\ lastAge \in FirstDay .. FirstWeek - 1
             /\ Spaced(taken, FirstDayQuota, RecentInterval, lastAge - FirstDay)
    <2>1. lastAge - FirstDay \in Nat
          /\ lastAge - FirstDay < FirstWeekQuota * RecentInterval
      BY <1>3
    <2>2. taken <= FirstDayQuota + FirstWeekQuota
      BY <1>0, <1>3, <2>1, TierIsFull
    <2> QED BY <1>0, <1>3, <2>2
  <1>4. CASE /\ lastAge \in FirstWeek .. FreezeOpens - 1
             /\ Spaced(taken, FirstDayQuota + FirstWeekQuota, Daily, lastAge - FirstWeek)
    <2>1. lastAge - FirstWeek \in Nat /\ lastAge - FirstWeek < MatureQuota * Daily
      BY <1>4
    <2>2. FirstDayQuota + FirstWeekQuota \in Nat
      OBVIOUS
    <2>3. taken <= (FirstDayQuota + FirstWeekQuota) + MatureQuota
      BY <1>0, <1>4, <2>1, <2>2, TierIsFull
    <2> QED BY <1>0, <1>4, <2>3
  <1> QED BY <1>1, <1>2, <1>3, <1>4 DEF TierKept

(* An ordinary sample keeps to its tier.                                     *)
LEMMA SampleKeepsTier ==
    ASSUME TiersDivide, ProjectionInv, Sampled(age, SinceSample, frozen, budgetState),
           taken' = taken + 1, lastAge' = age
    PROVE  TierKept'
  <1> USE AgesOrdered, IntervalsOrdered, NoneIsNoTime
  <1>1. age \in Nat /\ taken \in Nat /\ ~frozen /\ budgetState \in BudgetStates
        /\ lastAge \in Nat \cup {None}
    BY DEF ProjectionInv, CadenceInv, CadenceTypeOK, Sampled
  <1>2. age < FreezeOpens
    BY DEF Sampled, TierForAge, ProjectionInv, CadenceInv, CadenceTypeOK
  <1>3. TierKept BY <1>1 DEF ProjectionInv
  <1>4. /\ FirstDayQuota \in Nat /\ FirstWeekQuota \in Nat /\ MatureQuota \in Nat
        /\ FirstDayQuota + FirstWeekQuota \in Nat
    BY QuotasFit
  <1>5. ASSUME lastAge # None
        PROVE  /\ lastAge \in Nat /\ lastAge < age
               /\ lastAge + TierForAge(age).interval <= age
               /\ TierForAge(age).interval \in Nat
    <2>1. lastAge \in Nat /\ lastAge < age
      BY <1>1, <1>5 DEF ProjectionInv
    <2>2. SinceSample = age - lastAge /\ SinceSample # None
      BY <1>1, <1>5, <2>1 DEF SinceSample
    <2>3. age - lastAge >= EffectiveInterval(TierForAge(age), budgetState)
      BY <2>2 DEF Sampled
    <2>4. /\ EffectiveInterval(TierForAge(age), budgetState) \in Nat
          /\ TierForAge(age).interval <= EffectiveInterval(TierForAge(age), budgetState)
          /\ TierForAge(age).interval \in 1 .. Daily
      BY <1>1, <1>2, StretchBounds, TierType
    <2> QED BY <1>1, <2>1, <2>3, <2>4
  <1>6. CASE age < FirstDay
    <2>1. TierForAge(age).interval = FreshInterval
      BY <1>1, <1>6, TierIs
    <2>2. Spaced(taken + 1, 0, FreshInterval, age)
      <3>1. CASE lastAge = None
        <4>1. taken = 0 BY <1>3, <3>1 DEF TierKept
        <4> QED BY <1>1, <4>1, FirstOfTier
      <3>2. CASE lastAge # None
        <4>1. Spaced(taken, 0, FreshInterval, lastAge)
          <5>1. /\ lastAge \notin FirstDay .. FirstWeek - 1
                /\ lastAge \notin FirstWeek .. FreezeOpens - 1
            BY <1>1, <1>5, <1>6, <3>2
          <5> QED BY <1>3, <3>2, <5>1 DEF TierKept
        <4> QED BY <1>1, <1>5, <2>1, <3>2, <4>1, OneMore
      <3> QED BY <3>1, <3>2
    <2>3. age \in 0 .. FirstDay - 1 BY <1>1, <1>6
    <2> QED BY <2>2, <2>3 DEF TierKept
  <1>7. CASE FirstDay <= age /\ age < FirstWeek
    <2>1. TierForAge(age).interval = RecentInterval
      BY <1>1, <1>7, TierIs
    <2>2. age - FirstDay \in Nat BY <1>1, <1>7
    <2>3. Spaced(taken + 1, FirstDayQuota, RecentInterval, age - FirstDay)
      <3>1. CASE lastAge = None \/ lastAge < FirstDay
        <4>1. taken <= FirstDayQuota
          BY <1>3, <3>1, TierCounts DEF ProjectionInv
        <4> QED BY <1>1, <1>4, <2>2, <4>1, FirstOfTier
      <3>2. CASE lastAge # None /\ ~(lastAge < FirstDay)
        <4>1. Spaced(taken, FirstDayQuota, RecentInterval, lastAge - FirstDay)
          <5>1. /\ lastAge \notin 0 .. FirstDay - 1
                /\ lastAge \notin FirstWeek .. FreezeOpens - 1
            BY <1>1, <1>5, <1>7, <3>2
          <5> QED BY <1>3, <3>2, <5>1 DEF TierKept
        <4>2. lastAge - FirstDay \in Nat
              /\ (lastAge - FirstDay) + RecentInterval <= age - FirstDay
          BY <1>1, <1>5, <2>1, <3>2
        <4> QED BY <1>1, <1>4, <2>2, <4>1, <4>2, OneMore
      <3> QED BY <3>1, <3>2
    <2>4. age \in FirstDay .. FirstWeek - 1 BY <1>1, <1>7
    <2> QED BY <2>3, <2>4 DEF TierKept, FirstDayQuota
  <1>8. CASE FirstWeek <= age
    <2>1. TierForAge(age).interval = Daily
      BY <1>1, <1>2, <1>8, TierIs
    <2>2. age - FirstWeek \in Nat BY <1>1, <1>8
    <2>3. Spaced(taken + 1, FirstDayQuota + FirstWeekQuota, Daily, age - FirstWeek)
      <3>1. CASE lastAge = None \/ lastAge < FirstWeek
        <4>1. taken <= FirstDayQuota + FirstWeekQuota
          BY <1>3, <3>1, TierCounts DEF ProjectionInv
        <4> QED BY <1>1, <1>4, <2>2, <4>1, FirstOfTier
      <3>2. CASE lastAge # None /\ ~(lastAge < FirstWeek)
        <4>1. Spaced(taken, FirstDayQuota + FirstWeekQuota, Daily, lastAge - FirstWeek)
          BY <1>3, <1>5, <3>2 DEF TierKept
        <4>2. lastAge - FirstWeek \in Nat
              /\ (lastAge - FirstWeek) + Daily <= age - FirstWeek
          BY <1>1, <1>5, <2>1, <3>2
        <4> QED BY <1>1, <1>4, <2>2, <4>1, <4>2, OneMore
      <3> QED BY <3>1, <3>2
    <2>4. age \in FirstWeek .. FreezeOpens - 1 BY <1>1, <1>2, <1>8
    <2> QED BY <2>3, <2>4 DEF TierKept, FirstDayQuota, FirstWeekQuota
  <1> QED BY <1>1, <1>6, <1>7, <1>8

LEMMA ProjectionInductive ==
    ASSUME TiersDivide, ProjectionInv, [CadenceNext]_cadenceVars
    PROVE  ProjectionInv'
  <1> USE AgesOrdered, IntervalsOrdered, NoneIsNoTime
  <1>1. CadenceInv' BY CadenceInductive DEF ProjectionInv
  <1>2. CASE UNCHANGED <<lastAge, frozen, taken>> /\ (Hour \/ UNCHANGED age)
    <2>1. age \in Nat /\ lastAge \in Nat \cup {None}
      BY DEF ProjectionInv, CadenceInv, CadenceTypeOK
    <2>2. (lastAge # None => lastAge < age)'
      BY <1>2, <2>1 DEF ProjectionInv, Hour
    <2>3. (~frozen => TierKept)' /\ WithinProjection'
      BY <1>2 DEF ProjectionInv, TierKept, WithinProjection
    <2> QED BY <1>1, <2>2, <2>3 DEF ProjectionInv
  <1>3. CASE Sample
    <2>1. /\ age \in Nat /\ taken \in Nat /\ age' = age + 1
          /\ taken' = taken + 1 /\ lastAge' = age
      BY <1>3 DEF Sample, Hour, ProjectionInv, CadenceInv, CadenceTypeOK
    <2>2. ~frozen
      BY <1>3 DEF Sample, Due, FreezeDue, Sampled
    <2>3. TierKept BY <2>2 DEF ProjectionInv
    <2>4. taken <= FirstDayQuota + FirstWeekQuota + MatureQuota
      BY <2>3, TierCounts DEF ProjectionInv
    <2>5. WithinProjection'
      BY <2>1, <2>4, QuotasFit
         DEF WithinProjection, ExpectedSnapshots, FirstDayQuota, FirstWeekQuota,
             MatureQuota
    <2>6. CASE FreezeDue(age, frozen)
      <3>1. frozen' BY <1>3, <2>6 DEF Sample
      <3> QED BY <1>1, <2>1, <2>5, <3>1 DEF ProjectionInv
    <2>7. CASE Sampled(age, SinceSample, frozen, budgetState)
      <3>1. TierKept' BY <2>1, <2>7, SampleKeepsTier
      <3> QED BY <1>1, <2>1, <2>5, <3>1 DEF ProjectionInv
    <2> QED BY <1>3, <2>6, <2>7 DEF Sample, Due
  <1> QED BY <1>2, <1>3 DEF CadenceNext, Idle, Miss, cadenceVars

(* The projection shown on the dashboard is an upper bound for every layout  *)
(* of tiers that last whole numbers of their intervals, whatever polls are   *)
(* missed and however the budget state changes.                              *)
THEOREM ProjectionHolds ==
    ASSUME TiersDivide
    PROVE  CadenceSpec => []WithinProjection
  <1>1. CadenceInit => ProjectionInv
    <2> SUFFICES ASSUME CadenceInit PROVE ProjectionInv
      OBVIOUS
    <2>1. TierKept /\ taken = 0 BY DEF CadenceInit, TierKept
    <2>2. WithinProjection
      BY <2>1, QuotasFit
         DEF WithinProjection, ExpectedSnapshots, FirstDayQuota, FirstWeekQuota,
             MatureQuota
    <2> QED BY <2>1, <2>2, InitCadenceInv DEF CadenceInit, ProjectionInv
  <1>2. ProjectionInv /\ [CadenceNext]_cadenceVars => ProjectionInv'
    BY ProjectionInductive
  <1>3. ProjectionInv => WithinProjection
    BY DEF ProjectionInv
  <1> QED BY <1>1, <1>2, <1>3, PTL DEF CadenceSpec

-----------------------------------------------------------------------------

(* Posts known, staged or on a page were published, and not in the future.   *)
Causal ==
    /\ \A p \in Posts : postedAt[p] # None => postedAt[p] <= now
    /\ Known \subseteq Published
    /\ \A r \in Runners :
          /\ job[r].page \subseteq Published
          /\ \A s \in job[r].inserts : s.post \in Published
          /\ \A d \in job[r].due : d.post \in Known

TypeInv == TypeOK /\ Causal

LEMMA PageType ==
    ASSUME NEW S \in SUBSET Posts, NEW n \in Nat
    PROVE  /\ Newest(S, n) \subseteq S
           /\ IsFiniteSet(Newest(S, n))
           /\ Cardinality(Newest(S, n)) \in Nat
  <1>1. Newest(S, n) \subseteq S BY DEF Newest
  <1>2. IsFiniteSet(Posts) BY FS_Interval, CollectionAssumption DEF Posts
  <1>3. IsFiniteSet(Newest(S, n)) BY <1>1, <1>2, FS_Subset
  <1> QED BY <1>1, <1>3, FS_CardinalityType

LEMMA TimelineType ==
    ASSUME NEW j PROVE Timeline(j) \subseteq Published /\ Timeline(j) \subseteq Posts
  BY DEF Timeline, Published

LEMMA DueType ==
    ASSUME TypeInv
    PROVE  /\ PostsDue \subseteq Decision
           /\ \A d \in PostsDue : /\ d.post \in Known
                                  /\ postedAt[d.post] + Cliff > now
                                  /\ d.freeze => InFreezeWindow(Age(d.post))
  <1> SUFFICES ASSUME NEW q \in Candidates,
                      Due(Age(q), SinceLast(q), frozenAt[q] # None, BudgetState)
               PROVE  /\ DecisionFor(q) \in Decision
                      /\ DecisionFor(q).post = q
                      /\ q \in Known
                      /\ postedAt[q] + Cliff > now
                      /\ DecisionFor(q).freeze => InFreezeWindow(Age(q))
    BY DEF PostsDue, DecisionFor
  <1> DEFINE frz == frozenAt[q] # None
  <1>1. q \in Posts /\ q \in Known /\ postedAt[q] + Cliff > now
    BY DEF Candidates, Known
  <1>2. Age(q) \in Nat
    BY <1>1, NoneIsNoTime DEF TypeInv, TypeOK, Causal, Age, Times, Published, Known
  <1>3. everImp[q] \in BOOLEAN /\ frz \in BOOLEAN /\ BudgetState \in BudgetStates
    BY <1>1 DEF TypeInv, TypeOK, BudgetState, BudgetStates
  <1>4. PriorityOf(Age(q), SinceLast(q), frz, everImp[q]) \in Priorities
    <2>1. CASE FreezeDue(Age(q), frz)
      BY <2>1 DEF PriorityOf, Priorities, FinalFreeze, Mature
    <2>2. CASE ~FreezeDue(Age(q), frz)
      BY <2>2, <1>2, <1>3, OnlyFreezesOutrank
    <2> QED BY <2>1, <2>2
  <1>5. FreezeDue(Age(q), frz) \in BOOLEAN /\ (FreezeDue(Age(q), frz) => InFreezeWindow(Age(q)))
    BY DEF FreezeDue, InFreezeWindow
  <1> QED BY <1>1, <1>4, <1>5 DEF DecisionFor, Decision

LEMMA InitTypeInv == Init => TypeInv
  BY CollectionAssumption, NoneIsNoTime
     DEF Init, TypeInv, TypeOK, Causal, Times, Known, Published, NoJob, NoRun,
         Job, RunRow, Statuses

(* The fields of the jobs that the run of a task builds are well typed.      *)
LEMMA JobFields ==
    ASSUME TypeInv, NEW r \in Runners
    PROVE  /\ job[r] \in Job
           /\ NoJob \in Job
           /\ NoRun \in RunRow
           /\ Freezes(job[r]) \subseteq Posts
  BY DEF TypeInv, TypeOK, Job, NoJob, NoRun, RunRow, Statuses, Freezes, Decision

(* What the two writers stage.                                              *)
LEMMA SnapshotType ==
    ASSUME TypeInv, NEW r \in Runners, NEW p \in Posts, NEW f \in BOOLEAN
    PROVE  NewSnapshot(p, job[r].private, f) \in Snapshot
  BY DEF TypeInv, TypeOK, NewSnapshot, Snapshot, Times

LEMMA DiscoveredRows ==
    ASSUME TypeInv, NEW r \in Runners,
           NEW s \in {NewSnapshot(p, job[r].private, FALSE) : p \in NewPosts(job[r])}
    PROVE  /\ s \in Snapshot
           /\ s.post \in job[r].page /\ s.at = now /\ ~s.freeze
           /\ firstSeen[s.post] = None
  <1>1. PICK p \in NewPosts(job[r]) : s = NewSnapshot(p, job[r].private, FALSE)
    OBVIOUS
  <1>2. p \in Posts /\ p \in job[r].page /\ firstSeen[p] = None
    BY DEF TypeInv, TypeOK, Job, NewPosts
  <1> QED BY <1>1, <1>2, SnapshotType DEF NewSnapshot

LEMMA InsertedRows ==
    ASSUME TypeInv, NEW r \in Runners, NEW work \in SUBSET job[r].due,
           \A d \in work : d.post \in job[r].page,
           NEW s \in ToInsert(work, job[r].private)
    PROVE  /\ s \in Snapshot
           /\ s.post \in job[r].page /\ s.at = now
           /\ Existing(s.post) = {}
           /\ \E d \in work : d.post = s.post /\ d.freeze = s.freeze
  <1>1. PICK d \in work : /\ s = NewSnapshot(d.post, job[r].private, d.freeze)
                          /\ Existing(d.post) = {}
    BY DEF ToInsert
  <1>2. d.post \in Posts /\ d.freeze \in BOOLEAN
    BY DEF TypeInv, TypeOK, Job, Decision
  <1> QED BY <1>1, <1>2, SnapshotType DEF NewSnapshot

LEMMA FlaggedRows ==
    ASSUME NEW work, NEW s \in ToFlag(work)
    PROVE  /\ s \in snaps /\ ~s.freeze /\ s.at = now
           /\ \E d \in work : d.post = s.post /\ d.freeze
  BY DEF ToFlag, Existing

(* Rewriting the fields of a job.                                            *)
LEMMA FetchedJob ==
    ASSUME NEW k \in Job, NEW page \in SUBSET Posts, NEW private \in SUBSET Posts,
           NEW n \in Nat
    PROVE  [k EXCEPT !.pc = "response", !.page = page, !.private = private,
                     !.own = k.own + n] \in Job
  <1> DEFINE k1 == [k EXCEPT !.pc = "response", !.page = page]
  <1>1. k1 \in Job BY DEF Job
  <1>2. k.own + n \in Nat BY DEF Job
  <1>3. [k1 EXCEPT !.private = private, !.own = k.own + n] \in Job
    <2> HIDE DEF k1
    <2> QED BY <1>1, <1>2 DEF Job
  <1> QED BY <1>3, Zenon

LEMMA DiscoveredJob ==
    ASSUME NEW k \in Job, NEW more \in BOOLEAN, NEW inserts \in SUBSET Snapshot
    PROVE  [k EXCEPT !.pc      = IF more THEN "request" ELSE "commit",
                     !.status  = IF more THEN "running" ELSE "succeeded",
                     !.cursor  = IF more THEN k.page ELSE {},
                     !.pages   = k.pages + 1,
                     !.page    = {},
                     !.private = {},
                     !.inserts = inserts] \in Job
  <1> DEFINE pc     == IF more THEN "request" ELSE "commit"
             status == IF more THEN "running" ELSE "succeeded"
             cursor == IF more THEN k.page ELSE {}
             k1 == [k EXCEPT !.pc = pc, !.status = status]
             k2 == [k1 EXCEPT !.cursor = cursor, !.pages = k.pages + 1]
  <1>1. k1 \in Job
    <2>1. pc \in {"request", "commit"} /\ status \in Statuses BY DEF Statuses
    <2> HIDE DEF pc, status
    <2> QED BY <2>1 DEF Job
  <1>2. k2 \in Job
    <2>1. cursor \in SUBSET Posts /\ k.pages + 1 \in Nat BY DEF Job
    <2> HIDE DEF cursor, k1
    <2> QED BY <1>1, <2>1 DEF Job
  <1>3. [k2 EXCEPT !.page = {}, !.private = {}, !.inserts = inserts] \in Job
    <2> HIDE DEF k2
    <2> QED BY <1>2 DEF Job
  <1> QED BY <1>3, Zenon

LEMMA MeasuredJob ==
    ASSUME NEW k \in Job, NEW status \in Statuses,
           NEW inserts \in SUBSET Snapshot, NEW flags \in SUBSET Snapshot
    PROVE  [k EXCEPT !.pc = "commit", !.status = status, !.page = {}, !.private = {},
                     !.inserts = inserts, !.flags = flags] \in Job
  <1> DEFINE k1 == [k EXCEPT !.pc = "commit", !.status = status, !.page = {}]
  <1>1. k1 \in Job BY DEF Job
  <1>2. [k1 EXCEPT !.private = {}, !.inserts = inserts, !.flags = flags] \in Job
    <2> HIDE DEF k1
    <2> QED BY <1>1 DEF Job
  <1> QED BY <1>2, Zenon

(* A step of runner r that only rewrites its own job keeps the invariant     *)
(* when the new job is well typed and causal.                                *)
LEMMA OwnJob ==
    ASSUME TypeInv, NEW r \in Runners, NEW j \in Job,
           job' = [job EXCEPT ![r] = j],
           j.page \subseteq Published,
           \A s \in j.inserts : s.post \in Published,
           \A d \in j.due : d.post \in Known,
           UNCHANGED <<now, postedAt, postVars, spent, budget>>,
           billed' \in Nat, last' \in [Runners -> RunRow],
           lastSweep' \in Times, faults' \in Nat, missed' \in [Posts -> Nat],
           unrecorded' \in Nat
    PROVE  TypeInv'
  <1>1. TypeOK'
    BY DEF TypeInv, TypeOK, postVars
  <1>2. Known' = Known /\ Published' = Published
    BY DEF Known, Published, postVars
  <1>3. \A q \in Runners : job'[q] = IF q = r THEN j ELSE job[q]
    BY DEF TypeInv, TypeOK
  <1>4. Causal'
    BY <1>2, <1>3 DEF TypeInv, Causal, postVars
  <1> QED BY <1>1, <1>4 DEF TypeInv

LEMMA StartType ==
    ASSUME TypeInv, NEW r \in Runners, StartMetrics(r) \/ StartDiscover(r)
    PROVE  TypeInv'
  <1> USE JobFields, DueType
  <1>0. last' \in [Runners -> RunRow]
    BY DEF StartMetrics, StartDiscover, TypeInv, TypeOK
  <1>1. CASE StartMetrics(r)
    <2> DEFINE j == [NoJob EXCEPT !.pc = IF PostsDue = {} THEN "commit" ELSE "request",
                                  !.task = "metrics", !.started = now, !.due = PostsDue,
                                  !.status = IF PostsDue = {} THEN "skipped" ELSE "running"]
    <2>1. j \in Job
      BY DEF NoJob, Job, Statuses, TypeInv, TypeOK, Times
    <2>2. j.page = {} /\ j.inserts = {} /\ j.due = PostsDue
      BY DEF NoJob
    <2>3. job' = [job EXCEPT ![r] = j]
      BY <1>1 DEF StartMetrics
    <2> HIDE DEF j
    <2> QED
      BY <1>0, <1>1, <2>1, <2>2, <2>3, OwnJob
         DEF StartMetrics, TypeInv, TypeOK, xVars, history
  <1>2. CASE StartDiscover(r)
    <2> DEFINE j == [NoJob EXCEPT !.pc = "request", !.task = "discover",
                                  !.started = now, !.watermark = Known]
    <2>1. j \in Job
      BY DEF NoJob, Job, Statuses, TypeInv, TypeOK, Times, Known
    <2>2. j.page = {} /\ j.inserts = {} /\ j.due = {}
      BY DEF NoJob
    <2>3. job' = [job EXCEPT ![r] = j]
      BY <1>2 DEF StartDiscover
    <2> HIDE DEF j
    <2> QED
      BY <1>0, <1>2, <2>1, <2>2, <2>3, OwnJob
         DEF StartDiscover, TypeInv, TypeOK, xVars, history
  <1> QED BY <1>1, <1>2

LEMMA RequestType ==
    ASSUME TypeInv, NEW r \in Runners,
           Refused(r) \/ RateLimited(r) \/ RequestFails(r)
    PROVE  TypeInv'
  <1> USE JobFields
  <1> DEFINE j == IF RequestFails(r)
                  THEN [job[r] EXCEPT !.pc = "commit", !.status = "failed"]
                  ELSE Blocked(job[r])
  <1>1. j \in Job
    BY DEF Blocked, Job, Statuses
  <1>2. j.page = job[r].page /\ j.inserts = job[r].inserts /\ j.due = job[r].due
    BY DEF Blocked, Job
  <1>3. job' = [job EXCEPT ![r] = j]
    <2>1. CASE RequestFails(r)
      BY <2>1 DEF RequestFails, TypeInv, TypeOK
    <2>2. CASE ~RequestFails(r)
      BY <2>2 DEF Refused, RateLimited
    <2> QED BY <2>1, <2>2
  <1> HIDE DEF j
  <1>4. /\ UNCHANGED <<now, postedAt, postVars, spent, budget, last, lastSweep, history, billed>>
        /\ faults' \in Nat
    BY DEF Refused, RateLimited, RequestFails, xVars, history, TypeInv, TypeOK
  <1> QED
    BY <1>1, <1>2, <1>3, <1>4, OwnJob DEF TypeInv, TypeOK, Causal, history

LEMMA FetchType ==
    ASSUME TypeInv, NEW r \in Runners, NEW private \in SUBSET Posts,
           Answered(r, private), faults' \in Nat
    PROVE  TypeInv'
  <1> USE JobFields
  <1>1. Page(r) \subseteq Published /\ Page(r) \subseteq Posts /\ Cardinality(Page(r)) \in Nat
    BY PageType, TimelineType, CollectionAssumption DEF Page
  <1> DEFINE j == [job[r] EXCEPT !.pc = "response", !.page = Page(r), !.private = private,
                                 !.own = job[r].own + Cardinality(Page(r))]
  <1>2. j \in Job
    BY <1>1, FetchedJob, Zenon
  <1>3. j.page = Page(r) /\ j.inserts = job[r].inserts /\ j.due = job[r].due
    BY DEF Job
  <1>4. job' = [job EXCEPT ![r] = j] BY DEF Answered
  <1> HIDE DEF j
  <1>5. UNCHANGED <<now, postedAt, postVars, spent, budget, last, lastSweep, history>>
    BY DEF Answered
  <1>6. billed' \in Nat
    BY <1>1 DEF Answered, TypeInv, TypeOK
  <1> QED
    BY <1>1, <1>2, <1>3, <1>4, <1>5, <1>6, OwnJob DEF TypeInv, TypeOK, Causal, history

LEMMA WriteType ==
    ASSUME TypeInv, NEW r \in Runners, WriteDiscover(r) \/ WriteMetrics(r)
    PROVE  TypeInv'
  <1> USE JobFields
  <1>1. CASE WriteDiscover(r)
    <2> DEFINE more == MorePages(job[r])
               new  == {NewSnapshot(p, job[r].private, FALSE) : p \in NewPosts(job[r])}
               j == [job[r] EXCEPT !.pc      = IF more THEN "request" ELSE "commit",
                                   !.status  = IF more THEN "running" ELSE "succeeded",
                                   !.cursor  = IF more THEN job[r].page ELSE {},
                                   !.pages   = job[r].pages + 1,
                                   !.page    = {},
                                   !.private = {},
                                   !.inserts = job[r].inserts \cup new]
    <2>1. /\ new \subseteq Snapshot
          /\ \A s \in new : s.post \in job[r].page
      BY DiscoveredRows
    <2>2. job' = [job EXCEPT ![r] = j]
      BY <1>1 DEF WriteDiscover
    <2>3. j \in Job
      <3>1. more \in BOOLEAN BY DEF MorePages
      <3>2. job[r].inserts \cup new \in SUBSET Snapshot
        BY <2>1 DEF Job
      <3> HIDE DEF more, new
      <3> QED BY <3>1, <3>2, DiscoveredJob, Zenon
    <2> HIDE DEF more, new
    <2>4. j.page = {} /\ j.inserts = job[r].inserts \cup new /\ j.due = job[r].due
      BY DEF Job
    <2> HIDE DEF j
    <2>5. UNCHANGED <<now, postedAt, billed, postVars, spent, budget, last, lastSweep, history, faults>>
      BY <1>1 DEF WriteDiscover, xVars, history
    <2> QED
      BY <2>1, <2>2, <2>3, <2>4, <2>5, OwnJob DEF TypeInv, TypeOK, Causal, history
  <1>2. CASE WriteMetrics(r)
    <2> DEFINE work == {d \in Served(job[r].due) : d.post \in job[r].page}
               ins  == ToInsert(work, job[r].private)
               fl   == ToFlag(work)
               j == [job[r] EXCEPT !.pc = "commit",
                                   !.status = IF work = job[r].due THEN "succeeded"
                                              ELSE "partial",
                                   !.page = {}, !.private = {},
                                   !.inserts = ins, !.flags = fl]
    <2>1. work \subseteq job[r].due /\ \A d \in work : d.post \in job[r].page
      BY DEF Served
    <2>2. job' = [job EXCEPT ![r] = j]
      BY <1>2 DEF WriteMetrics
    <2> HIDE DEF work
    <2>3. /\ ins \subseteq Snapshot /\ fl \subseteq snaps
          /\ \A s \in ins : s.post \in job[r].page
      BY <2>1, InsertedRows, FlaggedRows
    <2> HIDE DEF ins, fl
    <2>4. j \in Job
      <3>1. (IF work = job[r].due THEN "succeeded" ELSE "partial") \in Statuses
        BY DEF Statuses
      <3>2. ins \in SUBSET Snapshot /\ fl \in SUBSET Snapshot
        BY <2>3 DEF TypeInv, TypeOK
      <3> QED BY <3>1, <3>2, MeasuredJob, Zenon
    <2>5. j.page = {} /\ j.inserts = ins /\ j.due = job[r].due
      BY DEF Job
    <2> HIDE DEF j
    <2>6. UNCHANGED <<now, postedAt, billed, postVars, spent, budget, last, lastSweep, history, faults>>
      BY <1>2 DEF WriteMetrics, xVars, history
    <2> QED
      BY <2>2, <2>3, <2>4, <2>5, <2>6, OwnJob DEF TypeInv, TypeOK, Causal, history
  <1> QED BY <1>1, <1>2

LEMMA MissedType ==
    ASSUME TypeInv, NEW j, NEW done
    PROVE  MissedAfter(j, done) \in [Posts -> Nat]
  BY DEF MissedAfter, TypeInv, TypeOK

LEMMA CommitType ==
    ASSUME TypeInv, NEW r \in Runners, Commit(r)
    PROVE  TypeInv'
  <1> USE JobFields
  <1> DEFINE j == job[r]
  <1>0. /\ j.inserts \subseteq Snapshot /\ j.flags \subseteq Snapshot
        /\ j.own \in Nat /\ j.status \in Statuses
        /\ j.task \in {"none", "metrics", "discover"}
        /\ \A s \in j.inserts : s.post \in Published
    BY DEF Job, TypeInv, Causal
  <1>1. snaps' \subseteq Snapshot
    <2>1. Marked(j.flags) \subseteq Snapshot
      BY <1>0 DEF Marked, Snapshot
    <2> QED BY <1>0, <2>1 DEF Commit, TypeInv, TypeOK
  <1>2. firstSeen' \in [Posts -> Times \cup {None}]
    <2>1. \A p \in Posts : (\E s \in j.inserts : s.post = p)
              => (CHOOSE s \in j.inserts : s.post = p).at \in Times
      BY <1>0 DEF Snapshot
    <2> QED BY <2>1 DEF Commit, FirstSeenAfter, TypeInv, TypeOK
  <1>3. closed' \in [Posts -> BOOLEAN] /\ everImp' \in [Posts -> BOOLEAN]
    BY DEF Commit, ClosedAfter, EverImpAfter
  <1>4. frozenAt' \in [Posts -> Times \cup {None}]
    <2>1. \A p \in Posts : FreezeRows(j, p) # {}
              => (CHOOSE s \in FreezeRows(j, p) : TRUE).at \in Times
      BY <1>0 DEF FreezeRows, Snapshot
    <2> QED BY <2>1 DEF Commit, FrozenAfter, TypeInv, TypeOK
  <1>5. spent' \in Nat
    BY <1>0 DEF Commit, SpentAfter, TypeInv, TypeOK
  <1>6. last' \in [Runners -> RunRow]
    BY <1>0 DEF Commit, RunRow, TypeInv, TypeOK
  <1>7. missed' \in [Posts -> Nat]
    BY MissedType DEF Commit
  <1>8. job' = [job EXCEPT ![r] = NoJob] /\ UNCHANGED <<now, postedAt, billed, budget, lastSweep, faults, unrecorded>>
    BY DEF Commit, xVars
  <1>9. TypeOK'
    <2>1. job' \in [Runners -> Job]
      BY <1>8 DEF TypeInv, TypeOK
    <2> QED
      BY <1>1, <1>2, <1>3, <1>4, <1>5, <1>6, <1>7, <1>8, <2>1
         DEF TypeInv, TypeOK
  <1>10. Published' = Published
    BY <1>8 DEF Published
  <1>11. Known \subseteq Known' /\ Known' \subseteq Published
    <2>1. \A p \in Posts : firstSeen'[p] # None
             => firstSeen[p] # None \/ \E s \in j.inserts : s.post = p
      BY DEF Commit, FirstSeenAfter
    <2>2. \A p \in Posts : (\E s \in j.inserts : s.post = p)
              => (CHOOSE s \in j.inserts : s.post = p).at \in Times
      BY <1>0 DEF Snapshot
    <2>3. \A p \in Posts : firstSeen[p] # None => firstSeen'[p] # None
      BY <2>2, NoneIsNoTime DEF Commit, FirstSeenAfter, Times
    <2> QED BY <1>0, <2>1, <2>3 DEF Known, TypeInv, Causal
  <1>12. Causal'
    <2>1. \A q \in Runners : job'[q] = IF q = r THEN NoJob ELSE job[q]
      BY <1>8 DEF TypeInv, TypeOK
    <2>2. NoJob.page = {} /\ NoJob.inserts = {} /\ NoJob.due = {}
      BY DEF NoJob
    <2> QED
      BY <1>8, <1>10, <1>11, <2>1, <2>2 DEF Causal, TypeInv
  <1> QED BY <1>9, <1>12 DEF TypeInv

LEMMA RollBackType ==
    ASSUME TypeInv, NEW r \in Runners, RollBack(r), faults' \in Nat
    PROVE  TypeInv'
  <1> USE JobFields
  <1>1. NoJob.page = {} /\ NoJob.inserts = {} /\ NoJob.due = {}
    BY DEF NoJob
  <1>2. last' \in [Runners -> RunRow]
    <2>1. [NoRun EXCEPT !.task = job[r].task, !.status = "lost",
                        !.freezes = Freezes(job[r])] \in RunRow
      BY DEF NoRun, RunRow, Job
    <2> QED BY <2>1 DEF RollBack, TypeInv, TypeOK
  <1>3. missed' \in [Posts -> Nat] /\ unrecorded' \in Nat
    BY MissedType DEF RollBack, Job, TypeInv, TypeOK
  <1> QED
    BY <1>1, <1>2, <1>3, OwnJob DEF RollBack, xVars, history, TypeInv, TypeOK

LEMMA EnvironmentType ==
    ASSUME TypeInv, Tick \/ Publish
    PROVE  TypeInv'
  <1>1. CASE Tick
    <2>1. TypeOK' /\ now' = now + 1
      BY <1>1 DEF Tick, TypeInv, TypeOK, xVars, history, postVars, Times
    <2>2. Causal'
      BY <1>1, <2>1, NoneIsNoTime
         DEF Tick, TypeInv, TypeOK, Causal, xVars, history, postVars, Times, Known, Published
    <2> QED BY <2>1, <2>2 DEF TypeInv
  <1>2. CASE Publish
    <2>1. PICK p \in Posts : postedAt[p] = None /\ postedAt' = [postedAt EXCEPT ![p] = now]
      BY <1>2 DEF Publish
    <2>2. UNCHANGED <<now, billed, postVars, spent, budget, job, last, lastSweep, faults, history>>
      BY <1>2 DEF Publish
    <2>3. TypeOK'
      BY <2>1, <2>2 DEF TypeInv, TypeOK, postVars, history
    <2>4. Published \subseteq Published' /\ Known' = Known
      BY <2>1, <2>2, NoneIsNoTime
         DEF TypeInv, TypeOK, Published, Known, postVars, Times
    <2>5. Causal'
      BY <2>1, <2>2, <2>4 DEF TypeInv, TypeOK, Causal, Times
    <2> QED BY <2>3, <2>5 DEF TypeInv
  <1> QED BY <1>1, <1>2

LEMMA TypeStep == TypeInv /\ [Next]_vars => TypeInv'
  <1> SUFFICES ASSUME TypeInv, [Next]_vars PROVE TypeInv'
    OBVIOUS
  <1>1. CASE Tick \/ Publish BY <1>1, EnvironmentType
  <1>2. ASSUME NEW r \in Runners, RunnerStep(r) PROVE TypeInv'
    <2>1. CASE StartMetrics(r) \/ StartDiscover(r) BY <2>1, StartType
    <2>2. CASE Refused(r) \/ RateLimited(r) \/ RequestFails(r) BY <2>2, RequestType
    <2>3. CASE Fetch(r) \/ FetchWithheld(r)
      <3>1. PICK private \in SUBSET Posts : Answered(r, private)
        <4>1. Page(r) \subseteq Posts
          BY PageType, TimelineType, CollectionAssumption DEF Page
        <4> QED BY <2>3, <4>1 DEF Fetch, FetchWithheld
      <3>2. faults' \in Nat BY <2>3 DEF Fetch, FetchWithheld, TypeInv, TypeOK
      <3> QED BY <3>1, <3>2, FetchType
    <2>4. CASE WriteDiscover(r) \/ WriteMetrics(r) BY <2>4, WriteType
    <2>5. CASE Commit(r) BY <2>5, CommitType
    <2>6. CASE Conflict(r) \/ Crash(r)
      <3>1. RollBack(r) /\ faults' \in Nat
        BY <2>6 DEF Conflict, Crash, TypeInv, TypeOK
      <3> QED BY <3>1, RollBackType
    <2> QED BY <1>2, <2>1, <2>2, <2>3, <2>4, <2>5, <2>6 DEF RunnerStep
  <1>3. CASE UNCHANGED vars
    BY <1>3 DEF vars, xVars, history, postVars, TypeInv, TypeOK, Causal, Known, Published
  <1> QED BY <1>1, <1>2, <1>3 DEF Next

(* The collector keeps its rows well formed, and never knows, stages or owes *)
(* a post that was not published before.                                     *)
THEOREM Typing == Spec => []TypeInv
  BY InitTypeInv, TypeStep, PTL DEF Spec

THEOREM TypeCorrect == Spec => []TypeOK
  <1>1. TypeInv => TypeOK BY DEF TypeInv
  <1> QED BY <1>1, Typing, PTL

-----------------------------------------------------------------------------
(* The two tables agree                                                      *)

(* A row staged to be marked is still there, with the same content; another  *)
(* run may have marked it meanwhile.                                         *)
FlagsStand ==
    \A r \in Runners : \A s \in job[r].flags :
        \E t \in snaps : t.post = s.post /\ t.at = s.at /\ t.imp = s.imp

(* A run about to report success has a freeze row for every freeze it owes,  *)
(* unless somebody else froze the post.                                      *)
SuccessEarned ==
    \A r \in Runners :
        /\ job[r].pc # "commit" => job[r].status = "running"
        /\ job[r].task = "discover" => job[r].due = {}
        /\ job[r].status = "succeeded" =>
              \A p \in Freezes(job[r]) :
                  frozenAt[p] # None \/ FreezeRows(job[r], p) # {}

MarksInv == FreezeMarksAgree /\ EverImpIsTrue /\ FlagsStand
            /\ SuccessEarned /\ SucceededFroze

LEMMA InitMarks == Init => MarksInv
  BY DEF Init, MarksInv, FreezeMarksAgree, EverImpIsTrue, FlagsStand,
         SuccessEarned, SucceededFroze, NoJob, NoRun

(* A step that leaves the rows of posts alone and rewrites one job.          *)
LEMMA MarksOwnJob ==
    ASSUME TypeInv, MarksInv, NEW r \in Runners, NEW j,
           job' = [job EXCEPT ![r] = j], UNCHANGED postVars,
           \A s \in j.flags : s \in job[r].flags \/ s \in snaps,
           j.pc # "commit" => j.status = "running",
           j.task = "discover" => j.due = {},
           j.status = "succeeded" =>
              \A p \in Freezes(j) : frozenAt[p] # None \/ FreezeRows(j, p) # {},
           \A q \in Runners : last'[q] = last[q] \/ last'[q].status # "succeeded"
    PROVE  MarksInv'
  <1>1. \A q \in Runners : job'[q] = IF q = r THEN j ELSE job[q]
    BY DEF TypeInv, TypeOK
  <1>2. FreezeMarksAgree' /\ EverImpIsTrue'
    BY DEF MarksInv, FreezeMarksAgree, EverImpIsTrue, postVars
  <1>3. FlagsStand'
    <2> SUFFICES ASSUME NEW q \in Runners, NEW s \in job'[q].flags
                 PROVE  \E t \in snaps : t.post = s.post /\ t.at = s.at /\ t.imp = s.imp
      BY DEF FlagsStand, postVars
    <2>1. s \in job[q].flags \/ s \in snaps BY <1>1
    <2> QED BY <2>1 DEF MarksInv, FlagsStand
  <1>4. SuccessEarned'
    <2> SUFFICES ASSUME NEW q \in Runners
                 PROVE  /\ job'[q].pc # "commit" => job'[q].status = "running"
                        /\ job'[q].task = "discover" => job'[q].due = {}
                        /\ job'[q].status = "succeeded" =>
                             \A p \in Freezes(job'[q]) :
                               frozenAt[p] # None \/ FreezeRows(job'[q], p) # {}
      BY DEF SuccessEarned, postVars, Freezes, FreezeRows
    <2>1. CASE q = r BY <1>1, <2>1
    <2>2. CASE q # r
      <3>1. job'[q] = job[q] BY <1>1, <2>2
      <3> QED BY <3>1 DEF MarksInv, SuccessEarned
    <2> QED BY <2>1, <2>2
  <1>5. SucceededFroze'
    BY DEF MarksInv, SucceededFroze, postVars
  <1> QED BY <1>2, <1>3, <1>4, <1>5 DEF MarksInv

(* What commit does to the rows of a post.                                   *)
LEMMA CommitRows ==
    ASSUME TypeInv, NEW r \in Runners, Commit(r)
    PROVE  /\ \A s \in snaps : \E t \in snaps' :
                 /\ t.post = s.post /\ t.at = s.at /\ t.imp = s.imp
                 /\ s.freeze => t.freeze
           /\ \A t \in snaps' :
                 \/ t \in snaps
                 \/ t \in job[r].inserts
                 \/ \E s \in job[r].flags :
                       t.post = s.post /\ t.at = s.at /\ t.imp = s.imp /\ t.freeze
           /\ \A s \in job[r].flags : \E t \in snaps' :
                 t.post = s.post /\ t.at = s.at /\ t.imp = s.imp /\ t.freeze
           /\ job[r].inserts \subseteq snaps'
  <1> DEFINE flags == job[r].flags
             mark(s) == [s EXCEPT !.freeze = TRUE]
  <1>1. snaps' = (snaps \ flags) \cup Marked(flags) \cup job[r].inserts
    BY DEF Commit
  <1>2. flags \subseteq Snapshot /\ snaps \subseteq Snapshot
    BY DEF TypeInv, TypeOK, Job
  <1>3. \A s \in flags : /\ mark(s) \in Marked(flags)
                         /\ mark(s).post = s.post /\ mark(s).at = s.at
                         /\ mark(s).imp = s.imp /\ mark(s).freeze
    BY <1>2 DEF Marked, Snapshot
  <1>4. \A t \in Marked(flags) : \E s \in flags : t = mark(s)
    BY DEF Marked
  <1> HIDE DEF mark
  <1>5. \A s \in snaps : \E t \in snaps' :
           /\ t.post = s.post /\ t.at = s.at /\ t.imp = s.imp
           /\ s.freeze => t.freeze
    BY <1>1, <1>3
  <1>6. \A t \in snaps' :
           \/ t \in snaps
           \/ t \in job[r].inserts
           \/ \E s \in flags :
                 t.post = s.post /\ t.at = s.at /\ t.imp = s.imp /\ t.freeze
    BY <1>1, <1>3, <1>4
  <1> QED BY <1>1, <1>3, <1>5, <1>6

LEMMA CommitMarks ==
    ASSUME TypeInv, MarksInv, NEW r \in Runners, Commit(r)
    PROVE  MarksInv'
  <1> DEFINE j == job[r]
  <1>0. /\ j.inserts \subseteq Snapshot /\ j.flags \subseteq Snapshot
        /\ \A q \in Runners : job'[q] = IF q = r THEN NoJob ELSE job[q]
    BY DEF Commit, TypeInv, TypeOK, Job
  <1>1. \A p \in Posts :
           \/ FreezeRows(j, p) = {} /\ frozenAt'[p] = frozenAt[p]
           \/ \E c \in FreezeRows(j, p) : frozenAt'[p] = c.at /\ c.at # None
    <2>1. \A p \in Posts : \A c \in FreezeRows(j, p) : c.at # None
      BY <1>0, NoneIsNoTime DEF FreezeRows, Snapshot, Times
    <2> QED BY <2>1 DEF Commit, FrozenAfter
  <1>2. FreezeMarksAgree'
    <2> SUFFICES ASSUME NEW p \in Posts
                 PROVE  /\ frozenAt'[p] # None =>
                              \E s \in snaps' : s.post = p /\ s.freeze /\ s.at = frozenAt'[p]
                        /\ frozenAt'[p] = None => \A s \in snaps' : s.post = p => ~s.freeze
      BY DEF FreezeMarksAgree
    <2>1. CASE FreezeRows(j, p) = {} /\ frozenAt'[p] = frozenAt[p]
      <3>1. \A s \in j.flags : s.post # p
        BY <2>1 DEF FreezeRows
      <3>2. \A s \in j.inserts : s.post = p => ~s.freeze
        BY <2>1 DEF FreezeRows
      <3>3. frozenAt[p] # None =>
               \E s \in snaps : s.post = p /\ s.freeze /\ s.at = frozenAt[p]
        BY DEF MarksInv, FreezeMarksAgree
      <3>4. frozenAt[p] = None => \A s \in snaps : s.post = p => ~s.freeze
        BY DEF MarksInv, FreezeMarksAgree
      <3>5. frozenAt[p] # None =>
               \E s \in snaps' : s.post = p /\ s.freeze /\ s.at = frozenAt[p]
        BY <3>3, CommitRows
      <3>6. frozenAt[p] = None => \A s \in snaps' : s.post = p => ~s.freeze
        BY <3>1, <3>2, <3>4, CommitRows
      <3> QED BY <2>1, <3>5, <3>6
    <2>2. ASSUME NEW c \in FreezeRows(j, p), frozenAt'[p] = c.at, c.at # None
          PROVE  \E s \in snaps' : s.post = p /\ s.freeze /\ s.at = frozenAt'[p]
      <3>1. c.post = p /\ (c \in j.flags \/ (c \in j.inserts /\ c.freeze))
        BY DEF FreezeRows
      <3> QED BY <2>2, <3>1, CommitRows
    <2> QED BY <1>1, <2>1, <2>2
  <1>3. EverImpIsTrue'
    <2> SUFFICES ASSUME NEW p \in Posts
                 PROVE  everImp'[p] <=> \E s \in snaps' : s.post = p /\ s.imp
      BY DEF EverImpIsTrue
    <2>1. everImp'[p] <=> (everImp[p] \/ \E s \in j.inserts : s.post = p /\ s.imp)
      BY DEF Commit, EverImpAfter
    <2>2. everImp[p] <=> \E s \in snaps : s.post = p /\ s.imp
      BY DEF MarksInv, EverImpIsTrue
    <2>3. ASSUME everImp'[p] PROVE \E s \in snaps' : s.post = p /\ s.imp
      BY <2>1, <2>2, <2>3, CommitRows
    <2>4. ASSUME NEW t \in snaps', t.post = p, t.imp PROVE everImp'[p]
      <3>1. CASE t \in snaps BY <2>1, <2>2, <2>4, <3>1
      <3>2. CASE t \in j.inserts BY <2>1, <2>4, <3>2
      <3>3. ASSUME NEW s \in j.flags, t.post = s.post, t.imp = s.imp PROVE everImp'[p]
        <4>1. \E u \in snaps : u.post = s.post /\ u.imp = s.imp
          BY DEF MarksInv, FlagsStand
        <4> QED BY <2>1, <2>2, <2>4, <3>3, <4>1
      <3> QED BY <3>1, <3>2, <3>3, CommitRows
    <2> QED BY <2>3, <2>4
  <1>4. FlagsStand'
    <2> SUFFICES ASSUME NEW q \in Runners, NEW s \in job'[q].flags
                 PROVE  \E t \in snaps' : t.post = s.post /\ t.at = s.at /\ t.imp = s.imp
      BY DEF FlagsStand
    <2>1. q # r /\ s \in job[q].flags BY <1>0 DEF NoJob
    <2>2. PICK u \in snaps : u.post = s.post /\ u.at = s.at /\ u.imp = s.imp
      BY <2>1 DEF MarksInv, FlagsStand
    <2> QED BY <2>2, CommitRows
  <1>5. \A p \in Posts : frozenAt[p] # None => frozenAt'[p] # None
    BY <1>1
  <1>6. SuccessEarned'
    <2> SUFFICES ASSUME NEW q \in Runners
                 PROVE  /\ job'[q].pc # "commit" => job'[q].status = "running"
                        /\ job'[q].task = "discover" => job'[q].due = {}
                        /\ job'[q].status = "succeeded" =>
                             \A p \in Freezes(job'[q]) :
                               frozenAt'[p] # None \/ FreezeRows(job'[q], p) # {}
      BY DEF SuccessEarned, Freezes, FreezeRows
    <2>1. CASE q = r BY <1>0, <2>1 DEF NoJob
    <2>2. CASE q # r
      <3>1. job'[q] = job[q] BY <1>0, <2>2
      <3>2. Freezes(job[q]) \subseteq Posts BY JobFields
      <3> QED BY <1>5, <3>1, <3>2 DEF MarksInv, SuccessEarned
    <2> QED BY <2>1, <2>2
  <1>7. SucceededFroze'
    <2> SUFFICES ASSUME NEW q \in Runners, last'[q].status = "succeeded",
                        NEW p \in last'[q].freezes
                 PROVE  frozenAt'[p] # None
      BY DEF SucceededFroze
    <2>1. CASE q = r
      <3>1. j.status = "succeeded" /\ p \in Freezes(j)
        BY <2>1 DEF Commit, TypeInv, TypeOK
      <3>2. p \in Posts BY <3>1, JobFields
      <3>3. frozenAt[p] # None \/ FreezeRows(j, p) # {}
        BY <3>1 DEF MarksInv, SuccessEarned
      <3> QED BY <1>1, <3>2, <3>3
    <2>2. CASE q # r
      <3>1. last'[q] = last[q] BY <2>2 DEF Commit, TypeInv, TypeOK
      <3>2. p \in Posts BY <3>1 DEF TypeInv, TypeOK, RunRow
      <3> QED BY <1>5, <3>1, <3>2 DEF MarksInv, SucceededFroze
    <2> QED BY <2>1, <2>2
  <1> QED BY <1>2, <1>3, <1>4, <1>6, <1>7 DEF MarksInv

(* Every freeze a run serves gets a row, or had one already.                 *)
LEMMA ServedFreeze ==
    ASSUME TypeInv, MarksInv, NEW r \in Runners,
           NEW work \in SUBSET job[r].due, NEW d \in work, d.freeze
    PROVE  \/ frozenAt[d.post] # None
           \/ \E s \in ToInsert(work, job[r].private) : s.post = d.post /\ s.freeze
           \/ \E s \in ToFlag(work) : s.post = d.post
  <1> DEFINE p == d.post
  <1>2. CASE Existing(p) = {}
    <2>1. NewSnapshot(p, job[r].private, d.freeze) \in ToInsert(work, job[r].private)
      BY <1>2 DEF ToInsert
    <2>2. NewSnapshot(p, job[r].private, d.freeze).post = p
          /\ NewSnapshot(p, job[r].private, d.freeze).freeze
      BY DEF NewSnapshot
    <2> QED BY <2>1, <2>2
  <1>3. CASE Existing(p) # {}
    <2>1. PICK s \in Existing(p) : TRUE BY <1>3
    <2>2. s \in snaps /\ s.post = p BY <2>1 DEF Existing
    <2>3. CASE s.freeze
      <3>1. p \in Posts BY DEF TypeInv, TypeOK, Job, Decision
      <3> QED BY <2>2, <2>3, <3>1 DEF MarksInv, FreezeMarksAgree
    <2>4. CASE ~s.freeze
      <3>1. s \in ToFlag(work) BY <2>1, <2>4 DEF ToFlag
      <3> QED BY <2>2, <3>1
    <2> QED BY <2>3, <2>4
  <1> QED BY <1>2, <1>3

LEMMA ServedFreezes ==
    ASSUME TypeInv, MarksInv, NEW r \in Runners,
           NEW work \in SUBSET job[r].due, work = job[r].due,
           NEW p \in Freezes(job[r])
    PROVE  \/ frozenAt[p] # None
           \/ \E s \in ToInsert(work, job[r].private) : s.post = p /\ s.freeze
           \/ \E s \in ToFlag(work) : s.post = p
  <1>1. PICK d \in work : d.freeze /\ d.post = p
    BY DEF Freezes
  <1> QED BY <1>1, ServedFreeze

LEMMA WriteMarks ==
    ASSUME TypeInv, MarksInv, NEW r \in Runners, WriteDiscover(r) \/ WriteMetrics(r)
    PROVE  MarksInv'
  <1> USE DEF Job
  <1>0. job[r] \in Job /\ UNCHANGED postVars /\ UNCHANGED last
    BY DEF WriteDiscover, WriteMetrics, TypeInv, TypeOK
  <1>1. CASE WriteDiscover(r)
    <2> DEFINE more == MorePages(job[r])
               ins  == job[r].inserts \cup
                         {NewSnapshot(p, job[r].private, FALSE) : p \in NewPosts(job[r])}
               j == [job[r] EXCEPT !.pc      = IF more THEN "request" ELSE "commit",
                                   !.status  = IF more THEN "running" ELSE "succeeded",
                                   !.cursor  = IF more THEN job[r].page ELSE {},
                                   !.pages   = job[r].pages + 1,
                                   !.page    = {},
                                   !.private = {},
                                   !.inserts = ins]
    <2>1. job' = [job EXCEPT ![r] = j]
      BY <1>1 DEF WriteDiscover
    <2>2. job[r].task = "discover" /\ job[r].due = {}
      BY <1>1 DEF WriteDiscover, MarksInv, SuccessEarned
    <2> HIDE DEF more, ins
    <2>3. /\ j.flags = job[r].flags /\ j.due = {}
          /\ j.pc # "commit" => j.status = "running"
      BY <1>0, <2>2
    <2> HIDE DEF j
    <2>4. Freezes(j) = {} BY <2>3 DEF Freezes
    <2> QED BY <1>0, <2>1, <2>3, <2>4, MarksOwnJob
  <1>2. CASE WriteMetrics(r)
    <2> DEFINE work == {d \in Served(job[r].due) : d.post \in job[r].page}
               ins  == ToInsert(work, job[r].private)
               fl   == ToFlag(work)
               j == [job[r] EXCEPT !.pc = "commit",
                                   !.status = IF work = job[r].due THEN "succeeded"
                                              ELSE "partial",
                                   !.page = {}, !.private = {},
                                   !.inserts = ins, !.flags = fl]
    <2>1. job' = [job EXCEPT ![r] = j] /\ job[r].task = "metrics"
      BY <1>2 DEF WriteMetrics
    <2>2. work \in SUBSET job[r].due
      BY DEF Served
    <2> HIDE DEF work
    <2>3. fl \subseteq snaps BY FlaggedRows
    <2>4. work = job[r].due => \A p \in Freezes(job[r]) :
               \/ frozenAt[p] # None
               \/ \E s \in ins : s.post = p /\ s.freeze
               \/ \E s \in fl : s.post = p
      BY <2>2, ServedFreezes
    <2> HIDE DEF ins, fl
    <2>5. /\ j.flags = fl /\ j.inserts = ins /\ j.due = job[r].due
          /\ j.pc = "commit" /\ j.task = "metrics"
          /\ j.status = "succeeded" => work = job[r].due
      BY <1>0, <2>1
    <2> HIDE DEF j
    <2>6. j.status = "succeeded" =>
             \A p \in Freezes(j) : frozenAt[p] # None \/ FreezeRows(j, p) # {}
      BY <2>4, <2>5 DEF Freezes, FreezeRows
    <2> QED BY <1>0, <2>1, <2>3, <2>5, <2>6, MarksOwnJob
  <1> QED BY <1>1, <1>2

LEMMA StartMarks ==
    ASSUME TypeInv, MarksInv, NEW r \in Runners, StartMetrics(r) \/ StartDiscover(r)
    PROVE  MarksInv'
  <1> DEFINE empty == PostsDue = {}
             jm == [NoJob EXCEPT !.pc = IF empty THEN "commit" ELSE "request",
                                 !.task = "metrics", !.started = now, !.due = PostsDue,
                                 !.status = IF empty THEN "skipped" ELSE "running"]
             jd == [NoJob EXCEPT !.pc = "request", !.task = "discover",
                                 !.started = now, !.watermark = Known]
  <1>1. \A q \in Runners : last'[q] = last[q] \/ last'[q].status # "succeeded"
    BY DEF StartMetrics, StartDiscover, NoRun, TypeInv, TypeOK
  <1>2. UNCHANGED postVars
    BY DEF StartMetrics, StartDiscover
  <1>3. CASE StartMetrics(r)
    <2>1. job' = [job EXCEPT ![r] = jm] BY <1>3 DEF StartMetrics
    <2>2. /\ jm.flags = {} /\ jm.task = "metrics"
          /\ jm.pc # "commit" => jm.status = "running"
          /\ jm.status # "succeeded"
      BY DEF NoJob
    <2> HIDE DEF jm
    <2> QED BY <1>1, <1>2, <2>1, <2>2, MarksOwnJob
  <1>4. CASE StartDiscover(r)
    <2>1. job' = [job EXCEPT ![r] = jd] BY <1>4 DEF StartDiscover
    <2>2. jd.flags = {} /\ jd.due = {} /\ jd.status = "running"
      BY DEF NoJob
    <2> HIDE DEF jd
    <2> QED BY <1>1, <1>2, <2>1, <2>2, MarksOwnJob
  <1> QED BY <1>3, <1>4

LEMMA RequestMarks ==
    ASSUME TypeInv, MarksInv, NEW r \in Runners,
           Refused(r) \/ RateLimited(r) \/ RequestFails(r)
    PROVE  MarksInv'
  <1> DEFINE j == IF RequestFails(r)
                  THEN [job[r] EXCEPT !.pc = "commit", !.status = "failed"]
                  ELSE Blocked(job[r])
  <1>1. job[r] \in Job /\ UNCHANGED postVars /\ UNCHANGED last
    BY DEF Refused, RateLimited, RequestFails, TypeInv, TypeOK
  <1>2. job' = [job EXCEPT ![r] = j]
    BY DEF Refused, RateLimited, RequestFails
  <1>3. /\ j.flags = job[r].flags /\ j.due = job[r].due /\ j.task = job[r].task
        /\ j.pc = "commit" /\ j.status # "succeeded"
    BY <1>1 DEF Blocked, Job
  <1> HIDE DEF j
  <1>4. j.task = "discover" => j.due = {}
    BY <1>3 DEF MarksInv, SuccessEarned
  <1> QED BY <1>1, <1>2, <1>3, <1>4, MarksOwnJob

LEMMA FetchMarks ==
    ASSUME TypeInv, MarksInv, NEW r \in Runners, NEW private, Answered(r, private)
    PROVE  MarksInv'
  <1> DEFINE j == [job[r] EXCEPT !.pc = "response", !.page = Page(r), !.private = private,
                                 !.own = job[r].own + Cardinality(Page(r))]
  <1>1. job[r] \in Job /\ UNCHANGED postVars /\ UNCHANGED last /\ job[r].pc = "request"
    BY DEF Answered, TypeInv, TypeOK
  <1>2. /\ j.flags = job[r].flags /\ j.due = job[r].due /\ j.task = job[r].task
        /\ j.status = job[r].status
    BY <1>1 DEF Job
  <1>3. job' = [job EXCEPT ![r] = j] BY DEF Answered
  <1> HIDE DEF j
  <1>4. job[r].status = "running" /\ (job[r].task = "discover" => job[r].due = {})
    BY <1>1 DEF MarksInv, SuccessEarned
  <1> QED BY <1>1, <1>2, <1>3, <1>4, MarksOwnJob

LEMMA RollBackMarks ==
    ASSUME TypeInv, MarksInv, NEW r \in Runners, RollBack(r)
    PROVE  MarksInv'
  <1>1. NoJob.flags = {} /\ NoJob.due = {} /\ NoJob.status = "running"
    BY DEF NoJob
  <1>2. \A q \in Runners : last'[q] = last[q] \/ last'[q].status # "succeeded"
    BY DEF RollBack, NoRun, TypeInv, TypeOK
  <1> QED BY <1>1, <1>2, MarksOwnJob DEF RollBack

LEMMA MarksStep == TypeInv /\ MarksInv /\ [Next]_vars => MarksInv'
  <1> SUFFICES ASSUME TypeInv, MarksInv, [Next]_vars PROVE MarksInv'
    OBVIOUS
  <1>1. CASE UNCHANGED <<postVars, job, last>>
    BY <1>1 DEF MarksInv, FreezeMarksAgree, EverImpIsTrue, FlagsStand,
                SuccessEarned, SucceededFroze, Freezes, FreezeRows, postVars
  <1>2. CASE Tick \/ Publish \/ UNCHANGED vars
    BY <1>1, <1>2 DEF Tick, Publish, vars
  <1>3. ASSUME NEW r \in Runners, RunnerStep(r) PROVE MarksInv'
    <2>1. CASE StartMetrics(r) \/ StartDiscover(r) BY <2>1, StartMarks
    <2>2. CASE Refused(r) \/ RateLimited(r) \/ RequestFails(r) BY <2>2, RequestMarks
    <2>3. CASE Fetch(r) \/ FetchWithheld(r)
      BY <2>3, FetchMarks DEF Fetch, FetchWithheld
    <2>4. CASE WriteDiscover(r) \/ WriteMetrics(r) BY <2>4, WriteMarks
    <2>5. CASE Commit(r) BY <2>5, CommitMarks
    <2>6. CASE Conflict(r) \/ Crash(r) BY <2>6, RollBackMarks DEF Conflict, Crash
    <2> QED BY <1>3, <2>1, <2>2, <2>3, <2>4, <2>5, <2>6 DEF RunnerStep
  <1> QED BY <1>2, <1>3 DEF Next

LEMMA MarksAlways == Spec => []MarksInv
  BY InitMarks, MarksStep, Typing, PTL DEF Spec

(* posts.final_freeze_at and the freeze-marked snapshot rows agree in every  *)
(* reachable state, whatever runs interleave, conflict, fail or crash.       *)
THEOREM FreezeMarksAlwaysAgree == Spec => []FreezeMarksAgree
  <1>1. MarksInv => FreezeMarksAgree BY DEF MarksInv
  <1> QED BY <1>1, MarksAlways, PTL

(* impressions_ever_collected is true exactly of the posts with a snapshot   *)
(* that has impressions.                                                     *)
THEOREM EverImpAlwaysTrue == Spec => []EverImpIsTrue
  <1>1. MarksInv => EverImpIsTrue BY DEF MarksInv
  <1> QED BY <1>1, MarksAlways, PTL

(* A metrics run that reports success left no owed freeze untaken.           *)
THEOREM SuccessMeansFrozen == Spec => []SucceededFroze
  <1>1. MarksInv => SucceededFroze BY DEF MarksInv
  <1> QED BY <1>1, MarksAlways, PTL

-----------------------------------------------------------------------------
(* The ledger                                                                *)

LEMMA LeastNatural ==
    ASSUME NEW T \in SUBSET Nat, T # {}
    PROVE  \E x \in T : \A y \in T : x <= y
  <1>1. PICK x \in T : \A y \in T : ~ (<<y, x>> \in OpToRel(<, Nat))
    BY WFMin, NatLessThanWellFounded
  <1>2. \A y \in T : ~ (y < x)
    BY <1>1 DEF OpToRel
  <1> QED BY <1>2

(* A page holds no more posts than were asked for.                           *)
LEMMA PageBound ==
    ASSUME NEW S \in SUBSET Posts, NEW n \in Nat
    PROVE  Cardinality(Newest(S, n)) <= n
  <1> DEFINE N == Newest(S, n)
  <1>0. N \subseteq S /\ IsFiniteSet(N) /\ Cardinality(N) \in Nat /\ S \subseteq Nat
    BY PageType DEF Posts
  <1>1. CASE N = {}
    BY <1>1, FS_EmptySet
  <1>2. CASE N # {}
    <2>1. PICK x \in N : \A y \in N : x <= y
      <3>1. N \in SUBSET Nat BY <1>0
      <3> QED BY <1>2, <3>1, LeastNatural
    <2> DEFINE newer == {q \in S : q > x}
    <2>2. Cardinality(newer) < n
      BY <2>1 DEF Newest
    <2>3. IsFiniteSet(newer) /\ Cardinality(newer) \in Nat
      <3>1. IsFiniteSet(Posts) BY FS_Interval, CollectionAssumption DEF Posts
      <3>2. newer \in SUBSET Posts OBVIOUS
      <3> QED BY <3>1, <3>2, FS_Subset, FS_CardinalityType
    <2>4. N \ {x} \in SUBSET newer
      <3>1. ASSUME NEW y \in N, y # x PROVE y \in S /\ y > x
        <4>1. x \in Nat /\ y \in Nat /\ x <= y BY <1>0, <2>1
        <4> HIDE DEF N
        <4> QED BY <1>0, <3>1, <4>1
      <3> HIDE DEF N
      <3> QED BY <3>1
    <2>5. Cardinality(N \ {x}) <= Cardinality(newer)
      BY <2>3, <2>4, FS_Subset
    <2>6. Cardinality(N \ {x}) = Cardinality(N) - 1
      BY <1>0, <2>1, FS_RemoveElement
    <2> QED BY <1>0, <2>2, <2>3, <2>5, <2>6
  <1> QED BY <1>1, <1>2

(* The rows of one runner among all.                                         *)
LEMMA RowsSplit ==
    ASSUME NEW own \in [Runners -> Nat], NEW r \in Runners
    PROVE  LET others == UNION {{q} \X (1 .. own[q]) : q \in Runners \ {r}}
           IN  /\ IsFiniteSet(others) /\ Cardinality(others) \in Nat
               /\ Cardinality(LedgerRows(own)) = Cardinality(others) + own[r]
  <1> DEFINE rows(q) == {q} \X (1 .. own[q])
             others == UNION {rows(q) : q \in Runners \ {r}}
             all == UNION {rows(q) : q \in Runners}
  <1>1. \A q \in Runners : IsFiniteSet(rows(q)) /\ Cardinality(rows(q)) = own[q]
    <2> TAKE q \in Runners
    <2>1. IsFiniteSet({q}) /\ Cardinality({q}) = 1 BY FS_Singleton
    <2>2. IsFiniteSet(1 .. own[q]) /\ Cardinality(1 .. own[q]) = own[q]
      BY FS_Interval
    <2> QED BY <2>1, <2>2, FS_Product
  <1>2. IsFiniteSet(others)
    <2> DEFINE m == Cardinality(Runners)
    <2>1. IsFiniteSet({rows(q) : q \in Runners \ {r}})
      <3> DEFINE f == [q \in Runners \ {r} |-> rows(q)]
      <3>1. f \in Surjection(Runners \ {r}, {rows(q) : q \in Runners \ {r}})
        BY DEF Surjection
      <3>2. IsFiniteSet(Runners \ {r})
        BY CollectionAssumption, FS_RemoveElement
      <3> QED BY <3>1, <3>2, FS_Surjection
    <2> QED BY <1>1, <2>1, FS_UNION
  <1>3. all = others \cup rows(r)
    OBVIOUS
  <1>4. others \cap rows(r) = {}
    OBVIOUS
  <1>5. Cardinality(others) \in Nat
    BY <1>2, FS_CardinalityType
  <1>6. Cardinality(all) = Cardinality(others) + own[r]
    <2>1. IsFiniteSet(rows(r)) /\ Cardinality(rows(r)) = own[r] BY <1>1
    <2> HIDE DEF rows, others, all
    <2>2. Cardinality(all) = Cardinality(others) + Cardinality(rows(r)) - 0
      BY <1>2, <1>3, <1>4, <2>1, FS_Union, FS_EmptySet
    <2> QED BY <1>5, <2>1, <2>2
  <1> QED BY <1>2, <1>5, <1>6 DEF LedgerRows

(* When every runner holds at most m rows, the others together hold at most  *)
(* m for each of them.                                                       *)
LEMMA RowsBound ==
    ASSUME NEW own \in [Runners -> Nat], NEW r \in Runners, NEW m \in Nat,
           \A q \in Runners : own[q] <= m
    PROVE  Cardinality(LedgerRows(own)) <= own[r] + (Cardinality(Runners) - 1) * m
  <1> DEFINE others == UNION {{q} \X (1 .. own[q]) : q \in Runners \ {r}}
             box == (Runners \ {r}) \X (1 .. m)
  <1>1. /\ IsFiniteSet(Runners \ {r})
        /\ Cardinality(Runners \ {r}) = Cardinality(Runners) - 1
        /\ Cardinality(Runners) \in Nat
    BY CollectionAssumption, FS_RemoveElement, FS_CardinalityType
  <1>2. IsFiniteSet(1 .. m) /\ Cardinality(1 .. m) = m
    BY FS_Interval
  <1>3. IsFiniteSet(box) /\ Cardinality(box) = (Cardinality(Runners) - 1) * m
    <2>1. /\ IsFiniteSet(box)
          /\ Cardinality(box) = Cardinality(Runners \ {r}) * Cardinality(1 .. m)
      BY <1>1, <1>2, FS_Product, Zenon
    <2>2. Cardinality(box) = (Cardinality(Runners) - 1) * m
      BY <1>1, <1>2, <2>1, Zenon
    <2> QED BY <2>1, <2>2
  <1>4. others \in SUBSET box
    OBVIOUS
  <1>5. Cardinality(others) <= Cardinality(box)
    BY <1>3, <1>4, FS_Subset
  <1>6. /\ Cardinality(others) \in Nat
        /\ Cardinality(LedgerRows(own)) = Cardinality(others) + own[r]
    BY RowsSplit
  <1>7. Cardinality(box) \in Nat
    BY <1>3, FS_CardinalityType
  <1> QED BY <1>3, <1>5, <1>6, <1>7

(* What a run holds in its transaction is bounded by the pages it has read,  *)
(* and it never starts a page beyond max_pages.                              *)
ReadsBounded(r) ==
    /\ job[r].pc = "idle" => job[r].own = 0
    /\ job[r].own <= MaxPages * PageSize
    /\ job[r].pc \in {"request", "response"} => job[r].pages < MaxPages
    /\ job[r].pc = "request" => job[r].own <= job[r].pages * PageSize
    /\ job[r].pc = "response" => job[r].own <= (job[r].pages + 1) * PageSize

(* The gate lets a page through only while the committed rows, the run's own *)
(* and the page fit the budget; the others may hold a full run each.         *)
GateInv == spent + InFlight <= budget + (Cardinality(Runners) - 1) * (MaxPages * PageSize)

LedgerInv == LedgerExplainsBill /\ GateInv /\ \A r \in Runners : ReadsBounded(r)

LEMMA Bounds ==
    /\ MaxPages * PageSize \in Nat
    /\ Cardinality(Runners) \in Nat /\ Cardinality(Runners) >= 1
    /\ (Cardinality(Runners) - 1) * (MaxPages * PageSize) \in Nat
    /\ \A k \in Nat : /\ k * PageSize \in Nat
                      /\ (k + 1) * PageSize = k * PageSize + PageSize
                      /\ k < MaxPages => (k + 1) * PageSize <= MaxPages * PageSize
  <1>1. \A a, b \in Nat : a * b \in Nat
    OBVIOUS
  <1>2. Cardinality(Runners) \in Nat /\ Cardinality(Runners) >= 1
    BY CollectionAssumption, FS_CardinalityType, FS_EmptySet
  <1>3. \A k \in Nat : k < MaxPages => (k + 1) * PageSize <= MaxPages * PageSize
    <2> TAKE k \in Nat
    <2> HAVE k < MaxPages
    <2>1. \A a, b, c \in Nat : a <= b => a * c <= b * c
      OBVIOUS
    <2> QED BY <2>1, CollectionAssumption
  <1>4. \A k \in Nat : (k + 1) * PageSize = k * PageSize + PageSize
    BY CollectionAssumption
  <1>5. MaxPages * PageSize \in Nat
    BY <1>1, CollectionAssumption
  <1>6. (Cardinality(Runners) - 1) * (MaxPages * PageSize) \in Nat
    <2>1. Cardinality(Runners) - 1 \in Nat BY <1>2
    <2> QED BY <1>1, <1>5, <2>1
  <1> QED BY <1>1, <1>2, <1>3, <1>4, <1>5, <1>6, CollectionAssumption

(* A step that rewrites the job of one runner moves the rows in flight by    *)
(* what it adds to that job.                                                 *)
LEMMA InFlightStep ==
    ASSUME TypeInv, NEW r \in Runners, NEW j \in Job,
           job' = [job EXCEPT ![r] = j]
    PROVE  /\ InFlight \in Nat /\ InFlight' \in Nat
           /\ InFlight' = InFlight - job[r].own + j.own
           /\ job[r].own <= InFlight
  <1> DEFINE own == [q \in Runners |-> job[q].own]
             new == [q \in Runners |-> job'[q].own]
             others == UNION {{q} \X (1 .. own[q]) : q \in Runners \ {r}}
             othersNew == UNION {{q} \X (1 .. new[q]) : q \in Runners \ {r}}
  <1>1. own \in [Runners -> Nat] /\ own[r] = job[r].own
    BY DEF TypeInv, TypeOK, Job
  <1>2. \A q \in Runners : job'[q] = IF q = r THEN j ELSE job[q]
    BY DEF TypeInv, TypeOK
  <1>3. new \in [Runners -> Nat] /\ new[r] = j.own
    BY <1>1, <1>2 DEF Job
  <1>4. \A q \in Runners \ {r} : new[q] = own[q]
    BY <1>2
  <1>5. InFlight = Cardinality(LedgerRows(own)) /\ InFlight' = Cardinality(LedgerRows(new))
    BY DEF InFlight
  <1> HIDE DEF own, new
  <1>6. othersNew = others
    BY <1>4
  <1>7. /\ Cardinality(others) \in Nat
        /\ Cardinality(LedgerRows(own)) = Cardinality(others) + own[r]
    BY <1>1, RowsSplit
  <1>8. Cardinality(LedgerRows(new)) = Cardinality(othersNew) + new[r]
    BY <1>3, RowsSplit
  <1> HIDE DEF others, othersNew
  <1>9. own[r] \in Nat /\ new[r] \in Nat BY <1>1, <1>3
  <1> QED BY <1>1, <1>3, <1>5, <1>6, <1>7, <1>8, <1>9

LEMMA InFlightBound ==
    ASSUME TypeInv, LedgerInv, NEW r \in Runners
    PROVE  InFlight <= job[r].own + (Cardinality(Runners) - 1) * (MaxPages * PageSize)
  <1> DEFINE own == [q \in Runners |-> job[q].own]
             m == MaxPages * PageSize
  <1>1. own \in [Runners -> Nat] /\ own[r] = job[r].own
    BY DEF TypeInv, TypeOK, Job
  <1>2. m \in Nat BY Bounds
  <1>3. \A q \in Runners : own[q] <= m
    BY DEF LedgerInv, ReadsBounded
  <1>4. InFlight = Cardinality(LedgerRows(own)) BY DEF InFlight
  <1> HIDE DEF own, m
  <1>5. Cardinality(LedgerRows(own)) <= own[r] + (Cardinality(Runners) - 1) * m
    BY <1>1, <1>2, <1>3, RowsBound
  <1> QED BY <1>1, <1>4, <1>5 DEF m

LEMMA InitLedger == Init => LedgerInv
  <1> SUFFICES ASSUME Init PROVE LedgerInv
    OBVIOUS
  <1>1. \A q \in Runners : job[q].own = 0 /\ job[q].pc = "idle"
    BY DEF Init, NoJob
  <1>2. InFlight = 0
    <2>1. [q \in Runners |-> job[q].own] = [q \in Runners |-> 0]
      BY <1>1
    <2>2. LedgerRows([q \in Runners |-> 0]) = {}
      BY DEF LedgerRows
    <2> QED BY <2>1, <2>2, FS_EmptySet DEF InFlight
  <1>3. budget \in Nat /\ spent = 0 /\ billed = 0 /\ unrecorded = 0
    BY CollectionAssumption DEF Init
  <1> QED BY <1>1, <1>2, <1>3, Bounds
         DEF LedgerInv, LedgerExplainsBill, GateInv, ReadsBounded

(* A step of runner r that makes its job j: every resource it is billed for  *)
(* moves between the places that explain the bill, and the step adds to the  *)
(* ledger only what the gate let through.                                    *)
Balanced(r, j) ==
    /\ billed' \in Nat /\ spent' \in Nat /\ unrecorded' \in Nat /\ budget' = budget
    /\ billed' - billed = (spent' - spent) + (j.own - job[r].own)
                          + (unrecorded' - unrecorded)
    /\ \/ (spent' - spent) + (j.own - job[r].own) <= 0
       \/ spent' + j.own <= budget

LEMMA LedgerOwnJob ==
    ASSUME TypeInv, LedgerInv, NEW r \in Runners, NEW j \in Job,
           job' = [job EXCEPT ![r] = j], Balanced(r, j), ReadsBounded(r)'
    PROVE  LedgerInv'
  <1> DEFINE m == MaxPages * PageSize
             n == (Cardinality(Runners) - 1) * m
  <1>1. /\ billed \in Nat /\ spent \in Nat /\ unrecorded \in Nat /\ budget \in Nat
        /\ job[r].own \in Nat /\ j.own \in Nat /\ n \in Nat
    BY Bounds DEF TypeInv, TypeOK, Job
  <1>2. /\ InFlight \in Nat /\ InFlight' \in Nat
        /\ InFlight' = InFlight - job[r].own + j.own
    BY InFlightStep
  <1>3. LedgerExplainsBill'
    BY <1>1, <1>2 DEF LedgerInv, LedgerExplainsBill, Balanced
  <1>4. GateInv'
    <2> SUFFICES spent' + InFlight' <= budget + n
      BY DEF GateInv, Balanced
    <2>1. spent + InFlight <= budget + n
      BY DEF LedgerInv, GateInv
    <2>2. InFlight <= job[r].own + n
      BY InFlightBound
    <2> HIDE DEF n
    <2> QED BY <1>1, <1>2, <2>1, <2>2 DEF Balanced
  <1>5. \A q \in Runners : ReadsBounded(q)'
    <2> TAKE q \in Runners
    <2>1. CASE q = r BY <2>1
    <2>2. CASE q # r
      <3>1. job'[q] = job[q] BY <2>2 DEF TypeInv, TypeOK
      <3> QED BY <3>1 DEF LedgerInv, ReadsBounded
    <2> QED BY <2>1, <2>2
  <1> QED BY <1>3, <1>4, <1>5 DEF LedgerInv

LEMMA StartLedger ==
    ASSUME TypeInv, LedgerInv, NEW r \in Runners, StartMetrics(r) \/ StartDiscover(r)
    PROVE  LedgerInv'
  <1> DEFINE j == job'[r]
  <1>1. TypeInv' BY StartType
  <1>2. job' = [job EXCEPT ![r] = j] /\ j \in Job
    <2>1. j \in Job BY <1>1 DEF TypeInv, TypeOK
    <2> QED BY <2>1 DEF StartMetrics, StartDiscover, TypeInv, TypeOK
  <1>3. j.own = 0 /\ j.pages = 0 /\ j.pc \in {"request", "commit"}
    <2>1. CASE StartMetrics(r)
      <3> DEFINE empty == PostsDue = {}
                 due == PostsDue
                 k == [NoJob EXCEPT !.pc = IF empty THEN "commit" ELSE "request",
                                    !.task = "metrics", !.started = now, !.due = due,
                                    !.status = IF empty THEN "skipped" ELSE "running"]
      <3>1. j = k BY <2>1 DEF StartMetrics, TypeInv, TypeOK
      <3> HIDE DEF empty, due, j
      <3> QED BY <3>1 DEF NoJob
    <2>2. CASE StartDiscover(r)
      BY <2>2 DEF StartDiscover, NoJob, TypeInv, TypeOK
    <2> QED BY <2>1, <2>2
  <1>4. job[r].own = 0
    BY DEF StartMetrics, StartDiscover, LedgerInv, ReadsBounded
  <1>5. UNCHANGED <<billed, spent, unrecorded, budget>>
    BY DEF StartMetrics, StartDiscover, xVars, history
  <1>6. ReadsBounded(r)'
    BY <1>3, Bounds, CollectionAssumption DEF ReadsBounded
  <1> HIDE DEF j
  <1>7. billed \in Nat /\ spent \in Nat /\ unrecorded \in Nat
    BY DEF TypeInv, TypeOK
  <1>8. Balanced(r, j) BY <1>3, <1>4, <1>5, <1>7 DEF Balanced
  <1> QED BY <1>2, <1>6, <1>8, LedgerOwnJob

LEMMA RequestLedger ==
    ASSUME TypeInv, LedgerInv, NEW r \in Runners,
           Refused(r) \/ RateLimited(r) \/ RequestFails(r)
    PROVE  LedgerInv'
  <1> DEFINE j == job'[r]
  <1>1. TypeInv' BY RequestType
  <1>2. job' = [job EXCEPT ![r] = j] /\ j \in Job
    <2>1. j \in Job BY <1>1 DEF TypeInv, TypeOK
    <2> QED BY <2>1 DEF Refused, RateLimited, RequestFails, TypeInv, TypeOK
  <1>3. j.own = job[r].own /\ j.pc = "commit"
    <2>1. job[r] \in Job BY DEF TypeInv, TypeOK
    <2>2. CASE RequestFails(r)
      BY <2>1, <2>2 DEF RequestFails, Job, TypeInv, TypeOK
    <2>3. CASE Refused(r) \/ RateLimited(r)
      <3>1. j = Blocked(job[r]) BY <2>3 DEF Refused, RateLimited, TypeInv, TypeOK
      <3>2. Blocked(job[r]).own = job[r].own /\ Blocked(job[r]).pc = "commit"
        BY <2>1 DEF Blocked, Job
      <3> QED BY <3>1, <3>2
    <2> QED BY <2>2, <2>3
  <1>5. UNCHANGED <<billed, spent, unrecorded, budget>>
    BY DEF Refused, RateLimited, RequestFails, xVars, history
  <1>6. ReadsBounded(r)'
    BY <1>3 DEF ReadsBounded, LedgerInv
  <1>7. billed \in Nat /\ spent \in Nat /\ unrecorded \in Nat /\ job[r].own \in Nat
    BY DEF TypeInv, TypeOK, Job
  <1> HIDE DEF j
  <1>8. Balanced(r, j) BY <1>3, <1>5, <1>7 DEF Balanced
  <1> QED BY <1>2, <1>6, <1>8, LedgerOwnJob

LEMMA FetchLedger ==
    ASSUME TypeInv, LedgerInv, NEW r \in Runners, NEW private \in SUBSET Posts,
           Answered(r, private), faults' \in Nat
    PROVE  LedgerInv'
  <1> DEFINE j == job'[r]
             n == Cardinality(Page(r))
  <1>1. TypeInv' BY FetchType
  <1>2. job' = [job EXCEPT ![r] = j] /\ j \in Job
    <2>1. j \in Job BY <1>1 DEF TypeInv, TypeOK
    <2> QED BY <2>1 DEF Answered, TypeInv, TypeOK
  <1>3. /\ j.own = job[r].own + n /\ j.pages = job[r].pages /\ j.pc = "response"
        /\ job[r].pc = "request"
    <2>1. job[r] \in Job BY DEF TypeInv, TypeOK
    <2> QED BY <2>1 DEF Answered, Job, TypeInv, TypeOK
  <1>4. n \in Nat /\ n <= PageSize
    BY PageType, PageBound, TimelineType, CollectionAssumption DEF Page
  <1>5. UNCHANGED <<spent, unrecorded, budget>> /\ billed' = billed + n
    BY DEF Answered, history
  <1>6. /\ billed \in Nat /\ spent \in Nat /\ unrecorded \in Nat /\ budget \in Nat
        /\ job[r].own \in Nat /\ job[r].pages \in Nat
    BY DEF TypeInv, TypeOK, Job
  <1>7. spent + job[r].own + PageSize <= budget
    BY DEF Answered, Affordable
  <1> HIDE DEF j, n
  <1>8. ReadsBounded(r)'
    <2> DEFINE k == job[r].pages
    <2>1. k < MaxPages /\ job[r].own <= k * PageSize
      BY <1>3 DEF LedgerInv, ReadsBounded
    <2>2. /\ k * PageSize \in Nat
          /\ (k + 1) * PageSize = k * PageSize + PageSize
          /\ (k + 1) * PageSize <= MaxPages * PageSize
          /\ MaxPages * PageSize \in Nat
      BY <1>6, <2>1, Bounds
    <2>3. j.own <= (k + 1) * PageSize
      <3> DEFINE a == k * PageSize
                 b == (k + 1) * PageSize
      <3>1. a \in Nat /\ b = a + PageSize /\ job[r].own <= a BY <2>1, <2>2
      <3> HIDE DEF a, b
      <3>2. j.own <= b BY <3>1, <1>3, <1>4, <1>6, CollectionAssumption
      <3> QED BY <3>2 DEF b
    <2>4. j.own <= MaxPages * PageSize
      <3> DEFINE b == (k + 1) * PageSize
                 c == MaxPages * PageSize
      <3>1. b \in Nat /\ c \in Nat /\ b <= c /\ j.own <= b /\ j.own \in Nat
        BY <1>3, <1>4, <1>6, <2>2, <2>3, CollectionAssumption
      <3> HIDE DEF b, c
      <3>2. j.own <= c BY <3>1
      <3> QED BY <3>2 DEF c
    <2> QED BY <1>3, <2>1, <2>3, <2>4 DEF ReadsBounded, j
  <1>9. Balanced(r, j)
    BY <1>3, <1>4, <1>5, <1>6, <1>7, CollectionAssumption DEF Balanced
  <1> QED BY <1>2, <1>8, <1>9, LedgerOwnJob

LEMMA WriteLedger ==
    ASSUME TypeInv, LedgerInv, NEW r \in Runners, WriteDiscover(r) \/ WriteMetrics(r)
    PROVE  LedgerInv'
  <1> DEFINE j == job'[r]
  <1>0. job[r] \in Job BY DEF TypeInv, TypeOK
  <1>1. TypeInv' BY WriteType
  <1>2. job' = [job EXCEPT ![r] = j] /\ j \in Job
    <2>1. j \in Job BY <1>1 DEF TypeInv, TypeOK
    <2> QED BY <2>1 DEF WriteDiscover, WriteMetrics, TypeInv, TypeOK
  <1>3. /\ j.own = job[r].own /\ job[r].pc = "response"
        /\ \/ j.pc = "commit"
           \/ /\ j.pc = "request" /\ j.pages = job[r].pages + 1
              /\ job[r].pages + 1 < MaxPages
    <2>1. CASE WriteDiscover(r)
      BY <1>0, <2>1 DEF WriteDiscover, MorePages, Job, TypeInv, TypeOK
    <2>2. CASE WriteMetrics(r)
      BY <1>0, <2>2 DEF WriteMetrics, Job, TypeInv, TypeOK
    <2> QED BY <2>1, <2>2
  <1>5. UNCHANGED <<billed, spent, unrecorded, budget>>
    BY DEF WriteDiscover, WriteMetrics, xVars, history
  <1>6. ReadsBounded(r)'
    BY <1>3 DEF ReadsBounded, LedgerInv
  <1>7. billed \in Nat /\ spent \in Nat /\ unrecorded \in Nat /\ job[r].own \in Nat
    BY DEF TypeInv, TypeOK, Job
  <1> HIDE DEF j
  <1>8. Balanced(r, j) BY <1>3, <1>5, <1>7 DEF Balanced
  <1> QED BY <1>2, <1>6, <1>8, LedgerOwnJob

LEMMA EndLedger ==
    ASSUME TypeInv, LedgerInv, NEW r \in Runners,
           Commit(r) \/ RollBack(r)
    PROVE  LedgerInv'
  <1>1. NoJob \in Job /\ job[r] \in Job BY JobFields
  <1>2. NoJob.own = 0 /\ NoJob.pc = "idle" BY DEF NoJob
  <1>3. job' = [job EXCEPT ![r] = NoJob] BY DEF Commit, RollBack
  <1>4. /\ billed' = billed /\ budget' = budget
        /\ \/ spent' = spent + job[r].own /\ unrecorded' = unrecorded
           \/ spent' = spent /\ unrecorded' = unrecorded + job[r].own
    BY DEF Commit, RollBack, SpentAfter, xVars
  <1>5. billed \in Nat /\ spent \in Nat /\ unrecorded \in Nat /\ job[r].own \in Nat
    BY <1>1 DEF TypeInv, TypeOK, Job
  <1>6. job'[r] = NoJob BY <1>3 DEF TypeInv, TypeOK
  <1>7. ReadsBounded(r)'
    BY <1>2, <1>6, Bounds DEF ReadsBounded
  <1>8. Balanced(r, NoJob) BY <1>2, <1>4, <1>5 DEF Balanced
  <1> QED BY <1>1, <1>3, <1>7, <1>8, LedgerOwnJob

LEMMA LedgerStep == TypeInv /\ LedgerInv /\ [Next]_vars => LedgerInv'
  <1> SUFFICES ASSUME TypeInv, LedgerInv, [Next]_vars PROVE LedgerInv'
    OBVIOUS
  <1>1. CASE job' = job /\ billed' = billed /\ spent' = spent
             /\ unrecorded' = unrecorded /\ budget' = budget
    BY <1>1 DEF LedgerInv, LedgerExplainsBill, GateInv, ReadsBounded, InFlight
  <1>2. CASE Tick \/ Publish \/ UNCHANGED vars
    BY <1>1, <1>2 DEF Tick, Publish, vars, xVars, history
  <1>3. ASSUME NEW r \in Runners, RunnerStep(r) PROVE LedgerInv'
    <2>1. CASE StartMetrics(r) \/ StartDiscover(r) BY <2>1, StartLedger
    <2>2. CASE Refused(r) \/ RateLimited(r) \/ RequestFails(r) BY <2>2, RequestLedger
    <2>3. CASE Fetch(r) \/ FetchWithheld(r)
      <3>1. PICK private \in SUBSET Posts : Answered(r, private)
        <4>1. Page(r) \subseteq Posts
          BY PageType, TimelineType, CollectionAssumption DEF Page
        <4> QED BY <2>3, <4>1 DEF Fetch, FetchWithheld
      <3>2. faults' \in Nat BY <2>3 DEF Fetch, FetchWithheld, TypeInv, TypeOK
      <3> QED BY <3>1, <3>2, FetchLedger
    <2>4. CASE WriteDiscover(r) \/ WriteMetrics(r) BY <2>4, WriteLedger
    <2>5. CASE Commit(r) \/ Conflict(r) \/ Crash(r)
      BY <2>5, EndLedger DEF Conflict, Crash
    <2> QED BY <1>3, <2>1, <2>2, <2>3, <2>4, <2>5 DEF RunnerStep
  <1> QED BY <1>2, <1>3 DEF Next

LEMMA LedgerAlways == Spec => []LedgerInv
  BY InitLedger, LedgerStep, Typing, PTL DEF Spec

(* Whatever runs are refused, limited, fail, conflict or crash, each post X  *)
(* charged for is in the committed ledger, in an open transaction, or was    *)
(* rolled back with one: nothing is charged twice or forgotten otherwise.    *)
THEOREM BillAlwaysExplained == Spec => []LedgerExplainsBill
  <1>1. LedgerInv => LedgerExplainsBill BY DEF LedgerInv
  <1> QED BY <1>1, LedgerAlways, PTL

(* The monthly ceiling, for any number of workers: what X charges exceeds    *)
(* the budget by no more than the rows of rolled-back runs and one full run  *)
(* of pages for each other worker.                                           *)
THEOREM CeilingAlwaysHolds == Spec => []CeilingHolds
  <1>1. TypeInv /\ LedgerInv => CeilingHolds
    <2> SUFFICES ASSUME TypeInv, LedgerInv PROVE CeilingHolds
      OBVIOUS
    <2> DEFINE m == MaxPages * PageSize
               n == (Cardinality(Runners) - 1) * m
    <2>1. (Cardinality(Runners) - 1) * MaxPages * PageSize = n
      BY Bounds, CollectionAssumption
    <2>2. /\ billed = spent + InFlight + unrecorded
          /\ spent + InFlight <= budget + n
      BY DEF LedgerInv, LedgerExplainsBill, GateInv
    <2>3. /\ spent \in Nat /\ unrecorded \in Nat /\ budget \in Nat /\ n \in Nat
          /\ InFlight \in Nat
      <3>1. PICK r \in Runners : TRUE BY CollectionAssumption
      <3>2. InFlight \in Nat
        <4>1. [q \in Runners |-> job[q].own] \in [Runners -> Nat]
          BY DEF TypeInv, TypeOK, Job
        <4>2. job[r].own \in Nat BY DEF TypeInv, TypeOK, Job
        <4> DEFINE own == [q \in Runners |-> job[q].own]
        <4>3. own[r] = job[r].own OBVIOUS
        <4>4. InFlight = Cardinality(LedgerRows(own)) BY DEF InFlight
        <4> HIDE DEF own
        <4>5. PICK k \in Nat : Cardinality(LedgerRows(own)) = k + own[r]
          BY <4>1, RowsSplit DEF own
        <4> QED BY <4>2, <4>3, <4>4, <4>5
      <3> QED BY <3>2, Bounds DEF TypeInv, TypeOK
    <2> HIDE DEF n
    <2> QED BY <2>1, <2>2, <2>3 DEF CeilingHolds
  <1> QED BY <1>1, LedgerAlways, Typing, PTL

-----------------------------------------------------------------------------
(* The life of a post                                                        *)

(* A run ends within its limit, stages rows of its own time only, freezes    *)
(* only what it owes, and owes a freeze only inside the window.              *)
InTime(r) ==
    LET j == job[r]
    IN  /\ j.pc # "idle" => j.started \in Nat /\ j.started <= now
                            /\ now <= j.started + RunLimit
        /\ j.pc = "idle" => j.due = {}
        /\ \A s \in j.inserts : /\ j.started \in Nat /\ j.started <= s.at /\ s.at <= now
                                /\ s.freeze => s.post \in Freezes(j)
        /\ \A s \in j.flags : /\ j.started \in Nat /\ j.started <= s.at /\ s.at <= now
                              /\ s.post \in Freezes(j)
        /\ \A p \in Freezes(j) : InFreezeWindow(j.started - postedAt[p])

(* Only posts with a row are closed or frozen.                               *)
MarksKnown == \A p \in Posts : closed[p] \/ frozenAt[p] # None => p \in Known

LifeInv == MarksKnown /\ \A r \in Runners : InTime(r)

LEMMA InitLife == Init => LifeInv
  BY DEF Init, LifeInv, MarksKnown, InTime, NoJob, Freezes

(* A step that rewrites one job, and no row of a post.                       *)
LEMMA LifeOwnJob ==
    ASSUME TypeInv, LifeInv, NEW r \in Runners, NEW j,
           job' = [job EXCEPT ![r] = j], UNCHANGED postVars,
           now' = now, postedAt' = postedAt, InTime(r)'
    PROVE  LifeInv'
  <1>1. MarksKnown'
    BY DEF LifeInv, MarksKnown, Known, postVars
  <1>2. \A q \in Runners : InTime(q)'
    <2> TAKE q \in Runners
    <2>1. CASE q = r BY <2>1
    <2>2. CASE q # r
      <3>1. job'[q] = job[q] BY <2>2 DEF TypeInv, TypeOK
      <3> QED BY <3>1 DEF LifeInv, InTime, Freezes
    <2> QED BY <2>1, <2>2
  <1> QED BY <1>1, <1>2 DEF LifeInv

LEMMA NoJobFields ==
    /\ NoJob.pc = "idle" /\ NoJob.due = {} /\ NoJob.inserts = {} /\ NoJob.flags = {}
    /\ NoJob.own = 0 /\ NoJob.status = "running" /\ NoJob.task = "none"
    /\ Freezes(NoJob) = {}
  BY DEF NoJob, Freezes

(* The job a task starts with.                                               *)
LEMMA StartedJob ==
    ASSUME TypeInv, NEW r \in Runners, StartMetrics(r) \/ StartDiscover(r)
    PROVE  /\ job' = [job EXCEPT ![r] = job'[r]] /\ job'[r] \in Job
           /\ job[r].pc = "idle"
           /\ job'[r].pc \in {"request", "commit"} /\ job'[r].started = now
           /\ job'[r].inserts = {} /\ job'[r].flags = {} /\ job'[r].page = {}
           /\ job'[r].own = 0 /\ (job'[r].pc = "commit" => job'[r].due = {})
           /\ StartMetrics(r) => job'[r].due = PostsDue /\ job'[r].task = "metrics"
           /\ StartDiscover(r) => job'[r].due = {} /\ job'[r].task = "discover"
           /\ UNCHANGED <<now, postedAt, postVars>>
  <1>1. job'[r] \in Job BY StartType DEF TypeInv, TypeOK
  <1>2. CASE StartMetrics(r)
    <2> DEFINE empty == PostsDue = {}
               due == PostsDue
               k == [NoJob EXCEPT !.pc = IF empty THEN "commit" ELSE "request",
                                  !.task = "metrics", !.started = now, !.due = due,
                                  !.status = IF empty THEN "skipped" ELSE "running"]
    <2>1. job' = [job EXCEPT ![r] = k] BY <1>2 DEF StartMetrics
    <2>2. job'[r] = k BY <2>1 DEF TypeInv, TypeOK
    <2>3. due = PostsDue /\ ~StartDiscover(r)
      <3> HIDE DEF empty, due
      <3>1. StartDiscover(r) => job'[r].task = "discover"
        BY DEF StartDiscover, NoJob, TypeInv, TypeOK
      <3>2. k.task = "metrics" BY DEF NoJob
      <3> QED BY <2>2, <3>1, <3>2 DEF due
    <2> HIDE DEF empty, due
    <2>4. /\ k.pc \in {"request", "commit"} /\ k.started = now /\ k.inserts = {}
          /\ k.flags = {} /\ k.page = {} /\ k.own = 0 /\ k.due = due
          /\ k.task = "metrics" /\ (k.pc = "commit" => empty)
      BY DEF NoJob
    <2> HIDE DEF k
    <2>6. empty => due = {} BY DEF empty, due
    <2>5. job[r].pc = "idle" /\ UNCHANGED <<now, postedAt, postVars>>
      BY <1>2 DEF StartMetrics, xVars
    <2> QED BY <1>1, <2>1, <2>2, <2>3, <2>4, <2>5, <2>6
  <1>3. CASE StartDiscover(r)
    <2> DEFINE known == Known
               k == [NoJob EXCEPT !.pc = "request", !.task = "discover",
                                  !.started = now, !.watermark = known]
    <2>1. job' = [job EXCEPT ![r] = k] BY <1>3 DEF StartDiscover
    <2>2. job'[r] = k BY <2>1 DEF TypeInv, TypeOK
    <2> HIDE DEF known
    <2>3. /\ k.pc = "request" /\ k.started = now /\ k.inserts = {} /\ k.flags = {}
          /\ k.page = {} /\ k.own = 0 /\ k.due = {} /\ k.task = "discover"
      BY DEF NoJob
    <2>4. ~StartMetrics(r)
      <3>1. StartMetrics(r) => job'[r].task = "metrics"
        BY DEF StartMetrics, NoJob, TypeInv, TypeOK
      <3> QED BY <2>2, <2>3, <3>1
    <2> HIDE DEF k
    <2>5. job[r].pc = "idle" /\ UNCHANGED <<now, postedAt, postVars>>
      BY <1>3 DEF StartDiscover, xVars
    <2> QED BY <1>1, <2>1, <2>2, <2>3, <2>4, <2>5
  <1> QED BY <1>2, <1>3

(* A request, answered or not, keeps what the run owes and has staged.       *)
LEMMA RequestedJob ==
    ASSUME TypeInv, NEW r \in Runners,
           \/ Refused(r) \/ RateLimited(r) \/ RequestFails(r)
           \/ Fetch(r) \/ FetchWithheld(r)
    PROVE  /\ job' = [job EXCEPT ![r] = job'[r]]
           /\ job[r].pc = "request" /\ job'[r].pc \in {"response", "commit"}
           /\ job'[r].started = job[r].started /\ job'[r].due = job[r].due
           /\ job'[r].inserts = job[r].inserts /\ job'[r].flags = job[r].flags
           /\ job'[r].task = job[r].task
           /\ UNCHANGED <<now, postedAt, postVars>>
  <1>0. job[r] \in Job BY DEF TypeInv, TypeOK
  <1>1. CASE Refused(r) \/ RateLimited(r)
    <2> DEFINE k == Blocked(job[r])
    <2>1. job' = [job EXCEPT ![r] = k] BY <1>1 DEF Refused, RateLimited
    <2>2. job'[r] = k BY <2>1 DEF TypeInv, TypeOK
    <2>3. /\ k.pc = "commit" /\ k.started = job[r].started /\ k.due = job[r].due
          /\ k.inserts = job[r].inserts /\ k.flags = job[r].flags /\ k.task = job[r].task
      BY <1>0 DEF Blocked, Job
    <2> HIDE DEF k
    <2>4. job[r].pc = "request" /\ UNCHANGED <<now, postedAt, postVars>>
      BY <1>1 DEF Refused, RateLimited, xVars
    <2> QED BY <2>1, <2>2, <2>3, <2>4
  <1>2. CASE RequestFails(r)
    <2> DEFINE k == [job[r] EXCEPT !.pc = "commit", !.status = "failed"]
    <2>1. job' = [job EXCEPT ![r] = k] BY <1>2 DEF RequestFails
    <2>2. job'[r] = k BY <2>1 DEF TypeInv, TypeOK
    <2>3. /\ k.pc = "commit" /\ k.started = job[r].started /\ k.due = job[r].due
          /\ k.inserts = job[r].inserts /\ k.flags = job[r].flags /\ k.task = job[r].task
      BY <1>0 DEF Job
    <2> HIDE DEF k
    <2>4. job[r].pc = "request" /\ UNCHANGED <<now, postedAt, postVars>>
      BY <1>2 DEF RequestFails, xVars
    <2> QED BY <2>1, <2>2, <2>3, <2>4
  <1>3. CASE Fetch(r) \/ FetchWithheld(r)
    <2>1. PICK private : Answered(r, private) BY <1>3 DEF Fetch, FetchWithheld
    <2> DEFINE k == [job[r] EXCEPT !.pc = "response", !.page = Page(r), !.private = private,
                                   !.own = job[r].own + Cardinality(Page(r))]
    <2>2. job' = [job EXCEPT ![r] = k] BY <2>1 DEF Answered
    <2>3. job'[r] = k BY <2>2 DEF TypeInv, TypeOK
    <2>4. /\ k.pc = "response" /\ k.started = job[r].started /\ k.due = job[r].due
          /\ k.inserts = job[r].inserts /\ k.flags = job[r].flags /\ k.task = job[r].task
      BY <1>0 DEF Job
    <2> HIDE DEF k
    <2>5. job[r].pc = "request" /\ UNCHANGED <<now, postedAt, postVars>>
      BY <2>1 DEF Answered
    <2> QED BY <2>2, <2>3, <2>4, <2>5
  <1> QED BY <1>1, <1>2, <1>3

(* A row inserted as the freeze is one the run owes.                         *)
LEMMA OwedRows ==
    ASSUME NEW r \in Runners, NEW work \in SUBSET job[r].due,
           NEW s \in ToInsert(work, job[r].private)
    PROVE  s.at = now /\ (s.freeze => s.post \in Freezes(job[r]))
  <1>1. PICK d \in work : s = NewSnapshot(d.post, job[r].private, d.freeze)
    BY DEF ToInsert
  <1>2. s.at = now /\ s.post = d.post /\ s.freeze = d.freeze
    BY <1>1 DEF NewSnapshot
  <1>3. d.freeze => d.post \in Freezes(job[r])
    BY DEF Freezes
  <1>4. s.freeze => s.post \in Freezes(job[r])
    BY <1>2, <1>3, Zenon
  <1> QED BY <1>2, <1>4

(* What the two writers leave in the job.                                    *)
LEMMA WrittenJob ==
    ASSUME TypeInv, NEW r \in Runners, WriteDiscover(r) \/ WriteMetrics(r)
    PROVE  /\ job' = [job EXCEPT ![r] = job'[r]]
           /\ job[r].pc = "response" /\ job'[r].pc \in {"request", "commit"}
           /\ job'[r].started = job[r].started /\ job'[r].due = job[r].due
           /\ job'[r].task = job[r].task
           /\ \A s \in job'[r].inserts :
                 \/ s \in job[r].inserts
                 \/ s.at = now /\ (s.freeze => s.post \in Freezes(job[r]))
           /\ \A s \in job'[r].flags :
                 \/ s \in job[r].flags
                 \/ s.at = now /\ s.post \in Freezes(job[r])
           /\ UNCHANGED <<now, postedAt, postVars>>
  <1>0. job[r] \in Job BY DEF TypeInv, TypeOK
  <1>1. CASE WriteDiscover(r)
    <2> DEFINE more == MorePages(job[r])
               new == {NewSnapshot(p, job[r].private, FALSE) : p \in NewPosts(job[r])}
               k == [job[r] EXCEPT !.pc      = IF more THEN "request" ELSE "commit",
                                   !.status  = IF more THEN "running" ELSE "succeeded",
                                   !.cursor  = IF more THEN job[r].page ELSE {},
                                   !.pages   = job[r].pages + 1,
                                   !.page    = {},
                                   !.private = {},
                                   !.inserts = job[r].inserts \cup new]
    <2>1. \A s \in new : s.at = now /\ ~s.freeze BY DiscoveredRows
    <2>2. job' = [job EXCEPT ![r] = k] BY <1>1 DEF WriteDiscover
    <2>3. job'[r] = k BY <2>2 DEF TypeInv, TypeOK
    <2> HIDE DEF more, new
    <2>4. /\ k.pc \in {"request", "commit"} /\ k.started = job[r].started
          /\ k.due = job[r].due /\ k.flags = job[r].flags
          /\ k.inserts = job[r].inserts \cup new /\ k.task = job[r].task
      BY <1>0 DEF Job
    <2> HIDE DEF k
    <2>5. job[r].pc = "response" /\ UNCHANGED <<now, postedAt, postVars>>
      BY <1>1 DEF WriteDiscover, xVars
    <2> QED BY <2>1, <2>2, <2>3, <2>4, <2>5
  <1>2. CASE WriteMetrics(r)
    <2> DEFINE work == {d \in Served(job[r].due) : d.post \in job[r].page}
               ins  == ToInsert(work, job[r].private)
               fl   == ToFlag(work)
               k == [job[r] EXCEPT !.pc = "commit",
                                   !.status = IF work = job[r].due THEN "succeeded"
                                              ELSE "partial",
                                   !.page = {}, !.private = {},
                                   !.inserts = ins, !.flags = fl]
    <2>1. work \in SUBSET job[r].due /\ \A d \in work : d.post \in job[r].page
      BY DEF Served
    <2>2. job' = [job EXCEPT ![r] = k] BY <1>2 DEF WriteMetrics
    <2>3. job'[r] = k BY <2>2 DEF TypeInv, TypeOK
    <2> HIDE DEF work
    <2>4. \A d \in work : d.freeze => d.post \in Freezes(job[r])
      BY <2>1 DEF Freezes
    <2>5. \A s \in ins : s.at = now /\ (s.freeze => s.post \in Freezes(job[r]))
      BY <2>1, OwedRows
    <2>6. \A s \in fl : s.at = now /\ s.post \in Freezes(job[r])
      BY <2>4, FlaggedRows
    <2> HIDE DEF ins, fl
    <2>7. /\ k.pc = "commit" /\ k.started = job[r].started /\ k.due = job[r].due
          /\ k.inserts = ins /\ k.flags = fl /\ k.task = job[r].task
      BY <1>0 DEF Job
    <2> HIDE DEF k
    <2>8. job[r].pc = "response" /\ UNCHANGED <<now, postedAt, postVars>>
      BY <1>2 DEF WriteMetrics, xVars
    <2> QED BY <2>2, <2>3, <2>5, <2>6, <2>7, <2>8
  <1> QED BY <1>1, <1>2

LEMMA RunLife ==
    ASSUME TypeInv, LifeInv, NEW r \in Runners,
           \/ StartMetrics(r) \/ StartDiscover(r)
           \/ Refused(r) \/ RateLimited(r) \/ RequestFails(r)
           \/ Fetch(r) \/ FetchWithheld(r)
           \/ WriteDiscover(r) \/ WriteMetrics(r)
    PROVE  LifeInv'
  <1>0. now \in Nat /\ RunLimit \in Nat /\ InTime(r)
    BY CollectionAssumption DEF TypeInv, TypeOK, Times, LifeInv
  <1>1. CASE StartMetrics(r) \/ StartDiscover(r)
    <2>1. /\ job'[r].started = now /\ job'[r].inserts = {} /\ job'[r].flags = {}
          /\ job'[r].pc # "idle" /\ now' = now /\ postedAt' = postedAt
          /\ UNCHANGED postVars /\ job' = [job EXCEPT ![r] = job'[r]]
      BY <1>1, StartedJob
    <2>2. \A p \in Freezes(job'[r]) : InFreezeWindow(now - postedAt[p])
      <3>1. job'[r].due = PostsDue \/ job'[r].due = {}
        BY <1>1, StartedJob
      <3> QED BY <3>1, DueType DEF Freezes, Age
    <2>3. InTime(r)'
      <3>1. now' <= now + RunLimit BY <1>0, <2>1
      <3>2. /\ job'[r].pc # "idle" => job'[r].started \in Nat /\ job'[r].started <= now'
                                      /\ now' <= job'[r].started + RunLimit
            /\ job'[r].pc = "idle" => job'[r].due = {}
        BY <1>0, <2>1, <3>1
      <3>3. \A p \in Freezes(job'[r]) : InFreezeWindow(job'[r].started - postedAt'[p])
        BY <2>1, <2>2
      <3>4. Freezes(job[r])' = Freezes(job'[r]) BY DEF Freezes
      <3> QED BY <2>1, <3>2, <3>3, <3>4 DEF InTime
    <2> QED BY <2>1, <2>3, LifeOwnJob
  <1>2. CASE \/ Refused(r) \/ RateLimited(r) \/ RequestFails(r)
             \/ Fetch(r) \/ FetchWithheld(r)
    <2>1. /\ job'[r].started = job[r].started /\ job'[r].due = job[r].due
          /\ job'[r].inserts = job[r].inserts /\ job'[r].flags = job[r].flags
          /\ job[r].pc # "idle" /\ job'[r].pc # "idle"
          /\ now' = now /\ postedAt' = postedAt
          /\ UNCHANGED postVars /\ job' = [job EXCEPT ![r] = job'[r]]
      BY <1>2, RequestedJob
    <2>2. Freezes(job[r])' = Freezes(job[r]) BY <2>1 DEF Freezes
    <2>3. InTime(r)' BY <1>0, <2>1, <2>2 DEF InTime
    <2> QED BY <2>1, <2>3, LifeOwnJob
  <1>3. CASE WriteDiscover(r) \/ WriteMetrics(r)
    <2>1. /\ job'[r].started = job[r].started /\ job'[r].due = job[r].due
          /\ \A s \in job'[r].inserts :
                 \/ s \in job[r].inserts
                 \/ s.at = now /\ (s.freeze => s.post \in Freezes(job[r]))
          /\ \A s \in job'[r].flags :
                 \/ s \in job[r].flags
                 \/ s.at = now /\ s.post \in Freezes(job[r])
          /\ job[r].pc # "idle" /\ job'[r].pc # "idle"
          /\ now' = now /\ postedAt' = postedAt
          /\ UNCHANGED postVars /\ job' = [job EXCEPT ![r] = job'[r]]
      BY <1>3, WrittenJob
    <2>2. Freezes(job[r])' = Freezes(job[r]) BY <2>1 DEF Freezes
    <2>3. InTime(r)' BY <1>0, <2>1, <2>2 DEF InTime
    <2> QED BY <2>1, <2>3, LifeOwnJob
  <1> QED BY <1>1, <1>2, <1>3

(* The rows with which a commit freezes a post are inside its window, give   *)
(* or take the run.                                                          *)
LEMMA FreezeRowsInWindow ==
    ASSUME TypeInv, MarksInv, LifeInv, NEW r \in Runners, job[r].pc = "commit",
           NEW p \in Posts, FreezeRows(job[r], p) # {}
    PROVE  /\ p \in Known
           /\ job[r].task # "discover"
           /\ FreezeOpens <= Age(p) /\ Age(p) <= Cliff + RunLimit
  <1> DEFINE j == job[r]
  <1>1. InTime(r) BY DEF LifeInv
  <1>2. p \in Freezes(j)
    <2>1. PICK s \in j.inserts \cup j.flags : s.post = p /\ (s.freeze \/ s \in j.flags)
      BY DEF FreezeRows
    <2> QED BY <1>1, <2>1 DEF InTime
  <1>3. p \in Known
    BY <1>2 DEF TypeInv, Causal, Freezes
  <1>4. j.task # "discover"
    BY <1>2 DEF MarksInv, SuccessEarned, Freezes
  <1>5. postedAt[p] \in Nat
    BY <1>3 DEF TypeInv, TypeOK, Causal, Published, Times
  <1>6. j.started \in Nat /\ j.started <= now /\ now <= j.started + RunLimit
    BY <1>1 DEF InTime
  <1>7. FreezeOpens <= j.started - postedAt[p] /\ j.started - postedAt[p] < Cliff
    BY <1>1, <1>2 DEF InTime, InFreezeWindow
  <1>8. now \in Nat /\ RunLimit \in Nat /\ FreezeOpens \in Nat /\ Cliff \in Nat
    BY CollectionAssumption, AgesOrdered DEF TypeInv, TypeOK, Times
  <1> QED BY <1>3, <1>4, <1>5, <1>6, <1>7, <1>8 DEF Age

LEMMA EndLife ==
    ASSUME TypeInv, MarksInv, LifeInv, NEW r \in Runners, Commit(r) \/ RollBack(r)
    PROVE  LifeInv'
  <1>1. \A q \in Runners : job'[q] = IF q = r THEN NoJob ELSE job[q]
    BY DEF Commit, RollBack, TypeInv, TypeOK
  <1>2. now' = now /\ postedAt' = postedAt
    BY DEF Commit, RollBack, xVars
  <1>3. \A q \in Runners : InTime(q)'
    <2> TAKE q \in Runners
    <2>1. CASE q = r
      <3>1. job'[q] = NoJob BY <1>1, <2>1
      <3>2. Freezes(job[q])' = {} BY <3>1, NoJobFields DEF Freezes
      <3> QED BY <3>1, <3>2, NoJobFields DEF InTime
    <2>2. CASE q # r
      <3>1. job'[q] = job[q] BY <1>1, <2>2
      <3> QED BY <1>2, <3>1 DEF LifeInv, InTime, Freezes
    <2> QED BY <2>1, <2>2
  <1>4. MarksKnown'
    <2>1. CASE RollBack(r)
      BY <2>1 DEF RollBack, postVars, LifeInv, MarksKnown, Known
    <2>2. CASE Commit(r)
      <3>1. Known \subseteq Known'
        <4>1. \A p \in Posts : (\E s \in job[r].inserts : s.post = p)
                => (CHOOSE s \in job[r].inserts : s.post = p).at \in Times
          BY DEF Snapshot, TypeInv, TypeOK, Job
        <4> QED BY <2>2, <4>1, NoneIsNoTime DEF Commit, FirstSeenAfter, Known, Times
      <3> SUFFICES ASSUME NEW p \in Posts, closed'[p] \/ frozenAt'[p] # None
                   PROVE  p \in Known'
        BY DEF MarksKnown
      <3>2. CASE closed[p] \/ frozenAt[p] # None
        BY <3>1, <3>2 DEF LifeInv, MarksKnown
      <3>3. CASE FreezeRows(job[r], p) # {}
        <4>1. job[r].pc = "commit" BY <2>2 DEF Commit
        <4> QED BY <3>1, <3>3, <4>1, FreezeRowsInWindow
      <3>4. CASE job[r].task = "discover" /\ \E s \in job[r].inserts : s.post = p
        <4>1. (CHOOSE s \in job[r].inserts : s.post = p).at \in Times
          BY <3>4 DEF Snapshot, TypeInv, TypeOK, Job
        <4>2. firstSeen'[p] \in Times
          BY <2>2, <3>4, <4>1 DEF Commit, FirstSeenAfter
        <4> QED BY <4>2, NoneIsNoTime DEF Known, Times
      <3> QED BY <2>2, <3>2, <3>3, <3>4 DEF Commit, ClosedAfter, FrozenAfter
    <2> QED BY <2>1, <2>2
  <1> QED BY <1>3, <1>4 DEF LifeInv

LEMMA EnvironmentLife ==
    ASSUME TypeInv, LifeInv, Tick \/ Publish
    PROVE  LifeInv'
  <1>1. job' = job /\ UNCHANGED postVars
    BY DEF Tick, Publish
  <1>2. MarksKnown'
    BY <1>1 DEF LifeInv, MarksKnown, Known, postVars
  <1>3. \A q \in Runners : \A p \in Freezes(job[q]) : postedAt'[p] = postedAt[p]
    <2> TAKE q \in Runners
    <2> TAKE p \in Freezes(job[q])
    <2>1. p \in Posts /\ postedAt[p] # None
      BY DEF TypeInv, Causal, Freezes, Known, Published
    <2> QED BY <2>1 DEF Tick, Publish, xVars, TypeInv, TypeOK
  <1>4. /\ now \in Nat /\ RunLimit \in Nat
        /\ \/ now' = now
           \/ /\ now' = now + 1
              /\ \A q \in Runners : job[q].pc # "idle" => now - job[q].started < RunLimit
    BY CollectionAssumption DEF Tick, Publish, TypeInv, TypeOK, Times
  <1>5. \A q \in Runners : InTime(q)'
    <2> TAKE q \in Runners
    <2>0. InTime(q) BY DEF LifeInv
    <2>1. Freezes(job[q])' = Freezes(job[q]) BY <1>1 DEF Freezes
    <2>2. job[q].pc # "idle" => job[q].started \in Nat /\ job[q].started <= now'
                                /\ now' <= job[q].started + RunLimit
      BY <1>4, <2>0 DEF InTime
    <2>3. \A s \in job[q].inserts \cup job[q].flags : s.at <= now'
      <3>1. \A s \in job[q].inserts \cup job[q].flags : s.at \in Nat /\ s.at <= now
        BY <2>0 DEF InTime, TypeInv, TypeOK, Job, Snapshot, Times
      <3> QED BY <1>4, <3>1
    <2> QED BY <1>1, <1>3, <2>0, <2>1, <2>2, <2>3 DEF InTime
  <1> QED BY <1>2, <1>5 DEF LifeInv

LEMMA LifeStep == TypeInv /\ MarksInv /\ LifeInv /\ [Next]_vars => LifeInv'
  <1> SUFFICES ASSUME TypeInv, MarksInv, LifeInv, [Next]_vars PROVE LifeInv'
    OBVIOUS
  <1>1. CASE Tick \/ Publish BY <1>1, EnvironmentLife
  <1>2. ASSUME NEW r \in Runners, RunnerStep(r) PROVE LifeInv'
    <2>1. CASE Commit(r) \/ Conflict(r) \/ Crash(r)
      BY <2>1, EndLife DEF Conflict, Crash
    <2> QED BY <1>2, <2>1, RunLife DEF RunnerStep
  <1>3. CASE UNCHANGED vars
    BY <1>3 DEF vars, xVars, postVars, LifeInv, MarksKnown, InTime, Known, Freezes
  <1> QED BY <1>1, <1>2, <1>3 DEF Next

LEMMA LifeAlways == Spec => []LifeInv
  BY InitLife, LifeStep, Typing, MarksAlways, PTL DEF Spec

(* Only a commit changes what the database says of a post.                   *)
LEMMA OnlyCommitsMove ==
    ASSUME TypeInv, [Next]_vars, \A r \in Runners : ~Commit(r)
    PROVE  UNCHANGED postVars
  <1>1. CASE Tick \/ Publish \/ UNCHANGED vars
    BY <1>1 DEF Tick, Publish, vars
  <1>2. ASSUME NEW r \in Runners, RunnerStep(r) PROVE UNCHANGED postVars
    <2>1. CASE StartMetrics(r) \/ StartDiscover(r) BY <2>1, StartedJob
    <2>2. CASE \/ Refused(r) \/ RateLimited(r) \/ RequestFails(r)
               \/ Fetch(r) \/ FetchWithheld(r)
      BY <2>2, RequestedJob
    <2>3. CASE WriteDiscover(r) \/ WriteMetrics(r) BY <2>3, WrittenJob
    <2>4. CASE Conflict(r) \/ Crash(r) BY <2>4 DEF Conflict, Crash, RollBack
    <2> QED BY <1>2, <2>1, <2>2, <2>3, <2>4 DEF RunnerStep
  <1> QED BY <1>1, <1>2 DEF Next

(* What a commit does to one post, seen as its stage.                        *)
LEMMA CommitStage ==
    ASSUME TypeInv, MarksInv, LifeInv, NEW r \in Runners, Commit(r), NEW p \in Posts
    PROVE  \/ StageOf(p)' = StageOf(p)
           \/ /\ StageOf(p) = "unseen" /\ postedAt[p] # None
              /\ \/ StageOf(p)' = "tracked" /\ Age(p) <= Cliff + RunLimit
                 \/ StageOf(p)' = "closed" /\ Age(p) >= Cliff
           \/ /\ StageOf(p) = "tracked" /\ StageOf(p)' = "frozen"
              /\ FreezeOpens <= Age(p) /\ Age(p) <= Cliff + RunLimit
  <1> DEFINE j == job[r]
             seen == j.task = "discover" /\ \E s \in j.inserts : s.post = p
  <1>0. /\ InTime(r) /\ j \in Job /\ j.pc = "commit"
        /\ now \in Nat /\ RunLimit \in Nat /\ Cliff \in Nat
    BY CollectionAssumption, AgesOrdered DEF LifeInv, TypeInv, TypeOK, Commit, Times
  <1>1. seen => firstSeen[p] = None /\ postedAt[p] \in Nat
    <2>1. seen => p \in Published BY DEF TypeInv, Causal
    <2>2. seen => firstSeen[p] = None BY DEF Commit, Clash
    <2> QED BY <2>1, <2>2 DEF Published, TypeInv, TypeOK, Times
  <1>2. seen => firstSeen'[p] # None
    <2>1. seen => (CHOOSE s \in j.inserts : s.post = p).at \in Times
      BY DEF Snapshot, TypeInv, TypeOK, Job
    <2> QED BY <2>1, NoneIsNoTime DEF Commit, FirstSeenAfter, Times
  <1>3. ~seen => firstSeen'[p] = firstSeen[p] /\ (closed'[p] <=> closed[p])
    BY DEF Commit, FirstSeenAfter, ClosedAfter
  <1>4. FreezeRows(j, p) = {} => frozenAt'[p] = frozenAt[p]
    BY DEF Commit, FrozenAfter
  <1>5. FreezeRows(j, p) # {} => /\ p \in Known /\ j.task # "discover"
                                /\ FreezeOpens <= Age(p) /\ Age(p) <= Cliff + RunLimit
                                /\ frozenAt'[p] # None
    <2>1. FreezeRows(j, p) # {} => (CHOOSE s \in FreezeRows(j, p) : TRUE).at \in Times
      BY <1>0 DEF FreezeRows, Snapshot, Job
    <2> QED BY <1>0, <2>1, FreezeRowsInWindow, NoneIsNoTime DEF Commit, FrozenAfter, Times
  <1>6. p \notin Known => ~closed[p] /\ frozenAt[p] = None
    BY DEF LifeInv, MarksKnown
  <1>7. CASE seen
    <2>1. StageOf(p) = "unseen" /\ postedAt[p] # None
      BY <1>1, <1>7, NoneIsNoTime DEF StageOf
    <2>2. ~closed[p] /\ frozenAt'[p] = None
      BY <1>1, <1>4, <1>5, <1>6, <1>7 DEF Known
    <2>3. PICK s \in j.inserts : s.post = p BY <1>7
    <2>4. \A t \in j.inserts : t.at \in Nat /\ now - RunLimit <= t.at /\ t.at <= now
      BY <1>0 DEF InTime, Job, Snapshot, Times
    <2>5. CASE closed'[p]
      <3>1. PICK t \in j.inserts : t.post = p /\ postedAt[p] + Cliff <= t.at
        BY <2>2, <2>5 DEF Commit, ClosedAfter
      <3>2. Age(p) >= Cliff BY <1>0, <1>1, <1>7, <2>4, <3>1 DEF Age
      <3>3. StageOf(p)' = "closed" BY <1>2, <1>7, <2>5 DEF StageOf
      <3> QED BY <2>1, <3>2, <3>3
    <2>6. CASE ~closed'[p]
      <3>1. ~(postedAt[p] + Cliff <= s.at)
        BY <1>7, <2>3, <2>6 DEF Commit, ClosedAfter
      <3>2. Age(p) <= Cliff + RunLimit BY <1>0, <1>1, <1>7, <2>3, <2>4, <3>1 DEF Age
      <3>3. StageOf(p)' = "tracked" BY <1>2, <1>7, <2>2, <2>6 DEF StageOf
      <3> QED BY <2>1, <3>2, <3>3
    <2> QED BY <2>5, <2>6
  <1>8. CASE ~seen /\ FreezeRows(j, p) = {}
    BY <1>3, <1>4, <1>8 DEF StageOf
  <1>9. CASE ~seen /\ FreezeRows(j, p) # {}
    BY <1>3, <1>5, <1>9 DEF StageOf, Known
  <1> QED BY <1>7, <1>8, <1>9

(* The collector implements PostLife: whatever its runs do, each post goes   *)
(* only from unseen to tracked or closed and from tracked to frozen, within  *)
(* one run of the window, and never back (StageOf reads the posts table).    *)
THEOREM ImplementsPostLife == Spec => LifeSpec
  <1> DEFINE stages == [p \in Posts |-> StageOf(p)]
  <1>1. Init => Life!Init
    BY DEF Init, Life!Init, StageOf
  <1>2. TypeInv /\ MarksInv /\ LifeInv /\ [Next]_vars => [Life!Next]_stages
    <2> SUFFICES ASSUME TypeInv, MarksInv, LifeInv, [Next]_vars
                 PROVE  Life!Next \/ stages' = stages
      OBVIOUS
    <2>1. CASE \A r \in Runners : ~Commit(r)
      <3>1. UNCHANGED postVars BY <2>1, OnlyCommitsMove
      <3> QED BY <3>1 DEF postVars, StageOf
    <2>2. ASSUME NEW r \in Runners, Commit(r) PROVE Life!Next
      <3> SUFFICES ASSUME NEW p \in Posts
                   PROVE  Life!Discover(p) \/ Life!Freeze(p) \/ Life!Stay(p)
        BY DEF Life!Next
      <3>1. /\ stages[p] = StageOf(p) /\ stages'[p] = StageOf(p)'
            /\ Life!Age(p) = Age(p)
        BY DEF Life!Age, Age
      <3> QED
        BY <2>2, <3>1, CommitStage DEF Life!Discover, Life!Freeze, Life!Stay
    <2> QED BY <2>1, <2>2
  <1> QED
    BY <1>1, <1>2, Typing, MarksAlways, LifeAlways, PTL DEF Spec, LifeSpec, Life!Spec

-----------------------------------------------------------------------------
(* No freeze is lost without a sweep that failed it                          *)

(* The runs that owe p its freeze now, and the sweeps of p's window so far.  *)
Owing(p) == {r \in Runners : p \in Freezes(job[r])}
Swept(p) == missed[p] + Cardinality(Owing(p))

KnownInTime(p) == firstSeen[p] + RunLimit < postedAt[p] + FreezeOpens

(* Beat starts the next sweep within SweepEvery of the last one, so that the *)
(* sweeps of a window follow each other closely: either there were Slack of  *)
(* them, or the last one lies within that many intervals of the opening.     *)
Counted(p) ==
    \/ Swept(p) >= Slack
    \/ lastSweep < postedAt[p] + FreezeOpens + Swept(p) * SweepEvery

SweepInv ==
    /\ lastSweep <= now /\ now <= lastSweep + SweepEvery
    /\ \A p \in Known : KnownInTime(p) /\ frozenAt[p] = None => Counted(p)

LEMMA Intervals ==
    /\ SweepEvery \in Nat /\ SweepEvery > 0 /\ Slack \in Nat
    /\ \A k \in Nat : /\ k * SweepEvery \in Nat
                      /\ (k + 1) * SweepEvery = k * SweepEvery + SweepEvery
                      /\ Cliff - FreezeOpens < (k + 1) * SweepEvery => Slack <= k
  <1> DEFINE L == Cliff - FreezeOpens
  <1>1. SweepEvery \in Nat /\ SweepEvery > 0 /\ L \in Nat
    BY CollectionAssumption, AgesOrdered
  <1>2. \A a, b \in Nat : a * b \in Nat /\ (a + 1) * b = a * b + b
    OBVIOUS
  <1>3. L \div SweepEvery \in Nat /\ (L \div SweepEvery) * SweepEvery <= L
    BY <1>1
  <1>4. \A a, b, c \in Nat : a <= b => a * c <= b * c
    OBVIOUS
  <1>5. ASSUME NEW k \in Nat, L < (k + 1) * SweepEvery PROVE L \div SweepEvery <= k
    <2> DEFINE q == L \div SweepEvery
    <2> SUFFICES ASSUME k + 1 <= q PROVE FALSE
      BY <1>3
    <2> HIDE DEF q
    <2>1. (k + 1) * SweepEvery <= q * SweepEvery
      BY <1>1, <1>3, <1>4 DEF q
    <2>2. (k + 1) * SweepEvery \in Nat /\ q * SweepEvery \in Nat
      BY <1>1, <1>2, <1>3 DEF q
    <2> DEFINE x == (k + 1) * SweepEvery
               y == q * SweepEvery
    <2>3. x <= y /\ x \in Nat /\ y \in Nat /\ L < x /\ y <= L /\ L \in Nat
      BY <1>1, <1>3, <1>5, <2>1, <2>2 DEF q
    <2> HIDE DEF x, y, L
    <2> QED BY <2>3
  <1> QED BY <1>1, <1>2, <1>3, <1>5 DEF Slack

LEMMA SweptType ==
    ASSUME TypeInv, NEW p \in Posts
    PROVE  /\ IsFiniteSet(Owing(p)) /\ Cardinality(Owing(p)) \in Nat
           /\ Swept(p) \in Nat /\ missed[p] \in Nat /\ missed[p] <= Swept(p)
  <1>1. IsFiniteSet(Owing(p))
    BY CollectionAssumption, FS_Subset DEF Owing
  <1>2. Cardinality(Owing(p)) \in Nat BY <1>1, FS_CardinalityType
  <1>3. missed[p] \in Nat BY DEF TypeInv, TypeOK
  <1> QED BY <1>1, <1>2, <1>3 DEF Swept

(* A run that ends moves its sweep from the owing to the missed, or the      *)
(* count of the missed was full, or it froze the post.                       *)
LEMMA SweptAtEnd ==
    ASSUME TypeInv, NEW r \in Runners, NEW p \in Posts,
           job' = [job EXCEPT ![r] = NoJob],
           missed' = MissedAfter(job[r], frozenAt'), frozenAt'[p] = None
    PROVE  Swept(p)' >= Slack \/ Swept(p)' = Swept(p)
  <1> DEFINE O == Owing(p)
             P == Owing(p)'
  <1>0. IsFiniteSet(O) /\ Cardinality(O) \in Nat /\ missed[p] \in Nat /\ Slack \in Nat
    BY SweptType, Intervals
  <1>1. \A q \in Runners : Freezes(job'[q]) = IF q = r THEN {} ELSE Freezes(job[q])
    BY NoJobFields DEF TypeInv, TypeOK
  <1>2. P = O \ {r}
    BY <1>1 DEF Owing, Freezes
  <1>3. /\ IsFiniteSet(P) /\ Cardinality(P) \in Nat
        /\ Cardinality(P) = IF r \in O THEN Cardinality(O) - 1 ELSE Cardinality(O)
    <2> HIDE DEF O, P
    <2> QED BY <1>0, <1>2, FS_RemoveElement, FS_CardinalityType
  <1>4. missed'[p] = IF p \in Freezes(job[r]) /\ missed[p] < Slack
                     THEN missed[p] + 1 ELSE missed[p]
    BY DEF MissedAfter
  <1>5. r \in O <=> p \in Freezes(job[r])
    BY DEF Owing
  <1>6. Swept(p)' = missed'[p] + Cardinality(P) /\ Swept(p) = missed[p] + Cardinality(O)
    BY DEF Swept
  <1> HIDE DEF O, P
  <1> QED BY <1>0, <1>3, <1>4, <1>5, <1>6

(* A run that starts adds its sweep where it owes the freeze.                *)
LEMMA SweptAtStart ==
    ASSUME TypeInv, LifeInv, NEW r \in Runners, NEW p \in Posts,
           StartMetrics(r) \/ StartDiscover(r)
    PROVE  Swept(p)' = IF p \in Freezes(job'[r]) THEN Swept(p) + 1 ELSE Swept(p)
  <1> DEFINE O == Owing(p)
             P == Owing(p)'
  <1>0. IsFiniteSet(O) /\ Cardinality(O) \in Nat /\ missed[p] \in Nat
    BY SweptType
  <1>1. job' = [job EXCEPT ![r] = job'[r]] /\ job[r].pc = "idle" BY StartedJob
  <1>2. Freezes(job[r]) = {}
    BY <1>1 DEF LifeInv, InTime, Freezes
  <1>3. \A q \in Runners : q # r => job'[q] = job[q]
    BY <1>1 DEF TypeInv, TypeOK
  <1>4. P = (IF p \in Freezes(job'[r]) THEN O \cup {r} ELSE O) /\ r \notin O
    BY <1>2, <1>3 DEF Owing, Freezes
  <1>5. missed' = missed BY DEF StartMetrics, StartDiscover, history
  <1>6. Cardinality(P) = IF p \in Freezes(job'[r]) THEN Cardinality(O) + 1
                         ELSE Cardinality(O)
    <2> HIDE DEF O, P
    <2> QED BY <1>0, <1>4, FS_AddElement
  <1>7. Swept(p)' = missed'[p] + Cardinality(P) /\ Swept(p) = missed[p] + Cardinality(O)
    BY DEF Swept
  <1> HIDE DEF O, P
  <1> QED BY <1>0, <1>5, <1>6, <1>7

(* A sweep owes the freeze of every unfrozen post it finds in its window.    *)
LEMMA SweepOwes ==
    ASSUME TypeInv, NEW r \in Runners, StartMetrics(r),
           NEW p \in Known, frozenAt[p] = None, InFreezeWindow(Age(p))
    PROVE  p \in Freezes(job'[r])
  <1>1. p \in Posts BY DEF Known
  <1>2. postedAt[p] \in Nat /\ now \in Nat /\ Cliff \in Nat
    BY <1>1, AgesOrdered DEF TypeInv, TypeOK, Causal, Published, Times
  <1>3. p \in Candidates
    BY <1>2 DEF Candidates, InFreezeWindow, Age
  <1>4. FreezeDue(Age(p), frozenAt[p] # None)
    BY DEF FreezeDue
  <1>5. DecisionFor(p) \in PostsDue
    BY <1>3, <1>4 DEF PostsDue, Due
  <1>6. DecisionFor(p).post = p /\ DecisionFor(p).freeze
    BY <1>4 DEF DecisionFor
  <1>7. job'[r].due = PostsDue BY StartedJob
  <1> QED BY <1>5, <1>6, <1>7 DEF Freezes

LEMMA InitSweep == Init => SweepInv
  <1> SUFFICES ASSUME Init PROVE SweepInv
    OBVIOUS
  <1>1. Known = {} BY DEF Init, Known
  <1>2. now = 0 /\ lastSweep = 0 BY DEF Init
  <1> QED BY <1>1, <1>2, Intervals DEF SweepInv

(* A step that changes neither posts, sweeps, counts nor what is owed.       *)
LEMMA SweepQuiet ==
    ASSUME TypeInv, SweepInv, now' = now, lastSweep' = lastSweep, missed' = missed,
           firstSeen' = firstSeen, frozenAt' = frozenAt,
           \A p \in Known : postedAt'[p] = postedAt[p],
           \A q \in Runners : job'[q].due = job[q].due
    PROVE  SweepInv'
  <1>1. Known' = Known BY DEF Known
  <1>2. \A p \in Known : Swept(p)' = Swept(p)
    BY DEF Swept, Owing, Freezes
  <1>3. \A p \in Known : /\ KnownInTime(p)' <=> KnownInTime(p)
                         /\ Counted(p)' <=> Counted(p)
    BY <1>2 DEF KnownInTime, Counted
  <1> QED BY <1>1, <1>3 DEF SweepInv

LEMMA StartSweep ==
    ASSUME TypeInv, LifeInv, SweepInv, NEW r \in Runners,
           StartMetrics(r) \/ StartDiscover(r)
    PROVE  SweepInv'
  <1>1. /\ now' = now /\ postedAt' = postedAt
        /\ firstSeen' = firstSeen /\ frozenAt' = frozenAt
    BY StartedJob DEF postVars
  <1>2. \/ StartMetrics(r) /\ lastSweep' = now
        \/ StartDiscover(r) /\ lastSweep' = lastSweep
    BY DEF StartMetrics, StartDiscover
  <1>3. /\ now \in Nat /\ lastSweep \in Nat /\ lastSweep <= now
        /\ now <= lastSweep + SweepEvery
    BY DEF TypeInv, TypeOK, Times, SweepInv
  <1>4. SUFFICES ASSUME NEW p \in Known, KnownInTime(p), frozenAt[p] = None
                 PROVE  Counted(p)'
    <2>1. Known' = Known BY <1>1 DEF Known
    <2>2. \A p \in Known : KnownInTime(p)' <=> KnownInTime(p)
      BY <1>1 DEF KnownInTime
    <2>3. lastSweep' <= now' /\ now' <= lastSweep' + SweepEvery
      BY <1>1, <1>2, <1>3, Intervals
    <2> QED BY <1>1, <1>4, <2>1, <2>2, <2>3 DEF SweepInv
  <1> DEFINE w == postedAt[p] + FreezeOpens
             k == Swept(p)
             m == Swept(p)'
             L == Cliff - FreezeOpens
  <1>5. /\ p \in Posts /\ k \in Nat /\ w \in Nat /\ postedAt[p] \in Nat
        /\ L \in Nat /\ L = Cliff - FreezeOpens /\ FreezeOpens \in Nat /\ Cliff \in Nat
    BY SweptType, AgesOrdered DEF Known, TypeInv, TypeOK, Causal, Published, Times
  <1>6. m = IF p \in Freezes(job'[r]) THEN k + 1 ELSE k
    BY <1>5, SweptAtStart
  <1>7. k >= Slack \/ lastSweep < w + k * SweepEvery
    BY <1>4 DEF SweepInv, Counted
  <1>8. m >= Slack \/ lastSweep' < w + m * SweepEvery
    <2> HIDE DEF w, k, m, L
    <2>0. /\ SweepEvery \in Nat /\ Slack \in Nat
          /\ k * SweepEvery \in Nat /\ m * SweepEvery \in Nat
          /\ (k + 1) * SweepEvery = k * SweepEvery + SweepEvery
          /\ L < (k + 1) * SweepEvery => Slack <= k
          /\ m \in Nat
      BY <1>5, <1>6, Intervals
    <2> DEFINE x == k * SweepEvery
               y == m * SweepEvery
               z == (k + 1) * SweepEvery
    <2>1. /\ x \in Nat /\ y \in Nat /\ z = x + SweepEvery
          /\ m = k => y = x
          /\ m = k + 1 => y = z
          /\ L < z => Slack <= k
          /\ k >= Slack \/ lastSweep < w + x
      BY <1>7, <2>0
    <2>2. CASE k >= Slack BY <1>5, <1>6, <2>0, <2>2
    <2>3. CASE StartDiscover(r) /\ lastSweep' = lastSweep
      <3>1. ~(p \in Freezes(job'[r]))
        BY <2>3, StartedJob DEF Freezes
      <3> QED BY <1>6, <1>7, <2>3, <3>1
    <2>4. CASE k < Slack /\ StartMetrics(r) /\ lastSweep' = now
      <3>0. now < w + z
        <4> HIDE DEF x, z
        <4> QED BY <1>3, <1>5, <2>0, <2>1, <2>4
      <3>1. CASE now < w
        <4> HIDE DEF x, y, z
        <4>1. now < w + y BY <1>3, <1>5, <2>1, <3>1
        <4> QED BY <2>4, <4>1 DEF y
      <3>2. CASE now >= w /\ now < postedAt[p] + Cliff
        <4>1. InFreezeWindow(Age(p))
          BY <1>3, <1>5, <3>2 DEF InFreezeWindow, Age, w
        <4>2. m = k + 1 BY <1>4, <1>6, <2>4, <4>1, SweepOwes
        <4>3. y = z BY <2>1, <4>2
        <4> HIDE DEF x, y, z
        <4>4. lastSweep' < w + y BY <2>4, <3>0, <4>3
        <4> QED BY <4>4 DEF y
      <3>3. CASE now >= postedAt[p] + Cliff
        <4>0. w = postedAt[p] + FreezeOpens /\ L = Cliff - FreezeOpens BY DEF w, L
        <4> HIDE DEF x, y, z
        <4>1. z \in Nat BY <2>0, <2>1
        <4>2. L < z BY <1>3, <1>5, <3>0, <3>3, <4>0, <4>1
        <4> QED BY <1>5, <2>0, <2>1, <2>4, <4>2
      <3> QED BY <1>3, <1>5, <3>1, <3>2, <3>3
    <2> QED BY <1>2, <1>5, <2>0, <2>2, <2>3, <2>4
  <1> QED BY <1>1, <1>8 DEF Counted

LEMMA EndSweep ==
    ASSUME TypeInv, LifeInv, SweepInv, NEW r \in Runners,
           Commit(r) \/ RollBack(r)
    PROVE  SweepInv'
  <1>1. now' = now /\ postedAt' = postedAt /\ lastSweep' = lastSweep
    BY DEF Commit, RollBack, xVars
  <1>2. /\ job' = [job EXCEPT ![r] = NoJob]
        /\ missed' = MissedAfter(job[r], frozenAt')
    BY DEF Commit, RollBack, postVars
  <1>3. /\ now \in Nat /\ lastSweep \in Nat /\ lastSweep <= now
        /\ now <= lastSweep + SweepEvery
    BY DEF TypeInv, TypeOK, Times, SweepInv
  <1>4. SUFFICES ASSUME NEW p \in Known', KnownInTime(p)', frozenAt'[p] = None
                 PROVE  Counted(p)'
    BY <1>1, <1>3, <1>4 DEF SweepInv
  <1>5. p \in Posts BY DEF Known
  <1>6. Swept(p)' >= Slack \/ Swept(p)' = Swept(p)
    BY <1>2, <1>4, <1>5, SweptAtEnd
  <1>7. \/ firstSeen'[p] = firstSeen[p]
        \/ /\ firstSeen'[p] \in Nat /\ job[r].started \in Nat /\ postedAt[p] \in Nat
           /\ job[r].started <= firstSeen'[p] /\ now <= job[r].started + RunLimit
    <2>1. CASE RollBack(r) BY <2>1 DEF RollBack, postVars
    <2>2. CASE Commit(r) /\ ~(job[r].task = "discover" /\ \E s \in job[r].inserts : s.post = p)
      BY <1>5, <2>2 DEF Commit, FirstSeenAfter
    <2>3. CASE Commit(r) /\ job[r].task = "discover" /\ \E s \in job[r].inserts : s.post = p
      <3>1. \A s \in job[r].inserts : s.at \in Nat /\ job[r].started <= s.at
        BY DEF LifeInv, InTime, TypeInv, TypeOK, Job, Snapshot, Times
      <3>2. job[r].started \in Nat /\ now <= job[r].started + RunLimit
        BY <2>3 DEF LifeInv, InTime, Commit
      <3>3. postedAt[p] \in Nat
        BY <2>3 DEF TypeInv, TypeOK, Causal, Published, Times
      <3> QED BY <1>5, <2>3, <3>1, <3>2, <3>3 DEF Commit, FirstSeenAfter
    <2> QED BY <2>1, <2>2, <2>3
  <1>8. frozenAt[p] = None
    <2>1. CASE RollBack(r) BY <1>4, <2>1 DEF RollBack, postVars
    <2>2. CASE Commit(r)
      <3>1. FreezeRows(job[r], p) # {} =>
               (CHOOSE s \in FreezeRows(job[r], p) : TRUE).at \in Times
        BY DEF FreezeRows, Snapshot, TypeInv, TypeOK, Job
      <3> QED BY <1>4, <1>5, <2>2, <3>1, NoneIsNoTime DEF Commit, FrozenAfter, Times
    <2> QED BY <2>1, <2>2
  <1>9. CASE firstSeen'[p] = firstSeen[p]
    <2>1. p \in Known /\ KnownInTime(p)
      BY <1>1, <1>4, <1>9 DEF Known, KnownInTime
    <2>2. Counted(p) BY <1>8, <2>1 DEF SweepInv
    <2> QED BY <1>1, <1>6, <2>2 DEF Counted
  <1>10. CASE /\ firstSeen'[p] \in Nat /\ job[r].started \in Nat /\ postedAt[p] \in Nat
              /\ job[r].started <= firstSeen'[p] /\ now <= job[r].started + RunLimit
    <2>1. firstSeen'[p] + RunLimit < postedAt[p] + FreezeOpens
      BY <1>1, <1>4 DEF KnownInTime
    <2>2. lastSweep < postedAt[p] + FreezeOpens
      BY <1>3, <1>10, <2>1, CollectionAssumption, AgesOrdered
    <2>3. CASE Swept(p)' = Swept(p)
      <3> DEFINE x == Swept(p)' * SweepEvery
      <3>1. x \in Nat BY <1>5, <2>3, SweptType, Intervals
      <3> HIDE DEF x
      <3>2. lastSweep < postedAt[p] + FreezeOpens + x
        BY <1>3, <1>10, <2>2, <3>1, AgesOrdered
      <3> QED BY <1>1, <3>2 DEF Counted, x
    <2> QED BY <1>6, <2>3 DEF Counted
  <1> QED BY <1>7, <1>9, <1>10

LEMMA TickSweep ==
    ASSUME TypeInv, SweepInv, Tick
    PROVE  SweepInv'
  <1>1. /\ now' = now + 1 /\ now - lastSweep < SweepEvery
        /\ lastSweep' = lastSweep /\ missed' = missed /\ firstSeen' = firstSeen
        /\ frozenAt' = frozenAt /\ postedAt' = postedAt /\ job' = job
    BY DEF Tick, xVars, postVars, history
  <1>2. lastSweep' <= now' /\ now' <= lastSweep' + SweepEvery
    BY <1>1, Intervals DEF SweepInv, TypeInv, TypeOK, Times
  <1>3. Known' = Known BY <1>1 DEF Known
  <1>4. \A p \in Known : /\ KnownInTime(p)' <=> KnownInTime(p)
                         /\ Counted(p)' <=> Counted(p)
    BY <1>1 DEF KnownInTime, Counted, Swept, Owing, Freezes
  <1> QED BY <1>1, <1>2, <1>3, <1>4 DEF SweepInv

LEMMA SweepStep == TypeInv /\ LifeInv /\ SweepInv /\ [Next]_vars => SweepInv'
  <1> SUFFICES ASSUME TypeInv, LifeInv, SweepInv, [Next]_vars PROVE SweepInv'
    OBVIOUS
  <1>1. CASE Tick BY <1>1, TickSweep
  <1>2. CASE Publish
    <2>1. /\ now' = now /\ lastSweep' = lastSweep /\ missed' = missed
          /\ firstSeen' = firstSeen /\ frozenAt' = frozenAt /\ job' = job
      BY <1>2 DEF Publish, postVars, history
    <2>2. \A p \in Known : postedAt'[p] = postedAt[p]
      BY <1>2 DEF Publish, TypeInv, TypeOK, Causal, Known, Published
    <2> QED BY <2>1, <2>2, SweepQuiet
  <1>3. CASE UNCHANGED vars
    BY <1>3, SweepQuiet DEF vars, xVars, postVars, history
  <1>4. ASSUME NEW r \in Runners, RunnerStep(r) PROVE SweepInv'
    <2>1. CASE StartMetrics(r) \/ StartDiscover(r) BY <2>1, StartSweep
    <2>2. CASE Commit(r) \/ Conflict(r) \/ Crash(r)
      BY <2>2, EndSweep DEF Conflict, Crash
    <2>3. CASE \/ Refused(r) \/ RateLimited(r) \/ RequestFails(r)
               \/ Fetch(r) \/ FetchWithheld(r)
               \/ WriteDiscover(r) \/ WriteMetrics(r)
      <3>1. /\ job' = [job EXCEPT ![r] = job'[r]] /\ job'[r].due = job[r].due
            /\ now' = now /\ postedAt' = postedAt /\ UNCHANGED postVars
        BY <2>3, RequestedJob, WrittenJob
      <3>2. lastSweep' = lastSweep /\ missed' = missed
        BY <2>3 DEF Refused, RateLimited, RequestFails, Fetch, FetchWithheld, Answered,
                    WriteDiscover, WriteMetrics, history
      <3>3. \A q \in Runners : job'[q].due = job[q].due
        BY <3>1 DEF TypeInv, TypeOK
      <3> QED BY <3>1, <3>2, <3>3, SweepQuiet DEF postVars
    <2> QED BY <1>4, <2>1, <2>2, <2>3 DEF RunnerStep
  <1> QED BY <1>1, <1>2, <1>3, <1>4 DEF Next

LEMMA SweepAlways == Spec => []SweepInv
  BY InitSweep, SweepStep, Typing, LifeAlways, PTL DEF Spec

(* Past the cliff and the last run that started before it, nothing owes the  *)
(* freeze any more: every sweep of the window has ended without it.          *)
LEMMA LossExplained ==
    ASSUME TypeInv, LifeInv, SweepInv, NEW p \in Known, Lost(p)
    PROVE  missed[p] >= Slack
  <1>1. /\ p \in Posts /\ postedAt[p] \in Nat /\ now \in Nat /\ lastSweep \in Nat
        /\ FreezeOpens \in Nat /\ Cliff \in Nat /\ RunLimit \in Nat
        /\ FreezeOpens < Cliff
    BY CollectionAssumption, AgesOrdered
       DEF Known, TypeInv, TypeOK, Causal, Published, Times
  <1>2. KnownInTime(p) /\ frozenAt[p] = None /\ now >= postedAt[p] + Cliff + RunLimit
    BY DEF Lost, KnownInTime
  <1>3. Owing(p) = {}
    <2> SUFFICES ASSUME NEW r \in Runners, p \in Freezes(job[r]) PROVE FALSE
      BY DEF Owing
    <2>1. InTime(r) BY DEF LifeInv
    <2>2. job[r].pc # "idle" BY <2>1 DEF InTime, Freezes
    <2>3. /\ job[r].started \in Nat /\ now <= job[r].started + RunLimit
          /\ job[r].started - postedAt[p] < Cliff
      BY <2>1, <2>2 DEF InTime, InFreezeWindow
    <2> QED BY <1>1, <1>2, <2>3
  <1>4. Swept(p) = missed[p] /\ missed[p] \in Nat
    BY <1>1, <1>3, FS_EmptySet DEF Swept, TypeInv, TypeOK
  <1>5. Counted(p) BY <1>2 DEF SweepInv
  <1>6. CASE lastSweep < postedAt[p] + FreezeOpens + missed[p] * SweepEvery
    <2> DEFINE k == missed[p]
               x == k * SweepEvery
               z == (k + 1) * SweepEvery
    <2>1. /\ x \in Nat /\ z = x + SweepEvery /\ SweepEvery \in Nat
          /\ Cliff - FreezeOpens < z => Slack <= k
      BY <1>4, Intervals
    <2>2. now <= lastSweep + SweepEvery BY DEF SweepInv
    <2>3. lastSweep < postedAt[p] + FreezeOpens + x BY <1>6
    <2>4. Slack <= k
      <3> HIDE DEF k, x, z
      <3>1. Cliff - FreezeOpens < z BY <1>1, <1>2, <2>1, <2>2, <2>3
      <3> QED BY <2>1, <3>1
    <2> QED BY <1>4, <2>4, Intervals
  <1> QED BY <1>4, <1>5, <1>6 DEF Counted

(* A post in the database before its freeze window opens passes the cliff    *)
(* unfrozen only when every sweep the window has room for owed it the freeze *)
(* and ended without it: no interleaving of runs, crash or conflict skips a  *)
(* post silently (_posts_due, the beat schedule, _write_snapshot).           *)
THEOREM LossAlwaysNeedsMisses == Spec => []LossNeedsMisses
  <1>1. TypeInv /\ LifeInv /\ SweepInv => LossNeedsMisses
    BY LossExplained DEF LossNeedsMisses
  <1> QED BY <1>1, Typing, LifeAlways, SweepAlways, PTL

-----------------------------------------------------------------------------
(* A cycle that is cut short loses no freeze                                 *)

(* What a run was told to do: one decision per post, and only freezes have   *)
(* the freeze's priority.                                                    *)
DueShape(due) ==
    /\ \A d \in due : d.freeze <=> d.priority = FinalFreeze
    /\ \A d, e \in due : d.post = e.post => d = e

Before(due, d) == {e \in due : Precedes(e, d)}

LEMMA PrecedesOrder ==
    ASSUME NEW due \in SUBSET Decision, DueShape(due)
    PROVE  /\ \A d \in due : ~Precedes(d, d)
           /\ \A d, e, f \in due : Precedes(d, e) /\ Precedes(e, f) => Precedes(d, f)
           /\ \A d, e \in due : d = e \/ Precedes(d, e) \/ Precedes(e, d)
           /\ \A d, e \in due : Precedes(e, d) /\ d.freeze => e.freeze
  <1>1. \A d \in due : /\ d.priority \in Nat /\ d.priority >= FinalFreeze
                       /\ d.post \in Nat
    BY DEF Decision, Posts, Priorities, FinalFreeze, Mature
  <1>2. \A d \in due : ~Precedes(d, d)
    BY <1>1 DEF Precedes
  <1>3. \A d, e, f \in due : Precedes(d, e) /\ Precedes(e, f) => Precedes(d, f)
    BY <1>1 DEF Precedes
  <1>4. \A d, e \in due : d = e \/ Precedes(d, e) \/ Precedes(e, d)
    BY <1>1 DEF Precedes, DueShape
  <1>5. ASSUME NEW d \in due, NEW e \in due, Precedes(e, d), d.freeze PROVE e.freeze
    <2>1. d.priority = FinalFreeze BY <1>5 DEF DueShape
    <2>2. e.priority = FinalFreeze BY <1>1, <1>5, <2>1 DEF Precedes
    <2> QED BY <2>2 DEF DueShape
  <1> QED BY <1>2, <1>3, <1>4, <1>5

LEMMA DueFinite ==
    ASSUME NEW due \in SUBSET Decision, DueShape(due)
    PROVE  IsFiniteSet(due)
  <1> DEFINE f == [d \in due |-> d.post]
  <1>1. f \in [due -> Posts] BY DEF Decision
  <1>2. \A d, e \in due : f[d] = f[e] => d = e
    BY DEF DueShape
  <1>3. f \in Injection(due, Posts)
    <2> HIDE DEF f
    <2> QED BY <1>1, <1>2 DEF Injection, IsInjective
  <1>4. IsFiniteSet(Posts) BY FS_Interval, CollectionAssumption DEF Posts
  <1> QED BY <1>3, <1>4, FS_Injection

(* A decision is cut off only after a whole cycle's worth of others that     *)
(* come before it: they are served.                                          *)
LEMMA CutOff ==
    ASSUME NEW due \in SUBSET Decision, DueShape(due),
           NEW d \in due, d \notin Served(due)
    PROVE  \E S \in SUBSET Served(due) :
              /\ IsFiniteSet(S) /\ Cardinality(S) >= MaxPerCycle
              /\ \A e \in S : Precedes(e, d)
  <1> DEFINE rank(e) == Cardinality(Before(due, e))
             U == {e \in due \ Served(due) : e = d \/ Precedes(e, d)}
             T == {rank(e) : e \in U}
  <1>1. \A e \in due : IsFiniteSet(Before(due, e)) /\ rank(e) \in Nat
    BY DueFinite, FS_Subset, FS_CardinalityType DEF Before
  <1>2. T \in SUBSET Nat /\ T # {}
    BY <1>1
  <1>3. PICK n \in T : \A m \in T : n <= m
    BY <1>2, LeastNatural
  <1>4. PICK e \in U : rank(e) = n
    OBVIOUS
  <1>5. ASSUME NEW x \in Before(due, e) PROVE x \in Served(due) /\ Precedes(x, d)
    <2>1. x \in due /\ Precedes(x, e) BY <1>5 DEF Before
    <2>2. Precedes(x, d)
      BY <1>4, <2>1, PrecedesOrder
    <2>3. Before(due, x) \in SUBSET Before(due, e) /\ x \notin Before(due, x)
      BY <1>4, <2>1, PrecedesOrder DEF Before
    <2>4. rank(x) <= rank(e) /\ rank(x) # rank(e)
      BY <1>1, <1>4, <1>5, <2>3, FS_Subset
    <2>5. x \in U => rank(x) \in T OBVIOUS
    <2>6. x \notin U
      <3>1. rank(x) \in Nat /\ rank(e) \in Nat BY <1>1, <1>4, <2>1
      <3> HIDE DEF rank, U, T
      <3> QED BY <1>3, <1>4, <2>4, <2>5, <3>1
    <2> QED BY <2>1, <2>2, <2>6
  <1>6. Cardinality(Before(due, e)) >= MaxPerCycle
    <2>1. e \in due /\ ~(Cardinality(Before(due, e)) < MaxPerCycle)
      BY <1>4 DEF Served, Before
    <2> QED BY <1>1, <2>1, CollectionAssumption
  <1> QED BY <1>1, <1>4, <1>5, <1>6

LEMMA StartedShape ==
    ASSUME TypeInv
    PROVE  /\ DueShape(PostsDue)
           /\ \A d \in PostsDue : frozenAt[d.post] = None
  <1>1. SUFFICES ASSUME NEW q \in Candidates,
                        Due(Age(q), SinceLast(q), frozenAt[q] # None, BudgetState)
                 PROVE  /\ DecisionFor(q).freeze <=> DecisionFor(q).priority = FinalFreeze
                        /\ DecisionFor(q).post = q
                        /\ frozenAt[q] = None
    <2>1. \A d \in PostsDue : /\ d.freeze <=> d.priority = FinalFreeze
                              /\ d = DecisionFor(d.post)
                              /\ frozenAt[d.post] = None
      <3> TAKE d \in PostsDue
      <3>1. PICK q \in Candidates : /\ Due(Age(q), SinceLast(q), frozenAt[q] # None, BudgetState)
                                    /\ d = DecisionFor(q)
        BY DEF PostsDue
      <3> QED BY <1>1, <3>1
    <2> QED BY <2>1 DEF DueShape
  <1> DEFINE frz == frozenAt[q] # None
  <1>2. q \in Posts /\ frozenAt[q] = None /\ Age(q) \in Nat
    BY NoneIsNoTime DEF Candidates, Known, TypeInv, TypeOK, Causal, Age, Times, Published
  <1>3. everImp[q] \in BOOLEAN /\ frz \in BOOLEAN /\ BudgetState \in BudgetStates
    BY <1>2 DEF TypeInv, TypeOK, BudgetState, BudgetStates
  <1>4. FreezeDue(Age(q), frz) => PriorityOf(Age(q), SinceLast(q), frz, everImp[q]) = FinalFreeze
    BY DEF PriorityOf
  <1>5. ~FreezeDue(Age(q), frz) =>
           /\ PriorityOf(Age(q), SinceLast(q), frz, everImp[q]) \in Priorities
           /\ PriorityOf(Age(q), SinceLast(q), frz, everImp[q]) > FinalFreeze
    BY <1>1, <1>2, <1>3, OnlyFreezesOutrank
  <1>6. FinalFreeze \in Int /\ Priorities \subseteq Int
    BY DEF FinalFreeze, Priorities, Mature
  <1> QED BY <1>2, <1>4, <1>5, <1>6 DEF DecisionFor

(* The calm conditions of TruncationLosesNothing: no fault so far, one       *)
(* worker, room for a page, and pages that hold every post.                  *)
Calm ==
    /\ faults = 0 /\ Cardinality(Runners) = 1
    /\ spent + PageSize <= budget
    /\ PostLimit <= PageSize

Frozen == {q \in Posts : frozenAt[q] # None}

(* The run of the one worker goes through: nobody else freezes what it owes, *)
(* it is not refused, its page has the posts, its rows are new, and each     *)
(* freeze it serves has its row.                                             *)
Smooth(r) ==
    LET j == job[r]
    IN  /\ \A d \in j.due : frozenAt[d.post] = None
        /\ j.task = "metrics" =>
              /\ j.pc = "request" => j.own = 0
              /\ j.pc = "response" => \A d \in j.due : d.post \in j.page
              /\ j.pc = "commit" =>
                    \A d \in Served(j.due) : d.freeze => FreezeRows(j, d.post) # {}
              /\ \A s \in j.inserts : \A t \in snaps : ~(t.post = s.post /\ t.at = s.at)

(* Each sweep that failed an unfrozen post froze a cycle's worth of others.  *)
FrozenCount ==
    \A p \in Posts : frozenAt[p] = None => MaxPerCycle * missed[p] <= Cardinality(Frozen)

Fit(j) == DueShape(j.due) /\ (j.task = "metrics" \/ j.due = {})

CalmInv ==
    /\ \A r \in Runners : Fit(job[r])
    /\ Calm => FrozenCount /\ \A r \in Runners : Smooth(r)

LEMMA InitCalm == Init => CalmInv
  <1> SUFFICES ASSUME Init PROVE CalmInv
    OBVIOUS
  <1>1. \A r \in Runners : job[r] = NoJob BY DEF Init
  <1>2. \A r \in Runners : DueShape(job[r].due) /\ Smooth(r) /\ job[r].due = {}
    BY <1>1, NoJobFields DEF DueShape, Smooth
  <1>3. Frozen = {} /\ \A p \in Posts : missed[p] = 0 BY DEF Init, Frozen
  <1>4. FrozenCount
    BY <1>3, FS_EmptySet, CollectionAssumption DEF FrozenCount
  <1> QED BY <1>2, <1>4 DEF CalmInv, Fit

(* The worker is alone.                                                      *)
LEMMA Alone ==
    ASSUME Calm, NEW r \in Runners, NEW q \in Runners
    PROVE  q = r
  <1>1. \E x : Runners = {x}
    BY FS_Singleton, CollectionAssumption DEF Calm
  <1> QED BY <1>1

LEMMA CalmOwnJob ==
    ASSUME TypeInv, CalmInv, NEW r \in Runners,
           job' = [job EXCEPT ![r] = job'[r]], UNCHANGED postVars,
           missed' = missed, Fit(job'[r]),
           Calm' => Calm /\ Smooth(r)'
    PROVE  CalmInv'
  <1>1. \A q \in Runners : q # r => job'[q] = job[q]
    BY DEF TypeInv, TypeOK
  <1>2. ASSUME NEW q \in Runners PROVE Fit(job'[q])
    <2>1. CASE q = r BY <2>1
    <2>2. CASE q # r
      <3>1. Fit(job[q]) BY DEF CalmInv
      <3> QED BY <1>1, <2>2, <3>1
    <2> QED BY <2>1, <2>2
  <1>3. ASSUME Calm' PROVE FrozenCount' /\ \A q \in Runners : Smooth(q)'
    <2>1. Calm /\ Smooth(r)' BY <1>3
    <2>2. FrozenCount' BY <2>1 DEF CalmInv, FrozenCount, Frozen, postVars
    <2>3. \A q \in Runners : q = r BY <2>1, Alone
    <2> QED BY <2>1, <2>2, <2>3
  <1> QED BY <1>2, <1>3 DEF CalmInv, Fit, DueShape

LEMMA StartCalm ==
    ASSUME TypeInv, CalmInv, NEW r \in Runners, StartMetrics(r) \/ StartDiscover(r)
    PROVE  CalmInv'
  <1>1. /\ job' = [job EXCEPT ![r] = job'[r]] /\ UNCHANGED postVars
        /\ job'[r].pc \in {"request", "commit"} /\ job'[r].inserts = {}
        /\ job'[r].own = 0 /\ (job'[r].pc = "commit" => job'[r].due = {})
        /\ job'[r].due \in {PostsDue, {}}
        /\ job'[r].task = "metrics" \/ job'[r].due = {}
    BY StartedJob
  <1>2. missed' = missed /\ (Calm' => Calm)
    BY DEF StartMetrics, StartDiscover, history, Calm
  <1>3. Fit(job'[r])
    <2>1. DueShape(PostsDue) /\ DueShape({}) BY StartedShape DEF DueShape
    <2>2. CASE job'[r].due = {} BY <2>1, <2>2 DEF Fit
    <2>3. CASE job'[r].due = PostsDue BY <1>1, <2>1, <2>3 DEF Fit
    <2> QED BY <1>1, <2>2, <2>3
  <1>4. Smooth(r)'
    <2>1. \A d \in job'[r].due : frozenAt'[d.post] = None
      BY <1>1, StartedShape DEF postVars
    <2>2. Served({}) = {} BY DEF Served
    <2> QED BY <1>1, <2>1, <2>2 DEF Smooth
  <1> QED BY <1>1, <1>2, <1>3, <1>4, CalmOwnJob

(* A page that can hold every post holds every published one.                *)
LEMMA FullPage ==
    ASSUME NEW S \in SUBSET Posts, PostLimit <= PageSize
    PROVE  Newest(S, PageSize) = S
  <1>1. IsFiniteSet(Posts) /\ Cardinality(Posts) = PostLimit
    BY FS_Interval, CollectionAssumption DEF Posts
  <1>2. ASSUME NEW p \in S PROVE Cardinality({q \in S : q > p}) < PageSize
    <2> DEFINE newer == {q \in S : q > p}
    <2>1. newer \in SUBSET (Posts \ {p})
      <3>1. p \in Nat BY DEF Posts
      <3>2. ~(p > p) BY <3>1
      <3>3. p \notin newer BY <3>2
      <3> QED BY <3>3
    <2>2. IsFiniteSet(Posts \ {p}) /\ Cardinality(Posts \ {p}) = PostLimit - 1
      BY <1>1, FS_RemoveElement
    <2>3. Cardinality(newer) <= PostLimit - 1 /\ Cardinality(newer) \in Nat
      BY <2>1, <2>2, FS_Subset, FS_CardinalityType
    <2> QED BY <2>3, CollectionAssumption
  <1> QED BY <1>2 DEF Newest

LEMMA RequestCalm ==
    ASSUME TypeInv, CalmInv, NEW r \in Runners,
           \/ Refused(r) \/ RateLimited(r) \/ RequestFails(r)
           \/ Fetch(r) \/ FetchWithheld(r)
    PROVE  CalmInv'
  <1>1. /\ job' = [job EXCEPT ![r] = job'[r]] /\ UNCHANGED postVars
        /\ job[r].pc = "request"
        /\ job'[r].due = job[r].due /\ job'[r].task = job[r].task
        /\ job'[r].inserts = job[r].inserts
    BY RequestedJob
  <1>2. missed' = missed /\ spent' = spent /\ budget' = budget
    BY DEF Refused, RateLimited, RequestFails, Fetch, FetchWithheld, Answered, history
  <1>3. faults' = faults \/ faults' = faults + 1
    BY DEF Refused, RateLimited, RequestFails, Fetch, FetchWithheld
  <1>4. Fit(job'[r])
    <2>1. Fit(job[r]) BY DEF CalmInv
    <2> QED BY <1>1, <2>1 DEF Fit
  <1>5. ASSUME Calm' PROVE Calm /\ Smooth(r)'
    <2>1. Calm BY <1>2, <1>3, <1>5 DEF Calm, TypeInv, TypeOK
    <2>2. Smooth(r) BY <2>1 DEF CalmInv
    <2>3. Refused(r) \/ Fetch(r)
      <3>1. faults = 0 /\ faults' = 0 BY <1>5, <2>1 DEF Calm
      <3> QED BY <3>1 DEF RateLimited, RequestFails, FetchWithheld
    <2>4. CASE job[r].task # "metrics"
      BY <1>1, <2>1, <2>2, <2>4 DEF Smooth, postVars
    <2>5. CASE job[r].task = "metrics" /\ Refused(r)
      <3>1. job[r].own = 0 BY <1>1, <2>2, <2>5 DEF Smooth
      <3>2. Affordable(r)
        BY <2>1, <3>1, CollectionAssumption DEF Affordable, Calm, TypeInv, TypeOK
      <3> QED BY <2>5, <3>2 DEF Refused
    <2>6. CASE job[r].task = "metrics" /\ Fetch(r)
      <3>1. /\ job'[r].pc = "response" /\ job'[r].page = Page(r)
        <4>1. job[r] \in Job BY DEF TypeInv, TypeOK
        <4>2. PICK private : Answered(r, private) BY <2>6 DEF Fetch
        <4> DEFINE page == Page(r)
                   k == [job[r] EXCEPT !.pc = "response", !.page = page,
                                       !.private = private,
                                       !.own = job[r].own + Cardinality(page)]
        <4>3. job'[r] = k BY <4>2 DEF Answered, TypeInv, TypeOK
        <4> HIDE DEF page
        <4>4. k.pc = "response" /\ k.page = page BY <4>1 DEF Job
        <4> QED BY <4>3, <4>4 DEF page
      <3>2. Page(r) = Published
        BY <2>1, <2>6, FullPage, TimelineType DEF Calm, Page, Timeline
      <3>3. \A d \in job[r].due : d.post \in Page(r)
        BY <3>2 DEF TypeInv, Causal
      <3> QED BY <1>1, <2>1, <2>2, <2>6, <3>1, <3>3 DEF Smooth, postVars
    <2> QED BY <2>1, <2>3, <2>4, <2>5, <2>6
  <1> QED BY <1>1, <1>2, <1>4, <1>5, CalmOwnJob

LEMMA WriteCalm ==
    ASSUME TypeInv, MarksInv, CalmInv, NEW r \in Runners,
           WriteDiscover(r) \/ WriteMetrics(r)
    PROVE  CalmInv'
  <1>1. /\ job' = [job EXCEPT ![r] = job'[r]] /\ UNCHANGED postVars
        /\ job[r].pc = "response"
        /\ job'[r].due = job[r].due /\ job'[r].task = job[r].task
    BY WrittenJob
  <1>2. missed' = missed /\ spent' = spent /\ budget' = budget /\ faults' = faults
    BY DEF WriteDiscover, WriteMetrics, history
  <1>3. Fit(job'[r])
    <2>1. Fit(job[r]) BY DEF CalmInv
    <2> QED BY <1>1, <2>1 DEF Fit
  <1>4. ASSUME Calm' PROVE Calm /\ Smooth(r)'
    <2>1. Calm BY <1>2, <1>4 DEF Calm
    <2>2. Smooth(r) BY <2>1 DEF CalmInv
    <2>3. CASE job[r].task # "metrics"
      BY <1>1, <2>1, <2>2, <2>3 DEF Smooth, postVars
    <2>4. CASE job[r].task = "metrics"
      <3>1. WriteMetrics(r) BY <2>4 DEF WriteDiscover
      <3> DEFINE work == {d \in Served(job[r].due) : d.post \in job[r].page}
                 ins  == ToInsert(work, job[r].private)
                 fl   == ToFlag(work)
                 k == [job[r] EXCEPT !.pc = "commit",
                                     !.status = IF work = job[r].due THEN "succeeded"
                                                ELSE "partial",
                                     !.page = {}, !.private = {},
                                     !.inserts = ins, !.flags = fl]
      <3>2. job'[r] = k BY <3>1 DEF WriteMetrics, TypeInv, TypeOK
      <3>3. work \in SUBSET job[r].due BY DEF Served
      <3>4. \A d \in Served(job[r].due) : d \in work
        BY <1>1, <2>2, <2>4 DEF Smooth, Served
      <3>5. \A d \in work : d.post \in job[r].page OBVIOUS
      <3> HIDE DEF work
      <3>6. \A d \in work : d.freeze =>
               \/ frozenAt[d.post] # None
               \/ \E s \in ins : s.post = d.post /\ s.freeze
               \/ \E s \in fl : s.post = d.post
        BY <3>3, ServedFreeze
      <3>7. \A s \in ins : \A t \in snaps : ~(t.post = s.post /\ t.at = s.at)
        <4>1. \A s \in ins : s.at = now /\ Existing(s.post) = {}
          BY <3>3, <3>5, InsertedRows
        <4> QED BY <4>1 DEF Existing
      <3> HIDE DEF ins, fl
      <3>8. k.pc = "commit" /\ k.inserts = ins /\ k.flags = fl
        <4>1. job[r] \in Job BY DEF TypeInv, TypeOK
        <4> QED BY <4>1 DEF Job
      <3> HIDE DEF k
      <3>9. \A d \in Served(job[r].due) : d.freeze => FreezeRows(job'[r], d.post) # {}
        <4>1. \A d \in job[r].due : frozenAt[d.post] = None BY <2>2 DEF Smooth
        <4>2. \A d \in Served(job[r].due) : d.freeze =>
                 \E s \in ins \cup fl : s.post = d.post /\ (s.freeze \/ s \in fl)
          BY <3>3, <3>4, <3>6, <4>1
        <4> QED BY <3>2, <3>8, <4>2 DEF FreezeRows
      <3>10. /\ \A d \in job'[r].due : frozenAt'[d.post] = None
             /\ \A s \in job'[r].inserts : \A t \in snaps' : ~(t.post = s.post /\ t.at = s.at)
             /\ \A d \in Served(job'[r].due) : d.freeze => FreezeRows(job'[r], d.post) # {}
             /\ job'[r].pc = "commit"
        BY <1>1, <2>2, <3>2, <3>7, <3>8, <3>9 DEF Smooth, postVars
      <3> QED BY <2>1, <3>10 DEF Smooth, FreezeRows
    <2> QED BY <2>1, <2>3, <2>4
  <1> QED BY <1>1, <1>2, <1>3, <1>4, CalmOwnJob

(* The commit of a run that cut off a freeze it owed froze a cycle's worth   *)
(* of other posts.                                                           *)
LEMMA CutOffFreezes ==
    ASSUME TypeInv, CalmInv, Calm, NEW r \in Runners, Commit(r),
           NEW p \in Posts, p \in Freezes(job[r]), frozenAt'[p] = None
    PROVE  /\ IsFiniteSet(Frozen') /\ Cardinality(Frozen) \in Nat
           /\ Cardinality(Frozen') \in Nat
           /\ Cardinality(Frozen') >= Cardinality(Frozen) + MaxPerCycle
  <1> DEFINE due == job[r].due
             fresh == Frozen' \ Frozen
  <1>0. job[r] \in Job /\ due \in SUBSET Decision /\ DueShape(due) /\ job[r].pc = "commit"
    <2>1. Fit(job[r]) BY DEF CalmInv
    <2> QED BY <2>1 DEF Fit, TypeInv, TypeOK, Job, Commit
  <1>1. PICK d \in due : d.post = p /\ d.freeze BY DEF Freezes
  <1>2. job[r].task = "metrics" BY <1>1 DEF CalmInv, Fit
  <1>3. Smooth(r) BY DEF CalmInv
  <1>4. \A q \in Posts : FreezeRows(job[r], q) # {} => frozenAt'[q] # None
    <2> TAKE q \in Posts
    <2>1. FreezeRows(job[r], q) # {} =>
             (CHOOSE s \in FreezeRows(job[r], q) : TRUE).at \in Times
      BY <1>0 DEF FreezeRows, Snapshot, Job
    <2> QED BY <2>1, NoneIsNoTime DEF Commit, FrozenAfter, Times
  <1>5. \A q \in Posts : frozenAt[q] # None => frozenAt'[q] # None
    BY <1>4 DEF Commit, FrozenAfter
  <1>6. \A e \in Served(due) : e.freeze => e.post \in fresh
    <2> TAKE e \in Served(due)
    <2>1. e \in due /\ e.post \in Posts BY <1>0 DEF Served, Decision
    <2>2. frozenAt[e.post] = None BY <1>3, <2>1 DEF Smooth
    <2>3. e.freeze => FreezeRows(job[r], e.post) # {}
      BY <1>0, <1>2, <1>3 DEF Smooth
    <2> QED BY <1>4, <2>1, <2>2, <2>3 DEF Frozen
  <1>7. d \notin Served(due)
    BY <1>1, <1>6 DEF Frozen
  <1>8. PICK S \in SUBSET Served(due) :
           /\ IsFiniteSet(S) /\ Cardinality(S) >= MaxPerCycle
           /\ \A e \in S : Precedes(e, d)
    BY <1>0, <1>1, <1>7, CutOff
  <1>9. \A e \in S : e \in due /\ e.post \in fresh
    <2>1. \A e \in S : e \in due BY <1>8 DEF Served
    <2>2. \A e \in S : e.freeze BY <1>0, <1>1, <1>8, <2>1, PrecedesOrder
    <2> QED BY <1>6, <1>8, <2>1, <2>2
  <1>10. IsFiniteSet(Posts) BY FS_Interval, CollectionAssumption DEF Posts
  <1>11. /\ IsFiniteSet(Frozen) /\ IsFiniteSet(Frozen') /\ IsFiniteSet(fresh)
         /\ Cardinality(Frozen) \in Nat /\ Cardinality(Frozen') \in Nat
         /\ Cardinality(fresh) \in Nat
    <2>1. Frozen \in SUBSET Posts /\ Frozen' \in SUBSET Posts BY DEF Frozen
    <2>2. fresh \in SUBSET Posts BY <2>1
    <2> HIDE DEF fresh
    <2> QED BY <1>10, <2>1, <2>2, FS_Subset, FS_CardinalityType
  <1>12. Cardinality(S) <= Cardinality(fresh)
    <2> DEFINE f == [e \in S |-> e.post]
    <2>1. f \in [S -> fresh] BY <1>9
    <2>2. \A e, g \in S : f[e] = f[g] => e = g BY <1>0, <1>9 DEF DueShape
    <2>3. f \in Injection(S, fresh)
      <3> HIDE DEF f, fresh
      <3> QED BY <2>1, <2>2 DEF Injection, IsInjective
    <2> HIDE DEF f, fresh
    <2> QED BY <1>11, <2>3, FS_Injection
  <1>13. Cardinality(Frozen') = Cardinality(Frozen) + Cardinality(fresh)
    <2>1. Frozen \subseteq Frozen' BY <1>5 DEF Frozen
    <2>2. Frozen' = Frozen \cup fresh /\ Frozen \cap fresh = {} BY <2>1
    <2> DEFINE A == Frozen
               B == Frozen'
    <2>3. B = A \cup fresh /\ A \cap fresh = {} BY <2>2
    <2> HIDE DEF fresh, A, B
    <2>4. Cardinality(B) = Cardinality(A) + Cardinality(fresh)
      <3>1. IsFiniteSet(A) /\ IsFiniteSet(fresh) BY <1>11 DEF A
      <3>2. Cardinality(A \cup fresh)
              = Cardinality(A) + Cardinality(fresh) - Cardinality(A \cap fresh)
        BY <3>1, FS_Union
      <3>3. Cardinality(A) \in Nat /\ Cardinality(fresh) \in Nat BY <1>11 DEF A
      <3>4. Cardinality(A \cap fresh) = 0 BY <2>3, FS_EmptySet
      <3>5. Cardinality(B) = Cardinality(A) + Cardinality(fresh) - 0
        BY <2>3, <3>2, <3>4
      <3> HIDE <2>3
      <3> QED BY <3>3, <3>5
    <2> QED BY <2>4 DEF A, B
  <1>14. MaxPerCycle \in Nat /\ Cardinality(S) \in Nat
    BY <1>8, CollectionAssumption, FS_CardinalityType
  <1> HIDE DEF fresh
  <1> QED BY <1>8, <1>11, <1>12, <1>13, <1>14

LEMMA EndCalm ==
    ASSUME TypeInv, MarksInv, CalmInv, NEW r \in Runners,
           Commit(r) \/ Conflict(r) \/ Crash(r)
    PROVE  CalmInv'
  <1>1. \A q \in Runners : job'[q] = IF q = r THEN NoJob ELSE job[q]
    BY DEF Commit, Conflict, Crash, RollBack, TypeInv, TypeOK
  <1>2. ASSUME NEW q \in Runners PROVE Fit(job'[q])
    <2>1. Fit(job[q]) BY DEF CalmInv
    <2>2. Fit(NoJob) BY NoJobFields DEF Fit, DueShape
    <2> QED BY <1>1, <2>1, <2>2
  <1>3. ASSUME Calm' PROVE FrozenCount' /\ \A q \in Runners : Smooth(q)'
    <2>1. Calm /\ ~Crash(r)
      <3>1. /\ spent \in Nat /\ spent' \in Nat /\ spent <= spent' /\ budget' = budget
            /\ budget \in Nat
        BY DEF Commit, Conflict, Crash, RollBack, SpentAfter, TypeInv, TypeOK, Job
      <3>2. /\ Crash(r) => faults' = faults + 1
            /\ ~Crash(r) => faults' = faults
            /\ faults \in Nat
        BY DEF Commit, Conflict, Crash, TypeInv, TypeOK
      <3>3. /\ faults' = 0 /\ Cardinality(Runners) = 1 /\ PostLimit <= PageSize
            /\ spent' + PageSize <= budget'
        BY <1>3 DEF Calm
      <3>4. PageSize \in Nat BY CollectionAssumption
      <3>5. spent + PageSize <= budget
        <4>1. spent' + PageSize <= budget BY <3>1, <3>3
        <4>2. /\ spent \in Nat /\ spent' \in Nat /\ budget \in Nat
              /\ spent <= spent'
          BY <3>1
        <4>3. \A a, b, c, d \in Nat : a <= b /\ b + c <= d => a + c <= d
          OBVIOUS
        <4> QED BY <3>4, <4>1, <4>2, <4>3
      <3>6. ~Crash(r) BY <3>2, <3>3
      <3>7. faults = 0 BY <3>2, <3>3, <3>6
      <3> QED BY <3>3, <3>5, <3>6, <3>7 DEF Calm
    <2>2. \A q \in Runners : q = r BY <2>1, Alone
    <2>3. \A q \in Runners : Smooth(q)'
      <3>1. job'[r] = NoJob BY <1>1
      <3>2. Smooth(r)' BY <3>1, NoJobFields DEF Smooth
      <3> QED BY <2>2, <3>2
    <2>4. CASE Conflict(r)
      <3>1. Freezes(job[r]) = {}
        <4>1. job[r].task # "metrics"
          <5>1. Smooth(r) BY <2>1 DEF CalmInv
          <5> QED BY <2>4, <5>1 DEF Conflict, Clash, Smooth
        <4>2. Fit(job[r]) BY DEF CalmInv
        <4> QED BY <4>1, <4>2 DEF Fit, Freezes
      <3>2. missed' = missed
        BY <2>4, <3>1 DEF Conflict, RollBack, MissedAfter, TypeInv, TypeOK
      <3>3. frozenAt' = frozenAt BY <2>4 DEF Conflict, RollBack, postVars
      <3>4. FrozenCount' BY <2>1, <3>2, <3>3 DEF CalmInv, FrozenCount, Frozen
      <3> QED BY <2>3, <3>4
    <2>5. CASE Commit(r)
      <3> SUFFICES ASSUME NEW p \in Posts, frozenAt'[p] = None
                   PROVE  MaxPerCycle * missed'[p] <= Cardinality(Frozen')
        BY <2>3 DEF FrozenCount
      <3>1. \A q \in Posts : frozenAt[q] # None => frozenAt'[q] # None
        <4> TAKE q \in Posts
        <4>1. FreezeRows(job[r], q) # {} =>
                 (CHOOSE s \in FreezeRows(job[r], q) : TRUE).at \in Times
          BY DEF FreezeRows, Snapshot, TypeInv, TypeOK, Job
        <4> QED BY <2>5, <4>1, NoneIsNoTime DEF Commit, FrozenAfter, Times
      <3>2. MaxPerCycle * missed[p] <= Cardinality(Frozen)
        BY <2>1, <3>1 DEF CalmInv, FrozenCount
      <3>3. /\ Cardinality(Frozen) \in Nat /\ Cardinality(Frozen') \in Nat
            /\ Cardinality(Frozen) <= Cardinality(Frozen')
        <4>1. IsFiniteSet(Posts) BY FS_Interval, CollectionAssumption DEF Posts
        <4>2. Frozen \in SUBSET Frozen' /\ Frozen' \in SUBSET Posts BY <3>1 DEF Frozen
        <4>3. IsFiniteSet(Frozen') BY <4>1, <4>2, FS_Subset
        <4> QED BY <4>2, <4>3, FS_Subset, FS_CardinalityType
      <3>4. /\ missed[p] \in Nat /\ MaxPerCycle \in Nat
            /\ \A a, b \in Nat : a * b \in Nat /\ a * (b + 1) = a * b + a
        BY CollectionAssumption DEF TypeInv, TypeOK
      <3>5. CASE missed'[p] = missed[p]
        <4> DEFINE x == MaxPerCycle * missed[p]
        <4>1. x \in Nat /\ x <= Cardinality(Frozen) /\ x = MaxPerCycle * missed'[p]
          BY <3>2, <3>4, <3>5
        <4> HIDE DEF x
        <4> QED BY <3>3, <4>1
      <3>6. CASE p \in Freezes(job[r]) /\ missed'[p] = missed[p] + 1
        <4> DEFINE x == MaxPerCycle * missed[p]
        <4>1. /\ x \in Nat /\ x <= Cardinality(Frozen)
              /\ MaxPerCycle * missed'[p] = x + MaxPerCycle
          BY <3>2, <3>4, <3>6
        <4>2. Cardinality(Frozen') >= Cardinality(Frozen) + MaxPerCycle
          BY <2>1, <2>5, <3>6, CutOffFreezes
        <4> HIDE DEF x
        <4> QED BY <3>3, <3>4, <4>1, <4>2
      <3>7. \/ missed'[p] = missed[p]
            \/ p \in Freezes(job[r]) /\ missed'[p] = missed[p] + 1
        BY <2>5 DEF Commit, MissedAfter
      <3> QED BY <3>5, <3>6, <3>7
    <2> QED BY <2>1, <2>4, <2>5
  <1> QED BY <1>2, <1>3 DEF CalmInv, Fit, DueShape

LEMMA CalmStep == TypeInv /\ MarksInv /\ CalmInv /\ [Next]_vars => CalmInv'
  <1> SUFFICES ASSUME TypeInv, MarksInv, CalmInv, [Next]_vars PROVE CalmInv'
    OBVIOUS
  <1>1. CASE Tick \/ Publish \/ UNCHANGED vars
    <2>1. /\ job' = job /\ UNCHANGED postVars /\ missed' = missed /\ faults' = faults
          /\ spent' = spent /\ budget' = budget
      BY <1>1 DEF Tick, Publish, vars, xVars, history
    <2> QED BY <2>1 DEF CalmInv, Calm, Smooth, FrozenCount, Frozen, DueShape, postVars,
                        FreezeRows, Served, Precedes
  <1>2. ASSUME NEW r \in Runners, RunnerStep(r) PROVE CalmInv'
    <2>1. CASE StartMetrics(r) \/ StartDiscover(r) BY <2>1, StartCalm
    <2>2. CASE \/ Refused(r) \/ RateLimited(r) \/ RequestFails(r)
               \/ Fetch(r) \/ FetchWithheld(r)
      BY <2>2, RequestCalm
    <2>3. CASE WriteDiscover(r) \/ WriteMetrics(r) BY <2>3, WriteCalm
    <2>4. CASE Commit(r) \/ Conflict(r) \/ Crash(r) BY <2>4, EndCalm
    <2> QED BY <1>2, <2>1, <2>2, <2>3, <2>4 DEF RunnerStep
  <1> QED BY <1>1, <1>2 DEF Next

LEMMA CalmAlways == Spec => []CalmInv
  BY InitCalm, CalmStep, Typing, MarksAlways, PTL DEF Spec

(* Freezes go first: with one worker, no faults and room in the budget, a    *)
(* cycle cut short at MAX_POSTS_PER_CYCLE never loses a freeze as long as    *)
(* the sweeps of a window have room for every post (collect_post_metrics).   *)
THEOREM TruncationNeverLoses == Spec => []TruncationLosesNothing
  <1>1. TypeInv /\ LifeInv /\ SweepInv /\ CalmInv => TruncationLosesNothing
    <2> SUFFICES ASSUME TypeInv, LifeInv, SweepInv, CalmInv, Calm,
                        PostLimit <= Slack * MaxPerCycle,
                        NEW p \in Known, Lost(p)
                 PROVE  FALSE
      BY DEF TruncationLosesNothing, Calm
    <2>1. p \in Posts /\ frozenAt[p] = None BY DEF Known, Lost
    <2>2. missed[p] >= Slack BY LossExplained
    <2>3. MaxPerCycle * missed[p] <= Cardinality(Frozen)
      BY <2>1 DEF CalmInv, FrozenCount
    <2>4. /\ IsFiniteSet(Frozen) /\ Cardinality(Frozen) \in Nat
          /\ Cardinality(Frozen) <= PostLimit - 1
      <3>1. IsFiniteSet(Posts) /\ Cardinality(Posts) = PostLimit
        BY FS_Interval, CollectionAssumption DEF Posts
      <3>2. IsFiniteSet(Posts \ {p}) /\ Cardinality(Posts \ {p}) = PostLimit - 1
        BY <2>1, <3>1, FS_RemoveElement
      <3>3. Frozen \in SUBSET (Posts \ {p}) BY <2>1 DEF Frozen
      <3> QED BY <3>2, <3>3, FS_Subset, FS_CardinalityType
    <2>5. Slack * MaxPerCycle <= MaxPerCycle * missed[p]
      <3>1. \A a, b, c \in Nat : a <= b => a * c <= c * b
        OBVIOUS
      <3>2. Slack \in Nat /\ missed[p] \in Nat /\ MaxPerCycle \in Nat
        BY <2>1, Intervals, CollectionAssumption DEF TypeInv, TypeOK
      <3> QED BY <2>2, <3>1, <3>2
    <2>6. Slack * MaxPerCycle \in Nat /\ MaxPerCycle * missed[p] \in Nat /\ PostLimit \in Nat
      <3>1. \A a, b \in Nat : a * b \in Nat OBVIOUS
      <3> QED BY <2>1, <3>1, Intervals, CollectionAssumption DEF TypeInv, TypeOK
    <2> DEFINE x == Slack * MaxPerCycle
               y == MaxPerCycle * missed[p]
    <2>7. x \in Nat /\ y \in Nat /\ PostLimit <= x /\ x <= y /\ y <= Cardinality(Frozen)
      BY <2>3, <2>5, <2>6
    <2> HIDE DEF x, y
    <2> QED BY <2>4, <2>6, <2>7
  <1> QED BY <1>1, Typing, LifeAlways, SweepAlways, CalmAlways, PTL
=============================================================================
