--------------------------- MODULE XAccessProofs ---------------------------
(***************************************************************************)
(* Theorems about XAccess, for any number of workers, any quota and        *)
(* window, and any faults.                                                 *)
(***************************************************************************)
EXTENDS XAccess, TLAPS, FiniteSetTheorems

-----------------------------------------------------------------------------
(* Types                                                                     *)

LEMMA IdleFits == /\ Idle \in Job /\ Idle.task = "none" /\ Idle.pc = "idle"
                  /\ Idle.found = None /\ Idle.code = None
  BY AccessAssumption DEF Idle, Job, Codes, Denials, Status

LEMMA Fields ==
    ASSUME TypeOK, NEW w \in Workers
    PROVE  /\ job[w] \in Job /\ job[w].told \in Limit \cup {None}
           /\ job[w].try \in 0..MaxRetries /\ job[w].found \in Status \cup {None}
           /\ mirror[w] \in Limit \cup {None}
  BY DEF TypeOK, Job

LEMMA LimitFields ==
    ASSUME NEW l \in Limit
    PROVE  l.left \in -1..Quota /\ l.reset \in 0..Window \cup {None}
  BY DEF Limit

LEMMA InitTypes == Init => TypeOK
  <1> SUFFICES ASSUME Init PROVE TypeOK
    OBVIOUS
  <1>1. job \in [Workers -> Job]
    BY IdleFits DEF Init
  <1>2. mirror \in [Workers -> Limit \cup {None}] /\ key \in Key \cup {None}
    BY DEF Init
  <1>3. xleft \in 0..Quota /\ xwin \in 1..Window /\ faults \in 0..MaxFaults
    BY AccessAssumption DEF Init
  <1>4. grants \in BOOLEAN /\ up \in BOOLEAN /\ denied \in BOOLEAN /\ overlapped \in BOOLEAN
    BY DEF Init
  <1>5. cap \in Status \cup {None} /\ unheard \in Nat
    BY DEF Init
  <1> QED BY <1>1, <1>2, <1>3, <1>4, <1>5 DEF TypeOK

LEMMA AgedFits ==
    ASSUME NEW l \in Limit \cup {None} PROVE Aged(l) \in Limit \cup {None}
  <1>1. CASE l = None
    BY <1>1 DEF Aged
  <1>2. CASE l \in Limit /\ l # None
    <2>1. Less(l.reset) \in 0..Window \cup {None}
      BY <1>2, LimitFields, AccessAssumption DEF Less
    <2>2. [l EXCEPT !.reset = Less(@)] \in Limit
      BY <1>2, <2>1 DEF Limit
    <2> QED BY <1>2, <2>2 DEF Aged
  <1> QED BY <1>1, <1>2

LEMMA MovesType ==
    ASSUME TypeOK, NEW w \in Workers, NEW j \in Job, Set(w, j)
    PROVE  job' \in [Workers -> Job]
  BY DEF TypeOK, Set

LEMMA AtPc ==
    ASSUME TypeOK, NEW w \in Workers,
           NEW p \in {"idle", "gate", "consume", "decrement", "send", "record", "persist", "commit"}
    PROVE  [job[w] EXCEPT !.pc = p] \in Job
  BY Fields DEF Job

LEMMA ClassifiedFits == \A ending : Classified(ending) \in Status
  BY DEF Classified, Status

LEMMA EndedFits ==
    ASSUME TypeOK, NEW w \in Workers, NEW ending PROVE Ended(w, ending) \in Job
  <1>1. [Idle EXCEPT !.task = "probe", !.pc = "persist", !.found = Classified(ending)] \in Job
    BY IdleFits, ClassifiedFits DEF Job
  <1> QED BY <1>1, IdleFits DEF Ended

LEMMA KeyFits ==
    ASSUME TypeOK
    PROVE  /\ key # None => /\ key \in Key /\ key.left \in -1..Quota
                            /\ key.reset \in 0..Window \cup {None}
                            /\ key.ttl \in Ticks \cup {None}
           /\ KeyAfterTick \in Key \cup {None}
  <1>1. key # None => /\ key \in Key /\ key.left \in -1..Quota
                      /\ key.reset \in 0..Window \cup {None}
                      /\ key.ttl \in Ticks \cup {None}
    BY DEF TypeOK, Key
  <1>2. ASSUME key # None
        PROVE  [key EXCEPT !.reset = Less(@), !.ttl = Less(@)] \in Key
    <2>1. Less(key.reset) \in 0..Window \cup {None} /\ Less(key.ttl) \in Ticks \cup {None}
      BY <1>1, <1>2, AccessAssumption DEF Less, Ticks
    <2> QED BY <1>1, <1>2, <2>1 DEF Key
  <1> QED BY <1>1, <1>2 DEF KeyAfterTick

LEMMA TickType == TypeOK /\ Tick => TypeOK'
  <1> SUFFICES ASSUME TypeOK, Tick PROVE TypeOK'
    OBVIOUS
  <1>1. xleft' \in 0..Quota /\ xwin' \in 1..Window /\ unheard' \in Nat
    BY AccessAssumption DEF Tick, TypeOK
  <1>2. key' \in Key \cup {None}
    BY KeyFits DEF Tick
  <1>3. mirror' \in [Workers -> Limit \cup {None}]
    BY Fields, AgedFits DEF Tick
  <1>4. job' \in [Workers -> Job]
    <2>1. ASSUME NEW w \in Workers PROVE [job[w] EXCEPT !.told = Aged(@)] \in Job
      BY Fields, AgedFits DEF Job
    <2> QED BY <2>1 DEF Tick
  <1> QED BY <1>1, <1>2, <1>3, <1>4 DEF Tick, TypeOK

(* What a step writes into a job.                                            *)
LEMMA JobStep ==
    ASSUME TypeOK, NEW w \in Workers,
           \/ StartCollect(w) \/ StartProbe(w) \/ Step(w)
           \/ Fault(w) \/ ProfileFails(w) \/ Crash(w)
    PROVE  job' \in [Workers -> Job]
  <1>1. CASE Set(w, Idle)
    BY <1>1, MovesType, IdleFits
  <1>2. CASE StartCollect(w) \/ StartProbe(w)
    <2>1. ASSUME NEW t \in {"collect", "probe"}
          PROVE  [Idle EXCEPT !.task = t, !.pc = "gate"] \in Job
      BY IdleFits DEF Job
    <2> QED BY <1>2, <2>1, MovesType DEF StartCollect, StartProbe
  <1>3. CASE ProfileFails(w)
    <2>1. [Idle EXCEPT !.task = "probe", !.pc = "persist", !.found = "UNKNOWN"] \in Job
      BY IdleFits DEF Job, Status
    <2> QED BY <1>3, <2>1, MovesType DEF ProfileFails
  <1>4. CASE GateRefuses(w)
    BY <1>4, EndedFits, MovesType DEF GateRefuses
  <1>5. CASE GatePasses(w) \/ Consume(w) \/ Decrement(w)
    BY <1>5, AtPc, MovesType DEF GatePasses, Consume, Decrement
  <1>6. CASE Answer(w)
    <2>1. PICK code \in {"200", "429"} \cup Denials :
             Set(w, [job[w] EXCEPT !.pc = "record", !.code = code,
                       !.told = [left |-> IF xleft = 0 THEN 0 ELSE xleft - 1, reset |-> xwin]])
      BY <1>6 DEF Answer
    <2> DEFINE told == [left |-> IF xleft = 0 THEN 0 ELSE xleft - 1, reset |-> xwin]
    <2>2. told \in Limit
      BY AccessAssumption DEF TypeOK, Limit
    <2> HIDE DEF told
    <2>3. [job[w] EXCEPT !.pc = "record", !.code = code, !.told = told] \in Job
      BY <2>2, Fields DEF Job, Codes
    <2> QED BY <2>1, <2>3, MovesType DEF told
  <1>7. CASE Fault(w)
    <2>1. ASSUME NEW code \in {"network", "401", "500"}
          PROVE  [job[w] EXCEPT !.pc = "record", !.code = code] \in Job
      BY Fields DEF Job, Codes
    <2> QED BY <1>7, <2>1, MovesType DEF Fault
  <1>8. CASE Receive(w)
    <2>1. ASSUME job[w].try + 1 < MaxRetries
          PROVE  [job[w] EXCEPT !.pc = "consume", !.try = @ + 1, !.code = None, !.told = None] \in Job
      <3>1. job[w].try + 1 \in 0..MaxRetries
        BY <2>1, Fields, AccessAssumption
      <3> QED BY <3>1, Fields DEF Job
    <2> QED BY <1>8, <2>1, EndedFits, MovesType DEF Receive
  <1>9. CASE Persist(w)
    <2> DEFINE found == IF Inconclusive(job[w].found) /\ cap \in Settled
                          THEN None ELSE job[w].found
               j == [job[w] EXCEPT !.pc = "commit", !.fresh = (cap = None), !.found = found]
    <2>1. found \in Status \cup {None} /\ (cap = None) \in BOOLEAN
      BY Fields
    <2>2. [job[w] EXCEPT !.pc = "commit", !.fresh = (cap = None),
             !.found = IF Inconclusive(@) /\ cap \in Settled THEN None ELSE @] = j
      BY Fields DEF Job
    <2> HIDE DEF found
    <2>3. j \in Job
      BY <2>1, Fields DEF Job
    <2> HIDE DEF j
    <2> QED BY <1>9, <2>2, <2>3, MovesType DEF Persist
  <1> QED BY <1>1, <1>2, <1>3, <1>4, <1>5, <1>6, <1>7, <1>8, <1>9
          DEF Step, Commit, Collide, Crash

LEMMA TypeStep == TypeOK /\ [Next]_vars => TypeOK'
  <1> SUFFICES ASSUME TypeOK, [Next]_vars PROVE TypeOK'
    OBVIOUS
  <1>1. CASE UNCHANGED vars
    BY <1>1 DEF vars, world, limiter, history, TypeOK
  <1>2. CASE Tick
    BY <1>2, TickType
  <1>3. CASE ChangeAccess \/ RedisFails \/ RedisReturns
    <2>1. grants' \in BOOLEAN /\ up' \in BOOLEAN
      BY <1>3 DEF ChangeAccess, RedisFails, RedisReturns, world, TypeOK
    <2>2. faults' \in 0..MaxFaults
      BY <1>3, AccessAssumption DEF ChangeAccess, RedisFails, RedisReturns, TypeOK
    <2> QED BY <1>3, <2>1, <2>2
            DEF ChangeAccess, RedisFails, RedisReturns, world, limiter, history, TypeOK
  <1>4. ASSUME NEW w \in Workers,
               \/ StartCollect(w) \/ StartProbe(w) \/ Step(w)
               \/ Fault(w) \/ ProfileFails(w) \/ Crash(w)
        PROVE  TypeOK'
    <2>0. job' \in [Workers -> Job]
      BY <1>4, JobStep
    <2>1. CASE StartCollect(w) \/ GateRefuses(w) \/ GatePasses(w) \/ Collide(w) \/ Persist(w)
      BY <2>0, <2>1 DEF StartCollect, GateRefuses, GatePasses, Collide, Persist,
                        world, limiter, history, TypeOK
    <2>2. CASE StartProbe(w) \/ ProfileFails(w)
      <3>1. overlapped' \in BOOLEAN /\ denied' \in BOOLEAN
        BY <2>2 DEF StartProbe, ProfileFails, Overlap, TypeOK
      <3>2. faults' \in 0..MaxFaults
        BY <2>2, AccessAssumption DEF StartProbe, ProfileFails, TypeOK
      <3> QED BY <2>0, <2>2, <3>1, <3>2 DEF StartProbe, ProfileFails, world, limiter, TypeOK
    <2>3. CASE Consume(w)
      <3>1. mirror[w] # None => CountedDown(mirror[w]) \in Limit
        BY Fields, AccessAssumption DEF Limit, CountedDown
      <3>2. mirror' \in [Workers -> Limit \cup {None}]
        BY <2>3, <3>1 DEF Consume, TypeOK
      <3> QED BY <2>0, <2>3, <3>2 DEF Consume, world, history, TypeOK
    <2>4. CASE Decrement(w)
      <3>1. [left |-> -1, reset |-> None, ttl |-> None] \in Key
        BY AccessAssumption DEF Key
      <3>2. key # None => [key EXCEPT !.left = IF @ < 0 THEN @ ELSE @ - 1] \in Key
        BY KeyFits, AccessAssumption DEF Key
      <3>3. key' \in Key \cup {None}
        BY <2>4, <3>1, <3>2 DEF Decrement, TypeOK
      <3> QED BY <2>0, <2>4, <3>3 DEF Decrement, world, history, TypeOK
    <2>5. CASE Answer(w)
      <3>1. denied' \in BOOLEAN /\ xleft' \in 0..Quota
        BY <2>5, AccessAssumption DEF Answer, TypeOK
      <3> QED BY <2>0, <2>5, <3>1 DEF Answer, limiter, TypeOK
    <2>6. CASE Fault(w)
      <3>1. faults' \in 0..MaxFaults /\ xleft' \in 0..Quota /\ unheard' \in Nat
        BY <2>6, AccessAssumption DEF Fault, TypeOK
      <3> QED BY <2>0, <2>6, <3>1 DEF Fault, limiter, TypeOK
    <2>7. CASE Receive(w)
      <3>1. mirror' \in [Workers -> Limit \cup {None}]
        BY <2>7, Fields DEF Receive, Learn, TypeOK
      <3>2. key' \in Key \cup {None}
        <4>1. ASSUME job[w].told # None
              PROVE  [left |-> job[w].told.left, reset |-> job[w].told.reset, ttl |-> KeyTTL] \in Key
          BY <4>1, Fields, LimitFields, AccessAssumption DEF Key, Ticks
        <4> QED BY <2>7, <4>1 DEF Receive, Learn, TypeOK
      <3> QED BY <2>0, <2>7, <3>1, <3>2 DEF Receive, world, history, TypeOK
    <2>8. CASE Commit(w)
      <3>1. cap' \in Status \cup {None} /\ denied' \in BOOLEAN
        BY <2>8, Fields DEF Commit, TypeOK
      <3> QED BY <2>0, <2>8, <3>1 DEF Commit, world, limiter, TypeOK
    <2>9. CASE Crash(w)
      <3>1. mirror' \in [Workers -> Limit \cup {None}] /\ unheard' \in Nat
            /\ faults' \in 0..MaxFaults
        BY <2>9, AccessAssumption DEF Crash, TypeOK
      <3> QED BY <2>0, <2>9, <3>1 DEF Crash, world, TypeOK
    <2> QED BY <1>4, <2>1, <2>2, <2>3, <2>4, <2>5, <2>6, <2>7, <2>8, <2>9 DEF Step
  <1> QED BY <1>1, <1>2, <1>3, <1>4 DEF Next

(* Limits, mirrors, capability and jobs stay well typed for any workers,     *)
(* quota, window and faults (ratelimit.py, client.py, probe.py).             *)
THEOREM Typing == Spec => []TypeOK
  BY InitTypes, TypeStep, PTL DEF Spec

-----------------------------------------------------------------------------
(* Refusals                                                                  *)

Probing == {w \in Workers : job[w].task = "probe"}

(* While probes do not overlap, whoever holds or has stored a refusal has    *)
(* had it from X, since the timeline was last recorded as available.         *)
RefusalInv ==
    ~overlapped =>
        /\ \A v, w \in Probing : v = w
        /\ cap \in Refusing => denied
        /\ \A w \in Workers :
             job[w].task = "probe" /\ (job[w].found \in Refusing \/ job[w].code \in Denials)
                 => denied
        /\ \A w \in Workers : job[w].found # None => job[w].task = "probe"

LEMMA InitRefusal == Init => RefusalInv
  <1> SUFFICES ASSUME Init PROVE RefusalInv
    OBVIOUS
  <1>1. cap \notin Refusing
    BY NoneIsNoAnswer DEF Init, Refusing, Status
  <1>2. \A w \in Workers : job[w] = Idle
    BY DEF Init
  <1>3. None \notin Refusing \cup Denials
    BY NoneIsNoAnswer DEF Refusing, Denials, Status, Codes
  <1>4. Probing = {}
    BY <1>2, IdleFits DEF Probing
  <1> QED BY <1>1, <1>2, <1>3, <1>4, IdleFits DEF RefusalInv

(* A step of a worker that finds nothing X has not said, and starts no probe *)
(* beside another.                                                           *)
LEMMA RefusalQuiet ==
    ASSUME RefusalInv, NEW w \in Workers,
           \A v \in Workers \ {w} : job'[v] = job[v],
           UNCHANGED cap,
           ~overlapped' => ~overlapped /\ (denied => denied'),
           job'[w].task = "probe" /\ ~overlapped' =>
               job[w].task = "probe" \/ \A v \in Workers \ {w} : job[v].task # "probe",
           job'[w].found # None => job'[w].task = "probe",
           job'[w].task = "probe" /\ ~overlapped' =>
               (job'[w].found \in Refusing \/ job'[w].code \in Denials => denied')
    PROVE  RefusalInv'
  BY DEF RefusalInv, Probing

LEMMA Writes ==
    ASSUME TypeOK, NEW w \in Workers, NEW j, Set(w, j)
    PROVE  job'[w] = j /\ \A v \in Workers \ {w} : job'[v] = job[v]
  BY DEF TypeOK, Set

LEMMA EndedFields ==
    ASSUME TypeOK, NEW w \in Workers, NEW ending
    PROVE  /\ Ended(w, ending).task = "probe" => job[w].task = "probe"
           /\ Ended(w, ending).found # None => Ended(w, ending).task = "probe"
           /\ Ended(w, ending).code \notin Denials
           /\ Ended(w, ending).found \in Refusing => ending \in {"403", "404"}
  <1>1. Classified(ending) \in Refusing => ending \in {"403", "404"}
    BY DEF Classified, Refusing
  <1> DEFINE j == [Idle EXCEPT !.task = "probe", !.pc = "persist", !.found = Classified(ending)]
  <1>2. j.task = "probe" /\ j.found = Classified(ending) /\ j.code = None
    BY IdleFits DEF Job
  <1>3. Ended(w, ending) = IF job[w].task = "probe" THEN j ELSE Idle
    BY DEF Ended
  <1>4. None \notin Denials \cup Refusing
    BY NoneIsNoAnswer DEF Refusing, Denials, Status, Codes
  <1> HIDE DEF j
  <1> QED BY <1>1, <1>2, <1>3, <1>4, IdleFits

LEMMA RefusalStep == TypeOK /\ RefusalInv /\ [Next]_vars => RefusalInv'
  <1> SUFFICES ASSUME TypeOK, RefusalInv, [Next]_vars PROVE RefusalInv'
    OBVIOUS
  <1>0. None \notin Denials \cup Refusing
    BY NoneIsNoAnswer DEF Refusing, Denials, Status, Codes
  <1>1. CASE UNCHANGED <<job, cap, denied, overlapped>>
    BY <1>1 DEF RefusalInv, Probing
  <1>2. CASE Tick
    <2>1. ASSUME NEW w \in Workers
          PROVE  /\ job'[w].task = job[w].task /\ job'[w].found = job[w].found
                 /\ job'[w].code = job[w].code
      <3>1. job'[w] = [job[w] EXCEPT !.told = Aged(@)]
        BY <1>2 DEF Tick
      <3> QED BY <3>1, Fields DEF Job
    <2>2. UNCHANGED <<cap, denied, overlapped>>
      BY <1>2 DEF Tick
    <2> QED BY <2>1, <2>2 DEF RefusalInv, Probing
  <1>3. ASSUME NEW w \in Workers, StartCollect(w) PROVE RefusalInv'
    <2> DEFINE j == [Idle EXCEPT !.task = "collect", !.pc = "gate"]
    <2>1. j.task = "collect" /\ j.found = None
      BY IdleFits DEF Job
    <2>2. Set(w, j) /\ UNCHANGED <<cap, denied, overlapped>>
      BY <1>3 DEF StartCollect, history
    <2> HIDE DEF j
    <2> QED BY <2>1, <2>2, Writes, RefusalQuiet
  <1>4. ASSUME NEW w \in Workers, StartProbe(w) \/ ProfileFails(w) PROVE RefusalInv'
    <2> DEFINE j == [Idle EXCEPT !.task = "probe", !.pc = "gate"]
               k == [Idle EXCEPT !.task = "probe", !.pc = "persist", !.found = "UNKNOWN"]
    <2>1. /\ j.task = "probe" /\ j.found = None /\ j.code = None
          /\ k.task = "probe" /\ k.found = "UNKNOWN" /\ k.code = None
      BY IdleFits DEF Job
    <2>2. (Set(w, j) \/ Set(w, k)) /\ UNCHANGED cap /\ Overlap(w)
      BY <1>4 DEF StartProbe, ProfileFails
    <2> HIDE DEF j, k
    <2>3. PICK q \in {j, k} : Set(w, q)
      BY <2>2
    <2>4. job'[w] = q /\ \A v \in Workers \ {w} : job'[v] = job[v]
      BY <2>3, Writes
    <2>5. q.task = "probe" /\ q.code \notin Denials /\ q.found \notin Refusing
      BY <1>0, <2>1 DEF Refusing
    <2>6. ~overlapped' => /\ ~overlapped /\ (denied => denied')
                          /\ \A v \in Workers \ {w} : job[v].task # "probe"
      BY <2>2 DEF Overlap
    <2> QED BY <2>2, <2>4, <2>5, <2>6, RefusalQuiet
  <1>5. ASSUME NEW w \in Workers, NEW ending, Set(w, Ended(w, ending)),
               UNCHANGED <<cap, denied, overlapped>>,
               ending \in {"403", "404"} => job[w].code \in Denials
        PROVE  RefusalInv'
    <2>1. ~overlapped /\ job[w].task = "probe" /\ ending \in {"403", "404"} => denied
      BY <1>5 DEF RefusalInv
    <2> QED BY <1>5, <2>1, EndedFields, Writes, RefusalQuiet
  <1>6. ASSUME NEW w \in Workers, GateRefuses(w) PROVE RefusalInv'
    BY <1>5, <1>6 DEF GateRefuses, history
  <1>7. ASSUME NEW w \in Workers, NEW j, Set(w, j), UNCHANGED <<cap, overlapped>>,
               ~overlapped' => (denied => denied'),
               j.task = job[w].task, j.found \in {job[w].found, None},
               j.code \in Denials /\ ~overlapped' => j.code = job[w].code \/ denied'
        PROVE  RefusalInv'
    <2>1. job'[w] = j /\ \A v \in Workers \ {w} : job'[v] = job[v]
      BY <1>7, Writes
    <2>2. j.found # None /\ ~overlapped => j.task = "probe"
      BY <1>7 DEF RefusalInv
    <2>3. j.task = "probe" /\ ~overlapped' =>
             (j.found \in Refusing \/ j.code \in Denials => denied')
      BY <1>0, <1>7 DEF RefusalInv
    <2> QED BY <1>7, <2>1, <2>2, <2>3 DEF RefusalInv, Probing
  <1>8. ASSUME NEW w \in Workers, GatePasses(w) \/ Consume(w) \/ Decrement(w) PROVE RefusalInv'
    <2>1. PICK p \in {"consume", "decrement", "send"} : Set(w, [job[w] EXCEPT !.pc = p])
      BY <1>8 DEF GatePasses, Consume, Decrement
    <2> DEFINE j == [job[w] EXCEPT !.pc = p]
    <2>2. j.task = job[w].task /\ j.found = job[w].found /\ j.code = job[w].code
      BY Fields DEF Job
    <2>3. UNCHANGED <<cap, denied, overlapped>>
      BY <1>8 DEF GatePasses, Consume, Decrement, history
    <2> HIDE DEF j
    <2> QED BY <1>7, <2>1, <2>2, <2>3 DEF j
  <1>9. ASSUME NEW w \in Workers, Answer(w) PROVE RefusalInv'
    <2> DEFINE told == [left |-> IF xleft = 0 THEN 0 ELSE xleft - 1, reset |-> xwin]
    <2>1. PICK code \in {"200", "429"} \cup Denials :
             /\ Set(w, [job[w] EXCEPT !.pc = "record", !.code = code, !.told = told])
             /\ denied' = (~overlapped /\ (denied \/ code \in Denials))
      BY <1>9 DEF Answer
    <2> HIDE DEF told
    <2> DEFINE j == [job[w] EXCEPT !.pc = "record", !.code = code, !.told = told]
    <2>2. j.task = job[w].task /\ j.found = job[w].found /\ j.code = code
      BY Fields DEF Job
    <2>3. cap' = cap /\ overlapped' = overlapped
      BY <1>9 DEF Answer
    <2> HIDE DEF j
    <2> QED BY <1>7, <2>1, <2>2, <2>3 DEF j
  <1>10. ASSUME NEW w \in Workers, Fault(w) PROVE RefusalInv'
    <2>1. PICK code \in {"network", "401", "500"} :
             Set(w, [job[w] EXCEPT !.pc = "record", !.code = code])
      BY <1>10 DEF Fault
    <2> DEFINE j == [job[w] EXCEPT !.pc = "record", !.code = code]
    <2>2. j.task = job[w].task /\ j.found = job[w].found /\ j.code = code /\ code \notin Denials
      BY Fields DEF Job, Denials
    <2>3. UNCHANGED <<cap, denied, overlapped>>
      BY <1>10 DEF Fault
    <2> HIDE DEF j
    <2> QED BY <1>7, <2>1, <2>2, <2>3 DEF j
  <1>11. ASSUME NEW w \in Workers, Receive(w) PROVE RefusalInv'
    <2>1. UNCHANGED <<cap, denied, overlapped>>
      BY <1>11 DEF Receive, history
    <2>2. CASE Set(w, Ended(w, job[w].code))
      <3>1. job[w].code # "404"
        BY Fields, NoneIsNoAnswer DEF Job, Codes, Denials, TypeOK
      <3> QED BY <1>5, <2>1, <2>2, <3>1 DEF Denials
    <2>3. CASE ~Set(w, Ended(w, job[w].code))
      <3> DEFINE j == [job[w] EXCEPT !.pc = "consume", !.try = @ + 1,
                                     !.code = None, !.told = None]
      <3>1. j.task = job[w].task /\ j.found = job[w].found /\ j.code = None
        BY Fields DEF Job
      <3>2. Set(w, j)
        BY <1>11, <2>3 DEF Receive
      <3> HIDE DEF j
      <3> QED BY <1>0, <1>7, <2>1, <3>1, <3>2
    <2> QED BY <2>2, <2>3
  <1>12. ASSUME NEW w \in Workers, Persist(w) PROVE RefusalInv'
    <2> DEFINE j == [job[w] EXCEPT
          !.pc = "commit", !.fresh = (cap = None),
          !.found = IF Inconclusive(@) /\ cap \in Settled THEN None ELSE @]
    <2>1. j.task = job[w].task /\ j.found \in {job[w].found, None} /\ j.code = job[w].code
      BY Fields DEF Job
    <2>2. Set(w, j) /\ UNCHANGED <<cap, denied, overlapped>>
      BY <1>12 DEF Persist, history
    <2> HIDE DEF j
    <2> QED BY <1>7, <2>1, <2>2
  <1>13. ASSUME NEW w \in Workers, Collide(w) \/ Crash(w) PROVE RefusalInv'
    <2>1. Set(w, Idle) /\ UNCHANGED <<cap, denied, overlapped>>
      BY <1>13 DEF Collide, Crash, history
    <2> QED BY <1>0, <2>1, IdleFits, Writes, RefusalQuiet
  <1>14. ASSUME NEW w \in Workers, Commit(w) PROVE RefusalInv'
    <2>1. job'[w] = Idle /\ \A v \in Workers \ {w} : job'[v] = job[v]
      BY <1>14, Writes DEF Commit
    <2>2. SUFFICES ASSUME ~overlapped
                   PROVE  /\ \A v, u \in Probing' : v = u
                          /\ cap' \in Refusing => denied'
                          /\ \A v \in Workers :
                               /\ job'[v].task = "probe"
                               /\ job'[v].found \in Refusing \/ job'[v].code \in Denials
                               => denied'
                          /\ \A v \in Workers : job'[v].found # None => job'[v].task = "probe"
      BY <1>14 DEF Commit, RefusalInv
    <2>3. \A v, u \in Probing' : v = u
      BY <2>1, <2>2, IdleFits DEF RefusalInv, Probing
    <2>4. cap' \in Refusing => denied'
      <3>1. CASE job[w].found = None
        BY <1>14, <2>2, <3>1, NoneIsNoAnswer DEF Commit, RefusalInv, Status
      <3>2. CASE job[w].found # None
        BY <1>14, <2>2, <3>2 DEF Commit, RefusalInv, Refusing
      <3> QED BY <3>1, <3>2
    <2>5. ASSUME NEW v \in Workers, job'[v].task = "probe",
                 job'[v].found \in Refusing \/ job'[v].code \in Denials
          PROVE  denied'
      <3>1. v # w /\ job'[v] = job[v]
        BY <2>1, <2>5, IdleFits
      <3>2. job[w].found = None
        BY <2>2, <2>5, <3>1 DEF RefusalInv, Probing
      <3>3. denied
        BY <2>2, <2>5, <3>1 DEF RefusalInv
      <3> QED BY <1>14, <3>2, <3>3, NoneIsNoAnswer DEF Commit, Status
    <2> QED BY <2>1, <2>2, <2>3, <2>4, <2>5, IdleFits DEF RefusalInv
  <1> QED BY <1>1, <1>2, <1>3, <1>4, <1>6, <1>8, <1>9, <1>10, <1>11, <1>12, <1>13, <1>14
          DEF Next, Step, vars, world, history, ChangeAccess, RedisFails, RedisReturns

(* What the probe records as refused was refused by X since the timeline was *)
(* last recorded as available, unless probes overlap (_classify, _persist):  *)
(* no failure that passes closes the gate.                                   *)
THEOREM RefusalsAreReal == Spec => []RefusalIsXs
  <1>1. Spec => [](TypeOK /\ RefusalInv)
    BY InitTypes, InitRefusal, TypeStep, RefusalStep, PTL DEF Spec
  <1>2. RefusalInv => RefusalIsXs
    BY DEF RefusalInv, RefusalIsXs
  <1> QED BY <1>1, <1>2, PTL

-----------------------------------------------------------------------------
(* The limiter                                                               *)

Sending == {w \in Workers : job[w].pc = "send"}
Own(w)  == IF job[w].pc \in {"decrement", "send"} THEN 1 ELSE 0
Rest(n) == IF n < 0 THEN 0 ELSE n

(* A limit that still holds is of X's current window, and X allows no more   *)
(* than it says is left and the requests it has not seen.                    *)
Covers(limit, win, left, unseen) ==
    limit.reset # 0 => limit.reset = win /\ left <= Rest(limit.left) + unseen

(* The shared counter has counted what is sent; a worker's mirror what the   *)
(* worker has on its way; an answer nothing.  A counter without a time to    *)
(* live was recreated by Decrement, which knows no reset time.               *)
KeyCovers == key # None =>
    IF key.ttl = None THEN key.reset = None
    ELSE Covers(key, xwin, xleft, Cardinality(Sending) + unheard)
MirrorCovers(w) == mirror[w] # None => Covers(mirror[w], xwin, xleft, Own(w) + unheard)
ToldCovers(w)   == job[w].told # None => Covers(job[w].told, xwin, xleft, 0)

LimitInv == KeyCovers /\ \A w \in Workers : MirrorCovers(w) /\ ToldCovers(w)

LEMMA InitLimit == Init => LimitInv
  <1> SUFFICES ASSUME Init PROVE LimitInv
    OBVIOUS
  <1>1. Idle.told = None BY DEF Idle
  <1>2. \A w \in Workers : job[w] = Idle /\ mirror[w] = None BY DEF Init
  <1> QED BY <1>1, <1>2 DEF Init, LimitInv, KeyCovers, MirrorCovers, ToldCovers

(* X allows less, or more goes unseen: the limit covers it as well.          *)
LEMMA CoversLess ==
    ASSUME NEW limit, limit.left \in Int, NEW win,
           NEW left \in Nat, NEW unseen \in Nat, NEW left2 \in Nat, NEW unseen2 \in Nat,
           Covers(limit, win, left, unseen), left2 + unseen <= left + unseen2
    PROVE  Covers(limit, win, left2, unseen2)
  <1>1. Rest(limit.left) \in Nat BY DEF Rest
  <1> QED BY <1>1 DEF Covers

LEMMA Quantities ==
    ASSUME TypeOK
    PROVE  /\ xleft \in Nat /\ unheard \in Nat
           /\ IsFiniteSet(Sending) /\ Cardinality(Sending) \in Nat
           /\ \A w \in Workers : /\ Own(w) \in Nat
                                 /\ mirror[w] # None => mirror[w].left \in Int
                                 /\ job[w].told # None => job[w].told.left \in Int
           /\ key # None => key.left \in Int
  <1>1. IsFiniteSet(Sending) /\ Cardinality(Sending) \in Nat
    <2>1. Sending \in SUBSET Workers BY DEF Sending
    <2> QED BY <2>1, AccessAssumption, FS_Subset, FS_CardinalityType
  <1>2. xleft \in Nat /\ unheard \in Nat BY AccessAssumption DEF TypeOK
  <1>3. ASSUME NEW w \in Workers
        PROVE  /\ mirror[w] # None => mirror[w].left \in Int
               /\ job[w].told # None => job[w].told.left \in Int
    <2>1. \A l \in Limit : l.left \in Int BY LimitFields, AccessAssumption
    <2> QED BY <2>1, Fields
  <1>4. key # None => key.left \in Int BY KeyFits, AccessAssumption
  <1>5. \A w \in Workers : Own(w) \in Nat BY DEF Own
  <1> QED BY <1>1, <1>2, <1>3, <1>4, <1>5

LEMMA SendingCount ==
    ASSUME TypeOK, NEW w \in Workers, \A v \in Workers \ {w} : job'[v] = job[v]
    PROVE  /\ job[w].pc = "send" /\ job'[w].pc = "send"
                 => Cardinality(Sending') = Cardinality(Sending)
           /\ job[w].pc # "send" /\ job'[w].pc # "send"
                 => Cardinality(Sending') = Cardinality(Sending)
           /\ job[w].pc # "send" /\ job'[w].pc = "send"
                 => Cardinality(Sending') = Cardinality(Sending) + 1
           /\ job[w].pc = "send" /\ job'[w].pc # "send"
                 => Cardinality(Sending) = Cardinality(Sending') + 1
  <1> DEFINE A == Sending
             B == Sending'
  <1>1. IsFiniteSet(A) /\ IsFiniteSet(B)
    <2>1. A \in SUBSET Workers /\ B \in SUBSET Workers BY DEF Sending
    <2> HIDE DEF A, B
    <2> QED BY <2>1, AccessAssumption, FS_Subset
  <1>2. (job[w].pc = "send" /\ job'[w].pc = "send") \/
        (job[w].pc # "send" /\ job'[w].pc # "send") => A = B
    BY DEF Sending
  <1>3. job[w].pc # "send" /\ job'[w].pc = "send" => B = A \cup {w} /\ w \notin A
    BY DEF Sending
  <1>4. job[w].pc = "send" /\ job'[w].pc # "send" => A = B \cup {w} /\ w \notin B
    BY DEF Sending
  <1> HIDE DEF A, B
  <1>5. /\ (job[w].pc = "send" /\ job'[w].pc = "send") \/
           (job[w].pc # "send" /\ job'[w].pc # "send") => Cardinality(B) = Cardinality(A)
        /\ job[w].pc # "send" /\ job'[w].pc = "send" => Cardinality(B) = Cardinality(A) + 1
        /\ job[w].pc = "send" /\ job'[w].pc # "send" => Cardinality(A) = Cardinality(B) + 1
    BY <1>1, <1>2, <1>3, <1>4, FS_AddElement
  <1> QED BY <1>5 DEF A, B

(* A worker's step inside X's window, by the limits it touches.              *)
LEMMA WorkerCovers ==
    ASSUME TypeOK, TypeOK', LimitInv, NEW w \in Workers,
           \A v \in Workers \ {w} : job'[v] = job[v] /\ mirror'[v] = mirror[v],
           xwin' = xwin, xleft' <= xleft, unheard <= unheard',
           KeyCovers', MirrorCovers(w)', ToldCovers(w)'
    PROVE  LimitInv'
  <1> SUFFICES ASSUME NEW v \in Workers, v # w PROVE MirrorCovers(v)' /\ ToldCovers(v)'
    BY DEF LimitInv
  <1>1. job'[v] = job[v] /\ mirror'[v] = mirror[v] /\ Own(v)' = Own(v)
    BY DEF Own
  <1>2. MirrorCovers(v) /\ ToldCovers(v) BY DEF LimitInv
  <1>3. /\ xleft \in Nat /\ unheard \in Nat /\ Own(v) \in Nat
        /\ mirror[v] # None => mirror[v].left \in Int
        /\ job[v].told # None => job[v].told.left \in Int
    BY Quantities
  <1>4. xleft' \in Nat /\ unheard' \in Nat
    BY AccessAssumption DEF TypeOK
  <1> DEFINE n == Own(v) + unheard
             m == Own(v) + unheard'
  <1>5. n \in Nat /\ m \in Nat /\ n <= m BY <1>3, <1>4
  <1>6. MirrorCovers(v)'
    <2> SUFFICES ASSUME mirror[v] # None PROVE Covers(mirror[v], xwin, xleft', m)
      BY <1>1 DEF MirrorCovers
    <2>1. Covers(mirror[v], xwin, xleft, n) BY <1>2 DEF MirrorCovers
    <2> HIDE DEF n, m
    <2>2. xleft' + n <= xleft + m BY <1>3, <1>4, <1>5
    <2> QED BY <1>3, <1>4, <1>5, <2>1, <2>2, CoversLess
  <1>7. ToldCovers(v)'
    <2> SUFFICES ASSUME job[v].told # None PROVE Covers(job[v].told, xwin, xleft', 0)
      BY <1>1 DEF ToldCovers
    <2>1. Covers(job[v].told, xwin, xleft, 0) BY <1>2 DEF ToldCovers
    <2>2. xleft' + 0 <= xleft + 0 BY <1>3, <1>4
    <2> QED BY <1>3, <1>4, <2>1, <2>2, CoversLess
  <1> QED BY <1>6, <1>7

(* The shared counter is left alone while what is unseen grows by as much as *)
(* what X allows, at the least.                                              *)
LEMMA KeyAlone ==
    ASSUME TypeOK, TypeOK', LimitInv, key' = key, xwin' = xwin,
           xleft' + Cardinality(Sending) + unheard
               <= xleft + Cardinality(Sending') + unheard'
    PROVE  KeyCovers'
  <1> DEFINE n == Cardinality(Sending) + unheard
             m == Cardinality(Sending') + unheard'
  <1>1. xleft \in Nat /\ unheard \in Nat /\ Cardinality(Sending) \in Nat
    BY Quantities
  <1>2. xleft' \in Nat /\ unheard' \in Nat /\ Cardinality(Sending') \in Nat
    <2>1. Sending' \in SUBSET Workers BY DEF Sending
    <2>2. IsFiniteSet(Sending') BY <2>1, AccessAssumption, FS_Subset
    <2> QED BY <2>2, AccessAssumption, FS_CardinalityType DEF TypeOK
  <1>3. n \in Nat /\ m \in Nat /\ xleft' + n <= xleft + m BY <1>1, <1>2
  <1> SUFFICES ASSUME key # None
               PROVE  IF key.ttl = None THEN key.reset = None
                      ELSE Covers(key, xwin, xleft', m)
    BY DEF KeyCovers
  <1>4. CASE key.ttl = None BY <1>4 DEF LimitInv, KeyCovers
  <1>5. CASE key.ttl # None
    <2>1. Covers(key, xwin, xleft, n) BY <1>5 DEF LimitInv, KeyCovers
    <2>2. key.left \in Int BY Quantities
    <2> HIDE DEF n, m
    <2>3. Covers(key, xwin, xleft', m)
      BY <1>1, <1>2, <1>3, <2>1, <2>2, CoversLess
    <2> QED BY <1>5, <2>3
  <1> QED BY <1>4, <1>5

LEMMA MirrorAlone ==
    ASSUME TypeOK, TypeOK', LimitInv, NEW w \in Workers,
           mirror'[w] \in {mirror[w], None}, xwin' = xwin,
           mirror'[w] # None => xleft' + Own(w) + unheard <= xleft + Own(w)' + unheard'
    PROVE  MirrorCovers(w)'
  <1> DEFINE n == Own(w) + unheard
             m == Own(w)' + unheard'
  <1>1. /\ xleft \in Nat /\ unheard \in Nat /\ Own(w) \in Nat
        /\ mirror[w] # None => mirror[w].left \in Int
    BY Quantities
  <1>2. xleft' \in Nat /\ unheard' \in Nat /\ Own(w)' \in Nat
    BY AccessAssumption DEF TypeOK, Own
  <1>3. n \in Nat /\ m \in Nat BY <1>1, <1>2
  <1> SUFFICES ASSUME mirror'[w] # None PROVE Covers(mirror[w], xwin, xleft', m)
    BY DEF MirrorCovers
  <1>4. xleft' + n <= xleft + m BY <1>1, <1>2
  <1>5. Covers(mirror[w], xwin, xleft, n) BY DEF LimitInv, MirrorCovers
  <1> HIDE DEF n, m
  <1> QED BY <1>1, <1>2, <1>3, <1>4, <1>5, CoversLess

LEMMA ToldAlone ==
    ASSUME TypeOK, TypeOK', LimitInv, NEW w \in Workers, xwin' = xwin, xleft' <= xleft,
           job'[w].told \in {job[w].told, None}
    PROVE  ToldCovers(w)'
  <1> SUFFICES ASSUME job[w].told # None PROVE Covers(job[w].told, xwin, xleft', 0)
    BY DEF ToldCovers
  <1>1. xleft \in Nat /\ xleft' \in Nat /\ job[w].told.left \in Int
    BY Quantities, AccessAssumption DEF TypeOK
  <1>2. Covers(job[w].told, xwin, xleft, 0) BY DEF LimitInv, ToldCovers
  <1>3. xleft' + 0 <= xleft + 0
    <2>1. \A a, b \in Nat : a <= b => a + 0 <= b + 0 OBVIOUS
    <2> QED BY <1>1, <2>1
  <1> QED BY <1>1, <1>2, <1>3, CoversLess

(* A step that sends nothing and hears nothing.                              *)
LEMMA QuietCovers ==
    ASSUME TypeOK, TypeOK', LimitInv, NEW w \in Workers, NEW j, Set(w, j),
           job[w].pc \notin {"decrement", "send"}, j.pc \notin {"decrement", "send"},
           j.told \in {job[w].told, None},
           UNCHANGED <<xleft, xwin, unheard, key, mirror>>
    PROVE  LimitInv'
  <1>1. job'[w] = j /\ \A v \in Workers \ {w} : job'[v] = job[v] /\ mirror'[v] = mirror[v]
    BY Writes
  <1>2. Cardinality(Sending') = Cardinality(Sending) BY <1>1, SendingCount
  <1>3. Own(w) = 0 /\ Own(w)' = 0 BY <1>1 DEF Own
  <1>4. xleft \in Nat /\ unheard \in Nat /\ Cardinality(Sending) \in Nat BY Quantities
  <1>5. KeyCovers'
    <2>1. xleft' + Cardinality(Sending) + unheard <= xleft + Cardinality(Sending') + unheard'
      BY <1>2, <1>4
    <2> QED BY <2>1, KeyAlone
  <1>6. MirrorCovers(w)'
    <2>1. xleft' + Own(w) + unheard <= xleft + Own(w)' + unheard' BY <1>3, <1>4
    <2> QED BY <2>1, MirrorAlone
  <1>7. ToldCovers(w)' BY <1>1, <1>4, ToldAlone
  <1> QED BY <1>1, <1>4, <1>5, <1>6, <1>7, WorkerCovers

LEMMA TickCovers == TypeOK /\ TypeOK' /\ LimitInv /\ Tick => LimitInv'
  <1> SUFFICES ASSUME TypeOK, TypeOK', LimitInv, Tick PROVE LimitInv'
    OBVIOUS
  (* One tick on, a limit that holds still is of the same window.            *)
  <1>1. ASSUME NEW l, l.reset \in 0..Window \cup {None}, NEW k, k.left = l.left,
               k.reset = Less(l.reset), NEW n, NEW m, xwin # 1 => m = n,
               Covers(l, xwin, xleft, n)
        PROVE  Covers(k, xwin', xleft', m)
    <2> SUFFICES ASSUME k.reset # 0
                 PROVE  k.reset = xwin' /\ xleft' <= Rest(k.left) + m
      BY DEF Covers
    <2>1. l.reset # 0 BY <1>1 DEF Less
    <2>2. l.reset = xwin /\ xleft <= Rest(l.left) + n
      BY <1>1, <2>1 DEF Covers
    <2>3. xwin \in 1..Window BY DEF TypeOK
    <2>4. xwin # None /\ xwin # 0 /\ xwin \in Nat BY <2>3, AccessAssumption
    <2>5. k.reset = xwin - 1 BY <1>1, <2>2, <2>4 DEF Less
    <2>6. xwin # 1 BY <2>5
    <2>7. xwin' = xwin - 1 /\ xleft' = xleft BY <2>6 DEF Tick
    <2> QED BY <1>1, <2>2, <2>5, <2>7
  <1>2. Cardinality(Sending') = Cardinality(Sending) /\ \A w \in Workers : Own(w)' = Own(w)
    <2>1. \A w \in Workers : job'[w].pc = job[w].pc
      BY Fields DEF Tick, Job
    <2>2. Sending' = Sending BY <2>1 DEF Sending
    <2> QED BY <2>1, <2>2 DEF Own
  <1>0. xwin # 1 => unheard' = unheard BY DEF Tick
  <1>3. KeyCovers'
    <2> SUFFICES ASSUME key' # None
                 PROVE  IF key'.ttl = None THEN key'.reset = None
                        ELSE Covers(key', xwin', xleft', Cardinality(Sending) + unheard')
      BY <1>2 DEF KeyCovers
    <2>1. key # None /\ key' = [key EXCEPT !.reset = Less(@), !.ttl = Less(@)]
      BY DEF Tick, KeyAfterTick
    <2>2. /\ key \in Key /\ key.reset \in 0..Window \cup {None}
          /\ key.ttl \in Ticks \cup {None}
      BY <2>1, KeyFits
    <2>3. key'.left = key.left /\ key'.reset = Less(key.reset) /\ key'.ttl = Less(key.ttl)
      BY <2>1, <2>2 DEF Key
    <2>4. CASE key.ttl = None
      <3>1. key.reset = None BY <2>1, <2>4 DEF LimitInv, KeyCovers
      <3> QED BY <2>3, <2>4, <3>1 DEF Less
    <2>5. CASE key.ttl # None
      <3>1. key'.ttl # None
        BY <2>2, <2>3, <2>5, AccessAssumption DEF Less, Ticks
      <3>2. Covers(key, xwin, xleft, Cardinality(Sending) + unheard)
        BY <2>1, <2>5 DEF LimitInv, KeyCovers
      <3> QED BY <1>1, <1>0, <2>2, <2>3, <3>1, <3>2
    <2> QED BY <2>4, <2>5
  <1>4. ASSUME NEW w \in Workers PROVE MirrorCovers(w)' /\ ToldCovers(w)'
    <2>1. ASSUME NEW l \in Limit, l # None, NEW n, NEW m, xwin # 1 => m = n,
                 Covers(l, xwin, xleft, n)
          PROVE  Covers(Aged(l), xwin', xleft', m)
      <3>1. Aged(l).left = l.left /\ Aged(l).reset = Less(l.reset)
        BY <2>1 DEF Aged, Limit
      <3> QED BY <1>1, <2>1, <3>1, LimitFields
    <2>2. mirror'[w] = Aged(mirror[w]) /\ job'[w].told = Aged(job[w].told)
      BY Fields DEF Tick, Job
    <2>3. MirrorCovers(w)'
      <3> SUFFICES ASSUME mirror'[w] # None
                   PROVE  Covers(mirror'[w], xwin', xleft', Own(w) + unheard')
        BY <1>2 DEF MirrorCovers
      <3>1. mirror[w] # None BY <2>2 DEF Aged
      <3>2. Covers(mirror[w], xwin, xleft, Own(w) + unheard)
        BY <3>1 DEF LimitInv, MirrorCovers
      <3>3. mirror[w] \in Limit BY <3>1, Fields
      <3> QED BY <1>0, <2>1, <2>2, <3>1, <3>2, <3>3
    <2>4. ToldCovers(w)'
      <3> SUFFICES ASSUME job'[w].told # None
                   PROVE  Covers(job'[w].told, xwin', xleft', 0)
        BY DEF ToldCovers
      <3>1. job[w].told # None BY <2>2 DEF Aged
      <3>2. Covers(job[w].told, xwin, xleft, 0) BY <3>1 DEF LimitInv, ToldCovers
      <3>3. job[w].told \in Limit BY <3>1, Fields
      <3> QED BY <2>1, <2>2, <3>1, <3>2, <3>3
    <2> QED BY <2>3, <2>4
  <1> QED BY <1>3, <1>4 DEF LimitInv

LEMMA ConsumeCovers ==
    ASSUME TypeOK, TypeOK', LimitInv, NEW w \in Workers, Consume(w)
    PROVE  LimitInv'
  <1> DEFINE p == IF up /\ key # None THEN "decrement" ELSE "send"
             j == [job[w] EXCEPT !.pc = p]
  <1>1. j.pc = p /\ j.told = job[w].told BY Fields DEF Job
  <1>2. Set(w, j) /\ job[w].pc = "consume" BY DEF Consume
  <1>3. p \in {"decrement", "send"} OBVIOUS
  <1> HIDE DEF p, j
  <1>4. job'[w] = j /\ \A v \in Workers \ {w} : job'[v] = job[v] BY <1>2, Writes
  <1>5. /\ xleft' = xleft /\ xwin' = xwin /\ unheard' = unheard /\ key' = key
        /\ \A v \in Workers \ {w} : mirror'[v] = mirror[v]
        /\ mirror'[w] = IF mirror[w] = None THEN None ELSE CountedDown(mirror[w])
    BY DEF Consume, world, history, TypeOK
  <1>6. Own(w) = 0 /\ Own(w)' = 1 BY <1>1, <1>2, <1>3, <1>4 DEF Own
  <1>7. /\ xleft \in Nat /\ unheard \in Nat /\ Cardinality(Sending) \in Nat
        /\ mirror[w] # None => mirror[w].left \in Int
    BY Quantities
  <1>8. KeyCovers'
    <2>1. \/ Cardinality(Sending') = Cardinality(Sending)
          \/ Cardinality(Sending') = Cardinality(Sending) + 1
      BY <1>2, <1>4, SendingCount
    <2>2. xleft' + Cardinality(Sending) + unheard <= xleft + Cardinality(Sending') + unheard'
      BY <1>5, <1>7, <2>1
    <2> QED BY <1>5, <2>2, KeyAlone
  <1>9. MirrorCovers(w)'
    <2> DEFINE l == mirror[w]
               k == CountedDown(mirror[w])
    <2> SUFFICES ASSUME l # None PROVE Covers(k, xwin, xleft, 1 + unheard)
      BY <1>5, <1>6 DEF MirrorCovers
    <2>1. Covers(l, xwin, xleft, 0 + unheard) BY <1>6 DEF LimitInv, MirrorCovers
    <2>2. l.left \in Int BY <1>7
    <2>3. k.reset = l.reset /\ k.left = IF l.left > 0 THEN l.left - 1 ELSE 0
      <3>1. l \in Limit BY Fields
      <3> QED BY <3>1 DEF CountedDown, Limit
    <2> HIDE DEF l, k
    <2> QED BY <1>7, <2>1, <2>2, <2>3 DEF Covers, Rest
  <1>10. ToldCovers(w)' BY <1>1, <1>4, <1>5, <1>7, ToldAlone
  <1> QED BY <1>4, <1>5, <1>7, <1>8, <1>9, <1>10, WorkerCovers

LEMMA DecrementCovers ==
    ASSUME TypeOK, TypeOK', LimitInv, NEW w \in Workers, Decrement(w)
    PROVE  LimitInv'
  <1> DEFINE j == [job[w] EXCEPT !.pc = "send"]
             n == Cardinality(Sending) + unheard
             m == Cardinality(Sending') + unheard'
  <1>1. j.pc = "send" /\ j.told = job[w].told BY Fields DEF Job
  <1>2. Set(w, j) /\ job[w].pc = "decrement" BY DEF Decrement
  <1> HIDE DEF j
  <1>4. job'[w] = j /\ \A v \in Workers \ {w} : job'[v] = job[v] BY <1>2, Writes
  <1>5. xleft' = xleft /\ xwin' = xwin /\ unheard' = unheard /\ mirror' = mirror
    BY DEF Decrement, world, history
  <1>6. Own(w) = 1 /\ Own(w)' = 1 BY <1>1, <1>2, <1>4 DEF Own
  <1>7. /\ xleft \in Nat /\ unheard \in Nat /\ Cardinality(Sending) \in Nat
        /\ key # None => key.left \in Int
    BY Quantities
  <1>8. n \in Nat /\ m = n + 1 /\ Cardinality(Sending') = Cardinality(Sending) + 1
    <2>1. Cardinality(Sending') = Cardinality(Sending) + 1
      BY <1>1, <1>2, <1>4, SendingCount
    <2> QED BY <1>5, <1>7, <2>1
  <1>9. KeyCovers'
    <2>1. CASE key' = key
      <3>1. xleft' + Cardinality(Sending) + unheard <= xleft + Cardinality(Sending') + unheard'
        BY <1>5, <1>7, <1>8
      <3> QED BY <1>5, <2>1, <3>1, KeyAlone
    <2>2. CASE key' = [left |-> -1, reset |-> None, ttl |-> None]
      BY <2>2 DEF KeyCovers
    <2>3. CASE key # None /\ key' = [key EXCEPT !.left = IF @ < 0 THEN @ ELSE @ - 1]
      <3>1. /\ key'.reset = key.reset /\ key'.ttl = key.ttl
            /\ key'.left = IF key.left < 0 THEN key.left ELSE key.left - 1
        BY <2>3, KeyFits DEF Key
      <3>2. CASE key.ttl = None BY <2>3, <3>1, <3>2 DEF LimitInv, KeyCovers
      <3>3. CASE key.ttl # None
        <4>1. Covers(key, xwin, xleft, n) BY <2>3, <3>3 DEF LimitInv, KeyCovers
        <4> HIDE DEF n, m
        <4>2. Covers(key', xwin, xleft, m)
          BY <1>7, <1>8, <2>3, <3>1, <4>1 DEF Covers, Rest
        <4>3. Covers(key', xwin', xleft', m) BY <1>5, <4>2
        <4> QED BY <3>1, <3>3, <4>3 DEF KeyCovers, m
      <3> QED BY <3>2, <3>3
    <2> QED BY <2>1, <2>2, <2>3 DEF Decrement
  <1>10. MirrorCovers(w)'
    <2>1. xleft' + Own(w) + unheard <= xleft + Own(w)' + unheard' BY <1>5, <1>6, <1>7
    <2> QED BY <1>5, <2>1, MirrorAlone
  <1>11. ToldCovers(w)' BY <1>1, <1>4, <1>5, <1>7, ToldAlone
  <1> QED BY <1>4, <1>5, <1>7, <1>9, <1>10, <1>11, WorkerCovers

LEMMA AnswerCovers ==
    ASSUME TypeOK, TypeOK', LimitInv, NEW w \in Workers, Answer(w)
    PROVE  LimitInv'
  <1> DEFINE told == [left |-> IF xleft = 0 THEN 0 ELSE xleft - 1, reset |-> xwin]
  <1>1. PICK code \in {"200", "429"} \cup Denials :
           Set(w, [job[w] EXCEPT !.pc = "record", !.code = code, !.told = told])
    BY DEF Answer
  <1>2. told.left = (IF xleft = 0 THEN 0 ELSE xleft - 1) /\ told.reset = xwin
    OBVIOUS
  <1> HIDE DEF told
  <1> DEFINE j == [job[w] EXCEPT !.pc = "record", !.code = code, !.told = told]
  <1>3. j.pc = "record" /\ j.told = told BY Fields DEF Job
  <1> HIDE DEF j
  <1>4. job'[w] = j /\ \A v \in Workers \ {w} : job'[v] = job[v]
    BY <1>1, Writes DEF j
  <1>5. /\ xwin' = xwin /\ unheard' = unheard /\ key' = key /\ mirror' = mirror
        /\ xleft' = (IF xleft = 0 THEN 0 ELSE xleft - 1) /\ job[w].pc = "send"
    BY DEF Answer, limiter
  <1>6. Own(w) = 1 /\ Own(w)' = 0 BY <1>3, <1>4, <1>5 DEF Own
  <1>7. /\ xleft \in Nat /\ unheard \in Nat /\ Cardinality(Sending) \in Nat
        /\ mirror[w] # None => mirror[w].left \in Int
        /\ key # None => key.left \in Int
    BY Quantities
  <1>8. /\ Cardinality(Sending) = Cardinality(Sending') + 1
        /\ Cardinality(Sending') \in Nat
    <2>1. Sending' \in SUBSET Workers BY DEF Sending
    <2>2. IsFiniteSet(Sending') BY <2>1, AccessAssumption, FS_Subset
    <2> QED BY <1>3, <1>4, <1>5, <2>2, SendingCount, FS_CardinalityType
  (* Nothing left or one less: a limit keeps covering the rest.              *)
  <1>9. ASSUME NEW l, l.left \in Int, NEW n \in Nat, NEW m \in Nat, n = m + 1,
               Covers(l, xwin, xleft, n)
        PROVE  Covers(l, xwin', xleft', m)
    BY <1>5, <1>7, <1>9 DEF Covers, Rest
  <1>10. KeyCovers'
    <2> DEFINE n == Cardinality(Sending) + unheard
               m == Cardinality(Sending') + unheard'
    <2>1. n \in Nat /\ m \in Nat /\ n = m + 1 BY <1>5, <1>7, <1>8
    <2>2. CASE key = None BY <1>5, <2>2 DEF KeyCovers
    <2>3. CASE key # None /\ key.ttl = None
      BY <1>5, <2>3 DEF LimitInv, KeyCovers
    <2>4. CASE key # None /\ key.ttl # None
      <3>1. Covers(key, xwin, xleft, n) BY <2>4 DEF LimitInv, KeyCovers
      <3> HIDE DEF n, m
      <3>2. Covers(key, xwin', xleft', m) BY <1>7, <1>9, <2>1, <2>4, <3>1
      <3> QED BY <1>5, <2>4, <3>2 DEF KeyCovers, m
    <2> QED BY <2>2, <2>3, <2>4
  <1>11. MirrorCovers(w)'
    <2> SUFFICES ASSUME mirror[w] # None
                 PROVE  Covers(mirror[w], xwin', xleft', 0 + unheard)
      BY <1>5, <1>6 DEF MirrorCovers
    <2>1. Covers(mirror[w], xwin, xleft, 1 + unheard)
      BY <1>6 DEF LimitInv, MirrorCovers
    <2>2. 1 + unheard \in Nat /\ 0 + unheard \in Nat /\ 1 + unheard = (0 + unheard) + 1
      BY <1>7
    <2> QED BY <1>7, <1>9, <2>1, <2>2
  <1>12. ToldCovers(w)'
    <2>1. Covers(told, xwin, xleft', 0)
      BY <1>2, <1>5, <1>7 DEF Covers, Rest
    <2> QED BY <1>3, <1>4, <1>5, <2>1 DEF ToldCovers
  <1>13. xleft' <= xleft BY <1>5, <1>7
  <1> QED BY <1>4, <1>5, <1>7, <1>10, <1>11, <1>12, <1>13, WorkerCovers

(* A request in flight ends without an answer: X has counted it, or it       *)
(* stays unseen.                                                             *)
LEMMA FaultCovers ==
    ASSUME TypeOK, TypeOK', LimitInv, NEW w \in Workers, Fault(w)
    PROVE  LimitInv'
  <1>1. PICK code \in {"network", "401", "500"} :
           Set(w, [job[w] EXCEPT !.pc = "record", !.code = code])
    BY DEF Fault
  <1> DEFINE j == [job[w] EXCEPT !.pc = "record", !.code = code]
  <1>2. j.pc = "record" /\ j.told = job[w].told BY Fields DEF Job
  <1> HIDE DEF j
  <1>3. job'[w] = j /\ \A v \in Workers \ {w} : job'[v] = job[v]
    BY <1>1, Writes DEF j
  <1>4. xwin' = xwin /\ key' = key /\ mirror' = mirror /\ job[w].pc = "send"
    BY DEF Fault, limiter
  <1>5. /\ xleft \in Nat /\ unheard \in Nat /\ Cardinality(Sending) \in Nat
    BY Quantities
  <1>6. \/ xleft' = xleft /\ unheard' = unheard + 1
        \/ xleft' = xleft - 1 /\ unheard' = unheard
    BY <1>5 DEF Fault
  <1>7. Own(w) = 1 /\ Own(w)' = 0 BY <1>2, <1>3, <1>4 DEF Own
  <1>8. /\ Cardinality(Sending) = Cardinality(Sending') + 1
        /\ Cardinality(Sending') \in Nat
    <2>1. Sending' \in SUBSET Workers BY DEF Sending
    <2>2. IsFiniteSet(Sending') BY <2>1, AccessAssumption, FS_Subset
    <2> QED BY <1>2, <1>3, <1>4, <2>2, SendingCount, FS_CardinalityType
  <1>9. KeyCovers'
    <2>1. xleft' + Cardinality(Sending) + unheard <= xleft + Cardinality(Sending') + unheard'
      BY <1>5, <1>6, <1>8
    <2> QED BY <1>4, <2>1, KeyAlone
  <1>10. MirrorCovers(w)'
    <2>1. xleft' + Own(w) + unheard <= xleft + Own(w)' + unheard' BY <1>5, <1>6, <1>7
    <2> QED BY <1>4, <2>1, MirrorAlone
  <1>11. xleft' <= xleft /\ unheard <= unheard' BY <1>5, <1>6
  <1>12. ToldCovers(w)' BY <1>2, <1>3, <1>4, <1>11, ToldAlone
  <1> QED BY <1>3, <1>4, <1>9, <1>10, <1>11, <1>12, WorkerCovers

LEMMA ReceiveCovers ==
    ASSUME TypeOK, TypeOK', LimitInv, NEW w \in Workers, Receive(w)
    PROVE  LimitInv'
  <1> DEFINE t == job[w].told
             again == [job[w] EXCEPT !.pc = "consume", !.try = @ + 1,
                                     !.code = None, !.told = None]
             over == Ended(w, job[w].code)
  <1>1. PICK j \in {again, over} : Set(w, j)
    BY DEF Receive
  <1>2. j.pc \in {"consume", "persist", "idle"} /\ j.told = None
    <2>1. again.pc = "consume" /\ again.told = None BY Fields DEF Job
    <2>2. over.pc \in {"persist", "idle"} /\ over.told = None BY DEF Ended, Idle
    <2> HIDE DEF again, over
    <2> QED BY <2>1, <2>2
  <1> HIDE DEF again, over
  <1>3. job'[w] = j /\ \A v \in Workers \ {w} : job'[v] = job[v]
    BY <1>1, Writes
  <1>4. xwin' = xwin /\ xleft' = xleft /\ unheard' = unheard /\ job[w].pc = "record"
    BY DEF Receive, world, history
  <1>5. xleft \in Nat /\ unheard \in Nat /\ Cardinality(Sending) \in Nat
        /\ (t # None => t.left \in Int)
    BY Quantities
  <1>6. Cardinality(Sending') = Cardinality(Sending)
    BY <1>2, <1>3, <1>4, SendingCount
  <1>7. Own(w) = 0 /\ Own(w)' = 0 BY <1>2, <1>3, <1>4 DEF Own
  <1>8. /\ mirror'[w] = IF t = None THEN mirror[w] ELSE t
        /\ \A v \in Workers \ {w} : mirror'[v] = mirror[v]
        /\ key' = IF t = None \/ ~up THEN key
                  ELSE [left |-> t.left, reset |-> t.reset, ttl |-> KeyTTL]
    BY DEF Receive, Learn, TypeOK
  <1>9. t # None => \A n \in Nat : Covers(t, xwin, xleft, n)
    <2> SUFFICES ASSUME t # None, NEW n \in Nat PROVE Covers(t, xwin, xleft, n)
      OBVIOUS
    <2>1. Covers(t, xwin, xleft, 0) BY DEF LimitInv, ToldCovers
    <2>2. xleft + 0 <= xleft + n BY <1>5
    <2> HIDE DEF t
    <2> QED BY <1>5, <2>1, <2>2, CoversLess
  <1>10. KeyCovers'
    <2>1. CASE key' = key
      <3>1. xleft' + Cardinality(Sending) + unheard <= xleft + Cardinality(Sending') + unheard'
        BY <1>4, <1>5, <1>6
      <3> QED BY <1>4, <2>1, <3>1, KeyAlone
    <2>2. CASE t # None /\ key' = [left |-> t.left, reset |-> t.reset, ttl |-> KeyTTL]
      <3> DEFINE n == Cardinality(Sending') + unheard'
      <3>1. n \in Nat BY <1>4, <1>5, <1>6
      <3>2. Covers(t, xwin, xleft, n) BY <1>9, <2>2, <3>1
      <3>3. KeyTTL # None BY AccessAssumption
      <3> HIDE DEF t, n
      <3>4. key'.left = t.left /\ key'.reset = t.reset /\ key'.ttl = KeyTTL
        BY <2>2
      <3>5. Covers(key', xwin', xleft', n) BY <1>4, <3>2, <3>4 DEF Covers
      <3> QED BY <3>3, <3>4, <3>5 DEF KeyCovers, n
    <2> QED BY <1>8, <2>1, <2>2
  <1>11. MirrorCovers(w)'
    <2>1. CASE t = None
      <3>1. xleft' + Own(w) + unheard <= xleft + Own(w)' + unheard' BY <1>4, <1>5, <1>7
      <3> QED BY <1>4, <1>8, <2>1, <3>1, MirrorAlone
    <2>2. CASE t # None
      <3>1. Own(w)' + unheard' \in Nat BY <1>4, <1>5, <1>7
      <3>2. Covers(t, xwin, xleft, Own(w)' + unheard') BY <1>9, <2>2, <3>1
      <3> HIDE DEF t
      <3> QED BY <1>4, <1>8, <2>2, <3>2 DEF MirrorCovers
    <2> QED BY <2>1, <2>2
  <1>12. ToldCovers(w)' BY <1>2, <1>3 DEF ToldCovers
  <1>13. xleft' <= xleft /\ unheard <= unheard' BY <1>4, <1>5
  <1> QED BY <1>3, <1>4, <1>8, <1>10, <1>11, <1>12, <1>13, WorkerCovers

LEMMA CrashCovers ==
    ASSUME TypeOK, TypeOK', LimitInv, NEW w \in Workers, Crash(w)
    PROVE  LimitInv'
  <1>1. /\ job'[w] = Idle /\ \A v \in Workers \ {w} : job'[v] = job[v]
    BY Writes DEF Crash
  <1>2. /\ xwin' = xwin /\ xleft' = xleft /\ key' = key
        /\ unheard' = unheard + (IF job[w].pc = "send" THEN 1 ELSE 0)
        /\ mirror'[w] = None /\ \A v \in Workers \ {w} : mirror'[v] = mirror[v]
    BY DEF Crash, world, TypeOK
  <1>3. xleft \in Nat /\ unheard \in Nat /\ Cardinality(Sending) \in Nat
    BY Quantities
  <1>4. Cardinality(Sending') \in Nat
    <2>1. Sending' \in SUBSET Workers BY DEF Sending
    <2>2. IsFiniteSet(Sending') BY <2>1, AccessAssumption, FS_Subset
    <2> QED BY <2>2, FS_CardinalityType
  <1>5. /\ job[w].pc = "send" => Cardinality(Sending) = Cardinality(Sending') + 1
        /\ job[w].pc # "send" => Cardinality(Sending') = Cardinality(Sending)
    BY <1>1, IdleFits, SendingCount
  <1>6. KeyCovers'
    <2>1. xleft' + Cardinality(Sending) + unheard <= xleft + Cardinality(Sending') + unheard'
      BY <1>2, <1>3, <1>4, <1>5
    <2> QED BY <1>2, <2>1, KeyAlone
  <1>7. MirrorCovers(w)' BY <1>2 DEF MirrorCovers
  <1>8. ToldCovers(w)'
    <2>1. Idle.told = None BY DEF Idle
    <2> QED BY <1>1, <2>1 DEF ToldCovers
  <1>9. xleft' <= xleft /\ unheard <= unheard' BY <1>2, <1>3
  <1> QED BY <1>1, <1>2, <1>6, <1>7, <1>8, <1>9, WorkerCovers

LEMMA OthersCover ==
    ASSUME TypeOK, TypeOK', LimitInv, NEW w \in Workers,
           \/ StartCollect(w) \/ StartProbe(w) \/ ProfileFails(w) \/ GateRefuses(w)
           \/ GatePasses(w) \/ Persist(w) \/ Commit(w) \/ Collide(w)
    PROVE  LimitInv'
  <1>1. /\ UNCHANGED <<xleft, xwin, unheard, key, mirror>>
        /\ job[w].pc \notin {"decrement", "send"}
    BY DEF StartCollect, StartProbe, ProfileFails, GateRefuses, GatePasses, Persist, Commit,
           Collide, world, limiter, history
  <1>2. ASSUME NEW j, Set(w, j), j.pc \notin {"decrement", "send"},
               j.told \in {job[w].told, None}
        PROVE  LimitInv'
    BY <1>1, <1>2, QuietCovers
  <1>3. CASE StartCollect(w) \/ StartProbe(w) \/ ProfileFails(w)
    <2> DEFINE j == [Idle EXCEPT !.task = "collect", !.pc = "gate"]
               k == [Idle EXCEPT !.task = "probe", !.pc = "gate"]
               l == [Idle EXCEPT !.task = "probe", !.pc = "persist", !.found = "UNKNOWN"]
    <2>1. Set(w, j) \/ Set(w, k) \/ Set(w, l)
      BY <1>3 DEF StartCollect, StartProbe, ProfileFails
    <2>2. /\ j.pc = "gate" /\ j.told = None /\ k.pc = "gate" /\ k.told = None
          /\ l.pc = "persist" /\ l.told = None
      BY DEF Idle
    <2> HIDE DEF j, k, l
    <2> QED BY <1>2, <2>1, <2>2
  <1>4. CASE GateRefuses(w)
    <2>1. PICK ending \in {"capability", "budget", "rate"} : Set(w, Ended(w, ending))
      BY <1>4 DEF GateRefuses
    <2> DEFINE j == Ended(w, ending)
    <2>2. j.pc \in {"persist", "idle"} /\ j.told = None BY DEF Ended, Idle
    <2> HIDE DEF j
    <2> QED BY <1>2, <2>1, <2>2 DEF j
  <1>5. CASE GatePasses(w)
    <2> DEFINE j == [job[w] EXCEPT !.pc = "consume"]
    <2>1. j.pc = "consume" /\ j.told = job[w].told BY Fields DEF Job
    <2>2. Set(w, j) BY <1>5 DEF GatePasses
    <2> HIDE DEF j
    <2> QED BY <1>2, <2>1, <2>2
  <1>6. CASE Persist(w)
    <2> DEFINE j == [job[w] EXCEPT
          !.pc = "commit", !.fresh = (cap = None),
          !.found = IF Inconclusive(@) /\ cap \in Settled THEN None ELSE @]
    <2>1. j.pc = "commit" /\ j.told = job[w].told BY Fields DEF Job
    <2>2. Set(w, j) BY <1>6 DEF Persist
    <2> HIDE DEF j
    <2> QED BY <1>2, <2>1, <2>2
  <1>7. CASE Commit(w) \/ Collide(w)
    <2>1. Set(w, Idle) BY <1>7 DEF Commit, Collide
    <2>2. Idle.pc = "idle" /\ Idle.told = None BY DEF Idle
    <2> QED BY <1>2, <2>1, <2>2
  <1> QED BY <1>3, <1>4, <1>5, <1>6, <1>7

LEMMA LimitStep == TypeOK /\ TypeOK' /\ LimitInv /\ [Next]_vars => LimitInv'
  <1> SUFFICES ASSUME TypeOK, TypeOK', LimitInv, [Next]_vars PROVE LimitInv'
    OBVIOUS
  <1>1. CASE UNCHANGED vars \/ ChangeAccess \/ RedisFails \/ RedisReturns
    <2>1. UNCHANGED <<xleft, xwin, unheard, key, mirror, job>>
      BY <1>1 DEF ChangeAccess, RedisFails, RedisReturns, vars, world, limiter, history
    <2> QED BY <2>1 DEF LimitInv, KeyCovers, MirrorCovers, ToldCovers, Sending, Own
  <1>2. CASE Tick
    BY <1>2, TickCovers
  <1>3. ASSUME NEW w \in Workers,
               \/ StartCollect(w) \/ StartProbe(w) \/ Step(w)
               \/ Fault(w) \/ ProfileFails(w) \/ Crash(w)
        PROVE  LimitInv'
    <2>1. CASE Consume(w) BY <2>1, ConsumeCovers
    <2>2. CASE Decrement(w) BY <2>2, DecrementCovers
    <2>3. CASE Answer(w) BY <2>3, AnswerCovers
    <2>4. CASE Fault(w) BY <2>4, FaultCovers
    <2>5. CASE Receive(w) BY <2>5, ReceiveCovers
    <2>6. CASE Crash(w) BY <2>6, CrashCovers
    <2>7. CASE \/ StartCollect(w) \/ StartProbe(w) \/ ProfileFails(w) \/ GateRefuses(w)
               \/ GatePasses(w) \/ Persist(w) \/ Commit(w) \/ Collide(w)
      BY <2>7, OthersCover
    <2> QED BY <1>3, <2>1, <2>2, <2>3, <2>4, <2>5, <2>6, <2>7 DEF Step
  <1> QED BY <1>1, <1>2, <1>3 DEF Next

(* However answers are reordered, workers restart and Redis comes and goes,  *)
(* a request is refused only when what X would still allow is spoken for,    *)
(* and only until X's window turns, unless the counter is wedged             *)
(* (ratelimit.py: check, consume, record).                                   *)
THEOREM RefusalsAreSpent == Spec => []RefusesOnlyTheSpent
  <1>1. Spec => [](TypeOK /\ LimitInv)
    BY InitTypes, InitLimit, TypeStep, LimitStep, PTL DEF Spec
  <1>2. TypeOK /\ LimitInv => RefusesOnlyTheSpent
    <2> SUFFICES ASSUME TypeOK, LimitInv, NEW w \in Workers, Closed(w), ~(up /\ Wedged)
                 PROVE  /\ xleft <= Cardinality(InFlight) + unheard
                        /\ (IF up THEN key.reset ELSE mirror[w].reset) = xwin
      BY DEF RefusesOnlyTheSpent
    <2>1. /\ xleft \in Nat /\ unheard \in Nat /\ Cardinality(Sending) \in Nat
          /\ mirror[w] # None => mirror[w].left \in Int
          /\ key # None => key.left \in Int
      BY Quantities
    <2>2. /\ IsFiniteSet(InFlight) /\ Cardinality(InFlight) \in Nat
          /\ Cardinality(Sending) <= Cardinality(InFlight)
      <3>1. InFlight \in SUBSET Workers /\ Sending \in SUBSET InFlight
        BY DEF InFlight, Sending
      <3> QED BY <3>1, AccessAssumption, FS_Subset, FS_CardinalityType
    <2>3. CASE up
      <3>1. /\ key # None /\ key.ttl # None /\ key.left <= 0 /\ key.reset # 0
        BY <2>3 DEF Closed, Exhausted, Wedged
      <3>2. Covers(key, xwin, xleft, Cardinality(Sending) + unheard)
        BY <3>1 DEF LimitInv, KeyCovers
      <3> QED BY <2>1, <2>2, <2>3, <3>1, <3>2 DEF Covers, Rest
    <2>4. CASE ~up
      <3>1. mirror[w] # None /\ mirror[w].left <= 0 /\ mirror[w].reset # 0
        BY <2>4 DEF Closed, Exhausted
      <3>2. Covers(mirror[w], xwin, xleft, Own(w) + unheard)
        BY <3>1 DEF LimitInv, MirrorCovers
      <3>3. Own(w) \in Nat /\ Own(w) <= Cardinality(InFlight)
        <4>1. CASE w \in InFlight
          <5>1. Cardinality(InFlight) # 0 BY <2>2, <4>1, FS_EmptySet
          <5> QED BY <2>2, <5>1 DEF Own
        <4>2. CASE w \notin InFlight
          BY <2>2, <4>2 DEF InFlight, Own
        <4> QED BY <4>1, <4>2
      <3> QED BY <2>1, <2>2, <2>4, <3>1, <3>2, <3>3 DEF Covers, Rest
    <2> QED BY <2>3, <2>4
  <1> QED BY <1>1, <1>2, PTL
=============================================================================
