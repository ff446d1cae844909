---------------------------- MODULE AlertsProofs ----------------------------
(***************************************************************************)
(* Theorems about Alerts, for any rules, keys, cooldown and severities, any *)
(* number of evaluations at once and any number of them that die.          *)
(***************************************************************************)
EXTENDS Alerts, WellFoundedInduction, TLAPS

-----------------------------------------------------------------------------
(* Typing *)

LEMMA LeastRank ==
    ASSUME NEW T \in SUBSET Nat, T # {}
    PROVE  \E x \in T : \A y \in T : x <= y
  <1>1. PICK x \in T : \A y \in T : ~ (<<y, x>> \in OpToRel(<, Nat))
    BY WFMin, NatLessThanWellFounded
  <1>2. \A y \in T : ~ (y < x)
    BY <1>1 DEF OpToRel
  <1> QED BY <1>2

(* The next finding is one of those left.                                    *)
LEMMA NextIsLeft ==
    ASSUME TypeOK, NEW e \in Evaluators, eval[e].todo # {}
    PROVE  NextFinding(e) \in eval[e].todo /\ NextFinding(e) \in Keys
  <1> DEFINE left  == eval[e].todo
             ranks == {RuleOf[k] : k \in left}
  <1>1. left \in SUBSET Keys BY DEF TypeOK, Evaluation
  <1>2. \A k \in left : RuleOf[k] \in Nat
    <2>1. \A k \in Keys : RuleOf[k] \in Rules BY AlertsAssumption
    <2>2. Rules \subseteq Nat BY AlertsAssumption
    <2> HIDE DEF left
    <2> QED BY <1>1, <2>1, <2>2
  <1>3. ranks \in SUBSET Nat /\ ranks # {} BY <1>2
  <1>4. PICK x \in ranks : \A y \in ranks : x <= y
    <2> HIDE DEF ranks
    <2> QED BY <1>3, LeastRank
  <1>5. \E k \in left : \A q \in left : RuleOf[k] <= RuleOf[q] BY <1>4
  <1> HIDE DEF left
  <1>6. NextFinding(e) \in left BY <1>5 DEF NextFinding, left
  <1> QED BY <1>1, <1>6 DEF left

LEMMA FindingsAreKeys ==
    ASSUME TypeOK
    PROVE  Findings \in SUBSET Keys
  BY DEF TypeOK, Findings

LEMMA NoEvaluationType == NoEvaluation \in Evaluation
  BY DEF NoEvaluation, Evaluation

LEMMA NoAlertType == NoAlert \in Alert
  BY AlertsAssumption DEF NoAlert, Alert, Severities

LEMMA RollBackType ==
    ASSUME TypeOK, NEW e \in Evaluators, RollBack(e)
    PROVE  alert' \in [Keys -> Alert] /\ eval' \in [Evaluators -> Evaluation]
  <1>1. \A k \in Keys : (IF alert[k].by = e THEN NoAlert ELSE alert[k]) \in Alert
    BY NoAlertType DEF TypeOK
  <1>2. alert' \in [Keys -> Alert] BY <1>1 DEF RollBack
  <1>3. eval' \in [Evaluators -> Evaluation]
    BY NoEvaluationType DEF TypeOK, RollBack
  <1> QED BY <1>2, <1>3

-----------------------------------------------------------------------------
(* What an evaluation has in hand *)

(* A row in hand is new, and its evaluation is under way.                    *)
InHand ==
    \A k \in Keys : alert[k].by # None
        => alert[k].state = "FIRING" /\ eval[alert[k].by].pc # "idle"

(* What is to be reopened, closed or acknowledged is in the table for good.  *)
OnlyCommitted ==
    /\ ack # None => Committed(ack)
    /\ \A e \in Evaluators : \A k \in eval[e].reopen \cup eval[e].close : Committed(k)

InsertsNext == \A e \in Evaluators : eval[e].pc = "insert" => eval[e].todo # {}

(* A committed row stays.                                                    *)
TableInv == TypeOK /\ InHand /\ OnlyCommitted /\ InsertsNext

(* One step of the evaluation e at its work: what becomes of the rows and of *)
(* what e has in hand.  The others' rows and the others' work are left.      *)
Done(work, k)     == [work EXCEPT !.todo = @ \ {k}]
Reopened(work, k) == [Done(work, k) EXCEPT !.reopen = @ \cup {k}]

Raises(e) ==
    \E k \in Keys :
      /\ eval[e].pc = "raise" /\ k = NextFinding(e)
      /\ \/ /\ Visible(e, k) /\ alert[k].state = "RESOLVED"
            /\ eval' = [eval EXCEPT ![e] = Reopened(@, k)]
         \/ eval' = [eval EXCEPT ![e] = Done(@, k)]
         \/ /\ ~Visible(e, k) /\ ~Cooling(e, RuleOf[k])
            /\ eval' = [eval EXCEPT ![e].pc = "insert"]
      /\ eval[e].todo # {}
      /\ UNCHANGED <<world, alert, ack, history, crashes>>

LEMMA WorkIs ==
    ASSUME NEW work \in Evaluation, NEW k \in Keys
    PROVE  /\ Done(work, k) \in Evaluation
           /\ Done(work, k).pc = work.pc /\ Done(work, k).found = work.found
           /\ Done(work, k).reopen = work.reopen /\ Done(work, k).close = work.close
           /\ Reopened(work, k) \in Evaluation
           /\ Reopened(work, k).pc = work.pc /\ Reopened(work, k).found = work.found
           /\ Reopened(work, k).reopen = work.reopen \cup {k}
           /\ Reopened(work, k).close = work.close
  <1> DEFINE t == Done(work, k)
  <1>1. /\ t \in Evaluation /\ t.pc = work.pc /\ t.found = work.found
        /\ t.reopen = work.reopen /\ t.close = work.close
    BY DEF Done, Evaluation
  <1> HIDE DEF t
  <1>2. Reopened(work, k) = [t EXCEPT !.reopen = t.reopen \cup {k}]
    BY <1>1 DEF Reopened, t, Evaluation
  <1>3. /\ Reopened(work, k) \in Evaluation
        /\ Reopened(work, k).pc = t.pc /\ Reopened(work, k).found = t.found
        /\ Reopened(work, k).reopen = t.reopen \cup {k}
        /\ Reopened(work, k).close = t.close
    BY <1>1, <1>2 DEF Evaluation
  <1> QED BY <1>1, <1>3 DEF t

LEMMA RaiseIs ==
    ASSUME TypeOK, NEW e \in Evaluators, Raise(e)
    PROVE  Raises(e)
  <1> DEFINE k == NextFinding(e)
  <1>1. k \in Keys /\ eval[e].todo # {} /\ eval[e].pc = "raise"
    BY NextIsLeft DEF Raise
  <1>2. UNCHANGED <<world, alert, ack, history, crashes>> BY DEF Raise
  <1>3. eval' = [eval EXCEPT ![e] =
             IF Visible(e, k)
               THEN IF alert[k].state = "RESOLVED"
                      THEN Reopened(eval[e], k) ELSE Done(eval[e], k)
             ELSE IF Cooling(e, RuleOf[k]) THEN Done(eval[e], k)
             ELSE [eval[e] EXCEPT !.pc = "insert"]]
    BY DEF Raise, Done, Reopened
  <1> HIDE DEF k
  <1>4. eval \in [Evaluators -> Evaluation] BY DEF TypeOK
  <1>5. CASE Visible(e, k) /\ alert[k].state = "RESOLVED"
    <2>1. eval' = [eval EXCEPT ![e] = Reopened(@, k)]
      BY <1>3, <1>4, <1>5
    <2> QED BY <1>1, <1>2, <1>5, <2>1 DEF Raises, k
  <1>6. CASE ~Visible(e, k) /\ ~Cooling(e, RuleOf[k])
    <2>1. eval' = [eval EXCEPT ![e].pc = "insert"]
      BY <1>3, <1>4, <1>6
    <2> QED BY <1>1, <1>2, <1>6, <2>1 DEF Raises, k
  <1>7. CASE \/ Visible(e, k) /\ alert[k].state # "RESOLVED"
             \/ ~Visible(e, k) /\ Cooling(e, RuleOf[k])
    <2>1. eval' = [eval EXCEPT ![e] = Done(@, k)]
      BY <1>3, <1>4, <1>7
    <2> QED BY <1>1, <1>2, <2>1 DEF Raises, k
  <1> QED BY <1>5, <1>6, <1>7

-----------------------------------------------------------------------------
(* Typing, step by step *)

LEMMA OutsideType ==
    ASSUME TypeOK,
           \/ Tick
           \/ AcknowledgeWrite /\ OnlyCommitted
           \/ \E r \in Rules : Change(r) \/ Toggle(r)
           \/ \E k \in Keys : AcknowledgeRead(k)
    PROVE  TypeOK'
  <1>1. CASE Tick
    BY <1>1, AlertsAssumption DEF Tick, TypeOK, history
  <1>2. CASE AcknowledgeWrite
    <2>1. ack \in Keys BY <1>2 DEF AcknowledgeWrite, TypeOK
    <2>2. [alert[ack] EXCEPT !.state = "ACKNOWLEDGED"] \in Alert
      BY <2>1 DEF TypeOK, Alert
    <2>3. alert' \in [Keys -> Alert]
      BY <1>2, <2>1, <2>2 DEF AcknowledgeWrite, TypeOK
    <2> QED BY <1>2, <2>3 DEF AcknowledgeWrite, TypeOK, world, history
  <1>3. ASSUME NEW r \in Rules, Change(r) PROVE TypeOK'
    <2>1. holds' \in [Rules -> Keys \cup {None}]
      BY <1>3 DEF Change, TypeOK, KeysOf
    <2>2. severe' \subseteq Rules /\ ended' \subseteq Keys
      BY <1>3 DEF Change, TypeOK, KeysOf
    <2> QED BY <1>3, <2>1, <2>2 DEF Change, TypeOK
  <1>4. ASSUME NEW r \in Rules, Toggle(r) PROVE TypeOK'
    <2>1. enabled' \subseteq Rules /\ ended' \subseteq Keys
      BY <1>4 DEF Toggle, TypeOK, KeysOf
    <2> QED BY <1>4, <2>1 DEF Toggle, TypeOK
  <1>5. ASSUME NEW k \in Keys, AcknowledgeRead(k) PROVE TypeOK'
    BY <1>5 DEF AcknowledgeRead, TypeOK, world, history
  <1> QED BY <1>1, <1>2, <1>3, <1>4, <1>5

LEMMA EvaluationType ==
    ASSUME TypeOK, InsertsNext, NEW e \in Evaluators,
           Start(e) \/ Step(e) \/ Crash(e)
    PROVE  TypeOK'
  <1>0. eval[e] \in Evaluation BY DEF TypeOK
  <1>1. CASE Start(e)
    <2> DEFINE v == [NoEvaluation EXCEPT
                       !.pc = "raise", !.found = Findings, !.todo = Findings,
                       !.worst = {k \in Findings : RuleOf[k] \in severe}]
    <2>1. v \in Evaluation
      BY FindingsAreKeys DEF NoEvaluation, Evaluation
    <2>2. eval' = [eval EXCEPT ![e] = v] BY <1>1 DEF Start
    <2> HIDE DEF v
    <2>3. eval' \in [Evaluators -> Evaluation] BY <2>1, <2>2 DEF TypeOK
    <2>4. overlapped' \in BOOLEAN BY <1>1 DEF Start, TypeOK
    <2> QED BY <1>1, <2>3, <2>4 DEF Start, TypeOK, world
  <1>2. CASE Raise(e)
    <2>1. PICK k \in Keys :
            /\ \/ eval' = [eval EXCEPT ![e] = Reopened(@, k)]
               \/ eval' = [eval EXCEPT ![e] = Done(@, k)]
               \/ eval' = [eval EXCEPT ![e].pc = "insert"]
            /\ UNCHANGED <<world, alert, ack, history, crashes>>
      BY <1>2, RaiseIs DEF Raises
    <2>2. /\ Reopened(eval[e], k) \in Evaluation
          /\ Done(eval[e], k) \in Evaluation
          /\ [eval[e] EXCEPT !.pc = "insert"] \in Evaluation
      BY <1>0, WorkIs DEF Evaluation
    <2>3. eval' \in [Evaluators -> Evaluation] BY <2>1, <2>2 DEF TypeOK
    <2> QED BY <2>1, <2>3 DEF TypeOK, world, history
  <1>3. CASE Insert(e)
    <2> DEFINE k == NextFinding(e)
               a == [state |-> "FIRING", fired |-> FiredAt, by |-> e,
                     severity |-> IF k \in eval[e].worst THEN "CRITICAL" ELSE "WARNING"]
               v == [[eval[e] EXCEPT !.pc = "raise"] EXCEPT !.todo = @ \ {k}]
    <2>1. k \in Keys BY <1>3, NextIsLeft DEF Insert, InsertsNext
    <2>2. a \in Alert BY DEF TypeOK, Alert, Severities, FiredAt
    <2>3. v \in Evaluation BY <1>0 DEF Evaluation
    <2>4. alert' = [alert EXCEPT ![k] = a] BY <1>3 DEF Insert
    <2>5. eval' = [eval EXCEPT ![e] = v]
      BY <1>3 DEF Insert, TypeOK
    <2> HIDE DEF a, v, k
    <2>6. alert' \in [Keys -> Alert] /\ eval' \in [Evaluators -> Evaluation]
      BY <2>1, <2>2, <2>3, <2>4, <2>5 DEF TypeOK
    <2> QED BY <1>3, <2>6 DEF Insert, TypeOK, world, history
  <1>4. CASE Collide(e)
    BY <1>4, RollBackType DEF Collide, RollBack, TypeOK, world, history
  <1>5. CASE Resolve(e)
    <2> DEFINE c == {k \in Keys : Closable(e, k) /\ RuleOf[k] \notin StillFiring(e)}
               v == [[eval[e] EXCEPT !.pc = "deliver"] EXCEPT !.close = c]
    <2>1. v \in Evaluation BY <1>0 DEF Evaluation
    <2>2. eval' = [eval EXCEPT ![e] = v] BY <1>5 DEF Resolve, TypeOK
    <2> HIDE DEF v
    <2>3. eval' \in [Evaluators -> Evaluation] BY <2>1, <2>2 DEF TypeOK
    <2> QED BY <1>5, <2>3 DEF Resolve, TypeOK, world, history
  <1>6. CASE Deliver(e)
    <2>1. emails' \in [Keys -> Nat] BY <1>6 DEF Deliver, TypeOK
    <2>2. [eval[e] EXCEPT !.pc = "commit"] \in Evaluation BY <1>0 DEF Evaluation
    <2>3. eval' \in [Evaluators -> Evaluation]
      BY <1>6, <2>2 DEF Deliver, TypeOK
    <2> QED BY <1>6, <2>1, <2>3 DEF Deliver, TypeOK, world
  <1>7. CASE Commit(e)
    <2>1. ended' \subseteq Keys BY <1>7 DEF Commit, TypeOK
    <2>2. eval' \in [Evaluators -> Evaluation]
      BY <1>7, NoEvaluationType DEF Commit, TypeOK
    <2>3. \A k \in Keys :
            /\ [alert[k] EXCEPT !.by = None] \in Alert
            /\ [alert[k] EXCEPT !.state = "FIRING"] \in Alert
            /\ [alert[k] EXCEPT !.state = "RESOLVED"] \in Alert
            /\ alert[k] \in Alert
      BY DEF TypeOK, Alert
    <2>4. alert' \in [Keys -> Alert] BY <1>7, <2>3 DEF Commit
    <2> QED BY <1>7, <2>1, <2>2, <2>4 DEF Commit, TypeOK, world
  <1>8. CASE Crash(e)
    <2>1. crashes' \in Nat BY <1>8 DEF Crash, TypeOK
    <2> QED BY <1>8, <2>1, RollBackType DEF Crash, RollBack, TypeOK, world, history
  <1> QED BY <1>1, <1>2, <1>3, <1>4, <1>5, <1>6, <1>7, <1>8 DEF Step


-----------------------------------------------------------------------------
(* What each step of the evaluation e leaves it with                         *)

LEMMA AfterStart ==
    ASSUME TypeOK, NEW e \in Evaluators, Start(e)
    PROVE  /\ eval'[e].pc = "raise" /\ eval'[e].found = Findings
           /\ eval'[e].reopen = {} /\ eval'[e].close = {}
           /\ \A d \in Evaluators \ {e} : eval'[d] = eval[d]
  <1> DEFINE v == [NoEvaluation EXCEPT
                     !.pc = "raise", !.found = Findings, !.todo = Findings,
                     !.worst = {k \in Findings : RuleOf[k] \in severe}]
  <1>1. v.pc = "raise" /\ v.found = Findings /\ v.reopen = {} /\ v.close = {}
    BY DEF NoEvaluation
  <1>2. eval' = [eval EXCEPT ![e] = v] BY DEF Start
  <1> HIDE DEF v
  <1> QED BY <1>1, <1>2 DEF TypeOK

LEMMA AfterRaise ==
    ASSUME TypeOK, NEW e \in Evaluators, Raise(e)
    PROVE  /\ eval[e].pc = "raise" /\ eval'[e].pc \in {"raise", "insert"}
           /\ eval'[e].found = eval[e].found /\ eval'[e].close = eval[e].close
           /\ \A k \in eval'[e].reopen :
                \/ k \in eval[e].reopen
                \/ k \in Keys /\ Visible(e, k) /\ alert[k].state = "RESOLVED"
           /\ eval'[e].pc = "insert" =>
                /\ eval'[e].todo = eval[e].todo /\ eval[e].todo # {}
                /\ ~Visible(e, NextFinding(e))
                /\ ~Cooling(e, RuleOf[NextFinding(e)])
           /\ \A d \in Evaluators \ {e} : eval'[d] = eval[d]
           /\ UNCHANGED <<world, alert, ack, history, crashes>>
  <1>0. eval[e] \in Evaluation /\ eval \in [Evaluators -> Evaluation] BY DEF TypeOK
  <1>1. PICK k \in Keys :
          /\ eval[e].pc = "raise" /\ k = NextFinding(e)
          /\ \/ /\ Visible(e, k) /\ alert[k].state = "RESOLVED"
                /\ eval' = [eval EXCEPT ![e] = Reopened(@, k)]
             \/ eval' = [eval EXCEPT ![e] = Done(@, k)]
             \/ /\ ~Visible(e, k) /\ ~Cooling(e, RuleOf[k])
                /\ eval' = [eval EXCEPT ![e].pc = "insert"]
          /\ eval[e].todo # {}
          /\ UNCHANGED <<world, alert, ack, history, crashes>>
    BY RaiseIs DEF Raises
  <1>2. CASE /\ Visible(e, k) /\ alert[k].state = "RESOLVED"
             /\ eval' = [eval EXCEPT ![e] = Reopened(@, k)]
    <2>1. eval'[e] = Reopened(eval[e], k) /\ \A d \in Evaluators \ {e} : eval'[d] = eval[d]
      BY <1>0, <1>2
    <2>2. /\ eval'[e].pc = "raise" /\ eval'[e].found = eval[e].found
          /\ eval'[e].close = eval[e].close
          /\ eval'[e].reopen = eval[e].reopen \cup {k}
      BY <1>0, <1>1, <2>1, WorkIs
    <2> QED BY <1>1, <1>2, <2>1, <2>2
  <1>3. CASE eval' = [eval EXCEPT ![e] = Done(@, k)]
    <2>1. eval'[e] = Done(eval[e], k) /\ \A d \in Evaluators \ {e} : eval'[d] = eval[d]
      BY <1>0, <1>3
    <2>2. /\ eval'[e].pc = "raise" /\ eval'[e].found = eval[e].found
          /\ eval'[e].close = eval[e].close /\ eval'[e].reopen = eval[e].reopen
      BY <1>0, <1>1, <2>1, WorkIs
    <2> QED BY <1>1, <2>1, <2>2
  <1>4. CASE /\ ~Visible(e, k) /\ ~Cooling(e, RuleOf[k])
             /\ eval' = [eval EXCEPT ![e].pc = "insert"]
    <2>1. /\ eval'[e].pc = "insert" /\ eval'[e].found = eval[e].found
          /\ eval'[e].close = eval[e].close /\ eval'[e].reopen = eval[e].reopen
          /\ eval'[e].todo = eval[e].todo
          /\ \A d \in Evaluators \ {e} : eval'[d] = eval[d]
      BY <1>0, <1>4 DEF Evaluation
    <2> QED BY <1>1, <1>4, <2>1
  <1> QED BY <1>1, <1>2, <1>3, <1>4

LEMMA AfterInsert ==
    ASSUME TypeOK, InsertsNext, NEW e \in Evaluators, Insert(e)
    PROVE  /\ eval[e].pc = "insert" /\ eval'[e].pc = "raise"
           /\ eval'[e].found = eval[e].found /\ eval'[e].close = eval[e].close
           /\ eval'[e].reopen = eval[e].reopen
           /\ \A d \in Evaluators \ {e} : eval'[d] = eval[d]
           /\ NextFinding(e) \in Keys
           /\ alert[NextFinding(e)].state = "none" /\ alert[NextFinding(e)].by = None
           /\ alert'[NextFinding(e)].state = "FIRING"
           /\ alert'[NextFinding(e)].by = e /\ alert'[NextFinding(e)].fired = now
           /\ \A k \in Keys \ {NextFinding(e)} : alert'[k] = alert[k]
           /\ UNCHANGED <<world, ack, history, crashes>>
  <1> DEFINE k == NextFinding(e)
             a == [state |-> "FIRING", fired |-> FiredAt, by |-> e,
                   severity |-> IF k \in eval[e].worst THEN "CRITICAL" ELSE "WARNING"]
  <1>0. eval[e] \in Evaluation /\ eval \in [Evaluators -> Evaluation]
        /\ alert \in [Keys -> Alert]
    BY DEF TypeOK
  <1>1. /\ eval[e].pc = "insert" /\ alert[k].by = None /\ ~Taken(k)
        /\ alert' = [alert EXCEPT ![k] = a]
        /\ UNCHANGED <<world, ack, history, crashes>>
    BY DEF Insert
  <1>2. eval' = [eval EXCEPT ![e].pc = "raise", ![e].todo = @ \ {k}]
    BY DEF Insert
  <1>3. k \in Keys BY <1>1, NextIsLeft DEF InsertsNext
  <1>4. alert[k].state = "none" BY <1>1 DEF Taken, Committed
  <1>5. a.state = "FIRING" /\ a.by = e /\ a.fired = now BY DEF FiredAt
  <1> HIDE DEF k, a
  <1>6. /\ eval'[e].pc = "raise"
        /\ eval'[e].found = eval[e].found /\ eval'[e].close = eval[e].close
        /\ eval'[e].reopen = eval[e].reopen
        /\ \A d \in Evaluators \ {e} : eval'[d] = eval[d]
    BY <1>0, <1>2 DEF Evaluation
  <1>7. alert'[k] = a /\ \A q \in Keys \ {k} : alert'[q] = alert[q]
    BY <1>0, <1>1, <1>3
  <1> QED BY <1>1, <1>3, <1>4, <1>5, <1>6, <1>7 DEF k

LEMMA AfterRollBack ==
    ASSUME TypeOK, NEW e \in Evaluators, RollBack(e)
    PROVE  /\ eval'[e] = NoEvaluation
           /\ \A d \in Evaluators \ {e} : eval'[d] = eval[d]
           /\ \A k \in Keys : alert[k].by = e => alert'[k] = NoAlert
           /\ \A k \in Keys : alert[k].by # e => alert'[k] = alert[k]
           /\ UNCHANGED <<world, ack, history>>
  BY DEF RollBack, TypeOK

LEMMA AfterResolve ==
    ASSUME TypeOK, NEW e \in Evaluators, Resolve(e)
    PROVE  /\ eval[e].pc = "raise" /\ eval'[e].pc = "deliver"
           /\ eval'[e].found = eval[e].found /\ eval'[e].reopen = eval[e].reopen
           /\ \A k \in eval'[e].close :
                k \in Keys /\ Committed(k) /\ k \notin eval[e].found
           /\ \A d \in Evaluators \ {e} : eval'[d] = eval[d]
           /\ UNCHANGED <<world, alert, ack, history, crashes>>
  <1> DEFINE c == {k \in Keys : Closable(e, k) /\ RuleOf[k] \notin StillFiring(e)}
             v == [[eval[e] EXCEPT !.pc = "deliver"] EXCEPT !.close = c]
  <1>0. eval[e] \in Evaluation /\ eval \in [Evaluators -> Evaluation] BY DEF TypeOK
  <1>1. v.pc = "deliver" /\ v.found = eval[e].found /\ v.reopen = eval[e].reopen
        /\ v.close = c
    BY <1>0 DEF Evaluation
  <1>2. eval' = [eval EXCEPT ![e] = v] /\ eval[e].pc = "raise"
        /\ UNCHANGED <<world, alert, ack, history, crashes>>
    BY <1>0 DEF Resolve
  <1>3. \A k \in c : k \in Keys /\ Committed(k) /\ k \notin eval[e].found
    BY DEF Closable, StillFiring
  <1> HIDE DEF v, c
  <1> QED BY <1>0, <1>1, <1>2, <1>3

LEMMA AfterDeliver ==
    ASSUME TypeOK, NEW e \in Evaluators, Deliver(e)
    PROVE  /\ eval[e].pc = "deliver" /\ eval'[e].pc = "commit"
           /\ eval'[e].found = eval[e].found /\ eval'[e].close = eval[e].close
           /\ eval'[e].reopen = eval[e].reopen
           /\ \A d \in Evaluators \ {e} : eval'[d] = eval[d]
           /\ \A k \in Keys : \/ emails'[k] = emails[k]
                              \/ emails'[k] = emails[k] + 1 /\ alert[k].by = e
           /\ UNCHANGED <<world, alert, ack, ended, overlapped, crashes>>
  <1>0. eval[e] \in Evaluation /\ eval \in [Evaluators -> Evaluation]
        /\ emails \in [Keys -> Nat]
    BY DEF TypeOK
  <1>1. eval' = [eval EXCEPT ![e].pc = "commit"] /\ eval[e].pc = "deliver"
        /\ UNCHANGED <<world, alert, ack, ended, overlapped, crashes>>
    BY DEF Deliver
  <1>2. \A k \in Keys : \/ emails'[k] = emails[k]
                        \/ emails'[k] = emails[k] + 1 /\ alert[k].by = e
    <2>1. PICK sent \in SUBSET {k \in Keys : alert[k].by = e
                                             /\ alert[k].severity \in Deliverable} :
            emails' = [k \in Keys |-> emails[k] + IF k \in sent THEN 1 ELSE 0]
      BY DEF Deliver
    <2>2. \A k \in Keys : emails'[k] = emails[k] + IF k \in sent THEN 1 ELSE 0
      BY <2>1
    <2>3. \A k \in Keys : emails[k] \in Nat BY <1>0
    <2> QED BY <2>1, <2>2, <2>3
  <1>3. /\ eval'[e].pc = "commit"
        /\ eval'[e].found = eval[e].found /\ eval'[e].close = eval[e].close
        /\ eval'[e].reopen = eval[e].reopen
        /\ \A d \in Evaluators \ {e} : eval'[d] = eval[d]
    BY <1>0, <1>1 DEF Evaluation
  <1> QED BY <1>1, <1>2, <1>3

LEMMA AfterCommit ==
    ASSUME TypeOK, OnlyCommitted, NEW e \in Evaluators, Commit(e)
    PROVE  /\ eval[e].pc = "commit" /\ eval'[e] = NoEvaluation
           /\ \A d \in Evaluators \ {e} : eval'[d] = eval[d]
           /\ \A k \in Keys :
                /\ alert'[k].fired = alert[k].fired
                /\ alert[k].by = e => alert'[k].state = alert[k].state
                                      /\ alert'[k].by = None
                /\ alert[k].by # e =>
                     /\ alert'[k].by = alert[k].by
                     /\ \/ alert'[k].state = alert[k].state
                        \/ k \in eval[e].reopen /\ alert'[k].state = "FIRING"
                        \/ k \in eval[e].close /\ alert'[k].state = "RESOLVED"
           /\ \A k \in ended \ ended' : holds[RuleOf[k]] = k /\ RuleOf[k] \in enabled
           /\ ended' \subseteq ended
           /\ UNCHANGED <<world, ack, emails, overlapped, crashes>>
  <1>0. eval \in [Evaluators -> Evaluation] /\ \A k \in Keys : alert[k] \in Alert
        /\ ended \subseteq Keys
    BY DEF TypeOK
  <1> DEFINE created == {k \in Keys : alert[k].by = e}
  <1>1. /\ eval[e].pc = "commit" /\ eval' = [eval EXCEPT ![e] = NoEvaluation]
        /\ alert' = [k \in Keys |->
             CASE k \in created        -> [alert[k] EXCEPT !.by = None]
               [] k \in eval[e].reopen -> [alert[k] EXCEPT !.state = "FIRING"]
               [] k \in eval[e].close  -> [alert[k] EXCEPT !.state = "RESOLVED"]
               [] OTHER                -> alert[k]]
        /\ ended' = ended \ {k \in created \cup eval[e].reopen :
                               holds[RuleOf[k]] = k /\ RuleOf[k] \in enabled}
        /\ UNCHANGED <<world, ack, emails, overlapped, crashes>>
    BY DEF Commit
  <1>2. ASSUME NEW k \in Keys
        PROVE  /\ alert'[k].fired = alert[k].fired
               /\ alert[k].by = e => alert'[k].state = alert[k].state
                                     /\ alert'[k].by = None
               /\ alert[k].by # e =>
                    /\ alert'[k].by = alert[k].by
                    /\ \/ alert'[k].state = alert[k].state
                       \/ k \in eval[e].reopen /\ alert'[k].state = "FIRING"
                       \/ k \in eval[e].close /\ alert'[k].state = "RESOLVED"
    <2>1. alert'[k] = CASE k \in created  -> [alert[k] EXCEPT !.by = None]
               [] k \in eval[e].reopen -> [alert[k] EXCEPT !.state = "FIRING"]
               [] k \in eval[e].close  -> [alert[k] EXCEPT !.state = "RESOLVED"]
               [] OTHER                -> alert[k]
      BY <1>1
    <2>2. k \in created <=> alert[k].by = e OBVIOUS
    <2>7. k \in eval[e].reopen \cup eval[e].close => k \notin created
      BY AlertsAssumption DEF OnlyCommitted, Committed
    <2> HIDE DEF created
    <2>3. CASE k \in created
      <3>1. alert'[k] = [alert[k] EXCEPT !.by = None] BY <2>1, <2>3, <2>7
      <3>2. /\ alert'[k].fired = alert[k].fired /\ alert'[k].by = None
            /\ alert'[k].state = alert[k].state
        BY <1>0, <3>1 DEF Alert
      <3> QED BY <2>2, <2>3, <3>2
    <2>4. CASE k \notin created /\ k \in eval[e].reopen \cup eval[e].close
      <3>1. \/ /\ k \in eval[e].reopen
               /\ alert'[k] = [alert[k] EXCEPT !.state = "FIRING"]
            \/ /\ k \in eval[e].close
               /\ alert'[k] = [alert[k] EXCEPT !.state = "RESOLVED"]
        BY <2>1, <2>4
      <3>2. /\ alert'[k].fired = alert[k].fired /\ alert'[k].by = alert[k].by
            /\ \/ k \in eval[e].reopen /\ alert'[k].state = "FIRING"
               \/ k \in eval[e].close /\ alert'[k].state = "RESOLVED"
        BY <1>0, <3>1 DEF Alert
      <3> QED BY <2>2, <2>4, <3>2
    <2>6. CASE k \notin created /\ k \notin eval[e].reopen /\ k \notin eval[e].close
      <3>1. alert'[k] = alert[k] BY <2>1, <2>6
      <3> QED BY <2>2, <2>6, <3>1
    <2> QED BY <2>3, <2>4, <2>6
  <1>3. ended' \subseteq ended
        /\ \A k \in ended \ ended' : holds[RuleOf[k]] = k /\ RuleOf[k] \in enabled
    BY <1>1
  <1>4. eval'[e] = NoEvaluation /\ \A d \in Evaluators \ {e} : eval'[d] = eval[d]
    BY <1>0, <1>1
  <1> QED BY <1>1, <1>2, <1>3, <1>4


-----------------------------------------------------------------------------
(* The table *)

(* The steps of the world, the clock and the users.                          *)
Outside ==
    \/ Tick \/ AcknowledgeWrite
    \/ \E r \in Rules : Change(r) \/ Toggle(r)
    \/ \E k \in Keys : AcknowledgeRead(k)

(* They leave the evaluations alone, and of the table change only the state  *)
(* of the alert acknowledged.                                                *)
LEMMA OutsideIs ==
    ASSUME TypeOK, OnlyCommitted, Outside
    PROVE  /\ UNCHANGED <<eval, emails, overlapped, crashes>>
           /\ now' >= now
           /\ \A k \in Keys : /\ alert'[k].by = alert[k].by
                              /\ alert'[k].fired = alert[k].fired
                              /\ \/ alert'[k].state = alert[k].state
                                 \/ Committed(k) /\ alert'[k].state = "ACKNOWLEDGED"
           /\ ack' # None => \/ ack' = ack
                             \/ ack' \in Keys /\ Committed(ack')
  <1>0. now \in Nat /\ now \in Int BY DEF TypeOK
  <1>1. CASE Tick
    BY <1>0, <1>1 DEF Tick, history
  <1>2. CASE AcknowledgeWrite
    <2>1. ack \in Keys /\ Committed(ack) BY <1>2 DEF AcknowledgeWrite, TypeOK, OnlyCommitted
    <2>2. alert' = [alert EXCEPT ![ack].state = "ACKNOWLEDGED"]
          /\ UNCHANGED <<now, eval, emails, overlapped, crashes>> /\ ack' = None
      BY <1>2 DEF AcknowledgeWrite, world, history
    <2>3. \A k \in Keys \ {ack} : alert'[k] = alert[k] BY <2>1, <2>2 DEF TypeOK
    <2>4. /\ alert'[ack].by = alert[ack].by /\ alert'[ack].fired = alert[ack].fired
          /\ alert'[ack].state = "ACKNOWLEDGED"
      BY <2>1, <2>2 DEF TypeOK, Alert
    <2> QED BY <1>0, <2>1, <2>2, <2>3, <2>4
  <1>3. ASSUME NEW r \in Rules, Change(r)
        PROVE  UNCHANGED <<now, eval, alert, ack, emails, overlapped, crashes>>
    BY <1>3 DEF Change
  <1>4. ASSUME NEW r \in Rules, Toggle(r)
        PROVE  UNCHANGED <<now, eval, alert, ack, emails, overlapped, crashes>>
    BY <1>4 DEF Toggle
  <1>5. ASSUME NEW k \in Keys, AcknowledgeRead(k)
        PROVE  /\ UNCHANGED <<now, eval, alert, emails, overlapped, crashes>>
               /\ ack' = k /\ Committed(k)
    BY <1>5 DEF AcknowledgeRead, world, history
  <1> QED BY <1>0, <1>1, <1>2, <1>3, <1>4, <1>5 DEF Outside

LEMMA NextIs ==
    [Next]_vars => \/ Outside \/ UNCHANGED vars
                   \/ \E e \in Evaluators : Start(e) \/ Step(e) \/ Crash(e)
  BY DEF Next, Outside

(* A committed row stays committed.                                          *)
LEMMA CommittedStays ==
    ASSUME TableInv, [Next]_vars, NEW k \in Keys, Committed(k)
    PROVE  Committed(k)'
  <1> USE DEF TableInv, Committed
  <1>1. CASE Outside BY <1>1, OutsideIs
  <1>2. CASE UNCHANGED vars BY <1>2 DEF vars
  <1>3. ASSUME NEW e \in Evaluators, Start(e) \/ Step(e) \/ Crash(e)
        PROVE  Committed(k)'
    <2>0. e # None BY AlertsAssumption
    <2>1. CASE Start(e) BY <2>1 DEF Start
    <2>2. CASE Raise(e) BY <2>2, AfterRaise
    <2>3. CASE Insert(e) BY <2>3, AfterInsert
    <2>4. CASE Collide(e) \/ Crash(e)
      <3>1. RollBack(e) BY <2>4 DEF Collide, Crash
      <3> QED BY <2>0, <3>1, AfterRollBack
    <2>5. CASE Resolve(e) BY <2>5, AfterResolve
    <2>6. CASE Deliver(e) BY <2>6, AfterDeliver
    <2>7. CASE Commit(e) BY <2>0, <2>7, AfterCommit
    <2> QED BY <1>3, <2>1, <2>2, <2>3, <2>4, <2>5, <2>6, <2>7 DEF Step
  <1> QED BY <1>1, <1>2, <1>3, NextIs

LEMMA TableStep ==
    ASSUME TableInv, [Next]_vars
    PROVE  TableInv'
  <1>0. TypeOK /\ InHand /\ OnlyCommitted /\ InsertsNext BY DEF TableInv
  <1>1. \A k \in Keys : Committed(k) => Committed(k)' BY CommittedStays
  <1>2. CASE Outside
    <2>1. TypeOK' BY <1>0, <1>2, OutsideType DEF Outside
    <2>2. InHand'
      BY <1>0, <1>2, OutsideIs DEF InHand, Committed
    <2>3. OnlyCommitted'
      <3>1. UNCHANGED eval BY <1>0, <1>2, OutsideIs
      <3>2. \A e \in Evaluators : \A k \in eval[e].reopen \cup eval[e].close : k \in Keys
        BY <1>0 DEF TypeOK, Evaluation
      <3>3. ack' # None => Committed(ack)'
        <4>1. ack # None => ack \in Keys BY <1>0 DEF TypeOK
        <4>2. ack' # None => ack' \in Keys /\ Committed(ack')
          BY <1>0, <1>2, <4>1, OutsideIs DEF OnlyCommitted
        <4>3. SUFFICES ASSUME ack' # None PROVE Committed(ack)'
          OBVIOUS
        <4>4. ack' \in Keys /\ alert[ack'].state # "none" /\ alert[ack'].by = None
          BY <4>2, <4>3 DEF Committed
        <4>5. alert'[ack'].state # "none" /\ alert'[ack'].by = None
          BY <1>0, <1>2, <4>4, OutsideIs
        <4> QED BY <4>5 DEF Committed
      <3> QED BY <1>0, <1>1, <3>1, <3>2, <3>3 DEF OnlyCommitted
    <2>4. InsertsNext' BY <1>0, <1>2, OutsideIs DEF InsertsNext
    <2> QED BY <2>1, <2>2, <2>3, <2>4 DEF TableInv
  <1>3. CASE UNCHANGED vars
    BY <1>0, <1>3 DEF TableInv, TypeOK, InHand, OnlyCommitted, InsertsNext,
                      Committed, vars, world, history
  <1>4. ASSUME NEW e \in Evaluators, Start(e) \/ Step(e) \/ Crash(e)
        PROVE  TableInv'
    <2>0. e # None /\ e \in Evaluators BY AlertsAssumption
    <2>1. TypeOK' BY <1>0, <1>4, EvaluationType
    <2>2. \A d \in Evaluators \ {e} : eval'[d] = eval[d]
      BY <1>0, <1>4, AfterStart, AfterRaise, AfterInsert, AfterRollBack, AfterResolve,
         AfterDeliver, AfterCommit DEF Step, Collide, Crash
    <2>3. UNCHANGED ack
      BY <1>4 DEF Start, Step, Raise, Insert, Collide, Crash, RollBack, Resolve,
                  Deliver, Commit
    <2>4. \A k \in Keys : alert[k].by # None => alert[k].by \in Evaluators
      BY <1>0 DEF TypeOK, Alert
    <2>5. eval[e] \in Evaluation BY <1>0 DEF TypeOK
    <2>10. \A d \in Evaluators : \A k \in eval[d].reopen \cup eval[d].close : k \in Keys
      BY <1>0 DEF TypeOK, Evaluation
    <2> DEFINE Kept == /\ InHand'
                       /\ \A k \in eval'[e].reopen \cup eval'[e].close : Committed(k)'
                       /\ eval'[e].pc = "insert" => eval'[e].todo # {}
    <2>6. ASSUME Start(e) PROVE Kept
      <3>1. eval[e].pc = "idle" /\ UNCHANGED alert BY <2>6 DEF Start
      <3>2. InHand' BY <1>0, <2>2, <2>4, <2>6, <3>1, AfterStart DEF InHand
      <3> QED BY <1>0, <2>6, <3>2, AfterStart
    <2>7. ASSUME Raise(e) PROVE Kept
      <3>1. UNCHANGED alert /\ eval'[e].pc # "idle" BY <1>0, <2>7, AfterRaise
      <3>2. InHand' BY <1>0, <2>2, <2>4, <3>1 DEF InHand
      <3>3. \A k \in eval'[e].reopen : Committed(k)'
        <4> SUFFICES ASSUME NEW k \in eval'[e].reopen PROVE Committed(k)'
          OBVIOUS
        <4>1. \/ k \in eval[e].reopen
              \/ k \in Keys /\ Visible(e, k) /\ alert[k].state = "RESOLVED"
          BY <1>0, <2>7, AfterRaise
        <4>2. CASE k \in eval[e].reopen
          BY <1>0, <1>1, <2>10, <4>2 DEF OnlyCommitted
        <4>3. CASE k \in Keys /\ Visible(e, k) /\ alert[k].state = "RESOLVED"
          <5>1. Committed(k) BY <1>0, <4>3 DEF InHand, Committed
          <5> QED BY <1>1, <4>3, <5>1
        <4> QED BY <4>1, <4>2, <4>3
      <3>4. \A k \in eval'[e].close : Committed(k)'
        BY <1>0, <1>1, <2>7, <2>10, AfterRaise DEF OnlyCommitted
      <3>5. eval'[e].pc = "insert" => eval'[e].todo # {}
        BY <1>0, <2>7, AfterRaise
      <3> QED BY <3>2, <3>3, <3>4, <3>5
    <2>8. ASSUME Insert(e) PROVE Kept
      <3>1. eval'[e].pc = "raise" BY <1>0, <2>8, AfterInsert
      <3>2. InHand'
        <4> SUFFICES ASSUME NEW k \in Keys, alert'[k].by # None
                     PROVE  alert'[k].state = "FIRING" /\ eval'[alert'[k].by].pc # "idle"
          BY DEF InHand
        <4>1. CASE k = NextFinding(e)
          BY <1>0, <2>8, <3>1, <4>1, AfterInsert
        <4>2. CASE k # NextFinding(e)
          <5>1. alert'[k] = alert[k] BY <1>0, <2>8, <4>2, AfterInsert
          <5> QED BY <1>0, <2>2, <2>4, <3>1, <5>1 DEF InHand
        <4> QED BY <4>1, <4>2
      <3>3. \A k \in eval'[e].reopen \cup eval'[e].close : Committed(k)'
        BY <1>0, <1>1, <2>8, <2>10, AfterInsert DEF OnlyCommitted
      <3> QED BY <3>1, <3>2, <3>3
    <2>9. ASSUME Collide(e) \/ Crash(e) PROVE Kept
      <3>1. RollBack(e) BY <2>9 DEF Collide, Crash
      <3>2. eval'[e] = NoEvaluation BY <1>0, <3>1, AfterRollBack
      <3>3. InHand'
        <4> SUFFICES ASSUME NEW k \in Keys, alert'[k].by # None
                     PROVE  alert'[k].state = "FIRING" /\ eval'[alert'[k].by].pc # "idle"
          BY DEF InHand
        <4>1. alert[k].by # e
          BY <1>0, <3>1, AfterRollBack DEF NoAlert
        <4>2. alert'[k] = alert[k] BY <1>0, <3>1, <4>1, AfterRollBack
        <4> QED BY <1>0, <2>2, <2>4, <4>1, <4>2 DEF InHand
      <3> QED BY <3>2, <3>3 DEF NoEvaluation
    <2>11. ASSUME Resolve(e) PROVE Kept
      <3>1. UNCHANGED alert /\ eval'[e].pc = "deliver" BY <1>0, <2>11, AfterResolve
      <3>2. InHand' BY <1>0, <2>2, <2>4, <3>1 DEF InHand
      <3>3. \A k \in eval'[e].close : Committed(k)'
        BY <1>0, <1>1, <2>11, AfterResolve
      <3>4. \A k \in eval'[e].reopen : Committed(k)'
        BY <1>0, <1>1, <2>10, <2>11, AfterResolve DEF OnlyCommitted
      <3> QED BY <3>1, <3>2, <3>3, <3>4
    <2>12. ASSUME Deliver(e) PROVE Kept
      <3>1. UNCHANGED alert /\ eval'[e].pc = "commit" BY <1>0, <2>12, AfterDeliver
      <3>2. InHand' BY <1>0, <2>2, <2>4, <3>1 DEF InHand
      <3>3. \A k \in eval'[e].reopen \cup eval'[e].close : Committed(k)'
        BY <1>0, <1>1, <2>10, <2>12, AfterDeliver DEF OnlyCommitted
      <3> QED BY <3>1, <3>2, <3>3
    <2>13. ASSUME Commit(e) PROVE Kept
      <3>1. eval'[e] = NoEvaluation BY <1>0, <2>13, AfterCommit
      <3>2. InHand'
        <4> SUFFICES ASSUME NEW k \in Keys, alert'[k].by # None
                     PROVE  alert'[k].state = "FIRING" /\ eval'[alert'[k].by].pc # "idle"
          BY DEF InHand
        <4>1. alert[k].by # e /\ alert'[k].by = alert[k].by
          BY <1>0, <2>13, AfterCommit
        <4>2. alert[k].state = "FIRING" /\ alert[k].by # None
          BY <1>0, <4>1 DEF InHand
        <4>3. k \notin eval[e].reopen /\ k \notin eval[e].close
          BY <1>0, <4>2 DEF OnlyCommitted, Committed
        <4>4. alert'[k].state = "FIRING"
          BY <1>0, <2>13, <4>1, <4>2, <4>3, AfterCommit
        <4> QED BY <1>0, <2>2, <2>4, <4>1, <4>2, <4>4 DEF InHand
      <3> QED BY <3>1, <3>2 DEF NoEvaluation
    <2>14. Kept
      <3> HIDE DEF Kept
      <3> QED BY <1>4, <2>6, <2>7, <2>8, <2>9, <2>11, <2>12, <2>13 DEF Step
    <2>15. OnlyCommitted'
      <3>1. ack' # None => Committed(ack)'
        <4> SUFFICES ASSUME ack' # None PROVE Committed(ack)'
          OBVIOUS
        <4>1. ack \in Keys /\ Committed(ack) BY <1>0, <2>3 DEF TypeOK, OnlyCommitted
        <4>2. Committed(ack)' <=> (alert'[ack].state # "none" /\ alert'[ack].by = None)
          BY <2>3 DEF Committed
        <4>3. alert'[ack].state # "none" /\ alert'[ack].by = None
          BY <1>1, <4>1 DEF Committed
        <4> QED BY <4>2, <4>3
      <3>2. \A d \in Evaluators \ {e} :
              \A k \in eval'[d].reopen \cup eval'[d].close : Committed(k)'
        BY <1>0, <1>1, <2>2, <2>10 DEF OnlyCommitted
      <3> QED BY <2>14, <3>1, <3>2 DEF OnlyCommitted
    <2>16. InsertsNext' BY <1>0, <2>2, <2>14 DEF InsertsNext
    <2> QED BY <2>1, <2>14, <2>15, <2>16 DEF TableInv
  <1> QED BY <1>2, <1>3, <1>4, NextIs


LEMMA InitTable == Init => TableInv
  <1> SUFFICES ASSUME Init PROVE TableInv
    OBVIOUS
  <1>1. alert \in [Keys -> Alert] BY NoAlertType DEF Init
  <1>2. eval \in [Evaluators -> Evaluation] BY NoEvaluationType DEF Init
  <1>3. TypeOK
    <2>1. now \in 0 .. MaxTime BY AlertsAssumption DEF Init
    <2>2. emails \in [Keys -> Nat] /\ crashes \in Nat BY DEF Init
    <2>3. /\ holds \in [Rules -> Keys \cup {None}] /\ severe \subseteq Rules
          /\ enabled \subseteq Rules /\ ack \in Keys \cup {None} /\ ended \subseteq Keys
          /\ overlapped \in BOOLEAN
      BY DEF Init
    <2> QED BY <1>1, <1>2, <2>1, <2>2, <2>3 DEF TypeOK
  <1>4. InHand /\ InsertsNext BY DEF Init, InHand, InsertsNext, NoAlert, NoEvaluation
  <1>5. OnlyCommitted
    <2>1. \A e \in Evaluators : eval[e].reopen = {} /\ eval[e].close = {}
      BY DEF Init, NoEvaluation
    <2> QED BY <2>1 DEF Init, OnlyCommitted
  <1> QED BY <1>3, <1>4, <1>5 DEF TableInv

LEMMA TableAlways == Spec => []TableInv
  <1>1. TableInv /\ [Next]_vars => TableInv' BY TableStep
  <1> QED BY <1>1, InitTable, PTL DEF Spec

(* The alerts table, the evaluations and the histories keep their types.     *)
THEOREM Typing == Spec => []TypeOK
  <1>1. TableInv => TypeOK BY DEF TableInv
  <1> QED BY <1>1, TableAlways, PTL

-----------------------------------------------------------------------------
(* Emails *)

(* The email of this row, if there was one, has been sent.                   *)
Mailed(k) ==
    /\ alert[k].state # "none"
    /\ alert[k].by # None => eval[alert[k].by].pc = "commit"

(* Of the emails for a key, all but the row's were sent by evaluations that  *)
(* died: what makes the bound inductive.                                     *)
EmailsCounted == \A k \in Keys : emails[k] <= crashes + (IF Mailed(k) THEN 1 ELSE 0)

(* A step that sends no email and unsends no row keeps the count.            *)
LEMMA NoEmail ==
    ASSUME TypeOK, EmailsCounted, NEW k \in Keys,
           emails'[k] = emails[k], crashes' \in Nat, crashes' >= crashes,
           Mailed(k) => Mailed(k)' \/ crashes' >= crashes + 1
    PROVE  emails'[k] <= crashes' + (IF Mailed(k)' THEN 1 ELSE 0)
  <1>1. emails[k] \in Nat /\ crashes \in Nat BY DEF TypeOK
  <1>2. emails[k] <= crashes + (IF Mailed(k) THEN 1 ELSE 0) BY DEF EmailsCounted
  <1>3. CASE Mailed(k)
    <2>1. emails[k] <= crashes + 1 BY <1>2, <1>3
    <2>2. Mailed(k)' \/ crashes' >= crashes + 1 BY <1>3
    <2> QED BY <1>1, <2>1, <2>2
  <1>4. CASE ~Mailed(k)
    <2>1. emails[k] <= crashes BY <1>1, <1>2, <1>4
    <2> QED BY <1>1, <2>1
  <1> QED BY <1>3, <1>4

LEMMA EmailsStep ==
    ASSUME TableInv, EmailsCounted, [Next]_vars
    PROVE  EmailsCounted'
  <1>0. TypeOK /\ InHand /\ OnlyCommitted /\ InsertsNext BY DEF TableInv
  <1>1. crashes \in Nat /\ crashes >= crashes /\ \A k \in Keys : emails[k] \in Nat
    BY <1>0 DEF TypeOK
  <1>2. CASE Outside
    <2>1. UNCHANGED <<eval, emails, crashes>> BY <1>0, <1>2, OutsideIs
    <2>2. \A k \in Keys : Mailed(k) => Mailed(k)'
      BY <1>0, <1>2, <2>1, OutsideIs DEF Mailed, Committed
    <2> QED BY <1>0, <1>1, <2>1, <2>2, NoEmail DEF EmailsCounted
  <1>3. CASE UNCHANGED vars
    BY <1>3 DEF EmailsCounted, Mailed, vars, history
  <1>4. ASSUME NEW e \in Evaluators, Start(e) \/ Step(e) \/ Crash(e)
        PROVE  EmailsCounted'
    <2>0. e # None /\ \A k \in Keys : alert[k].by # None => alert[k].by \in Evaluators
      BY <1>0, AlertsAssumption DEF TypeOK, Alert
    <2>1. CASE Start(e)
      <3>1. UNCHANGED <<alert, emails, crashes>> /\ eval[e].pc = "idle"
        BY <2>1 DEF Start
      <3>2. \A k \in Keys : Mailed(k) => Mailed(k)'
        BY <1>0, <2>0, <2>1, <3>1, AfterStart DEF Mailed
      <3> QED BY <1>0, <1>1, <3>1, <3>2, NoEmail DEF EmailsCounted
    <2>2. CASE Raise(e)
      <3>1. UNCHANGED <<alert, emails, crashes>> /\ eval[e].pc = "raise"
        BY <1>0, <2>2, AfterRaise DEF history
      <3>2. \A k \in Keys : Mailed(k) => Mailed(k)'
        BY <1>0, <2>0, <2>2, <3>1, AfterRaise DEF Mailed
      <3> QED BY <1>0, <1>1, <3>1, <3>2, NoEmail DEF EmailsCounted
    <2>3. CASE Insert(e)
      <3>1. UNCHANGED <<emails, crashes>> /\ eval[e].pc = "insert"
        BY <1>0, <2>3, AfterInsert DEF history
      <3>2. ASSUME NEW k \in Keys, Mailed(k) PROVE Mailed(k)'
        <4>1. k # NextFinding(e) BY <1>0, <2>3, <3>2, AfterInsert DEF Mailed
        <4>2. alert'[k] = alert[k] BY <1>0, <2>3, <4>1, AfterInsert
        <4>3. alert[k].by # e BY <3>1, <3>2, <2>0 DEF Mailed
        <4>4. \A d \in Evaluators \ {e} : eval'[d] = eval[d]
          BY <1>0, <2>3, AfterInsert
        <4> QED BY <2>0, <3>2, <4>2, <4>3, <4>4 DEF Mailed
      <3> QED BY <1>0, <1>1, <3>1, <3>2, NoEmail DEF EmailsCounted
    <2>4. CASE Collide(e) \/ Crash(e)
      <3>1. RollBack(e) BY <2>4 DEF Collide, Crash
      <3>2. UNCHANGED emails BY <3>1 DEF RollBack, history
      <3>3. \/ eval[e].pc = "insert" /\ crashes' = crashes
            \/ crashes' = crashes + 1
        BY <2>4 DEF Collide, Crash
      <3>4. crashes' \in Nat /\ crashes' >= crashes BY <1>1, <3>3
      <3>5. ASSUME NEW k \in Keys, Mailed(k)
            PROVE  Mailed(k)' \/ crashes' >= crashes + 1
        <4>1. CASE alert[k].by = e
          <5>1. eval[e].pc = "commit" BY <2>0, <3>5, <4>1 DEF Mailed
          <5> QED BY <1>1, <3>3, <5>1
        <4>2. CASE alert[k].by # e
          <5>1. alert'[k] = alert[k] BY <1>0, <3>1, <4>2, AfterRollBack
          <5>2. \A d \in Evaluators \ {e} : eval'[d] = eval[d]
            BY <1>0, <3>1, AfterRollBack
          <5> QED BY <2>0, <3>5, <4>2, <5>1, <5>2 DEF Mailed
        <4> QED BY <4>1, <4>2
      <3> QED BY <1>0, <3>2, <3>4, <3>5, NoEmail DEF EmailsCounted
    <2>5. CASE Resolve(e)
      <3>1. UNCHANGED <<alert, emails, crashes>> /\ eval[e].pc = "raise"
        BY <1>0, <2>5, AfterResolve DEF history
      <3>2. \A k \in Keys : Mailed(k) => Mailed(k)'
        BY <1>0, <2>0, <2>5, <3>1, AfterResolve DEF Mailed
      <3> QED BY <1>0, <1>1, <3>1, <3>2, NoEmail DEF EmailsCounted
    <2>6. CASE Deliver(e)
      <3>1. /\ UNCHANGED <<alert, crashes>> /\ eval[e].pc = "deliver"
            /\ eval'[e].pc = "commit"
            /\ \A d \in Evaluators \ {e} : eval'[d] = eval[d]
        BY <1>0, <2>6, AfterDeliver
      <3>2. ASSUME NEW k \in Keys
            PROVE  emails'[k] <= crashes' + (IF Mailed(k)' THEN 1 ELSE 0)
        <4>1. CASE alert[k].by = e
          <5>1. ~Mailed(k) BY <2>0, <3>1, <4>1 DEF Mailed
          <5>2. alert[k].state = "FIRING" BY <1>0, <2>0, <4>1 DEF InHand
          <5>3. Mailed(k)' BY <3>1, <4>1, <5>2 DEF Mailed
          <5>4. emails[k] <= crashes BY <1>1, <5>1 DEF EmailsCounted
          <5>5. emails'[k] = emails[k] \/ emails'[k] = emails[k] + 1
            BY <1>0, <2>6, AfterDeliver
          <5> QED BY <1>1, <3>1, <5>3, <5>4, <5>5
        <4>2. CASE alert[k].by # e
          <5>1. emails'[k] = emails[k] BY <1>0, <2>6, <4>2, AfterDeliver
          <5>2. Mailed(k) => Mailed(k)' BY <2>0, <3>1, <4>2 DEF Mailed
          <5> QED BY <1>0, <1>1, <3>1, <5>1, <5>2, NoEmail
        <4> QED BY <4>1, <4>2
      <3> QED BY <3>2 DEF EmailsCounted
    <2>7. CASE Commit(e)
      <3>1. UNCHANGED <<emails, crashes>> BY <1>0, <2>7, AfterCommit
      <3>2. ASSUME NEW k \in Keys, Mailed(k) PROVE Mailed(k)'
        <4>1. CASE alert[k].by = e
          <5>1. alert'[k].state = alert[k].state /\ alert'[k].by = None
            BY <1>0, <2>7, <4>1, AfterCommit
          <5> QED BY <3>2, <5>1 DEF Mailed
        <4>2. CASE alert[k].by # e
          <5>1. alert'[k].by = alert[k].by /\ alert'[k].state # "none"
            BY <1>0, <2>7, <3>2, <4>2, AfterCommit DEF Mailed
          <5>2. \A d \in Evaluators \ {e} : eval'[d] = eval[d]
            BY <1>0, <2>7, AfterCommit
          <5> QED BY <2>0, <3>2, <4>2, <5>1, <5>2 DEF Mailed
        <4> QED BY <4>1, <4>2
      <3> QED BY <1>0, <1>1, <3>1, <3>2, NoEmail DEF EmailsCounted
    <2> QED BY <1>4, <2>1, <2>2, <2>3, <2>4, <2>5, <2>6, <2>7 DEF Step
  <1> QED BY <1>2, <1>3, <1>4, NextIs

(* However many evaluations find an event at once, and however they race for *)
(* its row, it is one email and one more for each evaluation that died.      *)
THEOREM EventsMailOnce == Spec => []OneEmailPerEvent
  <1>1. Init => EmailsCounted
    BY DEF Init, EmailsCounted, Mailed, NoAlert
  <1>2. TableInv /\ EmailsCounted /\ [Next]_vars => EmailsCounted'
    BY EmailsStep
  <1>3. TableInv /\ EmailsCounted => OneEmailPerEvent
    <2> SUFFICES ASSUME TableInv, EmailsCounted, NEW k \in Keys
                 PROVE  emails[k] <= 1 + crashes
      BY DEF OneEmailPerEvent
    <2>1. emails[k] \in Nat /\ crashes \in Nat BY DEF TableInv, TypeOK
    <2>2. emails[k] <= crashes + (IF Mailed(k) THEN 1 ELSE 0) BY DEF EmailsCounted
    <2> QED BY <2>1, <2>2
  <1> QED BY <1>1, <1>2, <1>3, TableAlways, PTL DEF Spec


-----------------------------------------------------------------------------
(* One evaluation at a time *)

AloneAtWork ==
    ~overlapped => \A d, e \in Evaluators :
        eval[d].pc # "idle" /\ eval[e].pc # "idle" => d = e

LEMMA AloneStep ==
    ASSUME TableInv, AloneAtWork, [Next]_vars
    PROVE  AloneAtWork'
  <1>0. TypeOK /\ InHand /\ OnlyCommitted /\ InsertsNext BY DEF TableInv
  <1>1. CASE Outside
    <2>1. UNCHANGED <<eval, overlapped>> BY <1>0, <1>1, OutsideIs
    <2> QED BY <2>1 DEF AloneAtWork
  <1>2. CASE UNCHANGED vars BY <1>2 DEF AloneAtWork, vars, history
  <1>3. ASSUME NEW e \in Evaluators, Start(e) PROVE AloneAtWork'
    <2>1. overlapped' = (overlapped \/ \E d \in Evaluators : eval[d].pc # "idle")
      BY <1>3 DEF Start
    <2>2. \A d \in Evaluators \ {e} : eval'[d] = eval[d] BY <1>0, <1>3, AfterStart
    <2> QED BY <2>1, <2>2 DEF AloneAtWork
  <1>4. ASSUME NEW e \in Evaluators, Step(e) \/ Crash(e) PROVE AloneAtWork'
    <2>1. UNCHANGED overlapped
      BY <1>4 DEF Step, Raise, Insert, Collide, Crash, RollBack, Resolve, Deliver,
                  Commit, history
    <2>2. eval[e].pc # "idle"
      BY <1>4 DEF Step, Raise, Insert, Collide, Crash, Resolve, Deliver, Commit
    <2>3. \A d \in Evaluators \ {e} : eval'[d] = eval[d]
      BY <1>0, <1>4, AfterRaise, AfterInsert, AfterRollBack, AfterResolve,
         AfterDeliver, AfterCommit DEF Step, Collide, Crash
    <2> QED BY <2>1, <2>2, <2>3 DEF AloneAtWork
  <1> QED BY <1>1, <1>2, <1>3, <1>4, NextIs

(* Beside a step of one evaluation the others are idle.                      *)
LEMMA OthersIdle ==
    ASSUME AloneAtWork, ~overlapped, NEW e \in Evaluators, eval[e].pc # "idle"
    PROVE  \A d \in Evaluators \ {e} : eval[d].pc = "idle"
  BY DEF AloneAtWork

-----------------------------------------------------------------------------
(* The cooldown *)

Apart(k, q) ==
    \/ alert[k].fired > alert[q].fired + Cooldown
    \/ alert[q].fired > alert[k].fired + Cooldown

(* The rows of a rule are apart, those in hand included; and when a row is   *)
(* about to go in, the cooldown after all the others is over, as it was when *)
(* they were looked at: the clock only moves on, and nobody else inserts.    *)
RowsApart ==
    ~overlapped =>
      \A k, q \in Keys :
        /\ k # q /\ RuleOf[k] = RuleOf[q]
        /\ alert[k].state # "none" /\ alert[q].state # "none"
        => Apart(k, q)

Quiet(r) == \A q \in KeysOf(r) : alert[q].state # "none" => alert[q].fired + Cooldown < now

QuietToInsert ==
    ~overlapped => \A e \in Evaluators :
        eval[e].pc = "insert" => Quiet(RuleOf[NextFinding(e)])

CooldownInv == AloneAtWork /\ RowsApart /\ QuietToInsert

(* A step that inserts nothing leaves the rows that are there apart.         *)
LEMMA RowsStayApart ==
    ASSUME RowsApart, ~overlapped' => ~overlapped,
           \A k \in Keys : /\ alert'[k].state # "none" => alert[k].state # "none"
                           /\ alert'[k].state # "none" => alert'[k].fired = alert[k].fired
    PROVE  RowsApart'
  BY DEF RowsApart, Apart

LEMMA CooldownStep ==
    ASSUME TableInv, CooldownInv, [Next]_vars
    PROVE  CooldownInv'
  <1>0. /\ TypeOK /\ InHand /\ OnlyCommitted /\ InsertsNext
        /\ AloneAtWork /\ RowsApart /\ QuietToInsert
    BY DEF TableInv, CooldownInv
  <1>1. TableInv' /\ TypeOK' BY TableStep DEF TableInv
  <1>2. AloneAtWork' BY <1>0, AloneStep
  <1>3. Cooldown \in Nat /\ now \in Nat /\ now >= now
        /\ \A k \in Keys : alert[k].fired \in Nat
    BY <1>0, AlertsAssumption DEF TypeOK, Alert
  <1>4. CASE Outside
    <2>1. /\ UNCHANGED <<eval, overlapped>> /\ now' >= now
          /\ \A k \in Keys : /\ alert'[k].state # "none" => alert[k].state # "none"
                             /\ alert'[k].fired = alert[k].fired
      BY <1>0, <1>4, OutsideIs DEF Committed
    <2>2. RowsApart' BY <1>0, <2>1, RowsStayApart
    <2>3. QuietToInsert'
      <3>1. \A e \in Evaluators : NextFinding(e)' = NextFinding(e)
        BY <2>1 DEF NextFinding
      <3>2. \A e \in Evaluators : Quiet(RuleOf[NextFinding(e)])
                                    => Quiet(RuleOf[NextFinding(e)])'
        <4> SUFFICES ASSUME NEW e \in Evaluators, Quiet(RuleOf[NextFinding(e)])
                     PROVE  Quiet(RuleOf[NextFinding(e)])'
          OBVIOUS
        <4> DEFINE r == RuleOf[NextFinding(e)]
        <4>1. r' = r BY <3>1
        <4> HIDE DEF r
        <4>2. Quiet(r) BY DEF r
        <4>3. \A q \in KeysOf(r) : alert'[q].state # "none"
                                     => alert'[q].fired + Cooldown < now'
          <5>1. KeysOf(r) \in SUBSET Keys BY DEF KeysOf
          <5>2. now' \in Nat BY <1>1 DEF TypeOK
          <5> QED BY <1>3, <2>1, <4>2, <5>1, <5>2 DEF Quiet
        <4> QED BY <4>1, <4>3 DEF Quiet, KeysOf, r
      <3> QED BY <1>0, <2>1, <3>2 DEF QuietToInsert
    <2> QED BY <1>2, <2>2, <2>3 DEF CooldownInv
  <1>5. CASE UNCHANGED vars
    BY <1>0, <1>2, <1>5 DEF CooldownInv, RowsApart, Apart, QuietToInsert, Quiet,
                            NextFinding, vars, world, history
  <1>6. ASSUME NEW e \in Evaluators, Start(e) \/ Step(e) \/ Crash(e), ~overlapped'
        PROVE  RowsApart' /\ \A d \in Evaluators :
                 eval'[d].pc = "insert" => Quiet(RuleOf[NextFinding(d)])'
    <2>0. e # None /\ UNCHANGED now
      BY <1>6, AlertsAssumption
         DEF Start, Step, Raise, Insert, Collide, Crash, RollBack, Resolve, Deliver,
             Commit, world
    <2>1. ~overlapped
      BY <1>6 DEF Start, Step, Raise, Insert, Collide, Crash, RollBack, Resolve,
                  Deliver, Commit, history
    <2>2. \A d \in Evaluators \ {e} : eval'[d] = eval[d]
      BY <1>0, <1>6, AfterStart, AfterRaise, AfterInsert, AfterRollBack, AfterResolve,
         AfterDeliver, AfterCommit DEF Step, Collide, Crash
    <2>3. eval'[e].pc # "idle" => \A d \in Evaluators \ {e} : eval'[d].pc = "idle"
      BY <1>2, <1>6 DEF AloneAtWork
    <2>4. ~Start(e) => \A d \in Evaluators \ {e} : eval'[d].pc = "idle"
      <3>1. ~Start(e) => eval[e].pc # "idle"
        BY <1>6 DEF Step, Raise, Insert, Collide, Crash, Resolve, Deliver, Commit
      <3> QED BY <1>0, <2>1, <2>2, <3>1, OthersIdle
    <2>5. CASE Start(e)
      <3>1. UNCHANGED alert BY <2>5 DEF Start
      <3>2. RowsApart' BY <1>0, <2>1, <3>1, RowsStayApart
      <3>3. eval'[e].pc = "raise" BY <1>0, <2>5, AfterStart
      <3> QED BY <2>3, <3>2, <3>3
    <2>6. CASE Raise(e)
      <3>1. UNCHANGED alert BY <1>0, <2>6, AfterRaise
      <3>2. RowsApart' BY <1>0, <2>1, <3>1, RowsStayApart
      <3>3. ASSUME eval'[e].pc = "insert" PROVE Quiet(RuleOf[NextFinding(e)])'
        <4>1. /\ eval'[e].todo = eval[e].todo
              /\ ~Cooling(e, RuleOf[NextFinding(e)])
              /\ eval[e].pc = "raise"
          BY <1>0, <2>6, <3>3, AfterRaise
        <4>2. NextFinding(e)' = NextFinding(e) BY <4>1 DEF NextFinding
        <4>3. \A q \in KeysOf(RuleOf[NextFinding(e)]) :
                alert[q].state # "none" => alert[q].fired + Cooldown < now
          <5> SUFFICES ASSUME NEW q \in KeysOf(RuleOf[NextFinding(e)]),
                              alert[q].state # "none"
                       PROVE  alert[q].fired + Cooldown < now
            OBVIOUS
          <5>1. q \in Keys BY DEF KeysOf
          <5>2. alert[q].by \in Evaluators \cup {None}
            BY <1>0, <5>1 DEF TypeOK, Alert
          <5>3. \A d \in Evaluators \ {e} : eval[d].pc = "idle"
            BY <1>0, <2>1, <4>1, OthersIdle
          <5>4. Visible(e, q)
            BY <1>0, <5>1, <5>2, <5>3 DEF Visible, InHand
          <5>5. ~(alert[q].fired >= now - Cooldown)
            BY <4>1, <5>4 DEF Cooling, Fired
          <5> QED BY <1>3, <5>1, <5>5
        <4> QED BY <2>0, <3>1, <4>2, <4>3 DEF Quiet, KeysOf
      <3>4. \A d \in Evaluators \ {e} : eval'[d].pc # "insert"
        BY <2>3, <1>0, <2>6, AfterRaise
      <3> QED BY <3>2, <3>3, <3>4
    <2>7. CASE Insert(e)
      <3> DEFINE k == NextFinding(e)
      <3>1. /\ k \in Keys /\ alert'[k].fired = now
            /\ eval[e].pc = "insert" /\ eval'[e].pc = "raise"
            /\ \A q \in Keys \ {k} : alert'[q] = alert[q]
        BY <1>0, <2>7, AfterInsert
      <3>2. Quiet(RuleOf[k]) BY <1>0, <2>1, <3>1 DEF QuietToInsert
      <3> HIDE DEF k
      <3>3. \A q \in Keys \ {k} : RuleOf[q] = RuleOf[k] /\ alert[q].state # "none"
                                    => now > alert[q].fired + Cooldown
        <4> SUFFICES ASSUME NEW q \in Keys \ {k}, RuleOf[q] = RuleOf[k],
                            alert[q].state # "none"
                     PROVE  now > alert[q].fired + Cooldown
          OBVIOUS
        <4>1. alert[q].fired + Cooldown < now BY <3>2 DEF Quiet, KeysOf
        <4> QED BY <1>3, <4>1
      <3>4. RowsApart'
        <4> SUFFICES ASSUME NEW p \in Keys, NEW q \in Keys, p # q, RuleOf[p] = RuleOf[q],
                            alert'[p].state # "none", alert'[q].state # "none"
                     PROVE  Apart(p, q)'
          BY DEF RowsApart
        <4>1. CASE p = k
          BY <3>1, <3>3, <4>1 DEF Apart
        <4>2. CASE q = k
          BY <3>1, <3>3, <4>2 DEF Apart
        <4>3. CASE p # k /\ q # k
          <5>1. Apart(p, q) BY <1>0, <2>1, <3>1, <4>3 DEF RowsApart
          <5> QED BY <3>1, <4>3, <5>1 DEF Apart
        <4> QED BY <4>1, <4>2, <4>3
      <3> QED BY <2>3, <3>1, <3>4
    <2>8. CASE Collide(e) \/ Crash(e)
      <3>1. RollBack(e) BY <2>8 DEF Collide, Crash
      <3>2. \A q \in Keys : /\ alert'[q].state # "none" => alert[q].state # "none"
                            /\ alert'[q].state # "none" => alert'[q].fired = alert[q].fired
        BY <1>0, <3>1, AfterRollBack DEF NoAlert
      <3>3. RowsApart' BY <1>0, <2>1, <3>2, RowsStayApart
      <3>4. eval'[e].pc = "idle" BY <1>0, <3>1, AfterRollBack DEF NoEvaluation
      <3>5. eval[e].pc # "idle" BY <2>8 DEF Collide, Crash
      <3>6. \A d \in Evaluators \ {e} : eval'[d].pc = "idle"
        BY <1>0, <2>1, <2>2, <3>5, OthersIdle
      <3> QED BY <3>3, <3>4, <3>6
    <2>9. CASE Resolve(e)
      <3>1. UNCHANGED alert /\ eval'[e].pc = "deliver" BY <1>0, <2>9, AfterResolve
      <3>2. RowsApart' BY <1>0, <2>1, <3>1, RowsStayApart
      <3> QED BY <2>3, <3>1, <3>2
    <2>10. CASE Deliver(e)
      <3>1. UNCHANGED alert /\ eval'[e].pc = "commit" BY <1>0, <2>10, AfterDeliver
      <3>2. RowsApart' BY <1>0, <2>1, <3>1, RowsStayApart
      <3> QED BY <2>3, <3>1, <3>2
    <2>11. CASE Commit(e)
      <3>1. /\ eval[e].pc = "commit" /\ eval'[e] = NoEvaluation
            /\ \A q \in Keys : alert'[q].fired = alert[q].fired
        BY <1>0, <2>11, AfterCommit
      <3>2. \A q \in Keys : alert'[q].state # "none" => alert[q].state # "none"
        <4> SUFFICES ASSUME NEW q \in Keys, alert'[q].state # "none"
                     PROVE  alert[q].state # "none"
          OBVIOUS
        <4>1. \/ alert'[q].state = alert[q].state
              \/ q \in eval[e].reopen \cup eval[e].close
          BY <1>0, <2>11, AfterCommit
        <4> QED BY <1>0, <4>1 DEF OnlyCommitted, Committed
      <3>3. RowsApart' BY <1>0, <2>1, <3>1, <3>2, RowsStayApart
      <3>4. \A d \in Evaluators \ {e} : eval'[d].pc = "idle"
        BY <1>0, <2>1, <2>2, <3>1, OthersIdle
      <3> QED BY <3>1, <3>3, <3>4 DEF NoEvaluation
    <2> QED BY <1>6, <2>5, <2>6, <2>7, <2>8, <2>9, <2>10, <2>11 DEF Step
  <1>7. ASSUME NEW e \in Evaluators, Start(e) \/ Step(e) \/ Crash(e)
        PROVE  CooldownInv'
    <2>1. CASE overlapped' BY <1>2, <2>1 DEF CooldownInv, RowsApart, QuietToInsert
    <2>2. CASE ~overlapped'
      <3>1. RowsApart' BY <1>6, <1>7, <2>2
      <3>2. QuietToInsert' BY <1>6, <1>7, <2>2 DEF QuietToInsert
      <3> QED BY <1>2, <3>1, <3>2 DEF CooldownInv
    <2> QED BY <2>1, <2>2
  <1> QED BY <1>4, <1>5, <1>7, NextIs

LEMMA InitCooldown == Init => CooldownInv
  <1> SUFFICES ASSUME Init PROVE CooldownInv
    OBVIOUS
  <1>1. \A e \in Evaluators : eval[e].pc = "idle" BY DEF Init, NoEvaluation
  <1>2. \A k \in Keys : alert[k].state = "none" BY DEF Init, NoAlert
  <1> QED BY <1>1, <1>2 DEF CooldownInv, AloneAtWork, RowsApart, QuietToInsert

(* Two events of one rule alert no closer together than its cooldown, unless *)
(* two evaluations of the account were under way at once.                    *)
THEOREM CooldownAlwaysHolds == Spec => []CooldownHolds
  <1>1. TableInv /\ CooldownInv /\ [Next]_vars => CooldownInv'
    BY CooldownStep
  <1>2. CooldownInv => CooldownHolds
    BY DEF CooldownInv, RowsApart, Apart, CooldownHolds, Committed
  <1> QED BY <1>1, <1>2, InitCooldown, TableAlways, PTL DEF Spec


-----------------------------------------------------------------------------
(* Resolution *)

(* A key that has not ended since it fired is reported by an enabled rule.   *)
Watched == \A k \in Keys \ ended : holds[RuleOf[k]] = k /\ RuleOf[k] \in enabled

(* So what the one evaluation under way did not find has ended, and that is  *)
(* all it may close.                                                         *)
Foreseen ==
    ~overlapped => \A e \in Evaluators :
        eval[e].pc # "idle" => Keys \ eval[e].found \subseteq ended

ClosesTheRest == \A e \in Evaluators : eval[e].close \cap eval[e].found = {}

EndedInv == AloneAtWork /\ Watched /\ Foreseen /\ ClosesTheRest

(* What changes the world ends what it takes away.                           *)
LEMMA OutsideEnds ==
    ASSUME TypeOK, Watched, Outside
    PROVE  Watched' /\ ended \subseteq ended'
  <1>0. \A k \in Keys : RuleOf[k] \in Rules BY AlertsAssumption
  <1>1. CASE Tick \/ AcknowledgeWrite \/ \E k \in Keys : AcknowledgeRead(k)
    BY <1>1 DEF Tick, AcknowledgeWrite, AcknowledgeRead, Watched, world, history
  <1>2. ASSUME NEW r \in Rules, Change(r) PROVE Watched' /\ ended \subseteq ended'
    <2>1. PICK k \in KeysOf(r) \cup {None} :
            holds' = [holds EXCEPT ![r] = k] /\ ended' = ended \cup (KeysOf(r) \ {k})
      BY <1>2 DEF Change
    <2>2. UNCHANGED enabled BY <1>2 DEF Change
    <2>3. ASSUME NEW q \in Keys \ ended'
          PROVE  holds'[RuleOf[q]] = q /\ RuleOf[q] \in enabled'
      <3>1. q \in Keys \ ended BY <2>1, <2>3
      <3>2. CASE RuleOf[q] = r
        <4>1. q = k BY <2>1, <2>3, <3>2 DEF KeysOf
        <4>2. holds'[r] = k BY <2>1 DEF TypeOK
        <4> QED BY <2>2, <3>1, <3>2, <4>1, <4>2 DEF Watched
      <3>3. CASE RuleOf[q] # r
        <4>1. holds'[RuleOf[q]] = holds[RuleOf[q]] BY <1>0, <2>1, <3>3 DEF TypeOK
        <4> QED BY <2>2, <3>1, <4>1 DEF Watched
      <3> QED BY <3>2, <3>3
    <2> QED BY <2>1, <2>3 DEF Watched
  <1>3. ASSUME NEW r \in Rules, Toggle(r) PROVE Watched' /\ ended \subseteq ended'
    <2>1. /\ enabled' = IF r \in enabled THEN enabled \ {r} ELSE enabled \cup {r}
          /\ ended' = IF r \in enabled THEN ended \cup KeysOf(r) ELSE ended
          /\ UNCHANGED holds
      BY <1>3 DEF Toggle
    <2> QED BY <2>1 DEF Watched, KeysOf
  <1> QED BY <1>1, <1>2, <1>3 DEF Outside

LEMMA EndedStep ==
    ASSUME TableInv, EndedInv, [Next]_vars
    PROVE  EndedInv'
  <1>0. /\ TypeOK /\ InHand /\ OnlyCommitted /\ InsertsNext
        /\ AloneAtWork /\ Watched /\ Foreseen /\ ClosesTheRest
    BY DEF TableInv, EndedInv
  <1>1. AloneAtWork' BY <1>0, AloneStep
  <1>2. CASE Outside
    <2>1. UNCHANGED <<eval, overlapped>> BY <1>0, <1>2, OutsideIs
    <2>2. Watched' /\ ended \subseteq ended' BY <1>0, <1>2, OutsideEnds
    <2> QED BY <1>0, <1>1, <2>1, <2>2 DEF EndedInv, Foreseen, ClosesTheRest
  <1>3. CASE UNCHANGED vars
    BY <1>0, <1>1, <1>3
       DEF EndedInv, Watched, Foreseen, ClosesTheRest, vars, world, history
  <1>4. ASSUME NEW e \in Evaluators, Start(e)
        PROVE  EndedInv'
    <2>1. /\ eval'[e].found = Findings /\ eval'[e].close = {}
          /\ \A d \in Evaluators \ {e} : eval'[d] = eval[d]
      BY <1>0, <1>4, AfterStart
    <2>2. UNCHANGED <<world, ended>> /\ (overlapped => overlapped')
      BY <1>4 DEF Start
    <2>3. Keys \ Findings \subseteq ended
      <3> SUFFICES ASSUME NEW k \in Keys, k \notin Findings PROVE k \in ended
        OBVIOUS
      <3>1. ~(holds[RuleOf[k]] = k /\ RuleOf[k] \in enabled)
        BY AlertsAssumption DEF Findings
      <3> QED BY <1>0, <3>1 DEF Watched
    <2>4. Foreseen' BY <1>0, <2>1, <2>2, <2>3 DEF Foreseen
    <2>5. Watched' BY <1>0, <2>2 DEF Watched, world
    <2>6. ClosesTheRest' BY <1>0, <2>1 DEF ClosesTheRest
    <2> QED BY <1>1, <2>4, <2>5, <2>6 DEF EndedInv
  <1>5. ASSUME NEW e \in Evaluators, Step(e) \/ Crash(e)
        PROVE  EndedInv'
    <2>1. \A d \in Evaluators \ {e} : eval'[d] = eval[d]
      BY <1>0, <1>5, AfterRaise, AfterInsert, AfterRollBack, AfterResolve,
         AfterDeliver, AfterCommit DEF Step, Collide, Crash
    <2>2. UNCHANGED <<world, overlapped>> /\ eval[e].pc # "idle"
      BY <1>5 DEF Step, Raise, Insert, Collide, Crash, RollBack, Resolve, Deliver,
                  Commit, history
    <2>3. CASE Commit(e)
      <3>1. /\ eval'[e] = NoEvaluation /\ ended' \subseteq ended
            /\ \A k \in ended \ ended' : holds[RuleOf[k]] = k /\ RuleOf[k] \in enabled
        BY <1>0, <2>3, AfterCommit
      <3>2. Watched' BY <1>0, <2>2, <3>1 DEF Watched, world
      <3>3. ~overlapped => \A d \in Evaluators \ {e} : eval'[d].pc = "idle"
        BY <1>0, <2>1, <2>2, OthersIdle
      <3>4. eval'[e].pc = "idle" BY <3>1 DEF NoEvaluation
      <3>5. Foreseen' BY <2>2, <3>3, <3>4 DEF Foreseen
      <3>6. ClosesTheRest' BY <1>0, <2>1, <3>1 DEF ClosesTheRest, NoEvaluation
      <3> QED BY <1>1, <3>2, <3>5, <3>6 DEF EndedInv
    <2>4. CASE ~Commit(e)
      <3>1. UNCHANGED ended
        BY <1>5, <2>4 DEF Step, Raise, Insert, Collide, Crash, RollBack, Resolve,
                          Deliver, history
      <3>2. Watched' BY <1>0, <2>2, <3>1 DEF Watched, world
      <3>3. \/ eval'[e] = NoEvaluation
            \/ /\ eval'[e].found = eval[e].found
               /\ \/ eval'[e].close = eval[e].close
                  \/ \A k \in eval'[e].close : k \notin eval[e].found
        BY <1>0, <1>5, <2>4, AfterRaise, AfterInsert, AfterRollBack, AfterResolve,
           AfterDeliver DEF Step, Collide, Crash
      <3>4. Foreseen' BY <1>0, <2>1, <2>2, <3>1, <3>3 DEF Foreseen, NoEvaluation
      <3>5. ClosesTheRest' BY <1>0, <2>1, <3>3 DEF ClosesTheRest, NoEvaluation
      <3> QED BY <1>1, <3>2, <3>4, <3>5 DEF EndedInv
    <2> QED BY <2>3, <2>4
  <1> QED BY <1>2, <1>3, <1>4, <1>5, NextIs

LEMMA InitEnded == Init => EndedInv
  <1> SUFFICES ASSUME Init PROVE EndedInv
    OBVIOUS
  <1>1. \A e \in Evaluators : eval[e].pc = "idle" /\ eval[e].close = {}
    BY DEF Init, NoEvaluation
  <1>2. ended = Keys BY DEF Init
  <1> QED BY <1>1, <1>2 DEF EndedInv, AloneAtWork, Watched, Foreseen, ClosesTheRest

(* An alert is resolved only when its condition was absent, or its rule off, *)
(* since it last fired, unless two evaluations were under way at once.       *)
THEOREM ResolvedOnlyWhenOver == Spec => ResolvedWasOver
  <1>1. TableInv /\ EndedInv /\ [Next]_vars => EndedInv' BY EndedStep
  <1>2. ASSUME TableInv, EndedInv, Next, NEW k \in Keys, ~overlapped,
               alert[k].state # "RESOLVED", alert'[k].state = "RESOLVED"
        PROVE  k \in ended
    <2>0. /\ TypeOK /\ InHand /\ OnlyCommitted /\ InsertsNext
          /\ AloneAtWork /\ Foreseen /\ ClosesTheRest
      BY <1>2 DEF TableInv, EndedInv
    <2>1. ~Outside BY <1>2, <2>0, OutsideIs
    <2>3. PICK e \in Evaluators : Start(e) \/ Step(e) \/ Crash(e)
      BY <1>2, <2>1 DEF Next, Outside
    <2>4. Commit(e)
      <3>1. ~(Start(e) \/ Raise(e) \/ Resolve(e) \/ Deliver(e))
        BY <1>2 DEF Start, Raise, Resolve, Deliver
      <3>2. ~Insert(e)
        <4> SUFFICES ASSUME Insert(e) PROVE FALSE OBVIOUS
        <4>1. /\ alert'[NextFinding(e)].state = "FIRING"
              /\ \A q \in Keys \ {NextFinding(e)} : alert'[q] = alert[q]
          BY <2>0, AfterInsert
        <4> QED BY <1>2, <4>1
      <3>3. ~RollBack(e)
        <4> SUFFICES ASSUME RollBack(e) PROVE FALSE OBVIOUS
        <4>1. alert'[k] = NoAlert \/ alert'[k] = alert[k] BY <2>0, AfterRollBack
        <4> QED BY <1>2, <4>1 DEF NoAlert
      <3> QED BY <1>2, <2>3, <3>1, <3>2, <3>3 DEF Step, Collide, Crash
    <2>5. k \in eval[e].close /\ eval[e].pc = "commit"
      BY <1>2, <2>0, <2>4, AfterCommit
    <2> QED BY <1>2, <2>0, <2>5 DEF Foreseen, ClosesTheRest
  <1>3. TableInv /\ EndedInv /\ [Next]_vars =>
          [\A k \in Keys :
             (~overlapped /\ alert[k].state # "RESOLVED" /\ alert'[k].state = "RESOLVED")
               => k \in ended]_vars
    BY <1>2
  <1> QED BY <1>1, <1>3, InitEnded, TableAlways, PTL DEF Spec, ResolvedWasOver
=============================================================================
