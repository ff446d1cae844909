----------------------------- MODULE AgentLoop -----------------------------
(***************************************************************************)
(* The agent's cycle (agent/loop.py) and the grading of what earlier       *)
(* cycles advised (agent/verification.py), for one account: the daily      *)
(* cycle, the verify_predictions task, cycles the user starts, and the     *)
(* user's accepting and dismissing of advice.                              *)
(*                                                                         *)
(* A cycle is one database transaction from OBSERVE to REPORT, except that *)
(* a token refreshed in COLLECT commits it half way.  Variables hold what  *)
(* is committed; what a transaction has written is in its task.  The rows  *)
(* cycles and collection insert under a unique constraint are "keys": an   *)
(* INSERT waits for a transaction that inserted the same key, and fails    *)
(* when the key is committed.  A failed flush leaves the session unusable: *)
(* whoever catches the error, the next use of the session raises again,    *)
(* and the transaction is rolled back.                                     *)
(*                                                                         *)
(* What a measured metric did since the advice is all that grading looks   *)
(* at: it went "up" or "down" by a material change, or stayed "flat".      *)
(***************************************************************************)
EXTENDS Integers

CONSTANTS
    Workers,      \* processes that run cycles and the grading task
    MaxRun,       \* bound: rows of agent_runs
    Recs,         \* bound: rows of recommendations
    Proposals,    \* predictions advice makes: see Proposal
    MaxDay,       \* bound: the calendar
    Decisions,    \* what the user does: subset of {"ACCEPTED", "DISMISSED"}
    VerifyAfter,  \* values of verify_after_days, in days of the model
    Faults,       \* kinds of fault that happen: see FaultKinds
    MaxFaults     \* bound: faults in a behaviour

Directions == {"INCREASE", "DECREASE", "MAINTAIN"}

(* predicted_direction, and whether a baseline could be measured.            *)
Proposal == [direction : Directions, baseline : BOOLEAN]

FaultKinds == {"crash", "exception", "duplicate"}

ASSUME LoopAssumption ==
    /\ MaxRun \in Nat /\ MaxDay \in Nat /\ MaxFaults \in Nat
    /\ VerifyAfter \subseteq Nat \ {0}
    /\ Faults \subseteq FaultKinds
    /\ Decisions \subseteq {"ACCEPTED", "DISMISSED"}
    /\ Proposals \subseteq Proposal

VARIABLES
    today,        \* the date
    runs,         \* agent_runs.status; "none" before the row is committed
    rec,          \* the recommendations table
    stored,       \* keys that are committed
    task,         \* what each worker is doing
    tardy,        \* history: advice decided on after a grader had read it
    contended,    \* history: advice two graders had read at once
    excused,      \* history: runs whose process or session was lost
    faults        \* faults so far

history == <<tardy, contended, excused>>
vars    == <<today, runs, rec, stored, task, history, faults>>

Days      == 0 .. MaxDay
Runs      == 1 .. MaxRun
NoRun     == 0
RunStatus == {"RUNNING", "COMPLETED", "PARTIAL", "SKIPPED", "FAILED"}
Results   == {"PENDING", "CONFIRMED", "REFUTED", "INCONCLUSIVE"}
Moves     == {"up", "down", "flat"}

(* observed_value, against baseline_value.                                   *)
Observed  == Moves \cup {"null"}

Recommendation ==
    [run         : Runs,
     status      : {"PROPOSED", "ACCEPTED", "DISMISSED"},
     direction   : Directions,
     baseline    : BOOLEAN,
     verifyAfter : Nat,
     result      : Results,
     observed    : Observed]

NoRec == [run |-> NoRun]

Grades == [result : Results, observed : Observed]

(* Collected rows (uq_posts_account_post, uq_account_snapshot_time), the     *)
(* default taxonomy (uq_topic_account_name), the posts' topics               *)
(* (uq_post_topic).                                                          *)
Keys == {"post", "topics", "label"}

Inserting == {"insert", "seed", "label"}
Stages    == {"collect", "classify", "reason", "recommend", "verify", "grade", "report"}
                 \cup Inserting

(* A task is idle, a cycle (which has a run) or the grading task.            *)
Task == [pc     : Stages \cup {"idle"},
         run    : Runs \cup {NoRun},
         status : RunStatus,              \* run.status in the session
         holds  : SUBSET Keys,            \* keys inserted, not committed
         new    : [Recs -> Recommendation \cup {NoRec}],
         due    : SUBSET Recs,            \* what the grading query returned
         grades : [Recs -> Grades],       \* for the members of due
         locked : SUBSET Recs]            \* rows updated, not committed

NoGrade == [result |-> "PENDING", observed |-> "null"]

Idle == [pc |-> "idle", run |-> NoRun, status |-> "RUNNING", holds |-> {},
         new |-> [r \in Recs |-> NoRec], due |-> {},
         grades |-> [r \in Recs |-> NoGrade], locked |-> {}]

TypeOK ==
    /\ today \in Days
    /\ runs \in [Runs -> RunStatus \cup {"none"}]
    /\ rec \in [Recs -> Recommendation \cup {NoRec}]
    /\ stored \subseteq Keys
    /\ task \in [Workers -> Task]
    /\ tardy \subseteq Recs /\ contended \subseteq Recs /\ excused \subseteq Runs
    /\ faults \in Nat

Init ==
    /\ today = 0
    /\ runs = [r \in Runs |-> "none"]
    /\ rec = [r \in Recs |-> NoRec]
    /\ stored \in SUBSET {"topics"}
    /\ task = [w \in Workers |-> Idle]
    /\ tardy = {} /\ contended = {} /\ excused = {}
    /\ faults = 0

-----------------------------------------------------------------------------
(* Helpers *)

Known(r) == rec[r] # NoRec

GoOn(w, pc) == task' = [task EXCEPT ![w].pc = pc]

(* Mutant: an observed value, once there, is kept.                           *)
Graded_KeepObserved(row, grade) ==
    [row EXCEPT !.result   = grade.result,
                !.observed = IF @ = "null" THEN grade.observed ELSE @]

(* UPDATE by primary key of the columns the session changed: an observed     *)
(* value that is still null is not one of them.                              *)
Graded(row, grade) ==
    [row EXCEPT !.result   = grade.result,
                !.observed = IF grade.observed = "null" THEN @ ELSE grade.observed]

(* The recommendations table once worker w has committed, the grades of      *)
(* "rows" among its changes.                                                 *)
RecAfter(w, rows) ==
    [r \in Recs |-> IF task[w].new[r] # NoRec THEN task[w].new[r]
                    ELSE IF r \in rows THEN Graded(rec[r], task[w].grades[r])
                    ELSE rec[r]]

(* A transaction that is rolled back gives up what it held.                  *)
RollBack(w) ==
    /\ task' = [task EXCEPT ![w] = Idle]
    /\ UNCHANGED <<runs, rec, stored>>

Fault(kind) ==
    /\ kind \in Faults /\ faults < MaxFaults
    /\ faults' = faults + 1

-----------------------------------------------------------------------------
(* grade_prediction *)

(* Fewer than MIN_OBSERVATIONS fall inside the window, or they are enough.   *)
Measurements == {[observed |-> "null", enough |-> FALSE]}
                    \cup [observed : Moves, enough : BOOLEAN]

Foretold == [INCREASE |-> "up", DECREASE |-> "down", MAINTAIN |-> "flat"]

(* Mutant: advice is graded whether or not anybody took it.                  *)
Comparable_Regardless(row, m) == row.baseline /\ m.enough

Comparable(row, m) == row.status # "DISMISSED" /\ row.baseline /\ m.enough

Grade(row, m) ==
    [result |->
        IF ~Comparable(row, m) \/ (m.observed = "flat" /\ row.direction # "MAINTAIN")
        THEN "INCONCLUSIVE"
        ELSE IF m.observed = Foretold[row.direction] THEN "CONFIRMED" ELSE "REFUTED",
     observed |-> m.observed]

-----------------------------------------------------------------------------
(* The environment *)

Tick ==
    /\ today < MaxDay
    /\ today' = today + 1
    /\ UNCHANGED <<runs, rec, stored, task, history, faults>>

Held(k)   == \E w \in Workers : k \in task[w].holds
Locked(r) == \E w \in Workers : r \in task[w].locked

(* The collection schedule stores the post before a cycle does.              *)
Discover ==
    /\ "post" \notin stored /\ ~Held("post")
    /\ stored' = stored \cup {"post"}
    /\ UNCHANGED <<today, runs, rec, task, history, faults>>

(* accept_recommendation and dismiss_recommendation: whatever the status and *)
(* the grade are.                                                            *)
Decide(r) ==
    /\ Known(r) /\ ~Locked(r)
    /\ \E s \in Decisions : rec' = [rec EXCEPT ![r].status = s]
    /\ tardy' = IF rec[r].result # "PENDING" \/ \E w \in Workers : r \in task[w].due
                THEN tardy \cup {r} ELSE tardy
    /\ UNCHANGED <<today, runs, stored, task, contended, excused, faults>>

-----------------------------------------------------------------------------
(* One cycle, stage by stage *)

Fresh(r) ==
    /\ runs[r] = "none" /\ r \notin excused
    /\ \A v \in Workers : task[v].run # r

(* run: OBSERVE only reads.                                                  *)
Start(w) ==
    /\ task[w].pc = "idle"
    /\ \E r \in Runs :
         /\ Fresh(r) /\ \A q \in 1 .. r - 1 : ~Fresh(q)
         /\ task' = [task EXCEPT ![w].pc = "collect", ![w].run = r]
    /\ UNCHANGED <<today, runs, rec, stored, history, faults>>

(* _refresh_if_stale finds a post to insert; or collection is current, the   *)
(* budget exhausted, X failing, or there is nothing new.                     *)
Collect(w) ==
    /\ task[w].pc = "collect"
    /\ \/ "post" \notin stored /\ GoOn(w, "insert")
       \/ GoOn(w, "classify")
    /\ UNCHANGED <<today, runs, rec, stored, history, faults>>

(* Mutant: an action executed by the cycle talks to X as well.               *)
TokenStages_Publish == {"collect", "verify"}

TokenStages == {"collect"}

(* get_valid_access_token refreshes the token, and commits the session.      *)
RefreshToken(w) ==
    /\ task[w].pc \in TokenStages /\ task[w].run # NoRun
    /\ runs' = [runs EXCEPT ![task[w].run] = task[w].status]
    /\ stored' = stored \cup task[w].holds
    /\ rec' = RecAfter(w, {})
    /\ task' = [task EXCEPT ![w].holds = {}, ![w].new = Idle.new]
    /\ UNCHANGED <<today, history, faults>>

KeyOf == [insert |-> "post", seed |-> "topics", label |-> "label"]
After == [insert |-> "classify", seed |-> "classify", label |-> "reason"]

(* The flush of an INSERT: of a post, of the default taxonomy, of topics     *)
(* assigned to posts.                                                        *)
Insert(w) ==
    /\ task[w].pc \in Inserting
    /\ LET k == KeyOf[task[w].pc]
       IN  /\ k \notin stored /\ ~Held(k)
           /\ task' = [task EXCEPT ![w].pc = After[@], ![w].holds = @ \cup {k}]
    /\ UNCHANGED <<today, runs, rec, stored, history, faults>>

(* ... which another transaction made first: run's handler cannot record the *)
(* failure either, and the whole cycle is rolled back.                       *)
Conflict(w) ==
    /\ task[w].pc \in Inserting
    /\ KeyOf[task[w].pc] \in stored
    /\ RollBack(w)
    /\ excused' = excused \cup {task[w].run}
    /\ UNCHANGED <<today, tardy, contended, faults>>

(* ... or which repeats itself: the model assigned a topic to a post twice.  *)
Duplicate(w) ==
    /\ task[w].pc = "label"
    /\ Fault("duplicate")
    /\ RollBack(w)
    /\ excused' = excused \cup {task[w].run}
    /\ UNCHANGED <<today, tardy, contended>>

(* ensure_taxonomy and classify_pending: the default taxonomy, the first     *)
(* time; then the posts without topics are put to the model, which may fail  *)
(* or assign nothing.                                                        *)
Classify(w) ==
    LET sees(k) == k \in stored \cup task[w].holds
    IN  /\ task[w].pc = "classify"
        /\ IF ~sees("topics") THEN GoOn(w, "seed")
           ELSE \/ sees("post") /\ ~sees("label") /\ GoOn(w, "label")
                \/ GoOn(w, "reason")
        /\ UNCHANGED <<today, runs, rec, stored, history, faults>>

(* The evidence is not enough to reason over; or the model is unavailable,   *)
(* and there is nothing to recommend; or it answers.                         *)
Reason(w) ==
    /\ task[w].pc = "reason"
    /\ \/ \E s \in {"SKIPPED", "PARTIAL"} :
            task' = [task EXCEPT ![w].pc = "verify", ![w].status = s]
       \/ GoOn(w, "recommend")
    /\ UNCHANGED <<today, runs, rec, stored, history, faults>>

(* _store_recommendations: one proposal whose citations hold.                *)
Recommend(w) ==
    /\ task[w].pc = "recommend"
    /\ \E r \in Recs, p \in Proposals, n \in VerifyAfter :
         /\ ~Known(r) /\ \A v \in Workers : task[v].new[r] = NoRec
         /\ today + n <= MaxDay
         /\ task' = [task EXCEPT ![w].new[r] =
              [run |-> task[w].run, status |-> "PROPOSED", direction |-> p.direction,
               baseline |-> p.baseline,
               verifyAfter |-> today + n, result |-> "PENDING", observed |-> "null"]]
    /\ UNCHANGED <<today, runs, rec, stored, history, faults>>

(* ACT queues proposals: see ApprovalQueue.                                  *)
Act(w) ==
    /\ task[w].pc = "recommend"
    /\ GoOn(w, "verify")
    /\ UNCHANGED <<today, runs, rec, stored, history, faults>>

-----------------------------------------------------------------------------
(* VERIFY: a stage of the cycle, and a task of its own *)

StartVerify(w) ==
    /\ task[w].pc = "idle"
    /\ GoOn(w, "verify")
    /\ UNCHANGED <<today, runs, rec, stored, history, faults>>

(* Mutant: what is graded already is graded again.                           *)
Due_Regrade == {r \in Recs : Known(r) /\ rec[r].verifyAfter <= today}

(* Mutant: advice the user dismissed is left alone.                          *)
Due_Undismissed ==
    {r \in Recs : /\ Known(r)
                  /\ rec[r].result = "PENDING"
                  /\ rec[r].status # "DISMISSED"
                  /\ rec[r].verifyAfter <= today}

Due == {r \in Recs : /\ Known(r)
                     /\ rec[r].result = "PENDING"
                     /\ rec[r].verifyAfter <= today}

(* grade_due reads what is due, measures each and grades it by the row read. *)
Verify(w) ==
    /\ task[w].pc = "verify"
    /\ \E m \in [Due -> Measurements] :
         task' = [task EXCEPT
             ![w].pc     = IF Due = {} THEN "report" ELSE "grade",
             ![w].due    = Due,
             ![w].grades = [r \in Recs |-> IF r \in Due THEN Grade(rec[r], m[r]) ELSE NoGrade]]
    /\ contended' = contended \cup
                       {r \in Due : \E v \in Workers \ {w} : r \in task[v].due}
    /\ UNCHANGED <<today, runs, rec, stored, tardy, excused, faults>>

(* The flush updates the rows, when no other transaction has them locked.    *)
Flush(w) ==
    /\ task[w].pc = "grade"
    /\ \A r \in task[w].due : ~Locked(r)
    /\ task' = [task EXCEPT ![w].pc = "report", ![w].locked = task[w].due]
    /\ UNCHANGED <<today, runs, rec, stored, history, faults>>

-----------------------------------------------------------------------------
(* The ends of a task *)

(* The transaction of a cycle, or of the grading task, is committed.         *)
End(w, status, rows) ==
    /\ runs' = IF task[w].run = NoRun THEN runs ELSE [runs EXCEPT ![task[w].run] = status]
    /\ stored' = stored \cup task[w].holds
    /\ rec' = RecAfter(w, rows)
    /\ task' = [task EXCEPT ![w] = Idle]

(* Mutant: a cycle that reached its end is not marked.                       *)
Final_Forgotten(status) == status

Final(status) == IF status = "RUNNING" THEN "COMPLETED" ELSE status

Report(w) ==
    /\ task[w].pc = "report"
    /\ End(w, Final(task[w].status), task[w].locked)
    /\ UNCHANGED <<today, history, faults>>

(* run catches the exception of a stage: what the stages before it wrote is  *)
(* committed with the failure, the grades given so far among it.             *)
Fail(w) ==
    /\ task[w].run # NoRun /\ task[w].pc \notin Inserting
    /\ Fault("exception")
    /\ \E rows \in SUBSET task[w].due :
         /\ task[w].pc = "report" => rows = task[w].locked
         /\ \A r \in rows \ task[w].locked : ~Locked(r)
         /\ End(w, "FAILED", rows)
    /\ UNCHANGED <<today, history>>

(* The process dies, or is stopped by the task's time limit; the grading     *)
(* task rolls back on any exception.                                         *)
Crash(w) ==
    /\ task[w].pc # "idle"
    /\ Fault("crash")
    /\ RollBack(w)
    /\ excused' = excused \cup ({task[w].run} \ {NoRun})
    /\ UNCHANGED <<today, tardy, contended>>

-----------------------------------------------------------------------------
Step(w) ==
    \/ Collect(w) \/ Insert(w) \/ Conflict(w) \/ Classify(w)
    \/ Reason(w) \/ Act(w) \/ Verify(w) \/ Flush(w) \/ Report(w)

Next ==
    \/ Tick \/ Discover
    \/ \E r \in Recs : Decide(r)
    \/ \E w \in Workers :
         \/ Start(w) \/ StartVerify(w) \/ Step(w)
         \/ RefreshToken(w) \/ Recommend(w)
         \/ Duplicate(w) \/ Fail(w) \/ Crash(w)

Spec == Init /\ [][Next]_vars

(* A task that runs goes on, and verify_predictions is due every day.        *)
FairSpec ==
    /\ Spec
    /\ \A w \in Workers : WF_vars(Step(w)) /\ WF_vars(StartVerify(w))

-----------------------------------------------------------------------------
(* Properties *)

Decisive == {"CONFIRMED", "REFUTED"}

Explained(row, grade) ==
    grade.result \in Decisive =>
        /\ row.baseline /\ grade.observed # "null"
        /\ grade.result = "CONFIRMED" <=> grade.observed = Foretold[row.direction]
        /\ row.direction # "MAINTAIN" => grade.observed # "flat"

(* A verdict can be read off its row: even when two graders wrote the row    *)
(* one after the other, a confirmed prediction goes with the observed move   *)
(* it foretold, a refuted one with another move, and both with a baseline.   *)
GradeIsExplained ==
    \A r \in Recs : Known(r) => Explained(rec[r], rec[r])

(* Advice dismissed before a grader read it is never given a verdict.        *)
DismissedHasNoVerdict ==
    \A r \in Recs : Known(r) /\ rec[r].status = "DISMISSED" /\ r \notin tardy =>
        rec[r].result \notin Decisive

(* Advice is visible only once the cycle that gave it has ended, and had     *)
(* something to reason over and a model to reason with: the commit half way  *)
(* shows none.                                                               *)
AdviceHasARun ==
    \A r \in Recs : Known(r) => runs[rec[r].run] \in {"COMPLETED", "FAILED"}

(* Every cycle that was started and is over has a final status, unless its   *)
(* process or its database session was lost.                                 *)
RunningIsAlive ==
    \A r \in Runs : runs[r] = "RUNNING" =>
        r \in excused \/ \E w \in Workers : task[w].run = r

(* A grade stands once it is given, unless two graders read the advice       *)
(* before either committed.                                                  *)
GradeIsFinal ==
    [][\A r \in Recs : Known(r) /\ rec[r].result # "PENDING" /\ r \notin contended =>
         rec'[r].result = rec[r].result /\ rec'[r].observed = rec[r].observed]_vars

(* Advice whose day has come is graded, whatever happens to cycles.          *)
EveryPredictionIsGraded ==
    \A r \in Recs :
        (Known(r) /\ rec[r].verifyAfter <= today) ~> (Known(r) /\ rec[r].result # "PENDING")
=============================================================================
