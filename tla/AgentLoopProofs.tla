-------------------------- MODULE AgentLoopProofs --------------------------
(***************************************************************************)
(* Theorems about AgentLoop, for any number of workers, runs and           *)
(* recommendations, any proposals and any faults.                          *)
(***************************************************************************)
EXTENDS AgentLoop, TLAPS

(* Advice that is not committed is ungraded, and in one transaction only.    *)
Separate ==
    \A w \in Workers, r \in Recs : task[w].new[r] # NoRec =>
        /\ ~Known(r)
        /\ task[w].new[r].result = "PENDING"
        /\ \A v \in Workers \ {w} : task[v].new[r] = NoRec

(* The rows a transaction updated are those it graded, and it ends next.     *)
LocksFit(t) ==
    /\ t.locked \subseteq t.due
    /\ t.pc # "report" => t.locked = {}

(* A grade that is still to be written is explained by the row it is for.    *)
GradesSound ==
    \A w \in Workers :
        /\ LocksFit(task[w])
        /\ \A r \in task[w].due : Known(r) /\ Explained(rec[r], task[w].grades[r])

(* Only the grading task goes without a run.                                 *)
CycleStages == Stages \ {"verify", "grade", "report"}

CyclesHaveRuns ==
    \A w \in Workers : task[w].pc \in CycleStages => task[w].run \in Runs

IInv == TypeOK /\ Separate /\ GradesSound /\ CyclesHaveRuns /\ GradeIsExplained

-----------------------------------------------------------------------------
(* Rows and grades *)

(* The null record is told from a row.                                       *)
LEMMA NoRecIsNoRow == NoRec \notin Recommendation
  BY DEF NoRec, NoRun, Recommendation, Runs

(* What is in the table is a row or the null record.                         *)
LEMMA RecFields ==
    ASSUME TypeOK, NEW r \in Recs
    PROVE  /\ rec[r] \in Recommendation \cup {NoRec}
           /\ Known(r) => rec[r] \in Recommendation
  BY DEF TypeOK, Known

(* The types of a task's fields.                                             *)
LEMMA TaskFields ==
    ASSUME TypeOK, NEW w \in Workers
    PROVE  /\ task[w] \in Task
           /\ task[w].pc \in Stages \cup {"idle"} /\ task[w].run \in Runs \cup {NoRun}
           /\ task[w].status \in RunStatus /\ task[w].holds \subseteq Keys
           /\ task[w].new \in [Recs -> Recommendation \cup {NoRec}]
           /\ task[w].due \subseteq Recs /\ task[w].locked \subseteq Recs
           /\ task[w].grades \in [Recs -> Grades]
  BY DEF TypeOK, Task

(* grade_prediction gives no verdict its row does not explain.               *)
LEMMA GradeFits ==
    ASSUME NEW row \in Recommendation, NEW m \in Measurements
    PROVE  Grade(row, m) \in Grades /\ Explained(row, Grade(row, m))
  <1>1. row.direction \in Directions /\ row.baseline \in BOOLEAN
    BY DEF Recommendation
  <1>2. m.observed \in Observed /\ m.enough \in BOOLEAN
        /\ (m.enough => m.observed \in Moves)
    <2>1. CASE m = [observed |-> "null", enough |-> FALSE]
      BY <2>1 DEF Observed
    <2>2. CASE m \in [observed : Moves, enough : BOOLEAN]
      BY <2>2 DEF Observed
    <2> QED BY <2>1, <2>2 DEF Measurements
  <1>3. /\ Grade(row, m).observed = m.observed
        /\ Grade(row, m).result \in {"INCONCLUSIVE", "CONFIRMED", "REFUTED"}
    BY DEF Grade
  <1>4. ASSUME Grade(row, m).result \in Decisive
        PROVE  /\ Comparable(row, m)
               /\ row.direction # "MAINTAIN" => m.observed # "flat"
               /\ Grade(row, m).result = "CONFIRMED" <=> m.observed = Foretold[row.direction]
    BY <1>4 DEF Grade, Decisive
  <1>5. Grade(row, m) \in Grades
    BY <1>2, <1>3 DEF Grade, Grades, Results
  <1>6. Explained(row, Grade(row, m))
    BY <1>2, <1>3, <1>4 DEF Explained, Comparable, Moves
  <1> QED BY <1>5, <1>6

(* Whether a row explains a grade is a matter of its prediction alone.       *)
LEMMA SamePrediction ==
    ASSUME NEW old, NEW row, NEW grade, Explained(old, grade),
           row.baseline = old.baseline, row.direction = old.direction
    PROVE  Explained(row, grade)
  BY DEF Explained

(* A grade written over another leaves a row that explains itself.           *)
LEMMA GradedFits ==
    ASSUME NEW row \in Recommendation, NEW grade \in Grades,
           Explained(row, grade), Explained(row, row)
    PROVE  /\ Graded(row, grade) \in Recommendation
           /\ Graded(row, grade).baseline = row.baseline
           /\ Graded(row, grade).direction = row.direction
           /\ Explained(Graded(row, grade), Graded(row, grade))
  <1>1. Graded(row, grade) \in Recommendation
    BY DEF Graded, Recommendation, Grades
  <1>2. /\ Graded(row, grade).baseline = row.baseline
        /\ Graded(row, grade).direction = row.direction
        /\ Graded(row, grade).result = grade.result
        /\ grade.observed # "null" => Graded(row, grade).observed = grade.observed
    BY DEF Graded, Recommendation
  <1> QED BY <1>1, <1>2 DEF Explained

-----------------------------------------------------------------------------
(* The table after a commit *)

(* Whatever grades are among its changes, a commit leaves rows that explain  *)
(* themselves, and the predictions there were.                               *)
LEMMA CommitRec ==
    ASSUME IInv, NEW w \in Workers, NEW rows \in SUBSET task[w].due, NEW r \in Recs
    PROVE  /\ RecAfter(w, rows)[r] \in Recommendation \cup {NoRec}
           /\ Known(r) => /\ RecAfter(w, rows)[r] \in Recommendation
                          /\ RecAfter(w, rows)[r].baseline = rec[r].baseline
                          /\ RecAfter(w, rows)[r].direction = rec[r].direction
           /\ RecAfter(w, rows)[r] # NoRec =>
                 Explained(RecAfter(w, rows)[r], RecAfter(w, rows)[r])
           /\ ~Known(r) => RecAfter(w, rows)[r] = task[w].new[r]
  <1> DEFINE after == RecAfter(w, rows)[r]
  <1>0. TypeOK /\ rec[r] \in Recommendation \cup {NoRec}
    BY RecFields DEF IInv
  <1>1. CASE task[w].new[r] # NoRec
    <2>1. after = task[w].new[r] /\ ~Known(r) /\ after.result = "PENDING"
      BY <1>1 DEF RecAfter, IInv, Separate
    <2>2. after \in Recommendation
      BY <1>0, <1>1, <2>1, TaskFields
    <2>3. Explained(after, after)
      BY <2>1 DEF Explained, Decisive
    <2> QED BY <2>1, <2>2, <2>3
  <1>2. CASE task[w].new[r] = NoRec /\ r \in rows
    <2>1. after = Graded(rec[r], task[w].grades[r])
      BY <1>2 DEF RecAfter
    <2>2. /\ Known(r) /\ Explained(rec[r], task[w].grades[r])
          /\ Explained(rec[r], rec[r])
      BY <1>2 DEF IInv, GradesSound, GradeIsExplained
    <2>3. rec[r] \in Recommendation /\ task[w].grades[r] \in Grades
      BY <1>0, <2>2, TaskFields, RecFields
    <2> QED BY <2>1, <2>2, <2>3, GradedFits, NoRecIsNoRow
  <1>3. CASE task[w].new[r] = NoRec /\ r \notin rows
    <2>1. after = rec[r]
      BY <1>3 DEF RecAfter
    <2>2. after # NoRec => Explained(after, after)
      BY <2>1 DEF IInv, GradeIsExplained, Known
    <2> QED BY <1>0, <1>3, <2>1, <2>2, RecFields DEF Known
  <1> QED BY <1>1, <1>2, <1>3

-----------------------------------------------------------------------------
(* One step of one worker *)

(* What a worker's step must see to, for the invariant to hold after it.     *)
LEMMA Update ==
    ASSUME IInv, NEW w \in Workers, NEW t \in Task,
           task' = [task EXCEPT ![w] = t],
           t.pc \in CycleStages => t.run \in Runs,
           LocksFit(t),
           TypeOK',
           \A r \in Recs : Known(r) =>
               /\ rec'[r] # NoRec
               /\ rec'[r].baseline = rec[r].baseline
               /\ rec'[r].direction = rec[r].direction,
           \A r \in Recs : rec'[r] # NoRec => Explained(rec'[r], rec'[r]),
           \A r \in Recs : t.new[r] # NoRec =>
               /\ rec'[r] = NoRec
               /\ t.new[r].result = "PENDING"
               /\ \A v \in Workers \ {w} : task[v].new[r] = NoRec,
           \A r \in Recs, v \in Workers \ {w} : task[v].new[r] # NoRec => rec'[r] = NoRec,
           \A r \in t.due : rec'[r] # NoRec /\ Explained(rec'[r], t.grades[r])
    PROVE  IInv'
  <1>0. task \in [Workers -> Task] /\ t.due \subseteq Recs
    BY DEF IInv, TypeOK, Task
  <1>1. task'[w] = t /\ \A v \in Workers \ {w} : task'[v] = task[v]
    BY <1>0
  <1>2. Separate'
    <2> SUFFICES ASSUME NEW u \in Workers, NEW r \in Recs, task'[u].new[r] # NoRec
                 PROVE  /\ rec'[r] = NoRec
                        /\ task'[u].new[r].result = "PENDING"
                        /\ \A v \in Workers \ {u} : task'[v].new[r] = NoRec
      BY DEF Separate, Known
    <2>1. CASE u = w
      BY <1>1, <2>1
    <2>2. CASE u # w
      <3>1. task'[u] = task[u] /\ rec'[r] = NoRec
        BY <1>1, <2>2
      <3>2. /\ task[u].new[r].result = "PENDING"
            /\ \A v \in Workers \ {u} : task[v].new[r] = NoRec
        BY <3>1 DEF IInv, Separate
      <3>3. t.new[r] = NoRec
        BY <2>2, <3>1
      <3> QED BY <1>1, <3>1, <3>2, <3>3
    <2> QED BY <2>1, <2>2
  <1>3. GradesSound'
    <2> SUFFICES ASSUME NEW u \in Workers
                 PROVE  /\ LocksFit(task'[u])
                        /\ \A r \in task'[u].due :
                              rec'[r] # NoRec /\ Explained(rec'[r], task'[u].grades[r])
      BY DEF GradesSound, Known, LocksFit
    <2>1. CASE u = w
      BY <1>1, <2>1
    <2>2. CASE u # w
      <3>1. task'[u] = task[u] /\ LocksFit(task[u])
            /\ task[u].due \subseteq Recs
        BY <1>1, <2>2, TaskFields DEF IInv, GradesSound
      <3>2. ASSUME NEW r \in task[u].due
            PROVE  rec'[r] # NoRec /\ Explained(rec'[r], task[u].grades[r])
        <4>1. Known(r) /\ Explained(rec[r], task[u].grades[r])
          BY DEF IInv, GradesSound
        <4>2. /\ rec'[r] # NoRec
              /\ rec'[r].baseline = rec[r].baseline /\ rec'[r].direction = rec[r].direction
          BY <3>1, <4>1
        <4> QED BY <4>1, <4>2, SamePrediction
      <3> QED BY <3>1, <3>2
    <2> QED BY <2>1, <2>2
  <1>4. CyclesHaveRuns'
    BY <1>1 DEF IInv, CyclesHaveRuns
  <1>5. GradeIsExplained'
    BY DEF GradeIsExplained, Known
  <1> QED BY <1>2, <1>3, <1>4, <1>5 DEF IInv

(* A step that leaves the table alone, and goes on with what the task has    *)
(* written and graded or gives it up.                                        *)
LEMMA Local ==
    ASSUME IInv, NEW w \in Workers, NEW t \in Task,
           task' = [task EXCEPT ![w] = t],
           t.pc \in CycleStages => t.run \in Runs,
           LocksFit(t),
           t.new = task[w].new \/ t.new = Idle.new,
           t.due = {} \/ (t.due = task[w].due /\ t.grades = task[w].grades),
           rec' = rec, TypeOK'
    PROVE  IInv'
  <1>1. \A r \in Recs : rec[r] # NoRec => Explained(rec[r], rec[r])
    BY DEF IInv, GradeIsExplained, Known
  <1>2. \A r \in Recs : t.new[r] # NoRec => t.new = task[w].new
    BY DEF Idle
  <1>3. \A u \in Workers, r \in Recs : task[u].new[r] # NoRec =>
           /\ rec[r] = NoRec
           /\ task[u].new[r].result = "PENDING"
           /\ \A v \in Workers \ {u} : task[v].new[r] = NoRec
    BY DEF IInv, Separate, Known
  <1>4. \A r \in t.due : rec[r] # NoRec /\ Explained(rec[r], t.grades[r])
    BY DEF IInv, GradesSound, Known
  <1>5. \A r \in Recs : Known(r) =>
           /\ rec'[r] # NoRec
           /\ rec'[r].baseline = rec[r].baseline
           /\ rec'[r].direction = rec[r].direction
    BY DEF Known
  <1>6. \A r \in Recs : t.new[r] # NoRec =>
           /\ rec'[r] = NoRec
           /\ t.new[r].result = "PENDING"
           /\ \A v \in Workers \ {w} : task[v].new[r] = NoRec
    BY <1>2, <1>3
  <1>7. \A r \in Recs : rec'[r] # NoRec => Explained(rec'[r], rec'[r])
    BY <1>1
  <1>8. \A r \in Recs, v \in Workers \ {w} : task[v].new[r] # NoRec => rec'[r] = NoRec
    BY <1>3
  <1>9. \A r \in t.due : rec'[r] # NoRec /\ Explained(rec'[r], t.grades[r])
    BY <1>4
  <1> QED BY <1>5, <1>6, <1>7, <1>8, <1>9, Update

(* A step that commits what the task has written, and some of its grades.    *)
LEMMA Committing ==
    ASSUME IInv, NEW w \in Workers, NEW t \in Task, NEW rows \in SUBSET task[w].due,
           task' = [task EXCEPT ![w] = t],
           t.pc \in CycleStages => t.run \in Runs,
           LocksFit(t), t.new = Idle.new,
           t.due = {} \/ (t.due = task[w].due /\ t.grades = task[w].grades),
           rec' = RecAfter(w, rows), TypeOK'
    PROVE  IInv'
  <1>1. \A r \in Recs : Known(r) =>
           /\ rec'[r] # NoRec
           /\ rec'[r].baseline = rec[r].baseline
           /\ rec'[r].direction = rec[r].direction
    BY CommitRec, NoRecIsNoRow
  <1>2. \A r \in Recs : rec'[r] # NoRec => Explained(rec'[r], rec'[r])
    BY CommitRec
  <1>3. \A r \in Recs : t.new[r] = NoRec
    BY DEF Idle
  <1>4. ASSUME NEW r \in Recs, NEW v \in Workers \ {w}, task[v].new[r] # NoRec
        PROVE  rec'[r] = NoRec
    <2>1. ~Known(r) /\ task[w].new[r] = NoRec
      BY <1>4 DEF IInv, Separate
    <2> QED BY <2>1, CommitRec
  <1>5. ASSUME NEW r \in t.due
        PROVE  rec'[r] # NoRec /\ Explained(rec'[r], t.grades[r])
    <2>1. r \in Recs /\ Known(r) /\ Explained(rec[r], t.grades[r])
      BY TaskFields DEF IInv, GradesSound
    <2> QED BY <1>1, <2>1, SamePrediction
  <1> QED BY <1>1, <1>2, <1>3, <1>4, <1>5, Update

-----------------------------------------------------------------------------
(* The actions *)

(* Nothing is advised or under way at first.                                 *)
LEMMA InitInv ==
    ASSUME Init PROVE IInv
  <1>1. Idle \in Task
    BY DEF Idle, Task, Stages, Inserting, Runs, NoRun, RunStatus, Keys, Grades, NoGrade,
           Results, Observed, Moves
  <1>2. TypeOK
    <2>1. today \in Days /\ faults \in Nat
      BY LoopAssumption DEF Init, Days
    <2>2. stored \subseteq Keys
      BY DEF Init, Keys
    <2> QED BY <1>1, <2>1, <2>2 DEF Init, TypeOK
  <1>3. \A w \in Workers : task[w] = Idle
    BY DEF Init
  <1>4. Separate /\ GradesSound
    BY <1>3 DEF Separate, GradesSound, LocksFit, Idle
  <1>5. CyclesHaveRuns
    BY <1>3 DEF CyclesHaveRuns, Idle, CycleStages, Stages, Inserting
  <1>6. GradeIsExplained
    BY DEF Init, GradeIsExplained, Known
  <1> QED BY <1>2, <1>4, <1>5, <1>6 DEF IInv


(* A task that only moves on.                                                *)
LEMMA Moving ==
    ASSUME IInv, NEW w \in Workers, NEW pc \in Stages,
           task[w].pc # "report",
           pc \in CycleStages => task[w].run \in Runs,
           GoOn(w, pc), UNCHANGED <<today, runs, rec, stored, history, faults>>
    PROVE  IInv'
  <1> DEFINE t == [task[w] EXCEPT !.pc = pc]
  <1>1. task[w] \in Task /\ LocksFit(task[w])
    BY TaskFields DEF IInv, GradesSound
  <1>2. t \in Task
    BY <1>1 DEF Task
  <1>3. task' = [task EXCEPT ![w] = t]
    BY DEF GoOn
  <1>4. TypeOK'
    BY <1>2, <1>3 DEF IInv, TypeOK, history
  <1>5. /\ t.pc = pc /\ t.run = task[w].run /\ t.locked = task[w].locked
        /\ t.due = task[w].due /\ t.new = task[w].new /\ t.grades = task[w].grades
    BY <1>1 DEF Task
  <1>6. LocksFit(t)
    BY <1>1, <1>5 DEF LocksFit
  <1> HIDE DEF t
  <1> QED BY <1>1, <1>2, <1>3, <1>4, <1>5, <1>6, Local

(* A task that is rolled back.                                               *)
LEMMA RollingBack ==
    ASSUME IInv, NEW w \in Workers, RollBack(w),
           today' = today, tardy' = tardy, contended' = contended,
           excused' \subseteq Runs, faults' \in Nat
    PROVE  IInv'
  <1>1. Idle \in Task /\ Idle.due = {} /\ Idle.locked = {} /\ Idle.pc = "idle"
    BY DEF Idle, Task, Stages, Inserting, Runs, NoRun, RunStatus, Keys, Grades, NoGrade,
           Results, Observed, Moves
  <1>2. task' = [task EXCEPT ![w] = Idle] /\ rec' = rec
    BY DEF RollBack
  <1>3. TypeOK'
    BY <1>1 DEF RollBack, IInv, TypeOK
  <1>4. Idle.pc \notin CycleStages
    BY <1>1 DEF CycleStages, Stages, Inserting
  <1> QED BY <1>1, <1>2, <1>3, <1>4, Local DEF LocksFit

(* The end of a task, whatever the status and the grades it leaves.          *)
LEMMA Ending ==
    ASSUME IInv, NEW w \in Workers, NEW status \in RunStatus,
           NEW rows \in SUBSET task[w].due, End(w, status, rows),
           today' = today, UNCHANGED history, faults' \in Nat
    PROVE  IInv'
  <1>1. Idle \in Task /\ Idle.due = {} /\ Idle.locked = {} /\ Idle.pc = "idle"
    BY DEF Idle, Task, Stages, Inserting, Runs, NoRun, RunStatus, Keys, Grades, NoGrade,
           Results, Observed, Moves
  <1>2. task' = [task EXCEPT ![w] = Idle] /\ rec' = RecAfter(w, rows)
    BY DEF End
  <1>3. rec' \in [Recs -> Recommendation \cup {NoRec}]
    BY <1>2, CommitRec DEF RecAfter
  <1>4. runs' \in [Runs -> RunStatus \cup {"none"}] /\ stored' \subseteq Keys
    BY TaskFields DEF End, IInv, TypeOK, NoRun
  <1>5. TypeOK'
    BY <1>1, <1>2, <1>3, <1>4 DEF IInv, TypeOK, history
  <1>6. Idle.pc \notin CycleStages
    BY <1>1 DEF CycleStages, Stages, Inserting
  <1> QED BY <1>1, <1>2, <1>5, <1>6, Committing DEF LocksFit

(* OBSERVE: a cycle begins.                                                  *)
LEMMA StartKeeps ==
    ASSUME IInv, NEW w \in Workers, Start(w) PROVE IInv'
  <1>1. PICK n \in Runs : task' = [task EXCEPT ![w].pc = "collect", ![w].run = n]
    BY DEF Start
  <1> DEFINE t == [task[w] EXCEPT !.pc = "collect", !.run = n]
  <1>2. task[w] \in Task /\ LocksFit(task[w])
    BY TaskFields DEF IInv, GradesSound
  <1>3. t \in Task
    BY <1>2 DEF Task, Stages
  <1>4. task' = [task EXCEPT ![w] = t]
    BY <1>1, <1>2 DEF IInv, TypeOK
  <1>5. TypeOK'
    BY <1>3, <1>4 DEF Start, IInv, TypeOK, history
  <1>6. /\ t.pc = "collect" /\ t.run = n /\ t.locked = task[w].locked
        /\ t.due = task[w].due /\ t.new = task[w].new /\ t.grades = task[w].grades
    BY <1>2 DEF Task
  <1>7. rec' = rec
    BY DEF Start
  <1>8. LocksFit(t)
    BY <1>2, <1>6 DEF Start, LocksFit
  <1> HIDE DEF t
  <1> QED BY <1>2, <1>3, <1>4, <1>5, <1>6, <1>7, <1>8, Local

(* COLLECT, classification and REASON, as far as they only move on.          *)
LEMMA MovesKeep ==
    ASSUME IInv, NEW w \in Workers,
           Collect(w) \/ Classify(w) \/ Act(w) \/ StartVerify(w)
    PROVE  IInv'
  <1>1. PICK pc \in Stages :
           /\ GoOn(w, pc) /\ UNCHANGED <<today, runs, rec, stored, history, faults>>
           /\ pc \in CycleStages => task[w].pc \in CycleStages
    BY DEF Collect, Classify, Act, StartVerify, Stages, CycleStages, Inserting
  <1>2. task[w].pc \in CycleStages => task[w].run \in Runs
    BY DEF IInv, CyclesHaveRuns
  <1>3. task[w].pc # "report"
    BY DEF Collect, Classify, Act, StartVerify
  <1> QED BY <1>1, <1>2, <1>3, Moving

(* The flush of an INSERT.                                                   *)
LEMMA InsertKeeps ==
    ASSUME IInv, NEW w \in Workers, Insert(w) PROVE IInv'
  <1> DEFINE k == KeyOf[task[w].pc]
             t == [task[w] EXCEPT !.pc = After[task[w].pc], !.holds = @ \cup {k}]
  <1>1. task[w] \in Task /\ LocksFit(task[w])
    BY TaskFields DEF IInv, GradesSound
  <1>2. k \in Keys /\ After[task[w].pc] \in {"classify", "reason"}
        /\ task[w].pc \in CycleStages
    BY DEF Insert, Inserting, KeyOf, After, Keys, CycleStages, Stages
  <1>3. t \in Task
    BY <1>1, <1>2 DEF Task, Stages
  <1>4. task' = [task EXCEPT ![w] = t]
    BY DEF Insert
  <1>5. TypeOK'
    BY <1>3, <1>4 DEF Insert, IInv, TypeOK, history
  <1>6. /\ t.run = task[w].run /\ t.locked = task[w].locked
        /\ t.due = task[w].due /\ t.new = task[w].new /\ t.grades = task[w].grades
    BY <1>1 DEF Task
  <1>7. rec' = rec /\ task[w].run \in Runs
    BY <1>2 DEF Insert, IInv, CyclesHaveRuns
  <1>8. LocksFit(t)
    BY <1>1, <1>6 DEF Insert, Inserting, LocksFit
  <1> HIDE DEF t
  <1> QED BY <1>1, <1>3, <1>4, <1>5, <1>6, <1>7, <1>8, Local

(* Losing a cycle to a unique constraint, or to a crash.                     *)
LEMMA LossesKeep ==
    ASSUME IInv, NEW w \in Workers, Conflict(w) \/ Duplicate(w) \/ Crash(w)
    PROVE  IInv'
  <1>1. task[w].pc \in Inserting => task[w].run \in Runs
    BY DEF IInv, CyclesHaveRuns, CycleStages, Stages, Inserting
  <1>2. task[w].run \in Runs \cup {NoRun} /\ excused \subseteq Runs /\ faults \in Nat
    BY TaskFields DEF IInv, TypeOK
  <1>3. /\ RollBack(w)
        /\ today' = today /\ tardy' = tardy /\ contended' = contended
        /\ faults' \in Nat
    BY <1>2 DEF Conflict, Duplicate, Crash, Fault
  <1>4. excused' \subseteq Runs
    BY <1>1, <1>2 DEF Conflict, Duplicate, Crash, Inserting
  <1> QED BY <1>3, <1>4, RollingBack

(* REASON, with or without a model.                                          *)
LEMMA ReasonKeeps ==
    ASSUME IInv, NEW w \in Workers, Reason(w) PROVE IInv'
  <1>1. CASE GoOn(w, "recommend")
    <2>1. "recommend" \in Stages /\ task[w].pc \in CycleStages
      BY DEF Reason, Stages, CycleStages, Inserting
    <2>2. task[w].run \in Runs
      BY <2>1 DEF IInv, CyclesHaveRuns
    <2> QED BY <1>1, <2>1, <2>2, Moving DEF Reason
  <1>2. ASSUME NEW s \in {"SKIPPED", "PARTIAL"},
               task' = [task EXCEPT ![w].pc = "verify", ![w].status = s]
        PROVE  IInv'
    <2> DEFINE t == [task[w] EXCEPT !.pc = "verify", !.status = s]
    <2>1. task[w] \in Task /\ LocksFit(task[w])
      BY TaskFields DEF IInv, GradesSound
    <2>2. t \in Task
      BY <2>1 DEF Task, Stages, RunStatus
    <2>3. task' = [task EXCEPT ![w] = t]
      BY <1>2
    <2>4. TypeOK'
      BY <2>2, <2>3 DEF Reason, IInv, TypeOK, history
    <2>5. /\ t.pc = "verify" /\ t.locked = task[w].locked
          /\ t.due = task[w].due /\ t.new = task[w].new /\ t.grades = task[w].grades
      BY <2>1 DEF Task
    <2>6. rec' = rec /\ "verify" \notin CycleStages
      BY DEF Reason, CycleStages
    <2>7. LocksFit(t)
      BY <2>1, <2>5 DEF Reason, LocksFit
    <2> HIDE DEF t
    <2> QED BY <2>1, <2>2, <2>3, <2>4, <2>5, <2>6, <2>7, Local
  <1> QED BY <1>1, <1>2 DEF Reason

(* COLLECT commits half way.                                                 *)
LEMMA RefreshKeeps ==
    ASSUME IInv, NEW w \in Workers, RefreshToken(w) PROVE IInv'
  <1> DEFINE t == [task[w] EXCEPT !.holds = {}, !.new = Idle.new]
  <1>1. task[w] \in Task /\ LocksFit(task[w])
        /\ (task[w].pc \in CycleStages => task[w].run \in Runs)
    BY TaskFields DEF IInv, GradesSound, CyclesHaveRuns
  <1>2. t \in Task
    <2>1. Idle.new = [r \in Recs |-> NoRec]
      BY DEF Idle
    <2>2. Idle.new \in [Recs -> Recommendation \cup {NoRec}]
      BY <2>1
    <2> HIDE DEF t
    <2>3. t = [task[w] EXCEPT !.holds = {}, !.new = Idle.new]
      BY DEF t
    <2> QED BY <1>1, <2>2, <2>3 DEF Task
  <1>3. task' = [task EXCEPT ![w] = t] /\ rec' = RecAfter(w, {})
    BY DEF RefreshToken
  <1>4. rec' \in [Recs -> Recommendation \cup {NoRec}]
    <2>1. \A r \in Recs : RecAfter(w, {})[r] \in Recommendation \cup {NoRec}
      <3>1. {} \in SUBSET task[w].due
        OBVIOUS
      <3> QED BY <3>1, CommitRec
    <2> QED BY <1>3, <2>1 DEF RecAfter
  <1>5. runs' \in [Runs -> RunStatus \cup {"none"}] /\ stored' \subseteq Keys
    BY TaskFields DEF RefreshToken, IInv, TypeOK
  <1>6. TypeOK'
    BY <1>2, <1>3, <1>4, <1>5 DEF RefreshToken, IInv, TypeOK, history
  <1>7. /\ t.pc = task[w].pc /\ t.run = task[w].run /\ t.locked = task[w].locked
        /\ t.due = task[w].due /\ t.new = Idle.new /\ t.grades = task[w].grades
    BY <1>1 DEF Task
  <1>8. LocksFit(t)
    BY <1>1, <1>7 DEF LocksFit
  <1> HIDE DEF t
  <1> QED BY <1>1, <1>2, <1>3, <1>6, <1>7, <1>8, Committing

(* A recommendation is stored.                                               *)
LEMMA RecommendKeeps ==
    ASSUME IInv, NEW w \in Workers, Recommend(w) PROVE IInv'
  <1>1. PICK c \in Recs, p \in Proposals, n \in VerifyAfter :
          /\ ~Known(c) /\ \A v \in Workers : task[v].new[c] = NoRec
          /\ task' = [task EXCEPT ![w].new[c] =
               [run |-> task[w].run, status |-> "PROPOSED", direction |-> p.direction,
                baseline |-> p.baseline,
                verifyAfter |-> today + n, result |-> "PENDING", observed |-> "null"]]
    BY DEF Recommend
  <1> DEFINE row == [run |-> task[w].run, status |-> "PROPOSED", direction |-> p.direction,
                     baseline |-> p.baseline,
                     verifyAfter |-> today + n, result |-> "PENDING", observed |-> "null"]
             t == [task[w] EXCEPT !.new = [@ EXCEPT ![c] = row]]
  <1>2. task[w] \in Task /\ LocksFit(task[w]) /\ task[w].run \in Runs
        /\ task[w].new \in [Recs -> Recommendation \cup {NoRec}]
    <2>1. task[w].pc \in CycleStages
      BY DEF Recommend, CycleStages, Stages, Inserting
    <2> QED BY <2>1, TaskFields DEF IInv, GradesSound, CyclesHaveRuns
  <1>3. row \in Recommendation
    <2>1. p.direction \in Directions /\ p.baseline \in BOOLEAN /\ n \in Nat
      BY LoopAssumption DEF Proposal
    <2>2. today + n \in Nat
      BY <2>1 DEF IInv, TypeOK, Days
    <2> QED BY <1>2, <2>1, <2>2 DEF Recommendation, Results, Observed
  <1>4. [task[w].new EXCEPT ![c] = row] \in [Recs -> Recommendation \cup {NoRec}]
    BY <1>2, <1>3
  <1>5. t \in Task
    BY <1>2, <1>4 DEF Task
  <1>6. task' = [task EXCEPT ![w] = t]
    BY <1>1
  <1>7. TypeOK'
    BY <1>5, <1>6 DEF Recommend, IInv, TypeOK, history
  <1>8. /\ t.pc = task[w].pc /\ t.run = task[w].run /\ t.locked = task[w].locked
        /\ t.due = task[w].due /\ t.grades = task[w].grades
        /\ t.new = [task[w].new EXCEPT ![c] = row]
    BY <1>2 DEF Task
  <1>9. rec' = rec
    BY DEF Recommend
  <1>10. ASSUME NEW r \in Recs, t.new[r] # NoRec
         PROVE  /\ rec'[r] = NoRec
                /\ t.new[r].result = "PENDING"
                /\ \A v \in Workers \ {w} : task[v].new[r] = NoRec
    <2>1. CASE r = c
      BY <1>1, <1>2, <1>8, <1>9, <2>1 DEF Known
    <2>2. CASE r # c
      <3>1. t.new[r] = task[w].new[r]
        BY <1>2, <1>8, <2>2
      <3> QED BY <1>9, <1>10, <3>1 DEF IInv, Separate, Known
    <2> QED BY <2>1, <2>2
  <1>11. \A r \in Recs, v \in Workers \ {w} : task[v].new[r] # NoRec => rec'[r] = NoRec
    BY <1>9 DEF IInv, Separate, Known
  <1>12. \A r \in t.due : rec'[r] # NoRec /\ Explained(rec'[r], t.grades[r])
    BY <1>8, <1>9 DEF IInv, GradesSound, Known
  <1>13. \A r \in Recs : rec'[r] # NoRec => Explained(rec'[r], rec'[r])
    BY <1>9 DEF IInv, GradeIsExplained, Known
  <1>14. \A r \in Recs : Known(r) =>
            /\ rec'[r] # NoRec
            /\ rec'[r].baseline = rec[r].baseline
            /\ rec'[r].direction = rec[r].direction
    BY <1>9 DEF Known
  <1>15. LocksFit(t)
    BY <1>2, <1>8 DEF LocksFit
  <1> HIDE DEF t
  <1> QED BY <1>2, <1>5, <1>6, <1>7, <1>8, <1>10, <1>11, <1>12, <1>13, <1>14, <1>15, Update

(* VERIFY: what is due is graded by the rows that were read.                 *)
LEMMA VerifyKeeps ==
    ASSUME IInv, NEW w \in Workers, Verify(w) PROVE IInv'
  <1>1. PICK m \in [Due -> Measurements] :
          task' = [task EXCEPT
             ![w].pc     = IF Due = {} THEN "report" ELSE "grade",
             ![w].due    = Due,
             ![w].grades = [r \in Recs |-> IF r \in Due THEN Grade(rec[r], m[r]) ELSE NoGrade]]
    BY DEF Verify
  <1> DEFINE pc == IF Due = {} THEN "report" ELSE "grade"
             grades == [r \in Recs |-> IF r \in Due THEN Grade(rec[r], m[r]) ELSE NoGrade]
             t == [task[w] EXCEPT !.pc = pc, !.due = Due, !.grades = grades]
  <1>2. task[w] \in Task /\ Due \subseteq Recs
    BY TaskFields DEF IInv, Due
  <1>3. ASSUME NEW r \in Due
        PROVE  /\ Known(r)
               /\ Grade(rec[r], m[r]) \in Grades /\ Explained(rec[r], Grade(rec[r], m[r]))
    <2>1. Known(r) /\ m[r] \in Measurements
      BY DEF Due
    <2>2. rec[r] \in Recommendation
      BY <1>2, <2>1, RecFields DEF IInv
    <2> QED BY <2>1, <2>2, GradeFits
  <1>4. NoGrade \in Grades
    BY DEF NoGrade, Grades, Results, Observed
  <1>5. grades \in [Recs -> Grades]
    BY <1>3, <1>4
  <1>6. pc \in Stages /\ pc \notin CycleStages
    BY DEF Stages, CycleStages
  <1>7. task[w].locked = {}
    BY DEF IInv, GradesSound, LocksFit, Verify
  <1>8. t \in Task
    BY <1>2, <1>5, <1>6 DEF Task
  <1>9. task' = [task EXCEPT ![w] = t]
    BY <1>1
  <1>10. contended' \subseteq Recs
    BY <1>2 DEF Verify, IInv, TypeOK
  <1>11. TypeOK'
    BY <1>8, <1>9, <1>10 DEF Verify, IInv, TypeOK
  <1>12. /\ t.pc = pc /\ t.run = task[w].run /\ t.locked = task[w].locked
         /\ t.due = Due /\ t.grades = grades /\ t.new = task[w].new
    BY <1>2 DEF Task
  <1>13. \A r \in t.due : Known(r) /\ Explained(rec[r], t.grades[r])
    BY <1>2, <1>3, <1>12
  <1>14. rec' = rec
    BY DEF Verify
  <1>15. /\ \A r \in Recs : t.new[r] # NoRec =>
               /\ rec'[r] = NoRec
               /\ t.new[r].result = "PENDING"
               /\ \A v \in Workers \ {w} : task[v].new[r] = NoRec
         /\ \A r \in Recs, v \in Workers \ {w} : task[v].new[r] # NoRec => rec'[r] = NoRec
    BY <1>12, <1>14 DEF IInv, Separate, Known
  <1>18. /\ \A r \in Recs : rec'[r] # NoRec => Explained(rec'[r], rec'[r])
         /\ \A r \in Recs : Known(r) =>
               /\ rec'[r] # NoRec
               /\ rec'[r].baseline = rec[r].baseline
               /\ rec'[r].direction = rec[r].direction
    BY <1>14 DEF IInv, GradeIsExplained, Known
  <1>16. \A r \in t.due : rec'[r] # NoRec /\ Explained(rec'[r], t.grades[r])
    BY <1>13, <1>14 DEF Known
  <1>17. LocksFit(t)
    BY <1>7, <1>12 DEF LocksFit
  <1> HIDE DEF t, pc, grades
  <1> QED BY <1>6, <1>8, <1>9, <1>11, <1>12, <1>15, <1>16, <1>17, <1>18, Update

(* The grades are flushed.                                                   *)
LEMMA FlushKeeps ==
    ASSUME IInv, NEW w \in Workers, Flush(w) PROVE IInv'
  <1> DEFINE t == [task[w] EXCEPT !.pc = "report", !.locked = task[w].due]
  <1>1. task[w] \in Task /\ task[w].due \subseteq Recs
    BY TaskFields DEF IInv
  <1>2. t \in Task
    BY <1>1 DEF Task, Stages
  <1>3. task' = [task EXCEPT ![w] = t] /\ rec' = rec
    BY DEF Flush
  <1>4. TypeOK'
    BY <1>2, <1>3 DEF Flush, IInv, TypeOK, history
  <1>5. /\ t.pc = "report" /\ t.locked = task[w].due
        /\ t.due = task[w].due /\ t.new = task[w].new /\ t.grades = task[w].grades
    BY <1>1 DEF Task
  <1>6. LocksFit(t) /\ t.pc \notin CycleStages
    BY <1>5 DEF LocksFit, CycleStages
  <1> HIDE DEF t
  <1> QED BY <1>2, <1>3, <1>4, <1>5, <1>6, Local

(* REPORT, or the failure of a stage.                                        *)
LEMMA EndsKeep ==
    ASSUME IInv, NEW w \in Workers, Report(w) \/ Fail(w) PROVE IInv'
  <1>1. task[w].status \in RunStatus /\ LocksFit(task[w]) /\ faults \in Nat
    BY TaskFields DEF IInv, TypeOK, GradesSound
  <1>2. CASE Report(w)
    <2>1. Final(task[w].status) \in RunStatus
      BY <1>1 DEF Final, RunStatus
    <2>2. task[w].locked \in SUBSET task[w].due
      BY <1>1 DEF LocksFit
    <2> QED BY <1>1, <1>2, <2>1, <2>2, Ending DEF Report
  <1>3. CASE Fail(w)
    <2>1. PICK rows \in SUBSET task[w].due : End(w, "FAILED", rows)
      BY <1>3 DEF Fail
    <2>2. "FAILED" \in RunStatus /\ faults' \in Nat /\ today' = today /\ UNCHANGED history
      BY <1>1, <1>3 DEF RunStatus, Fail, Fault
    <2> QED BY <2>1, <2>2, Ending
  <1> QED BY <1>2, <1>3

(* The user decides: a decision is no part of the prediction.                *)
LEMMA DecideKeeps ==
    ASSUME IInv, NEW c \in Recs, Decide(c) PROVE IInv'
  <1>1. PICK s \in Decisions : rec' = [rec EXCEPT ![c].status = s]
    BY DEF Decide
  <1>2. /\ Known(c) /\ rec[c] \in Recommendation
        /\ rec \in [Recs -> Recommendation \cup {NoRec}] /\ task' = task
    BY RecFields DEF Decide, IInv, TypeOK
  <1>3. s \in {"ACCEPTED", "DISMISSED"}
    BY LoopAssumption
  <1> DEFINE row == [rec[c] EXCEPT !.status = s]
  <1>4. /\ row \in Recommendation
        /\ row.baseline = rec[c].baseline /\ row.direction = rec[c].direction
        /\ row.result = rec[c].result /\ row.observed = rec[c].observed
    BY <1>2, <1>3 DEF Recommendation
  <1>5. rec' = [rec EXCEPT ![c] = row] /\ row # NoRec
    BY <1>1, <1>4, NoRecIsNoRow
  <1> HIDE DEF row
  <1>6. \A r \in Recs : /\ rec'[r] = IF r = c THEN row ELSE rec[r]
                        /\ rec'[r] # NoRec <=> Known(r)
    BY <1>2, <1>5 DEF Known
  <1>7. TypeOK'
    BY <1>2, <1>4, <1>5 DEF Decide, IInv, TypeOK
  <1>8. Separate' /\ CyclesHaveRuns'
    BY <1>2, <1>6 DEF IInv, Separate, CyclesHaveRuns, Known
  <1>9. GradesSound'
    <2> SUFFICES ASSUME NEW w \in Workers
                 PROVE  /\ LocksFit(task[w])
                        /\ \A r \in task[w].due :
                              rec'[r] # NoRec /\ Explained(rec'[r], task[w].grades[r])
      BY <1>2 DEF GradesSound, Known, LocksFit
    <2>1. LocksFit(task[w]) /\ task[w].due \subseteq Recs
      BY TaskFields DEF IInv, GradesSound
    <2>2. ASSUME NEW r \in task[w].due
          PROVE  rec'[r] # NoRec /\ Explained(rec'[r], task[w].grades[r])
      <3>1. Known(r) /\ Explained(rec[r], task[w].grades[r])
        BY DEF IInv, GradesSound
      <3>2. /\ rec'[r] # NoRec
            /\ rec'[r].baseline = rec[r].baseline /\ rec'[r].direction = rec[r].direction
        BY <1>4, <1>6, <2>1, <3>1
      <3> QED BY <3>1, <3>2, SamePrediction
    <2> QED BY <2>1, <2>2
  <1>10. GradeIsExplained'
    <2> SUFFICES ASSUME NEW r \in Recs, Known(r)
                 PROVE  Explained(rec'[r], rec'[r])
      BY <1>6 DEF GradeIsExplained, Known
    <2>1. Explained(rec[r], rec[r])
      BY DEF IInv, GradeIsExplained
    <2>2. CASE r = c
      BY <1>4, <1>6, <2>1, <2>2 DEF Explained
    <2>3. CASE r # c
      BY <1>6, <2>1, <2>3
    <2> QED BY <2>2, <2>3
  <1> QED BY <1>7, <1>8, <1>9, <1>10 DEF IInv

-----------------------------------------------------------------------------
(* The invariant *)

(* The invariant is inductive.                                               *)
LEMMA StepInv ==
    ASSUME IInv, [Next]_vars PROVE IInv'
  <1>1. CASE Tick
    <2>1. today' \in Days
      BY <1>1, LoopAssumption DEF Tick, IInv, TypeOK, Days
    <2>2. TypeOK'
      BY <1>1, <2>1 DEF Tick, IInv, TypeOK, history
    <2> QED BY <1>1, <2>2 DEF Tick, IInv, Separate, GradesSound, LocksFit, CyclesHaveRuns,
                              GradeIsExplained, Known
  <1>2. CASE Discover
    BY <1>2 DEF Discover, IInv, TypeOK, Keys, Separate, GradesSound, LocksFit,
                CyclesHaveRuns, GradeIsExplained, Known, history
  <1>3. CASE \E r \in Recs : Decide(r)
    BY <1>3, DecideKeeps
  <1>4. ASSUME NEW w \in Workers,
               \/ Start(w) \/ StartVerify(w) \/ Step(w)
               \/ RefreshToken(w) \/ Recommend(w)
               \/ Duplicate(w) \/ Fail(w) \/ Crash(w)
        PROVE  IInv'
    BY <1>4, StartKeeps, MovesKeep, InsertKeeps, LossesKeep, ReasonKeeps, RefreshKeeps,
       RecommendKeeps, VerifyKeeps, FlushKeeps, EndsKeep DEF Step
  <1>5. CASE UNCHANGED vars
    BY <1>5 DEF vars, IInv, TypeOK, Separate, GradesSound, LocksFit, CyclesHaveRuns,
                GradeIsExplained, Known, history
  <1> QED BY <1>1, <1>2, <1>3, <1>4, <1>5 DEF Next

(* Every behaviour keeps the invariant.                                      *)
LEMMA Invariance == Spec => []IInv
  <1>1. Init => IInv
    BY InitInv
  <1>2. IInv /\ [Next]_vars => IInv'
    BY StepInv
  <1> QED BY <1>1, <1>2, PTL DEF Spec

(* Every table, task and counter of the cycle keeps its type, whatever       *)
(* cycles, graders and users do and whatever fails.                          *)
THEOREM Typing == Spec => []TypeOK
  <1>1. IInv => TypeOK
    BY DEF IInv
  <1> QED BY <1>1, Invariance, PTL

(* grade_prediction's verdicts stay true of their rows: when several graders *)
(* that read a row at different times write it one after the other, and the  *)
(* user decides on it in between, a confirmed prediction still goes with the *)
(* observed move it foretold and a refuted one with another.                 *)
THEOREM VerdictsExplained == Spec => []GradeIsExplained
  <1>1. IInv => GradeIsExplained
    BY DEF IInv
  <1> QED BY <1>1, Invariance, PTL

-----------------------------------------------------------------------------
(* Grades are final *)

(* Advice a grader holds is not graded yet, and no other grader holds it,    *)
(* unless two of them read it at once.                                       *)
Contention ==
    \A w \in Workers : \A r \in task[w].due : r \notin contended =>
        /\ rec[r].result = "PENDING"
        /\ \A v \in Workers \ {w} : r \notin task[v].due

(* Who writes the table: the user, and commits; grades are written when the  *)
(* task ends.                                                                *)
LEMMA Writers ==
    ASSUME IInv, Next
    PROVE  \/ rec' = rec
           \/ \E c \in Recs : Decide(c)
           \/ \E w \in Workers : \E rows \in SUBSET task[w].due :
                 /\ rec' = RecAfter(w, rows)
                 /\ rows = {} \/ task' = [task EXCEPT ![w] = Idle]
  <1>1. CASE Tick \/ Discover
    BY <1>1 DEF Tick, Discover
  <1>2. ASSUME NEW w \in Workers,
               \/ Start(w) \/ StartVerify(w) \/ Collect(w) \/ Insert(w) \/ Conflict(w)
               \/ Classify(w) \/ Reason(w) \/ Act(w) \/ Verify(w) \/ Flush(w)
               \/ Recommend(w) \/ Duplicate(w) \/ Crash(w)
        PROVE  rec' = rec
    BY <1>2 DEF Start, StartVerify, Collect, Insert, Conflict, Classify, Reason, Act, Verify,
                Flush, Recommend, Duplicate, Crash, RollBack
  <1>3. ASSUME NEW w \in Workers, RefreshToken(w)
        PROVE  \E rows \in SUBSET task[w].due : rec' = RecAfter(w, rows) /\ rows = {}
    BY <1>3 DEF RefreshToken
  <1>4. ASSUME NEW w \in Workers, Report(w) \/ Fail(w)
        PROVE  \E rows \in SUBSET task[w].due :
                  rec' = RecAfter(w, rows) /\ task' = [task EXCEPT ![w] = Idle]
    <2>1. task[w].locked \in SUBSET task[w].due
      BY DEF IInv, GradesSound, LocksFit
    <2> QED BY <1>4, <2>1 DEF Report, Fail, End
  <1> QED BY <1>1, <1>2, <1>3, <1>4 DEF Next, Step

(* Only grade_due puts advice into a grader's hands.                         *)
LEMMA Holders ==
    ASSUME IInv, [Next]_vars, \A w \in Workers : ~Verify(w)
    PROVE  /\ contended' = contended
           /\ \A v \in Workers : task'[v].due \in {task[v].due, {}}
  <1>1. /\ task \in [Workers -> Task] /\ Idle.due = {}
        /\ \A v \in Workers : task[v] \in Task
    BY DEF IInv, TypeOK, Idle
  <1>2. CASE UNCHANGED vars
    BY <1>2 DEF vars, history
  <1>3. CASE Tick \/ Discover \/ \E r \in Recs : Decide(r)
    BY <1>3 DEF Tick, Discover, Decide, history
  <1>4. ASSUME NEW w \in Workers,
               \/ Start(w) \/ StartVerify(w) \/ Collect(w) \/ Classify(w) \/ Act(w)
               \/ Insert(w) \/ Reason(w) \/ Flush(w) \/ RefreshToken(w) \/ Recommend(w)
        PROVE  /\ contended' = contended
               /\ \A v \in Workers : task'[v].due = task[v].due
    <2>1. contended' = contended
      BY <1>4 DEF Start, StartVerify, Collect, Classify, Act, Insert, Reason, Flush,
                  RefreshToken, Recommend, history
    <2>2. ASSUME NEW t, t.due = task[w].due, task' = [task EXCEPT ![w] = t]
          PROVE  \A v \in Workers : task'[v].due = task[v].due
      BY <1>1, <2>2
    <2> SUFFICES \E t : t.due = task[w].due /\ task' = [task EXCEPT ![w] = t]
      BY <2>1, <2>2
    <2>3. ASSUME NEW pc, GoOn(w, pc)
          PROVE  \E t : t.due = task[w].due /\ task' = [task EXCEPT ![w] = t]
      <3>1. [task[w] EXCEPT !.pc = pc].due = task[w].due
        BY <1>1 DEF Task
      <3>2. task' = [task EXCEPT ![w] = [task[w] EXCEPT !.pc = pc]]
        BY <2>3 DEF GoOn
      <3> QED BY <3>1, <3>2
    <2>4. CASE StartVerify(w) \/ Collect(w) \/ Classify(w) \/ Act(w)
      BY <2>3, <2>4 DEF StartVerify, Collect, Classify, Act
    <2>5. CASE Start(w)
      <3>1. PICK n \in Runs : task' = [task EXCEPT ![w] = [task[w] EXCEPT !.pc = "collect", !.run = n]]
        BY <1>1, <2>5 DEF Start
      <3>2. [task[w] EXCEPT !.pc = "collect", !.run = n].due = task[w].due
        BY <1>1 DEF Task
      <3> QED BY <3>1, <3>2
    <2>6. CASE Insert(w)
      <3> DEFINE t == [task[w] EXCEPT !.pc = After[task[w].pc], !.holds = @ \cup {KeyOf[task[w].pc]}]
      <3>1. task' = [task EXCEPT ![w] = t]
        BY <2>6 DEF Insert
      <3>2. t.due = task[w].due
        BY <1>1 DEF Task
      <3> HIDE DEF t
      <3> QED BY <3>1, <3>2
    <2>7. ASSUME NEW s, task' = [task EXCEPT ![w].pc = "verify", ![w].status = s]
          PROVE  \E t : t.due = task[w].due /\ task' = [task EXCEPT ![w] = t]
      <3> DEFINE t == [task[w] EXCEPT !.pc = "verify", !.status = s]
      <3>1. task' = [task EXCEPT ![w] = t]
        BY <2>7
      <3>2. t.due = task[w].due
        BY <1>1 DEF Task
      <3> HIDE DEF t
      <3> QED BY <3>1, <3>2
    <2>8. CASE Reason(w)
      BY <2>3, <2>7, <2>8 DEF Reason
    <2>9. CASE Flush(w)
      <3> DEFINE t == [task[w] EXCEPT !.pc = "report", !.locked = task[w].due]
      <3>1. task' = [task EXCEPT ![w] = t]
        BY <2>9 DEF Flush
      <3>2. t.due = task[w].due
        BY <1>1 DEF Task
      <3> HIDE DEF t
      <3> QED BY <3>1, <3>2
    <2>10. CASE RefreshToken(w)
      <3> DEFINE t == [task[w] EXCEPT !.holds = {}, !.new = Idle.new]
      <3>1. task' = [task EXCEPT ![w] = t]
        BY <2>10 DEF RefreshToken
      <3>2. t.due = task[w].due
        BY <1>1 DEF Task
      <3> HIDE DEF t
      <3> QED BY <3>1, <3>2
    <2>11. CASE Recommend(w)
      <3>1. PICK c, row : task' = [task EXCEPT ![w].new[c] = row]
        BY <2>11 DEF Recommend
      <3> DEFINE t == [task[w] EXCEPT !.new = [@ EXCEPT ![c] = row]]
      <3>2. task' = [task EXCEPT ![w] = t]
        BY <3>1
      <3>3. t.due = task[w].due
        BY <1>1 DEF Task
      <3> HIDE DEF t
      <3> QED BY <3>2, <3>3
    <2> QED BY <1>4, <2>4, <2>5, <2>6, <2>8, <2>9, <2>10, <2>11
  <1>5. ASSUME NEW w \in Workers,
               Conflict(w) \/ Duplicate(w) \/ Crash(w) \/ Report(w) \/ Fail(w)
        PROVE  /\ contended' = contended
               /\ task' = [task EXCEPT ![w] = Idle]
    BY <1>5 DEF Conflict, Duplicate, Crash, Report, Fail, RollBack, End, history
  <1> QED BY <1>1, <1>2, <1>3, <1>4, <1>5 DEF Next, Step

(* What a step does to a grade that is final.                                *)
LEMMA GradeKept ==
    ASSUME IInv, Contention, [Next]_vars, NEW r \in Recs, Known(r),
           rec[r].result # "PENDING", r \notin contended
    PROVE  rec'[r].result = rec[r].result /\ rec'[r].observed = rec[r].observed
  <1>1. rec[r] \in Recommendation /\ rec \in [Recs -> Recommendation \cup {NoRec}]
    BY RecFields DEF IInv, TypeOK
  <1>2. CASE rec' = rec
    BY <1>2
  <1>3. CASE \E c \in Recs : Decide(c)
    BY <1>1, <1>3 DEF Decide, Recommendation
  <1>4. ASSUME NEW w \in Workers, NEW rows \in SUBSET task[w].due, rec' = RecAfter(w, rows)
        PROVE  rec'[r] = rec[r]
    <2>1. task[w].new[r] = NoRec
      BY DEF IInv, Separate
    <2>2. r \notin rows
      BY DEF Contention
    <2> QED BY <1>4, <2>1, <2>2 DEF RecAfter
  <1> QED BY <1>2, <1>3, <1>4, Writers DEF vars

(* Contention is inductive, given the invariant.                             *)
LEMMA ContentionStep ==
    ASSUME IInv, Contention, [Next]_vars PROVE Contention'
  <1>1. ASSUME NEW w \in Workers, Verify(w)
        PROVE  Contention'
    <2>1. /\ task \in [Workers -> Task] /\ task[w] \in Task /\ rec' = rec
          /\ contended' = contended \cup {r \in Due : \E v \in Workers \ {w} : r \in task[v].due}
      BY <1>1 DEF Verify, IInv, TypeOK
    <2>2. task'[w].due = Due /\ \A v \in Workers \ {w} : task'[v] = task[v]
      <3>1. PICK pc, grades : task' = [task EXCEPT
                ![w].pc = pc, ![w].due = Due, ![w].grades = grades]
        BY <1>1 DEF Verify
      <3> DEFINE t == [task[w] EXCEPT !.pc = pc, !.due = Due, !.grades = grades]
      <3>2. task' = [task EXCEPT ![w] = t]
        BY <3>1
      <3>3. t.due = Due
        BY <2>1 DEF Task
      <3> HIDE DEF t
      <3> QED BY <2>1, <3>2, <3>3
    <2>3. \A r \in Due : rec[r].result = "PENDING"
      BY DEF Due
    <2>4. ASSUME NEW u \in Workers, NEW r \in task'[u].due, r \notin contended'
          PROVE  /\ rec'[r].result = "PENDING"
                 /\ \A v \in Workers \ {u} : r \notin task'[v].due
      <3>1. CASE u = w
        BY <2>1, <2>2, <2>3, <2>4, <3>1
      <3>2. CASE u # w
        BY <2>1, <2>2, <2>4, <3>2 DEF Contention
      <3> QED BY <3>1, <3>2
    <2> QED BY <2>4 DEF Contention
  <1>2. ASSUME \A w \in Workers : ~Verify(w)
        PROVE  Contention'
    <2>1. contended' = contended /\ \A v \in Workers : task'[v].due \in {task[v].due, {}}
      BY <1>2, Holders
    <2>2. ASSUME NEW w \in Workers, NEW r \in task'[w].due, r \notin contended
          PROVE  rec'[r].result = "PENDING"
      <3>1. /\ r \in task[w].due /\ r \in Recs /\ Known(r) /\ rec[r].result = "PENDING"
            /\ \A v \in Workers \ {w} : r \notin task[v].due
        BY <2>1, <2>2, TaskFields DEF Contention, IInv, GradesSound
      <3>2. rec[r] \in Recommendation /\ rec \in [Recs -> Recommendation \cup {NoRec}]
            /\ task \in [Workers -> Task] /\ Idle.due = {}
        BY <3>1, RecFields DEF IInv, TypeOK, Idle
      <3>3. CASE \E c \in Recs : Decide(c)
        BY <3>1, <3>2, <3>3 DEF Decide, Recommendation
      <3>4. ASSUME NEW u \in Workers, NEW rows \in SUBSET task[u].due,
                   rec' = RecAfter(u, rows),
                   rows = {} \/ task' = [task EXCEPT ![u] = Idle]
            PROVE  rec'[r] = rec[r]
        <4>1. task[u].new[r] = NoRec
          BY <3>1 DEF IInv, Separate
        <4>2. r \notin rows
          BY <2>2, <3>1, <3>2, <3>4
        <4> QED BY <3>1, <3>4, <4>1, <4>2 DEF RecAfter
      <3> QED BY <3>1, <3>3, <3>4, Writers DEF vars
    <2> QED BY <2>1, <2>2 DEF Contention
  <1> QED BY <1>1, <1>2

(* A grade stands once it is given: no later cycle, no run of the grading    *)
(* task and no decision of the user changes it, unless two graders had read  *)
(* the advice before either committed.                                       *)
THEOREM GradesAreFinal == Spec => GradeIsFinal
  <1>1. Init => Contention
    BY DEF Init, Contention, Idle
  <1>2. IInv /\ Contention /\ [Next]_vars => Contention'
    BY ContentionStep
  <1>3. IInv /\ Contention /\ [Next]_vars =>
          [\A r \in Recs : Known(r) /\ rec[r].result # "PENDING" /\ r \notin contended =>
             rec'[r].result = rec[r].result /\ rec'[r].observed = rec[r].observed]_vars
    BY GradeKept
  <1> QED BY <1>1, <1>2, <1>3, Invariance, PTL DEF Spec, GradeIsFinal

-----------------------------------------------------------------------------
(* Runs and their advice *)

(* What a task has written fits its stage: it advises only while its run     *)
(* goes well, and nothing of what it advised is there when a token can be    *)
(* refreshed.                                                                *)
Shape(t) ==
    /\ t.pc = "idle" => t = Idle
    /\ t.pc \in CycleStages => t.status = "RUNNING"
    /\ \A r \in Recs : t.new[r] # NoRec =>
          /\ t.new[r].run = t.run /\ t.run \in Runs /\ t.status = "RUNNING"
          /\ t.pc \in {"recommend", "verify", "grade", "report"}

Shaped == \A w \in Workers : Shape(task[w])

(* The run of a task that goes on has no final status, and is no other       *)
(* task's.                                                                   *)
Unfinished ==
    \A w \in Workers : task[w].run # NoRun =>
        /\ runs[task[w].run] \in {"none", "RUNNING"}
        /\ \A v \in Workers \ {w} : task[v].run # task[w].run

(* What a step of worker w does to runs, when it leaves its task as t.       *)
GoesOn(w, t) ==
    /\ t.run = task[w].run
    /\ runs' = runs /\ rec' = rec /\ excused' = excused

Begins(w, t) ==
    /\ task[w].run = NoRun /\ t.run \in Runs /\ Fresh(t.run)
    /\ runs' = runs /\ rec' = rec /\ excused' = excused

GivesUp(w, t) ==
    /\ t = Idle
    /\ runs' = runs /\ rec' = rec
    /\ excused' = excused \cup ({task[w].run} \ {NoRun})

ShowsItself(w, t) ==
    /\ t.run = task[w].run /\ t.run # NoRun
    /\ runs' = [runs EXCEPT ![t.run] = "RUNNING"]
    /\ rec' = rec /\ excused' = excused

EndsAs(w, t, status) ==
    /\ t = Idle /\ status # "RUNNING"
    /\ \A r \in Recs : task[w].new[r] # NoRec => status \in {"COMPLETED", "FAILED"}
    /\ runs' = IF task[w].run = NoRun THEN runs ELSE [runs EXCEPT ![task[w].run] = status]
    /\ \E rows \in SUBSET task[w].due : rec' = RecAfter(w, rows)
    /\ excused' = excused

Ends(w, t) == \E status \in RunStatus : EndsAs(w, t, status)

(* A step keeps the verdicts a grader has in hand, or drops them.            *)
KeepsGrades(w, t) == t.due = {} \/ (t.due = task[w].due /\ t.grades = task[w].grades)

WorkerStep(w, t) ==
    /\ t \in Task /\ Shape(t)
    /\ task' = [task EXCEPT ![w] = t]
    /\ GoesOn(w, t) \/ Begins(w, t) \/ GivesUp(w, t) \/ ShowsItself(w, t) \/ Ends(w, t)
    /\ Verify(w) \/ (KeepsGrades(w, t) /\ tardy' = tardy)

Works(w) == \E t : WorkerStep(w, t)

(* The null task.                                                            *)
LEMMA IdleFits ==
    /\ Idle \in Task /\ Shape(Idle)
    /\ Idle.due = {} /\ Idle.run = NoRun /\ \A r \in Recs : Idle.new[r] = NoRec
  <1>1. Idle \in Task
    BY DEF Idle, Task, Stages, Inserting, Runs, NoRun, RunStatus, Keys, Grades, NoGrade,
           Results, Observed, Moves
  <1>2. Idle.due = {} /\ Idle.run = NoRun /\ \A r \in Recs : Idle.new[r] = NoRec
    BY DEF Idle
  <1>3. Idle.pc = "idle"
    BY DEF Idle
  <1> QED BY <1>1, <1>2, <1>3 DEF Shape, CycleStages, Stages, Inserting

(* A task that has advised nothing, or goes on after the advice.             *)
LEMMA ShapeOf ==
    ASSUME NEW t, t.pc \in Stages,
           t.pc \in CycleStages => t.status = "RUNNING",
           \/ \A r \in Recs : t.new[r] = NoRec
           \/ /\ t.pc \in {"recommend", "verify", "grade", "report"}
              /\ t.status = "RUNNING" /\ t.run \in Runs
              /\ \A r \in Recs : t.new[r] # NoRec => t.new[r].run = t.run
    PROVE  Shape(t)
  BY DEF Shape, Stages, Inserting

(* What a task in hand has advised.                                          *)
LEMMA Advised ==
    ASSUME NEW t, Shape(t)
    PROVE  \/ \A r \in Recs : t.new[r] = NoRec
           \/ /\ t.pc \in {"recommend", "verify", "grade", "report"}
              /\ t.status = "RUNNING" /\ t.run \in Runs
              /\ \A r \in Recs : t.new[r] # NoRec => t.new[r].run = t.run
  BY DEF Shape

(* A task that moves to a later stage.                                       *)
LEMMA MovesShape ==
    ASSUME IInv, Shaped, NEW w \in Workers, NEW pc \in Stages,
           pc \in CycleStages => task[w].pc \in CycleStages,
           \/ pc \in {"recommend", "verify", "grade", "report"}
           \/ task[w].pc \notin {"recommend", "verify", "grade", "report"},
           GoOn(w, pc), UNCHANGED <<today, runs, rec, stored, history, faults>>
    PROVE  Works(w)
  <1> DEFINE t == [task[w] EXCEPT !.pc = pc]
  <1>1. task[w] \in Task /\ Shape(task[w])
    BY TaskFields DEF IInv, Shaped
  <1>2. t \in Task
    BY <1>1 DEF Task
  <1>3. task' = [task EXCEPT ![w] = t]
    BY DEF GoOn
  <1>4. /\ t.pc = pc /\ t.run = task[w].run /\ t.status = task[w].status
        /\ t.due = task[w].due /\ t.new = task[w].new /\ t.grades = task[w].grades
    BY <1>1 DEF Task
  <1> HIDE DEF t
  <1>5. t.pc \in CycleStages => t.status = "RUNNING"
    BY <1>1, <1>4 DEF Shape
  <1>6. Shape(t)
    BY <1>1, <1>4, <1>5, Advised, ShapeOf
  <1>7. GoesOn(w, t) /\ KeepsGrades(w, t) /\ tardy' = tardy
    BY <1>4 DEF GoesOn, KeepsGrades, history
  <1> QED BY <1>2, <1>3, <1>6, <1>7 DEF Works, WorkerStep

(* OBSERVE: a cycle begins.                                                  *)
LEMMA StartWorks ==
    ASSUME IInv, Shaped, NEW w \in Workers, Start(w) PROVE Works(w)
  <1>1. PICK n \in Runs : Fresh(n) /\ task' = [task EXCEPT ![w].pc = "collect", ![w].run = n]
    BY DEF Start
  <1> DEFINE t == [task[w] EXCEPT !.pc = "collect", !.run = n]
  <1>2. task[w] = Idle /\ task[w] \in Task
    BY TaskFields DEF IInv, Shaped, Shape, Start
  <1>3. t \in Task
    BY <1>2 DEF Task, Stages
  <1>4. task' = [task EXCEPT ![w] = t]
    BY <1>1, <1>2 DEF IInv, TypeOK
  <1>5. /\ t.pc = "collect" /\ t.run = n /\ t.status = task[w].status
        /\ t.due = task[w].due /\ t.new = task[w].new /\ t.grades = task[w].grades
    BY <1>2 DEF Task
  <1> HIDE DEF t
  <1>6. Idle.status = "RUNNING"
    BY DEF Idle
  <1>7. t.pc \in Stages /\ \A r \in Recs : t.new[r] = NoRec
    BY <1>2, <1>5, IdleFits DEF Stages
  <1>8. Shape(t)
    BY <1>2, <1>5, <1>6, <1>7, ShapeOf
  <1>9. Begins(w, t) /\ KeepsGrades(w, t) /\ tardy' = tardy
    BY <1>1, <1>2, <1>5, IdleFits DEF Begins, KeepsGrades, Start, history
  <1> QED BY <1>3, <1>4, <1>8, <1>9 DEF Works, WorkerStep

(* COLLECT, classification and REASON, as far as they only move on.          *)
LEMMA MovesWork ==
    ASSUME IInv, Shaped, NEW w \in Workers,
           Collect(w) \/ Classify(w) \/ Act(w) \/ StartVerify(w)
    PROVE  Works(w)
  <1>1. PICK pc \in Stages :
           /\ GoOn(w, pc) /\ UNCHANGED <<today, runs, rec, stored, history, faults>>
           /\ pc \in CycleStages => task[w].pc \in CycleStages
           /\ \/ pc \in {"recommend", "verify", "grade", "report"}
              \/ task[w].pc \notin {"recommend", "verify", "grade", "report"}
    BY DEF Collect, Classify, Act, StartVerify, Stages, CycleStages, Inserting
  <1> QED BY <1>1, MovesShape

(* The flush of an INSERT.                                                   *)
LEMMA InsertWorks ==
    ASSUME IInv, Shaped, NEW w \in Workers, Insert(w) PROVE Works(w)
  <1> DEFINE k == KeyOf[task[w].pc]
             t == [task[w] EXCEPT !.pc = After[task[w].pc], !.holds = @ \cup {k}]
  <1>1. task[w] \in Task /\ Shape(task[w])
    BY TaskFields DEF IInv, Shaped
  <1>2. k \in Keys /\ After[task[w].pc] \in {"classify", "reason"}
        /\ task[w].pc \in CycleStages
        /\ task[w].pc \notin {"recommend", "verify", "grade", "report"}
    BY DEF Insert, Inserting, KeyOf, After, Keys, CycleStages, Stages
  <1>3. t \in Task
    BY <1>1, <1>2 DEF Task, Stages
  <1>4. task' = [task EXCEPT ![w] = t]
    BY DEF Insert
  <1>5. /\ t.pc = After[task[w].pc] /\ t.run = task[w].run /\ t.status = task[w].status
        /\ t.due = task[w].due /\ t.new = task[w].new /\ t.grades = task[w].grades
    BY <1>1 DEF Task
  <1> HIDE DEF t
  <1>6. t.pc \in Stages /\ t.status = "RUNNING"
    BY <1>1, <1>2, <1>5 DEF Shape, Stages
  <1>7. \A r \in Recs : t.new[r] = NoRec
    BY <1>1, <1>2, <1>5, Advised
  <1>8. Shape(t)
    BY <1>6, <1>7, ShapeOf
  <1>9. GoesOn(w, t) /\ KeepsGrades(w, t) /\ tardy' = tardy
    BY <1>5 DEF GoesOn, KeepsGrades, Insert, history
  <1> QED BY <1>3, <1>4, <1>8, <1>9 DEF Works, WorkerStep

(* Losing a cycle to a unique constraint, or to a crash.                     *)
LEMMA LossesWork ==
    ASSUME IInv, Shaped, NEW w \in Workers, Conflict(w) \/ Duplicate(w) \/ Crash(w)
    PROVE  Works(w)
  <1>1. task[w].pc \in Inserting => task[w].run \in Runs
    BY DEF IInv, CyclesHaveRuns, CycleStages, Stages, Inserting
  <1>2. task[w].pc \in Inserting => task[w].run # NoRun
    BY <1>1 DEF Runs, NoRun
  <1>3. RollBack(w) /\ tardy' = tardy
    BY DEF Conflict, Duplicate, Crash
  <1>4. excused' = excused \cup ({task[w].run} \ {NoRun})
    BY <1>2 DEF Conflict, Duplicate, Crash, Inserting
  <1>5. GivesUp(w, Idle) /\ KeepsGrades(w, Idle) /\ task' = [task EXCEPT ![w] = Idle]
    BY <1>3, <1>4, IdleFits DEF GivesUp, KeepsGrades, RollBack
  <1> QED BY <1>3, <1>5, IdleFits DEF Works, WorkerStep

(* REASON, with or without a model.                                          *)
LEMMA ReasonWorks ==
    ASSUME IInv, Shaped, NEW w \in Workers, Reason(w) PROVE Works(w)
  <1>1. CASE GoOn(w, "recommend")
    <2>1. "recommend" \in Stages /\ task[w].pc \in CycleStages
      BY DEF Reason, Stages, CycleStages, Inserting
    <2> QED BY <1>1, <2>1, MovesShape DEF Reason
  <1>2. ASSUME NEW s \in {"SKIPPED", "PARTIAL"},
               task' = [task EXCEPT ![w].pc = "verify", ![w].status = s]
        PROVE  Works(w)
    <2> DEFINE t == [task[w] EXCEPT !.pc = "verify", !.status = s]
    <2>1. task[w] \in Task /\ Shape(task[w])
      BY TaskFields DEF IInv, Shaped
    <2>2. t \in Task
      BY <2>1 DEF Task, Stages, RunStatus
    <2>3. task' = [task EXCEPT ![w] = t]
      BY <1>2
    <2>4. /\ t.pc = "verify" /\ t.run = task[w].run
          /\ t.due = task[w].due /\ t.new = task[w].new /\ t.grades = task[w].grades
      BY <2>1 DEF Task
    <2> HIDE DEF t
    <2>5. \A r \in Recs : t.new[r] = NoRec
      BY <2>1, <2>4, Advised DEF Reason
    <2>6. t.pc \in Stages /\ t.pc \notin CycleStages
      BY <2>4 DEF Stages, CycleStages
    <2>7. Shape(t)
      BY <2>5, <2>6, ShapeOf
    <2>8. GoesOn(w, t) /\ KeepsGrades(w, t) /\ tardy' = tardy
      BY <2>4 DEF GoesOn, KeepsGrades, Reason, history
    <2> QED BY <2>2, <2>3, <2>7, <2>8 DEF Works, WorkerStep
  <1> QED BY <1>1, <1>2 DEF Reason

(* A commit that has no grades to write.                                     *)
LEMMA NothingWritten ==
    ASSUME TypeOK, NEW w \in Workers, \A r \in Recs : task[w].new[r] = NoRec
    PROVE  RecAfter(w, {}) = rec
  <1>1. rec = [r \in Recs |-> rec[r]]
    BY DEF TypeOK
  <1> QED BY <1>1 DEF RecAfter

(* COLLECT commits half way: the run, and no advice.                         *)
LEMMA RefreshWorks ==
    ASSUME IInv, Shaped, NEW w \in Workers, RefreshToken(w) PROVE Works(w)
  <1> DEFINE t == [task[w] EXCEPT !.holds = {}, !.new = Idle.new]
  <1>1. task[w] \in Task /\ Shape(task[w]) /\ task[w].pc = "collect"
    BY TaskFields DEF IInv, Shaped, RefreshToken, TokenStages
  <1>2. t \in Task
    <2>1. Idle.new = [r \in Recs |-> NoRec]
      BY DEF Idle
    <2>2. Idle.new \in [Recs -> Recommendation \cup {NoRec}]
      BY <2>1
    <2> HIDE DEF t
    <2>3. t = [task[w] EXCEPT !.holds = {}, !.new = Idle.new]
      BY DEF t
    <2> QED BY <1>1, <2>2, <2>3 DEF Task
  <1>3. task' = [task EXCEPT ![w] = t] /\ rec' = RecAfter(w, {})
    BY DEF RefreshToken
  <1>4. /\ t.pc = task[w].pc /\ t.run = task[w].run /\ t.status = task[w].status
        /\ t.due = task[w].due /\ t.new = Idle.new /\ t.grades = task[w].grades
    BY <1>1 DEF Task
  <1> HIDE DEF t
  <1>5. \A r \in Recs : task[w].new[r] = NoRec
    BY <1>1, Advised
  <1>6. rec' = rec
    BY <1>3, <1>5, NothingWritten DEF IInv
  <1>7. task[w].pc \in CycleStages
    BY <1>1 DEF CycleStages, Stages
  <1>8. task[w].status = "RUNNING"
    BY <1>1, <1>7 DEF Shape
  <1>9. t.pc \in Stages /\ \A r \in Recs : t.new[r] = NoRec
    BY <1>1, <1>4, IdleFits DEF Stages
  <1>10. Shape(t)
    BY <1>4, <1>8, <1>9, ShapeOf
  <1>11. ShowsItself(w, t) /\ KeepsGrades(w, t) /\ tardy' = tardy
    BY <1>4, <1>6, <1>8 DEF ShowsItself, KeepsGrades, RefreshToken, history
  <1> QED BY <1>2, <1>3, <1>10, <1>11 DEF Works, WorkerStep

(* A recommendation is stored, under the task's run.                         *)
LEMMA RecommendWorks ==
    ASSUME IInv, Shaped, NEW w \in Workers, Recommend(w) PROVE Works(w)
  <1>1. PICK c \in Recs, p \in Proposals, n \in VerifyAfter :
          /\ task' = [task EXCEPT ![w].new[c] =
               [run |-> task[w].run, status |-> "PROPOSED", direction |-> p.direction,
                baseline |-> p.baseline,
                verifyAfter |-> today + n, result |-> "PENDING", observed |-> "null"]]
    BY DEF Recommend
  <1> DEFINE row == [run |-> task[w].run, status |-> "PROPOSED", direction |-> p.direction,
                     baseline |-> p.baseline,
                     verifyAfter |-> today + n, result |-> "PENDING", observed |-> "null"]
             t == [task[w] EXCEPT !.new = [@ EXCEPT ![c] = row]]
  <1>2. /\ task[w] \in Task /\ Shape(task[w]) /\ task[w].run \in Runs
        /\ task[w].new \in [Recs -> Recommendation \cup {NoRec}]
        /\ task[w].pc = "recommend" /\ task[w].status = "RUNNING"
    <2>1. task[w].pc \in CycleStages /\ task[w].pc = "recommend"
      BY DEF Recommend, CycleStages, Stages, Inserting
    <2> QED BY <2>1, TaskFields DEF IInv, CyclesHaveRuns, Shaped, Shape
  <1>3. row \in Recommendation
    <2>1. p.direction \in Directions /\ p.baseline \in BOOLEAN /\ n \in Nat
      BY LoopAssumption DEF Proposal
    <2>2. today + n \in Nat
      BY <2>1 DEF IInv, TypeOK, Days
    <2> QED BY <1>2, <2>1, <2>2 DEF Recommendation, Results, Observed
  <1>4. [task[w].new EXCEPT ![c] = row] \in [Recs -> Recommendation \cup {NoRec}]
    BY <1>2, <1>3
  <1>5. t \in Task
    BY <1>2, <1>4 DEF Task
  <1>6. task' = [task EXCEPT ![w] = t]
    BY <1>1
  <1>7. /\ t.pc = task[w].pc /\ t.run = task[w].run /\ t.status = task[w].status
        /\ t.due = task[w].due /\ t.grades = task[w].grades
        /\ t.new = [task[w].new EXCEPT ![c] = row]
    BY <1>2 DEF Task
  <1>8. row.run = task[w].run
    OBVIOUS
  <1> HIDE DEF t, row
  <1>9. ASSUME NEW r \in Recs, t.new[r] # NoRec
        PROVE  t.new[r].run = t.run
    <2>1. CASE r = c
      BY <1>2, <1>7, <1>8, <2>1
    <2>2. CASE r # c
      BY <1>2, <1>7, <1>9, <2>2 DEF Shape
    <2> QED BY <2>1, <2>2
  <1>10. Shape(t)
    <2>1. t.pc \in Stages
      BY <1>2, <1>7 DEF Stages
    <2> QED BY <1>2, <1>7, <1>9, <2>1, ShapeOf
  <1>11. GoesOn(w, t) /\ KeepsGrades(w, t) /\ tardy' = tardy
    BY <1>7 DEF GoesOn, KeepsGrades, Recommend, history
  <1> QED BY <1>5, <1>6, <1>10, <1>11 DEF Works, WorkerStep

(* VERIFY, and the flush of the grades.                                      *)
LEMMA GradingWorks ==
    ASSUME IInv, Shaped, NEW w \in Workers, Verify(w) \/ Flush(w) PROVE Works(w)
  <1>1. task[w] \in Task /\ Shape(task[w]) /\ task[w].pc \in {"verify", "grade"}
    BY TaskFields DEF IInv, Shaped, Verify, Flush
  <1>2. CASE Verify(w)
    <2>0. PICK m \in [Due -> Measurements] :
            task' = [task EXCEPT
               ![w].pc     = IF Due = {} THEN "report" ELSE "grade",
               ![w].due    = Due,
               ![w].grades = [r \in Recs |-> IF r \in Due THEN Grade(rec[r], m[r]) ELSE NoGrade]]
      BY <1>2 DEF Verify
    <2> DEFINE pc == IF Due = {} THEN "report" ELSE "grade"
               grades == [r \in Recs |-> IF r \in Due THEN Grade(rec[r], m[r]) ELSE NoGrade]
    <2>1. /\ pc \in {"report", "grade"}
          /\ task' = [task EXCEPT ![w].pc = pc, ![w].due = Due, ![w].grades = grades]
      BY <2>0
    <2> HIDE DEF pc, grades
    <2> DEFINE t == [task[w] EXCEPT !.pc = pc, !.due = Due, !.grades = grades]
    <2>2. task' = [task EXCEPT ![w] = t] /\ task \in [Workers -> Task]
      BY <2>1 DEF IInv, TypeOK
    <2>3. /\ t.pc = pc /\ t.run = task[w].run /\ t.status = task[w].status
          /\ t.new = task[w].new
      BY <1>1 DEF Task
    <2>4. t \in Task
      <3>1. TypeOK' /\ task'[w] = t
        BY <1>2, <2>2, VerifyKeeps DEF IInv
      <3> HIDE DEF t
      <3> QED BY <3>1 DEF TypeOK
    <2> HIDE DEF t
    <2>5. t.pc \in Stages /\ t.pc \notin CycleStages
      BY <2>1, <2>3 DEF Stages, CycleStages
    <2>6. Shape(t)
      BY <1>1, <2>1, <2>3, <2>5, Advised, ShapeOf
    <2>7. GoesOn(w, t)
      BY <1>2, <2>3 DEF GoesOn, Verify
    <2> QED BY <1>2, <2>2, <2>4, <2>6, <2>7 DEF Works, WorkerStep
  <1>3. CASE Flush(w)
    <2> DEFINE t == [task[w] EXCEPT !.pc = "report", !.locked = task[w].due]
    <2>1. t \in Task
      BY <1>1 DEF Task, Stages
    <2>2. task' = [task EXCEPT ![w] = t]
      BY <1>3 DEF Flush
    <2>3. /\ t.pc = "report" /\ t.run = task[w].run /\ t.status = task[w].status
          /\ t.due = task[w].due /\ t.new = task[w].new /\ t.grades = task[w].grades
      BY <1>1 DEF Task
    <2> HIDE DEF t
    <2>4. t.pc \in Stages /\ t.pc \notin CycleStages
      BY <2>3 DEF Stages, CycleStages
    <2>5. Shape(t)
      BY <1>1, <2>3, <2>4, Advised, ShapeOf
    <2>6. GoesOn(w, t) /\ KeepsGrades(w, t) /\ tardy' = tardy
      BY <1>3, <2>3 DEF GoesOn, KeepsGrades, Flush, history
    <2> QED BY <2>1, <2>2, <2>5, <2>6 DEF Works, WorkerStep
  <1> QED BY <1>2, <1>3

(* REPORT, or the failure of a stage: a run that advised something ends      *)
(* COMPLETED or FAILED.                                                      *)
LEMMA EndsWork ==
    ASSUME IInv, Shaped, NEW w \in Workers, Report(w) \/ Fail(w) PROVE Works(w)
  <1>1. /\ task[w].status \in RunStatus /\ Shape(task[w])
        /\ task[w].locked \in SUBSET task[w].due
    BY TaskFields DEF IInv, GradesSound, LocksFit, Shaped
  <1>2. PICK status \in RunStatus :
          /\ status # "RUNNING"
          /\ \A r \in Recs : task[w].new[r] # NoRec => status \in {"COMPLETED", "FAILED"}
          /\ \E rows \in SUBSET task[w].due : End(w, status, rows)
    <2>1. CASE Report(w)
      <3>1. Final(task[w].status) \in RunStatus /\ Final(task[w].status) # "RUNNING"
        BY <1>1 DEF Final, RunStatus
      <3>2. \A r \in Recs : task[w].new[r] # NoRec => Final(task[w].status) = "COMPLETED"
        BY <1>1 DEF Shape, Final
      <3> QED BY <1>1, <2>1, <3>1, <3>2 DEF Report
    <2>2. CASE Fail(w)
      BY <2>2 DEF Fail, RunStatus
    <2> QED BY <2>1, <2>2
  <1>3. tardy' = tardy /\ excused' = excused
    BY DEF Report, Fail, history
  <1>4. Ends(w, Idle)
    BY <1>2, <1>3 DEF Ends, EndsAs, End
  <1>5. KeepsGrades(w, Idle) /\ task' = [task EXCEPT ![w] = Idle]
    BY <1>2, IdleFits DEF KeepsGrades, End
  <1> QED BY <1>3, <1>4, <1>5, IdleFits DEF Works, WorkerStep

(* Every step of a worker is one of the five kinds.                          *)
LEMMA StepsWork ==
    ASSUME IInv, Shaped, NEW w \in Workers,
           \/ Start(w) \/ StartVerify(w) \/ Step(w)
           \/ RefreshToken(w) \/ Recommend(w)
           \/ Duplicate(w) \/ Fail(w) \/ Crash(w)
    PROVE  Works(w)
  BY StartWorks, MovesWork, InsertWorks, LossesWork, ReasonWorks, RefreshWorks,
     RecommendWorks, GradingWorks, EndsWork DEF Step

-----------------------------------------------------------------------------
(* What the kinds of step do to the runs                                     *)

RunInv == Shaped /\ Unfinished /\ AdviceHasARun /\ RunningIsAlive

(* A step is a worker's, or leaves every task and run alone.                 *)
LEMMA Kinds ==
    ASSUME IInv, Shaped, [Next]_vars
    PROVE  \/ /\ task' = task /\ runs' = runs /\ excused' = excused
              /\ (rec' = rec /\ tardy' = tardy) \/ \E c \in Recs : Decide(c)
           \/ \E w \in Workers : Works(w)
  <1>1. CASE Tick \/ Discover \/ UNCHANGED vars
    BY <1>1 DEF Tick, Discover, vars, history
  <1>2. CASE \E c \in Recs : Decide(c)
    BY <1>2 DEF Decide
  <1>3. CASE \E w \in Workers :
               \/ Start(w) \/ StartVerify(w) \/ Step(w)
               \/ RefreshToken(w) \/ Recommend(w)
               \/ Duplicate(w) \/ Fail(w) \/ Crash(w)
    BY <1>3, StepsWork
  <1> QED BY <1>1, <1>2, <1>3 DEF Next

(* A grade written to a row leaves the row's run and status.                 *)
LEMMA GradedKeeps ==
    ASSUME NEW row \in Recommendation, NEW grade \in Grades
    PROVE  /\ Graded(row, grade).run = row.run
           /\ Graded(row, grade).status = row.status
           /\ Graded(row, grade).result = grade.result
  BY DEF Graded, Recommendation

(* What a row of the table is after a commit.                                *)
LEMMA Committed ==
    ASSUME IInv, NEW w \in Workers, NEW rows \in SUBSET task[w].due, NEW r \in Recs,
           rec' = RecAfter(w, rows), rec'[r] # NoRec
    PROVE  \/ task[w].new[r] # NoRec /\ rec'[r] = task[w].new[r]
           \/ Known(r) /\ rec'[r] = rec[r]
           \/ /\ Known(r) /\ r \in task[w].due
              /\ rec'[r].run = rec[r].run
              /\ rec'[r].status = rec[r].status
              /\ rec'[r].result = task[w].grades[r].result
  <1>1. CASE task[w].new[r] # NoRec
    BY <1>1 DEF RecAfter
  <1>2. CASE task[w].new[r] = NoRec /\ r \in rows
    <2>1. rec'[r] = Graded(rec[r], task[w].grades[r])
      BY <1>2 DEF RecAfter
    <2>2. Known(r) /\ rec[r] \in Recommendation /\ task[w].grades[r] \in Grades
      BY <1>2, TaskFields, RecFields DEF IInv, GradesSound
    <2> QED BY <1>2, <2>1, <2>2, GradedKeeps
  <1>3. CASE task[w].new[r] = NoRec /\ r \notin rows
    BY <1>3 DEF RecAfter, Known
  <1> QED BY <1>1, <1>2, <1>3

(* A row's run is one.                                                       *)
LEMMA RecRun ==
    ASSUME TypeOK, NEW r \in Recs, Known(r) PROVE rec[r].run \in Runs
  BY RecFields DEF Recommendation

(* The invariant after a worker's step.                                      *)
LEMMA WorksKeepsRuns ==
    ASSUME IInv, RunInv, NEW w \in Workers, NEW t, WorkerStep(w, t)
    PROVE  RunInv'
  <1>1. task \in [Workers -> Task] /\ runs \in [Runs -> RunStatus \cup {"none"}]
    BY DEF IInv, TypeOK
  <1>2. task'[w] = t /\ \A v \in Workers \ {w} : task'[v] = task[v]
    BY <1>1 DEF WorkerStep
  <1>3. Shaped'
    BY <1>2 DEF RunInv, Shaped, WorkerStep, Shape
  <1>4. /\ \A v \in Workers : task[v].run # NoRun =>
             /\ runs[task[v].run] \in {"none", "RUNNING"}
             /\ \A u \in Workers \ {v} : task[u].run # task[v].run
        /\ \A r \in Recs : Known(r) => runs[rec[r].run] \in {"COMPLETED", "FAILED"}
        /\ \A r \in Runs : runs[r] = "RUNNING" =>
             r \in excused \/ \E v \in Workers : task[v].run = r
        /\ \A r \in Recs : Known(r) => rec[r].run \in Runs
        /\ \A v \in Workers : task[v].run \in Runs \cup {NoRun}
    BY RecRun, TaskFields DEF RunInv, Unfinished, AdviceHasARun, RunningIsAlive, IInv
  <1>5. NoRun \notin Runs /\ Idle.run = NoRun
    BY IdleFits DEF NoRun, Runs
  <1> SUFFICES /\ \A v \in Workers : task'[v].run # NoRun =>
                    /\ runs'[task'[v].run] \in {"none", "RUNNING"}
                    /\ \A u \in Workers \ {v} : task'[u].run # task'[v].run
               /\ \A r \in Recs : rec'[r] # NoRec =>
                    runs'[rec'[r].run] \in {"COMPLETED", "FAILED"}
               /\ \A r \in Runs : runs'[r] = "RUNNING" =>
                    r \in excused' \/ \E v \in Workers : task'[v].run = r
    BY <1>3 DEF RunInv, Unfinished, AdviceHasARun, RunningIsAlive, Known
  <1>6. CASE GoesOn(w, t)
    <2>1. \A v \in Workers : task'[v].run = task[v].run
      BY <1>2, <1>6 DEF GoesOn
    <2> QED BY <1>4, <1>6, <2>1 DEF GoesOn, Known
  <1>7. CASE Begins(w, t)
    <2>1. /\ \A v \in Workers : task[v].run # t.run
          /\ runs[t.run] = "none" /\ runs' = runs /\ rec' = rec /\ excused' = excused
          /\ task[w].run = NoRun
      BY <1>7 DEF Begins, Fresh
    <2>2. \A r \in Recs : rec'[r] # NoRec => runs'[rec'[r].run] \in {"COMPLETED", "FAILED"}
      BY <1>4, <2>1 DEF Known
    <2>3. \A r \in Runs : runs'[r] = "RUNNING" =>
             r \in excused' \/ \E v \in Workers : task'[v].run = r
      BY <1>2, <1>4, <1>5, <2>1
    <2>4. ASSUME NEW v \in Workers, task'[v].run # NoRun
          PROVE  /\ runs'[task'[v].run] \in {"none", "RUNNING"}
                 /\ \A u \in Workers \ {v} : task'[u].run # task'[v].run
      <3>1. CASE v = w
        BY <1>2, <2>1, <3>1
      <3>2. CASE v # w
        BY <1>2, <1>4, <2>1, <2>4, <3>2
      <3> QED BY <3>1, <3>2
    <2> QED BY <2>2, <2>3, <2>4
  <1>8. CASE GivesUp(w, t)
    <2>1. /\ t.run = NoRun /\ runs' = runs /\ rec' = rec
          /\ excused' = excused \cup ({task[w].run} \ {NoRun})
      BY <1>5, <1>8 DEF GivesUp
    <2>2. \A r \in Recs : rec'[r] # NoRec => runs'[rec'[r].run] \in {"COMPLETED", "FAILED"}
      BY <1>4, <2>1 DEF Known
    <2>3. ASSUME NEW r \in Runs, runs'[r] = "RUNNING"
          PROVE  r \in excused' \/ \E v \in Workers : task'[v].run = r
      <3>1. CASE r \in excused \/ r = task[w].run
        BY <1>5, <2>1, <3>1
      <3>2. CASE \E v \in Workers \ {w} : task[v].run = r
        BY <1>2, <3>2
      <3> QED BY <1>4, <2>1, <2>3, <3>1, <3>2
    <2>4. ASSUME NEW v \in Workers, task'[v].run # NoRun
          PROVE  /\ runs'[task'[v].run] \in {"none", "RUNNING"}
                 /\ \A u \in Workers \ {v} : task'[u].run # task'[v].run
      <3>1. v # w
        BY <1>2, <2>1, <2>4
      <3>2. task'[v] = task[v]
        BY <1>2, <3>1
      <3> QED BY <1>2, <1>4, <2>1, <2>4, <3>2
    <2> QED BY <2>2, <2>3, <2>4
  <1>9. CASE ShowsItself(w, t)
    <2>1. /\ t.run = task[w].run /\ t.run # NoRun /\ t.run \in Runs
          /\ runs' = [runs EXCEPT ![t.run] = "RUNNING"]
          /\ rec' = rec /\ excused' = excused
      BY <1>4, <1>9 DEF ShowsItself
    <2>2. \A v \in Workers : task'[v].run = task[v].run
      BY <1>2, <2>1
    <2>3. runs[t.run] \in {"none", "RUNNING"}
      BY <1>4, <2>1
    <2>4. ASSUME NEW r \in Recs, rec'[r] # NoRec
          PROVE  runs'[rec'[r].run] \in {"COMPLETED", "FAILED"}
      <3>1. rec[r].run \in Runs /\ runs[rec[r].run] \in {"COMPLETED", "FAILED"}
        BY <1>4, <2>1, <2>4 DEF Known
      <3>2. rec[r].run # t.run
        BY <2>3, <3>1
      <3> QED BY <1>1, <2>1, <3>1, <3>2
    <2>5. \A q \in Runs : runs'[q] = IF q = t.run THEN "RUNNING" ELSE runs[q]
      BY <1>1, <2>1
    <2>6. \A r \in Runs : runs'[r] = "RUNNING" =>
             r \in excused' \/ \E v \in Workers : task'[v].run = r
      BY <1>4, <2>1, <2>2, <2>5
    <2>7. \A v \in Workers : task'[v].run # NoRun =>
             /\ runs'[task'[v].run] \in {"none", "RUNNING"}
             /\ \A u \in Workers \ {v} : task'[u].run # task'[v].run
      BY <1>4, <2>1, <2>2, <2>5
    <2> QED BY <2>4, <2>6, <2>7
  <1>10. CASE Ends(w, t)
    <2>1. PICK status \in RunStatus : EndsAs(w, t, status)
      BY <1>10 DEF Ends
    <2>2. /\ t.run = NoRun /\ status # "RUNNING" /\ excused' = excused
          /\ \A r \in Recs : task[w].new[r] # NoRec => status \in {"COMPLETED", "FAILED"}
          /\ runs' = IF task[w].run = NoRun THEN runs
                     ELSE [runs EXCEPT ![task[w].run] = status]
      BY <1>5, <2>1 DEF EndsAs
    <2>3. \A q \in Runs : runs'[q] = IF q = task[w].run THEN status ELSE runs[q]
      BY <1>1, <1>4, <1>5, <2>2
    <2>4. PICK rows \in SUBSET task[w].due : rec' = RecAfter(w, rows)
      BY <2>1 DEF EndsAs
    <2>5. ASSUME NEW r \in Recs, rec'[r] # NoRec
          PROVE  runs'[rec'[r].run] \in {"COMPLETED", "FAILED"}
      <3>1. CASE task[w].new[r] # NoRec /\ rec'[r] = task[w].new[r]
        <4>1. rec'[r].run = task[w].run /\ task[w].run \in Runs
          BY <3>1 DEF RunInv, Shaped, Shape
        <4> QED BY <2>2, <2>3, <3>1, <4>1
      <3>2. CASE Known(r) /\ rec'[r].run = rec[r].run
        <4>1. rec[r].run \in Runs /\ runs[rec[r].run] \in {"COMPLETED", "FAILED"}
          BY <1>4, <3>2
        <4>2. rec[r].run # task[w].run
          BY <1>4, <1>5, <4>1
        <4> QED BY <2>3, <3>2, <4>1, <4>2
      <3> QED BY <2>4, <2>5, <3>1, <3>2, Committed
    <2>6. ASSUME NEW r \in Runs, runs'[r] = "RUNNING"
          PROVE  r \in excused' \/ \E v \in Workers : task'[v].run = r
      <3>1. runs[r] = "RUNNING" /\ r # task[w].run
        BY <2>2, <2>3, <2>6
      <3>2. r \in excused \/ \E v \in Workers \ {w} : task[v].run = r
        BY <1>4, <3>1
      <3> QED BY <1>2, <2>2, <3>2
    <2>7. ASSUME NEW v \in Workers, task'[v].run # NoRun
          PROVE  /\ runs'[task'[v].run] \in {"none", "RUNNING"}
                 /\ \A u \in Workers \ {v} : task'[u].run # task'[v].run
      <3>1. v # w /\ task'[v] = task[v]
        BY <1>2, <2>2, <2>7
      <3>2. /\ task[v].run # NoRun /\ task[v].run \in Runs /\ task[v].run # task[w].run
            /\ runs[task[v].run] \in {"none", "RUNNING"}
            /\ \A u \in Workers \ {v} : task[u].run # task[v].run
        BY <1>4, <2>7, <3>1
      <3>3. runs'[task[v].run] = runs[task[v].run]
        BY <2>3, <3>2
      <3>4. \A u \in Workers \ {v} : task'[u].run # task[v].run
        BY <1>2, <2>2, <3>2
      <3> QED BY <3>1, <3>2, <3>3, <3>4
    <2> QED BY <2>5, <2>6, <2>7
  <1> QED BY <1>6, <1>7, <1>8, <1>9, <1>10 DEF WorkerStep

(* Nothing runs at first.                                                    *)
LEMMA InitRuns == Init => RunInv
  <1> SUFFICES ASSUME Init PROVE RunInv
    OBVIOUS
  <1>1. \A w \in Workers : task[w] = Idle
    BY DEF Init
  <1> QED BY <1>1, IdleFits DEF Init, RunInv, Shaped, Unfinished, AdviceHasARun, RunningIsAlive, Known

(* The user's decision leaves a row's run.                                   *)
LEMMA Decided ==
    ASSUME IInv, NEW c \in Recs, Decide(c), NEW r \in Recs
    PROVE  /\ rec'[r] # NoRec <=> Known(r)
           /\ Known(r) => rec'[r].run = rec[r].run /\ rec'[r].result = rec[r].result
           /\ r # c => rec'[r] = rec[r]
  <1>1. PICK s \in Decisions : rec' = [rec EXCEPT ![c].status = s]
    BY DEF Decide
  <1>2. Known(c) /\ rec[c] \in Recommendation /\ rec \in [Recs -> Recommendation \cup {NoRec}]
    BY RecFields DEF Decide, IInv, TypeOK
  <1> DEFINE row == [rec[c] EXCEPT !.status = s]
  <1>3. s \in {"ACCEPTED", "DISMISSED"}
    BY LoopAssumption
  <1>4. row \in Recommendation /\ row.run = rec[c].run /\ row.result = rec[c].result
    BY <1>2, <1>3 DEF Recommendation
  <1>5. rec' = [rec EXCEPT ![c] = row] /\ row # NoRec
    BY <1>1, <1>4, NoRecIsNoRow
  <1> HIDE DEF row
  <1> QED BY <1>2, <1>4, <1>5 DEF Known

(* The invariant on runs is inductive, given the other.                      *)
LEMMA RunStep ==
    ASSUME IInv, RunInv, [Next]_vars PROVE RunInv'
  <1>1. ASSUME NEW w \in Workers, Works(w) PROVE RunInv'
    <2>1. PICK t : WorkerStep(w, t)
      BY <1>1 DEF Works
    <2> QED BY <2>1, WorksKeepsRuns
  <1>2. ASSUME task' = task /\ runs' = runs /\ excused' = excused,
               (rec' = rec /\ tardy' = tardy) \/ \E c \in Recs : Decide(c)
        PROVE  RunInv'
    <2>1. Shaped' /\ Unfinished' /\ RunningIsAlive'
      BY <1>2 DEF RunInv, Shaped, Shape, Unfinished, RunningIsAlive
    <2>2. \A r \in Recs : rec'[r] # NoRec => Known(r) /\ rec'[r].run = rec[r].run
      BY <1>2, Decided DEF Known
    <2>3. AdviceHasARun'
      BY <1>2, <2>2 DEF RunInv, AdviceHasARun, Known
    <2> QED BY <2>1, <2>3 DEF RunInv
  <1> QED BY <1>1, <1>2, Kinds DEF RunInv

(* The invariant on runs, in every behaviour.                                *)
LEMMA RunInvariance == Spec => []RunInv
  <1>1. IInv /\ RunInv /\ [Next]_vars => RunInv'
    BY RunStep
  <1> QED BY <1>1, InitRuns, Invariance, PTL DEF Spec

(* Advice is visible only under a run that is over and had something to      *)
(* reason over and a model to reason with: the commit of a refreshed token   *)
(* half way through a cycle shows the run, and none of its advice.           *)
THEOREM AdviceAlwaysHasARun == Spec => []AdviceHasARun
  <1>1. RunInv => AdviceHasARun
    BY DEF RunInv
  <1> QED BY <1>1, RunInvariance, PTL

(* Whatever stage fails and whichever cycles overlap, a run that is left     *)
(* RUNNING is one that a task is still on, or whose process or session was   *)
(* lost.                                                                     *)
THEOREM RunningIsAlwaysAlive == Spec => []RunningIsAlive
  <1>1. RunInv => RunningIsAlive
    BY DEF RunInv
  <1> QED BY <1>1, RunInvariance, PTL

-----------------------------------------------------------------------------
(* Verdicts and decisions *)

(* A grader that read advice as dismissed has no verdict for it in hand.     *)
NoVerdictInHand ==
    \A w \in Workers : \A r \in task[w].due :
        rec[r].status = "DISMISSED" /\ r \notin tardy =>
            task[w].grades[r].result \notin Decisive

Dismissal == NoVerdictInHand /\ DismissedHasNoVerdict

(* The user decides: what is graded, or in a grader's hands, is marked.      *)
LEMMA DecideDismisses ==
    ASSUME IInv, Dismissal, NEW c \in Recs, Decide(c) PROVE Dismissal'
  <1>1. /\ task' = task /\ tardy \subseteq tardy'
        /\ Known(c)
        /\ (rec[c].result # "PENDING" \/ \E w \in Workers : c \in task[w].due) => c \in tardy'
    BY DEF Decide
  <1>2. ASSUME NEW w \in Workers, NEW r \in task[w].due,
               rec'[r].status = "DISMISSED", r \notin tardy'
        PROVE  task[w].grades[r].result \notin Decisive
    <2>1. r # c /\ r \in Recs
      BY <1>1, <1>2, TaskFields DEF IInv
    <2>2. rec'[r] = rec[r] /\ r \notin tardy
      BY <1>1, <1>2, <2>1, Decided
    <2> QED BY <1>2, <2>2 DEF Dismissal, NoVerdictInHand
  <1>3. ASSUME NEW r \in Recs, rec'[r] # NoRec, rec'[r].status = "DISMISSED", r \notin tardy'
        PROVE  rec'[r].result \notin Decisive
    <2>1. CASE r = c
      <3>1. rec[r].result = "PENDING" /\ rec'[r].result = rec[r].result
        BY <1>1, <1>3, <2>1, Decided
      <3> QED BY <3>1 DEF Decisive
    <2>2. CASE r # c
      <3>1. rec'[r] = rec[r] /\ Known(r) /\ r \notin tardy
        BY <1>1, <1>3, <2>2, Decided
      <3> QED BY <1>3, <3>1 DEF Dismissal, DismissedHasNoVerdict
    <2> QED BY <2>1, <2>2
  <1> QED BY <1>1, <1>2, <1>3 DEF Dismissal, NoVerdictInHand, DismissedHasNoVerdict, Known

(* grade_due grades by the row it read.                                      *)
LEMMA VerifyDismisses ==
    ASSUME IInv, Dismissal, NEW w \in Workers, Verify(w) PROVE Dismissal'
  <1>1. PICK m \in [Due -> Measurements] :
          task' = [task EXCEPT
             ![w].pc     = IF Due = {} THEN "report" ELSE "grade",
             ![w].due    = Due,
             ![w].grades = [r \in Recs |-> IF r \in Due THEN Grade(rec[r], m[r]) ELSE NoGrade]]
    BY DEF Verify
  <1> DEFINE pc == IF Due = {} THEN "report" ELSE "grade"
             grades == [r \in Recs |-> IF r \in Due THEN Grade(rec[r], m[r]) ELSE NoGrade]
             t == [task[w] EXCEPT !.pc = pc, !.due = Due, !.grades = grades]
  <1>2. /\ task[w] \in Task /\ Due \subseteq Recs /\ task \in [Workers -> Task]
        /\ rec' = rec /\ tardy' = tardy
    BY TaskFields DEF IInv, TypeOK, Due, Verify
  <1>3. task' = [task EXCEPT ![w] = t]
    BY <1>1
  <1>4. t.due = Due /\ t.grades = grades
    BY <1>2 DEF Task
  <1>5. task'[w] = t /\ \A v \in Workers \ {w} : task'[v] = task[v]
    BY <1>2, <1>3
  <1>6. ASSUME NEW r \in t.due, rec[r].status = "DISMISSED"
        PROVE  t.grades[r].result \notin Decisive
    <2>1. t.grades[r] = Grade(rec[r], m[r])
      BY <1>2, <1>4
    <2>2. Grade(rec[r], m[r]).result = "INCONCLUSIVE"
      BY <1>6 DEF Grade, Comparable
    <2> QED BY <2>1, <2>2 DEF Decisive
  <1> HIDE DEF t
  <1>7. NoVerdictInHand'
    <2> SUFFICES ASSUME NEW u \in Workers, NEW r \in task'[u].due,
                        rec[r].status = "DISMISSED", r \notin tardy
                 PROVE  task'[u].grades[r].result \notin Decisive
      BY <1>2 DEF NoVerdictInHand
    <2>1. CASE u = w
      BY <1>5, <1>6, <2>1
    <2>2. CASE u # w
      BY <1>5, <2>2 DEF Dismissal, NoVerdictInHand
    <2> QED BY <2>1, <2>2
  <1>8. DismissedHasNoVerdict'
    BY <1>2 DEF Dismissal, DismissedHasNoVerdict, Known
  <1> QED BY <1>7, <1>8 DEF Dismissal

(* What is committed is new, or a grade that was in hand.                    *)
LEMMA CommitDismisses ==
    ASSUME IInv, Dismissal, NEW w \in Workers, NEW t, WorkerStep(w, t), ~Verify(w)
    PROVE  Dismissal'
  <1>1. task'[w] = t /\ \A v \in Workers \ {w} : task'[v] = task[v]
    BY DEF WorkerStep, IInv, TypeOK
  <1>2. KeepsGrades(w, t) /\ tardy' = tardy
    BY DEF WorkerStep
  <1>3. rec' = rec \/ \E rows \in SUBSET task[w].due : rec' = RecAfter(w, rows)
    BY DEF WorkerStep, GoesOn, Begins, GivesUp, ShowsItself, Ends, EndsAs
  <1>4. ASSUME NEW r \in Recs, rec'[r] # NoRec
        PROVE  \/ rec'[r].result = "PENDING"
               \/ Known(r) /\ rec'[r] = rec[r]
               \/ /\ Known(r) /\ r \in task[w].due
                  /\ rec'[r].status = rec[r].status
                  /\ rec'[r].result = task[w].grades[r].result
    <2>1. CASE rec' = rec
      BY <1>4, <2>1 DEF Known
    <2>2. ASSUME NEW rows \in SUBSET task[w].due, rec' = RecAfter(w, rows)
          PROVE  \/ rec'[r].result = "PENDING"
                 \/ Known(r) /\ rec'[r] = rec[r]
                 \/ /\ Known(r) /\ r \in task[w].due
                    /\ rec'[r].status = rec[r].status
                    /\ rec'[r].result = task[w].grades[r].result
      <3>1. task[w].new[r] # NoRec => task[w].new[r].result = "PENDING"
        BY DEF IInv, Separate
      <3> QED BY <1>4, <2>2, <3>1, Committed
    <2> QED BY <1>3, <2>1, <2>2
  <1>5. DismissedHasNoVerdict'
    <2> SUFFICES ASSUME NEW r \in Recs, rec'[r] # NoRec,
                        rec'[r].status = "DISMISSED", r \notin tardy
                 PROVE  rec'[r].result \notin Decisive
      BY <1>2 DEF DismissedHasNoVerdict, Known
    <2>1. CASE rec'[r].result = "PENDING"
      BY <2>1 DEF Decisive
    <2>2. CASE Known(r) /\ rec'[r] = rec[r]
      BY <2>2 DEF Dismissal, DismissedHasNoVerdict
    <2>3. CASE /\ Known(r) /\ r \in task[w].due
               /\ rec'[r].status = rec[r].status
               /\ rec'[r].result = task[w].grades[r].result
      BY <2>3 DEF Dismissal, NoVerdictInHand
    <2> QED BY <1>4, <2>1, <2>2, <2>3
  <1>6. NoVerdictInHand'
    <2> SUFFICES ASSUME NEW u \in Workers, NEW r \in task'[u].due,
                        rec'[r].status = "DISMISSED", r \notin tardy
                 PROVE  task'[u].grades[r].result \notin Decisive
      BY <1>2 DEF NoVerdictInHand
    <2>1. r \in task[u].due /\ task'[u].grades = task[u].grades
      BY <1>1, <1>2 DEF KeepsGrades
    <2>2. Known(r) /\ r \in Recs
      BY <2>1, TaskFields DEF IInv, GradesSound
    <2>3. rec'[r].status = rec[r].status
      <3>1. CASE rec' = rec
        BY <3>1
      <3>2. ASSUME NEW rows \in SUBSET task[w].due, rec' = RecAfter(w, rows)
            PROVE  rec'[r].status = rec[r].status
        <4>1. rec'[r] # NoRec
          BY <2>2, <3>2, CommitRec, NoRecIsNoRow
        <4>2. task[w].new[r] = NoRec
          BY <2>2 DEF IInv, Separate
        <4> QED BY <2>2, <3>2, <4>1, <4>2, Committed
      <3> QED BY <1>3, <3>1, <3>2
    <2> QED BY <2>1, <2>3 DEF Dismissal, NoVerdictInHand
  <1> QED BY <1>5, <1>6 DEF Dismissal

(* The invariant on dismissals is inductive, given the others.               *)
LEMMA DismissalStep ==
    ASSUME IInv, RunInv, Dismissal, [Next]_vars PROVE Dismissal'
  <1>1. ASSUME NEW w \in Workers, Works(w) PROVE Dismissal'
    <2>1. PICK t : WorkerStep(w, t)
      BY <1>1 DEF Works
    <2> QED BY <2>1, VerifyDismisses, CommitDismisses
  <1>2. CASE task' = task /\ rec' = rec /\ tardy' = tardy
    BY <1>2 DEF Dismissal, NoVerdictInHand, DismissedHasNoVerdict, Known
  <1> QED BY <1>1, <1>2, Kinds, DecideDismisses DEF RunInv

(* Advice dismissed before a grader read it is never given a verdict, by     *)
(* however many graders and whatever was measured.                           *)
THEOREM DismissedNeverJudged == Spec => []DismissedHasNoVerdict
  <1>1. Init => Dismissal
    BY DEF Init, Dismissal, NoVerdictInHand, DismissedHasNoVerdict, Known, Idle
  <1>2. IInv /\ RunInv /\ Dismissal /\ [Next]_vars => Dismissal'
    BY DismissalStep
  <1>3. Dismissal => DismissedHasNoVerdict
    BY DEF Dismissal
  <1> QED BY <1>1, <1>2, <1>3, Invariance, RunInvariance, PTL DEF Spec
=============================================================================
