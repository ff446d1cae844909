----------------------------- MODULE Collection -----------------------------
(***************************************************************************)
(* The post collector of one connected account: collectors/collector.py    *)
(* run by the Celery tasks of worker/tasks.py, through the budget gate and *)
(* the ledger of the X client.                                             *)
(*                                                                         *)
(* A runner is a worker process executing one task (discover_posts,        *)
(* post_metrics or its duplicate freeze_sweep) for the account, inside one *)
(* database transaction (session_scope).  A run is split where other       *)
(* runners and the clock get in between:                                   *)
(*                                                                         *)
(*   Start   reads the budget, the posts and the newest snapshots;         *)
(*   Request passes the budget gate and sends, or is refused;              *)
(*   Write   handles the page X returned, staging rows in the transaction; *)
(*   Commit  makes the rows visible, the ledger row and the run row too,   *)
(*           or loses to a unique constraint and rolls everything back.    *)
(*                                                                         *)
(* Posts are numbered in the order they are published, so a larger number  *)
(* is a newer post and a larger X id.  A resource costs 1.                 *)
(***************************************************************************)
EXTENDS Schedule, FiniteSetsExt

CONSTANTS
    Runners,        \* worker processes
    PostLimit,      \* bound: posts the account ever publishes
    MaxTime,        \* bound: the last instant of a behaviour
    PageSize,       \* PAGE_SIZE
    MaxPages,       \* max_pages of discover_posts
    MaxPerCycle,    \* MAX_POSTS_PER_CYCLE
    SweepEvery,     \* beat starts a metrics run at least this often
    RunLimit,       \* task_time_limit: a run ends within this time
    Budgets,        \* monthly budgets considered, in resources
    Faults,         \* kinds of fault that happen: see FaultKinds
    MaxFaults       \* bound: faults in a behaviour

FaultKinds == {"ratelimit", "error", "withheld", "crash"}

ASSUME CollectionAssumption ==
    /\ IsFiniteSet(Runners) /\ Runners # {}
    /\ PostLimit \in Nat /\ MaxTime \in Nat /\ MaxFaults \in Nat
    /\ PageSize \in Nat \ {0} /\ MaxPages \in Nat \ {0}
    /\ MaxPerCycle \in Nat \ {0}
    /\ SweepEvery \in Nat \ {0} /\ RunLimit \in Nat
    /\ Budgets \subseteq Nat
    /\ Faults \subseteq FaultKinds

VARIABLES
    now,          \* the clock, at the resolution of captured_at
    postedAt,     \* X: when each post was published, or None
    billed,       \* X: resources X has charged for
    firstSeen,    \* posts.first_seen_at, None when the row does not exist
    closed,       \* posts.discovered_after_window_closed
    everImp,      \* posts.impressions_ever_collected
    frozenAt,     \* posts.final_freeze_at
    snaps,        \* post_metric_snapshots
    spent,        \* api_usage_ledger: resources charged this month, committed
    budget,       \* X_MONTHLY_BUDGET_USD, fixed for a behaviour
    job,          \* what each runner is doing
    last,         \* the collection_runs row each runner committed last
    lastSweep,    \* when a metrics run was last started
    faults,       \* faults so far
    missed,       \* history: runs that owed a post its freeze and ended
                  \* without it, counted up to Slack
    unrecorded    \* history: resources charged to runs whose ledger rows
                  \* were rolled back

xVars    == <<postedAt, billed>>
history  == <<missed, unrecorded>>
postVars == <<firstSeen, closed, everImp, frozenAt, snaps>>
vars     == <<now, xVars, postVars, spent, budget, job, last, lastSweep,
              faults, history>>

Posts     == 1 .. PostLimit
Published == {p \in Posts : postedAt[p] # None}
Known     == {p \in Posts : firstSeen[p] # None}
Age(p)    == now - postedAt[p]

(* Sweeps that start inside a freeze window, at the least. *)
Slack == (Cliff - FreezeOpens) \div SweepEvery

-----------------------------------------------------------------------------
(* Records *)

Times    == Nat
Snapshot == [post : Posts, at : Times, imp : BOOLEAN, freeze : BOOLEAN]
Decision == [post : Posts, priority : Priorities, freeze : BOOLEAN]
Statuses == {"running", "succeeded", "partial", "skipped", "failed"}

Job == [pc        : {"idle", "request", "response", "commit"},
        task      : {"none", "metrics", "discover"},
        started   : Times \cup {None},
        due       : SUBSET Decision,      \* what _posts_due returned
        watermark : SUBSET Posts,         \* known at the start: since_id is
                                          \* the newest, absent when empty
        cursor    : SUBSET Posts,         \* the page before: the pagination
                                          \* token asks for older posts
        pages     : Nat,
        page      : SUBSET Posts,         \* the posts of the response
        private   : SUBSET Posts,         \* those with non-public metrics
        own       : Nat,                  \* ledger rows not yet committed
        inserts   : SUBSET Snapshot,      \* new rows, flushed not committed
        flags     : SUBSET Snapshot,      \* rows to be marked the freeze
        status    : Statuses]

NoJob == [pc |-> "idle", task |-> "none", started |-> None, due |-> {},
          watermark |-> {}, cursor |-> {}, pages |-> 0, page |-> {},
          private |-> {}, own |-> 0, inserts |-> {}, flags |-> {},
          status |-> "running"]

(* freezes: the posts whose freeze the run owed (details["freezes"]).        *)
(* "lost" stands for a run whose row was rolled back with its work.          *)
RunRow == [task : {"none", "metrics", "discover"},
           status : Statuses \cup {"lost"}, freezes : SUBSET Posts]
NoRun  == [task |-> "none", status |-> "running", freezes |-> {}]

Freezes(j) == {d.post : d \in {e \in j.due : e.freeze}}

TypeOK ==
    /\ now \in Times
    /\ postedAt \in [Posts -> Times \cup {None}]
    /\ billed \in Nat
    /\ firstSeen \in [Posts -> Times \cup {None}]
    /\ closed \in [Posts -> BOOLEAN]
    /\ everImp \in [Posts -> BOOLEAN]
    /\ frozenAt \in [Posts -> Times \cup {None}]
    /\ snaps \in SUBSET Snapshot
    /\ spent \in Nat
    /\ budget \in Nat
    /\ job \in [Runners -> Job]
    /\ last \in [Runners -> RunRow]
    /\ lastSweep \in Times
    /\ faults \in Nat
    /\ missed \in [Posts -> Nat]
    /\ unrecorded \in Nat

Init ==
    /\ now = 0
    /\ postedAt = [p \in Posts |-> None]
    /\ billed = 0
    /\ firstSeen = [p \in Posts |-> None]
    /\ closed = [p \in Posts |-> FALSE]
    /\ everImp = [p \in Posts |-> FALSE]
    /\ frozenAt = [p \in Posts |-> None]
    /\ snaps = {}
    /\ spent = 0
    /\ budget \in Budgets
    /\ job = [r \in Runners |-> NoJob]
    /\ last = [r \in Runners |-> NoRun]
    /\ lastSweep = 0
    /\ faults = 0
    /\ missed = [p \in Posts |-> 0]
    /\ unrecorded = 0

-----------------------------------------------------------------------------
(* The environment: the clock, the scheduler's deadlines, the account owner. *)

(* Time does not pass a beat deadline, nor the time limit of a run.          *)
Tick ==
    /\ now < MaxTime
    /\ now - lastSweep < SweepEvery
    /\ \A r \in Runners : job[r].pc # "idle" => now - job[r].started < RunLimit
    /\ now' = now + 1
    /\ UNCHANGED <<xVars, postVars, spent, budget, job, last, lastSweep,
                   faults, history>>

Publish ==
    \E p \in Posts :
        /\ postedAt[p] = None
        /\ \A q \in 1 .. p - 1 : postedAt[q] # None
        /\ postedAt' = [postedAt EXCEPT ![p] = now]
        /\ UNCHANGED <<now, billed, postVars, spent, budget, job, last,
                       lastSweep, faults, history>>

(* X's timeline: the newest n posts of S, newest first.                      *)
Newest(S, n) == {p \in S : Cardinality({q \in S : q > p}) < n}

-----------------------------------------------------------------------------
(* The cost governor *)

BudgetState ==
    IF      spent >= budget          THEN "exhausted"
    ELSE IF 10 * spent >= 9 * budget THEN "critical"
    ELSE IF 10 * spent >= 7 * budget THEN "warning"
    ELSE "healthy"

(* Mutant: the gate sees the rows of its own run only.                      *)
Affordable_OwnRunOnly(r) == job[r].own + PageSize <= budget

(* can_afford: the estimate is a full page; the transaction sees the         *)
(* committed ledger and its own flushed rows.                                *)
Affordable(r) == spent + job[r].own + PageSize <= budget

-----------------------------------------------------------------------------
(* Starting a run *)

SnapshotTimes(p) == {s.at : s \in {t \in snaps : t.post = p}}
SinceLast(p) == IF SnapshotTimes(p) = {} THEN None ELSE now - Max(SnapshotTimes(p))

(* _posts_due *)
Candidates == {p \in Known : postedAt[p] + Cliff > now /\ frozenAt[p] = None}

DecisionFor(p) ==
    [post     |-> p,
     priority |-> PriorityOf(Age(p), SinceLast(p), frozenAt[p] # None, everImp[p]),
     freeze   |-> FreezeDue(Age(p), frozenAt[p] # None)]

PostsDue ==
    {DecisionFor(p) : p \in
        {q \in Candidates :
            Due(Age(q), SinceLast(q), frozenAt[q] # None, BudgetState)}}

StartMetrics(r) ==
    /\ job[r].pc = "idle"
    /\ job' = [job EXCEPT ![r] =
                [NoJob EXCEPT !.pc      = IF PostsDue = {} THEN "commit" ELSE "request",
                              !.task    = "metrics",
                              !.started = now,
                              !.due     = PostsDue,
                              !.status  = IF PostsDue = {} THEN "skipped" ELSE "running"]]
    /\ lastSweep' = now
    /\ last' = [last EXCEPT ![r] = NoRun]
    /\ UNCHANGED <<now, xVars, postVars, spent, budget, faults, history>>

StartDiscover(r) ==
    /\ job[r].pc = "idle"
    /\ job' = [job EXCEPT ![r] =
                [NoJob EXCEPT !.pc        = "request",
                              !.task      = "discover",
                              !.started   = now,
                              !.watermark = Known]]
    /\ last' = [last EXCEPT ![r] = NoRun]
    /\ UNCHANGED <<now, xVars, postVars, spent, budget, lastSweep, faults, history>>

-----------------------------------------------------------------------------
(* The request *)

(* A refusal or a rate limit ends the run; discover keeps what it has.       *)
Blocked(j) ==
    [j EXCEPT !.pc = "commit",
              !.status = IF j.inserts = {} THEN "skipped" ELSE "partial"]

Refused(r) ==
    /\ job[r].pc = "request"
    /\ ~Affordable(r)
    /\ job' = [job EXCEPT ![r] = Blocked(job[r])]
    /\ UNCHANGED <<now, xVars, postVars, spent, budget, last, lastSweep,
                   faults, history>>

(* X, or the local mirror of its limits, says no after the retries.          *)
RateLimited(r) ==
    /\ "ratelimit" \in Faults /\ faults < MaxFaults
    /\ job[r].pc = "request"
    /\ Affordable(r)
    /\ job' = [job EXCEPT ![r] = Blocked(job[r])]
    /\ faults' = faults + 1
    /\ UNCHANGED <<now, xVars, postVars, spent, budget, last, lastSweep, history>>

(* Any other XApiError: 4xx, 5xx or transport errors after the retries.      *)
RequestFails(r) ==
    /\ "error" \in Faults /\ faults < MaxFaults
    /\ job[r].pc = "request"
    /\ Affordable(r)
    /\ job' = [job EXCEPT ![r] = [job[r] EXCEPT !.pc = "commit", !.status = "failed"]]
    /\ faults' = faults + 1
    /\ UNCHANGED <<now, xVars, postVars, spent, budget, last, lastSweep, history>>

(* What the timeline endpoint can return: everything for metrics; for        *)
(* discovery, the posts newer than the watermark on the first page and the   *)
(* posts older than the pagination token on the next.                        *)
Timeline(j) ==
    IF j.task = "metrics" THEN Published
    ELSE IF j.cursor # {} THEN {p \in Published : \A q \in j.cursor : p < q}
    ELSE {p \in Published : \A q \in j.watermark : p > q}

(* X answers and charges for every post on the page.                         *)
Page(r) == Newest(Timeline(job[r]), PageSize)

Answered(r, private) ==
    /\ job[r].pc = "request"
    /\ Affordable(r)
    /\ job' = [job EXCEPT ![r] =
                [job[r] EXCEPT !.pc      = "response",
                               !.page    = Page(r),
                               !.private = private,
                               !.own     = @ + Cardinality(Page(r))]]
    /\ billed' = billed + Cardinality(Page(r))
    /\ UNCHANGED <<now, postedAt, postVars, spent, budget, last, lastSweep, history>>

(* Non-public metrics are included for posts inside the 30 days ...          *)
Fetch(r) == Answered(r, {p \in Page(r) : Age(p) < Cliff}) /\ UNCHANGED faults

(* ... unless X leaves them out.                                             *)
FetchWithheld(r) ==
    /\ "withheld" \in Faults /\ faults < MaxFaults
    /\ Answered(r, {})
    /\ faults' = faults + 1

-----------------------------------------------------------------------------
(* Handling the response *)

NewSnapshot(p, private, freeze) ==
    [post |-> p, at |-> now, imp |-> p \in private, freeze |-> freeze]

(* _upsert_posts: posts without a row get one, and a first snapshot.         *)
NewPosts(j) == {p \in j.page : firstSeen[p] = None
                               /\ \A s \in j.inserts : s.post # p}

(* A further page follows only on a first run, within max_pages, while X     *)
(* has older posts.                                                          *)
MorePages(j) ==
    /\ j.watermark = {}
    /\ j.pages + 1 < MaxPages
    /\ j.page # {}
    /\ \E p \in Published : \A q \in j.page : p < q

WriteDiscover(r) ==
    LET j == job[r]
        inserts == j.inserts \cup {NewSnapshot(p, j.private, FALSE) : p \in NewPosts(j)}
    IN  /\ j.pc = "response" /\ j.task = "discover"
        /\ job' = [job EXCEPT ![r] =
                    [j EXCEPT !.pc      = IF MorePages(j) THEN "request" ELSE "commit",
                              !.status  = IF MorePages(j) THEN "running" ELSE "succeeded",
                              !.cursor  = IF MorePages(j) THEN j.page ELSE {},
                              !.pages   = @ + 1,
                              !.page    = {},
                              !.private = {},
                              !.inserts = inserts]]
        /\ UNCHANGED <<now, xVars, postVars, spent, budget, last, lastSweep,
                       faults, history>>

(* Mutant: the sort by priority is missing, leaving the query's order.       *)
Precedes_QueryOrder(d, e) == d.post > e.post

(* Order of work: by priority, and within one priority the newest first.     *)
Precedes(d, e) ==
    d.priority < e.priority \/ (d.priority = e.priority /\ d.post > e.post)

(* due[:MAX_POSTS_PER_CYCLE] *)
Served(due) == {d \in due : Cardinality({e \in due : Precedes(e, d)}) < MaxPerCycle}

Existing(p) == {s \in snaps : s.post = p /\ s.at = now}

(* Mutant: a snapshot of this minute makes the writer return early.          *)
ToFlag_EarlyReturn(work) == {}

(* _write_snapshot, on a row that exists for this minute: only the freeze    *)
(* bookkeeping happens.                                                      *)
ToFlag(work) ==
    UNION {{s \in Existing(d.post) : ~s.freeze} : d \in {e \in work : e.freeze}}

ToInsert(work, private) ==
    {NewSnapshot(d.post, private, d.freeze) : d \in
        {e \in work : Existing(e.post) = {}}}

WriteMetrics(r) ==
    LET j    == job[r]
        work == {d \in Served(j.due) : d.post \in j.page}
    IN  /\ j.pc = "response" /\ j.task = "metrics"
        /\ job' = [job EXCEPT ![r] =
                    [j EXCEPT !.pc      = "commit",
                              !.status  = IF work = j.due THEN "succeeded" ELSE "partial",
                              !.page    = {},
                              !.private = {},
                              !.inserts = ToInsert(work, j.private),
                              !.flags   = ToFlag(work)]]
        /\ UNCHANGED <<now, xVars, postVars, spent, budget, last, lastSweep,
                       faults, history>>

-----------------------------------------------------------------------------
(* The end of the transaction *)

(* Another runner committed a row with one of the staged rows' unique keys:  *)
(* (account, x_post_id) for a new post, (post, captured_at) for a snapshot.  *)
Clash(j) ==
    \E s \in j.inserts :
        \/ j.task = "discover" /\ firstSeen[s.post] # None
        \/ \E t \in snaps : t.post = s.post /\ t.at = s.at

Marked(flags) == {[s EXCEPT !.freeze = TRUE] : s \in flags}

(* Mutant: the freeze time is not recorded on the post.                      *)
FrozenAfter_Unset(j) == frozenAt

(* The rows of the transaction that make p frozen; they share one time.      *)
FreezeRows(j, p) ==
    {s \in j.inserts \cup j.flags : s.post = p /\ (s.freeze \/ s \in j.flags)}

FrozenAfter(j) ==
    [p \in Posts |-> IF FreezeRows(j, p) = {} THEN frozenAt[p]
                     ELSE (CHOOSE s \in FreezeRows(j, p) : TRUE).at]

EverImpAfter(j) ==
    [p \in Posts |-> everImp[p] \/ \E s \in j.inserts : s.post = p /\ s.imp]

(* Rows of new posts carry the time they were first seen.                    *)
FirstSeenAfter(j) ==
    [p \in Posts |->
        IF j.task = "discover" /\ \E s \in j.inserts : s.post = p
        THEN (CHOOSE s \in j.inserts : s.post = p).at
        ELSE firstSeen[p]]

(* Mutant: closed from the opening of the freeze window on.                  *)
ClosedAfter_Early(j) ==
    [p \in Posts |->
        closed[p] \/ (/\ j.task = "discover"
                      /\ \E s \in j.inserts : s.post = p /\ postedAt[p] + FreezeOpens <= s.at)]

ClosedAfter(j) ==
    [p \in Posts |->
        closed[p] \/ (/\ j.task = "discover"
                      /\ \E s \in j.inserts : s.post = p /\ postedAt[p] + Cliff <= s.at)]

(* Mutant: only a run that succeeded is charged.                             *)
SpentAfter_Succeeded(j) == IF j.status = "succeeded" THEN spent + j.own ELSE spent

SpentAfter(j) == spent + j.own

(* A run that ends owing p its freeze, counted up to Slack.                  *)
MissedAfter(j, frozen) ==
    [p \in Posts |-> IF p \in Freezes(j) /\ frozen[p] = None /\ missed[p] < Slack
                     THEN missed[p] + 1 ELSE missed[p]]

Commit(r) ==
    LET j == job[r]
    IN  /\ j.pc = "commit"
        /\ ~Clash(j)
        /\ snaps' = (snaps \ j.flags) \cup Marked(j.flags) \cup j.inserts
        /\ firstSeen' = FirstSeenAfter(j)
        /\ closed' = ClosedAfter(j)
        /\ everImp' = EverImpAfter(j)
        /\ frozenAt' = FrozenAfter(j)
        /\ spent' = SpentAfter(j)
        /\ last' = [last EXCEPT ![r] = [task |-> j.task, status |-> j.status,
                                        freezes |-> Freezes(j)]]
        /\ missed' = MissedAfter(j, frozenAt')
        /\ job' = [job EXCEPT ![r] = NoJob]
        /\ UNCHANGED <<now, xVars, budget, lastSweep, faults, unrecorded>>

(* Everything the run did goes: snapshots, ledger rows, the run's own row.   *)
RollBack(r) ==
    /\ job' = [job EXCEPT ![r] = NoJob]
    /\ last' = [last EXCEPT ![r] = [NoRun EXCEPT !.task = job[r].task,
                                                 !.status = "lost",
                                                 !.freezes = Freezes(job[r])]]
    /\ missed' = MissedAfter(job[r], frozenAt)
    /\ unrecorded' = unrecorded + job[r].own
    /\ UNCHANGED <<now, xVars, postVars, spent, budget, lastSweep>>

Conflict(r) ==
    /\ job[r].pc = "commit"
    /\ Clash(job[r])
    /\ RollBack(r)
    /\ UNCHANGED faults

(* The worker dies, is killed at its time limit, or an exception other than  *)
(* an XApiError leaves the task.                                             *)
Crash(r) ==
    /\ "crash" \in Faults /\ faults < MaxFaults
    /\ job[r].pc # "idle"
    /\ RollBack(r)
    /\ faults' = faults + 1

-----------------------------------------------------------------------------
RunnerStep(r) ==
    \/ StartMetrics(r) \/ StartDiscover(r)
    \/ Refused(r) \/ RateLimited(r) \/ RequestFails(r)
    \/ Fetch(r) \/ FetchWithheld(r)
    \/ WriteDiscover(r) \/ WriteMetrics(r)
    \/ Commit(r) \/ Conflict(r) \/ Crash(r)

Next ==
    \/ Tick
    \/ Publish
    \/ \E r \in Runners : RunnerStep(r)

Spec == Init /\ [][Next]_vars

-----------------------------------------------------------------------------
(* Properties *)

(* A metrics run that reports success has frozen every post whose freeze it  *)
(* owed, whatever other runs did meanwhile: SUCCEEDED hides no lost freeze   *)
(* (collect_post_metrics, _write_snapshot).                                  *)
SucceededFroze ==
    \A r \in Runners :
        last[r].status = "succeeded" =>
            \A p \in last[r].freezes : frozenAt[p] # None

(* final_freeze_at on a post is the time of one of its snapshots, and that   *)
(* snapshot is the one marked as the freeze; a post without final_freeze_at  *)
(* has no such snapshot.  The two tables never disagree.                     *)
FreezeMarksAgree ==
    \A p \in Posts :
        /\ frozenAt[p] # None =>
              \E s \in snaps : s.post = p /\ s.freeze /\ s.at = frozenAt[p]
        /\ frozenAt[p] = None => \A s \in snaps : s.post = p => ~s.freeze

(* impressions_ever_collected says exactly whether some snapshot of the post *)
(* has impressions: a gap is never taken for a zero, nor a zero for a gap.   *)
EverImpIsTrue ==
    \A p \in Posts : everImp[p] <=> \E s \in snaps : s.post = p /\ s.imp

(* A post in the database before its freeze window opened (a run commits     *)
(* what it saw within RunLimit), past the cliff, unfrozen.                   *)
Lost(p) == /\ firstSeen[p] + RunLimit < postedAt[p] + FreezeOpens
           /\ now >= postedAt[p] + Cliff + RunLimit
           /\ frozenAt[p] = None

(* "A full day of slack before the cliff means a failed run, a rate-limit    *)
(* pause or an outage still has retries left" (schedule.py): a post known    *)
(* before its freeze window opens passes the cliff unfrozen only if every    *)
(* sweep of the window owed it the freeze and ended without it.              *)
LossNeedsMisses ==
    \A p \in Known :
        Lost(p) => missed[p] >= Slack

(* "FINAL_FREEZE: irreplaceable, never yield this": when a cycle cannot      *)
(* serve all that is due, the freezes go first, so that without faults, and  *)
(* while the budget has room for a page, a bounded cycle still loses no post *)
(* it can serve within the sweeps of a window.                               *)
TruncationLosesNothing ==
    (/\ faults = 0 /\ Cardinality(Runners) = 1
     /\ spent + PageSize <= budget
     /\ PostLimit <= PageSize
     /\ PostLimit <= Slack * MaxPerCycle)
    => \A p \in Known : ~Lost(p)

(* Every resource X charges for is in the ledger, on its way there, or was   *)
(* read by a run whose transaction was rolled back: a run that is refused,   *)
(* limited or fails half way is charged for what it read before, and no row  *)
(* is written twice.                                                         *)
LedgerRows(own) == UNION {{r} \X (1 .. own[r]) : r \in Runners}
InFlight == Cardinality(LedgerRows([r \in Runners |-> job[r].own]))
LedgerExplainsBill == billed = spent + InFlight + unrecorded

(* The monthly ceiling: X never charges more than the budget, but for what   *)
(* the gate cannot see: rows that were rolled back, and the pages the other  *)
(* workers have in flight.  One worker without crashes keeps it exactly.     *)
CeilingHolds ==
    billed <= budget + unrecorded + (Cardinality(Runners) - 1) * MaxPages * PageSize

(* The life of each post as the database shows it, for PostLife.             *)
StageOf(p) ==
    IF firstSeen[p] = None THEN "unseen"
    ELSE IF closed[p] THEN "closed"
    ELSE IF frozenAt[p] # None THEN "frozen"
    ELSE "tracked"

Life == INSTANCE PostLife WITH stage <- [p \in Posts |-> StageOf(p)]
LifeSpec == Life!Spec
=============================================================================
