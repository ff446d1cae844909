------------------------------- MODULE Reports -------------------------------
(***************************************************************************)
(* Reports over what was collected and imported: reports/builder.py reads  *)
(* the analytics and the revenue, reports/service.py stores one report per *)
(* period and delivers it.  The account is sampled every hour or is not,   *)
(* statements are imported, and reports are generated by the schedule, by  *)
(* redelivered tasks and by hand, all at the same time.                    *)
(*                                                                         *)
(* Everything here happens within one period, whose report is one row.     *)
(***************************************************************************)
EXTENDS Analytics, Revenue

CONSTANTS
    Counts,       \* follower counts
    Generators,   \* requests and tasks that generate the report
    PeriodDays,   \* the days a report covers
    WindowDays,   \* the days of history it reads, max(days, 7)
    ReportHour,   \* hours of a day that are over when the daily report runs
    MaxHours,     \* bounds: the history on its own, and beside requests
    MaxBusyHours,
    MaxBusy,      \* bound: requests under way at once
    MaxMails,     \* bound: attempts to mail a report that end on record
    MaxFaults     \* bound: generations that die

ASSUME ReportsAssumption ==
    /\ Counts \subseteq Nat /\ \E top \in Counts : \A c \in Counts : c <= top
    /\ PeriodDays \in Nat \ {0} /\ WindowDays \in Nat /\ PeriodDays <= WindowDays
    /\ ReportHour \in 1 .. HoursPerDay
    /\ {MaxHours, MaxBusyHours, MaxBusy, MaxMails, MaxFaults} \subseteq Nat
    /\ MaxBusyHours <= MaxHours
    /\ IsFiniteSet(Generators)

VARIABLES
    history,     \* account snapshots by hour
    report,      \* the reports row of the period
    gen,         \* what each generation is doing
    deliveries,  \* delivery rows of the report that say SENT or FAILED, by mail
    faults,
    mails,       \* history: messages that reached the mail server
    overlapped,  \* history: two generations were under way at once
    mailed       \* history: before that, the last content whose delivery by mail
                 \* is on record

delivery  == <<deliveries, mails, mailed>>
vars      == <<history, revenue, report, gen, delivery, faults, overlapped>>

(* What a report says is what it read: hours of history, and entries.        *)
Content == [hours : 0 .. MaxBusyHours, counted : SUBSET Rows]
Nothing == [hours |-> 0, counted |-> {}]

Generation ==
    [pc      : {"idle", "revenue", "select", "flush", "mail", "commit"},
     deliver : BOOLEAN,
     built   : Content,
     found   : BOOLEAN,                      \* there was a report to amend,
     same    : BOOLEAN,                      \* and it said the same
     mail    : {"none", "SENT", "FAILED", "SKIPPED"}]
NoGeneration == [pc |-> "idle", deliver |-> FALSE, built |-> Nothing,
                 found |-> FALSE, same |-> FALSE, mail |-> "none"]

Report == [content : Content, status : {"GENERATED", "DELIVERED", "DELIVERY_FAILED"}]

ASSUME NoneIsNoReport == None \notin Report

TypeOK ==
    /\ RevenueTypeOK
    /\ history \in Seq(Counts \cup {None}) /\ Len(history) <= MaxHours
    /\ report \in Report \cup {None}
    /\ gen \in [Generators -> Generation]
    /\ deliveries \in 0 .. MaxMails /\ mails \in 0 .. MaxMails + MaxFaults
    /\ mailed \in Content
    /\ faults \in 0 .. MaxFaults
    /\ overlapped \in BOOLEAN

Init ==
    /\ RevenueInit
    /\ history = <<>>
    /\ report = None
    /\ gen = [g \in Generators |-> NoGeneration]
    /\ deliveries = 0 /\ mails = 0 /\ mailed = Nothing
    /\ faults = 0 /\ overlapped = FALSE

-----------------------------------------------------------------------------
(* What is collected *)

Importing == \E i \in Importers : import[i].pc # "idle"

(* Bound: what comes of a long history is looked at before there is anything *)
(* else.                                                                     *)
Untouched ==
    /\ report = None /\ uploaded = {}
    /\ ~Importing
    /\ \A g \in Generators : gen[g].pc = "idle"

(* Bound: how many imports and generations are under way at once (two        *)
(* imports, before there is a report), and the hours that go by beside them, *)
(* whose counts are one and the same.                                        *)
Busy ==
    /\ Len(history) <= MaxBusyHours /\ Range(history) \subseteq {Max(Counts)}
    /\ Cardinality({i \in Importers : import[i].pc # "idle"})
       + Cardinality({g \in Generators : gen[g].pc # "idle"}) < MaxBusy

(* The hour's snapshot is captured, or collection misses it.                 *)
Hour ==
    /\ IF Untouched
         THEN /\ Len(history) < MaxHours
              /\ \E c \in Counts \cup {None} : history' = Append(history, c)
         ELSE /\ Len(history) < MaxBusyHours
              /\ history' = Append(history, Max(Counts))
    /\ UNCHANGED <<revenue, report, gen, delivery, faults, overlapped>>

ImportRevenue ==
    /\ \E i \in Importers :
         /\ import[i].pc = "idle" => Busy /\ (report = None \/ ~Importing)
         /\ ImportStep(i)
    /\ UNCHANGED <<history, report, gen, delivery, faults, overlapped>>

-----------------------------------------------------------------------------
(* One generation *)

Set(g, fields) == gen' = [gen EXCEPT ![g] = fields]
Is(g, pc) == gen[g].pc = pc

(* generate, up to what the builder reads of the followers                   *)
Generate(g, deliver) ==
    /\ Busy /\ Is(g, "idle")
    /\ Set(g, [NoGeneration EXCEPT !.pc = "revenue", !.deliver = deliver,
                                   !.built.hours = Len(history)])
    /\ overlapped' = (overlapped \/ \E o \in Generators : ~Is(o, "idle"))
    /\ mailed' = IF overlapped' THEN Nothing ELSE mailed
    /\ UNCHANGED <<history, revenue, report, deliveries, mails, faults>>

(* The revenue section is a query of its own.                                *)
ReadRevenue(g) ==
    /\ Is(g, "revenue")
    /\ Set(g, [gen[g] EXCEPT !.pc = "select", !.built.counted = entries])
    /\ UNCHANGED <<history, revenue, report, delivery, faults, overlapped>>

(* Mutant: the report is delivered, then stored.                             *)
After_MailFirst(pc, deliver) ==
    CASE pc = "select" -> IF deliver THEN "mail" ELSE "flush"
      [] pc = "mail"   -> "flush"
      [] pc = "flush"  -> "commit"

(* A report is stored first and only then handed to the channels.            *)
After(pc, deliver) ==
    CASE pc = "select" -> "flush"
      [] pc = "flush"  -> IF deliver THEN "mail" ELSE "commit"
      [] pc = "mail"   -> "commit"

SelectReport(g) ==
    /\ Is(g, "select")
    /\ Set(g, [gen[g] EXCEPT !.pc = After("select", gen[g].deliver),
                             !.found = report # None,
                             !.same = IF report = None THEN FALSE
                                      ELSE report.content = gen[g].built])
    /\ UNCHANGED <<history, revenue, report, delivery, faults, overlapped>>

(* Generations whose INSERT or UPDATE is not committed yet.                  *)
Writing(g) ==
    {o \in Generators \ {g} : gen[o].pc \in {"mail", "commit"}}

(* The UPDATE waits for the row, the INSERT for the unique key.              *)
FlushReport(g) ==
    /\ Is(g, "flush") /\ Writing(g) = {}
    /\ gen[g].found \/ report = None
    /\ Set(g, [gen[g] EXCEPT !.pc = After("flush", gen[g].deliver)])
    /\ UNCHANGED <<history, revenue, report, delivery, faults, overlapped>>

(* uq_report_period: somebody else stored the report first.                  *)
AlreadyStored(g) ==
    /\ Is(g, "flush") /\ Writing(g) = {}
    /\ ~gen[g].found /\ report # None
    /\ Set(g, NoGeneration)
    /\ UNCHANGED <<history, revenue, report, delivery, faults, overlapped>>

(* Generations whose delivery by mail is not on record yet.                  *)
Mailing == {g \in Generators : gen[g].mail \in {"SENT", "FAILED"}}

(* EmailChannel.send: it is not configured, the server takes the message or  *)
(* refuses it, or does not answer in time, and the thread that talks to it   *)
(* may yet get the message through.                                          *)
Mail(g) ==
    /\ Is(g, "mail") /\ deliveries + Cardinality(Mailing) < MaxMails
    /\ \E outcome \in {"SKIPPED", "SENT", "FAILED"} :
         /\ mails' \in CASE outcome = "SENT"    -> {mails + 1}
                        [] outcome = "FAILED"  -> {mails, mails + 1}
                        [] outcome = "SKIPPED" -> {mails}
         /\ Set(g, [gen[g] EXCEPT !.pc = After("mail", TRUE), !.mail = outcome])
    /\ UNCHANGED <<history, revenue, report, deliveries, mailed, faults, overlapped>>

(* The report's status: the dashboard always counts as a channel that sent.  *)
Status(outcomes) ==
    CASE "SENT" \in outcomes -> "DELIVERED"
      [] "SENT" \notin outcomes /\ "FAILED" \in outcomes -> "DELIVERY_FAILED"
      [] OTHER -> "GENERATED"

(* Mutant: a report that is there stays as it is.                            *)
Stored_Kept(g) ==
    IF gen[g].found THEN report
    ELSE [content |-> gen[g].built,
          status |-> IF gen[g].deliver THEN Status({"SENT", gen[g].mail}) ELSE "GENERATED"]

(* The row after the commit.  The ORM writes a column where the new value    *)
(* differs from the one it loaded.                                           *)
Stored(g) ==
    [content |-> IF gen[g].same THEN report.content ELSE gen[g].built,
     status  |-> IF gen[g].deliver THEN Status({"SENT", gen[g].mail})
                 ELSE IF gen[g].found THEN report.status ELSE "GENERATED"]

CommitReport(g) ==
    /\ Is(g, "commit")
    /\ report' = Stored(g)
    /\ deliveries' = deliveries + IF g \in Mailing THEN 1 ELSE 0
    /\ mailed' = IF gen[g].mail = "SENT" /\ ~overlapped THEN gen[g].built ELSE mailed
    /\ Set(g, NoGeneration)
    /\ UNCHANGED <<history, revenue, mails, faults, overlapped>>

(* The worker is killed or the database goes.                                *)
Die(g) ==
    /\ ~Is(g, "idle") /\ faults < MaxFaults
    /\ faults' = faults + 1
    /\ Set(g, NoGeneration)
    /\ UNCHANGED <<history, revenue, report, delivery, overlapped>>

-----------------------------------------------------------------------------
Step(g) ==
    \/ \E deliver \in BOOLEAN : Generate(g, deliver)
    \/ ReadRevenue(g) \/ SelectReport(g)
    \/ FlushReport(g) \/ AlreadyStored(g) \/ Mail(g) \/ CommitReport(g) \/ Die(g)

Next ==
    \/ Hour \/ ImportRevenue
    \/ \E g \in Generators : Step(g)

Spec == Init /\ [][Next]_vars

-----------------------------------------------------------------------------
(* Properties of the delivery *)

(* Every message that reaches the mail server has a delivery on record, if   *)
(* its generation lives: the loser of a race to store the report has mailed  *)
(* nothing when it finds out.                                                *)
MailsAreOnRecord == mails <= deliveries + faults + Cardinality(Mailing)

(* The stored report says at least what the owner has been mailed, unless    *)
(* two generations ran at the same time.                                     *)
Within(c, d) == c.hours <= d.hours /\ c.counted \subseteq d.counted
ReportHoldsWhatWasMailed ==
    mailed # Nothing => report # None /\ Within(mailed, report.content)

-----------------------------------------------------------------------------
(* Properties of the figures *)

(* The net change of a report, over the days it calls observed.              *)
Reported(h, days) ==
    LET by == ByDay(h, WindowDays)
    IN  {d \in LastDays(Calendar(h, WindowDays), days) : ChangeOn(by, d) # None}
NetChange(h, days) ==
    LET by == ByDay(h, WindowDays)
    IN  Total([d \in Reported(h, days) |-> ChangeOn(by, d)])

(* It is what the followers changed by over unbroken stretches of days, from *)
(* the day before each to its last: what happened in a hole is in no figure. *)
NetChangeIsReal ==
    LET by    == ByDay(history, WindowDays)
        days  == Reported(history, PeriodDays)
        ends  == {d \in days : d + 1 \notin days}
        start == {d - 1 : d \in {e \in days : e - 1 \notin days}}
    IN  /\ start \cup ends \subseteq DOMAIN by
        /\ NetChange(history, PeriodDays) =
              Total([d \in ends |-> by[d]]) - Total([d \in start |-> by[d]])

(* The reports of successive days, made at their hour, tell of no growth     *)
(* twice: of followers that never fall they report at most what was gained,  *)
(* if each report's day had been observed when it was made.                  *)
DailyReport(day) == SubSeq(history, 1, day * HoursPerDay + ReportHour)
DailyReportsAddUp ==
    LET seen == {i \in DOMAIN history : history[i] # None}
        days == {d \in 1 .. Day(Len(history)) : d * HoursPerDay + ReportHour <= Len(history)}
    IN  /\ seen # {}
        /\ \A i, j \in seen : i < j => history[i] <= history[j]
        /\ \A d \in days : \E i \in seen : Day(i) = d /\ i <= d * HoursPerDay + ReportHour
        => Total([d \in days |-> NetChange(DailyReport(d), 1)])
             <= history[Max(seen)] - history[Min(seen)]

(* A breakout is flagged however wild the rest of its history was: if most   *)
(* observations lie between a and b, one that exceeds b by more than five    *)
(* times their spread is a spike.                                            *)
FlagsBreakout(values) ==
    Reliable(values) =>
        \A a, b \in Range(values) :
            /\ 2 * Cardinality({i \in DOMAIN values : values[i] \in a .. b}) > Len(values)
            /\ values[Len(values)] > b + 5 * (b - a)
            => Anomaly(values[Len(values)], values)[1] = "SPIKE"

(* It holds of the daily changes of the followers and of the counts          *)
(* themselves, as of whatever else a baseline is taken of.                   *)
Observed ==
    LET hours == InOrder({i \in DOMAIN history : history[i] # None})
    IN  [k \in DOMAIN hours |-> history[hours[k]]]
BreakoutIsFlagged ==
    \A values \in {DailyDeltas(history, WindowDays), Observed} : FlagsBreakout(values)
=============================================================================
