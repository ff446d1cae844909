-------------------------------- MODULE Alerts --------------------------------
(***************************************************************************)
(* Alert evaluation: alerts/service.py, run for one account by the         *)
(* alerts.evaluate task every 30 minutes and by POST /evaluate at any      *)
(* time, beside the users who acknowledge alerts and switch rules.         *)
(*                                                                         *)
(* A rule is its position in rules.REGISTRY.  What a detector would report *)
(* at the moment is a key: the identity of the event (dedupe_key).  A      *)
(* stateful rule has one key, because its condition starts and ends; the   *)
(* other rules have one per event.                                         *)
(*                                                                         *)
(* An evaluation is one transaction.  A row it inserts is in the table     *)
(* with the evaluation's name on it: nobody else reads it before the       *)
(* commit, but the unique constraint makes others wait for it.  What it    *)
(* changes in existing rows is written blindly, by primary key.            *)
(***************************************************************************)
EXTENDS Integers, FiniteSets

CONSTANTS
    Rules,        \* registry positions
    Stateful,     \* STATEFUL_RULES
    Keys,         \* dedupe keys
    RuleOf,       \* [Keys -> Rules]
    Evaluators,   \* concurrent evaluations of the account
    Cooldown,     \* cooldown_hours, in ticks
    Deliverable,  \* severities at or above min_severity, of {"WARNING", "CRITICAL"}
    Toggles,      \* whether users switch rules off and on
    MaxTime,      \* bound: the clock
    MaxCrashes,   \* bound: evaluations that die
    None          \* absence

ASSUME AlertsAssumption ==
    /\ Rules \subseteq Nat /\ IsFiniteSet(Rules)
    /\ Stateful \subseteq Rules
    /\ RuleOf \in [Keys -> Rules]
    /\ \A k, q \in Keys : RuleOf[k] = RuleOf[q] /\ RuleOf[k] \in Stateful => k = q
    /\ Cooldown \in Nat /\ MaxTime \in Nat /\ MaxCrashes \in Nat
    /\ Toggles \in BOOLEAN
    /\ None \notin Keys \cup Evaluators

VARIABLES
    now,
    holds,        \* the key each rule's detector would report now, or None
    severe,       \* rules whose finding would be CRITICAL now
    enabled,      \* rules switched on
    alert,        \* the alerts table, by key
    eval,         \* what each evaluation is doing
    ack,          \* the alert a user's acknowledgement has read, or None
    emails,       \* history: emails sent for each key
    ended,        \* history: keys absent, or with their rule off, since they last fired
    overlapped,   \* history: two evaluations were under way at once
    crashes

world   == <<now, holds, severe, enabled>>
history == <<emails, ended, overlapped>>
vars    == <<world, alert, eval, ack, history, crashes>>

Severities == {"WARNING", "CRITICAL"}
Alert == [state    : {"none", "FIRING", "ACKNOWLEDGED", "RESOLVED"},
          severity : Severities,
          fired    : 0..MaxTime,
          by       : Evaluators \cup {None}]    \* the uncommitted insert's owner
NoAlert == [state |-> "none", severity |-> "WARNING", fired |-> 0, by |-> None]

Evaluation == [pc     : {"idle", "raise", "insert", "deliver", "commit"},
               found  : SUBSET Keys,     \* findings
               worst  : SUBSET Keys,     \* those that are CRITICAL
               todo   : SUBSET Keys,     \* findings not yet through _raise
               reopen : SUBSET Keys,
               close  : SUBSET Keys]
NoEvaluation == [pc |-> "idle", found |-> {}, worst |-> {}, todo |-> {},
                 reopen |-> {}, close |-> {}]

TypeOK ==
    /\ now \in 0..MaxTime
    /\ holds \in [Rules -> Keys \cup {None}]
    /\ severe \subseteq Rules /\ enabled \subseteq Rules
    /\ alert \in [Keys -> Alert]
    /\ eval \in [Evaluators -> Evaluation]
    /\ ack \in Keys \cup {None}
    /\ emails \in [Keys -> Nat]
    /\ ended \subseteq Keys
    /\ overlapped \in BOOLEAN
    /\ crashes \in Nat

Init ==
    /\ now = 0
    /\ holds = [r \in Rules |-> None]
    /\ severe = {}
    /\ enabled = Rules
    /\ alert = [k \in Keys |-> NoAlert]
    /\ eval = [e \in Evaluators |-> NoEvaluation]
    /\ ack = None
    /\ emails = [k \in Keys |-> 0]
    /\ ended = Keys
    /\ overlapped = FALSE
    /\ crashes = 0

-----------------------------------------------------------------------------
(* The world and the users *)

Tick ==
    /\ now < MaxTime
    /\ now' = now + 1
    /\ UNCHANGED <<holds, severe, enabled, alert, eval, ack, history, crashes>>

KeysOf(r) == {k \in Keys : RuleOf[k] = r}

(* A condition starts, ends or gets worse, an event gives way to another     *)
(* (whose severity is its own and does not change).                          *)
Change(r) ==
    /\ \E k \in KeysOf(r) \cup {None} :
         /\ holds' = [holds EXCEPT ![r] = k]
         /\ ended' = ended \cup (KeysOf(r) \ {k})
    /\ \E s \in SUBSET ({r} \cap Stateful) : severe' = (severe \ {r}) \cup s
    /\ UNCHANGED <<now, enabled, alert, eval, ack, emails, overlapped, crashes>>

(* update_rule *)
Toggle(r) ==
    /\ Toggles
    /\ enabled' = IF r \in enabled THEN enabled \ {r} ELSE enabled \cup {r}
    /\ ended' = IF r \in enabled THEN ended \cup KeysOf(r) ELSE ended
    /\ UNCHANGED <<now, holds, severe, alert, eval, ack, emails, overlapped, crashes>>

Committed(k) == alert[k].state # "none" /\ alert[k].by = None

(* acknowledge reads the alert, then writes ACKNOWLEDGED over what is there. *)
AcknowledgeRead(k) ==
    /\ ack = None
    /\ Committed(k) /\ alert[k].state = "FIRING"
    /\ ack' = k
    /\ UNCHANGED <<world, alert, eval, history, crashes>>

AcknowledgeWrite ==
    /\ ack # None
    /\ alert' = [alert EXCEPT ![ack].state = "ACKNOWLEDGED"]
    /\ ack' = None
    /\ UNCHANGED <<world, eval, history, crashes>>

-----------------------------------------------------------------------------
(* One evaluation *)

Findings == {holds[r] : r \in enabled} \ {None}

(* rules_for, build_context and evaluate_all: what the detectors report.     *)
Start(e) ==
    /\ eval[e].pc = "idle"
    /\ eval' = [eval EXCEPT ![e] =
                  [NoEvaluation EXCEPT
                     !.pc = "raise", !.found = Findings, !.todo = Findings,
                     !.worst = {k \in Findings : RuleOf[k] \in severe}]]
    /\ overlapped' = (overlapped \/ \E d \in Evaluators : eval[d].pc # "idle")
    /\ UNCHANGED <<world, alert, ack, emails, ended, crashes>>

Visible(e, k) == alert[k].state # "none" /\ alert[k].by \in {None, e}

Fired(e, r) == {k \in KeysOf(r) : Visible(e, k)}

(* Mutant: only alerts still open keep their rule quiet.                     *)
Cooling_OpenOnly(e, r) ==
    \E k \in Fired(e, r) : alert[k].state = "FIRING" /\ alert[k].fired >= now - Cooldown

Cooling(e, r) == \E k \in Fired(e, r) : alert[k].fired >= now - Cooldown

(* Findings are raised in registry order.                                    *)
NextFinding(e) ==
    CHOOSE k \in eval[e].todo : \A q \in eval[e].todo : RuleOf[k] <= RuleOf[q]

(* _raise up to its decision: a known event at most reopens its alert, a     *)
(* quiet rule says nothing, and the rest is inserted.                        *)
Raise(e) ==
    LET k    == NextFinding(e)
        done == [eval[e] EXCEPT !.todo = @ \ {k}]
    IN  /\ eval[e].pc = "raise" /\ eval[e].todo # {}
        /\ eval' = [eval EXCEPT ![e] =
             IF Visible(e, k)
               THEN IF alert[k].state = "RESOLVED"
                      THEN [done EXCEPT !.reopen = @ \cup {k}] ELSE done
             ELSE IF Cooling(e, RuleOf[k]) THEN done
             ELSE [eval[e] EXCEPT !.pc = "insert"]]
        /\ UNCHANGED <<world, alert, ack, history, crashes>>

RollBack(e) ==
    /\ alert' = [k \in Keys |-> IF alert[k].by = e THEN NoAlert ELSE alert[k]]
    /\ eval' = [eval EXCEPT ![e] = NoEvaluation]
    /\ UNCHANGED <<world, ack, history>>

(* Mutant: no unique constraint on the dedupe key.                           *)
Taken_Unchecked(k) == FALSE

(* uq_alert_dedupe: another evaluation's uncommitted row makes this one      *)
(* wait; a committed one makes it fail.                                      *)
Taken(k) == Committed(k)

FiredAt == now

Insert(e) ==
    LET k == NextFinding(e)
    IN  /\ eval[e].pc = "insert"
        /\ alert[k].by = None
        /\ ~Taken(k)
        /\ alert' = [alert EXCEPT ![k] =
             [state |-> "FIRING", fired |-> FiredAt, by |-> e,
              severity |-> IF k \in eval[e].worst THEN "CRITICAL" ELSE "WARNING"]]
        /\ eval' = [eval EXCEPT ![e].pc = "raise", ![e].todo = @ \ {k}]
        /\ UNCHANGED <<world, ack, history, crashes>>

Collide(e) ==
    /\ eval[e].pc = "insert"
    /\ Taken(NextFinding(e))
    /\ RollBack(e)
    /\ UNCHANGED crashes

(* Mutant: only the rules that raised something new count as firing.         *)
StillFiring_NewOnly(e) == {RuleOf[k] : k \in {q \in eval[e].found : alert[q].by = e}}

StillFiring(e) == {RuleOf[k] : k \in eval[e].found}

(* Mutant: a rule that is switched off keeps its alerts as they are.         *)
Closable_EnabledOnly(e, k) == Committed(k) /\ alert[k].state = "FIRING"
                              /\ RuleOf[k] \in Stateful \cap enabled

Closable(e, k) == Committed(k) /\ alert[k].state = "FIRING" /\ RuleOf[k] \in Stateful

(* _resolve_cleared: open alerts of stateful rules that reported nothing.    *)
Resolve(e) ==
    /\ eval[e].pc = "raise" /\ eval[e].todo = {}
    /\ eval' = [eval EXCEPT ![e] = [@ EXCEPT !.pc = "deliver",
         !.close = {k \in Keys : Closable(e, k) /\ RuleOf[k] \notin StillFiring(e)}]]
    /\ UNCHANGED <<world, alert, ack, history, crashes>>

(* _deliver, for what this evaluation created and is severe enough: the mail *)
(* server takes the message or it is never tried again.                      *)
Deliver(e) ==
    /\ eval[e].pc = "deliver"
    /\ \E sent \in SUBSET {k \in Keys : alert[k].by = e /\ alert[k].severity \in Deliverable} :
         emails' = [k \in Keys |-> emails[k] + IF k \in sent THEN 1 ELSE 0]
    /\ eval' = [eval EXCEPT ![e].pc = "commit"]
    /\ UNCHANGED <<world, alert, ack, ended, overlapped, crashes>>

Commit(e) ==
    LET created == {k \in Keys : alert[k].by = e}
    IN  /\ eval[e].pc = "commit"
        /\ alert' = [k \in Keys |->
             CASE k \in created        -> [alert[k] EXCEPT !.by = None]
               [] k \in eval[e].reopen -> [alert[k] EXCEPT !.state = "FIRING"]
               [] k \in eval[e].close  -> [alert[k] EXCEPT !.state = "RESOLVED"]
               [] OTHER                -> alert[k]]
        /\ ended' = ended \ {k \in created \cup eval[e].reopen :
                               holds[RuleOf[k]] = k /\ RuleOf[k] \in enabled}
        /\ eval' = [eval EXCEPT ![e] = NoEvaluation]
        /\ UNCHANGED <<world, ack, emails, overlapped, crashes>>

(* The worker is killed, or the database or the client's connection goes.    *)
Crash(e) ==
    /\ eval[e].pc # "idle"
    /\ crashes < MaxCrashes
    /\ crashes' = crashes + 1
    /\ RollBack(e)

-----------------------------------------------------------------------------
Step(e) == Raise(e) \/ Insert(e) \/ Collide(e) \/ Resolve(e) \/ Deliver(e) \/ Commit(e)

Next ==
    \/ Tick \/ AcknowledgeWrite
    \/ \E r \in Rules : Change(r) \/ Toggle(r)
    \/ \E k \in Keys : AcknowledgeRead(k)
    \/ \E e \in Evaluators : Start(e) \/ Step(e) \/ Crash(e)

(* Beat keeps starting evaluations, and an evaluation runs to its end.       *)
Fairness == \A e \in Evaluators : WF_vars(Start(e)) /\ WF_vars(Step(e))

Spec     == Init /\ [][Next]_vars
FairSpec == Spec /\ Fairness

-----------------------------------------------------------------------------
(* Properties *)

(* Two events of one rule are never alerts closer together than the rule's   *)
(* cooldown, whatever was acknowledged, switched off and on or rolled back   *)
(* in between, as long as no two evaluations of the account were ever under  *)
(* way at once: the check of the cooldown and the insert are not one step.   *)
CooldownHolds ==
    ~overlapped =>
      \A k, q \in Keys :
        k # q /\ RuleOf[k] = RuleOf[q] /\ Committed(k) /\ Committed(q)
            => alert[k].fired > alert[q].fired + Cooldown
               \/ alert[q].fired > alert[k].fired + Cooldown

(* One event is one email, however many evaluations find it at once: the     *)
(* loser of the race for the row has sent nothing when it finds out.  Only   *)
(* an evaluation that dies between its email and its commit costs one more.  *)
OneEmailPerEvent == \A k \in Keys : emails[k] <= 1 + crashes

(* An alert is resolved only when its condition has really been absent, or   *)
(* its rule switched off, since it last fired, while evaluations do not      *)
(* overlap: no evaluation resolves an alert on the strength of what it saw   *)
(* before the alert fired again.                                             *)
ResolvedWasOver ==
    [][\A k \in Keys :
          (~overlapped /\ alert[k].state # "RESOLVED" /\ alert'[k].state = "RESOLVED")
            => k \in ended]_vars

(* A condition that is over stops being shown as firing, or comes back.      *)
OverStopsFiring ==
    \A k \in Keys :
        RuleOf[k] \in Stateful =>
            (Committed(k) /\ alert[k].state = "FIRING"
                ~> alert[k].state # "FIRING" \/ holds[RuleOf[k]] = k)
=============================================================================
