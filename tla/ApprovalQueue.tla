---------------------------- MODULE ApprovalQueue ----------------------------
(***************************************************************************)
(* The approval queue of the agent: agent/executor.py driven by the        *)
(* endpoints of api/v1/agent.py, by the agent's cycle and by the           *)
(* expire_approvals task of worker/tasks.py.                               *)
(*                                                                         *)
(* The actions that wait for a person here are PROPOSE_TOPIC (tier T1),    *)
(* the only type above T0 the agent may propose; its effect is a new row   *)
(* in topics.                                                              *)
(*                                                                         *)
(* A request reads an action, judges what it read, writes the decision     *)
(* (an UPDATE by primary key, which takes the row's lock until the end of  *)
(* the transaction), performs the action and commits.  Another request,    *)
(* the sweep and the clock get in between.  Column values are those        *)
(* committed; what a transaction has written is in its request.            *)
(***************************************************************************)
EXTENDS Integers

CONSTANTS
    Actions,      \* proposals the agent ever makes
    Names,        \* topic names
    Requests,     \* concurrent API requests
    Decisions,    \* what users do: subset of {"approve", "reject"}
    TTL,          \* APPROVAL_TTL_HOURS, in ticks
    MaxTime,      \* bound: the clock
    MaxCrashes,   \* bound: requests that die half way
    Unfit,        \* a name validate_payload refuses: empty, or too long
    None          \* absence: no action, no name

ASSUME QueueAssumption ==
    /\ TTL \in Nat /\ MaxTime \in Nat /\ MaxCrashes \in Nat
    /\ Decisions \subseteq {"approve", "reject"}
    /\ {Unfit, None} \cap (Actions \cup Names \cup Requests) = {}
    /\ Unfit # None

VARIABLES
    now,          \* the clock
    status,       \* agent_actions.status; "none" before the proposal
    name,         \* payload["name"]
    expiresAt,    \* agent_actions.expires_at
    topics,       \* names in the topics table
    locked,       \* the request holding each action's row lock, or None
    req,          \* what each request is doing
    made,         \* history: the actions whose topic was committed
    contended,    \* history: the actions two requests were open for at once
    crashes       \* requests that died so far

history == <<made, contended>>
vars    == <<now, status, name, expiresAt, topics, locked, req, history, crashes>>

Final    == {"REJECTED", "EXPIRED", "BLOCKED", "EXECUTED"}
Status   == Final \cup {"none", "PENDING_APPROVAL"}
Request  == [pc     : {"idle", "judge", "expire", "approve", "reject", "gate",
                       "perform", "commit"},
             action : Actions \cup {None},
             result : Final \cup {"none"},
             create : Names \cup {None}]
NoRequest == [pc |-> "idle", action |-> None, result |-> "none", create |-> None]

TypeOK ==
    /\ now \in Nat
    /\ status \in [Actions -> Status]
    /\ name \in [Actions -> Names \cup {Unfit, None}]
    /\ expiresAt \in [Actions -> Nat]
    /\ topics \subseteq Names
    /\ locked \in [Actions -> Requests \cup {None}]
    /\ req \in [Requests -> Request]
    /\ made \subseteq Actions /\ contended \subseteq Actions
    /\ crashes \in Nat

Init ==
    /\ now = 0
    /\ status = [a \in Actions |-> "none"]
    /\ name = [a \in Actions |-> None]
    /\ expiresAt = [a \in Actions |-> 0]
    /\ topics = {}
    /\ locked = [a \in Actions |-> None]
    /\ req = [r \in Requests |-> NoRequest]
    /\ made = {} /\ contended = {}
    /\ crashes = 0

-----------------------------------------------------------------------------
Tick ==
    /\ now < MaxTime
    /\ now' = now + 1
    /\ UNCHANGED <<status, name, expiresAt, topics, locked, req, history, crashes>>

(* propose, committed with the agent's cycle; the payload is not looked at.  *)
Propose(a) ==
    /\ status[a] = "none"
    /\ now + TTL <= MaxTime
    /\ \E n \in Names \cup {Unfit} : name' = [name EXCEPT ![a] = n]
    /\ status' = [status EXCEPT ![a] = "PENDING_APPROVAL"]
    /\ expiresAt' = [expiresAt EXCEPT ![a] = now + TTL]
    /\ UNCHANGED <<now, topics, locked, req, history, crashes>>

(* create_topic: the user adds a topic without the agent.                    *)
CreateTopic ==
    /\ \E n \in Names : n \notin topics /\ topics' = topics \cup {n}
    /\ UNCHANGED <<now, status, name, expiresAt, locked, req, history, crashes>>

Lapsed(a) == expiresAt[a] <= now

(* Mutant: the sweep does not look at the status it overwrites.              *)
Sweepable_AnyStatus(a) == status[a] # "none" /\ Lapsed(a)

(* Mutant: the sweep looks for a status that is never committed.             *)
Sweepable_Approved(a) == status[a] = "APPROVED" /\ Lapsed(a)

Sweepable(a) == status[a] = "PENDING_APPROVAL" /\ Lapsed(a)

(* expire_stale: one UPDATE ... WHERE, which waits for a locked row and then *)
(* evaluates its condition again.                                            *)
Sweep(a) ==
    /\ locked[a] = None
    /\ Sweepable(a)
    /\ status' = [status EXCEPT ![a] = "EXPIRED"]
    /\ UNCHANGED <<now, name, expiresAt, topics, locked, req, history, crashes>>

-----------------------------------------------------------------------------
(* Requests.  A request for an action that is not open is refused and        *)
(* changes nothing; it is not a step.                                        *)

Begin(r, a) ==
    /\ req[r].pc = "idle"
    /\ status[a] = "PENDING_APPROVAL"
    /\ \E d \in Decisions :
         req' = [req EXCEPT ![r] =
                   [NoRequest EXCEPT !.action = a,
                                     !.pc = IF d = "approve" THEN "judge" ELSE "reject"]]
    /\ contended' = contended \cup (IF \E q \in Requests : req[q].action = a THEN {a} ELSE {})
    /\ UNCHANGED <<now, status, name, expiresAt, topics, locked, made, crashes>>

(* approve: the window is judged on the row as it was read.                  *)
Judge(r) ==
    /\ req[r].pc = "judge"
    /\ req' = [req EXCEPT ![r].pc = IF Lapsed(req[r].action) THEN "expire" ELSE "approve"]
    /\ UNCHANGED <<now, status, name, expiresAt, topics, locked, history, crashes>>

(* A decision that ends the request: written and committed.                  *)
Decide(r, pc, s) ==
    LET a == req[r].action
    IN  /\ req[r].pc = pc
        /\ locked[a] = None
        /\ status' = [status EXCEPT ![a] = s]
        /\ req' = [req EXCEPT ![r] = NoRequest]
        /\ UNCHANGED <<now, name, expiresAt, topics, locked, history, crashes>>

ExpireInstead(r) == Decide(r, "expire", "EXPIRED")
Reject(r)        == Decide(r, "reject", "REJECTED")

(* approve: APPROVED is flushed, not committed; the row is locked.           *)
Approve(r) ==
    LET a == req[r].action
    IN  /\ req[r].pc = "approve"
        /\ locked[a] = None
        /\ locked' = [locked EXCEPT ![a] = r]
        /\ req' = [req EXCEPT ![r].pc = "gate"]
        /\ UNCHANGED <<now, status, name, expiresAt, topics, history, crashes>>

(* Mutant: the gate trusts the check the approval made.                      *)
GatePasses_Trusting(a) == TRUE

GatePasses(a) == ~Lapsed(a)

(* execute: the gate lets an approved action through inside its window only. *)
Gate(r) ==
    LET a == req[r].action
    IN  /\ req[r].pc = "gate"
        /\ req' = [req EXCEPT ![r] =
             IF GatePasses(a) THEN [@ EXCEPT !.pc = "perform"]
             ELSE [@ EXCEPT !.pc = "commit", !.result = "EXPIRED"]]
        /\ UNCHANGED <<now, status, name, expiresAt, topics, locked, history, crashes>>

(* validate_payload *)
Fits(a) == name[a] # Unfit

(* _perform: a topic that exists is left alone.                              *)
Perform(r) ==
    LET a == req[r].action
        n == name[a]
    IN  /\ req[r].pc = "perform"
        /\ req' = [req EXCEPT ![r] =
             IF Fits(a) THEN [@ EXCEPT !.pc = "commit", !.result = "EXECUTED",
                                       !.create = IF n \in topics THEN None ELSE n]
             ELSE [@ EXCEPT !.pc = "commit", !.result = "BLOCKED"]]
        /\ UNCHANGED <<now, status, name, expiresAt, topics, locked, history, crashes>>

End(r) ==
    /\ req' = [req EXCEPT ![r] = NoRequest]
    /\ locked' = [a \in Actions |-> IF locked[a] = r THEN None ELSE locked[a]]

(* Mutant: no unique constraint on the name.                                 *)
NameTaken_Unchecked(r) == FALSE

(* The name is unique: when somebody else created it meanwhile, everything   *)
(* the request did is rolled back, the approval too.                         *)
NameTaken(r) == req[r].create \in topics

Commit(r) ==
    LET a == req[r].action
    IN  /\ req[r].pc = "commit"
        /\ ~NameTaken(r)
        /\ status' = [status EXCEPT ![a] = req[r].result]
        /\ topics' = topics \cup ({req[r].create} \ {None})
        /\ made' = made \cup (IF req[r].create = None THEN {} ELSE {a})
        /\ End(r)
        /\ UNCHANGED <<now, name, expiresAt, contended, crashes>>

RollBack(r) ==
    /\ End(r)
    /\ UNCHANGED <<now, status, name, expiresAt, topics, history>>

Conflict(r) == req[r].pc = "commit" /\ NameTaken(r) /\ RollBack(r) /\ UNCHANGED crashes

(* The process dies, or the client's connection and its task with it.        *)
Crash(r) ==
    /\ req[r].pc # "idle"
    /\ crashes < MaxCrashes
    /\ crashes' = crashes + 1
    /\ RollBack(r)

-----------------------------------------------------------------------------
Advance(r) ==
    \/ Judge(r) \/ ExpireInstead(r) \/ Reject(r) \/ Approve(r)
    \/ Gate(r) \/ Perform(r) \/ Commit(r) \/ Conflict(r)

Next ==
    \/ Tick \/ CreateTopic
    \/ \E a \in Actions : Propose(a) \/ Sweep(a)
    \/ \E r \in Requests :
         \/ Advance(r) \/ Crash(r)
         \/ \E a \in Actions : Begin(r, a)

(* Beat runs the sweep, time passes, and a request runs to its end; nothing  *)
(* makes the agent propose or a user decide.                                 *)
Fairness ==
    /\ WF_vars(Tick)
    /\ \A a \in Actions : WF_vars(Sweep(a))
    /\ \A r \in Requests : WF_vars(Advance(r))

Spec     == Init /\ [][Next]_vars
FairSpec == Spec /\ Fairness

-----------------------------------------------------------------------------
(* Properties *)

(* The outcome of an action is final while its requests come one at a time, *)
(* whatever the sweep and the clock do meanwhile: what was executed stays    *)
(* executed, and what was rejected, expired or blocked never takes effect.   *)
(* (A rejection that read the action before the sweep did replaces EXPIRED   *)
(* by REJECTED.)                                                             *)
Dead == Final \ {"EXECUTED"}
OutcomeIsFinal ==
    [][\A a \in Actions \ contended :
          /\ status[a] = "EXECUTED" => status'[a] = "EXECUTED"
          /\ status[a] \in Dead => status'[a] \in Dead]_vars

(* Even among any number of racing requests, an action that the queue showed *)
(* as expired is never executed: an approval that read it in time meets the  *)
(* gate, under the row's lock, and is expired there.                         *)
ExpiredStaysDead ==
    [][\A a \in Actions : status[a] = "EXPIRED" => status'[a] # "EXECUTED"]_vars

(* An action's record and its effect agree: the topic it created is there,   *)
(* and while its requests come one at a time the queue shows it as executed, *)
(* never as expired or still pending.                                        *)
EffectIsRecorded ==
    \A a \in made : /\ name[a] \in topics
                    /\ a \notin contended => status[a] = "EXECUTED"

(* However many requests race, a proposal takes effect at most once, and     *)
(* never on the same topic as another.                                       *)
OneEffectPerTopic ==
    \A a, b \in made : name[a] = name[b] => a = b

(* No proposal waits for ever: decided or not, it leaves the queue.          *)
NothingPendsForever ==
    \A a \in Actions :
        status[a] = "PENDING_APPROVAL" ~> status[a] # "PENDING_APPROVAL"
=============================================================================
