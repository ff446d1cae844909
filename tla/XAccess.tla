------------------------------- MODULE XAccess -------------------------------
(***************************************************************************)
(* What the application believes about its access to the X API, and what   *)
(* that belief lets through: the outbound rate limiter                     *)
(* (integrations/x/ratelimit.py), the gates and the retry loop of the      *)
(* client (integrations/x/client.py) and the capability probe              *)
(* (integrations/x/probe.py), for one account and the timeline endpoint.   *)
(*                                                                         *)
(* A worker is a process.  It reads the timeline for the collector, or it  *)
(* probes: the profile first, then the timeline, then it stores what it    *)
(* has learnt.  X counts requests in windows, and its answers say how many *)
(* are left and when the window turns.  The last answer is shared by all   *)
(* workers in a Redis hash with a time to live, and mirrored in each.      *)
(*                                                                         *)
(* Time is kept as ticks that are left, so that it needs no bound.         *)
(***************************************************************************)
EXTENDS Integers, FiniteSets

CONSTANTS
    Workers,
    Collectors,  \* of Workers: those that read the timeline for the collector
    Probers,     \* of Workers: those that probe
    Scheduled,   \* of Probers: those that beat keeps asking to
    Quota,       \* requests X allows per window
    Window,      \* length of X's window
    KeyTTL,      \* _STATE_TTL_SECONDS: time to live of a learnt limit
    MaxRetries,  \* MAX_RETRIES
    MaxFaults,   \* bound: requests or answers lost, server errors, dead workers
    None

ASSUME AccessAssumption ==
    /\ IsFiniteSet(Workers)
    /\ Collectors \subseteq Workers /\ Probers \subseteq Workers /\ Scheduled \subseteq Probers
    /\ Quota \in Nat \ {0} /\ Window \in Nat \ {0} /\ KeyTTL \in Nat
    /\ Window < KeyTTL
    /\ MaxRetries \in Nat \ {0} /\ MaxFaults \in Nat
    /\ None \notin Int

VARIABLES
    xleft, xwin,   \* X: requests left in the window, ticks until it turns
    grants,        \* X: whether this account may read its timeline
    up,            \* whether Redis answers
    key,           \* the Redis hash
    mirror,        \* _local_state of each process
    cap,           \* the READ_OWN_POSTS row of account_capabilities
    job,           \* what each worker is doing
    faults,
    unheard,       \* history: requests counted in this window that never reached X
    overlapped,    \* history: two probes were under way at once
    denied         \* history: before that, X has refused the timeline since
                   \* AVAILABLE was stored

world   == <<xleft, xwin, grants>>
limiter == <<key, mirror>>
history == <<unheard, denied, overlapped>>
vars    == <<world, up, limiter, cap, job, faults, history>>

Status   == {"UNKNOWN", "AVAILABLE", "UNAVAILABLE", "FORBIDDEN", "ERROR"}
Settled  == {"AVAILABLE", "UNAVAILABLE", "FORBIDDEN"}
Refusing == {"UNAVAILABLE", "FORBIDDEN"}

Ticks   == 0..KeyTTL
Limit   == [left : -1..Quota, reset : 0..Window \cup {None}]           \* RateLimitState
Key     == [left : -1..Quota, reset : 0..Window \cup {None}, ttl : Ticks \cup {None}]

Denials == {"403"}
Codes   == {"200", "401", "429", "500"} \cup Denials

ASSUME NoneIsNoAnswer == None \notin Status \cup Codes \cup {"404"}

(* Job: where a worker is, the attempt it makes, the answer it holds and the *)
(* limit that came with it, and what a probe found and will write.           *)
Job == [task : {"none", "collect", "probe"},
        pc : {"idle", "gate", "consume", "decrement", "send", "record",
              "persist", "commit"},
        try : 0..MaxRetries, code : Codes \cup {"network", None}, told : Limit \cup {None},
        found : Status \cup {None},
        fresh : BOOLEAN]     \* the row did not exist when it read it
Idle == [task |-> "none", pc |-> "idle", try |-> 0, code |-> None, told |-> None,
         found |-> None, fresh |-> FALSE]

TypeOK ==
    /\ xleft \in 0..Quota /\ xwin \in 1..Window
    /\ grants \in BOOLEAN
    /\ up \in BOOLEAN
    /\ key \in Key \cup {None}
    /\ mirror \in [Workers -> Limit \cup {None}]
    /\ cap \in Status \cup {None}
    /\ job \in [Workers -> Job]
    /\ faults \in 0..MaxFaults /\ unheard \in Nat
    /\ denied \in BOOLEAN /\ overlapped \in BOOLEAN

Init ==
    /\ xleft = Quota /\ xwin = Window
    /\ grants \in BOOLEAN
    /\ up = TRUE
    /\ key = None
    /\ mirror = [w \in Workers |-> None]
    /\ cap = None
    /\ job = [w \in Workers |-> Idle]
    /\ faults = 0 /\ unheard = 0
    /\ denied = FALSE /\ overlapped = FALSE

-----------------------------------------------------------------------------
(* The world *)

Less(t) == IF t = None \/ t = 0 THEN t ELSE t - 1

Aged(limit) == IF limit = None THEN None ELSE [limit EXCEPT !.reset = Less(@)]

KeyAfterTick ==
    IF key = None \/ key.ttl = 1 THEN None
    ELSE [key EXCEPT !.reset = Less(@), !.ttl = Less(@)]

Tick ==
    /\ xwin' = IF xwin = 1 THEN Window ELSE xwin - 1
    /\ xleft' = IF xwin = 1 THEN Quota ELSE xleft
    /\ unheard' = IF xwin = 1 THEN 0 ELSE unheard
    /\ key' = KeyAfterTick
    /\ mirror' = [w \in Workers |-> Aged(mirror[w])]
    /\ job' = [w \in Workers |-> [job[w] EXCEPT !.told = Aged(@)]]
    /\ UNCHANGED <<grants, up, cap, faults, denied, overlapped>>

ChangeAccess ==
    /\ grants' = ~grants
    /\ UNCHANGED <<xleft, xwin, up, limiter, cap, job, faults, history>>

RedisFails ==
    /\ up /\ faults < MaxFaults
    /\ up' = FALSE /\ faults' = faults + 1
    /\ UNCHANGED <<world, limiter, cap, job, history>>

RedisReturns ==
    /\ ~up
    /\ up' = TRUE
    /\ UNCHANGED <<world, limiter, cap, job, faults, history>>

-----------------------------------------------------------------------------
(* The limiter *)

(* Mutant: the window's end is not looked at.                                *)
Exhausted_ForGood(limit) == limit.left <= 0

(* is_exhausted: nothing left, and the window has not turned or is unknown. *)
Exhausted(limit) == limit.left <= 0 /\ limit.reset # 0

(* check: the shared state, or the worker's own when Redis is gone.          *)
Closed(w) ==
    IF up THEN key # None /\ Exhausted(key)
    ELSE mirror[w] # None /\ Exhausted(mirror[w])

Set(w, fields) == job' = [job EXCEPT ![w] = fields]

CountedDown(limit) == [limit EXCEPT !.left = IF @ > 0 THEN @ - 1 ELSE 0]

(* consume, up to EXISTS: the mirror is counted down first.                  *)
Consume(w) ==
    /\ job[w].pc = "consume"
    /\ mirror' = [mirror EXCEPT ![w] = IF @ = None THEN None ELSE CountedDown(@)]
    /\ Set(w, [job[w] EXCEPT !.pc = IF up /\ key # None THEN "decrement" ELSE "send"])
    /\ UNCHANGED <<world, up, key, cap, faults, history>>

(* HINCRBY: it creates the hash anew when it has expired since.  Below zero  *)
(* all counts read alike.                                                    *)
Decrement(w) ==
    /\ job[w].pc = "decrement"
    /\ key' = IF ~up THEN key
              ELSE IF key = None THEN [left |-> -1, reset |-> None, ttl |-> None]
              ELSE [key EXCEPT !.left = IF @ < 0 THEN @ ELSE @ - 1]
    /\ Set(w, [job[w] EXCEPT !.pc = "send"])
    /\ UNCHANGED <<world, up, mirror, cap, faults, history>>

(* record: an answer without the headers teaches nothing.                    *)
Learn(w, told) ==
    /\ mirror' = IF told = None THEN mirror ELSE [mirror EXCEPT ![w] = told]
    /\ key' = IF told = None \/ ~up THEN key
              ELSE [left |-> told.left, reset |-> told.reset, ttl |-> KeyTTL]

-----------------------------------------------------------------------------
(* The client *)

StartCollect(w) ==
    /\ w \in Collectors /\ job[w].pc = "idle"
    /\ Set(w, [Idle EXCEPT !.task = "collect", !.pc = "gate"])
    /\ UNCHANGED <<world, up, limiter, cap, faults, history>>

Overlap(w) ==
    /\ overlapped' = (overlapped \/ \E v \in Workers \ {w} : job[v].task = "probe")
    /\ denied' = (denied /\ ~overlapped')

(* On demand, after connecting, or weekly.  The profile is read first.       *)
StartProbe(w) ==
    /\ w \in Probers /\ job[w].pc = "idle"
    /\ Set(w, [Idle EXCEPT !.task = "probe", !.pc = "gate"])
    /\ Overlap(w)
    /\ UNCHANGED <<world, up, limiter, cap, faults, unheard>>

(* _probe_profile: without the profile nothing else is asked.                *)
ProfileFails(w) ==
    /\ w \in Probers /\ job[w].pc = "idle" /\ faults < MaxFaults
    /\ faults' = faults + 1
    /\ Set(w, [Idle EXCEPT !.task = "probe", !.pc = "persist", !.found = "UNKNOWN"])
    /\ Overlap(w)
    /\ UNCHANGED <<world, up, limiter, cap, unheard>>

(* Mutant: a rate limit is taken for an answer.                              *)
Classified_Rate(ending) ==
    CASE ending = "200"               -> "AVAILABLE"
      [] ending = "403"               -> "FORBIDDEN"
      [] ending \in {"404", "rate"}   -> "UNAVAILABLE"
      [] ending \in {"429", "budget"} -> "UNKNOWN"
      [] OTHER                        -> "ERROR"

(* _probe_posts_and_metrics and _classify                                    *)
Classified(ending) ==
    CASE ending = "200"                       -> "AVAILABLE"
      [] ending = "403"                       -> "FORBIDDEN"
      [] ending = "404"                       -> "UNAVAILABLE"
      [] ending \in {"rate", "429", "budget"} -> "UNKNOWN"
      [] OTHER                                -> "ERROR"

(* A request ends: a collection run with it, a probe goes on to its rows.    *)
Ended(w, ending) ==
    IF job[w].task = "probe"
      THEN [Idle EXCEPT !.task = "probe", !.pc = "persist", !.found = Classified(ending)]
      ELSE Idle

(* The gates of request, in their order.                                     *)
GateRefuses(w) ==
    /\ job[w].pc = "gate"
    /\ \/ cap \in Refusing /\ Set(w, Ended(w, "capability"))
       \/ cap \notin Refusing /\ Set(w, Ended(w, "budget"))
       \/ cap \notin Refusing /\ Closed(w) /\ Set(w, Ended(w, "rate"))
    /\ UNCHANGED <<world, up, limiter, cap, faults, history>>

GatePasses(w) ==
    /\ job[w].pc = "gate"
    /\ cap \notin Refusing /\ ~Closed(w)
    /\ Set(w, [job[w] EXCEPT !.pc = "consume"])
    /\ UNCHANGED <<world, up, limiter, cap, faults, history>>

(* X handles the request, and its answer carries the limit.                  *)
Answer(w) ==
    /\ job[w].pc = "send"
    /\ \E code \in IF xleft = 0 THEN {"429"} ELSE IF grants THEN {"200"} ELSE Denials :
         /\ Set(w, [job[w] EXCEPT !.pc = "record", !.code = code,
                       !.told = [left |-> IF xleft = 0 THEN 0 ELSE xleft - 1, reset |-> xwin]])
         /\ denied' = (~overlapped /\ (denied \/ code \in Denials))
    /\ xleft' = IF xleft = 0 THEN 0 ELSE xleft - 1
    /\ UNCHANGED <<xwin, grants, up, limiter, cap, faults, unheard, overlapped>>

(* The request or its answer is lost, or X fails.                            *)
Fault(w) ==
    /\ job[w].pc = "send" /\ faults < MaxFaults
    /\ faults' = faults + 1
    /\ \/ \E counted \in {0, 1} :
             /\ xleft >= counted
             /\ xleft' = xleft - counted /\ unheard' = unheard + (1 - counted)
             /\ Set(w, [job[w] EXCEPT !.pc = "record", !.code = "network"])
       \/ \E code \in {"401", "500"} :
             /\ Set(w, [job[w] EXCEPT !.pc = "record", !.code = code])
             /\ unheard' = unheard + 1
             /\ UNCHANGED xleft
    /\ UNCHANGED <<xwin, grants, up, limiter, cap, denied, overlapped>>

Retried == {"network", "429", "500"}

(* Back in the loop: the limit is recorded; a failure that may pass is tried *)
(* again without another look at the gates.                                  *)
Receive(w) ==
    /\ job[w].pc = "record"
    /\ Learn(w, job[w].told)
    /\ IF job[w].code \in Retried /\ job[w].try + 1 < MaxRetries
         THEN Set(w, [job[w] EXCEPT !.pc = "consume", !.try = @ + 1,
                                    !.code = None, !.told = None])
         ELSE Set(w, Ended(w, job[w].code))
    /\ UNCHANGED <<world, up, cap, faults, history>>

-----------------------------------------------------------------------------
(* The probe *)

(* Mutant: a failure is kept from overwriting what is settled, too.          *)
Inconclusive_Error(status) == status \in {"UNKNOWN", "ERROR"}

Inconclusive(status) == status = "UNKNOWN"

(* _persist: "don't know" leaves a settled row as it is.                     *)
Persist(w) ==
    /\ job[w].pc = "persist"
    /\ Set(w, [job[w] EXCEPT
          !.pc = "commit", !.fresh = (cap = None),
          !.found = IF Inconclusive(@) /\ cap \in Settled THEN None ELSE @])
    /\ UNCHANGED <<world, up, limiter, cap, faults, history>>

Commit(w) ==
    /\ job[w].pc = "commit"
    /\ job[w].fresh => cap = None
    /\ cap' = IF job[w].found = None THEN cap ELSE job[w].found
    /\ denied' = (denied /\ job[w].found # "AVAILABLE")
    /\ Set(w, Idle)
    /\ UNCHANGED <<world, up, limiter, faults, unheard, overlapped>>

(* uq_capability_per_account: another probe has inserted the row.            *)
Collide(w) ==
    /\ job[w].pc = "commit"
    /\ job[w].fresh /\ cap # None
    /\ Set(w, Idle)
    /\ UNCHANGED <<world, up, limiter, cap, faults, history>>

(* The worker dies: its transaction is gone, and the mirror with it.         *)
Crash(w) ==
    /\ job[w].pc # "idle" /\ faults < MaxFaults
    /\ faults' = faults + 1
    /\ unheard' = unheard + (IF job[w].pc = "send" THEN 1 ELSE 0)
    /\ mirror' = [mirror EXCEPT ![w] = None]
    /\ Set(w, Idle)
    /\ UNCHANGED <<world, up, key, cap, denied, overlapped>>

-----------------------------------------------------------------------------
Step(w) == \/ GateRefuses(w) \/ GatePasses(w) \/ Consume(w) \/ Decrement(w)
           \/ Answer(w) \/ Receive(w)
           \/ Persist(w) \/ Commit(w) \/ Collide(w)

Next ==
    \/ Tick \/ ChangeAccess \/ RedisFails \/ RedisReturns
    \/ \E w \in Workers : \/ StartCollect(w) \/ StartProbe(w) \/ Step(w)
                          \/ Fault(w) \/ ProfileFails(w) \/ Crash(w)

(* Beat keeps starting probes, and such a run goes on.                       *)
Fairness == \A w \in Scheduled : WF_vars(Step(w)) /\ WF_vars(StartProbe(w))

Spec     == Init /\ [][Next]_vars
FairSpec == Spec /\ Fairness

-----------------------------------------------------------------------------
(* Properties *)

(* The counter that Decrement recreates has neither a reset time nor a time  *)
(* to live: whoever reads it is refused until some answer overwrites it.     *)
Wedged == key # None /\ key.ttl = None

InFlight == {w \in Workers : job[w].pc \in {"decrement", "send"}}

(* The limiter refuses a request only when every request X would still allow *)
(* in this window is spoken for: by one that is on its way, or by one that   *)
(* was counted and never reached X; and it refuses until the window turns,   *)
(* no longer.  However answers are reordered, workers restart and Redis      *)
(* comes and goes, only a wedged counter refuses more.                       *)
RefusesOnlyTheSpent ==
    \A w \in Workers :
        Closed(w) /\ ~(up /\ Wedged) =>
            /\ xleft <= Cardinality(InFlight) + unheard
            /\ (IF up THEN key.reset ELSE mirror[w].reset) = xwin

(* What the probe records as refused for good was refused by X, since it was *)
(* last recorded as available, while probes do not overlap: no failure that  *)
(* passes closes the gate to the timeline.                                   *)
RefusalIsXs == cap \in Refusing /\ ~overlapped => denied

(* An account that may read its timeline again is not kept from it for ever  *)
(* by what was recorded before, although the probe's own request goes        *)
(* through the gate that the record closes.                                  *)
AccessComesBack ==
    cap \in Refusing /\ grants ~> cap \notin Refusing \/ ~grants
=============================================================================
