---------------------------- MODULE TokenRefresh ----------------------------
(***************************************************************************)
(* The rotating OAuth credential of one X account, as                      *)
(* services/x_account_service.py keeps it alive: get_valid_access_token    *)
(* called by several workers, the Redis lock that serialises refreshes,    *)
(* the exchange at X's token endpoint, and the user disconnecting and      *)
(* reconnecting meanwhile.                                                 *)
(*                                                                         *)
(* Token pairs are numbered in the order X issues them; a pair's access    *)
(* token and refresh token have the same number, and 0 is no token.  A     *)
(* refresh token is single-use: X accepts the tokens in "valid", and       *)
(* accepting one replaces it by the token of a new pair.                   *)
(*                                                                         *)
(* A call is split at its awaits: the wait for the lock, the re-reads, the *)
(* request to X, its answer, the lookup and the commit of the new pair,    *)
(* and the two commands that release the lock.                             *)
(***************************************************************************)
EXTENDS Integers, FiniteSets

CONSTANTS
    Workers,      \* processes calling get_valid_access_token
    MaxPair,      \* bound: token pairs X ever issues
    LockTTL,      \* _LOCK_TTL_SECONDS, in ticks
    LockWait,     \* _LOCK_WAIT_SECONDS, in ticks
    HoldMax,      \* ticks a call takes at most once past the lock
    Faults,       \* kinds of fault that happen: see FaultKinds
    MaxFaults,    \* bound: faults in a behaviour
    Offline,      \* values of "offline.access was granted"
    NoOne         \* the owner of a free lock

FaultKinds == {"redis", "xerror", "lost", "crash"}

ASSUME TokenAssumption ==
    /\ MaxPair \in Nat /\ MaxFaults \in Nat
    /\ LockTTL \in Nat \ {0} /\ LockWait \in Nat /\ HoldMax \in Nat
    /\ Faults \subseteq FaultKinds
    /\ Offline \subseteq BOOLEAN
    /\ NoOne \notin Workers

VARIABLES
    row,          \* the committed oauth_tokens row of the account
    active,       \* x_accounts.is_active
    valid,        \* X: refresh tokens X accepts
    issued,       \* X: number of the newest pair
    expired,      \* pairs whose access token is inside REFRESH_MARGIN
    lock,         \* Redis: the lock's owner and its time to live
    call,         \* what each worker is doing, and its session's row
    spentTwice,   \* history: refresh tokens X was given when not valid
    lost,         \* history: refresh tokens spent, replacement not stored
    revoked,      \* history: refresh tokens revoked by a disconnect
    outrun,       \* history: how the lock failed to guard: see Outrun
    faults        \* faults so far

xVars   == <<valid, issued>>
history == <<spentTwice, lost, revoked, outrun>>
vars    == <<row, active, xVars, expired, lock, call, history, faults>>

Pairs == 1 .. MaxPair
Token == 0 .. MaxPair

(* A row is told from its successors by its primary key.                     *)
Row    == [id : Token, access : Token, refresh : Token]
NoRow  == [id |-> 0, access |-> 0, refresh |-> 0]

NoLock == [owner |-> NoOne, ttl |-> 0]

Past == {"check", "send", "answer", "save", "release", "delete"}

(* A caller went on after its wait, or without Redis; a lock expired under   *)
(* the call that held it.                                                    *)
Outrun == {"wait", "redis", "hold"}

Call == [pc      : Past \cup {"idle", "wait", "sleep"},
         elapsed : Nat,       \* ticks in the wait, or past the lock
         mine    : BOOLEAN,   \* the lock was acquired in Redis
         copy    : Row,       \* the row as the session read it, or NoRow
         got     : Token,     \* the pair X answered with
         found   : Token]     \* id of the row _store_tokens selected, or 0

NoCall == [pc |-> "idle", elapsed |-> 0, mine |-> FALSE, copy |-> NoRow,
           got |-> 0, found |-> 0]

TypeOK ==
    /\ row \in Row
    /\ active \in BOOLEAN
    /\ valid \subseteq Pairs
    /\ issued \in Token
    /\ expired \subseteq Pairs
    /\ lock \in [owner : Workers \cup {NoOne}, ttl : 0 .. LockTTL]
    /\ call \in [Workers -> Call]
    /\ spentTwice \subseteq Token /\ lost \subseteq Token /\ revoked \subseteq Pairs
    /\ outrun \subseteq Outrun
    /\ faults \in Nat

Init ==
    /\ row = NoRow
    /\ active = FALSE
    /\ valid = {} /\ issued = 0
    /\ expired = {}
    /\ lock = NoLock
    /\ call = [w \in Workers |-> NoCall]
    /\ spentTwice = {} /\ lost = {} /\ revoked = {} /\ outrun = {}
    /\ faults = 0

-----------------------------------------------------------------------------
(* Helpers *)

(* _needs_refresh *)
NeedsRefresh(r) == r.access \in expired

(* db.refresh raises when the row it reloads is gone.                        *)
Gone(w) == row.id = 0 \/ row.id # call[w].copy.id

(* Mutant: the row is not read again inside the lock.                        *)
Reread_Cached(w) == call[w].copy

Reread(w) == row

(* The end of a call, through the lock's "finally"; c is the row the session *)
(* keeps, NoRow when an exception ends the session.                          *)
Leave(w, c) ==
    [NoCall EXCEPT !.pc      = IF call[w].mine THEN "release" ELSE "idle",
                   !.elapsed = IF call[w].mine THEN call[w].elapsed ELSE 0,
                   !.mine    = call[w].mine,
                   !.copy    = c]

Fault(kind) ==
    /\ kind \in Faults /\ faults < MaxFaults
    /\ faults' = faults + 1

-----------------------------------------------------------------------------
(* The environment *)

Waits(w)  == call[w].pc = "wait" /\ call[w].elapsed < LockWait
InPast(w) == call[w].pc \in Past \cup {"sleep"}

LockAfterTick ==
    IF lock.ttl <= 1 THEN NoLock ELSE [lock EXCEPT !.ttl = @ - 1]

Outlived(w) == InPast(w) /\ lock.owner = w /\ LockAfterTick.owner # w

(* A tick is much longer than the 0.25 s between two attempts at the lock:   *)
(* no waiter leaves a free lock alone for a whole tick.                      *)
Tick ==
    /\ \A w \in Workers : Waits(w) => lock # NoLock
    /\ \A w \in Workers : InPast(w) => call[w].elapsed < HoldMax
    /\ lock' = LockAfterTick
    /\ call' = [w \in Workers |->
                  [call[w] EXCEPT !.elapsed = IF Waits(w) \/ InPast(w)
                                              THEN @ + 1 ELSE @]]
    /\ outrun' = IF \E w \in Workers : Outlived(w) THEN outrun \cup {"hold"} ELSE outrun
    /\ UNCHANGED <<row, active, xVars, expired, spentTwice, lost, revoked, faults>>

(* Bound: pairs are left for every token that may still be presented.        *)
Room(n) == issued + n + Cardinality(valid) <= MaxPair

(* An access token lives for hours, a call and its lock for a minute: no     *)
(* pair comes near its expiry while a call that may have seen it issued, or  *)
(* the lock of such a call, is still there.                                  *)
Expire ==
    \E p \in 1 .. issued :
        /\ p \notin expired
        /\ Room(0)
        /\ lock = NoLock /\ \A w \in Workers : call[w].pc = "idle"
        /\ expired' = expired \cup {p}
        /\ UNCHANGED <<row, active, xVars, lock, call, history, faults>>

(* complete_authorization: a new grant at X, stored in the existing row when *)
(* there is one.  Without offline.access the answer has no refresh token,    *)
(* and an existing row keeps the one it has.                                 *)
Connect ==
    /\ Room(1)
    /\ issued' = issued + 1
    /\ \E offline \in Offline :
         /\ valid' = valid \cup (IF offline THEN {issued'} ELSE {})
         /\ row' = [id      |-> IF row.id = 0 THEN issued' ELSE row.id,
                    access  |-> issued',
                    refresh |-> IF offline THEN issued' ELSE row.refresh]
    /\ active' = TRUE
    /\ UNCHANGED <<expired, lock, call, history, faults>>

(* disconnect: the revocation is best effort.                                *)
Disconnect ==
    /\ active
    /\ row' = NoRow
    /\ active' = FALSE
    /\ \E r \in {{}, valid} : valid' = valid \ r /\ revoked' = revoked \cup r
    /\ UNCHANGED <<issued, expired, lock, call, spentTwice, lost, outrun, faults>>

-----------------------------------------------------------------------------
(* get_valid_access_token *)

(* A SELECT finds a row the session already holds without reloading it.      *)
Load(w) ==
    LET c == IF row.id # 0 /\ row.id = call[w].copy.id THEN call[w].copy ELSE row
    IN  /\ call[w].pc = "idle"
        /\ call' = [call EXCEPT ![w] =
             IF NeedsRefresh(c) /\ c.refresh # 0
             THEN [NoCall EXCEPT !.pc = "wait", !.copy = c]
             ELSE [NoCall EXCEPT !.copy = IF NeedsRefresh(c) THEN NoRow ELSE c]]
        /\ UNCHANGED <<row, active, xVars, expired, lock, history, faults>>

(* The session of a task or request ends; the next one starts afresh.        *)
EndSession(w) ==
    /\ call[w].pc = "idle"
    /\ call' = [call EXCEPT ![w] = NoCall]
    /\ UNCHANGED <<row, active, xVars, expired, lock, history, faults>>

(* SET NX EX *)
Acquire(w) ==
    /\ Waits(w)
    /\ lock = NoLock
    /\ lock' = [owner |-> w, ttl |-> LockTTL]
    /\ call' = [call EXCEPT ![w] = [@ EXCEPT !.pc = "check", !.mine = TRUE, !.elapsed = 0]]
    /\ UNCHANGED <<row, active, xVars, expired, history, faults>>

(* The wait is over without the lock: the caller sleeps a second.            *)
GiveUp(w) ==
    /\ call[w].pc = "wait" /\ ~Waits(w)
    /\ call' = [call EXCEPT ![w] = [@ EXCEPT !.pc = "sleep", !.elapsed = 0]]
    /\ UNCHANGED <<row, active, xVars, expired, lock, history, faults>>

(* Redis is unavailable: the caller goes on as if it had the lock.           *)
NoRedis(w) ==
    /\ call[w].pc = "wait"
    /\ Fault("redis")
    /\ outrun' = outrun \cup {"redis"}
    /\ call' = [call EXCEPT ![w] = [@ EXCEPT !.pc = "check", !.elapsed = 0]]
    /\ UNCHANGED <<row, active, xVars, expired, lock, spentTwice, lost, revoked>>

(* The result of the refresh the caller waited for; or, when there is none,  *)
(* on to the refresh itself.                                                 *)
Wake(w) ==
    /\ call[w].pc = "sleep"
    /\ call' = [call EXCEPT ![w] =
         IF Gone(w) THEN Leave(w, NoRow)
         ELSE IF NeedsRefresh(row) THEN [@ EXCEPT !.pc = "check", !.copy = row]
         ELSE Leave(w, row)]
    /\ outrun' = IF call'[w].pc = "check" THEN outrun \cup {"wait"} ELSE outrun
    /\ UNCHANGED <<row, active, xVars, expired, lock, spentTwice, lost, revoked, faults>>

(* The re-read inside the lock.                                              *)
Check(w) ==
    /\ call[w].pc = "check"
    /\ call' = [call EXCEPT ![w] =
         IF Gone(w) THEN Leave(w, NoRow)
         ELSE IF NeedsRefresh(Reread(w)) THEN [@ EXCEPT !.pc = "send", !.copy = Reread(w)]
         ELSE Leave(w, Reread(w))]
    /\ UNCHANGED <<row, active, xVars, expired, lock, history, faults>>

-----------------------------------------------------------------------------
(* _do_refresh *)

(* X handles the exchange.                                                   *)
Present(w) ==
    LET t == call[w].copy.refresh
    IN  /\ call[w].pc = "send"
        /\ \/ /\ t \in valid /\ issued < MaxPair
              /\ issued' = issued + 1
              /\ valid' = (valid \ {t}) \cup {issued'}
              /\ call' = [call EXCEPT ![w] = [@ EXCEPT !.pc = "answer", !.got = issued']]
              /\ UNCHANGED spentTwice
           \/ /\ t \notin valid
              /\ spentTwice' = spentTwice \cup {t}
              /\ call' = [call EXCEPT ![w] = [@ EXCEPT !.pc = "answer", !.got = 0]]
              /\ UNCHANGED xVars
        /\ UNCHANGED <<row, active, expired, lock, lost, revoked, outrun, faults>>

(* X fails without using the token up.                                       *)
XError(w) ==
    /\ call[w].pc = "send"
    /\ Fault("xerror")
    /\ call' = [call EXCEPT ![w] = [@ EXCEPT !.pc = "answer", !.got = 0]]
    /\ UNCHANGED <<row, active, xVars, expired, lock, history>>

(* An error answer is raised (and counted on the row, which no other step    *)
(* here reads).                                                              *)
Rejected(w) ==
    /\ call[w].pc = "answer" /\ call[w].got = 0
    /\ call' = [call EXCEPT ![w] = Leave(w, NoRow)]
    /\ UNCHANGED <<row, active, xVars, expired, lock, history, faults>>

Lose(w) ==
    lost' = IF call[w].got = 0 THEN lost ELSE lost \cup {call[w].copy.refresh}

(* The answer never arrives: a transport error leaves the call.              *)
AnswerLost(w) ==
    /\ call[w].pc = "answer"
    /\ Fault("lost")
    /\ Lose(w)
    /\ call' = [call EXCEPT ![w] = Leave(w, NoRow)]
    /\ UNCHANGED <<row, active, xVars, expired, lock, spentTwice, revoked, outrun>>

(* _store_tokens looks the row up ...                                        *)
Find(w) ==
    /\ call[w].pc = "answer" /\ call[w].got # 0
    /\ call' = [call EXCEPT ![w] = [@ EXCEPT !.pc = "save", !.found = row.id]]
    /\ UNCHANGED <<row, active, xVars, expired, lock, history, faults>>

(* Mutant: the rotated refresh token is not stored.                          *)
Stored_KeepRefresh(w) ==
    [id      |-> IF call[w].found = 0 THEN call[w].got ELSE call[w].found,
     access  |-> call[w].got,
     refresh |-> call[w].copy.refresh]

Stored(w) ==
    [id      |-> IF call[w].found = 0 THEN call[w].got ELSE call[w].found,
     access  |-> call[w].got,
     refresh |-> call[w].got]

(* ... and commits the new pair.  An UPDATE of a row that went away, or an   *)
(* INSERT beside a new one, fails, and the pair is lost.                     *)
Save(w) ==
    /\ call[w].pc = "save"
    /\ IF call[w].found = row.id
       THEN /\ row' = Stored(w)
            /\ call' = [call EXCEPT ![w] = Leave(w, Stored(w))]
            /\ UNCHANGED lost
       ELSE /\ Lose(w)
            /\ call' = [call EXCEPT ![w] = Leave(w, NoRow)]
            /\ UNCHANGED row
    /\ UNCHANGED <<active, xVars, expired, lock, spentTwice, revoked, outrun, faults>>

(* GET, and DELETE only if the lock is still the caller's.                   *)
Release(w) ==
    /\ call[w].pc = "release"
    /\ call' = [call EXCEPT ![w] =
         IF lock.owner = w THEN [@ EXCEPT !.pc = "delete"]
         ELSE [NoCall EXCEPT !.copy = call[w].copy]]
    /\ UNCHANGED <<row, active, xVars, expired, lock, history, faults>>

Delete(w) ==
    /\ call[w].pc = "delete"
    /\ lock' = NoLock
    /\ call' = [call EXCEPT ![w] = [NoCall EXCEPT !.copy = call[w].copy]]
    /\ UNCHANGED <<row, active, xVars, expired, history, faults>>

(* The worker dies; its lock stays until it expires.                         *)
Crash(w) ==
    /\ call[w].pc # "idle"
    /\ Fault("crash")
    /\ Lose(w)
    /\ call' = [call EXCEPT ![w] = NoCall]
    /\ UNCHANGED <<row, active, xVars, expired, lock, spentTwice, revoked, outrun>>

-----------------------------------------------------------------------------
Progress(w) ==
    \/ Load(w) \/ Acquire(w) \/ GiveUp(w) \/ Wake(w) \/ Check(w) \/ Present(w)
    \/ Rejected(w) \/ Find(w) \/ Save(w) \/ Release(w) \/ Delete(w)

Next ==
    \/ Tick \/ Expire \/ Connect \/ Disconnect
    \/ \E w \in Workers :
         \/ Progress(w) \/ EndSession(w)
         \/ NoRedis(w) \/ XError(w) \/ AnswerLost(w) \/ Crash(w)

Spec == Init /\ [][Next]_vars

-----------------------------------------------------------------------------
(* Properties *)

(* "The loser destroys the credential": no refresh token is presented to X   *)
(* a second time, other than one whose replacement got lost on the way or    *)
(* that the user revoked.  What the lock and the re-read inside it are for;  *)
(* it holds as long as no caller outruns the lock.                           *)
SingleUse == outrun = {} => spentTwice \subseteq lost \cup revoked

(* At most one caller at a time works under a lock it acquired, dead workers *)
(* and lost answers notwithstanding, unless the lock expired under a call.   *)
Holds(w) == call[w].mine /\ call[w].pc \in {"check", "send", "answer", "save"}
MutualExclusion ==
    "hold" \notin outrun => \A v, w \in Workers : v # w => ~(Holds(v) /\ Holds(w))

(* Whatever the lock does, the stored refresh token is one X accepts, unless *)
(* its replacement is on its way to the row in some worker, got lost, or the *)
(* user revoked it: no order of two refreshes, a disconnect and a reconnect  *)
(* overwrites a live credential with a dead one.                             *)
InFlight(t) ==
    \E w \in Workers : /\ call[w].pc \in {"answer", "save"}
                       /\ call[w].got # 0 /\ call[w].copy.refresh = t
StoredIsAlive ==
    row.refresh # 0 =>
        \/ row.refresh \in valid
        \/ InFlight(row.refresh)
        \/ row.refresh \in lost \cup revoked

(* A lock is deleted by its owner or by its expiry alone, again unless it    *)
(* expired under a call: between GET and DELETE it may be somebody else's.   *)
OwnersDelete ==
    "hold" \notin outrun =>
      \A w \in Workers : call[w].pc = "delete" => lock.owner \in {w, NoOne}

-----------------------------------------------------------------------------
(* A claim of the repository that the code does not keep                     *)

(* "The second worker uses the first one's result instead of burning the     *)
(* token again" (the docstring of x_account_service.py).                     *)
NeverBurntTwice == spentTwice \subseteq lost \cup revoked
=============================================================================
