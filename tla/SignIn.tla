-------------------------------- MODULE SignIn --------------------------------
(***************************************************************************)
(* Who may use the instance, and the X account they connect to it:         *)
(* registration, sessions and the change of the password                   *)
(* (services/auth_service.py, api/v1/auth.py), and the OAuth handshake     *)
(* with X and its undoing (services/x_account_service.py,                  *)
(* api/v1/x_oauth.py).                                                     *)
(*                                                                         *)
(* A request is one transaction: what it read may be stale when it writes, *)
(* and a row it updates or deletes is found by its primary key.  Sessions, *)
(* authorizations and the X account are the first owner's; the email of    *)
(* every registration is another one.                                      *)
(***************************************************************************)
EXTENDS Integers, FiniteSets

CONSTANTS
    Requests,      \* requests under way
    Sessions,      \* rows of the sessions table
    Flows,         \* rows of oauth_states: authorizations that were started
    MaxPassword,   \* bound: changes of the password
    MaxFaults,     \* bound: answers lost, errors of X, dead requests
    None

ASSUME SignInAssumption ==
    /\ IsFiniteSet(Requests) /\ IsFiniteSet(Flows)
    /\ MaxPassword \in Nat /\ MaxFaults \in Nat
    /\ None \notin Sessions \cup Flows

VARIABLES
    owners,      \* rows of users
    password,    \* the owner's password, by number
    session,     \* the sessions table
    flow,        \* the oauth_states table
    code,        \* X: the authorization code of each flow
    account,     \* x_accounts.is_active, or "none"
    token,       \* oauth_tokens: the number of the account's row, 0 for none
    stored,      \* the number of the last token row
    request,     \* what each request is doing
    faults,
    rush,        \* history: most registrations that were ever under way at once
    late,        \* history: sessions whose login ran beside a change of the password
    presented,   \* history: how often each flow's code was sent to X
    again,       \* history: flows with two callbacks at once, or one rolled back
    raced        \* history: a disconnect ran beside another change of the account

people  == <<owners, password, session>>
connect == <<flow, code, account, token, stored>>
history == <<rush, late, presented, again, raced>>
vars    == <<people, connect, request, faults, history>>

Kinds == {"none", "register", "login", "change", "others", "callback", "disconnect"}
Request ==
    [kind : Kinds,
     pc   : {"idle", "select", "burn", "exchange", "find", "store", "refused", "commit"},
     s    : Sessions \cup {None},             \* the session it came with
     f    : Flows \cup {None},
     pw   : 0..MaxPassword,                   \* the password it verified
     cut  : SUBSET Sessions,                  \* the sessions it will revoke
     acc  : {"none", "active", "inactive"},   \* the account as it read it
     tok  : Nat]                              \* the token row as it read it
NoRequest == [kind |-> "none", pc |-> "idle", s |-> None, f |-> None, pw |-> 0,
              cut |-> {}, acc |-> "none", tok |-> 0]

TypeOK ==
    /\ owners \in Nat /\ password \in 0..MaxPassword
    /\ session \in [Sessions -> [state : {"none", "live", "revoked", "expired"},
                                 pw : 0..MaxPassword]]
    /\ flow \in [Flows -> {"none", "open", "used", "expired"}]
    /\ code \in [Flows -> {"none", "issued", "redeemed"}]
    /\ account \in {"none", "active", "inactive"}
    /\ stored \in Nat /\ token \in 0..stored
    /\ request \in [Requests -> Request]
    /\ faults \in 0..MaxFaults
    /\ rush \in Nat /\ late \subseteq Sessions
    /\ presented \in [Flows -> Nat] /\ again \subseteq Flows /\ raced \in BOOLEAN

Init ==
    /\ owners = 0 /\ password = 0
    /\ session = [s \in Sessions |-> [state |-> "none", pw |-> 0]]
    /\ flow = [f \in Flows |-> "none"]
    /\ code = [f \in Flows |-> "none"]
    /\ account = "none" /\ token = 0 /\ stored = 0
    /\ request = [r \in Requests |-> NoRequest]
    /\ faults = 0
    /\ rush = 0 /\ late = {}
    /\ presented = [f \in Flows |-> 0] /\ again = {} /\ raced = FALSE

(* Bound: the password and the sessions are changed before the first         *)
(* authorization starts; all that is asked of them then is whether one lives.*)
Unconnected == \A f \in Flows : flow[f] = "none"

Set(r, fields) == request' = [request EXCEPT ![r] = fields]
Free(r) == request[r].pc = "idle"
At(r, kind, pc) == request[r].kind = kind /\ request[r].pc = pc
Live(s) == session[s].state = "live"

-----------------------------------------------------------------------------
(* Registration and sessions *)

(* Mutant: nothing asks whether the owner exists.                            *)
RegistrationOpen_Always == TRUE

(* Registration is open until the first user exists.                         *)
RegistrationOpen == owners = 0

Register(r) ==
    /\ Free(r) /\ owners < Cardinality(Requests) /\ RegistrationOpen
    /\ Set(r, [NoRequest EXCEPT !.kind = "register", !.pc = "commit"])
    /\ LET n == 1 + Cardinality({q \in Requests : request[q].kind = "register"})
       IN  rush' = IF n > rush THEN n ELSE rush
    /\ UNCHANGED <<people, connect, faults, late, presented, again, raced>>

(* create_session, for the first owner                                       *)
Opened(s, pw) == [session EXCEPT ![s] = [state |-> "live", pw |-> pw]]

CommitRegister(r) ==
    /\ At(r, "register", "commit")
    /\ owners' = owners + 1
    /\ IF owners > 0 THEN UNCHANGED session
       ELSE \E s \in Sessions : session[s].state = "none" /\ session' = Opened(s, password)
    /\ Set(r, NoRequest)
    /\ UNCHANGED <<password, connect, faults, history>>

(* authenticate: the password is verified against the row as it was read.    *)
Login(r) ==
    /\ Free(r) /\ owners > 0 /\ Unconnected
    /\ Set(r, [NoRequest EXCEPT !.kind = "login", !.pc = "commit", !.pw = password])
    /\ UNCHANGED <<people, connect, faults, history>>

Changing == {r \in Requests : At(r, "change", "commit")}

CommitLogin(r) ==
    /\ At(r, "login", "commit")
    /\ \E s \in Sessions :
         /\ session[s].state = "none"
         /\ session' = Opened(s, request[r].pw)
         /\ late' = IF request[r].pw < password \/ Changing # {}
                      THEN late \cup {s} ELSE late
    /\ Set(r, NoRequest)
    /\ UNCHANGED <<owners, password, connect, faults, rush, presented, again, raced>>

ExpireSession(s) ==
    /\ Live(s)
    /\ session' = [session EXCEPT ![s].state = "expired"]
    /\ UNCHANGED <<owners, password, connect, request, faults, history>>

(* resolve_session admits a request; logout revokes the session it came with.*)
Logout(s) ==
    /\ Live(s)
    /\ session' = [session EXCEPT ![s].state = "revoked"]
    /\ UNCHANGED <<owners, password, connect, request, faults, history>>

(* change_password and revoke-others, up to the password's verification.     *)
Change(r, s) ==
    /\ Free(r) /\ Live(s) /\ Unconnected /\ password < MaxPassword
    /\ Set(r, [NoRequest EXCEPT !.kind = "change", !.pc = "select", !.s = s])
    /\ UNCHANGED <<people, connect, faults, history>>

RevokeOthers(r, s) ==
    /\ Free(r) /\ Live(s) /\ Unconnected
    /\ Set(r, [NoRequest EXCEPT !.kind = "others", !.pc = "select", !.s = s])
    /\ UNCHANGED <<people, connect, faults, history>>

(* Mutant: the exception is the rule.                                        *)
ToRevoke_Current(r) == {request[r].s}

(* revoke_all_sessions: all that are not revoked, save the current one.      *)
ToRevoke(r) == {s \in Sessions : session[s].state \in {"live", "expired"}} \ {request[r].s}

SelectSessions(r) ==
    /\ request[r].kind \in {"change", "others"} /\ request[r].pc = "select"
    /\ Set(r, [request[r] EXCEPT !.pc = "commit", !.cut = ToRevoke(r)])
    /\ UNCHANGED <<people, connect, faults, history>>

(* Whoever changes the password has proven the new one.                      *)
CommitSessions(r) ==
    LET change == request[r].kind = "change"
    IN  /\ request[r].kind \in {"change", "others"} /\ request[r].pc = "commit"
        /\ change => password < MaxPassword
        /\ password' = IF change THEN password + 1 ELSE password
        /\ session' = [s \in Sessions |->
             IF s \in request[r].cut THEN [session[s] EXCEPT !.state = "revoked"]
             ELSE IF change /\ s = request[r].s THEN [session[s] EXCEPT !.pw = password + 1]
             ELSE session[s]]
        /\ Set(r, NoRequest)
        /\ UNCHANGED <<owners, connect, faults, history>>

-----------------------------------------------------------------------------
(* The handshake *)

(* begin_authorization, for whoever is signed in                             *)
StartFlow(s, f) ==
    /\ Live(s) /\ flow[f] = "none"
    /\ \A r \in Requests : request[r].kind \notin {"register", "login", "change", "others"}
    /\ flow' = [flow EXCEPT ![f] = "open"]
    /\ UNCHANGED <<people, code, account, token, stored, request, faults, history>>

ExpireFlow(f) ==
    /\ flow[f] = "open"
    /\ flow' = [flow EXCEPT ![f] = "expired"]
    /\ UNCHANGED <<people, code, account, token, stored, request, faults, history>>

(* The user consents, however late, and X sends the browser back with a code.*)
Consent(f) ==
    /\ flow[f] # "none" /\ code[f] = "none"
    /\ code' = [code EXCEPT ![f] = "issued"]
    /\ UNCHANGED <<people, flow, account, token, stored, request, faults, history>>

(* Mutant: only the time is looked at.                                       *)
Usable_Unexpired(f) == flow[f] \in {"open", "used"}

(* is_usable                                                                 *)
Usable(f) == flow[f] = "open"

Beside(r, f) == {q \in Requests \ {r} : request[q].f = f}

(* oauth_callback, which the browser may repeat.                             *)
Callback(r, f) ==
    /\ Free(r) /\ code[f] # "none" /\ Usable(f)
    /\ Set(r, [NoRequest EXCEPT !.kind = "callback", !.pc = "burn", !.f = f])
    /\ again' = IF Beside(r, f) = {} THEN again ELSE again \cup {f}
    /\ UNCHANGED <<people, connect, faults, rush, late, presented, raced>>

(* The state is burnt before the exchange.  The UPDATE waits for another     *)
(* callback's and then goes on.                                              *)
Burn(r) ==
    /\ At(r, "callback", "burn")
    /\ \A q \in Beside(r, request[r].f) : request[q].pc = "burn"
    /\ Set(r, [request[r] EXCEPT !.pc = "exchange"])
    /\ UNCHANGED <<people, connect, faults, history>>

Presented(f) == presented' = [presented EXCEPT ![f] = @ + 1]

(* exchange_code and _fetch_me: X redeems a code once.                       *)
Exchange(r) ==
    LET f == request[r].f
    IN  /\ At(r, "callback", "exchange")
        /\ Presented(f)
        /\ code' = [code EXCEPT ![f] = "redeemed"]
        /\ Set(r, [request[r] EXCEPT !.pc = IF code[f] = "issued" THEN "find" ELSE "refused"])
        /\ UNCHANGED <<people, flow, account, token, stored, faults,
                       rush, late, again, raced>>

(* X fails, before or after it redeemed the code.                            *)
ExchangeFails(r) ==
    /\ At(r, "callback", "exchange") /\ faults < MaxFaults
    /\ faults' = faults + 1
    /\ Presented(request[r].f)
    /\ \E c \in {code[request[r].f], "redeemed"} : code' = [code EXCEPT ![request[r].f] = c]
    /\ Set(r, [request[r] EXCEPT !.pc = "refused"])
    /\ UNCHANGED <<people, flow, account, token, stored, rush, late, again, raced>>

(* The error is caught, so the request commits: the state stays burnt.       *)
Refused(r) ==
    /\ At(r, "callback", "refused")
    /\ flow' = [flow EXCEPT ![request[r].f] = "used"]
    /\ Set(r, NoRequest)
    /\ UNCHANGED <<people, code, account, token, stored, faults, history>>

(* Callbacks and disconnects that hold what they read of the account.        *)
Holding(r, kind) ==
    {q \in Requests \ {r} : request[q].kind = kind /\ request[q].pc \in {"store", "commit"}}

FindAccount(r) ==
    /\ At(r, "callback", "find")
    /\ Set(r, [request[r] EXCEPT !.pc = "store", !.acc = account])
    /\ raced' = (raced \/ Holding(r, "disconnect") # {})
    /\ UNCHANGED <<people, connect, faults, rush, late, presented, again>>

Disconnect(r, s) ==
    /\ Free(r) /\ Live(s) /\ account # "none"
    /\ Set(r, [NoRequest EXCEPT !.kind = "disconnect", !.pc = "store", !.acc = account])
    /\ raced' = (raced \/ Holding(r, "callback") \cup Holding(r, "disconnect") # {})
    /\ UNCHANGED <<people, connect, faults, rush, late, presented, again>>

(* _store_tokens and disconnect look for the token row in a query of their   *)
(* own; disconnect then takes its time to revoke the token at X.             *)
FindToken(r) ==
    /\ request[r].kind \in {"callback", "disconnect"} /\ request[r].pc = "store"
    /\ Set(r, [request[r] EXCEPT !.pc = "commit", !.tok = token])
    /\ UNCHANGED <<people, connect, faults, history>>

(* Mutant: an account that comes back keeps its mark.                        *)
ActiveAfter_Unmarked(acc) == IF acc = "none" THEN "active" ELSE account

(* The ORM writes is_active where it changes what was read.                  *)
ActiveAfter(acc) == IF acc = "active" THEN account ELSE "active"

(* uq_x_accounts_user_xuser and the token's unique account; an UPDATE of a   *)
(* token row that is gone fails.                                             *)
Fits(r) ==
    /\ request[r].acc = "none" => account = "none"
    /\ request[r].tok = token

CommitCallback(r) ==
    /\ At(r, "callback", "commit") /\ Fits(r)
    /\ flow' = [flow EXCEPT ![request[r].f] = "used"]
    /\ account' = ActiveAfter(request[r].acc)
    /\ IF token = 0 THEN stored' = stored + 1 /\ token' = stored + 1
       ELSE UNCHANGED <<token, stored>>
    /\ Set(r, NoRequest)
    /\ UNCHANGED <<people, code, faults, history>>

CommitDisconnect(r) ==
    /\ At(r, "disconnect", "commit")
    /\ account' = IF request[r].acc = "active" THEN "inactive" ELSE account
    /\ token' = IF request[r].tok = token THEN 0 ELSE token
    /\ Set(r, NoRequest)
    /\ UNCHANGED <<people, flow, code, stored, faults, history>>

(* Nothing of the request remains; a burnt state is whole again.             *)
RollBack(r) ==
    /\ Set(r, NoRequest)
    /\ again' = IF request[r].f = None THEN again ELSE again \cup {request[r].f}

Conflict(r) ==
    /\ At(r, "callback", "commit") /\ ~Fits(r)
    /\ RollBack(r)
    /\ UNCHANGED <<people, connect, faults, rush, late, presented, raced>>

(* The request dies, or the exchange fails in transport, which nobody        *)
(* catches: the code may have been redeemed.                                 *)
Crash(r) ==
    LET f == request[r].f
        sent == At(r, "callback", "exchange")
    IN  /\ ~Free(r) /\ faults < MaxFaults
        /\ faults' = faults + 1
        /\ RollBack(r)
        /\ \/ UNCHANGED <<code, presented>>
           \/ /\ sent
              /\ Presented(f)
              /\ \E c \in {code[f], "redeemed"} : code' = [code EXCEPT ![f] = c]
        /\ UNCHANGED <<people, flow, account, token, stored, rush, late, raced>>

-----------------------------------------------------------------------------
Step(r) ==
    \/ Register(r) \/ CommitRegister(r) \/ Login(r) \/ CommitLogin(r)
    \/ SelectSessions(r) \/ CommitSessions(r)
    \/ \E s \in Sessions : Change(r, s) \/ RevokeOthers(r, s) \/ Disconnect(r, s)
    \/ \E f \in Flows : Callback(r, f)
    \/ Burn(r) \/ Exchange(r) \/ ExchangeFails(r) \/ Refused(r)
    \/ FindAccount(r) \/ FindToken(r)
    \/ CommitCallback(r) \/ CommitDisconnect(r) \/ Conflict(r) \/ Crash(r)

Next ==
    \/ \E s \in Sessions : ExpireSession(s) \/ Logout(s) \/ \E f \in Flows : StartFlow(s, f)
    \/ \E f \in Flows : ExpireFlow(f) \/ Consent(f)
    \/ \E r \in Requests : Step(r)

Spec == Init /\ [][Next]_vars

-----------------------------------------------------------------------------
(* Properties *)

(* There is one owner, or as many as registered at the same time: the count  *)
(* of users and the insert are not one step.                                 *)
OwnersWereAtOnce == owners <= rush

(* After a change of the password every session that is still good was       *)
(* opened with the new one, or by a login that ran beside the change.        *)
OldPasswordIsOut ==
    \A s \in Sessions : Live(s) /\ session[s].pw < password => s \in late

(* A code goes to X once, unless two callbacks read its state at the same    *)
(* time, or one of them was rolled back and its burn with it.                *)
CodeIsSentOnce == \A f \in Flows : presented[f] > 1 => f \in again

(* An account is active when, and only when, its credential is stored,       *)
(* however callbacks repeat, overlap and fail, as long as no disconnect runs *)
(* beside one of them.                                                       *)
ConnectionIsWhole == ~raced => (account = "active" <=> token # 0)
=============================================================================
