---------------------------- MODULE SignInProofs ----------------------------
(***************************************************************************)
(* Theorems about SignIn, for any number of requests, sessions and         *)
(* authorizations, and any faults.                                         *)
(***************************************************************************)
EXTENDS SignIn, TLAPS, FiniteSetTheorems

(* A request that is over has left nothing behind, and callbacks are the     *)
(* requests that come with an authorization.                                 *)
WellFormed(q) ==
    /\ q.pc = "idle" => q = NoRequest
    /\ q.kind = "none" => q = NoRequest
    /\ q.f \in Flows <=> q.kind = "callback"
    /\ q.pc \in {"burn", "exchange", "find", "refused"} => q.kind = "callback"
    /\ q.pc = "store" => q.kind \in {"callback", "disconnect"}
    /\ q.pc = "select" => q.kind \in {"change", "others"}

Shape == \A r \in Requests : WellFormed(request[r])

-----------------------------------------------------------------------------
LEMMA NoRequestFits ==
    /\ NoRequest \in Request /\ WellFormed(NoRequest)
    /\ NoRequest.kind = "none" /\ NoRequest.f = None /\ None \notin Flows
  BY SignInAssumption DEF NoRequest, Request, Kinds, WellFormed

LEMMA Scalars ==
    ASSUME TypeOK
    PROVE  /\ owners \in Nat /\ rush \in Nat /\ stored \in Nat /\ token \in Nat
           /\ password \in 0..MaxPassword
           /\ account \in {"none", "active", "inactive"}
  BY DEF TypeOK

LEMMA InitTypes == Init => TypeOK /\ Shape
  <1> SUFFICES ASSUME Init PROVE TypeOK /\ Shape
    OBVIOUS
  <1>1. request \in [Requests -> Request] /\ Shape
    BY NoRequestFits DEF Init, Shape
  <1>2. [state |-> "none", pw |-> 0] \in [state : {"none", "live", "revoked", "expired"},
                                          pw : 0..MaxPassword]
    BY SignInAssumption
  <1>3. session \in [Sessions -> [state : {"none", "live", "revoked", "expired"},
                                 pw : 0..MaxPassword]]
    BY <1>2 DEF Init
  <1>4. presented \in [Flows -> Nat]
    BY DEF Init
  <1>8. code \in [Flows -> {"none", "issued", "redeemed"}]
    BY DEF Init
  <1>5. flow \in [Flows -> {"none", "open", "used", "expired"}]
    BY DEF Init
  <1>6. owners \in Nat /\ password \in 0..MaxPassword /\ faults \in 0..MaxFaults
    BY SignInAssumption DEF Init
  <1>7. /\ account \in {"none", "active", "inactive"} /\ stored \in Nat /\ token \in 0..stored
        /\ rush \in Nat
    BY DEF Init
  <1>9. late \subseteq Sessions /\ again \subseteq Flows /\ raced \in BOOLEAN
    BY DEF Init
  <1> QED BY <1>1, <1>3, <1>4, <1>5, <1>6, <1>7, <1>8, <1>9 DEF TypeOK

LEMMA Fields ==
    ASSUME TypeOK, NEW r \in Requests
    PROVE  /\ request[r] \in Request
           /\ request[r].kind \in Kinds
           /\ request[r].s \in Sessions \cup {None} /\ request[r].f \in Flows \cup {None}
           /\ request[r].pw \in 0..MaxPassword /\ request[r].cut \subseteq Sessions
           /\ request[r].acc \in {"none", "active", "inactive"} /\ request[r].tok \in Nat
  BY DEF TypeOK, Request

(* What a step writes into a request keeps its type and its form.            *)
LEMMA Moves ==
    ASSUME TypeOK, Shape, NEW r \in Requests, NEW q \in Request, WellFormed(q), Set(r, q)
    PROVE  request' \in [Requests -> Request] /\ Shape'
  BY DEF TypeOK, Shape, Set

LEMMA RequestStep ==
    ASSUME TypeOK, Shape, NEW r \in Requests, Step(r)
    PROVE  request' \in [Requests -> Request] /\ Shape'
  <1> USE SignInAssumption
  <1>0. WellFormed(request[r])
    BY DEF Shape
  <1>1. CASE Set(r, NoRequest)
    BY <1>1, NoRequestFits, Moves
  <1>2. CASE Register(r)
    <2> DEFINE q == [NoRequest EXCEPT !.kind = "register", !.pc = "commit"]
    <2>1. q \in Request
      BY NoRequestFits DEF Request, Kinds
    <2>2. q.pc = "commit" /\ q.kind = "register" /\ q.f = None
      BY NoRequestFits DEF Request, Kinds
    <2> HIDE DEF q
    <2>3. WellFormed(q)
      BY <2>2, NoRequestFits DEF WellFormed
    <2> QED BY <1>2, <2>1, <2>3, Moves DEF Register, q
  <1>3. CASE Login(r)
    <2> DEFINE q == [NoRequest EXCEPT !.kind = "login", !.pc = "commit", !.pw = password]
    <2>1. q \in Request
      BY NoRequestFits, Scalars DEF Request, Kinds
    <2>2. q.pc = "commit" /\ q.kind = "login" /\ q.f = None
      BY NoRequestFits DEF Request, Kinds
    <2> HIDE DEF q
    <2>3. WellFormed(q)
      BY <2>2, NoRequestFits DEF WellFormed
    <2> QED BY <1>3, <2>1, <2>3, Moves DEF Login, q
  <1>4. ASSUME NEW s \in Sessions, Change(r, s) PROVE request' \in [Requests -> Request] /\ Shape'
    <2> DEFINE q == [NoRequest EXCEPT !.kind = "change", !.pc = "select", !.s = s]
    <2>1. q \in Request
      BY NoRequestFits DEF Request, Kinds
    <2>2. q.pc = "select" /\ q.kind = "change" /\ q.f = None
      BY NoRequestFits DEF Request, Kinds
    <2> HIDE DEF q
    <2>3. WellFormed(q)
      BY <2>2, NoRequestFits DEF WellFormed
    <2> QED BY <1>4, <2>1, <2>3, Moves DEF Change, q
  <1>5. ASSUME NEW s \in Sessions, RevokeOthers(r, s) PROVE request' \in [Requests -> Request] /\ Shape'
    <2> DEFINE q == [NoRequest EXCEPT !.kind = "others", !.pc = "select", !.s = s]
    <2>1. q \in Request
      BY NoRequestFits DEF Request, Kinds
    <2>2. q.pc = "select" /\ q.kind = "others" /\ q.f = None
      BY NoRequestFits DEF Request, Kinds
    <2> HIDE DEF q
    <2>3. WellFormed(q)
      BY <2>2, NoRequestFits DEF WellFormed
    <2> QED BY <1>5, <2>1, <2>3, Moves DEF RevokeOthers, q
  <1>6. ASSUME NEW s \in Sessions, Disconnect(r, s) PROVE request' \in [Requests -> Request] /\ Shape'
    <2> DEFINE q == [NoRequest EXCEPT !.kind = "disconnect", !.pc = "store", !.acc = account]
    <2>1. q \in Request
      BY NoRequestFits, Scalars DEF Request, Kinds
    <2>2. q.pc = "store" /\ q.kind = "disconnect" /\ q.f = None
      BY NoRequestFits DEF Request, Kinds
    <2> HIDE DEF q
    <2>3. WellFormed(q)
      BY <2>2, NoRequestFits DEF WellFormed
    <2> QED BY <1>6, <2>1, <2>3, Moves DEF Disconnect, q
  <1>7. ASSUME NEW f \in Flows, Callback(r, f) PROVE request' \in [Requests -> Request] /\ Shape'
    <2> DEFINE q == [NoRequest EXCEPT !.kind = "callback", !.pc = "burn", !.f = f]
    <2>1. q \in Request
      BY NoRequestFits DEF Request, Kinds
    <2>2. q.pc = "burn" /\ q.kind = "callback" /\ q.f = f
      BY NoRequestFits DEF Request, Kinds
    <2> HIDE DEF q
    <2>3. WellFormed(q)
      BY <2>2, NoRequestFits DEF WellFormed
    <2> QED BY <1>7, <2>1, <2>3, Moves DEF Callback, q
  <1>8. CASE SelectSessions(r)
    <2> DEFINE q == [request[r] EXCEPT !.pc = "commit", !.cut = ToRevoke(r)]
    <2>1. q \in Request
      BY Fields DEF Request, ToRevoke
    <2>2. q.pc = "commit" /\ q.kind = request[r].kind /\ q.f = request[r].f
      BY Fields DEF Request
    <2>3. request[r].kind # "none"
      BY <1>8 DEF SelectSessions
    <2>4. WellFormed(q)
      BY <1>0, <2>2, <2>3 DEF WellFormed
    <2> HIDE DEF q
    <2> QED BY <1>8, <2>1, <2>4, Moves DEF SelectSessions, q
  <1>9. CASE Burn(r) \/ Exchange(r) \/ ExchangeFails(r)
    <2>1. ASSUME NEW p \in {"exchange", "find", "refused"}
          PROVE  [request[r] EXCEPT !.pc = p] \in Request
      BY Fields DEF Request
    <2>2. ASSUME NEW p \in {"exchange", "find", "refused"}, request[r].kind = "callback"
          PROVE  WellFormed([request[r] EXCEPT !.pc = p])
      <3> DEFINE q == [request[r] EXCEPT !.pc = p]
      <3>1. q.pc = p /\ q.kind = request[r].kind /\ q.f = request[r].f
        BY Fields DEF Request
      <3> HIDE DEF q
      <3>2. WellFormed(q)
        BY <1>0, <2>2, <3>1 DEF WellFormed
      <3> QED BY <3>2 DEF q
    <2> QED BY <1>9, <2>1, <2>2, Moves DEF Burn, Exchange, ExchangeFails, At
  <1>10. CASE FindAccount(r)
    <2> DEFINE q == [request[r] EXCEPT !.pc = "store", !.acc = account]
    <2>1. q \in Request
      BY Fields, Scalars DEF Request
    <2>2. q.pc = "store" /\ q.kind = request[r].kind /\ q.f = request[r].f
      BY Fields DEF Request
    <2>3. request[r].kind \in {"callback", "disconnect"}
      BY <1>10 DEF FindAccount, At
    <2>4. WellFormed(q)
      BY <1>0, <2>2, <2>3 DEF WellFormed
    <2> HIDE DEF q
    <2> QED BY <1>10, <2>1, <2>4, Moves DEF FindAccount, q
  <1>11. CASE FindToken(r)
    <2> DEFINE q == [request[r] EXCEPT !.pc = "commit", !.tok = token]
    <2>1. q \in Request
      BY Fields, Scalars DEF Request
    <2>2. q.pc = "commit" /\ q.kind = request[r].kind /\ q.f = request[r].f
      BY Fields DEF Request
    <2>3. request[r].kind \in {"callback", "disconnect"}
      BY <1>11 DEF FindToken, At
    <2>4. WellFormed(q)
      BY <1>0, <2>2, <2>3 DEF WellFormed
    <2> HIDE DEF q
    <2> QED BY <1>11, <2>1, <2>4, Moves DEF FindToken, q
  <1> QED BY <1>1, <1>2, <1>3, <1>4, <1>5, <1>6, <1>7, <1>8, <1>9,
         <1>10, <1>11
          DEF Step, CommitRegister, CommitLogin, CommitSessions, Refused,
              CommitCallback, CommitDisconnect, Conflict, Crash, RollBack

SessionRow == [state : {"none", "live", "revoked", "expired"}, pw : 0..MaxPassword]

LEMMA SessionFields ==
    ASSUME TypeOK, NEW s \in Sessions
    PROVE  session[s] \in SessionRow /\ session[s].pw \in 0..MaxPassword
  BY DEF TypeOK, SessionRow

LEMMA PeopleTypes ==
    ASSUME TypeOK, NEW r \in Requests,
           \/ Register(r) \/ CommitRegister(r) \/ Login(r) \/ CommitLogin(r)
           \/ SelectSessions(r) \/ CommitSessions(r)
           \/ \E s \in Sessions : Change(r, s) \/ RevokeOthers(r, s),
           request' \in [Requests -> Request]
    PROVE  TypeOK'
  <1>1. ASSUME NEW s \in Sessions, NEW pw \in 0..MaxPassword, session' = Opened(s, pw)
        PROVE  session' \in [Sessions -> SessionRow]
    <2>1. [state |-> "live", pw |-> pw] \in SessionRow
      BY DEF SessionRow
    <2> QED BY <1>1, <2>1 DEF Opened, TypeOK, SessionRow
  <1>2. CASE Register(r)
    <2>1. IsFiniteSet({q \in Requests : request[q].kind = "register"})
      BY SignInAssumption, FS_Subset
    <2>2. Cardinality({q \in Requests : request[q].kind = "register"}) \in Nat
      BY <2>1, FS_CardinalityType
    <2> QED BY <1>2, <2>2 DEF Register, TypeOK, people, connect
  <1>3. CASE CommitRegister(r)
    <2>1. session' \in [Sessions -> SessionRow]
      BY <1>1, <1>3, Scalars DEF CommitRegister, TypeOK, SessionRow
    <2> QED BY <1>3, <2>1 DEF CommitRegister, TypeOK, connect, history, SessionRow
  <1>4. CASE Login(r)
    BY <1>4 DEF Login, TypeOK, people, connect, history
  <1>5. CASE CommitLogin(r)
    <2>1. session' \in [Sessions -> SessionRow]
      BY <1>1, <1>5, Fields DEF CommitLogin
    <2>2. late' \subseteq Sessions
      BY <1>5 DEF CommitLogin, TypeOK
    <2> QED BY <1>5, <2>1, <2>2 DEF CommitLogin, TypeOK, connect, SessionRow
  <1>6. CASE SelectSessions(r)
    BY <1>6 DEF SelectSessions, TypeOK, people, connect, history
  <1>7. CASE CommitSessions(r)
    <2>1. password' \in 0..MaxPassword
      BY <1>7, Scalars, SignInAssumption DEF CommitSessions
    <2>2. ASSUME NEW s \in Sessions
          PROVE  /\ [session[s] EXCEPT !.state = "revoked"] \in SessionRow
                 /\ request[r].kind = "change"
                      => [session[s] EXCEPT !.pw = password + 1] \in SessionRow
                 /\ session[s] \in SessionRow
      <3>1. request[r].kind = "change" => password + 1 \in 0..MaxPassword
        BY <1>7, Scalars, SignInAssumption DEF CommitSessions
      <3> QED BY <3>1, SessionFields DEF SessionRow
    <2>3. session' \in [Sessions -> SessionRow]
      BY <1>7, <2>2 DEF CommitSessions
    <2> QED BY <1>7, <2>1, <2>3 DEF CommitSessions, TypeOK, connect, history, SessionRow
  <1>8. ASSUME NEW s \in Sessions, Change(r, s) \/ RevokeOthers(r, s) PROVE TypeOK'
    BY <1>8 DEF Change, RevokeOthers, TypeOK, people, connect, history
  <1> QED BY <1>2, <1>3, <1>4, <1>5, <1>6, <1>7, <1>8

LEMMA ConnectTypes ==
    ASSUME TypeOK, NEW r \in Requests, Shape,
           \/ \E f \in Flows : Callback(r, f)
           \/ \E s \in Sessions : Disconnect(r, s)
           \/ Burn(r) \/ Exchange(r) \/ ExchangeFails(r) \/ Refused(r)
           \/ FindAccount(r) \/ FindToken(r)
           \/ CommitCallback(r) \/ CommitDisconnect(r) \/ Conflict(r) \/ Crash(r),
           request' \in [Requests -> Request]
    PROVE  TypeOK'
  <1>1. request[r].f \in Flows \cup {None}
    BY Fields
  <1>2. request[r].kind = "callback" => request[r].f \in Flows
    BY DEF Shape, WellFormed
  <1>3. CASE Refused(r) \/ CommitCallback(r)
    <2>1. flow' \in [Flows -> {"none", "open", "used", "expired"}]
      BY <1>3 DEF Refused, CommitCallback, TypeOK
    <2>2. account' \in {"none", "active", "inactive"}
      BY <1>3, Scalars DEF Refused, CommitCallback, ActiveAfter
    <2>3. stored' \in Nat /\ token' \in 0..stored'
      BY <1>3 DEF Refused, CommitCallback, TypeOK
    <2> QED BY <1>3, <2>1, <2>2, <2>3 DEF Refused, CommitCallback, TypeOK, people, history
  <1>4. CASE Exchange(r) \/ ExchangeFails(r) \/ Crash(r)
    <2>1. presented' \in [Flows -> Nat]
      BY <1>4, <1>2 DEF Exchange, ExchangeFails, Crash, Presented, TypeOK, At
    <2>2. code' \in [Flows -> {"none", "issued", "redeemed"}]
      BY <1>4, <1>2 DEF Exchange, ExchangeFails, Crash, TypeOK, At
    <2>3. again' \subseteq Flows
      BY <1>1, <1>4 DEF Exchange, ExchangeFails, Crash, RollBack, TypeOK
    <2>4. faults' \in 0..MaxFaults
      BY <1>4, SignInAssumption DEF Exchange, ExchangeFails, Crash, TypeOK
    <2> QED BY <1>4, <2>1, <2>2, <2>3, <2>4
            DEF Exchange, ExchangeFails, Crash, TypeOK, people
  <1>5. CASE CommitDisconnect(r)
    BY <1>5 DEF CommitDisconnect, TypeOK, people, history
  <1>6. CASE Conflict(r)
    BY <1>6, <1>1 DEF Conflict, RollBack, TypeOK, people, connect
  <1>7. CASE Burn(r) \/ FindToken(r)
    BY <1>7 DEF Burn, FindToken, TypeOK, people, connect, history
  <1>8. CASE FindAccount(r)
    <2>1. raced' \in BOOLEAN
      BY <1>8 DEF FindAccount
    <2> QED BY <1>8, <2>1 DEF FindAccount, TypeOK, people, connect
  <1>9. ASSUME NEW s \in Sessions, Disconnect(r, s) PROVE TypeOK'
    <2>1. raced' \in BOOLEAN
      BY <1>9 DEF Disconnect
    <2> QED BY <1>9, <2>1 DEF Disconnect, TypeOK, people, connect
  <1>10. ASSUME NEW f \in Flows, Callback(r, f) PROVE TypeOK'
    BY <1>10 DEF Callback, TypeOK, people, connect
  <1> QED BY <1>3, <1>4, <1>5, <1>6, <1>7, <1>8, <1>9, <1>10

LEMMA TypeStep == TypeOK /\ Shape /\ [Next]_vars => TypeOK' /\ Shape'
  <1> SUFFICES ASSUME TypeOK, Shape, [Next]_vars PROVE TypeOK' /\ Shape'
    OBVIOUS
  <1>1. CASE UNCHANGED vars
    BY <1>1 DEF vars, people, connect, history, TypeOK, Shape
  <1>2. ASSUME NEW r \in Requests, Step(r) PROVE TypeOK' /\ Shape'
    BY <1>2, RequestStep, PeopleTypes, ConnectTypes DEF Step
  <1>3. ASSUME NEW s \in Sessions, ExpireSession(s) \/ Logout(s) PROVE TypeOK' /\ Shape'
    <2>1. session' \in [Sessions -> SessionRow]
      BY <1>3 DEF ExpireSession, Logout, TypeOK, SessionRow
    <2> QED BY <1>3, <2>1 DEF ExpireSession, Logout, TypeOK, Shape, SessionRow, connect, history
  <1>4. ASSUME NEW s \in Sessions, NEW f \in Flows,
               StartFlow(s, f) \/ ExpireFlow(f) \/ Consent(f)
        PROVE  TypeOK' /\ Shape'
    BY <1>4 DEF StartFlow, ExpireFlow, Consent, TypeOK, Shape, people, history
  <1>5. ASSUME NEW f \in Flows, ExpireFlow(f) \/ Consent(f) PROVE TypeOK' /\ Shape'
    BY <1>5 DEF ExpireFlow, Consent, TypeOK, Shape, people, history
  <1> QED BY <1>1, <1>2, <1>3, <1>4, <1>5 DEF Next

(* The tables, requests and counters stay well typed for any number of       *)
(* requests, sessions and authorizations (auth_service.py, x_oauth.py).      *)
THEOREM Typing == Spec => []TypeOK
  <1>1. Spec => [](TypeOK /\ Shape)
    BY InitTypes, TypeStep, PTL DEF Spec
  <1> QED BY <1>1, PTL


-----------------------------------------------------------------------------
(* A step of one request leaves the others alone; it starts the request,     *)
(* ends it, or lets it be what it was.                                       *)

Begins(r, kind) == request[r] = NoRequest /\ request'[r].kind = kind

LEMMA KindStep ==
    ASSUME TypeOK, Shape, NEW r \in Requests, Step(r)
    PROVE  /\ \A q \in Requests \ {r} : request'[q] = request[q]
           /\ \/ request'[r] = NoRequest
              \/ request'[r].kind = request[r].kind /\ request'[r].f = request[r].f
              \/ Begins(r, "register") /\ Register(r)
              \/ Begins(r, "login") /\ Login(r)
              \/ Begins(r, "change") /\ \E s \in Sessions : Change(r, s)
              \/ Begins(r, "others") \/ Begins(r, "disconnect")
              \/ \E f \in Flows : Begins(r, "callback") /\ request'[r].f = f /\ Callback(r, f)
  <1>1. ASSUME NEW q, Set(r, q)
        PROVE  request'[r] = q /\ \A o \in Requests \ {r} : request'[o] = request[o]
    BY <1>1 DEF Set, TypeOK
  <1>2. Free(r) => request[r] = NoRequest
    BY DEF Shape, WellFormed, Free
  <1>3. CASE Set(r, NoRequest)
    BY <1>1, <1>3
  <1>4. CASE Register(r)
    <2>1. [NoRequest EXCEPT !.kind = "register", !.pc = "commit"].kind = "register"
      BY NoRequestFits DEF Request, Kinds
    <2>2. Set(r, [NoRequest EXCEPT !.kind = "register", !.pc = "commit"]) /\ Free(r)
      BY <1>4 DEF Register
    <2> QED BY <1>1, <1>2, <1>4, <2>1, <2>2 DEF Begins
  <1>5. CASE Login(r)
    <2>1. [NoRequest EXCEPT !.kind = "login", !.pc = "commit", !.pw = password].kind = "login"
      BY NoRequestFits DEF Request, Kinds
    <2>2. Set(r, [NoRequest EXCEPT !.kind = "login", !.pc = "commit", !.pw = password]) /\ Free(r)
      BY <1>5 DEF Login
    <2> QED BY <1>1, <1>2, <1>5, <2>1, <2>2 DEF Begins
  <1>6. ASSUME NEW s \in Sessions, Change(r, s) \/ RevokeOthers(r, s) \/ Disconnect(r, s)
        PROVE  /\ \A q \in Requests \ {r} : request'[q] = request[q]
               /\ \/ Begins(r, "change") /\ Change(r, s)
                  \/ Begins(r, "others") \/ Begins(r, "disconnect")
    <2>1. /\ [NoRequest EXCEPT !.kind = "change", !.pc = "select", !.s = s].kind = "change"
          /\ [NoRequest EXCEPT !.kind = "others", !.pc = "select", !.s = s].kind = "others"
          /\ [NoRequest EXCEPT !.kind = "disconnect", !.pc = "store", !.acc = account].kind
                = "disconnect"
      BY NoRequestFits DEF Request, Kinds
    <2> QED BY <1>1, <1>2, <1>6, <2>1 DEF Change, RevokeOthers, Disconnect, Begins
  <1>7. ASSUME NEW f \in Flows, Callback(r, f)
        PROVE  /\ \A q \in Requests \ {r} : request'[q] = request[q]
               /\ Begins(r, "callback") /\ request'[r].f = f
    <2> DEFINE q == [NoRequest EXCEPT !.kind = "callback", !.pc = "burn", !.f = f]
    <2>1. q.kind = "callback" /\ q.f = f
      BY NoRequestFits DEF Request, Kinds
    <2>2. Set(r, q) /\ Free(r)
      BY <1>7 DEF Callback
    <2> HIDE DEF q
    <2> QED BY <1>1, <1>2, <2>1, <2>2 DEF Begins
  <1>8. CASE SelectSessions(r)
    <2> DEFINE q == [request[r] EXCEPT !.pc = "commit", !.cut = ToRevoke(r)]
    <2>1. q.kind = request[r].kind /\ q.f = request[r].f
      BY Fields DEF Request
    <2>2. Set(r, q)
      BY <1>8 DEF SelectSessions
    <2> HIDE DEF q
    <2> QED BY <1>1, <2>1, <2>2
  <1>9. ASSUME NEW p \in {"exchange", "find", "refused"}, Set(r, [request[r] EXCEPT !.pc = p])
        PROVE  /\ \A o \in Requests \ {r} : request'[o] = request[o]
               /\ request'[r].kind = request[r].kind /\ request'[r].f = request[r].f
    <2>1. /\ [request[r] EXCEPT !.pc = p].kind = request[r].kind
          /\ [request[r] EXCEPT !.pc = p].f = request[r].f
      BY Fields DEF Request
    <2> QED BY <1>1, <1>9, <2>1
  <1>10. CASE Burn(r) \/ Exchange(r) \/ ExchangeFails(r)
    BY <1>9, <1>10 DEF Burn, Exchange, ExchangeFails
  <1>11. CASE FindAccount(r)
    <2> DEFINE q == [request[r] EXCEPT !.pc = "store", !.acc = account]
    <2>1. q.kind = request[r].kind /\ q.f = request[r].f
      BY Fields DEF Request
    <2>2. Set(r, q)
      BY <1>11 DEF FindAccount
    <2> HIDE DEF q
    <2> QED BY <1>1, <2>1, <2>2
  <1>12. CASE FindToken(r)
    <2> DEFINE q == [request[r] EXCEPT !.pc = "commit", !.tok = token]
    <2>1. q.kind = request[r].kind /\ q.f = request[r].f
      BY Fields DEF Request
    <2>2. Set(r, q)
      BY <1>12 DEF FindToken
    <2> HIDE DEF q
    <2> QED BY <1>1, <2>1, <2>2
  <1> QED BY <1>3, <1>4, <1>5, <1>6, <1>7, <1>8, <1>10, <1>11, <1>12
          DEF Step, CommitRegister, CommitLogin, CommitSessions, Refused,
              CommitCallback, CommitDisconnect, Conflict, Crash, RollBack

-----------------------------------------------------------------------------
(* Registration                                                              *)

Registering == {q \in Requests : request[q].kind = "register"}

(* Every owner was registering at once with the others, and so are those who *)
(* will become one.                                                          *)
OwnersInv == owners + Cardinality(Registering) <= rush

LEMMA Countable ==
    ASSUME NEW T \in SUBSET Requests
    PROVE  IsFiniteSet(T) /\ Cardinality(T) \in Nat
  BY SignInAssumption, FS_Subset, FS_CardinalityType

LEMMA InitOwners == Init => OwnersInv
  <1> SUFFICES ASSUME Init PROVE OwnersInv
    OBVIOUS
  <1>1. Registering = {}
    BY NoRequestFits DEF Init, Registering
  <1> QED BY <1>1, FS_EmptySet DEF Init, OwnersInv

LEMMA OwnersStep == TypeOK /\ Shape /\ OwnersInv /\ [Next]_vars => OwnersInv'
  <1> SUFFICES ASSUME TypeOK, Shape, OwnersInv, [Next]_vars PROVE OwnersInv'
    OBVIOUS
  <1>1. Cardinality(Registering) \in Nat /\ IsFiniteSet(Registering)
    BY Countable DEF Registering
  <1>2. CASE UNCHANGED <<owners, rush, request>>
    BY <1>2 DEF OwnersInv, Registering
  <1>3. ASSUME NEW r \in Requests, Register(r) PROVE OwnersInv'
    <2>1. Step(r)
      BY <1>3 DEF Step
    <2>2. Registering' = Registering \cup {r} /\ r \notin Registering
      <3>1. [NoRequest EXCEPT !.kind = "register", !.pc = "commit"].kind = "register"
        BY NoRequestFits DEF Request, Kinds
      <3>2. request'[r].kind = "register"
        BY <1>3, <3>1 DEF Register, Set, TypeOK
      <3>3. request[r].kind # "register"
        BY <1>3, NoRequestFits DEF Register, Free, Shape, WellFormed
      <3> QED BY <2>1, <3>2, <3>3, KindStep DEF Registering
    <2>3. Cardinality(Registering') = Cardinality(Registering) + 1
      BY <1>1, <2>2, FS_AddElement
    <2>4. rush' >= 1 + Cardinality(Registering)
      BY <1>1, <1>3, Scalars DEF Register, Registering
    <2> QED BY <1>1, <1>3, <2>3, <2>4, Scalars DEF Register, RegistrationOpen, OwnersInv, people
  <1>4. ASSUME NEW r \in Requests, CommitRegister(r) PROVE OwnersInv'
    <2>1. Step(r) /\ request'[r] = NoRequest
      BY <1>4 DEF Step, CommitRegister, Set, TypeOK
    <2>2. Registering' = Registering \ {r} /\ r \in Registering
      BY <1>4, <2>1, KindStep, NoRequestFits DEF Registering, CommitRegister, At
    <2>3. Cardinality(Registering') = Cardinality(Registering) - 1
      BY <1>1, <2>2, FS_RemoveElement
    <2> QED BY <1>1, <1>4, <2>3, Scalars DEF CommitRegister, OwnersInv, history
  <1>5. ASSUME NEW r \in Requests, Step(r), ~Register(r), ~CommitRegister(r)
        PROVE  OwnersInv'
    <2>1. Registering' \subseteq Registering
      BY <1>5, KindStep, NoRequestFits DEF Registering, Begins
    <2>2. Cardinality(Registering') <= Cardinality(Registering)
      BY <1>1, <2>1, FS_Subset
    <2>3. owners' = owners /\ rush' = rush
      BY <1>5 DEF Step, Login, CommitLogin, SelectSessions, CommitSessions, Change,
                  RevokeOthers, Disconnect, Callback, Burn, Exchange, ExchangeFails, Refused,
                  FindAccount, FindToken, CommitCallback, CommitDisconnect, Conflict, Crash,
                  people, history
    <2>4. Cardinality(Registering') \in Nat
      BY <2>1, Countable DEF Registering
    <2> QED BY <1>1, <2>2, <2>3, <2>4, Scalars DEF OwnersInv
  <1> QED BY <1>2, <1>3, <1>4, <1>5
          DEF Next, vars, people, history, ExpireSession, Logout, StartFlow, ExpireFlow, Consent

(* The instance has one owner, or as many as were registering at the same    *)
(* time: counting the users and adding one are two steps                     *)
(* (registration_open, register).                                            *)
THEOREM OwnersRaced == Spec => []OwnersWereAtOnce
  <1>1. Spec => [](TypeOK /\ Shape /\ OwnersInv)
    BY InitTypes, InitOwners, TypeStep, OwnersStep, PTL DEF Spec
  <1>2. TypeOK /\ OwnersInv => OwnersWereAtOnce
    <2>1. Cardinality(Registering) \in Nat
      BY Countable DEF Registering
    <2> QED BY <2>1, Scalars DEF OwnersInv, OwnersWereAtOnce
  <1> QED BY <1>1, <1>2, PTL

-----------------------------------------------------------------------------
(* Passwords and sessions                                                    *)

(* A request that is about to change the password revokes every session that *)
(* is good by now, but its own and those of logins that ran beside it.       *)
PasswordInv ==
    /\ OldPasswordIsOut
    /\ \A r \in Requests : request[r].kind \in {"login", "change"} => owners > 0
    /\ \A s \in Sessions : Live(s) => owners > 0
    /\ \A r \in Changing : \A s \in Sessions :
          Live(s) => s \in request[r].cut \cup {request[r].s} \cup late

LEMMA InitPassword == Init => PasswordInv
  BY NoRequestFits DEF Init, PasswordInv, OldPasswordIsOut, Live, Changing, At

LEMMA PasswordQuiet ==
    ASSUME TypeOK, Shape, PasswordInv, NEW r \in Requests, Step(r),
           UNCHANGED <<owners, password, session, late>>,
           request'[r].kind = "change" => request'[r].pc # "commit",
           request'[r].kind \in {"login", "change"} => owners > 0
    PROVE  PasswordInv'
  BY KindStep DEF PasswordInv, OldPasswordIsOut, Live, Changing, At

(* The sessions that are good were so before, and the password is the same.  *)
LEMMA SessionsClose ==
    ASSUME TypeOK, PasswordInv, UNCHANGED <<owners, password, request, late>>,
           \A s \in Sessions : Live(s)' => session'[s] = session[s]
    PROVE  PasswordInv'
  BY DEF PasswordInv, OldPasswordIsOut, Live, Changing, At

LEMMA PasswordStep == TypeOK /\ Shape /\ PasswordInv /\ [Next]_vars => PasswordInv'
  <1> SUFFICES ASSUME TypeOK, Shape, PasswordInv, [Next]_vars PROVE PasswordInv'
    OBVIOUS
  <1>1. CASE UNCHANGED <<owners, password, session, late, request>>
    BY <1>1, SessionsClose
  <1>2. ASSUME NEW s \in Sessions, ExpireSession(s) \/ Logout(s) PROVE PasswordInv'
    <2>1. \A t \in Sessions : Live(t)' => session'[t] = session[t]
      BY <1>2 DEF ExpireSession, Logout, Live, TypeOK
    <2> QED BY <1>2, <2>1, SessionsClose DEF ExpireSession, Logout, history
  <1>3. ASSUME NEW r \in Requests, CommitRegister(r) PROVE PasswordInv'
    <2>1. Step(r) /\ request'[r] = NoRequest
      BY <1>3 DEF Step, CommitRegister, Set, TypeOK
    <2>2. owners' > 0 /\ password' = password /\ late' = late
      BY <1>3, Scalars DEF CommitRegister, history
    <2>3. Changing' \subseteq Changing /\ \A q \in Changing' : request'[q] = request[q]
      BY <2>1, KindStep, NoRequestFits DEF Changing, At
    <2>4. CASE owners > 0
      BY <1>3, <2>2, <2>3, <2>4 DEF CommitRegister, PasswordInv, OldPasswordIsOut, Live
    <2>5. CASE owners = 0
      <3>1. Changing' = {}
        BY <2>3, <2>5 DEF PasswordInv, Changing, At
      <3>2. PICK n \in Sessions : session' = [session EXCEPT ![n] = [state |-> "live", pw |-> password]]
        BY <1>3, <2>5 DEF CommitRegister, Opened
      <3>3. OldPasswordIsOut'
        BY <2>2, <3>2, Scalars DEF OldPasswordIsOut, PasswordInv, Live, TypeOK
      <3> QED BY <2>2, <3>1, <3>3 DEF PasswordInv
    <2> QED BY <2>4, <2>5, Scalars
  <1>4. ASSUME NEW r \in Requests, CommitLogin(r) PROVE PasswordInv'
    <2>1. Step(r) /\ request'[r] = NoRequest
      BY <1>4 DEF Step, CommitLogin, Set, TypeOK
    <2>2. owners > 0 /\ owners' = owners /\ password' = password
      BY <1>4 DEF CommitLogin, At, PasswordInv
    <2>3. Changing' \subseteq Changing /\ \A q \in Changing' : request'[q] = request[q]
      BY <2>1, KindStep, NoRequestFits DEF Changing, At
    <2>4. PICK n \in Sessions :
             /\ session' = Opened(n, request[r].pw)
             /\ late' = IF request[r].pw < password \/ Changing # {}
                          THEN late \cup {n} ELSE late
      BY <1>4 DEF CommitLogin
    <2>5. /\ session'[n].pw = request[r].pw
          /\ \A s \in Sessions : s # n => session'[s] = session[s]
      BY <2>4 DEF Opened, TypeOK
    <2>6. OldPasswordIsOut'
      BY <2>2, <2>4, <2>5 DEF OldPasswordIsOut, PasswordInv, Live
    <2>7. ASSUME NEW q \in Changing', NEW s \in Sessions, Live(s)'
          PROVE  s \in request'[q].cut \cup {request'[q].s} \cup late'
      BY <2>3, <2>4, <2>5, <2>7 DEF PasswordInv, Live
    <2>8. \A q \in Requests : request'[q].kind \in {"login", "change"} => owners' > 0
      BY <2>2
    <2> QED BY <2>2, <2>6, <2>7, <2>8 DEF PasswordInv
  <1>5. ASSUME NEW r \in Requests, SelectSessions(r) PROVE PasswordInv'
    <2>1. /\ Step(r)
          /\ \A q \in Requests \ {r} : request'[q] = request[q]
          /\ request'[r].kind = request[r].kind
          /\ request'[r].cut = ToRevoke(r) /\ request'[r].s = request[r].s
      BY <1>5, Fields DEF Step, SelectSessions, Set, TypeOK, Request
    <2>2. UNCHANGED <<owners, password, session, late>>
      BY <1>5 DEF SelectSessions, people, history
    <2>3. ASSUME NEW q \in Changing', NEW s \in Sessions, Live(s)'
          PROVE  s \in request'[q].cut \cup {request'[q].s} \cup late'
      <3>1. CASE q = r
        BY <2>1, <2>2, <2>3, <3>1 DEF ToRevoke, Live
      <3>2. CASE q # r
        BY <2>1, <2>2, <2>3, <3>2 DEF PasswordInv, Live, Changing, At
      <3> QED BY <3>1, <3>2
    <2> QED BY <2>1, <2>2, <2>3 DEF PasswordInv, OldPasswordIsOut, Live
  <1>6. ASSUME NEW r \in Requests, CommitSessions(r) PROVE PasswordInv'
    <2>1. Step(r) /\ request'[r] = NoRequest
      BY <1>6 DEF Step, CommitSessions, Set, TypeOK
    <2>2. Changing' \subseteq Changing /\ \A q \in Changing' : request'[q] = request[q]
      BY <2>1, KindStep, NoRequestFits DEF Changing, At
    <2>3. owners' = owners /\ late' = late
      BY <1>6 DEF CommitSessions, history
    <2>4. ASSUME NEW s \in Sessions, Live(s)'
          PROVE  /\ Live(s) /\ s \notin request[r].cut
                 /\ s # request[r].s \/ request[r].kind # "change"
                      => session'[s] = session[s]
                 /\ s = request[r].s /\ request[r].kind = "change"
                      => session'[s].pw = password + 1
      BY <1>6, <2>4, SessionFields DEF CommitSessions, Live, SessionRow
    <2>5. OldPasswordIsOut'
      <3>1. CASE request[r].kind = "change"
        <4>1. password' = password + 1 /\ r \in Changing
          BY <1>6, <3>1 DEF CommitSessions, Changing, At
        <4> QED BY <2>3, <2>4, <3>1, <4>1, Scalars DEF OldPasswordIsOut, PasswordInv
      <3>2. CASE request[r].kind # "change"
        <4>1. password' = password
          BY <1>6, <3>2 DEF CommitSessions
        <4> QED BY <2>3, <2>4, <3>2, <4>1 DEF OldPasswordIsOut, PasswordInv
      <3> QED BY <3>1, <3>2
    <2>6. \A q \in Requests : request'[q].kind \in {"login", "change"} => owners' > 0
      BY <2>1, <2>3, KindStep, NoRequestFits DEF PasswordInv
    <2> QED BY <2>2, <2>3, <2>4, <2>5, <2>6 DEF PasswordInv
  <1>7. ASSUME NEW r \in Requests, Step(r), ~CommitRegister(r), ~CommitLogin(r),
               ~SelectSessions(r), ~CommitSessions(r)
        PROVE  PasswordInv'
    <2>1. UNCHANGED <<owners, password, session, late>>
      BY <1>7 DEF Step, Register, Login, Change, RevokeOthers, Disconnect, Callback, Burn,
                  Exchange, ExchangeFails, Refused, FindAccount, FindToken, CommitCallback,
                  CommitDisconnect, Conflict, Crash, people, history
    <2>2. request'[r].kind \in {"login", "change"} => owners > 0
      <3>1. CASE \E s \in Sessions : Change(r, s)
        BY <3>1 DEF Change, PasswordInv
      <3>2. CASE Login(r)
        BY <3>2 DEF Login
      <3>3. CASE request'[r].kind \in {request[r].kind, "none"}
        BY <3>3 DEF PasswordInv
      <3> QED BY <1>7, <3>1, <3>2, <3>3, KindStep, NoRequestFits DEF Begins
    <2>3. request'[r].kind = "change" => request'[r].pc # "commit"
      <3>1. ASSUME NEW s \in Sessions, Change(r, s) PROVE request'[r].pc = "select"
        <4>1. [NoRequest EXCEPT !.kind = "change", !.pc = "select", !.s = s].pc = "select"
          BY NoRequestFits DEF Request, Kinds
        <4> QED BY <3>1, <4>1 DEF Change, Set, TypeOK
      <3>2. CASE request'[r].kind = request[r].kind /\ request[r].kind = "change"
        BY <1>7, <3>2, NoRequestFits
           DEF Step, Register, Login, Change, RevokeOthers, Disconnect, Callback, Burn, Exchange,
               ExchangeFails, Refused, FindAccount, FindToken, CommitCallback, CommitDisconnect,
               Conflict, Crash, RollBack, Free, At, Shape, WellFormed, Set, TypeOK
      <3> QED BY <1>7, <3>1, <3>2, KindStep, NoRequestFits DEF Begins
    <2> QED BY <1>7, <2>1, <2>2, <2>3, PasswordQuiet
  <1> QED BY <1>1, <1>2, <1>3, <1>4, <1>5, <1>6, <1>7
          DEF Next, vars, people, history, StartFlow, ExpireFlow, Consent

(* After a change of the password no session is good that was opened with an *)
(* old one, unless its login ran beside the change (change_password,         *)
(* revoke_all_sessions).                                                     *)
THEOREM PasswordRules == Spec => []OldPasswordIsOut
  <1>1. Spec => [](TypeOK /\ Shape /\ PasswordInv)
    BY InitTypes, InitPassword, TypeStep, PasswordStep, PTL DEF Spec
  <1>2. PasswordInv => OldPasswordIsOut
    BY DEF PasswordInv
  <1> QED BY <1>1, <1>2, PTL

-----------------------------------------------------------------------------
(* Codes                                                                     *)

(* An authorization in order has one callback, which has not sent the code   *)
(* before its exchange; once the code was sent, the state is not usable by   *)
(* the time the callback is over.                                            *)
InOrder(f) ==
    /\ \A q, r \in Requests : request[q].f = f /\ request[r].f = f => q = r
    /\ presented[f] \in {0, 1}
    /\ \A r \in Requests : request[r].f = f /\ request[r].pc \in {"burn", "exchange"}
                              => presented[f] = 0
    /\ presented[f] # 0 /\ flow[f] = "open" => \E r \in Requests : request[r].f = f

NotStarted(f) == presented[f] = 0 /\ \A r \in Requests : request[r].f # f

CodeInv ==
    \A f \in Flows : /\ f \notin again => InOrder(f)
                     /\ flow[f] = "none" => NotStarted(f)

LEMMA InitCode == Init => CodeInv
  BY NoRequestFits DEF Init, CodeInv, InOrder, NotStarted

(* What one request does to the authorizations of the others: nothing.       *)
LEMMA CodeElsewhere ==
    ASSUME TypeOK, Shape, CodeInv, NEW r \in Requests, Step(r), NEW f \in Flows,
           f # request[r].f, f # request'[r].f
    PROVE  /\ f \notin again' => InOrder(f)'
           /\ flow'[f] = "none" => NotStarted(f)'
  <1>1. \A q \in Requests : request[q].f = f <=> request'[q].f = f
    BY KindStep
  <1>2. \A q \in Requests : request'[q].f = f => request'[q] = request[q]
    BY KindStep
  <1>3. presented'[f] = presented[f] /\ flow'[f] = flow[f] /\ again \subseteq again'
    <2>1. CASE UNCHANGED <<presented, flow, again>>
      BY <2>1
    <2>2. CASE Exchange(r) \/ ExchangeFails(r) \/ Crash(r)
      BY <2>2 DEF Exchange, ExchangeFails, Crash, RollBack, Presented, TypeOK
    <2>3. CASE Refused(r) \/ CommitCallback(r)
      BY <2>3 DEF Refused, CommitCallback, TypeOK, history
    <2>4. CASE Conflict(r) \/ \E g \in Flows : Callback(r, g)
      BY <2>4 DEF Conflict, RollBack, Callback, connect
    <2> QED BY <2>1, <2>2, <2>3, <2>4
            DEF Step, Register, CommitRegister, Login, CommitLogin, SelectSessions, CommitSessions,
                Change, RevokeOthers, Disconnect, Burn, FindAccount, FindToken, CommitDisconnect,
                connect, history
  <1> QED BY <1>1, <1>2, <1>3 DEF CodeInv, InOrder, NotStarted

(* The authorization of the callback that takes the step.                    *)
LEMMA CodeHere ==
    ASSUME TypeOK, Shape, CodeInv, NEW r \in Requests, Step(r), NEW f \in Flows,
           f = request[r].f
    PROVE  /\ f \notin again' => InOrder(f)'
           /\ flow'[f] = "none" => NotStarted(f)'
  <1>1. request[r].kind = "callback" /\ request[r].pc # "idle" /\ flow[f] # "none"
    BY NoRequestFits DEF Shape, WellFormed, CodeInv, NotStarted
  <1>2. f \notin again => InOrder(f)
    BY DEF CodeInv
  <1>3. ASSUME UNCHANGED <<presented, flow, again>>, request'[r].f = f,
               request'[r].pc \in {"burn", "exchange"} => request[r].pc \in {"burn", "exchange"}
        PROVE  (f \notin again' => InOrder(f)') /\ flow'[f] # "none"
    BY <1>1, <1>2, <1>3, KindStep DEF InOrder
  <1>4. CASE Burn(r)
    <2>1. [request[r] EXCEPT !.pc = "exchange"].f = f
      BY Fields DEF Request
    <2> QED BY <1>3, <1>4, <2>1 DEF Burn, At, Set, TypeOK, connect, history
  <1>5. CASE FindAccount(r)
    <2> DEFINE q == [request[r] EXCEPT !.pc = "store", !.acc = account]
    <2>1. q.f = f /\ q.pc = "store"
      BY Fields DEF Request
    <2> HIDE DEF q
    <2>2. request'[r] = q
      BY <1>5 DEF FindAccount, Set, TypeOK, q
    <2> QED BY <1>3, <1>5, <2>1, <2>2 DEF FindAccount, connect
  <1>6. CASE FindToken(r)
    <2> DEFINE q == [request[r] EXCEPT !.pc = "commit", !.tok = token]
    <2>1. q.f = f /\ q.pc = "commit"
      BY Fields DEF Request
    <2> HIDE DEF q
    <2>2. request'[r] = q
      BY <1>6 DEF FindToken, Set, TypeOK, q
    <2> QED BY <1>3, <1>6, <2>1, <2>2 DEF FindToken, connect, history
  <1>7. CASE Exchange(r) \/ ExchangeFails(r)
    <2>1. PICK p \in {"find", "refused"} : Set(r, [request[r] EXCEPT !.pc = p])
      BY <1>7 DEF Exchange, ExchangeFails
    <2>2. [request[r] EXCEPT !.pc = p].f = f /\ [request[r] EXCEPT !.pc = p].pc = p
      BY Fields DEF Request
    <2>3. request'[r].f = f /\ request'[r].pc = p
      BY <2>1, <2>2 DEF Set, TypeOK
    <2>4. request[r].pc = "exchange" /\ presented'[f] = presented[f] + 1
          /\ flow' = flow /\ again' = again
      BY <1>7 DEF Exchange, ExchangeFails, Presented, At, TypeOK
    <2> QED BY <1>1, <1>2, <2>3, <2>4, KindStep DEF InOrder
  <1>8. CASE Refused(r) \/ CommitCallback(r)
    <2>1. request'[r] = NoRequest /\ flow'[f] = "used" /\ presented' = presented /\ again' = again
      BY <1>8 DEF Refused, CommitCallback, Set, TypeOK, history
    <2> QED BY <1>2, <2>1, KindStep, NoRequestFits DEF InOrder
  <1>9. CASE Conflict(r) \/ Crash(r)
    <2>1. f \in again' /\ flow' = flow
      BY <1>9, NoRequestFits DEF Conflict, Crash, RollBack, connect
    <2> QED BY <1>1, <2>1
  <1> QED BY <1>1, <1>4, <1>5, <1>6, <1>7, <1>8, <1>9
          DEF Step, Register, CommitRegister, Login, CommitLogin, SelectSessions, CommitSessions,
              Change, RevokeOthers, Disconnect, Callback, CommitDisconnect, At, Free

(* The authorization of a callback that begins.                              *)
LEMMA CodeBegins ==
    ASSUME TypeOK, Shape, CodeInv, NEW r \in Requests, Step(r), NEW f \in Flows,
           f # request[r].f, f = request'[r].f
    PROVE  /\ f \notin again' => InOrder(f)'
           /\ flow'[f] = "none" => NotStarted(f)'
  <1>1. Callback(r, f) /\ request[r] = NoRequest
    BY KindStep, RequestStep, NoRequestFits DEF Begins, Shape, WellFormed
  <1>2. flow'[f] = "open" /\ presented' = presented /\ flow[f] = "open"
    BY <1>1 DEF Callback, Usable, connect
  <1>3. f \notin again' => f \notin again /\ \A q \in Requests \ {r} : request[q].f # f
    BY <1>1 DEF Callback, Beside
  <1>4. f \notin again' => presented[f] = 0
    BY <1>1, <1>2, <1>3, NoRequestFits DEF CodeInv, InOrder
  <1> QED BY <1>2, <1>3, <1>4, KindStep DEF InOrder

LEMMA CodeStep == TypeOK /\ Shape /\ CodeInv /\ [Next]_vars => CodeInv'
  <1> SUFFICES ASSUME TypeOK, Shape, CodeInv, [Next]_vars PROVE CodeInv'
    OBVIOUS
  <1>1. CASE UNCHANGED <<request, presented, flow, again>>
    BY <1>1 DEF CodeInv, InOrder, NotStarted
  <1>2. ASSUME NEW r \in Requests, Step(r) PROVE CodeInv'
    BY <1>2, CodeElsewhere, CodeHere, CodeBegins DEF CodeInv
  <1>3. ASSUME NEW s \in Sessions, NEW g \in Flows, StartFlow(s, g) PROVE CodeInv'
    BY <1>3 DEF StartFlow, CodeInv, InOrder, NotStarted, history, TypeOK
  <1>4. ASSUME NEW g \in Flows, ExpireFlow(g) PROVE CodeInv'
    BY <1>4 DEF ExpireFlow, CodeInv, InOrder, NotStarted, history, TypeOK
  <1> QED BY <1>1, <1>2, <1>3, <1>4
          DEF Next, vars, people, connect, history, ExpireSession, Logout, Consent

(* A code goes to X once, unless two callbacks read its state at the same    *)
(* time or one was rolled back with its burn (complete_authorization).       *)
THEOREM CodesGoOnce == Spec => []CodeIsSentOnce
  <1>1. Spec => [](TypeOK /\ Shape /\ CodeInv)
    BY InitTypes, InitCode, TypeStep, CodeStep, PTL DEF Spec
  <1>2. CodeInv => CodeIsSentOnce
    BY DEF CodeInv, InOrder, CodeIsSentOnce
  <1> QED BY <1>1, <1>2, PTL

-----------------------------------------------------------------------------
(* The connection                                                            *)

Holds(q, kind) == request[q].kind = kind /\ request[q].pc \in {"store", "commit"}

(* A disconnect that is alone knows the account and the token as they are; a *)
(* callback that has seen the account active still finds it so.              *)
Alone(d) ==
    /\ \A q \in Requests \ {d} : ~Holds(q, "disconnect") /\ ~Holds(q, "callback")
    /\ request[d].acc = account
    /\ request[d].pc = "commit" => request[d].tok = token

WholeInv ==
    ~raced =>
        /\ account = "active" <=> token # 0
        /\ \A d \in Requests : Holds(d, "disconnect") => Alone(d)
        /\ \A c \in Requests : Holds(c, "callback") /\ request[c].acc = "active"
                                  => account = "active"

LEMMA InitWhole == Init => WholeInv
  BY NoRequestFits DEF Init, WholeInv, Holds

(* Where nobody comes to hold the account, and it does not change, nothing   *)
(* is lost.                                                                  *)
LEMMA WholeQuiet ==
    ASSUME TypeOK, Shape, WholeInv, NEW r \in Requests, Step(r),
           UNCHANGED <<account, token, raced>>,
           ~Holds(r, "callback")' /\ ~Holds(r, "disconnect")'
    PROVE  WholeInv'
  <1>1. \A q \in Requests : Holds(q, "callback")' \/ Holds(q, "disconnect")'
                              => q # r /\ request'[q] = request[q]
    BY KindStep
  <1>2. \A q \in Requests : q # r => request'[q] = request[q]
    BY KindStep
  <1> QED BY <1>1, <1>2 DEF WholeInv, Holds, Alone

LEMMA WholeStep == TypeOK /\ Shape /\ WholeInv /\ [Next]_vars => WholeInv'
  <1> SUFFICES ASSUME TypeOK, Shape, WholeInv, [Next]_vars PROVE WholeInv'
    OBVIOUS
  <1>1. CASE UNCHANGED <<request, account, token, raced>>
    BY <1>1 DEF WholeInv, Holds, Alone
  <1>2. ASSUME NEW r \in Requests, FindAccount(r) PROVE WholeInv'
    <2> DEFINE q == [request[r] EXCEPT !.pc = "store", !.acc = account]
    <2>1. q.pc = "store" /\ q.acc = account /\ q.kind = "callback"
      BY <1>2, Fields DEF Request, FindAccount, At
    <2> HIDE DEF q
    <2>2. request'[r] = q /\ \A o \in Requests : o # r => request'[o] = request[o]
      BY <1>2 DEF FindAccount, Set, TypeOK, q
    <2>3. ~raced' => ~raced /\ \A o \in Requests : o # r => ~Holds(o, "disconnect")
      BY <1>2 DEF FindAccount, Holding, Holds
    <2>4. account' = account /\ token' = token
      BY <1>2 DEF FindAccount, connect
    <2> QED BY <2>1, <2>2, <2>3, <2>4 DEF WholeInv, Holds
  <1>3. ASSUME NEW r \in Requests, NEW s \in Sessions, Disconnect(r, s) PROVE WholeInv'
    <2> DEFINE q == [NoRequest EXCEPT !.kind = "disconnect", !.pc = "store", !.acc = account]
    <2>1. q.pc = "store" /\ q.acc = account /\ q.kind = "disconnect"
      BY NoRequestFits DEF Request, Kinds
    <2> HIDE DEF q
    <2>2. request'[r] = q /\ \A o \in Requests : o # r => request'[o] = request[o]
      BY <1>3 DEF Disconnect, Set, TypeOK, q
    <2>3. ~raced' => ~raced /\ \A o \in Requests : o # r => ~Holds(o, "disconnect")
                                                            /\ ~Holds(o, "callback")
      BY <1>3 DEF Disconnect, Holding, Holds
    <2>4. account' = account /\ token' = token
      BY <1>3 DEF Disconnect, connect
    <2> QED BY <2>1, <2>2, <2>3, <2>4 DEF WholeInv, Holds, Alone
  <1>4. ASSUME NEW r \in Requests, FindToken(r) PROVE WholeInv'
    <2> DEFINE q == [request[r] EXCEPT !.pc = "commit", !.tok = token]
    <2>1. /\ q.pc = "commit" /\ q.tok = token
          /\ q.acc = request[r].acc /\ q.kind = request[r].kind
      BY Fields DEF Request
    <2> HIDE DEF q
    <2>2. request'[r] = q /\ \A o \in Requests : o # r => request'[o] = request[o]
      BY <1>4 DEF FindToken, Set, TypeOK, q
    <2>3. account' = account /\ token' = token /\ raced' = raced /\ request[r].pc = "store"
      BY <1>4 DEF FindToken, connect, history
    <2> QED BY <2>1, <2>2, <2>3 DEF WholeInv, Holds, Alone
  <1>5. ASSUME NEW r \in Requests, CommitCallback(r) PROVE WholeInv'
    <2>1. Holds(r, "callback") /\ raced' = raced /\ token' # 0
      BY <1>5, Scalars DEF CommitCallback, At, Holds, history
    <2>2. request'[r] = NoRequest /\ \A o \in Requests : o # r => request'[o] = request[o]
      BY <1>5 DEF CommitCallback, Set, TypeOK
    <2>3. ~raced => account' = "active"
      BY <1>5, <2>1 DEF CommitCallback, ActiveAfter, WholeInv
    <2> QED BY <2>1, <2>2, <2>3, NoRequestFits DEF WholeInv, Holds, Alone
  <1>6. ASSUME NEW r \in Requests, CommitDisconnect(r) PROVE WholeInv'
    <2>1. Holds(r, "disconnect") /\ raced' = raced /\ request[r].pc = "commit"
      BY <1>6 DEF CommitDisconnect, At, Holds, history
    <2>2. request'[r] = NoRequest /\ \A o \in Requests : o # r => request'[o] = request[o]
      BY <1>6 DEF CommitDisconnect, Set, TypeOK
    <2>3. ~raced => account' # "active" /\ token' = 0
      BY <1>6, <2>1 DEF CommitDisconnect, WholeInv, Alone
    <2>4. ~raced => \A o \in Requests : ~Holds(o, "disconnect")' /\ ~Holds(o, "callback")'
      BY <2>1, <2>2, NoRequestFits DEF WholeInv, Alone, Holds
    <2> QED BY <2>1, <2>3, <2>4 DEF WholeInv
  <1>7. ASSUME NEW r \in Requests, Step(r), ~FindAccount(r), ~FindToken(r), ~CommitCallback(r),
               ~CommitDisconnect(r), \A s \in Sessions : ~Disconnect(r, s)
        PROVE  WholeInv'
    <2>1. UNCHANGED <<account, token, raced>>
      BY <1>7 DEF Step, Register, CommitRegister, Login, CommitLogin, SelectSessions,
                  CommitSessions, Change, RevokeOthers, Callback, Burn, Exchange, ExchangeFails,
                  Refused, Conflict, Crash, connect, history
    <2>2. ~Holds(r, "callback")' /\ ~Holds(r, "disconnect")'
      <3>1. CASE Set(r, NoRequest)
        BY <3>1, NoRequestFits DEF Set, Holds, TypeOK
      <3>2. CASE Register(r) \/ Login(r)
                 \/ \E s \in Sessions : Change(r, s) \/ RevokeOthers(r, s)
        <4>1. /\ [NoRequest EXCEPT !.kind = "register", !.pc = "commit"].kind = "register"
              /\ [NoRequest EXCEPT !.kind = "login", !.pc = "commit", !.pw = password].kind = "login"
              /\ \A s \in Sessions :
                   /\ [NoRequest EXCEPT !.kind = "change", !.pc = "select", !.s = s].pc = "select"
                   /\ [NoRequest EXCEPT !.kind = "others", !.pc = "select", !.s = s].pc = "select"
          BY NoRequestFits DEF Request, Kinds
        <4> QED BY <3>2, <4>1 DEF Register, Login, Change, RevokeOthers, Set, Holds, TypeOK
      <3>3. ASSUME NEW f \in Flows, Callback(r, f)
            PROVE  ~Holds(r, "callback")' /\ ~Holds(r, "disconnect")'
        <4>1. [NoRequest EXCEPT !.kind = "callback", !.pc = "burn", !.f = f].pc = "burn"
          BY NoRequestFits DEF Request, Kinds
        <4> QED BY <3>3, <4>1 DEF Callback, Set, Holds, TypeOK
      <3>4. CASE SelectSessions(r)
        <4>1. request[r].kind \in {"change", "others"}
          BY <3>4 DEF SelectSessions
        <4>2. [request[r] EXCEPT !.pc = "commit", !.cut = ToRevoke(r)].kind = request[r].kind
          BY Fields DEF Request
        <4> QED BY <3>4, <4>1, <4>2 DEF SelectSessions, Set, Holds, TypeOK
      <3>5. CASE Burn(r) \/ Exchange(r) \/ ExchangeFails(r)
        <4>1. PICK p \in {"exchange", "find", "refused"} : Set(r, [request[r] EXCEPT !.pc = p])
          BY <3>5 DEF Burn, Exchange, ExchangeFails
        <4>2. [request[r] EXCEPT !.pc = p].pc = p
          BY Fields DEF Request
        <4> QED BY <4>1, <4>2 DEF Set, Holds, TypeOK
      <3> QED BY <1>7, <3>1, <3>2, <3>3, <3>4, <3>5
              DEF Step, CommitRegister, CommitLogin, CommitSessions, Refused, Conflict, Crash,
                  RollBack
    <2> QED BY <1>7, <2>1, <2>2, WholeQuiet
  <1> QED BY <1>1, <1>2, <1>3, <1>4, <1>5, <1>6, <1>7
          DEF Next, vars, connect, history, ExpireSession, Logout, StartFlow, ExpireFlow, Consent

(* An account is active exactly when its credential is stored, as long as no *)
(* disconnect runs beside another change of it (complete_authorization,      *)
(* disconnect).                                                              *)
THEOREM ConnectionsStayWhole == Spec => []ConnectionIsWhole
  <1>1. Spec => [](TypeOK /\ Shape /\ WholeInv)
    BY InitTypes, InitWhole, TypeStep, WholeStep, PTL DEF Spec
  <1>2. WholeInv => ConnectionIsWhole
    BY DEF WholeInv, ConnectionIsWhole
  <1> QED BY <1>1, <1>2, PTL
=============================================================================
