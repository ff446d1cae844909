------------------------- MODULE ApprovalQueueProofs -------------------------
(***************************************************************************)
(* Theorems about ApprovalQueue, for any number of actions and requests,   *)
(* any window and any crashes.                                             *)
(***************************************************************************)
EXTENDS ApprovalQueue, TLAPS

Holding == {"gate", "perform", "commit"}

(* A request that is over is about nothing; one that is under way is about a *)
(* proposal that was made.  Only an execution creates a topic, its action's. *)
Shape ==
    \A r \in Requests :
        /\ req[r].pc = "idle" => req[r] = NoRequest
        /\ req[r].pc # "idle" => req[r].action \in Actions /\ status[req[r].action] # "none"
        /\ req[r].create # None =>
              req[r].pc = "commit" /\ req[r].result = "EXECUTED"
              /\ req[r].create = name[req[r].action]
        /\ req[r].pc = "commit" => req[r].result # "none"

(* A proposal that was made has a payload; what took effect was proposed.    *)
Proposed ==
    \A a \in Actions : /\ status[a] # "none" => name[a] # None
                       /\ a \in made => status[a] # "none"

(* Who holds the lock of a row is who has written it and not committed.      *)
Locks ==
    \A a \in Actions : \A r \in Requests :
        locked[a] = r <=> req[r].pc \in Holding /\ req[r].action = a

-----------------------------------------------------------------------------
(* Types                                                                     *)

LEMMA NoRequestFits ==
    /\ NoRequest \in Request /\ NoRequest.pc = "idle" /\ NoRequest.action = None
    /\ NoRequest.create = None /\ NoRequest.result = "none"
    /\ None \notin Actions /\ None \notin Names /\ None \notin Requests
  BY QueueAssumption DEF NoRequest, Request

LEMMA Fields ==
    ASSUME TypeOK, NEW r \in Requests
    PROVE  /\ req[r] \in Request /\ req[r].action \in Actions \cup {None}
           /\ req[r].create \in Names \cup {None} /\ req[r].result \in Final \cup {"none"}
  BY DEF TypeOK, Request

LEMMA Rows ==
    ASSUME TypeOK, NEW a \in Actions
    PROVE  /\ status[a] \in Status /\ expiresAt[a] \in Nat
           /\ name[a] \in Names \cup {Unfit, None} /\ now \in Nat
           /\ locked[a] \in Requests \cup {None}
  BY DEF TypeOK

OthersStay(r) == /\ req' = [req EXCEPT ![r] = req'[r]]
                 /\ \A o \in Requests \ {r} : req'[o] = req[o]

LEMMA Writes ==
    ASSUME TypeOK, NEW r \in Requests, NEW q, req' = [req EXCEPT ![r] = q]
    PROVE  req'[r] = q /\ OthersStay(r)
  BY DEF TypeOK, OthersStay

Sound == TypeOK /\ Shape /\ Proposed /\ Locks

LEMMA InitTypes == Init => Sound
  <1> SUFFICES ASSUME Init PROVE Sound
    OBVIOUS
  <1>1. req \in [Requests -> Request] /\ \A r \in Requests : req[r] = NoRequest
    BY NoRequestFits DEF Init
  <1>2. status \in [Actions -> Status] /\ name \in [Actions -> Names \cup {Unfit, None}]
    BY DEF Init, Status
  <1>3. expiresAt \in [Actions -> Nat] /\ locked \in [Actions -> Requests \cup {None}]
    BY DEF Init
  <1>4. TypeOK
    BY <1>1, <1>2, <1>3 DEF Init, TypeOK
  <1>5. Shape
    BY <1>1, NoRequestFits DEF Shape
  <1>6. Locks
    BY <1>1, NoRequestFits DEF Init, Locks, Holding
  <1>7. Proposed
    BY DEF Init, Proposed
  <1> QED BY <1>4, <1>5, <1>6, <1>7 DEF Sound

(* What each step of a request writes into it; the other requests are left   *)
(* alone.                                                                    *)

Becomes(r, p) ==
    /\ req'[r] \in Request
    /\ req'[r].pc = p /\ req'[r].action = req[r].action
    /\ req'[r].create = req[r].create /\ req'[r].result = req[r].result

LEMMA BeginWrites ==
    ASSUME TypeOK, NEW r \in Requests, NEW a \in Actions, Begin(r, a)
    PROVE  /\ OthersStay(r) /\ req'[r] \in Request
           /\ req'[r].pc \in {"judge", "reject"}
           /\ req'[r].action = a /\ req'[r].create = None /\ req'[r].result = "none"
  <1>1. PICK p \in {"judge", "reject"} :
           req' = [req EXCEPT ![r] = [NoRequest EXCEPT !.action = a, !.pc = p]]
    BY DEF Begin
  <1> DEFINE q == [NoRequest EXCEPT !.action = a, !.pc = p]
  <1>2. /\ q \in Request /\ q.pc = p /\ q.action = a
        /\ q.create = None /\ q.result = "none"
    BY NoRequestFits DEF Request
  <1> HIDE DEF q
  <1>3. req' = [req EXCEPT ![r] = q]
    BY <1>1 DEF q
  <1> QED BY <1>2, <1>3, Writes

LEMMA PcWrites ==
    ASSUME TypeOK, NEW r \in Requests,
           NEW p \in {"expire", "approve", "gate", "perform"},
           req' = [req EXCEPT ![r] = [req[r] EXCEPT !.pc = p]]
    PROVE  OthersStay(r) /\ Becomes(r, p)
  <1> DEFINE q == [req[r] EXCEPT !.pc = p]
  <1>1. /\ q \in Request /\ q.pc = p /\ q.action = req[r].action
        /\ q.create = req[r].create /\ q.result = req[r].result
    BY Fields DEF Request
  <1> HIDE DEF q
  <1>2. req' = [req EXCEPT ![r] = q]
    BY DEF q
  <1> QED BY <1>1, <1>2, Writes DEF Becomes

LEMMA JudgeWrites ==
    ASSUME TypeOK, NEW r \in Requests, Judge(r)
    PROVE  /\ OthersStay(r)
           /\ Becomes(r, IF Lapsed(req[r].action) THEN "expire" ELSE "approve")
  <1>1. req' = [req EXCEPT ![r] = [req[r] EXCEPT
                  !.pc = IF Lapsed(req[r].action) THEN "expire" ELSE "approve"]]
    BY DEF Judge, TypeOK
  <1> QED BY <1>1, PcWrites

LEMMA ApproveWrites ==
    ASSUME TypeOK, NEW r \in Requests, Approve(r)
    PROVE  OthersStay(r) /\ Becomes(r, "gate")
  <1>1. req' = [req EXCEPT ![r] = [req[r] EXCEPT !.pc = "gate"]]
    BY DEF Approve, TypeOK
  <1> QED BY <1>1, PcWrites

LEMMA GateWrites ==
    ASSUME TypeOK, NEW r \in Requests, Gate(r)
    PROVE  /\ OthersStay(r) /\ req'[r] \in Request
           /\ req'[r].action = req[r].action /\ req'[r].create = req[r].create
           /\ \/ ~Lapsed(req[r].action) /\ req'[r].pc = "perform"
              \/ Lapsed(req[r].action) /\ req'[r].pc = "commit" /\ req'[r].result = "EXPIRED"
  <1>1. CASE ~Lapsed(req[r].action)
    <2>1. req' = [req EXCEPT ![r] = [req[r] EXCEPT !.pc = "perform"]]
      BY <1>1 DEF Gate, GatePasses, TypeOK
    <2> QED BY <1>1, <2>1, PcWrites DEF Becomes
  <1>2. CASE Lapsed(req[r].action)
    <2> DEFINE q == [req[r] EXCEPT !.pc = "commit", !.result = "EXPIRED"]
    <2>1. /\ q \in Request /\ q.pc = "commit" /\ q.action = req[r].action
          /\ q.create = req[r].create /\ q.result = "EXPIRED"
      BY Fields DEF Request, Final
    <2>2. req' = [req EXCEPT ![r] = q]
      BY <1>2 DEF Gate, GatePasses, TypeOK
    <2> HIDE DEF q
    <2> QED BY <1>2, <2>1, <2>2, Writes
  <1> QED BY <1>1, <1>2

LEMMA PerformWrites ==
    ASSUME TypeOK, NEW r \in Requests, req[r].action \in Actions, Perform(r),
           req[r].create = None, name[req[r].action] # None
    PROVE  /\ OthersStay(r) /\ req'[r] \in Request
           /\ req'[r].pc = "commit" /\ req'[r].action = req[r].action
           /\ req'[r].result \in {"EXECUTED", "BLOCKED"}
           /\ req'[r].create # None => /\ req'[r].result = "EXECUTED"
                                       /\ req'[r].create = name[req[r].action]
  <1> DEFINE a == req[r].action
             c == IF name[a] \in topics THEN None ELSE name[a]
  <1>1. CASE Fits(a)
    <2>1. c \in Names \cup {None}
      BY <1>1, Rows DEF Fits
    <2>2. req' = [req EXCEPT ![r] = [req[r] EXCEPT !.pc = "commit", !.result = "EXECUTED",
                                                   !.create = c]]
      BY <1>1 DEF Perform, TypeOK
    <2>4. c # None => c = name[a]
      OBVIOUS
    <2> HIDE DEF c
    <2> DEFINE q == [req[r] EXCEPT !.pc = "commit", !.result = "EXECUTED", !.create = c]
    <2>3. /\ q \in Request /\ q.pc = "commit" /\ q.action = req[r].action
          /\ q.create = c /\ q.result = "EXECUTED"
      BY <2>1, Fields DEF Request, Final
    <2>5. req' = [req EXCEPT ![r] = q]
      BY <2>2
    <2> HIDE DEF q
    <2> QED BY <2>3, <2>4, <2>5, Writes
  <1>2. CASE ~Fits(a)
    <2> DEFINE q == [req[r] EXCEPT !.pc = "commit", !.result = "BLOCKED"]
    <2>1. /\ q \in Request /\ q.pc = "commit" /\ q.action = req[r].action
          /\ q.create = req[r].create /\ q.result = "BLOCKED"
      BY Fields DEF Request, Final
    <2>2. req' = [req EXCEPT ![r] = q]
      BY <1>2 DEF Perform, TypeOK
    <2> HIDE DEF q
    <2> QED BY <2>1, <2>2, Writes
  <1> QED BY <1>1, <1>2

Ends(r) == Decide(r, "expire", "EXPIRED") \/ Decide(r, "reject", "REJECTED")
           \/ Commit(r) \/ Conflict(r) \/ Crash(r)

LEMMA EndWrites ==
    ASSUME TypeOK, NEW r \in Requests, Ends(r)
    PROVE  OthersStay(r) /\ req'[r] = NoRequest
  <1>1. req' = [req EXCEPT ![r] = NoRequest]
    BY DEF Ends, Decide, Commit, Conflict, Crash, RollBack, End
  <1> QED BY <1>1, Writes

-----------------------------------------------------------------------------
(* The steps that keep every request as it is, and those of one request      *)

LEMMA QuietStep ==
    ASSUME Sound,
           \/ Tick \/ CreateTopic \/ UNCHANGED vars
           \/ \E a \in Actions : Propose(a) \/ Sweep(a)
    PROVE  /\ Sound' /\ UNCHANGED <<req, locked, contended, made>>
           /\ \A a \in Actions : status[a] # "none" =>
                 /\ expiresAt'[a] = expiresAt[a] /\ name'[a] = name[a]
                 /\ status'[a] # status[a] => /\ locked[a] = None
                                             /\ status[a] = "PENDING_APPROVAL"
                                             /\ status'[a] = "EXPIRED" /\ Lapsed(a)
  <1> USE DEF Sound
  <1>1. UNCHANGED <<req, locked, contended, made>>
    BY DEF Tick, CreateTopic, Propose, Sweep, history, vars
  <1>2. CASE Tick \/ CreateTopic \/ UNCHANGED vars
    <2>1. UNCHANGED <<status, name, expiresAt>> /\ topics' \subseteq Names /\ now' \in Nat
          /\ crashes' = crashes
      BY <1>2 DEF Tick, CreateTopic, vars, TypeOK
    <2> QED BY <1>1, <2>1 DEF TypeOK, Shape, Proposed, Locks
  <1>3. ASSUME NEW a \in Actions, Propose(a)
        PROVE  /\ Sound'
               /\ \A b \in Actions : status[b] # "none" =>
                     /\ expiresAt'[b] = expiresAt[b] /\ name'[b] = name[b]
                     /\ status'[b] = status[b]
    <2>1. PICK n \in Names \cup {Unfit} : name' = [name EXCEPT ![a] = n]
      BY <1>3 DEF Propose
    <2>2. /\ \A b \in Actions : b # a =>
               /\ status'[b] = status[b] /\ name'[b] = name[b] /\ expiresAt'[b] = expiresAt[b]
          /\ status[a] = "none" /\ status'[a] = "PENDING_APPROVAL" /\ name'[a] # None
      BY <1>3, <2>1, NoRequestFits, QueueAssumption DEF Propose, TypeOK
    <2>3. /\ status' \in [Actions -> Status] /\ expiresAt' \in [Actions -> Nat]
          /\ name' \in [Actions -> Names \cup {Unfit, None}]
      BY <1>3, <2>1, QueueAssumption DEF Propose, TypeOK, Status
    <2>4. TypeOK'
      BY <1>3, <2>3 DEF Propose, TypeOK, history
    <2>5. Shape' /\ Proposed' /\ Locks'
      BY <1>1, <2>2 DEF Shape, Proposed, Locks
    <2> QED BY <2>2, <2>4, <2>5
  <1>4. ASSUME NEW a \in Actions, Sweep(a)
        PROVE  /\ Sound' /\ name' = name /\ expiresAt' = expiresAt
               /\ \A b \in Actions : status'[b] # status[b] =>
                     /\ locked[b] = None /\ status[b] = "PENDING_APPROVAL"
                     /\ status'[b] = "EXPIRED" /\ Lapsed(b)
    <2>1. /\ \A b \in Actions : b # a => status'[b] = status[b]
          /\ status[a] = "PENDING_APPROVAL" /\ status'[a] = "EXPIRED" /\ Lapsed(a)
          /\ locked[a] = None /\ name' = name /\ expiresAt' = expiresAt
      BY <1>4 DEF Sweep, Sweepable, TypeOK
    <2>2. status' \in [Actions -> Status]
      BY <1>4 DEF Sweep, TypeOK, Status, Final
    <2>3. TypeOK'
      BY <1>4, <2>2 DEF Sweep, TypeOK, history
    <2>4. Shape' /\ Proposed' /\ Locks'
      BY <1>1, <2>1 DEF Shape, Proposed, Locks
    <2> QED BY <2>1, <2>3, <2>4
  <1>5. CASE Tick \/ CreateTopic \/ UNCHANGED vars
    BY <1>1, <1>2, <1>5 DEF Tick, CreateTopic, vars
  <1> QED BY <1>1, <1>2, <1>3, <1>4, <1>5 DEF Tick, CreateTopic, vars

LEMMA BeginStep ==
    ASSUME Sound, NEW r \in Requests, NEW a \in Actions, Begin(r, a)
    PROVE  Sound'
  <1> USE DEF Sound
  <1>1. UNCHANGED <<now, status, name, expiresAt, topics, locked, made, crashes>>
        /\ contended' \subseteq Actions /\ req[r].pc = "idle"
        /\ status[a] = "PENDING_APPROVAL"
    BY DEF Begin, TypeOK
  <1>2. TypeOK'
    BY <1>1, BeginWrites DEF TypeOK, OthersStay
  <1>3. Shape'
    BY <1>1, BeginWrites, NoRequestFits DEF Shape, OthersStay
  <1>4. Proposed' /\ Locks'
    BY <1>1, BeginWrites DEF Proposed, Locks, OthersStay, Holding
  <1> QED BY <1>2, <1>3, <1>4

LEMMA JudgeStep ==
    ASSUME Sound, NEW r \in Requests, Judge(r)
    PROVE  Sound'
  <1> USE DEF Sound
  <1>1. UNCHANGED <<now, status, name, expiresAt, topics, locked, history, crashes>>
        /\ req[r].pc = "judge"
    BY DEF Judge
  <1>2. OthersStay(r) /\ \E p \in {"expire", "approve"} : Becomes(r, p)
    BY JudgeWrites
  <1>3. TypeOK'
    BY <1>1, <1>2 DEF TypeOK, OthersStay, Becomes, history
  <1>4. Shape'
    BY <1>1, <1>2 DEF Shape, OthersStay, Becomes
  <1>5. Proposed' /\ Locks'
    BY <1>1, <1>2 DEF Proposed, Locks, OthersStay, Becomes, Holding, history
  <1> QED BY <1>3, <1>4, <1>5

LEMMA ApproveStep ==
    ASSUME Sound, NEW r \in Requests, Approve(r)
    PROVE  Sound'
  <1> USE DEF Sound
  <1>1. UNCHANGED <<now, status, name, expiresAt, topics, history, crashes>>
        /\ req[r].pc = "approve" /\ req[r].action \in Actions
        /\ locked[req[r].action] = None
        /\ locked' = [locked EXCEPT ![req[r].action] = r]
    BY DEF Approve, Shape
  <1>2. OthersStay(r) /\ Becomes(r, "gate")
    BY ApproveWrites
  <1>3. TypeOK'
    BY <1>1, <1>2 DEF TypeOK, OthersStay, Becomes, history
  <1>4. Shape'
    BY <1>1, <1>2 DEF Shape, OthersStay, Becomes
  <1>5. Proposed'
    BY <1>1 DEF Proposed, history
  <1>6. \A b \in Actions : locked'[b] = IF b = req[r].action THEN r ELSE locked[b]
    BY <1>1 DEF TypeOK
  <1>7. Locks'
    BY <1>1, <1>2, <1>6, NoRequestFits DEF Locks, OthersStay, Becomes, Holding
  <1> QED BY <1>3, <1>4, <1>5, <1>7

LEMMA GateStep ==
    ASSUME Sound, NEW r \in Requests, Gate(r)
    PROVE  Sound'
  <1> USE DEF Sound
  <1>1. UNCHANGED <<now, status, name, expiresAt, topics, locked, history, crashes>>
        /\ req[r].pc = "gate"
    BY DEF Gate
  <1>2. TypeOK'
    BY <1>1, GateWrites DEF TypeOK, OthersStay, history
  <1>3. Shape'
    BY <1>1, GateWrites DEF Shape, OthersStay
  <1>4. Proposed' /\ Locks'
    BY <1>1, GateWrites DEF Proposed, Locks, OthersStay, Holding, history
  <1> QED BY <1>2, <1>3, <1>4

LEMMA PerformStep ==
    ASSUME Sound, NEW r \in Requests, Perform(r)
    PROVE  /\ Sound'
           /\ OthersStay(r) /\ req'[r].pc = "commit" /\ req'[r].action = req[r].action
           /\ req'[r].result \in {"EXECUTED", "BLOCKED"}
  <1> USE DEF Sound
  <1>1. UNCHANGED <<now, status, name, expiresAt, topics, locked, history, crashes>>
        /\ req[r].pc = "perform"
    BY DEF Perform
  <1>2. req[r].action \in Actions /\ req[r].create = None /\ name[req[r].action] # None
    BY <1>1 DEF Shape, Proposed
  <1>3. TypeOK'
    BY <1>1, <1>2, PerformWrites DEF TypeOK, OthersStay, history
  <1>4. Shape'
    BY <1>1, <1>2, PerformWrites DEF Shape, OthersStay
  <1>5. Proposed' /\ Locks'
    BY <1>1, <1>2, PerformWrites DEF Proposed, Locks, OthersStay, Holding, history
  <1> QED BY <1>2, <1>3, <1>4, <1>5, PerformWrites

(* A request that ends: Written is what it leaves in the row it was about.   *)
Outcome(r) == IF req[r].pc = "expire" THEN "EXPIRED"
              ELSE IF req[r].pc = "reject" THEN "REJECTED" ELSE req[r].result

LEMMA EndStep ==
    ASSUME Sound, NEW r \in Requests, Ends(r)
    PROVE  /\ Sound' /\ UNCHANGED <<now, name, expiresAt, contended>>
           /\ req[r].action \in Actions
           /\ \A b \in Actions : status'[b] # status[b] =>
                 /\ b = req[r].action /\ status'[b] = Outcome(r)
                 /\ \/ req[r].pc \in {"expire", "reject"} /\ locked[b] = None
                    \/ req[r].pc = "commit"
           /\ \/ made' = made /\ topics' = topics
              \/ /\ Commit(r) /\ req[r].create # None /\ req[r].create \notin topics
                 /\ made' = made \cup {req[r].action}
                 /\ topics' = topics \cup {req[r].create}
                 /\ status'[req[r].action] = "EXECUTED"
                 /\ req[r].create = name[req[r].action]
  <1> USE DEF Sound
  <1> DEFINE a == req[r].action
  <1>1. req[r].pc # "idle" /\ a \in Actions /\ status[a] # "none"
    BY DEF Ends, Decide, Commit, Conflict, Crash, Shape
  <1>2. UNCHANGED <<now, name, expiresAt, contended>>
    BY DEF Ends, Decide, Commit, Conflict, Crash, RollBack, history
  <1>3. crashes' \in Nat
    BY DEF Ends, Decide, Commit, Conflict, Crash, TypeOK
  <1>4. \A b \in Actions : locked'[b] = IF locked[b] = r THEN None ELSE locked[b]
    <2>1. CASE Decide(r, "expire", "EXPIRED") \/ Decide(r, "reject", "REJECTED")
      BY <1>1, <2>1, NoRequestFits DEF Decide, Locks, Holding
    <2>2. CASE Commit(r) \/ Conflict(r) \/ Crash(r)
      BY <2>2 DEF Commit, Conflict, Crash, RollBack, End
    <2> QED BY <2>1, <2>2 DEF Ends
  <1>5. locked' \in [Actions -> Requests \cup {None}]
    <2>1. CASE Decide(r, "expire", "EXPIRED") \/ Decide(r, "reject", "REJECTED")
      BY <2>1 DEF Decide, TypeOK
    <2>2. CASE Commit(r) \/ Conflict(r) \/ Crash(r)
      BY <2>2 DEF Commit, Conflict, Crash, RollBack, End, TypeOK
    <2> QED BY <2>1, <2>2 DEF Ends
  <1>6. /\ status' \in [Actions -> Status]
        /\ \A b \in Actions : status'[b] # status[b] =>
              /\ b = a /\ status'[b] = Outcome(r)
              /\ \/ req[r].pc \in {"expire", "reject"} /\ locked[b] = None
                 \/ req[r].pc = "commit"
        /\ status'[a] # "none"
    <2>1. CASE Decide(r, "expire", "EXPIRED")
      BY <1>1, <2>1 DEF Decide, TypeOK, Status, Final, Outcome
    <2>2. CASE Decide(r, "reject", "REJECTED")
      BY <1>1, <2>2 DEF Decide, TypeOK, Status, Final, Outcome
    <2>3. CASE Commit(r)
      <3>1. status' = [status EXCEPT ![a] = req[r].result] /\ req[r].pc = "commit"
        BY <2>3 DEF Commit
      <3>2. req[r].result \in Final /\ req[r].result # "none"
        BY <3>1, Fields DEF Shape, Final
      <3> QED BY <1>1, <3>1, <3>2 DEF TypeOK, Status, Outcome
    <2>4. CASE Conflict(r) \/ Crash(r)
      BY <1>1, <2>4 DEF Conflict, Crash, RollBack, TypeOK
    <2> QED BY <2>1, <2>2, <2>3, <2>4 DEF Ends
  <1>7. \/ made' = made /\ topics' = topics
        \/ /\ Commit(r) /\ req[r].create # None /\ req[r].create \notin topics
           /\ made' = made \cup {a}
           /\ topics' = topics \cup {req[r].create}
           /\ status'[a] = "EXECUTED"
           /\ req[r].create = name[a]
    <2>1. CASE ~Commit(r)
      BY <2>1 DEF Ends, Decide, Conflict, Crash, RollBack, history
    <2>2. CASE Commit(r) /\ req[r].create = None
      BY <2>2 DEF Commit
    <2>3. CASE Commit(r) /\ req[r].create # None
      <3>1. req[r].result = "EXECUTED" /\ req[r].create = name[a]
        BY <2>3 DEF Shape
      <3> QED BY <1>1, <2>3, <3>1 DEF Commit, NameTaken, TypeOK
    <2> QED BY <2>1, <2>2, <2>3
  <1>8. topics' \subseteq Names /\ made' \subseteq Actions
    BY <1>1, <1>7, Fields DEF TypeOK
  <1>9. TypeOK'
    BY <1>2, <1>3, <1>5, <1>6, <1>8, EndWrites, NoRequestFits DEF TypeOK, OthersStay
  <1>10. \A b \in Actions : status[b] # "none" => status'[b] # "none"
    BY <1>6
  <1>11. Shape'
    BY <1>2, <1>10, EndWrites, NoRequestFits DEF Shape, OthersStay
  <1>12. Proposed'
    <2>1. \A b \in Actions : status'[b] # "none" => status[b] # "none"
      BY <1>1, <1>6
    <2> QED BY <1>1, <1>2, <1>7, <1>10, <2>1 DEF Proposed
  <1>13. Locks'
    BY <1>1, <1>4, EndWrites, NoRequestFits DEF Locks, OthersStay, Holding
  <1> QED BY <1>1, <1>2, <1>6, <1>7, <1>9, <1>11, <1>12, <1>13

LEMMA Steps ==
    ASSUME [Next]_vars
    PROVE  \/ Tick \/ CreateTopic \/ UNCHANGED vars
           \/ \E a \in Actions : Propose(a) \/ Sweep(a)
           \/ \E r \in Requests :
                \/ Judge(r) \/ Approve(r) \/ Gate(r) \/ Perform(r) \/ Ends(r)
                \/ \E a \in Actions : Begin(r, a)
  BY DEF Next, Advance, Ends, ExpireInstead, Reject

LEMMA SoundStep == Sound /\ [Next]_vars => Sound'
  BY Steps, QuietStep, BeginStep, JudgeStep, ApproveStep, GateStep, PerformStep, EndStep

(* The values the queue's rows and its requests take are those declared, and *)
(* a row is locked by the request that has written it and not committed.     *)
THEOREM Typing == Spec => []TypeOK
  <1>1. Sound => TypeOK
    BY DEF Sound
  <1> QED BY InitTypes, SoundStep, <1>1, PTL DEF Spec

-----------------------------------------------------------------------------
(* Decisions.  Window: what is expired lapsed, and what is being carried out *)
(* is not expired, because the gate looked under the lock the sweep waits    *)
(* for.  Single: while nobody else opened it, a proposal has one request, and *)
(* it is still pending or was expired by the sweep.                          *)

InWindow(r) ==
    LET a == req[r].action
    IN  /\ req[r].pc = "expire" => Lapsed(a)
        /\ req[r].pc = "commit" /\ req[r].result = "EXPIRED" => Lapsed(a)
        /\ req[r].pc = "perform" => status[a] # "EXPIRED"
        /\ req[r].pc = "commit" /\ req[r].result = "EXECUTED" => status[a] # "EXPIRED"

Window ==
    /\ \A a \in Actions : status[a] = "EXPIRED" => Lapsed(a)
    /\ \A r \in Requests : InWindow(r)

Single ==
    \A a \in Actions \ contended : \A r \in Requests :
        req[r].action = a =>
            /\ status[a] \in {"PENDING_APPROVAL", "EXPIRED"}
            /\ \A q \in Requests : req[q].action = a => q = r

QueueInv == Sound /\ Window /\ Single /\ EffectIsRecorded /\ OneEffectPerTopic

LEMMA InitQueue == Init => QueueInv
  <1> SUFFICES ASSUME Init PROVE QueueInv
    OBVIOUS
  <1>1. Sound
    BY InitTypes
  <1>2. Window /\ Single
    BY NoRequestFits DEF Init, Window, InWindow, Single
  <1>3. EffectIsRecorded /\ OneEffectPerTopic
    BY DEF Init, EffectIsRecorded, OneEffectPerTopic
  <1> QED BY <1>1, <1>2, <1>3 DEF QueueInv

(* The row of a proposal that was made keeps its window and its payload, and *)
(* what has lapsed stays so.                                                 *)
LEMMA RowsStay ==
    ASSUME Sound, [Next]_vars, NEW a \in Actions, status[a] # "none"
    PROVE  /\ expiresAt'[a] = expiresAt[a] /\ name'[a] = name[a]
           /\ Lapsed(a) => Lapsed(a)'
  <1>1. expiresAt'[a] = expiresAt[a] /\ name'[a] = name[a]
    <2>1. ASSUME NEW r \in Requests,
                 Judge(r) \/ Approve(r) \/ Gate(r) \/ Perform(r)
                 \/ \E b \in Actions : Begin(r, b)
          PROVE  name' = name /\ expiresAt' = expiresAt
      BY <2>1 DEF Judge, Approve, Gate, Perform, Begin
    <2>2. ASSUME NEW r \in Requests, Ends(r) PROVE name' = name /\ expiresAt' = expiresAt
      BY <2>2, EndStep
    <2>3. CASE Tick \/ CreateTopic \/ UNCHANGED vars
      BY <2>3, QuietStep
    <2>4. CASE \E b \in Actions : Propose(b) \/ Sweep(b)
      BY <2>4, QuietStep
    <2> QED BY <2>1, <2>2, <2>3, <2>4, Steps
  <1>2. now' \in Nat /\ now' >= now
    <2>1. CASE Tick
      BY <2>1 DEF Tick, Sound, TypeOK
    <2>2. CASE CreateTopic \/ UNCHANGED vars \/ \E b \in Actions : Propose(b) \/ Sweep(b)
      <3>1. now' = now
        BY <2>2 DEF CreateTopic, Propose, Sweep, vars
      <3> QED BY <3>1 DEF Sound, TypeOK
    <2>3. ASSUME NEW r \in Requests,
                 Judge(r) \/ Approve(r) \/ Gate(r) \/ Perform(r)
                 \/ \E b \in Actions : Begin(r, b)
          PROVE  now' = now
      BY <2>3 DEF Judge, Approve, Gate, Perform, Begin
    <2>4. ASSUME NEW r \in Requests, Ends(r) PROVE now' = now
      BY <2>4, EndStep
    <2>5. ASSUME now' = now PROVE now' \in Nat /\ now' >= now
      BY <2>5 DEF Sound, TypeOK
    <2> QED BY <2>1, <2>2, <2>3, <2>4, <2>5, Steps
  <1> QED BY <1>1, <1>2, Rows DEF Lapsed, Sound

(* What changes the status of a proposal that was made.                      *)
Changes(a) ==
    \/ status[a] = "PENDING_APPROVAL" /\ status'[a] = "EXPIRED" /\ Lapsed(a)
       /\ locked[a] = None
    \/ \E r \in Requests :
         /\ Ends(r) /\ req[r].action = a /\ status'[a] = Outcome(r)
         /\ \/ req[r].pc \in {"expire", "reject"} /\ locked[a] = None
            \/ req[r].pc = "commit"

LEMMA StatusChanges ==
    ASSUME Sound, [Next]_vars, NEW a \in Actions, status[a] # "none",
           status'[a] # status[a]
    PROVE  Changes(a)
  <1>1. ASSUME NEW r \in Requests,
               Judge(r) \/ Approve(r) \/ Gate(r) \/ Perform(r)
               \/ \E b \in Actions : Begin(r, b)
        PROVE  FALSE
    BY <1>1 DEF Judge, Approve, Gate, Perform, Begin
  <1> QED BY <1>1, Steps, QuietStep, EndStep DEF Changes

LEMMA WindowStep ==
    ASSUME Sound, Window, [Next]_vars
    PROVE  Window'
  <1>0. Sound'
    BY SoundStep
  <1>1. \A a \in Actions : status'[a] = "EXPIRED" => Lapsed(a)'
    <2> SUFFICES ASSUME NEW a \in Actions, status'[a] = "EXPIRED" PROVE Lapsed(a)'
      OBVIOUS
    <2>1. CASE status[a] = "EXPIRED"
      BY <2>1, RowsStay DEF Window
    <2>2. CASE status[a] = "none"
      <3>1. ASSUME NEW r \in Requests,
                   Judge(r) \/ Approve(r) \/ Gate(r) \/ Perform(r)
                   \/ \E b \in Actions : Begin(r, b)
            PROVE  FALSE
        BY <2>2, <3>1 DEF Judge, Approve, Gate, Perform, Begin
      <3>2. ASSUME NEW r \in Requests, Ends(r) PROVE FALSE
        BY <2>2, <3>2, EndStep DEF Sound, Shape, Ends, Decide, Commit, Conflict, Crash
      <3>3. ASSUME NEW b \in Actions, Propose(b) \/ Sweep(b) PROVE FALSE
        BY <2>2, <3>3 DEF Propose, Sweep, Sweepable, Sound, TypeOK
      <3>4. CASE Tick \/ CreateTopic \/ UNCHANGED vars
        BY <2>2, <3>4 DEF Tick, CreateTopic, vars
      <3> QED BY <3>1, <3>2, <3>3, <3>4, Steps
    <2>3. CASE status[a] \notin {"none", "EXPIRED"}
      <3>1. Changes(a)
        BY <2>3, StatusChanges
      <3>2. Lapsed(a)
        BY <3>1 DEF Changes, Outcome, Window, InWindow
      <3> QED BY <2>3, <3>2, RowsStay
    <2> QED BY <2>1, <2>2, <2>3
  <1>2. ASSUME NEW r \in Requests, req'[r] = req[r]
        PROVE  InWindow(r)'
    <2>1. CASE req[r].pc \in {"expire", "commit", "perform"}
      <3>1. PICK a \in Actions : a = req[r].action /\ status[a] # "none"
        BY <2>1 DEF Sound, Shape
      <3>2. /\ req[r].pc = "expire" => Lapsed(a)'
            /\ req[r].pc = "commit" /\ req[r].result = "EXPIRED" => Lapsed(a)'
        BY <3>1, RowsStay DEF Window, InWindow
      <3>3. ASSUME req[r].pc \in {"perform", "commit"}, status[a] # "EXPIRED",
                   status'[a] = "EXPIRED"
            PROVE  FALSE
        <4>1. locked[a] = r /\ r # None
          BY <3>1, <3>3, NoRequestFits DEF Sound, Locks, Holding
        <4>2. Changes(a)
          BY <3>1, <3>3, StatusChanges
        <4>3. PICK q \in Requests : Ends(q) /\ req[q].action = a /\ req[q].pc = "commit"
          BY <4>1, <4>2 DEF Changes
        <4>4. q = r
          BY <3>1, <4>1, <4>3 DEF Sound, Locks, Holding
        <4>5. req'[q] = NoRequest
          BY <4>3, EndWrites DEF Sound
        <4> QED BY <1>2, <3>3, <4>4, <4>5, NoRequestFits
      <3> QED BY <1>2, <3>1, <3>2, <3>3 DEF Window, InWindow, Lapsed
    <2>2. CASE req[r].pc \notin {"expire", "commit", "perform"}
      BY <1>2, <2>2 DEF InWindow
    <2> QED BY <2>1, <2>2
  <1>3. ASSUME NEW r \in Requests, OthersStay(r), InWindow(r)'
        PROVE  \A q \in Requests : InWindow(q)'
    BY <1>2, <1>3 DEF OthersStay
  <1>4. \A q \in Requests : InWindow(q)'
    <2>1. CASE req' = req
      BY <1>2, <2>1
    <2>2. ASSUME NEW r \in Requests, NEW a \in Actions, Begin(r, a)
          PROVE  OthersStay(r) /\ InWindow(r)'
      BY <2>2, BeginWrites DEF Sound, InWindow
    <2>3. ASSUME NEW r \in Requests, Judge(r)
          PROVE  OthersStay(r) /\ InWindow(r)'
      <3>1. UNCHANGED <<now, expiresAt>>
        BY <2>3 DEF Judge
      <3>2. OthersStay(r) /\ req'[r].action = req[r].action
            /\ req'[r].pc = IF Lapsed(req[r].action) THEN "expire" ELSE "approve"
        BY <2>3, JudgeWrites DEF Sound, Becomes
      <3> QED BY <3>1, <3>2 DEF InWindow, Lapsed
    <2>4. ASSUME NEW r \in Requests, Approve(r)
          PROVE  OthersStay(r) /\ InWindow(r)'
      BY <2>4, ApproveWrites DEF Sound, Becomes, InWindow
    <2>5. ASSUME NEW r \in Requests, Gate(r)
          PROVE  OthersStay(r) /\ InWindow(r)'
      <3>1. UNCHANGED <<now, expiresAt, status>> /\ req[r].action \in Actions
        BY <2>5 DEF Gate, Sound, Shape
      <3>2. ~Lapsed(req[r].action) => status[req[r].action] # "EXPIRED"
        BY <3>1 DEF Window
      <3>3. /\ OthersStay(r) /\ req'[r].action = req[r].action
            /\ \/ ~Lapsed(req[r].action) /\ req'[r].pc = "perform"
               \/ Lapsed(req[r].action) /\ req'[r].pc = "commit" /\ req'[r].result = "EXPIRED"
        BY <2>5, GateWrites DEF Sound
      <3> QED BY <3>1, <3>2, <3>3 DEF InWindow, Lapsed
    <2>6. ASSUME NEW r \in Requests, Perform(r)
          PROVE  OthersStay(r) /\ InWindow(r)'
      <3>1. status' = status /\ req[r].pc = "perform"
        BY <2>6 DEF Perform
      <3> QED BY <2>6, <3>1, PerformStep DEF Window, InWindow
    <2>7. ASSUME NEW r \in Requests, Ends(r)
          PROVE  OthersStay(r) /\ InWindow(r)'
      BY <2>7, EndWrites, NoRequestFits DEF Sound, InWindow
    <2>8. \/ req' = req
          \/ \E r \in Requests : OthersStay(r) /\ InWindow(r)'
      BY <2>2, <2>3, <2>4, <2>5, <2>6, <2>7, Steps, QuietStep
    <2> QED BY <1>3, <2>1, <2>8
  <1> QED BY <1>1, <1>4 DEF Window

LEMMA DeadStay ==
    ASSUME Sound, Window, [Next]_vars, NEW a \in Actions, status[a] = "EXPIRED"
    PROVE  status'[a] # "EXECUTED"
  <1> SUFFICES ASSUME status'[a] = "EXECUTED" PROVE FALSE
    OBVIOUS
  <1>1. PICK r \in Requests : req[r].action = a /\ Outcome(r) = "EXECUTED"
                              /\ req[r].pc \in {"expire", "reject", "commit"}
    BY StatusChanges DEF Changes
  <1>2. req[r].pc = "commit" /\ req[r].result = "EXECUTED"
    BY <1>1 DEF Outcome
  <1> QED BY <1>1, <1>2 DEF Window, InWindow

LEMMA FinalStay ==
    ASSUME Sound, Window, Single, [Next]_vars, NEW a \in Actions \ contended
    PROVE  /\ status[a] = "EXECUTED" => status'[a] = "EXECUTED"
           /\ status[a] \in Dead => status'[a] \in Dead
  <1>1. CASE status[a] \in Final \ {"EXPIRED"}
    <2>1. \A r \in Requests : req[r].action # a
      BY <1>1 DEF Single, Final
    <2>2. ~Changes(a)
      BY <1>1, <2>1 DEF Changes, Final
    <2> QED BY <1>1, <2>2, StatusChanges DEF Final
  <1>2. CASE status[a] = "EXPIRED" /\ status'[a] # status[a]
    <2>1. PICK r \in Requests : /\ req[r].action = a /\ status'[a] = Outcome(r)
                                /\ req[r].pc \in {"expire", "reject", "commit"}
      BY <1>2, StatusChanges DEF Changes
    <2>2. Outcome(r) \in Final
      BY <2>1, Fields DEF Sound, Shape, Outcome, Final
    <2> QED BY <1>2, <2>1, <2>2, DeadStay DEF Dead
  <1>3. CASE status[a] = "EXPIRED" /\ status'[a] = status[a]
    BY <1>3
  <1>4. CASE status[a] \notin Final
    BY <1>4 DEF Dead, Final
  <1> QED BY <1>1, <1>2, <1>3, <1>4

LEMMA SingleStep ==
    ASSUME Sound, Window, Single, [Next]_vars
    PROVE  Single'
  <1> SUFFICES ASSUME NEW a \in Actions, a \notin contended', NEW r \in Requests,
                      req'[r].action = a
               PROVE  /\ status'[a] \in {"PENDING_APPROVAL", "EXPIRED"}
                      /\ \A q \in Requests : req'[q].action = a => q = r
    BY DEF Single
  <1>1. CASE Tick \/ CreateTopic \/ UNCHANGED vars
             \/ \E b \in Actions : Propose(b) \/ Sweep(b)
    <2>1. /\ req' = req /\ contended' = contended
          /\ status[a] # "none" /\ status'[a] # status[a] => status'[a] = "EXPIRED"
      BY <1>1, QuietStep
    <2> QED BY <2>1 DEF Single
  <1>2. ASSUME NEW o \in Requests, NEW b \in Actions, Begin(o, b)
        PROVE  /\ status'[a] \in {"PENDING_APPROVAL", "EXPIRED"}
               /\ \A q \in Requests : req'[q].action = a => q = r
    <2>1. /\ status' = status /\ status[b] = "PENDING_APPROVAL" /\ a \notin contended
          /\ a = b => \A q \in Requests : req[q].action # a
      BY <1>2 DEF Begin
    <2>2. OthersStay(o) /\ req'[o].action = b
      BY <1>2, BeginWrites DEF Sound
    <2>3. CASE a = b
      BY <2>1, <2>2, <2>3 DEF OthersStay
    <2>4. CASE a # b
      BY <2>1, <2>2, <2>4 DEF OthersStay, Single
    <2> QED BY <2>3, <2>4
  <1>3. ASSUME NEW o \in Requests, Judge(o) \/ Approve(o) \/ Gate(o) \/ Perform(o)
        PROVE  /\ status'[a] \in {"PENDING_APPROVAL", "EXPIRED"}
               /\ \A q \in Requests : req'[q].action = a => q = r
    <2>1. status' = status /\ contended' = contended
      BY <1>3 DEF Judge, Approve, Gate, Perform, history
    <2>2. OthersStay(o) /\ req'[o].action = req[o].action
      BY <1>3, JudgeWrites, ApproveWrites, GateWrites, PerformStep DEF Sound, Becomes
    <2>3. \A q \in Requests : req'[q].action = req[q].action
      BY <2>2 DEF OthersStay
    <2> QED BY <2>1, <2>3 DEF Single
  <1>4. ASSUME NEW o \in Requests, Ends(o)
        PROVE  /\ status'[a] \in {"PENDING_APPROVAL", "EXPIRED"}
               /\ \A q \in Requests : req'[q].action = a => q = r
    <2>1. /\ contended' = contended
          /\ \A b \in Actions : status'[b] # status[b] => b = req[o].action
      BY <1>4, EndStep
    <2>2. OthersStay(o) /\ req'[o].action = None /\ None \notin Actions
      BY <1>4, EndWrites, NoRequestFits DEF Sound
    <2>3. o # r /\ req[r].action = a /\ req[o].action # a
      BY <2>1, <2>2 DEF OthersStay, Single
    <2> QED BY <2>1, <2>2, <2>3 DEF OthersStay, Single
  <1> QED BY <1>1, <1>2, <1>3, <1>4, Steps

(* Only a commit adds to what was made, and it adds its topic with it.       *)
LEMMA EffectStep ==
    ASSUME QueueInv, [Next]_vars
    PROVE  EffectIsRecorded' /\ OneEffectPerTopic'
  <1> USE DEF QueueInv
  <1>1. made \subseteq Actions /\ contended \subseteq contended' /\ topics \subseteq topics'
    BY DEF Sound, TypeOK, Next, Tick, CreateTopic, Propose, Sweep, Advance, Judge,
           ExpireInstead, Reject, Decide, Approve, Gate, Perform, Commit, Conflict, Crash,
           RollBack, Begin, vars, history
  <1>2. \A a \in made : status[a] # "none" /\ name'[a] = name[a]
    BY <1>1, RowsStay DEF Sound, Proposed
  <1>3. \A a \in made : name'[a] \in topics' /\ (a \notin contended' => status'[a] = "EXECUTED")
    BY <1>1, <1>2, FinalStay DEF EffectIsRecorded
  <1>4. \/ made' = made
        \/ \E r \in Requests :
             /\ req[r].action \in Actions /\ made' = made \cup {req[r].action}
             /\ req[r].create = name[req[r].action] /\ name' = name
             /\ req[r].create \notin topics /\ req[r].create \in topics'
             /\ status'[req[r].action] = "EXECUTED"
    <2>1. ASSUME NEW r \in Requests,
                 Judge(r) \/ Approve(r) \/ Gate(r) \/ Perform(r)
                 \/ \E b \in Actions : Begin(r, b)
          PROVE  made' = made
      BY <2>1 DEF Judge, Approve, Gate, Perform, Begin, history
    <2> QED BY <2>1, Steps, QuietStep, EndStep
  <1>5. EffectIsRecorded'
    BY <1>3, <1>4 DEF EffectIsRecorded
  <1>6. OneEffectPerTopic'
    BY <1>2, <1>4 DEF EffectIsRecorded, OneEffectPerTopic
  <1> QED BY <1>5, <1>6

LEMMA QueueStep == QueueInv /\ [Next]_vars => QueueInv'
  BY SoundStep, WindowStep, SingleStep, EffectStep DEF QueueInv

(* What the queue shows as expired is never executed, however the sweep, the *)
(* clock and any number of approvals interleave: the gate judges the window  *)
(* under the row's lock, and the sweep and other decisions wait for it.      *)
THEOREM NothingExpiredRuns == Spec => ExpiredStaysDead
  <1>1. Sound /\ Window /\ [Next]_vars =>
          [\A a \in Actions : status[a] = "EXPIRED" => status'[a] # "EXECUTED"]_vars
    BY DeadStay
  <1>2. QueueInv => Sound /\ Window
    BY DEF QueueInv
  <1> QED BY InitQueue, QueueStep, <1>1, <1>2, PTL DEF Spec, ExpiredStaysDead

(* While its requests come one at a time an action's outcome is final: the   *)
(* sweep touches only what is pending, and a request that read the action in *)
(* time writes over an expiry nothing but another way of not being done.     *)
THEOREM OutcomesAreFinal == Spec => OutcomeIsFinal
  <1>1. Sound /\ Window /\ Single /\ [Next]_vars =>
          [\A a \in Actions \ contended :
              /\ status[a] = "EXECUTED" => status'[a] = "EXECUTED"
              /\ status[a] \in Dead => status'[a] \in Dead]_vars
    BY FinalStay
  <1>2. QueueInv => Sound /\ Window /\ Single
    BY DEF QueueInv
  <1> QED BY InitQueue, QueueStep, <1>1, <1>2, PTL DEF Spec, OutcomeIsFinal

(* The topic an action created is there, and the queue shows the action as   *)
(* executed unless two requests were open for it at once.                    *)
THEOREM EffectsAreRecorded == Spec => []EffectIsRecorded
  <1>1. QueueInv => EffectIsRecorded
    BY DEF QueueInv
  <1> QED BY InitQueue, QueueStep, <1>1, PTL DEF Spec

(* No two actions create the same topic, however many requests race: the     *)
(* second to commit meets the unique name and is rolled back.                *)
THEOREM EffectsDiffer == Spec => []OneEffectPerTopic
  <1>1. QueueInv => OneEffectPerTopic
    BY DEF QueueInv
  <1> QED BY InitQueue, QueueStep, <1>1, PTL DEF Spec
=============================================================================
