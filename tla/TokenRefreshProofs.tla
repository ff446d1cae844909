------------------------- MODULE TokenRefreshProofs -------------------------
(***************************************************************************)
(* Theorems about TokenRefresh, for any number of workers, any timing of   *)
(* the lock and any faults.                                                *)
(***************************************************************************)
EXTENDS TokenRefresh, TLAPS, FiniteSetTheorems

(* Nothing holds a token X has not issued yet.                               *)
Bounded ==
    /\ row.refresh <= issued
    /\ \A w \in Workers : call[w].copy.refresh <= issued /\ call[w].got <= issued

(* A pair X answered with is in the hands of one call only until it is       *)
(* stored: nobody else can have presented its refresh token.                 *)
Fresh ==
    \A w \in Workers :
        call[w].got # 0 =>
            /\ call[w].pc \in {"answer", "save"}
            /\ call[w].got \in valid \cup revoked
            /\ call[w].got # row.refresh
            /\ \A v \in Workers : /\ call[v].copy.refresh # call[w].got
                                  /\ v # w => call[v].got # call[w].got

Safe == Bounded /\ Fresh /\ StoredIsAlive

LEMMA InitSafe == Init => TypeOK /\ Safe
  <1> SUFFICES ASSUME Init PROVE TypeOK /\ Safe
    OBVIOUS
  <1>1. NoCall \in Call /\ NoRow \in Row
    BY TokenAssumption DEF Call, NoCall, Past, Row, NoRow, Token
  <1>2. NoLock \in [owner : Workers \cup {NoOne}, ttl : 0 .. LockTTL]
    BY TokenAssumption DEF NoLock
  <1>3. 0 \in Token
    BY TokenAssumption DEF Token
  <1>4. call \in [Workers -> Call]
    BY <1>1 DEF Init
  <1>5. lock \in [owner : Workers \cup {NoOne}, ttl : 0 .. LockTTL] /\ row \in Row
    BY <1>1, <1>2 DEF Init
  <1>6. TypeOK
    BY <1>3, <1>4, <1>5 DEF Init, TypeOK
  <1>7. Bounded /\ Fresh /\ StoredIsAlive
    BY DEF Init, Bounded, Fresh, StoredIsAlive, NoRow, NoCall
  <1> QED BY <1>6, <1>7 DEF Safe

LEMMA RowFields ==
    ASSUME TypeOK
    PROVE  /\ 0 \in Token /\ row \in Row /\ NoRow \in Row
           /\ row.id \in Token /\ row.access \in Token /\ row.refresh \in Token
           /\ NoCall \in Call
           /\ \A w \in Workers : /\ call[w] \in Call
                                 /\ call[w].copy \in Row
                                 /\ call[w].copy.refresh \in Token
                                 /\ call[w].got \in Token
  BY TokenAssumption DEF TypeOK, Row, NoRow, Token, Call, NoCall, Past

(* The end of a call drops the pair it got, and keeps the row it is given.   *)
LEMMA LeaveFields ==
    ASSUME TypeOK, NEW w \in Workers, NEW c \in Row
    PROVE  /\ Leave(w, c) \in Call
           /\ Leave(w, c).got = 0
           /\ Leave(w, c).copy = c
  BY RowFields DEF Leave, Call, NoCall, Past

(* A step of one worker that leaves its tokens alone, or ends its call with  *)
(* a row it read, and touches neither the row nor X.                         *)
LEMMA QuietStep ==
    ASSUME TypeOK, Safe, NEW w \in Workers, NEW c \in Call,
           call' = [call EXCEPT ![w] = c],
           UNCHANGED <<row, valid, issued, revoked>>,
           lost \subseteq lost',
           c.copy.refresh \in {0, row.refresh, call[w].copy.refresh},
           c.got = call[w].got => c.got = 0 \/ ( /\ c.pc \in {"answer", "save"}
                                                 /\ c.copy = call[w].copy),
           c.got # call[w].got => c.got = 0 /\ call[w].copy.refresh \in lost'
    PROVE  Safe'
  <1>1. /\ call'[w] = c
        /\ \A v \in Workers : v # w => call'[v] = call[v]
    BY DEF TypeOK
  <1>2. Bounded'
    BY <1>1, RowFields DEF Safe, Bounded, TypeOK, Token
  <1>3. Fresh'
    <2> SUFFICES ASSUME NEW u \in Workers, call'[u].got # 0
                 PROVE  /\ call'[u].pc \in {"answer", "save"}
                        /\ call'[u].got \in valid \cup revoked
                        /\ call'[u].got # row.refresh
                        /\ \A v \in Workers : /\ call'[v].copy.refresh # call'[u].got
                                              /\ v # u => call'[v].got # call'[u].got
      BY DEF Fresh
    <2>1. call[u].got = call'[u].got
      BY <1>1
    <2>2. /\ call[u].got \in valid \cup revoked
          /\ call[u].got # row.refresh
          /\ \A v \in Workers : /\ call[v].copy.refresh # call[u].got
                                /\ v # u => call[v].got # call[u].got
      BY <2>1 DEF Safe, Fresh
    <2>3. call'[u].pc \in {"answer", "save"}
      BY <1>1, <2>1 DEF Safe, Fresh
    <2>4. ASSUME NEW v \in Workers
          PROVE  /\ call'[v].copy.refresh # call'[u].got
                 /\ v # u => call'[v].got # call'[u].got
      BY <1>1, <2>1, <2>2
    <2> QED BY <2>1, <2>2, <2>3, <2>4
  <1>4. StoredIsAlive'
    <2> SUFFICES ASSUME row.refresh # 0, row.refresh \notin valid \cup lost' \cup revoked
                 PROVE  InFlight(row.refresh)'
      BY DEF StoredIsAlive
    <2>1. PICK u \in Workers : /\ call[u].pc \in {"answer", "save"}
                               /\ call[u].got # 0 /\ call[u].copy.refresh = row.refresh
      BY DEF Safe, StoredIsAlive, InFlight
    <2>2. CASE u # w
      BY <2>1, <2>2, <1>1 DEF InFlight
    <2>3. CASE u = w
      <3>1. c.got = call[w].got
        BY <2>1, <2>3
      <3> QED BY <3>1, <2>1, <2>3, <1>1 DEF InFlight
    <2> QED BY <2>2, <2>3
  <1> QED BY <1>2, <1>3, <1>4 DEF Safe

-----------------------------------------------------------------------------
(* Every step keeps the types.                                               *)

LEMMA StoredType ==
    ASSUME TypeOK, NEW w \in Workers PROVE Stored(w) \in Row
  BY RowFields DEF Stored, TypeOK, Call, Row

LEMMA CallStep ==
    ASSUME TypeOK, NEW w \in Workers, NEW c \in Call
    PROVE  [call EXCEPT ![w] = c] \in [Workers -> Call]
  BY DEF TypeOK

LEMMA TypeStep == TypeOK /\ [Next]_vars => TypeOK'
  <1> SUFFICES ASSUME TypeOK, [Next]_vars PROVE TypeOK'
    OBVIOUS
  <1> USE TokenAssumption
  <1> DEFINE Steps(w) == Progress(w) \/ EndSession(w) \/ NoRedis(w) \/ XError(w)
                         \/ AnswerLost(w) \/ Crash(w)
  <1>1. CASE UNCHANGED vars
    BY <1>1 DEF vars, xVars, history, TypeOK
  <1>2. CASE Tick
    <2>1. LockAfterTick \in [owner : Workers \cup {NoOne}, ttl : 0 .. LockTTL]
      BY DEF TypeOK, LockAfterTick, NoLock
    <2>2. ASSUME NEW w \in Workers, NEW more \in BOOLEAN
          PROVE  [call[w] EXCEPT !.elapsed = IF more THEN @ + 1 ELSE @] \in Call
      BY RowFields DEF Call
    <2>3. call' \in [Workers -> Call]
      BY <1>2, <2>2 DEF Tick, Waits, InPast
    <2> QED BY <1>2, <2>1, <2>3 DEF Tick, TypeOK, xVars, Outrun
  <1>3. CASE Expire
    BY <1>3 DEF Expire, TypeOK, xVars, history, Pairs, Token
  <1>4. CASE Connect
    <2>1. IsFiniteSet(valid) /\ Cardinality(valid) \in Nat
      <3>1. IsFiniteSet(1 .. MaxPair)
        BY FS_Interval
      <3>2. IsFiniteSet(valid)
        BY <3>1, FS_Subset DEF TypeOK, Pairs
      <3> QED BY <3>2, FS_CardinalityType
    <2>2. issued' \in Token /\ issued' \in Pairs
      BY <1>4, <2>1 DEF Connect, Room, TypeOK, Token, Pairs
    <2>3. row' \in Row
      BY <1>4, <2>2, RowFields DEF Connect, Row
    <2>4. valid' \subseteq Pairs
      BY <1>4, <2>2 DEF Connect, TypeOK
    <2> QED BY <1>4, <2>2, <2>3, <2>4 DEF Connect, TypeOK, history
  <1>5. CASE Disconnect
    BY <1>5, RowFields DEF Disconnect, TypeOK
  <1>6. ASSUME NEW w \in Workers, Steps(w)
        PROVE  TypeOK'
    <2>0. call[w] \in Call
      BY RowFields
    <2>1. CASE Load(w)
      <3>1. PICK c \in Row :
              call' = [call EXCEPT ![w] = IF NeedsRefresh(c) /\ c.refresh # 0
                       THEN [NoCall EXCEPT !.pc = "wait", !.copy = c]
                       ELSE [NoCall EXCEPT !.copy = IF NeedsRefresh(c) THEN NoRow ELSE c]]
        BY <2>1, RowFields DEF Load
      <3>2. /\ [NoCall EXCEPT !.pc = "wait", !.copy = c] \in Call
            /\ [NoCall EXCEPT !.copy = c] \in Call
            /\ [NoCall EXCEPT !.copy = NoRow] \in Call
        BY RowFields DEF Call, Past
      <3>3. call' \in [Workers -> Call]
        BY <3>1, <3>2, CallStep
      <3> QED BY <2>1, <3>3 DEF Load, TypeOK, xVars, history
    <2>2. CASE EndSession(w)
      BY <2>2, RowFields DEF EndSession, TypeOK, xVars, history
    <2>3. CASE Acquire(w)
      <3>1. [call[w] EXCEPT !.pc = "check", !.mine = TRUE, !.elapsed = 0] \in Call
        BY <2>0 DEF Call, Past
      <3>2. call' \in [Workers -> Call]
        BY <2>3, <3>1, CallStep DEF Acquire
      <3> QED BY <2>3, <3>2 DEF Acquire, TypeOK, xVars, history
    <2>4. CASE GiveUp(w)
      <3>1. [call[w] EXCEPT !.pc = "sleep", !.elapsed = 0] \in Call
        BY <2>0 DEF Call
      <3>2. call' \in [Workers -> Call]
        BY <2>4, <3>1, CallStep DEF GiveUp
      <3> QED BY <2>4, <3>2 DEF GiveUp, TypeOK, xVars, history
    <2>5. CASE NoRedis(w)
      <3>1. [call[w] EXCEPT !.pc = "check", !.elapsed = 0] \in Call
        BY <2>0 DEF Call, Past
      <3>2. call' \in [Workers -> Call]
        BY <2>5, <3>1, CallStep DEF NoRedis
      <3> QED BY <2>5, <3>2 DEF NoRedis, Fault, TypeOK, xVars, Outrun
    <2>6. CASE Wake(w)
      <3>1. /\ Leave(w, NoRow) \in Call /\ Leave(w, row) \in Call
            /\ [call[w] EXCEPT !.pc = "check", !.copy = row] \in Call
        BY <2>0, RowFields, LeaveFields DEF Call, Past
      <3>2. call' \in [Workers -> Call]
        BY <2>6, <3>1, CallStep DEF Wake
      <3> QED BY <2>6, <3>2 DEF Wake, TypeOK, xVars, Outrun
    <2>7. CASE Check(w)
      <3>1. /\ Leave(w, NoRow) \in Call /\ Leave(w, row) \in Call
            /\ [call[w] EXCEPT !.pc = "send", !.copy = row] \in Call
        BY <2>0, RowFields, LeaveFields DEF Call, Past
      <3>2. call' \in [Workers -> Call]
        BY <2>7, <3>1, CallStep DEF Check, Reread
      <3> QED BY <2>7, <3>2 DEF Check, TypeOK, xVars, history
    <2>8. CASE Present(w)
      <3>1. CASE call[w].copy.refresh \in valid /\ issued < MaxPair
                 /\ issued' = issued + 1
                 /\ valid' = (valid \ {call[w].copy.refresh}) \cup {issued'}
                 /\ call' = [call EXCEPT ![w] = [call[w] EXCEPT !.pc = "answer", !.got = issued']]
                 /\ UNCHANGED spentTwice
        <4>1. issued' \in Token /\ issued' \in Pairs
          BY <3>1 DEF TypeOK, Token, Pairs
        <4>2. [call[w] EXCEPT !.pc = "answer", !.got = issued'] \in Call
          BY <2>0, <4>1 DEF Call, Past
        <4>3. call' \in [Workers -> Call]
          BY <3>1, <4>2, CallStep
        <4> QED BY <2>8, <3>1, <4>1, <4>3 DEF Present, TypeOK
      <3>2. CASE call[w].copy.refresh \notin valid
                 /\ spentTwice' = spentTwice \cup {call[w].copy.refresh}
                 /\ call' = [call EXCEPT ![w] = [call[w] EXCEPT !.pc = "answer", !.got = 0]]
                 /\ UNCHANGED xVars
        <4>2. [call[w] EXCEPT !.pc = "answer", !.got = 0] \in Call
          BY <2>0, RowFields DEF Call, Past
        <4>3. call' \in [Workers -> Call]
          BY <3>2, <4>2, CallStep
        <4> QED BY <2>8, <3>2, <4>3, RowFields DEF Present, TypeOK, xVars, Token, Pairs
      <3> QED BY <2>8, <3>1, <3>2 DEF Present
    <2>9. CASE XError(w)
      <3>1. [call[w] EXCEPT !.pc = "answer", !.got = 0] \in Call
        BY <2>0, RowFields DEF Call, Past
      <3>2. call' \in [Workers -> Call]
        BY <2>9, <3>1, CallStep DEF XError
      <3> QED BY <2>9, <3>2 DEF XError, Fault, TypeOK, xVars, history
    <2>10. CASE Rejected(w)
      <3>1. call' \in [Workers -> Call]
        BY <2>10, RowFields, LeaveFields, CallStep DEF Rejected
      <3> QED BY <2>10, <3>1 DEF Rejected, TypeOK, xVars, history
    <2>11. CASE AnswerLost(w)
      <3>1. call' \in [Workers -> Call]
        BY <2>11, RowFields, LeaveFields, CallStep DEF AnswerLost
      <3> QED BY <2>11, <3>1, RowFields DEF AnswerLost, Lose, Fault, TypeOK, xVars
    <2>12. CASE Find(w)
      <3>1. [call[w] EXCEPT !.pc = "save", !.found = row.id] \in Call
        BY <2>0, RowFields DEF Call, Past
      <3>2. call' \in [Workers -> Call]
        BY <2>12, <3>1, CallStep DEF Find
      <3> QED BY <2>12, <3>2 DEF Find, TypeOK, xVars, history
    <2>13. CASE Save(w)
      <3>1. call' \in [Workers -> Call] /\ row' \in Row /\ lost' \subseteq Token
        <4>1. CASE call[w].found = row.id
          <5>1. Stored(w) \in Row /\ Leave(w, Stored(w)) \in Call
            BY StoredType, LeaveFields
          <5>2. /\ row' = Stored(w) /\ UNCHANGED lost
                /\ call' = [call EXCEPT ![w] = Leave(w, Stored(w))]
            BY <2>13, <4>1 DEF Save
          <5>3. call' \in [Workers -> Call]
            BY <5>1, <5>2, CallStep
          <5> QED BY <5>1, <5>2, <5>3 DEF TypeOK
        <4>2. CASE call[w].found # row.id
          BY <2>13, <4>2, RowFields, LeaveFields, CallStep DEF Save, Lose, TypeOK
        <4> QED BY <4>1, <4>2
      <3> QED BY <2>13, <3>1 DEF Save, TypeOK, xVars
    <2>14. CASE Release(w)
      <3>1. /\ [call[w] EXCEPT !.pc = "delete"] \in Call
            /\ [NoCall EXCEPT !.copy = call[w].copy] \in Call
        BY <2>0, RowFields DEF Call, Past
      <3>2. call' \in [Workers -> Call]
        BY <2>14, <3>1, CallStep DEF Release
      <3> QED BY <2>14, <3>2 DEF Release, TypeOK, xVars, history
    <2>15. CASE Delete(w)
      <3>1. [NoCall EXCEPT !.copy = call[w].copy] \in Call
        BY <2>0, RowFields DEF Call
      <3>2. call' \in [Workers -> Call]
        BY <2>15, <3>1, CallStep DEF Delete
      <3>3. lock' \in [owner : Workers \cup {NoOne}, ttl : 0 .. LockTTL]
        BY <2>15 DEF Delete, NoLock
      <3> QED BY <2>15, <3>2, <3>3 DEF Delete, TypeOK, xVars, history
    <2>16. CASE Crash(w)
      <3>1. call' \in [Workers -> Call]
        BY <2>16, RowFields, CallStep DEF Crash
      <3> QED BY <2>16, <3>1, RowFields DEF Crash, Lose, Fault, TypeOK, xVars
    <2> QED BY <1>6, <2>1, <2>2, <2>3, <2>4, <2>5, <2>6, <2>7, <2>8, <2>9, <2>10,
               <2>11, <2>12, <2>13, <2>14, <2>15, <2>16 DEF Progress
  <1> QED BY <1>1, <1>2, <1>3, <1>4, <1>5, <1>6 DEF Next

(* The types hold in every state, for any number of workers and token pairs. *)
THEOREM Typing == Spec => []TypeOK
  <1>1. Init => TypeOK
    BY InitSafe
  <1> QED BY <1>1, TypeStep, PTL DEF Spec

-----------------------------------------------------------------------------
(* Every step keeps the stored credential alive.                             *)

(* A step of a worker without a pair in hand that stays without one.         *)
LEMMA EmptyHanded ==
    ASSUME TypeOK, Safe, NEW w \in Workers, NEW c \in Call,
           call' = [call EXCEPT ![w] = c],
           UNCHANGED <<row, valid, issued, revoked, lost>>,
           call[w].got = 0, c.got = 0,
           c.copy \in {NoRow, row, call[w].copy}
    PROVE  Safe'
  <1>1. c.copy.refresh \in {0, row.refresh, call[w].copy.refresh}
    BY DEF NoRow
  <1> QED BY <1>1, QuietStep

(* A step that drops the pair in hand, if any, and records its loss.         *)
LEMMA Dropped ==
    ASSUME TypeOK, Safe, NEW w \in Workers, NEW c \in Call,
           call' = [call EXCEPT ![w] = c],
           UNCHANGED <<row, valid, issued, revoked>>,
           Lose(w),
           c.got = 0, c.copy = NoRow
    PROVE  Safe'
  <1>1. c.copy.refresh \in {0, row.refresh, call[w].copy.refresh}
    BY DEF NoRow
  <1>2. lost \subseteq lost' /\ (call[w].got # 0 => call[w].copy.refresh \in lost')
    BY DEF Lose
  <1> QED BY <1>1, <1>2, QuietStep

(* The commit of a new pair: nobody else holds or ever presented its token.  *)
LEMMA Rotated ==
    ASSUME TypeOK, Safe, NEW w \in Workers, call[w].pc = "save",
           row' = Stored(w),
           call' = [call EXCEPT ![w] = Leave(w, Stored(w))],
           UNCHANGED <<valid, issued, revoked, lost>>
    PROVE  Safe'
  <1>1. /\ row'.refresh = call[w].got
        /\ call'[w].got = 0 /\ call'[w].copy.refresh = call[w].got
        /\ \A v \in Workers : v # w => call'[v] = call[v]
    BY StoredType, LeaveFields DEF Stored, TypeOK
  <1>2. Bounded'
    BY <1>1, RowFields, TokenAssumption DEF Safe, Bounded, TypeOK, Token
  <1>3. Fresh'
    BY <1>1 DEF Safe, Fresh
  <1>4. StoredIsAlive'
    BY <1>1 DEF Safe, Fresh, StoredIsAlive
  <1> QED BY <1>2, <1>3, <1>4 DEF Safe

LEMMA SafeStep == TypeOK /\ Safe /\ [Next]_vars => Safe'
  <1> SUFFICES ASSUME TypeOK, Safe, [Next]_vars PROVE Safe'
    OBVIOUS
  <1>1. CASE UNCHANGED vars
    BY <1>1 DEF vars, xVars, history, Safe, Bounded, Fresh, StoredIsAlive, InFlight
  <1>2. CASE Tick
    <2>1. \A w \in Workers : /\ call'[w].pc = call[w].pc
                             /\ call'[w].got = call[w].got
                             /\ call'[w].copy = call[w].copy
      <3>1. \A w \in Workers : \E n : call'[w] = [call[w] EXCEPT !.elapsed = n]
        BY <1>2 DEF Tick
      <3> QED BY <3>1, RowFields DEF Call
    <2>2. UNCHANGED <<row, valid, issued, lost, revoked>>
      BY <1>2 DEF Tick, xVars, history
    <2>3. Bounded'
      BY <2>1, <2>2 DEF Safe, Bounded
    <2>4. Fresh'
      BY <2>1, <2>2 DEF Safe, Fresh
    <2>5. StoredIsAlive'
      BY <2>1, <2>2 DEF Safe, StoredIsAlive, InFlight
    <2> QED BY <2>3, <2>4, <2>5 DEF Safe
  <1>3. CASE Expire
    BY <1>3 DEF Expire, xVars, history, Safe, Bounded, Fresh, StoredIsAlive, InFlight
  <1>4. CASE Connect
    <2>1. /\ issued' = issued + 1 /\ UNCHANGED <<call, lost, revoked>>
          /\ \/ row'.refresh = issued' /\ valid' = valid \cup {issued'}
             \/ row'.refresh = row.refresh /\ valid' = valid
      BY <1>4 DEF Connect, history
    <2>2. issued \in Nat /\ issued' \in Nat /\ row.refresh \in Nat
      BY <2>1, RowFields, TokenAssumption DEF TypeOK, Token
    <2>3. Bounded'
      BY <2>1, <2>2, RowFields, TokenAssumption DEF Safe, Bounded, Token
    <2>4. Fresh'
      BY <2>1, <2>2, RowFields, TokenAssumption DEF Safe, Bounded, Fresh, Token
    <2>5. StoredIsAlive'
      BY <2>1, <2>2 DEF Safe, StoredIsAlive, InFlight
    <2> QED BY <2>3, <2>4, <2>5 DEF Safe
  <1>5. CASE Disconnect
    <2>1. /\ row'.refresh = 0 /\ UNCHANGED <<issued, call>>
          /\ valid \cup revoked \subseteq valid' \cup revoked'
      BY <1>5 DEF Disconnect, NoRow
    <2>2. Bounded'
      BY <2>1, TokenAssumption DEF Safe, Bounded, TypeOK, Token
    <2>3. Fresh'
      BY <2>1 DEF Safe, Fresh
    <2>4. StoredIsAlive'
      BY <2>1 DEF StoredIsAlive
    <2> QED BY <2>2, <2>3, <2>4 DEF Safe
  <1>6. ASSUME NEW w \in Workers,
               Progress(w) \/ EndSession(w) \/ NoRedis(w) \/ XError(w)
               \/ AnswerLost(w) \/ Crash(w)
        PROVE  Safe'
    <2>0. call[w] \in Call /\ call[w].copy \in Row
      BY RowFields
    <2>g. call[w].pc \notin {"answer", "save"} => call[w].got = 0
      BY DEF Safe, Fresh
    <2>1. CASE Load(w)
      <3>1. PICK c \in {row, call[w].copy} :
              call' = [call EXCEPT ![w] = IF NeedsRefresh(c) /\ c.refresh # 0
                       THEN [NoCall EXCEPT !.pc = "wait", !.copy = c]
                       ELSE [NoCall EXCEPT !.copy = IF NeedsRefresh(c) THEN NoRow ELSE c]]
        BY <2>1 DEF Load
      <3>2. PICK k \in Call : /\ call' = [call EXCEPT ![w] = k]
                              /\ k.got = 0 /\ k.copy \in {NoRow, c}
        <4>1. c \in Row
          BY RowFields
        <4>2. /\ [NoCall EXCEPT !.pc = "wait", !.copy = c] \in Call
              /\ [NoCall EXCEPT !.pc = "wait", !.copy = c].got = 0
              /\ [NoCall EXCEPT !.pc = "wait", !.copy = c].copy = c
          BY <4>1, RowFields DEF NoCall, Call, Past
        <4>3. ASSUME NEW d \in {NoRow, c}
              PROVE  /\ [NoCall EXCEPT !.copy = d] \in Call
                     /\ [NoCall EXCEPT !.copy = d].got = 0
                     /\ [NoCall EXCEPT !.copy = d].copy = d
          BY <4>1, RowFields DEF NoCall, Call, Past
        <4> QED BY <3>1, <4>2, <4>3
      <3> QED BY <2>1, <2>g, <3>2, EmptyHanded DEF Load, xVars, history
    <2>2. CASE EndSession(w)
      <3>1. NoCall.got = 0 /\ NoCall.copy = NoRow
        BY DEF NoCall
      <3> QED BY <2>2, <2>g, <3>1, RowFields, EmptyHanded DEF EndSession, xVars, history
    <2>3. CASE Acquire(w)
      <3>1. PICK k \in Call : /\ call' = [call EXCEPT ![w] = k]
                              /\ k.got = call[w].got /\ k.copy = call[w].copy
        <4>1. [call[w] EXCEPT !.pc = "check", !.mine = TRUE, !.elapsed = 0] \in Call
          BY <2>0 DEF Call, Past
        <4> QED BY <2>3, <2>0, <4>1 DEF Acquire, Call
      <3> QED BY <2>3, <2>g, <3>1, EmptyHanded DEF Acquire, Waits, xVars, history
    <2>4. CASE GiveUp(w)
      <3>1. PICK k \in Call : /\ call' = [call EXCEPT ![w] = k]
                              /\ k.got = call[w].got /\ k.copy = call[w].copy
        <4>1. [call[w] EXCEPT !.pc = "sleep", !.elapsed = 0] \in Call
          BY <2>0 DEF Call
        <4> QED BY <2>4, <2>0, <4>1 DEF GiveUp, Call
      <3> QED BY <2>4, <2>g, <3>1, EmptyHanded DEF GiveUp, xVars, history
    <2>5. CASE NoRedis(w)
      <3>1. PICK k \in Call : /\ call' = [call EXCEPT ![w] = k]
                              /\ k.got = call[w].got /\ k.copy = call[w].copy
        <4>1. [call[w] EXCEPT !.pc = "check", !.elapsed = 0] \in Call
          BY <2>0 DEF Call, Past
        <4> QED BY <2>5, <2>0, <4>1 DEF NoRedis, Call
      <3> QED BY <2>5, <2>g, <3>1, EmptyHanded DEF NoRedis, xVars, history
    <2>6. CASE Wake(w)
      <3>1. PICK k \in Call : /\ call' = [call EXCEPT ![w] = k]
                              /\ k.got = 0 /\ k.copy \in {NoRow, row}
        <4>1. /\ [call[w] EXCEPT !.pc = "check", !.copy = row] \in Call
              /\ [call[w] EXCEPT !.pc = "check", !.copy = row].got = call[w].got
              /\ [call[w] EXCEPT !.pc = "check", !.copy = row].copy = row
          BY <2>0, RowFields DEF Call, Past
        <4> QED BY <2>6, <2>g, <4>1, RowFields, LeaveFields DEF Wake
      <3> QED BY <2>6, <2>g, <3>1, EmptyHanded DEF Wake, xVars, history
    <2>7. CASE Check(w)
      <3>1. PICK k \in Call : /\ call' = [call EXCEPT ![w] = k]
                              /\ k.got = 0 /\ k.copy \in {NoRow, row}
        <4>1. /\ [call[w] EXCEPT !.pc = "send", !.copy = row] \in Call
              /\ [call[w] EXCEPT !.pc = "send", !.copy = row].got = call[w].got
              /\ [call[w] EXCEPT !.pc = "send", !.copy = row].copy = row
          BY <2>0, RowFields DEF Call, Past
        <4> QED BY <2>7, <2>g, <4>1, RowFields, LeaveFields DEF Check, Reread
      <3> QED BY <2>7, <2>g, <3>1, EmptyHanded DEF Check, xVars, history
    <2>8. CASE Present(w)
      <3>1. CASE call[w].copy.refresh \in valid /\ issued < MaxPair
                 /\ issued' = issued + 1
                 /\ valid' = (valid \ {call[w].copy.refresh}) \cup {issued'}
                 /\ call' = [call EXCEPT ![w] = [call[w] EXCEPT !.pc = "answer", !.got = issued']]
        <4>1. /\ call'[w].pc = "answer" /\ call'[w].got = issued'
              /\ call'[w].copy = call[w].copy
              /\ \A v \in Workers : v # w => call'[v] = call[v]
          BY <3>1, <2>0 DEF TypeOK, Call
        <4>2. UNCHANGED <<row, lost, revoked>> /\ call[w].got = 0
          BY <2>8, <2>g DEF Present
        <4>3. issued \in Nat /\ issued' \in Nat
          BY <3>1, TokenAssumption DEF TypeOK, Token
        <4>4. Bounded'
          <5>1. row.refresh <= issued'
            BY <3>1, <4>3, RowFields, TokenAssumption DEF Safe, Bounded, Token
          <5>2. ASSUME NEW v \in Workers
                PROVE  call'[v].copy.refresh <= issued' /\ call'[v].got <= issued'
            BY <3>1, <4>1, <4>3, RowFields, TokenAssumption DEF Safe, Bounded, Token
          <5> QED BY <4>2, <5>1, <5>2 DEF Bounded
        <4>5. Fresh'
          <5> SUFFICES ASSUME NEW u \in Workers, call'[u].got # 0
                       PROVE  /\ call'[u].pc \in {"answer", "save"}
                              /\ call'[u].got \in valid' \cup revoked
                              /\ call'[u].got # row.refresh
                              /\ \A v \in Workers :
                                    /\ call'[v].copy.refresh # call'[u].got
                                    /\ v # u => call'[v].got # call'[u].got
            BY <4>2 DEF Fresh
          <5>1. CASE u = w
            BY <5>1, <3>1, <4>1, <4>2, <4>3, RowFields, TokenAssumption
               DEF Safe, Bounded, Token
          <5>2. CASE u # w
            <6>1. call'[u] = call[u]
              BY <4>1, <5>2
            <6>2. /\ call[u].pc \in {"answer", "save"}
                  /\ call[u].got \in valid \cup revoked
                  /\ call[u].got # row.refresh
                  /\ \A v \in Workers : /\ call[v].copy.refresh # call[u].got
                                        /\ v # u => call[v].got # call[u].got
              BY <6>1 DEF Safe, Fresh
            <6>3. call[u].got <= issued
              BY DEF Safe, Bounded
            <6>4. call[u].got # issued'
              BY <6>3, <3>1, <4>3, RowFields, TokenAssumption DEF Token
            <6> QED BY <6>1, <6>2, <6>4, <3>1, <4>1
          <5> QED BY <5>1, <5>2
        <4>6. StoredIsAlive'
          <5> SUFFICES ASSUME row.refresh # 0, row.refresh \notin valid' \cup lost \cup revoked
                       PROVE  InFlight(row.refresh)'
            BY <4>2 DEF StoredIsAlive
          <5>1. CASE row.refresh = call[w].copy.refresh
            <6>1. issued' # 0
              BY <3>1, <4>3
            <6> QED BY <5>1, <6>1, <4>1, <4>2 DEF InFlight
          <5>2. CASE row.refresh # call[w].copy.refresh
            <6>1. PICK u \in Workers : /\ call[u].pc \in {"answer", "save"}
                                       /\ call[u].got # 0
                                       /\ call[u].copy.refresh = row.refresh
              BY <5>2, <3>1 DEF Safe, StoredIsAlive, InFlight
            <6> QED BY <6>1, <4>1, <4>2 DEF InFlight
          <5> QED BY <5>1, <5>2
        <4> QED BY <4>4, <4>5, <4>6 DEF Safe
      <3>2. CASE call[w].copy.refresh \notin valid
                 /\ call' = [call EXCEPT ![w] = [call[w] EXCEPT !.pc = "answer", !.got = 0]]
                 /\ UNCHANGED xVars
        <4>1. PICK k \in Call : /\ call' = [call EXCEPT ![w] = k]
                                /\ k.got = 0 /\ k.copy = call[w].copy
          <5>1. [call[w] EXCEPT !.pc = "answer", !.got = 0] \in Call
            BY <2>0, RowFields DEF Call, Past
          <5> QED BY <3>2, <2>0, <5>1 DEF Call
        <4> QED BY <2>8, <2>g, <3>2, <4>1, EmptyHanded DEF Present, xVars
      <3> QED BY <2>8, <3>1, <3>2 DEF Present
    <2>9. CASE XError(w)
      <3>1. PICK k \in Call : /\ call' = [call EXCEPT ![w] = k]
                              /\ k.got = 0 /\ k.copy = call[w].copy
        <4>1. [call[w] EXCEPT !.pc = "answer", !.got = 0] \in Call
          BY <2>0, RowFields DEF Call, Past
        <4> QED BY <2>9, <2>0, <4>1 DEF XError, Call
      <3> QED BY <2>9, <2>g, <3>1, EmptyHanded DEF XError, xVars, history
    <2>10. CASE Rejected(w)
      BY <2>10, RowFields, LeaveFields, EmptyHanded DEF Rejected, xVars, history
    <2>11. CASE AnswerLost(w)
      BY <2>11, RowFields, LeaveFields, Dropped DEF AnswerLost, xVars
    <2>12. CASE Find(w)
      <3>1. PICK k \in Call : /\ call' = [call EXCEPT ![w] = k] /\ k.pc = "save"
                              /\ k.got = call[w].got /\ k.copy = call[w].copy
        <4>1. [call[w] EXCEPT !.pc = "save", !.found = row.id] \in Call
          BY <2>0, RowFields DEF Call, Past
        <4> QED BY <2>12, <2>0, <4>1 DEF Find, Call
      <3> QED BY <2>12, <3>1, QuietStep DEF Find, xVars, history
    <2>13. CASE Save(w)
      <3>1. CASE call[w].found # row.id
        BY <2>13, <3>1, RowFields, LeaveFields, Dropped DEF Save, xVars
      <3>2. CASE call[w].found = row.id
        BY <2>13, <3>2, Rotated DEF Save, xVars
      <3> QED BY <3>1, <3>2
    <2>14. CASE Release(w)
      <3>1. PICK k \in Call : /\ call' = [call EXCEPT ![w] = k]
                              /\ k.got = 0 /\ k.copy = call[w].copy
        <4>1. /\ [call[w] EXCEPT !.pc = "delete"] \in Call
              /\ [call[w] EXCEPT !.pc = "delete"].got = call[w].got
              /\ [call[w] EXCEPT !.pc = "delete"].copy = call[w].copy
          BY <2>0 DEF Call, Past
        <4>2. /\ [NoCall EXCEPT !.copy = call[w].copy] \in Call
              /\ [NoCall EXCEPT !.copy = call[w].copy].got = 0
              /\ [NoCall EXCEPT !.copy = call[w].copy].copy = call[w].copy
          BY <2>0, RowFields DEF Call, NoCall
        <4> QED BY <2>14, <2>g, <4>1, <4>2 DEF Release
      <3> QED BY <2>14, <2>g, <3>1, EmptyHanded DEF Release, xVars, history
    <2>15. CASE Delete(w)
      <3>1. /\ [NoCall EXCEPT !.copy = call[w].copy] \in Call
            /\ [NoCall EXCEPT !.copy = call[w].copy].got = 0
            /\ [NoCall EXCEPT !.copy = call[w].copy].copy = call[w].copy
        BY <2>0, RowFields DEF Call, NoCall
      <3> QED BY <2>15, <2>g, <3>1, EmptyHanded DEF Delete, xVars, history
    <2>16. CASE Crash(w)
      <3>1. NoCall \in Call /\ NoCall.got = 0 /\ NoCall.copy = NoRow
        BY RowFields DEF NoCall
      <3> QED BY <2>16, <3>1, Dropped DEF Crash, xVars
    <2> QED BY <1>6, <2>1, <2>2, <2>3, <2>4, <2>5, <2>6, <2>7, <2>8, <2>9, <2>10,
               <2>11, <2>12, <2>13, <2>14, <2>15, <2>16 DEF Progress
  <1> QED BY <1>1, <1>2, <1>3, <1>4, <1>5, <1>6 DEF Next

(* No order of refreshes, however many run at once and however the lock      *)
(* fails them, disconnects and reconnects overwrites a live credential with  *)
(* a dead one: the stored refresh token is one X accepts unless its          *)
(* replacement is on the way, was lost, or the user revoked it.              *)
THEOREM CredentialStaysAlive == Spec => []StoredIsAlive
  <1>1. Init => TypeOK /\ Safe
    BY InitSafe
  <1>2. TypeOK /\ Safe /\ [Next]_vars => TypeOK' /\ Safe'
    BY TypeStep, SafeStep
  <1>3. TypeOK /\ Safe => StoredIsAlive
    BY DEF Safe
  <1> QED BY <1>1, <1>2, <1>3, PTL DEF Spec

-----------------------------------------------------------------------------
(* The lock                                                                  *)

(* A call that acquired the lock owns it to its end, as long as no lock has  *)
(* expired under the call that held it.                                      *)
Owns(w) ==
    /\ call[w].mine => call[w].pc \in Past
    /\ call[w].pc \in {"release", "delete"} => call[w].mine
    /\ "hold" \notin outrun /\ call[w].mine => lock.owner = w

Guarded == \A w \in Workers : Owns(w)

(* A step of one call that leaves the lock alone.                            *)
LEMMA LockAlone ==
    ASSUME Guarded, NEW w \in Workers,
           \A v \in Workers : v # w => call'[v] = call[v],
           lock' = lock, outrun \subseteq outrun',
           call'[w].mine => call[w].mine /\ call'[w].pc \in Past,
           call'[w].pc \in {"release", "delete"} => call'[w].mine
    PROVE  Guarded'
  BY DEF Guarded, Owns

LEMMA LeaveOwns ==
    ASSUME NEW w \in Workers, NEW c
    PROVE  /\ Leave(w, c).mine = call[w].mine
           /\ Leave(w, c).pc = IF call[w].mine THEN "release" ELSE "idle"
  BY DEF Leave, NoCall

LEMMA GuardedStep == TypeOK /\ Guarded /\ [Next]_vars => Guarded'
  <1> SUFFICES ASSUME TypeOK, Guarded, [Next]_vars PROVE Guarded'
    OBVIOUS
  <1>1. CASE UNCHANGED vars \/ Expire \/ Connect \/ Disconnect
    BY <1>1 DEF vars, history, Expire, Connect, Disconnect, Guarded, Owns
  <1>2. CASE Tick
    <2> SUFFICES ASSUME NEW w \in Workers PROVE Owns(w)'
      BY DEF Guarded
    <2>1. call'[w].mine = call[w].mine /\ call'[w].pc = call[w].pc
      BY <1>2 DEF Tick, TypeOK, Call
    <2>2. ASSUME "hold" \notin outrun', call[w].mine PROVE LockAfterTick.owner = w
      <3>1. ~Outlived(w) /\ "hold" \notin outrun
        BY <1>2, <2>2 DEF Tick
      <3>2. InPast(w) /\ lock.owner = w
        BY <2>2, <3>1 DEF Guarded, Owns, InPast
      <3> QED BY <3>1, <3>2 DEF Outlived
    <2> QED BY <1>2, <2>1, <2>2 DEF Tick, Guarded, Owns
  <1>3. ASSUME NEW w \in Workers,
               Progress(w) \/ EndSession(w) \/ NoRedis(w) \/ XError(w)
                 \/ AnswerLost(w) \/ Crash(w)
        PROVE  Guarded'
    <2> USE DEF history
    <2>0. call[w] \in Call /\ Owns(w)
      BY RowFields DEF Guarded
    <2>a. \A v \in Workers : v # w => call'[v] = call[v]
      BY <1>3 DEF Progress, Load, Acquire, GiveUp, Wake, Check, Present, Rejected, Find,
                  Save, Release, Delete, EndSession, NoRedis, XError, AnswerLost, Crash, TypeOK
    <2>1. CASE Load(w) \/ EndSession(w) \/ Crash(w)
      <3>1. ~call'[w].mine /\ call'[w].pc \in {"idle", "wait"}
        <4>1. \/ call'[w] = NoCall
              \/ \E c : call'[w] = [NoCall EXCEPT !.copy = c]
              \/ \E c : call'[w] = [NoCall EXCEPT !.pc = "wait", !.copy = c]
          <5>1. CASE Load(w)
            BY <5>1 DEF Load, TypeOK
          <5>2. CASE EndSession(w) \/ Crash(w)
            BY <5>2 DEF EndSession, Crash, TypeOK
          <5> QED BY <2>1, <5>1, <5>2
        <4>2. ~NoCall.mine /\ NoCall.pc = "idle"
          BY DEF NoCall
        <4>3. ASSUME NEW c, call'[w] = [NoCall EXCEPT !.copy = c]
              PROVE  ~call'[w].mine /\ call'[w].pc = "idle"
          BY <4>3 DEF NoCall
        <4>4. ASSUME NEW c, call'[w] = [NoCall EXCEPT !.pc = "wait", !.copy = c]
              PROVE  ~call'[w].mine /\ call'[w].pc = "wait"
          BY <4>4 DEF NoCall
        <4> QED BY <4>1, <4>2, <4>3, <4>4
      <3>2. lock' = lock /\ outrun' = outrun
        BY <2>1 DEF Load, EndSession, Crash
      <3> QED BY <2>a, <3>1, <3>2, LockAlone
    <2>2. CASE Acquire(w)
      <3> SUFFICES ASSUME NEW v \in Workers PROVE Owns(v)'
        BY DEF Guarded
      <3>1. CASE v = w
        BY <2>0, <2>2, <3>1 DEF Acquire, Owns, Call, TypeOK, Past
      <3>2. CASE v # w
        <4>1. call'[v] = call[v] /\ outrun' = outrun /\ lock.owner = NoOne
          BY <2>2, <3>2 DEF Acquire, TypeOK, NoLock
        <4> QED BY <4>1, TokenAssumption DEF Guarded, Owns
      <3> QED BY <3>1, <3>2
    <2>3. CASE GiveUp(w) \/ NoRedis(w)
      <3>1. ~call[w].mine
        BY <2>0, <2>3 DEF GiveUp, NoRedis, Owns, Past
      <3>2. ~call'[w].mine /\ call'[w].pc \in {"sleep", "check"}
        <4>1. \E p \in {"sleep", "check"} : call'[w] = [call[w] EXCEPT !.pc = p, !.elapsed = 0]
          BY <2>3 DEF GiveUp, NoRedis, TypeOK
        <4> QED BY <2>0, <3>1, <4>1 DEF Call
      <3>3. lock' = lock /\ outrun \subseteq outrun'
        BY <2>3 DEF GiveUp, NoRedis
      <3> QED BY <2>a, <3>2, <3>3, LockAlone
    <2>4. CASE Wake(w) \/ Check(w) \/ Rejected(w) \/ AnswerLost(w) \/ Save(w)
      <3>1. /\ call'[w].mine = call[w].mine
            /\ \/ call'[w].pc = IF call[w].mine THEN "release" ELSE "idle"
               \/ call'[w].pc \in {"check", "send"}
        <4>1. CASE Wake(w) \/ Check(w)
          <5>1. \/ \E c : call'[w] = Leave(w, c)
                \/ \E c : call'[w] = [call[w] EXCEPT !.pc = "check", !.copy = c]
                \/ \E c : call'[w] = [call[w] EXCEPT !.pc = "send", !.copy = c]
            BY <4>1 DEF Wake, Check, TypeOK
          <5>2. ASSUME NEW c, call'[w] = Leave(w, c)
                PROVE  /\ call'[w].mine = call[w].mine
                       /\ call'[w].pc = IF call[w].mine THEN "release" ELSE "idle"
            BY <5>2, LeaveOwns
          <5>3. ASSUME NEW c, NEW p, call'[w] = [call[w] EXCEPT !.pc = p, !.copy = c]
                PROVE  call'[w].mine = call[w].mine /\ call'[w].pc = p
            BY <2>0, <5>3 DEF Call
          <5> QED BY <5>1, <5>2, <5>3
        <4>2. CASE Rejected(w) \/ AnswerLost(w)
          BY <4>2, LeaveOwns DEF Rejected, AnswerLost, TypeOK
        <4>3. CASE Save(w)
          BY <4>3, LeaveOwns DEF Save, TypeOK
        <4> QED BY <2>4, <4>1, <4>2, <4>3
      <3>2. lock' = lock /\ outrun \subseteq outrun'
        BY <2>4 DEF Wake, Check, Rejected, AnswerLost, Save
      <3> QED BY <2>a, <3>1, <3>2, LockAlone DEF Past
    <2>5. CASE Present(w) \/ XError(w) \/ Find(w)
      <3>1. call'[w].mine = call[w].mine /\ call'[w].pc \in {"answer", "save"}
        <4>1. \/ \E g : call'[w] = [call[w] EXCEPT !.pc = "answer", !.got = g]
              \/ \E f : call'[w] = [call[w] EXCEPT !.pc = "save", !.found = f]
          <5>1. CASE Present(w)
            BY <5>1 DEF Present, TypeOK
          <5>2. CASE XError(w)
            BY <5>2 DEF XError, TypeOK
          <5>3. CASE Find(w)
            BY <5>3 DEF Find, TypeOK
          <5> QED BY <2>5, <5>1, <5>2, <5>3
        <4> QED BY <2>0, <4>1 DEF Call
      <3>2. lock' = lock /\ outrun' = outrun
        BY <2>5 DEF Present, XError, Find
      <3> QED BY <2>a, <3>1, <3>2, LockAlone DEF Past
    <2>6. CASE Release(w)
      <3>1. call[w].mine
        BY <2>0, <2>6 DEF Release, Owns
      <3>2. \/ call'[w].pc = "delete" /\ call'[w].mine
            \/ call'[w].pc = "idle" /\ ~call'[w].mine
        <4>1. \/ call'[w] = [call[w] EXCEPT !.pc = "delete"]
              \/ call'[w] = [NoCall EXCEPT !.copy = call[w].copy]
          BY <2>6 DEF Release, TypeOK
        <4> QED BY <2>0, <3>1, <4>1 DEF Call, NoCall
      <3>3. lock' = lock /\ outrun' = outrun
        BY <2>6 DEF Release
      <3> QED BY <2>a, <3>1, <3>2, <3>3, LockAlone DEF Past
    <2>7. CASE Delete(w)
      <3> SUFFICES ASSUME NEW v \in Workers PROVE Owns(v)'
        BY DEF Guarded
      <3>1. CASE v = w
        BY <2>7, <3>1 DEF Delete, Owns, NoCall, TypeOK
      <3>2. CASE v # w
        <4>1. call'[v] = call[v] /\ outrun' = outrun
          BY <2>7, <3>2 DEF Delete, TypeOK
        <4>2. "hold" \notin outrun => lock.owner = w
          BY <2>0, <2>7 DEF Delete, Owns
        <4> QED BY <3>2, <4>1, <4>2 DEF Guarded, Owns
      <3> QED BY <3>1, <3>2
    <2> QED BY <1>3, <2>1, <2>2, <2>3, <2>4, <2>5, <2>6, <2>7 DEF Progress
  <1> QED BY <1>1, <1>2, <1>3 DEF Next

LEMMA GuardedAlways == Spec => []Guarded
  <1>1. Init => Guarded
    BY DEF Init, Guarded, Owns, NoCall
  <1> QED BY <1>1, GuardedStep, Typing, PTL DEF Spec

(* While no call outlives its lock, however many workers, deaths and lost    *)
(* answers there are, at most one call works under the lock it acquired.     *)
THEOREM HoldersExclude == Spec => []MutualExclusion
  <1>1. Guarded => MutualExclusion
    BY DEF Guarded, Owns, MutualExclusion, Holds
  <1> QED BY <1>1, GuardedAlways, PTL

(* Under the same condition nobody deletes a lock that is not his.           *)
THEOREM DeletersOwn == Spec => []OwnersDelete
  <1>1. Guarded => OwnersDelete
    BY DEF Guarded, Owns, OwnersDelete
  <1> QED BY <1>1, GuardedAlways, PTL

-----------------------------------------------------------------------------
(* One use of each token                                                     *)

(* What can be presented without burning anything twice.                     *)
Usable == valid \cup lost \cup revoked

(* A call past the lock has it, unless it outran it, and what it is about to *)
(* present, read inside the lock, is usable.  A row that had a refresh token *)
(* when it was loaded keeps having one.                                      *)
Sound(w) ==
    /\ call[w].copy.id <= issued
    /\ row.id # 0 /\ call[w].copy.id = row.id /\ call[w].copy.refresh # 0 => row.refresh # 0
    /\ call[w].pc \in {"wait", "sleep", "check"} => call[w].copy.refresh # 0
    /\ call[w].pc = "save" => call[w].got # 0
    /\ outrun = {} /\ call[w].pc \in {"check", "send", "answer", "save"} => call[w].mine
    /\ outrun = {} /\ call[w].pc = "send" => call[w].copy.refresh \in Usable

Sole ==
    /\ row.id <= issued
    /\ \A w \in Workers : Sound(w)
    /\ SingleUse

LEMMA InitSole == Init => Sole
  BY DEF Init, Sole, Sound, SingleUse, NoCall, NoRow

(* A step of one call that takes no token out of use and leaves the row.     *)
LEMMA SoleQuiet ==
    ASSUME Sole, NEW w \in Workers,
           \A v \in Workers : v # w => call'[v] = call[v],
           UNCHANGED <<row, xVars, spentTwice, revoked>>, lost \subseteq lost',
           outrun \subseteq outrun', Sound(w)'
    PROVE  Sole'
  <1>1. ASSUME NEW v \in Workers, v # w PROVE Sound(v)'
    BY <1>1 DEF Sole, Sound, Usable, xVars
  <1>2. SingleUse' BY DEF Sole, SingleUse
  <1> QED BY <1>1, <1>2 DEF Sole, xVars

(* While no lock is outrun the calls past it are one.                        *)
LEMMA OneSender ==
    ASSUME Guarded, Sole, outrun = {}, NEW v \in Workers, NEW w \in Workers,
           call[v].pc \in {"check", "send", "answer", "save"},
           call[w].pc \in {"check", "send", "answer", "save"}
    PROVE  v = w
  BY DEF Guarded, Owns, Sole, Sound

LEMMA RowIds ==
    ASSUME TypeOK
    PROVE  /\ row.id \in Nat /\ issued \in Nat
           /\ \A w \in Workers : call[w].copy.id \in Nat /\ call[w].got \in Nat
  BY RowFields, TokenAssumption DEF TypeOK, Row, Token

LEMMA SoleStep == TypeOK /\ Safe /\ Guarded /\ Sole /\ [Next]_vars => Sole'
  <1> SUFFICES ASSUME TypeOK, Safe, Guarded, Sole, [Next]_vars PROVE Sole'
    OBVIOUS
  <1>1. CASE UNCHANGED vars \/ Expire
    <2>1. UNCHANGED <<row, valid, issued, call, spentTwice, lost, revoked, outrun>>
      BY <1>1 DEF vars, xVars, history, Expire
    <2> QED BY <2>1 DEF Sole, Sound, Usable, SingleUse
  <1>2. CASE Tick
    <2>1. UNCHANGED <<row, valid, issued, spentTwice, lost, revoked>> /\ outrun \subseteq outrun'
      BY <1>2 DEF Tick, xVars
    <2>2. ASSUME NEW w \in Workers
          PROVE  /\ call'[w].pc = call[w].pc /\ call'[w].mine = call[w].mine
                 /\ call'[w].copy = call[w].copy /\ call'[w].got = call[w].got
      BY <1>2, RowFields DEF Tick, Call
    <2> QED BY <2>1, <2>2 DEF Sole, Sound, Usable, SingleUse
  <1>3. CASE Connect
    <2>1. /\ issued' = issued + 1 /\ valid \subseteq valid'
          /\ row'.id = (IF row.id = 0 THEN issued' ELSE row.id)
          /\ row'.refresh \in {issued', row.refresh}
          /\ UNCHANGED <<call, spentTwice, lost, revoked, outrun>>
      BY <1>3 DEF Connect, history
    <2>2. ASSUME NEW w \in Workers PROVE Sound(w)'
      BY <2>1, RowIds DEF Sole, Sound, Usable
    <2>3. row'.id <= issued' /\ SingleUse'
      BY <2>1, RowIds DEF Sole, SingleUse
    <2> QED BY <2>2, <2>3 DEF Sole
  <1>4. CASE Disconnect
    <2>1. /\ row' = NoRow /\ UNCHANGED <<issued, call, spentTwice, lost, outrun>>
          /\ Usable \subseteq Usable' /\ revoked \subseteq revoked'
      BY <1>4 DEF Disconnect, Usable
    <2>2. row'.id = 0 BY <2>1 DEF NoRow
    <2>3. ASSUME NEW w \in Workers PROVE Sound(w)'
      BY <2>1, <2>2 DEF Sole, Sound
    <2> QED BY <2>1, <2>2, <2>3, RowIds DEF Sole, SingleUse
  <1>5. ASSUME NEW w \in Workers,
               Progress(w) \/ EndSession(w) \/ NoRedis(w) \/ XError(w)
                 \/ AnswerLost(w) \/ Crash(w)
        PROVE  Sole'
    <2> USE DEF history, xVars
    <2>0. call[w] \in Call /\ Sound(w) /\ Owns(w)
      BY RowFields DEF Guarded, Sole
    <2>a. \A v \in Workers : v # w => call'[v] = call[v]
      BY <1>5 DEF Progress, Load, Acquire, GiveUp, Wake, Check, Present, Rejected, Find,
                  Save, Release, Delete, EndSession, NoRedis, XError, AnswerLost, Crash, TypeOK
    (* A call that ends: it keeps a row it has, or none.                     *)
    <2>e. ASSUME UNCHANGED <<row, valid, issued, spentTwice, revoked>>,
                 lost \subseteq lost', outrun \subseteq outrun',
                 call'[w].pc \in {"idle", "release", "delete"},
                 call'[w].copy \in {NoRow, row, call[w].copy}
          PROVE  Sole'
      <3>1. NoRow.id = 0 /\ NoRow.refresh = 0 BY DEF NoRow
      <3>2. Sound(w)'
        BY <2>0, <2>e, <3>1, RowIds DEF Sole, Sound
      <3> QED BY <2>a, <2>e, <3>2, SoleQuiet
    (* A call that goes on with what it has read.                            *)
    <2>f. ASSUME UNCHANGED <<row, valid, issued, spentTwice, revoked, lost>>,
                 outrun \subseteq outrun', call'[w].copy = call[w].copy,
                 call'[w].pc \in {"sleep", "answer", "save", "check"},
                 call'[w].pc \in {"sleep", "check"} => call[w].pc \in {"wait", "sleep", "check"},
                 call'[w].pc = "save" => call'[w].got # 0,
                 outrun' = {} /\ call'[w].pc # "sleep" => call'[w].mine
          PROVE  Sole'
      <3>1. Sound(w)'
        BY <2>0, <2>f DEF Sound
      <3> QED BY <2>a, <2>f, <3>1, SoleQuiet
    <2>1. CASE Load(w)
      <3>1. PICK c \in {call[w].copy, row} :
              /\ call' = [call EXCEPT ![w] = IF NeedsRefresh(c) /\ c.refresh # 0
                            THEN [NoCall EXCEPT !.pc = "wait", !.copy = c]
                            ELSE [NoCall EXCEPT !.copy = IF NeedsRefresh(c) THEN NoRow ELSE c]]
        BY <2>1 DEF Load
      <3>2. UNCHANGED <<row, valid, issued, spentTwice, revoked, lost, outrun>>
        BY <2>1 DEF Load
      <3>3. CASE NeedsRefresh(c) /\ c.refresh # 0
        <4>1. call'[w].pc = "wait" /\ call'[w].copy = c
          BY <3>1, <3>3 DEF TypeOK, NoCall
        <4>2. Sound(w)'
          BY <2>0, <3>1, <3>2, <3>3, <4>1 DEF Sole, Sound
        <4> QED BY <2>a, <3>2, <4>2, SoleQuiet
      <3>4. CASE ~(NeedsRefresh(c) /\ c.refresh # 0)
        <4>1. call'[w].pc = "idle" /\ call'[w].copy \in {NoRow, c}
          BY <3>1, <3>4 DEF TypeOK, NoCall
        <4> QED BY <2>e, <3>1, <3>2, <4>1
      <3> QED BY <3>3, <3>4
    <2>2. CASE EndSession(w) \/ Crash(w)
      <3>1. call'[w].pc = "idle" /\ call'[w].copy = NoRow
        BY <2>2 DEF EndSession, Crash, TypeOK, NoCall
      <3>2. /\ UNCHANGED <<row, valid, issued, spentTwice, revoked, outrun>>
            /\ lost \subseteq lost'
        BY <2>2 DEF EndSession, Crash, Lose
      <3> QED BY <2>e, <3>1, <3>2
    <2>3. CASE Acquire(w)
      <3>1. call'[w].pc = "check" /\ call'[w].mine /\ call'[w].copy = call[w].copy
        BY <2>0, <2>3 DEF Acquire, TypeOK, Call
      <3>2. UNCHANGED <<row, valid, issued, spentTwice, revoked, lost, outrun>>
        BY <2>3 DEF Acquire
      <3> QED BY <2>3, <2>f, <3>1, <3>2 DEF Acquire, Waits
    <2>4. CASE GiveUp(w)
      <3>1. call'[w].pc = "sleep" /\ call'[w].copy = call[w].copy
        BY <2>0, <2>4 DEF GiveUp, TypeOK, Call
      <3>2. UNCHANGED <<row, valid, issued, spentTwice, revoked, lost, outrun>>
        BY <2>4 DEF GiveUp
      <3> QED BY <2>4, <2>f, <3>1, <3>2 DEF GiveUp
    <2>5. CASE NoRedis(w)
      <3>1. call'[w].pc = "check" /\ call'[w].copy = call[w].copy
        BY <2>0, <2>5 DEF NoRedis, TypeOK, Call
      <3>2. /\ UNCHANGED <<row, valid, issued, spentTwice, revoked, lost>>
            /\ outrun \subseteq outrun' /\ outrun' # {}
        BY <2>5 DEF NoRedis
      <3> QED BY <2>5, <2>f, <3>1, <3>2 DEF NoRedis
    <2>l. ASSUME NEW c, call' = [call EXCEPT ![w] = Leave(w, c)]
          PROVE  call'[w].pc \in {"idle", "release", "delete"} /\ call'[w].copy = c
      BY <2>l DEF Leave, NoCall, TypeOK
    (* A row read again that is still the one loaded has its token.          *)
    <2>r. ~Gone(w) /\ call[w].pc \in {"wait", "sleep", "check"} => row.refresh # 0
      BY <2>0 DEF Gone, Sound
    <2>6. CASE Wake(w)
      <3>1. UNCHANGED <<row, valid, issued, spentTwice, revoked, lost>> /\ outrun \subseteq outrun'
        BY <2>6 DEF Wake
      <3>2. CASE ~Gone(w) /\ NeedsRefresh(row)
        <4>1. call'[w].pc = "check" /\ call'[w].copy = row
          BY <2>0, <2>6, <3>2 DEF Wake, TypeOK, Call
        <4>2. outrun' # {} BY <2>6, <4>1 DEF Wake
        <4>3. Sound(w)'
          BY <2>6, <2>r, <3>1, <3>2, <4>1, <4>2 DEF Wake, Sole, Sound
        <4> QED BY <2>a, <3>1, <4>3, SoleQuiet
      <3>3. CASE ~(~Gone(w) /\ NeedsRefresh(row))
        <4>1. PICK c \in {NoRow, row} : call' = [call EXCEPT ![w] = Leave(w, c)]
          BY <2>6, <3>3 DEF Wake
        <4> QED BY <2>e, <2>l, <3>1, <4>1
      <3> QED BY <3>2, <3>3
    <2>7. CASE Check(w)
      <3>1. UNCHANGED <<row, valid, issued, spentTwice, revoked, lost, outrun>>
        BY <2>7 DEF Check
      <3>2. CASE ~Gone(w) /\ NeedsRefresh(row)
        <4>1. call'[w].pc = "send" /\ call'[w].copy = row /\ call'[w].mine = call[w].mine
          BY <2>0, <2>7, <3>2 DEF Check, Reread, TypeOK, Call
        <4>2. row.refresh # 0 BY <2>7, <2>r, <3>2 DEF Check
        <4>3. outrun = {} => row.refresh \in Usable
          <5> SUFFICES ASSUME outrun = {}, row.refresh \notin Usable PROVE FALSE
            OBVIOUS
          <5>1. InFlight(row.refresh) BY <4>2 DEF Safe, StoredIsAlive, Usable
          <5>2. PICK u \in Workers : call[u].pc \in {"answer", "save"}
            BY <5>1 DEF InFlight
          <5> QED BY <2>7, <5>2, OneSender DEF Check
        <4>4. Sound(w)'
          BY <2>0, <2>7, <3>1, <4>1, <4>2, <4>3 DEF Check, Sole, Sound, Usable
        <4> QED BY <2>a, <3>1, <4>4, SoleQuiet
      <3>3. CASE ~(~Gone(w) /\ NeedsRefresh(row))
        <4>1. PICK c \in {NoRow, row} : call' = [call EXCEPT ![w] = Leave(w, c)]
          BY <2>7, <3>3 DEF Check, Reread
        <4> QED BY <2>e, <2>l, <3>1, <4>1
      <3> QED BY <3>2, <3>3
    <2>8. CASE Present(w)
      <3> DEFINE t == call[w].copy.refresh
      <3>1. /\ call[w].pc = "send" /\ UNCHANGED <<row, lost, revoked, outrun>>
            /\ issued <= issued' /\ issued' \in Nat
            /\ valid \ {t} \subseteq valid'
        BY <2>8, RowIds DEF Present
      <3>2. call'[w].pc = "answer" /\ call'[w].copy = call[w].copy /\ call'[w].mine = call[w].mine
        <4>1. PICK g : call' = [call EXCEPT ![w] = [call[w] EXCEPT !.pc = "answer", !.got = g]]
          BY <2>8 DEF Present
        <4> QED BY <2>0, <4>1 DEF TypeOK, Call
      <3>3. spentTwice' = spentTwice \/ (t \notin valid /\ spentTwice' = spentTwice \cup {t})
        BY <2>8 DEF Present
      <3>4. SingleUse'
        BY <2>0, <3>1, <3>3 DEF Sole, Sound, SingleUse, Usable
      <3>5. ASSUME NEW v \in Workers PROVE Sound(v)'
        <4>1. CASE v = w
          BY <2>0, <3>1, <3>2, <4>1, RowIds DEF Sound
        <4>2. CASE v # w
          <5>1. outrun = {} => call[v].pc # "send"
            BY <3>1, <4>2, OneSender
          <5>2. Sound(v) /\ call'[v] = call[v] BY <2>a, <4>2 DEF Sole
          <5> QED BY <3>1, <5>1, <5>2, RowIds DEF Sound
        <4> QED BY <4>1, <4>2
      <3>6. row'.id <= issued' BY <3>1, RowIds DEF Sole
      <3> QED BY <3>4, <3>5, <3>6 DEF Sole
    <2>9. CASE XError(w) \/ Find(w)
      <3>1. /\ call'[w].pc \in {"answer", "save"} /\ call'[w].copy = call[w].copy
            /\ call'[w].mine = call[w].mine
            /\ call'[w].pc = "save" => call'[w].got # 0
        <4>1. CASE XError(w)
          BY <2>0, <4>1 DEF XError, TypeOK, Call
        <4>2. CASE Find(w)
          BY <2>0, <4>2 DEF Find, TypeOK, Call
        <4> QED BY <2>9, <4>1, <4>2
      <3>2. UNCHANGED <<row, valid, issued, spentTwice, revoked, lost, outrun>>
        BY <2>9 DEF XError, Find
      <3>3. outrun = {} => call[w].mine
        BY <2>0, <2>9 DEF XError, Find, Sound
      <3> QED BY <2>f, <3>1, <3>2, <3>3
    <2>10. CASE Rejected(w) \/ AnswerLost(w)
      <3>1. call' = [call EXCEPT ![w] = Leave(w, NoRow)]
        BY <2>10 DEF Rejected, AnswerLost
      <3>2. /\ UNCHANGED <<row, valid, issued, spentTwice, revoked, outrun>>
            /\ lost \subseteq lost'
        BY <2>10 DEF Rejected, AnswerLost, Lose
      <3> QED BY <2>e, <2>l, <3>1, <3>2
    <2>11. CASE Save(w) /\ call[w].found # row.id
      <3>1. call' = [call EXCEPT ![w] = Leave(w, NoRow)]
        BY <2>11 DEF Save
      <3>2. /\ UNCHANGED <<row, valid, issued, spentTwice, revoked, outrun>>
            /\ lost \subseteq lost'
        BY <2>11 DEF Save, Lose
      <3> QED BY <2>e, <2>l, <3>1, <3>2
    <2>12. CASE Save(w) /\ call[w].found = row.id
      <3>1. row' = Stored(w) /\ call' = [call EXCEPT ![w] = Leave(w, Stored(w))]
        BY <2>12 DEF Save
      <3>2. UNCHANGED <<valid, issued, spentTwice, revoked, lost, outrun>>
        BY <2>12 DEF Save
      <3>3. call[w].got # 0 /\ call[w].got <= issued
        BY <2>0, <2>12 DEF Save, Sound, Safe, Bounded
      <3>4. row'.refresh # 0 /\ row'.id <= issued
        BY <2>12, <3>1, <3>3 DEF Stored, Sole
      <3>5. call'[w].pc \in {"idle", "release", "delete"} /\ call'[w].copy = row'
        BY <2>l, <3>1
      <3>6. ASSUME NEW v \in Workers PROVE Sound(v)'
        <4>1. CASE v = w
          BY <3>2, <3>4, <3>5, <4>1 DEF Sound
        <4>2. CASE v # w
          <5>1. Sound(v) /\ call'[v] = call[v] BY <2>a, <4>2 DEF Sole
          <5> QED BY <3>2, <3>4, <5>1 DEF Sound, Usable
        <4> QED BY <4>1, <4>2
      <3> QED BY <3>2, <3>4, <3>6 DEF Sole, SingleUse
    <2>13. CASE Release(w) \/ Delete(w)
      <3>1. call'[w].pc \in {"idle", "delete"} /\ call'[w].copy = call[w].copy
        <4>1. \/ call'[w] = [call[w] EXCEPT !.pc = "delete"]
              \/ call'[w] = [NoCall EXCEPT !.copy = call[w].copy]
          BY <2>13 DEF Release, Delete, TypeOK
        <4>2. /\ [call[w] EXCEPT !.pc = "delete"].pc = "delete"
              /\ [call[w] EXCEPT !.pc = "delete"].copy = call[w].copy
          BY <2>0 DEF Call
        <4>3. /\ [NoCall EXCEPT !.copy = call[w].copy].pc = "idle"
              /\ [NoCall EXCEPT !.copy = call[w].copy].copy = call[w].copy
          BY DEF NoCall
        <4> QED BY <4>1, <4>2, <4>3
      <3>2. UNCHANGED <<row, valid, issued, spentTwice, revoked, lost, outrun>>
        BY <2>13 DEF Release, Delete
      <3> QED BY <2>e, <3>1, <3>2
    <2> QED BY <1>5, <2>1, <2>2, <2>3, <2>4, <2>5, <2>6, <2>7, <2>8, <2>9, <2>10,
               <2>11, <2>12, <2>13 DEF Progress
  <1> QED BY <1>1, <1>2, <1>3, <1>4, <1>5 DEF Next

(* While no caller outruns the lock, no refresh token is presented to X a    *)
(* second time, but for one whose replacement was lost or that the user      *)
(* revoked: the lock and the re-read inside it (get_valid_access_token) keep *)
(* any number of workers, deaths and lost answers from burning the           *)
(* credential.                                                               *)
THEOREM TokensGoOnce == Spec => []SingleUse
  <1>1. Spec => [](TypeOK /\ Safe /\ Guarded)
    <2>1. Init => TypeOK /\ Safe BY InitSafe
    <2>2. TypeOK /\ Safe /\ [Next]_vars => TypeOK' /\ Safe' BY TypeStep, SafeStep
    <2> QED BY <2>1, <2>2, GuardedAlways, PTL DEF Spec
  <1>2. Sole => SingleUse BY DEF Sole
  <1> QED BY <1>1, <1>2, InitSole, SoleStep, PTL DEF Spec
=============================================================================
