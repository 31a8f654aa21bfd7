------------------------- MODULE SessionStoreProofs -------------------------
(***************************************************************************)
(* Type correctness of SessionStore and its four properties, for every     *)
(* value of the constants.  The inductive invariant StoreInv adds to the   *)
(* types that session ids are unique, and what each call may rely on about *)
(* the row it holds; the argument turns on RowStep, which says that a step *)
(* derives every row from an old row or gives it a fresh id.               *)
(***************************************************************************)
EXTENDS SessionStore, TLAPS

UniqueIds ==
    /\ \A r \in sessions : r.sid \in used
    /\ \A r, q \in sessions : r.sid = q.sid => r = q

Holding(c) == op[c].pc \in {"update", "found", "created"}

(* The call's latest instant is at most one step old.                      *)
Recent(c) == op[c].pc # "idle" => op[c].since <= now /\ now <= op[c].since + MaxLag

(* The row a call holds bears its user, and an id drawn before.            *)
Owns(c) ==
    Holding(c) => /\ op[c].sid \in used
                  /\ op[c].user \in User
                  /\ \A r \in RowsOf(op[c].sid) : r.user = op[c].user

Asks(c) == op[c].pc # "idle" => op[c].user \in User

(* A row handed out was fresh at most one step before the hand-out.        *)
Fresh(r, t) == r.verified /\ r.maxAge >= MinAge /\ r.expires >= t - MaxLag + MinAge

HeldFresh(c) == HandedOut(c) => \A r \in RowsOf(op[c].sid) : Fresh(r, op[c].since)

(* How old the row can be that the SELECT found, and the UPDATE refreshed. *)
HeldYoung(c) ==
    /\ op[c].pc = "update" =>
         \A r \in RowsOf(op[c].sid) : op[c].since <= r.created + MaxAge[c] + MaxLag
    /\ op[c].pc = "found" =>
         \A r \in RowsOf(op[c].sid) : op[c].since <= r.created + MaxAge[c] + 2 * MaxLag

CallInv(c) == Recent(c) /\ Asks(c) /\ Owns(c) /\ HeldFresh(c) /\ HeldYoung(c)

StoreInv == StoreTypeOK /\ UniqueIds /\ \A c \in Call : CallInv(c)

(* What a step may have made of row q at instant t.                        *)
Derived(r, q, t) ==
    /\ r.sid = q.sid /\ r.user = q.user /\ r.created = q.created
    /\ \/ r = q
       \/ r.verified = q.verified /\ r.maxAge = q.maxAge /\ r.expires = t + q.maxAge
       \/ Fresh(r, t)

RowStep ==
    /\ sessions' \subseteq Row
    /\ used \subseteq used' /\ used' \subseteq SessionId
    /\ \A r \in sessions' :
          \/ r.sid \in used' \ used
          \/ \E q \in sessions : Derived(r, q, now)
    /\ UniqueIds'
-----------------------------------------------------------------------------
(* Every kind of write to the table is a RowStep.                          *)

(* A step that leaves the table alone.                                     *)
LEMMA NoWriteRows ==
    ASSUME StoreInv, UNCHANGED <<sessions, used>>
    PROVE  RowStep
  BY DEF StoreInv, StoreTypeOK, RowStep, UniqueIds, Derived

(* The refresh of FindByUserID.                                            *)
LEMMA RefreshRows ==
    ASSUME StoreInv, NEW c \in Call, RefreshRow(c)
    PROVE  RowStep
<1>1. PICK t \in ClockReads(c) :
          sessions' = {IF r.sid = op[c].sid THEN Refreshed(r, c, t) ELSE r : r \in sessions}
  BY DEF RefreshRow
<1>2. /\ op[c].since \in Nat /\ now \in Nat /\ t \in Nat /\ MaxLag \in Nat
      /\ MinAge \in Nat /\ MaxAge[c] \in Nat /\ MaxAge[c] >= MinAge
      /\ used' = used
  BY StoreAssumption DEF StoreInv, StoreTypeOK, Op, ClockReads, RefreshRow
<1>3. t >= now - MaxLag
  BY <1>2 DEF StoreInv, CallInv, Recent, RefreshRow, ClockReads
<1>4. ASSUME NEW r \in sessions
      PROVE  /\ Refreshed(r, c, t) \in Row
             /\ Refreshed(r, c, t).sid = r.sid
             /\ Refreshed(r, c, t).user = r.user
             /\ Refreshed(r, c, t).created = r.created
             /\ Fresh(Refreshed(r, c, t), now)
  <2>1. r \in Row
    BY DEF StoreInv, StoreTypeOK
  <2> DEFINE fresh == Refreshed(r, c, t)
  <2>2. /\ fresh.sid = r.sid /\ fresh.user = r.user /\ fresh.created = r.created
        /\ fresh.expires = t + MaxAge[c] /\ fresh.maxAge = MaxAge[c] /\ fresh.verified
    BY <2>1 DEF Refreshed, Row
  <2>3. t + MaxAge[c] \in Int
    BY <1>2
  <2>4. fresh \in Row
    BY <1>2, <2>1, <2>3 DEF Refreshed, Row
  <2> HIDE DEF fresh
  <2>5. Fresh(fresh, now)
    BY <1>2, <1>3, <2>2 DEF Fresh
  <2> QED
    BY <2>2, <2>4, <2>5 DEF fresh
<1>5. sessions' \subseteq Row
  BY <1>1, <1>4 DEF StoreInv, StoreTypeOK
<1>6. ASSUME NEW r \in sessions'
      PROVE  \E q \in sessions :
                /\ Derived(r, q, now)
                /\ r = IF q.sid = op[c].sid THEN Refreshed(q, c, t) ELSE q
  BY <1>1, <1>4 DEF Derived
<1>7. UniqueIds'
  <2>1. \A r \in sessions' : r.sid \in used'
    BY <1>2, <1>6 DEF StoreInv, UniqueIds, Derived
  <2>2. ASSUME NEW r1 \in sessions', NEW r2 \in sessions', r1.sid = r2.sid
        PROVE  r1 = r2
    <3>1. PICK q1 \in sessions :
             /\ Derived(r1, q1, now)
             /\ r1 = IF q1.sid = op[c].sid THEN Refreshed(q1, c, t) ELSE q1
      BY <1>6
    <3>2. PICK q2 \in sessions :
             /\ Derived(r2, q2, now)
             /\ r2 = IF q2.sid = op[c].sid THEN Refreshed(q2, c, t) ELSE q2
      BY <1>6
    <3>3. q1 = q2
      BY <2>2, <3>1, <3>2 DEF StoreInv, UniqueIds, Derived
    <3> QED
      BY <3>1, <3>2, <3>3
  <2> QED
    BY <2>1, <2>2 DEF UniqueIds
<1> QED
  BY <1>2, <1>5, <1>6, <1>7 DEF RowStep, StoreInv, StoreTypeOK

(* A row under a fresh id: Create, or an interactive login.                *)
LEMMA AddRows ==
    ASSUME StoreInv, NEW s \in SessionId \ used, NEW row \in Row, row.sid = s,
           sessions' = sessions \cup {row}, used' = used \cup {s}
    PROVE  RowStep
  BY DEF StoreInv, StoreTypeOK, RowStep, UniqueIds, Derived

(* A request served by Ghost.                                              *)
LEMMA TouchRows ==
    ASSUME StoreInv, GhostTouch
    PROVE  RowStep
<1>1. PICK q \in sessions :
          sessions' = (sessions \ {q}) \cup {[q EXCEPT !.expires = now + q.maxAge]}
  BY DEF GhostTouch
<1> DEFINE touched == [q EXCEPT !.expires = now + q.maxAge]
<1>2. q \in Row /\ now \in Nat
  BY StoreAssumption DEF StoreInv, StoreTypeOK
<1>3. touched \in Row /\ Derived(touched, q, now)
  BY <1>2 DEF Row, Derived
<1>4. used' = used /\ used \subseteq SessionId /\ sessions \subseteq Row
  BY DEF GhostTouch, StoreInv, StoreTypeOK
<1>5. \A r \in sessions' : \E p \in sessions : Derived(r, p, now) /\ (r = p \/ r = touched)
  BY <1>1, <1>3 DEF Derived
<1>6. UniqueIds'
  <2>1. touched.sid = q.sid
    BY <1>3 DEF Derived
  <2>2. \A r \in sessions' : r.sid \in used'
    BY <1>1, <1>4, <2>1 DEF StoreInv, UniqueIds
  <2>3. \A r, p \in sessions' : r.sid = p.sid => r = p
    BY <1>1, <2>1 DEF StoreInv, UniqueIds
  <2> QED
    BY <2>2, <2>3 DEF UniqueIds
<1>7. sessions' \subseteq Row
  BY <1>1, <1>3, <1>4
<1> HIDE DEF touched
<1> QED
  BY <1>4, <1>5, <1>6, <1>7 DEF RowStep

(* Create's INSERT.                                                        *)
LEMMA InsertRows ==
    ASSUME StoreInv, NEW c \in Call, NEW s \in SessionId, InsertRow(c, s)
    PROVE  RowStep
<1>1. PICK built \in ClockReads(c), stamped \in ClockReads(c) :
          sessions' = sessions \cup {NewRow(s, op[c].user, c, built, stamped)}
  BY DEF InsertRow
<1>2. /\ op[c].user \in User /\ built \in Nat /\ stamped \in Nat /\ MaxAge[c] \in Nat
  BY StoreAssumption DEF StoreInv, StoreTypeOK, Op, ClockReads, CallInv, Asks, InsertRow
<1>3. built + MaxAge[c] \in Int
  BY <1>2
<1>4. NewRow(s, op[c].user, c, built, stamped) \in Row
  BY <1>2, <1>3 DEF NewRow, Row
<1>5. NewRow(s, op[c].user, c, built, stamped).sid = s
  BY DEF NewRow
<1> QED
  BY <1>1, <1>4, <1>5, AddRows DEF InsertRow

(* Ghost's writes.                                                         *)
LEMMA GhostRows ==
    ASSUME StoreInv, Ghost
    PROVE  RowStep
<1>1. CASE GhostTouch
  BY <1>1, TouchRows
<1>2. CASE GhostDestroy
  BY <1>2 DEF GhostDestroy, StoreInv, StoreTypeOK, RowStep, UniqueIds, Derived
<1>3. ASSUME NEW u \in User, GhostLogin(u)
      PROVE  RowStep
  <2>1. PICK s \in SessionId \ used, v \in BOOLEAN :
          /\ sessions' = sessions \cup
                {[sid |-> s, user |-> u, created |-> now, expires |-> now + GhostMaxAge,
                  maxAge |-> GhostMaxAge, verified |-> v]}
          /\ used' = used \cup {s}
    BY <1>3 DEF GhostLogin
  <2>2. now \in Int /\ now + GhostMaxAge \in Int /\ GhostMaxAge \in Nat
    BY StoreAssumption DEF StoreInv, StoreTypeOK
  <2>3. [sid |-> s, user |-> u, created |-> now, expires |-> now + GhostMaxAge,
         maxAge |-> GhostMaxAge, verified |-> v] \in Row
    BY <2>2 DEF Row
  <2> QED
    BY <2>1, <2>3, AddRows
<1> QED
  BY <1>1, <1>2, <1>3 DEF Ghost

(* Every step of the store.                                                *)
LEMMA NextRows ==
    ASSUME StoreInv, [StoreNext]_storeVars
    PROVE  RowStep
<1>1. CASE UNCHANGED <<sessions, used>>
  BY <1>1, NoWriteRows
<1>2. CASE Ghost
  BY <1>2, GhostRows
<1>3. ASSUME NEW c \in Call, RefreshRow(c)
      PROVE  RowStep
  BY <1>3, RefreshRows
<1>4. ASSUME NEW c \in Call, NEW s \in SessionId, InsertRow(c, s)
      PROVE  RowStep
  BY <1>4, InsertRows
<1>5. ASSUME NEW c \in Call, Caller(c)
      PROVE  UNCHANGED <<sessions, used>>
  BY <1>5 DEF Caller, Return, FindByUserID, Create, Invoke
<1>6. ASSUME NEW c \in Call, StoreStatement(c)
      PROVE  \/ UNCHANGED <<sessions, used>>
             \/ RefreshRow(c)
             \/ \E s \in SessionId : InsertRow(c, s)
  BY <1>6 DEF StoreStatement, SelectRow, SelectNone, Update, UpdateReplyLost, Insert,
              InsertReplyLost, StatementFails
<1>7. Tick => UNCHANGED <<sessions, used>>
  BY DEF Tick
<1> QED
  BY <1>1, <1>2, <1>3, <1>4, <1>5, <1>6, <1>7 DEF StoreNext, storeVars
-----------------------------------------------------------------------------
(* What a call relies on survives the steps of the others.                 *)
LEMMA Kept ==
    ASSUME StoreInv, RowStep, NEW d \in Call, op'[d] = op[d],
           now' \in Nat, now <= now',
           op[d].pc # "idle" => now' <= op[d].since + MaxLag
    PROVE  CallInv(d)'
<1>1. /\ now \in Nat /\ MaxLag \in Nat /\ MinAge \in Nat /\ op[d].since \in Nat
      /\ MaxAge[d] \in Nat /\ sessions \subseteq Row
  BY StoreAssumption DEF StoreInv, StoreTypeOK, Op
<1>2. CallInv(d)
  BY DEF StoreInv
<1>3. Recent(d)' /\ Asks(d)'
  BY <1>1, <1>2 DEF CallInv, Recent, Asks
<1>4. ASSUME Holding(d), NEW r \in RowsOf(op[d].sid)'
      PROVE  \E q \in RowsOf(op[d].sid) : Derived(r, q, now)
  <2>1. r \in sessions' /\ r.sid = op[d].sid
    BY <1>4 DEF RowsOf
  <2>2. op[d].sid \in used
    BY <1>2, <1>4 DEF CallInv, Owns
  <2> QED
    BY <2>1, <2>2 DEF RowStep, Derived, RowsOf
<1>5. Owns(d)'
  BY <1>2, <1>4 DEF CallInv, Owns, Holding, RowStep, Derived
<1>6. HeldFresh(d)'
  <2> SUFFICES ASSUME HandedOut(d), NEW r \in RowsOf(op[d].sid)'
               PROVE  Fresh(r, op[d].since)
    BY DEF HeldFresh, HandedOut, Fresh
  <2>1. PICK q \in RowsOf(op[d].sid) : Derived(r, q, now)
    BY <1>4 DEF HandedOut, Holding
  <2>2. Fresh(q, op[d].since) /\ q \in Row /\ r \in Row
    BY <1>2, <1>1 DEF CallInv, HeldFresh, RowsOf, RowStep
  <2>3. op[d].since <= now
    BY <1>2 DEF CallInv, Recent, HandedOut
  <2>4. q.maxAge \in Nat /\ r.expires \in Int /\ q.maxAge >= MinAge
    BY <2>2 DEF Row, Fresh
  <2>5. CASE r = q
    BY <2>2, <2>5
  <2>6. CASE r.verified = q.verified /\ r.maxAge = q.maxAge /\ r.expires = now + q.maxAge
    <3>1. r.expires >= op[d].since - MaxLag + MinAge
      BY <1>1, <2>3, <2>4, <2>6
    <3> QED
      BY <3>1, <2>2, <2>4, <2>6 DEF Fresh
  <2>7. CASE Fresh(r, now)
    <3>1. r.expires >= op[d].since - MaxLag + MinAge
      BY <1>1, <2>3, <2>4, <2>7 DEF Fresh
    <3> QED
      BY <3>1, <2>7 DEF Fresh
  <2> QED
    BY <2>1, <2>5, <2>6, <2>7 DEF Derived
<1>7. HeldYoung(d)'
  <2>1. ASSUME op[d].pc \in {"update", "found"}, NEW r \in RowsOf(op[d].sid)'
        PROVE  \E q \in RowsOf(op[d].sid) : r.created = q.created
    BY <1>4, <2>1 DEF Holding, Derived
  <2> QED
    BY <1>2, <2>1 DEF CallInv, HeldYoung
<1> QED
  BY <1>3, <1>5, <1>6, <1>7 DEF CallInv
-----------------------------------------------------------------------------
(* What the acting call relies on after its own step.                      *)

(* A call that holds no row relies on its instant and user only.           *)
LEMMA HoldsNothing ==
    ASSUME StoreInv, NEW c \in Call, now' = now, op'[c].pc \notin {"update", "found", "created"},
           op'[c].pc # "idle" => op'[c].since = now /\ op'[c].user \in User
    PROVE  CallInv(c)'
<1>1. now \in Nat /\ MaxLag \in Nat
  BY StoreAssumption DEF StoreInv, StoreTypeOK
<1>2. Recent(c)'
  BY <1>1 DEF Recent
<1> QED
  BY <1>2 DEF CallInv, Asks, Owns, Holding, HeldFresh, HandedOut, HeldYoung

LEMMA SelectRowInv ==
    ASSUME StoreInv, NEW c \in Call, SelectRow(c)
    PROVE  CallInv(c)'
<1>0. PICK t \in ClockReads(c) :
          \E r \in MostRecent(Window(op[c].user, t - MaxAge[c])) : Reply(c, "update", r.sid)
  BY DEF SelectRow
<1>1. PICK r \in MostRecent(Window(op[c].user, t - MaxAge[c])) : Reply(c, "update", r.sid)
  BY <1>0
<1>2. /\ op[c].since \in Nat /\ now \in Nat /\ t \in Nat /\ MaxLag \in Nat
      /\ MaxAge[c] \in Nat
  BY StoreAssumption DEF StoreInv, StoreTypeOK, Op, ClockReads
<1>3. Recent(c) /\ Asks(c)
  BY DEF StoreInv, CallInv
<1>4. t >= now - MaxLag
  BY <1>2, <1>3 DEF Recent, SelectRow, ClockReads
<1>5. r \in sessions /\ r.user = op[c].user /\ r.created >= t - MaxAge[c] /\ r.created \in Int
  BY DEF MostRecent, Window, StoreInv, StoreTypeOK, Row
<1>6. op'[c] = [pc |-> "update", user |-> op[c].user, sid |-> r.sid, since |-> now]
  BY <1>1 DEF Reply, StoreInv, StoreTypeOK
<1>7. RowsOf(r.sid) = {r} /\ r.sid \in used
  BY <1>5 DEF RowsOf, StoreInv, UniqueIds
<1>8. now' = now /\ sessions' = sessions /\ used' = used
  BY DEF SelectRow
<1>9. Recent(c)'
  BY <1>2, <1>6, <1>8 DEF Recent
<1>10. Asks(c)' /\ Owns(c)'
  BY <1>3, <1>5, <1>6, <1>7, <1>8 DEF Asks, Owns, RowsOf, SelectRow
<1>11. HeldFresh(c)'
  BY <1>6 DEF HeldFresh, HandedOut
<1>12. now <= r.created + MaxAge[c] + MaxLag
  BY <1>2, <1>4, <1>5
<1>13. HeldYoung(c)'
  BY <1>6, <1>7, <1>8, <1>12 DEF HeldYoung, RowsOf
<1> QED
  BY <1>9, <1>10, <1>11, <1>13 DEF CallInv

LEMMA UpdateInv ==
    ASSUME StoreInv, NEW c \in Call, Update(c)
    PROVE  CallInv(c)'
<1>1. PICK t \in ClockReads(c) :
          sessions' = {IF r.sid = op[c].sid THEN Refreshed(r, c, t) ELSE r : r \in sessions}
  BY DEF Update, RefreshRow
<1>2. /\ op[c].since \in Nat /\ now \in Nat /\ t \in Nat /\ MaxLag \in Nat
      /\ MaxAge[c] \in Nat /\ MinAge \in Nat /\ MaxAge[c] >= MinAge
  BY StoreAssumption DEF StoreInv, StoreTypeOK, Op, ClockReads
<1>3. op[c].pc = "update" /\ now' = now /\ used' = used
  BY DEF Update, RefreshRow
<1>4. Recent(c) /\ Asks(c) /\ Owns(c) /\ HeldYoung(c)
  BY DEF StoreInv, CallInv
<1>5. t >= now - MaxLag /\ now <= op[c].since + MaxLag
  BY <1>2, <1>3, <1>4 DEF Recent, ClockReads
<1>6. op'[c] = [pc |-> "found", user |-> op[c].user, sid |-> op[c].sid, since |-> now]
  BY DEF Update, Reply, StoreInv, StoreTypeOK
<1>7. ASSUME NEW r \in RowsOf(op[c].sid)'
      PROVE  \E q \in RowsOf(op[c].sid) : r = Refreshed(q, c, t)
  <2>1. r \in sessions' /\ r.sid = op[c].sid
    BY <1>6, <1>7 DEF RowsOf
  <2>2. PICK q \in sessions : r = IF q.sid = op[c].sid THEN Refreshed(q, c, t) ELSE q
    BY <1>1, <2>1
  <2>3. q.sid = op[c].sid
    BY <2>1, <2>2
  <2> QED
    BY <2>2, <2>3 DEF RowsOf
<1>8. ASSUME NEW q \in RowsOf(op[c].sid)
      PROVE  /\ q.created \in Int
             /\ Refreshed(q, c, t).user = q.user
             /\ Refreshed(q, c, t).created = q.created
             /\ Refreshed(q, c, t).verified
             /\ Refreshed(q, c, t).maxAge = MaxAge[c]
             /\ Refreshed(q, c, t).expires = t + MaxAge[c]
  BY DEF RowsOf, StoreInv, StoreTypeOK, Row, Refreshed
<1>9. Recent(c)'
  BY <1>2, <1>3, <1>6 DEF Recent
<1>10. Asks(c)' /\ Owns(c)'
  BY <1>3, <1>4, <1>6, <1>7, <1>8 DEF Asks, Owns, Holding
<1>11. HeldFresh(c)'
  <2> SUFFICES ASSUME NEW r \in RowsOf(op[c].sid)'
               PROVE  Fresh(r, now)
    BY <1>6 DEF HeldFresh, Fresh
  <2>1. r.verified /\ r.maxAge = MaxAge[c] /\ r.expires = t + MaxAge[c]
    BY <1>7, <1>8
  <2>2. t + MaxAge[c] >= now - MaxLag + MinAge
    BY <1>2, <1>5
  <2> QED
    BY <1>2, <2>1, <2>2 DEF Fresh
<1>12. HeldYoung(c)'
  <2> SUFFICES ASSUME NEW r \in RowsOf(op[c].sid)'
               PROVE  now <= r.created + MaxAge[c] + 2 * MaxLag
    BY <1>6 DEF HeldYoung
  <2>1. PICK q \in RowsOf(op[c].sid) : r.created = q.created /\ q.created \in Int
    BY <1>7, <1>8
  <2>2. op[c].since <= q.created + MaxAge[c] + MaxLag
    BY <1>3, <1>4 DEF HeldYoung
  <2> QED
    BY <1>2, <1>5, <2>1, <2>2
<1> QED
  BY <1>9, <1>10, <1>11, <1>12 DEF CallInv

LEMMA InsertInv ==
    ASSUME StoreInv, NEW c \in Call, NEW s \in SessionId, Insert(c, s)
    PROVE  CallInv(c)'
<1>1. PICK built \in ClockReads(c), stamped \in ClockReads(c) :
          sessions' = sessions \cup {NewRow(s, op[c].user, c, built, stamped)}
  BY DEF Insert, InsertRow
<1> DEFINE row == NewRow(s, op[c].user, c, built, stamped)
<1>2. /\ op[c].since \in Nat /\ now \in Nat /\ built \in Nat /\ MaxLag \in Nat
      /\ MaxAge[c] \in Nat /\ MinAge \in Nat /\ MaxAge[c] >= MinAge
  BY StoreAssumption DEF StoreInv, StoreTypeOK, Op, ClockReads
<1>3. op[c].pc = "insert" /\ now' = now /\ s \notin used /\ used' = used \cup {s}
  BY DEF Insert, InsertRow
<1>4. Recent(c) /\ Asks(c)
  BY DEF StoreInv, CallInv
<1>5. built >= now - MaxLag
  BY <1>2, <1>3, <1>4 DEF Recent, ClockReads
<1>6. op'[c] = [pc |-> "created", user |-> op[c].user, sid |-> s, since |-> now]
  BY DEF Insert, Reply, StoreInv, StoreTypeOK
<1>7. row.user = op[c].user /\ row.verified /\ row.maxAge = MaxAge[c]
      /\ row.expires = built + MaxAge[c] /\ row.sid = s
  BY DEF NewRow
<1>8. RowsOf(s)' = {row}
  BY <1>1, <1>3, <1>7 DEF RowsOf, StoreInv, UniqueIds
<1>9. Recent(c)'
  BY <1>2, <1>3, <1>6 DEF Recent
<1>10. Fresh(row, now)
  <2>1. built + MaxAge[c] >= now - MaxLag + MinAge
    BY <1>2, <1>5
  <2> HIDE DEF row
  <2> QED
    BY <1>2, <1>7, <2>1 DEF Fresh
<1> HIDE DEF row
<1>11. Asks(c)' /\ Owns(c)'
  BY <1>3, <1>4, <1>6, <1>7, <1>8 DEF Asks, Owns, Holding
<1>12. HeldFresh(c)' /\ HeldYoung(c)'
  BY <1>6, <1>8, <1>10 DEF HeldFresh, HeldYoung, Fresh
<1> QED
  BY <1>9, <1>11, <1>12 DEF CallInv
-----------------------------------------------------------------------------
(* The types of op after a step.                                           *)
LEMMA OpTypes ==
    ASSUME StoreInv, NEW c \in Call, NEW pc \in Pc, NEW u \in User \cup {None},
           NEW s \in SessionId \cup {None}, NEW t \in Nat,
           op' = [op EXCEPT ![c] = [pc |-> pc, user |-> u, sid |-> s, since |-> t]]
    PROVE  /\ op' \in [Call -> Op]
           /\ op'[c] = [pc |-> pc, user |-> u, sid |-> s, since |-> t]
           /\ \A d \in Call \ {c} : op'[d] = op[d]
  BY DEF StoreInv, StoreTypeOK, Op

(* A call's step: it acts on its own op only, and time stands still.       *)
LEMMA CallStep ==
    ASSUME StoreInv, RowStep, NEW c \in Call, now' = now, op' \in [Call -> Op],
           \A d \in Call \ {c} : op'[d] = op[d], CallInv(c)'
    PROVE  StoreInv'
<1>1. now \in Nat
  BY DEF StoreInv, StoreTypeOK
<1>2. ASSUME NEW d \in Call \ {c}
      PROVE  CallInv(d)'
  <2>1. Recent(d)
    BY DEF StoreInv, CallInv
  <2> QED
    BY <1>1, <2>1, Kept DEF Recent
<1>3. StoreTypeOK'
  BY DEF StoreInv, StoreTypeOK, RowStep
<1> QED
  BY <1>2, <1>3 DEF StoreInv, RowStep

LEMMA ReplyInv ==
    ASSUME StoreInv, RowStep, NEW c \in Call, NEW pc \in Pc, NEW s \in SessionId \cup {None},
           now' = now, Reply(c, pc, s), CallInv(c)'
    PROVE  StoreInv'
<1>1. op[c].user \in User \cup {None} /\ now \in Nat
  BY DEF StoreInv, StoreTypeOK, Op
<1> QED
  BY <1>1, OpTypes, CallStep DEF Reply

(* A reply that hands out nothing needs no more than that.                 *)
LEMMA EmptyReplyInv ==
    ASSUME StoreInv, RowStep, NEW c \in Call, op[c].pc # "idle",
           NEW pc \in {"missing", "failed"}, now' = now, Reply(c, pc, None)
    PROVE  StoreInv'
<1>1. op[c].user \in User /\ now \in Nat /\ pc \in Pc
  BY DEF StoreInv, StoreTypeOK, CallInv, Asks, Pc, Result
<1>2. op'[c] = [pc |-> pc, user |-> op[c].user, sid |-> None, since |-> now]
  BY <1>1, OpTypes DEF Reply
<1>3. CallInv(c)'
  BY <1>1, <1>2, HoldsNothing
<1> QED
  BY <1>1, <1>3, ReplyInv

LEMMA InvokeInv ==
    ASSUME StoreInv, NEW c \in Call, NEW u \in User, NEW pc \in {"select", "insert"},
           Invoke(c, u, pc)
    PROVE  StoreInv'
<1>1. now \in Nat /\ pc \in Pc /\ now' = now
  BY DEF StoreInv, StoreTypeOK, Pc, Result, Invoke
<1>2. /\ op' \in [Call -> Op]
      /\ op'[c] = [pc |-> pc, user |-> u, sid |-> None, since |-> now]
      /\ \A d \in Call \ {c} : op'[d] = op[d]
  BY <1>1, OpTypes DEF Invoke
<1>3. CallInv(c)'
  BY <1>1, <1>2, HoldsNothing
<1> QED
  BY <1>1, <1>2, <1>3, NoWriteRows, CallStep DEF Invoke

LEMMA ReturnInv ==
    ASSUME StoreInv, NEW c \in Call, Return(c)
    PROVE  StoreInv'
<1>1. op' = [op EXCEPT ![c] = [pc |-> "idle", user |-> None, sid |-> None, since |-> 0]]
  BY DEF Return, IdleOp
<1>2. /\ op' \in [Call -> Op]
      /\ op'[c].pc = "idle"
      /\ \A d \in Call \ {c} : op'[d] = op[d]
  BY <1>1, OpTypes DEF Pc
<1>3. CallInv(c)'
  BY <1>2, HoldsNothing DEF Return
<1> QED
  BY <1>2, <1>3, NoWriteRows, CallStep DEF Return

LEMMA StatementInv ==
    ASSUME StoreInv, NEW c \in Call, StoreStatement(c)
    PROVE  StoreInv'
<1>1. RowStep
  BY NextRows DEF StoreNext
<1>2. CASE SelectRow(c)
  <2>1. PICK r \in sessions : Reply(c, "update", r.sid)
    BY <1>2 DEF SelectRow, MostRecent, Window
  <2>2. r.sid \in SessionId /\ now' = now
    BY <1>2 DEF StoreInv, StoreTypeOK, Row, SelectRow
  <2> QED
    BY <1>1, <1>2, <2>1, <2>2, SelectRowInv, ReplyInv DEF Pc
<1>3. CASE SelectNone(c)
  BY <1>1, <1>3, EmptyReplyInv DEF SelectNone
<1>4. CASE Update(c)
  <2>1. op[c].sid \in SessionId \cup {None}
    BY DEF StoreInv, StoreTypeOK, Op
  <2> QED
    BY <1>1, <1>4, <2>1, UpdateInv, ReplyInv DEF Update, RefreshRow, Pc, Result
<1>5. CASE UpdateReplyLost(c)
  BY <1>1, <1>5, EmptyReplyInv DEF UpdateReplyLost, RefreshRow
<1>6. ASSUME NEW s \in SessionId, Insert(c, s)
      PROVE  StoreInv'
  BY <1>1, <1>6, InsertInv, ReplyInv DEF Insert, InsertRow, Pc, Result
<1>7. ASSUME NEW s \in SessionId, InsertReplyLost(c, s)
      PROVE  StoreInv'
  BY <1>1, <1>7, EmptyReplyInv DEF InsertReplyLost, InsertRow
<1>8. CASE StatementFails(c)
  BY <1>1, <1>8, EmptyReplyInv DEF StatementFails
<1> QED
  BY <1>2, <1>3, <1>4, <1>5, <1>6, <1>7, <1>8 DEF StoreStatement

(* Steps that leave every call where it is.                                *)
LEMMA EnvironmentInv ==
    ASSUME StoreInv, Tick \/ Ghost \/ UNCHANGED storeVars
    PROVE  StoreInv'
<1>1. RowStep
  BY NextRows DEF StoreNext
<1>2. /\ op' = op
      /\ now' \in 0 .. MaxTime /\ now \in Nat /\ now' \in Nat /\ now <= now'
      /\ \A d \in Call : op[d].pc # "idle" => now' <= op[d].since + MaxLag
  <2>1. now \in 0 .. MaxTime /\ MaxTime \in Nat /\ MaxLag \in Nat
    BY StoreAssumption DEF StoreInv, StoreTypeOK
  <2>2. \A d \in Call : op[d].since \in Nat /\ Recent(d)
    BY DEF StoreInv, StoreTypeOK, Op, CallInv
  <2>3. CASE Tick
    BY <2>1, <2>2, <2>3 DEF Tick
  <2>4. CASE Ghost \/ UNCHANGED storeVars
    <3>1. op' = op /\ now' = now
      BY <2>4 DEF Ghost, GhostTouch, GhostDestroy, GhostLogin, storeVars
    <3> QED
      BY <2>1, <2>2, <3>1 DEF Recent
  <2> QED
    BY <2>3, <2>4
<1>3. \A d \in Call : CallInv(d)'
  BY <1>1, <1>2, Kept
<1>4. StoreTypeOK'
  BY <1>1, <1>2 DEF StoreInv, StoreTypeOK, RowStep
<1> QED
  BY <1>1, <1>3, <1>4 DEF StoreInv, RowStep

LEMMA InitInv == StoreInit => StoreInv
<1> SUFFICES ASSUME StoreInit
             PROVE  StoreInv
  OBVIOUS
<1>1. StoreTypeOK
  BY StoreAssumption DEF StoreInit, StoreTypeOK, Op, IdleOp, Pc
<1>2. UniqueIds
  BY DEF StoreInit, UniqueIds
<1>3. \A c \in Call : CallInv(c)
  BY DEF StoreInit, IdleOp, CallInv, Recent, Asks, Owns, Holding, HeldFresh, HandedOut, HeldYoung
<1> QED
  BY <1>1, <1>2, <1>3 DEF StoreInv

LEMMA NextInv == StoreInv /\ [StoreNext]_storeVars => StoreInv'
<1> SUFFICES ASSUME StoreInv, [StoreNext]_storeVars
             PROVE  StoreInv'
  OBVIOUS
<1>1. CASE Tick \/ Ghost \/ UNCHANGED storeVars
  BY <1>1, EnvironmentInv
<1>2. ASSUME NEW c \in Call, Caller(c)
      PROVE  StoreInv'
  <2>1. CASE Return(c)
    BY <2>1, ReturnInv
  <2>2. ASSUME NEW u \in User, FindByUserID(c, u) \/ Create(c, u)
        PROVE  StoreInv'
    BY <2>2, InvokeInv DEF FindByUserID, Create
  <2> QED
    BY <1>2, <2>1, <2>2 DEF Caller
<1>3. ASSUME NEW c \in Call, StoreStatement(c)
      PROVE  StoreInv'
  BY <1>3, StatementInv
<1> QED
  BY <1>1, <1>2, <1>3 DEF StoreNext
-----------------------------------------------------------------------------
(* The theorems.                                                           *)

(* The inductive invariant holds throughout every run of the store.        *)
THEOREM StoreInvariant == StoreSpec => []StoreInv
  BY InitInv, NextInv, PTL DEF StoreSpec

(* The clock, the rows, the ids and the calls' records keep their types.   *)
THEOREM StoreTypeCorrect == StoreSpec => []StoreTypeOK
<1>1. StoreInv => StoreTypeOK
  BY DEF StoreInv
<1> QED
  BY <1>1, StoreInvariant, PTL

(* No call is ever handed another user's session, however its statements   *)
(* interleave with those of other calls and of Ghost.                      *)
THEOREM SessionOwnership == StoreSpec => []SessionIsCallers
<1>1. StoreInv => SessionIsCallers
  BY DEF StoreInv, CallInv, Owns, Holding, SessionIsCallers, HandedOut
<1> QED
  BY <1>1, StoreInvariant, PTL

(* A session in a call's hands is verified and unexpired for MinAge, up to *)
(* two step latencies.                                                     *)
THEOREM SessionUsability == StoreSpec => []HandedOutUsable
<1>1. StoreInv => HandedOutUsable
  <2> SUFFICES ASSUME StoreInv, NEW c \in Call, HandedOut(c), NEW r \in RowsOf(op[c].sid)
               PROVE  r.verified /\ now + MinAge <= r.expires + 2 * MaxLag
    BY DEF HandedOutUsable
  <2>1. Fresh(r, op[c].since) /\ now <= op[c].since + MaxLag
    BY DEF StoreInv, CallInv, HeldFresh, Recent, HandedOut
  <2>2. /\ now \in Nat /\ op[c].since \in Nat /\ r.expires \in Int /\ MaxLag \in Nat
        /\ MinAge \in Nat
    BY StoreAssumption DEF StoreInv, StoreTypeOK, Op, Row, RowsOf
  <2> QED
    BY <2>1, <2>2 DEF Fresh
<1> QED
  BY <1>1, StoreInvariant, PTL

(* No refresh revives a session past its age window.                       *)
THEOREM SessionReuse == StoreSpec => []ReuseBounded
<1>1. StoreInv => ReuseBounded
  BY DEF StoreInv, CallInv, HeldYoung, ReuseBounded
<1> QED
  BY <1>1, StoreInvariant, PTL

(* A removed session never comes back.                                     *)
THEOREM SessionRemoval == StoreSpec => NoResurrection
<1>1. StoreInv /\ [StoreNext]_storeVars
        => [\A s \in used : RowsOf(s) = {} => RowsOf(s)' = {}]_storeVars
  <2> SUFFICES ASSUME StoreInv, [StoreNext]_storeVars, NEW s \in used, RowsOf(s) = {},
                      NEW r \in sessions', r.sid = s
               PROVE  FALSE
    BY DEF RowsOf
  <2>1. PICK q \in sessions : Derived(r, q, now)
    BY NextRows DEF RowStep
  <2> QED
    BY <2>1 DEF Derived, RowsOf
<1> QED
  BY <1>1, StoreInvariant, PTL DEF StoreSpec, NoResurrection
=============================================================================
