---------------------------- MODULE ServiceProofs ----------------------------
(***************************************************************************)
(* AuthService implements SessionService, for every value of the           *)
(* constants: each step of a call, of Ghost or of the site's owners is a   *)
(* step of the abstract service, or a stutter.  AuthInv is what makes a    *)
(* found session grantable (it is the caller's, and its id was issued),    *)
(* and an INSERT a fresh registration.                                     *)
(***************************************************************************)
EXTENDS AuthServiceProofs

(* What AuthInv says of one call, in the terms of the mapping.             *)
LEMMA CallShape ==
    ASSUME AuthInv, NEW c \in Call
    PROVE  /\ req[c].phase = "store" <=> op[c].pc # "idle"
           /\ req[c].phase \in {"user", "store"} => req[c].user \in User
           /\ req[c].phase = "store" => op[c].user = req[c].user
           /\ req \in [Call -> Req] /\ op \in [Call -> Op]
           /\ sessions \subseteq Row /\ used \subseteq SessionId
  BY DEF AuthInv, AuthTypes, StoreInv, StoreTypeOK, ReqInv, Linked

(* A step that changes how call c looks from outside, and no other.        *)
LEMMA AskBecomes ==
    ASSUME NEW c \in Call, NEW q, AskOf(c)' = q,
           \A d \in Call \ {c} : op'[d] = op[d] /\ req'[d] = req[d]
    PROVE  Asking' = [Asking EXCEPT ![c] = q]
<1>1. ASSUME NEW d \in Call \ {c}
      PROVE  AskOf(d)' = AskOf(d)
  BY <1>1 DEF AskOf, AskState, AskSid, HandedOut
<1> QED
  BY <1>1 DEF Asking

(* A step of call c that is not noticed outside.                           *)
LEMMA AskSame ==
    ASSUME NEW c \in Call, AskOf(c)' = AskOf(c),
           \A d \in Call \ {c} : op'[d] = op[d] /\ req'[d] = req[d]
    PROVE  Asking' = Asking
<1>1. ASSUME NEW d \in Call
      PROVE  AskOf(d)' = AskOf(d)
  BY <1>1 DEF AskOf, AskState, AskSid, HandedOut
<1> QED
  BY <1>1 DEF Asking

(* A step after which call c looks the same but for its state and session. *)
LEMMA Becoming ==
    ASSUME NEW c \in Call, NEW state, NEW s,
           AskOf(c)' = [state |-> state, user |-> AskOf(c).user, sid |-> s],
           \A d \in Call \ {c} : op'[d] = op[d] /\ req'[d] = req[d]
    PROVE  Service!Becomes(c, state, s)
<1>1. Asking' = [Asking EXCEPT ![c] = [state |-> state, user |-> AskOf(c).user, sid |-> s]]
  BY AskBecomes
<1>2. Asking[c] = AskOf(c)
  BY DEF Asking
<1> QED
  BY <1>1, <1>2 DEF Service!Becomes

(* Registered depends on the ids and the users of the rows only.           *)
LEMMA SameRegistered ==
    ASSUME \A r \in sessions' : \E q \in sessions : r.sid = q.sid /\ r.user = q.user,
           \A q \in sessions : \E r \in sessions' : r.sid = q.sid /\ r.user = q.user
    PROVE  Registered' = Registered
  BY DEF Registered

(* A row added under a fresh id is a registration.                         *)
LEMMA Registration ==
    ASSUME NEW s \in SessionId \ used, NEW row, sessions' = sessions \cup {row},
           row.sid = s, used' = used \cup {s}
    PROVE  Service!Register(s, row.user)
  BY DEF Service!Register, Registered
-----------------------------------------------------------------------------
(* The steps of a call.                                                    *)

LEMMA EnsureSessionAsks ==
    ASSUME AuthInv, NEW c \in Call, NEW u \in User, NEW hasCookie \in BOOLEAN,
           EnsureSession(c, u, hasCookie)
    PROVE  Service!Ask(c, u)
<1>1. /\ op[c].pc = "idle" /\ op' = op /\ staff' = staff /\ sessions' = sessions /\ used' = used
      /\ req[c].phase = "idle" /\ req \in [Call -> Req]
  BY CallShape DEF EnsureSession, storeVars
<1>2. \A d \in Call \ {c} : op'[d] = op[d] /\ req'[d] = req[d]
  BY <1>1 DEF EnsureSession
<1>3. Asking[c] = Service!Quiet
  BY <1>1 DEF Asking, AskOf, AskState, AskSid, HandedOut, Service!Quiet
<1>4. /\ req'[c].phase = (IF hasCookie THEN "pass" ELSE "user") /\ req'[c].user = u
  BY <1>1 DEF EnsureSession
<1>5. PICK state \in {"asked", "done"} : AskOf(c)' = [state |-> state, user |-> u, sid |-> None]
  BY <1>1, <1>4 DEF AskOf, AskState, AskSid, HandedOut
<1>6. Asking' = [Asking EXCEPT ![c] = [state |-> state, user |-> u, sid |-> None]]
  BY <1>2, <1>5, AskBecomes
<1> QED
  BY <1>1, <1>3, <1>6 DEF Service!Ask, Registered

LEMMA StaffActiveClears ==
    ASSUME AuthInv, NEW c \in Call, StaffActive(c)
    PROVE  Service!Clear(c)
<1>1. /\ op[c].pc = "idle" /\ req[c].phase = "user" /\ staff[req[c].user] = "active"
      /\ staff' = staff /\ sessions' = sessions /\ used' = used
      /\ req \in [Call -> Req] /\ op \in [Call -> Op]
  BY CallShape DEF StaffActive, FindByUserID, Invoke
<1>2. \A d \in Call \ {c} : op'[d] = op[d] /\ req'[d] = req[d]
  BY <1>1 DEF StaffActive, FindByUserID, Invoke
<1>3. /\ op'[c].pc = "select" /\ req'[c].phase = "store" /\ req'[c].user = req[c].user
  BY <1>1 DEF StaffActive, FindByUserID, Invoke, Req
<1>4. Asking[c].state = "asked" /\ Asking[c].user = req[c].user
  BY <1>1 DEF Asking, AskOf, AskState, AskSid, HandedOut
<1>5. AskOf(c)' = [state |-> "cleared", user |-> AskOf(c).user, sid |-> None]
  BY <1>1, <1>3 DEF AskOf, AskState, AskSid, HandedOut
<1>6. Service!Becomes(c, "cleared", None)
  BY <1>2, <1>5, Becoming
<1> QED
  BY <1>1, <1>4, <1>6 DEF Service!Clear, Registered

LEMMA RefusalRefuses ==
    ASSUME AuthInv, NEW c \in Call, NotStaff(c) \/ UserQueryFails(c)
    PROVE  Service!Refuse(c)
<1>1. /\ op[c].pc = "idle" /\ req[c].phase = "user" /\ op' = op
      /\ staff' = staff /\ sessions' = sessions /\ used' = used /\ req \in [Call -> Req]
  BY CallShape DEF NotStaff, UserQueryFails, storeVars
<1>2. PICK answer \in {"unauthorized", "error"} : Answers(c, answer, None)
  BY DEF NotStaff, UserQueryFails
<1>3. /\ \A d \in Call \ {c} : op'[d] = op[d] /\ req'[d] = req[d]
      /\ req'[c].phase = answer /\ req'[c].user = req[c].user
  BY <1>1, <1>2 DEF Answers, Req
<1>4. Asking[c].state = "asked"
  BY <1>1 DEF Asking, AskOf, AskState, AskSid, HandedOut
<1>5. AskOf(c)' = [state |-> "done", user |-> AskOf(c).user, sid |-> None]
  BY <1>1, <1>3 DEF AskOf, AskState, AskSid, HandedOut
<1>6. Service!Becomes(c, "done", None)
  BY <1>3, <1>5, Becoming
<1> QED
  BY <1>1, <1>4, <1>6 DEF Service!Refuse, Registered

(* A statement's reply, to a call that is cleared.                         *)
LEMMA ReplyBecomes ==
    ASSUME AuthInv, NEW c \in Call, op[c].pc \in {"select", "update", "insert", "missing"},
           NEW pc \in {"found", "created", "failed"}, NEW s, Reply(c, pc, s),
           UNCHANGED req
    PROVE  /\ Asking[c].state = "cleared" /\ Asking[c].user = op[c].user
           /\ IF pc = "failed" THEN Service!Becomes(c, "done", None)
                               ELSE Service!Becomes(c, "granted", s)
<1>1. /\ req[c].phase = "store" /\ op[c].user = req[c].user /\ op \in [Call -> Op]
  BY CallShape
<1>2. /\ \A d \in Call \ {c} : op'[d] = op[d] /\ req'[d] = req[d]
      /\ op'[c].pc = pc /\ op'[c].sid = s
  BY <1>1 DEF Reply
<1>3. Asking[c].state = "cleared" /\ Asking[c].user = op[c].user
  BY <1>1 DEF Asking, AskOf, AskState, AskSid, HandedOut
<1>4. CASE pc = "failed"
  <2>1. AskOf(c)' = [state |-> "done", user |-> AskOf(c).user, sid |-> None]
    BY <1>1, <1>2, <1>4 DEF AskOf, AskState, AskSid, HandedOut
  <2> QED
    BY <1>2, <1>3, <1>4, <2>1, Becoming
<1>5. CASE pc # "failed"
  <2>1. HandedOut(c)' /\ req'[c].phase = "store"
    BY <1>1, <1>2, <1>5 DEF HandedOut
  <2>2. AskState(c)' = "granted" /\ AskSid(c)' = s
    BY <1>2, <2>1 DEF AskState, AskSid
  <2>3. AskOf(c)' = [state |-> "granted", user |-> AskOf(c).user, sid |-> s]
    BY <1>1, <2>2 DEF AskOf
  <2> QED
    BY <1>2, <1>3, <1>5, <2>3, Becoming
<1> QED
  BY <1>4, <1>5

(* The refresh leaves ids and users alone.                                 *)
LEMMA RefreshRegistered ==
    ASSUME AuthInv, NEW c \in Call, RefreshRow(c)
    PROVE  Registered' = Registered
<1>1. PICK t \in ClockReads(c) :
          sessions' = {IF r.sid = op[c].sid THEN Refreshed(r, c, t) ELSE r : r \in sessions}
  BY DEF RefreshRow
<1>2. ASSUME NEW r \in sessions
      PROVE  Refreshed(r, c, t).sid = r.sid /\ Refreshed(r, c, t).user = r.user
  BY CallShape DEF Refreshed, Row
<1> QED
  BY <1>1, <1>2, SameRegistered

LEMMA StatementServes ==
    ASSUME AuthInv, NEW c \in Call, Statement(c)
    PROVE  \/ Service!Refuse(c) \/ UNCHANGED Service!serviceVars
           \/ \E s \in SessionId : Service!Grant(c, s) \/ Service!GrantNew(c, s)
<1>1. /\ staff' = staff /\ req' = req /\ StoreStatement(c)
      /\ op \in [Call -> Op] /\ sessions \subseteq Row /\ used \subseteq SessionId
  BY CallShape DEF Statement
<1>2. CASE SelectRow(c) \/ SelectNone(c)
  <2>1. /\ sessions' = sessions /\ used' = used /\ op[c].pc = "select"
        /\ \E pc \in {"update", "missing"} : \E s : Reply(c, pc, s)
    BY <1>2 DEF SelectRow, SelectNone
  <2>2. /\ op'[c].pc \in {"update", "missing"}
        /\ \A d \in Call \ {c} : op'[d] = op[d] /\ req'[d] = req[d]
    BY <1>1, <2>1 DEF Reply
  <2>3. req[c].phase = "store"
    BY <2>1, CallShape
  <2>4. AskOf(c)' = AskOf(c)
    BY <1>1, <2>1, <2>2, <2>3 DEF AskOf, AskState, AskSid, HandedOut
  <2>5. Asking' = Asking
    BY <2>2, <2>4, AskSame
  <2> QED
    BY <1>1, <2>1, <2>5 DEF Service!serviceVars, Registered
<1>3. CASE Update(c)
  <2> DEFINE s == op[c].sid
  <2>1. /\ RefreshRow(c) /\ Reply(c, "found", s) /\ op[c].pc = "update" /\ used' = used
    BY <1>3 DEF Update, RefreshRow
  <2>2. Registered' = Registered
    BY <2>1, RefreshRegistered
  <2>3. /\ Asking[c].state = "cleared" /\ Asking[c].user = op[c].user
        /\ Service!Becomes(c, "granted", s)
    BY <1>1, <2>1, ReplyBecomes
  <2>4. s \in used /\ \A r \in RowsOf(s) : r.user = op[c].user
    BY <2>1 DEF AuthInv, StoreInv, CallInv, Owns, Holding
  <2>5. \A l \in Registered : l[1] = s => l[2] = Asking[c].user
    BY <2>3, <2>4 DEF Registered, RowsOf
  <2>6. Service!Grant(c, s)
    BY <1>1, <2>1, <2>2, <2>3, <2>4, <2>5 DEF Service!Grant
  <2> QED
    BY <1>1, <2>4, <2>6
<1>4. CASE UpdateReplyLost(c)
  <2>1. RefreshRow(c) /\ Reply(c, "failed", None) /\ op[c].pc = "update" /\ used' = used
    BY <1>4 DEF UpdateReplyLost, RefreshRow
  <2>2. Registered' = Registered
    BY <2>1, RefreshRegistered
  <2>3. Asking[c].state = "cleared" /\ Service!Becomes(c, "done", None)
    BY <1>1, <2>1, ReplyBecomes
  <2> QED
    BY <1>1, <2>1, <2>2, <2>3 DEF Service!Refuse
<1>5. ASSUME NEW s \in SessionId, Insert(c, s) \/ InsertReplyLost(c, s)
      PROVE  Service!GrantNew(c, s)
  <2>1. /\ InsertRow(c, s) /\ op[c].pc = "insert"
        /\ Reply(c, "created", s) \/ Reply(c, "failed", None)
    BY <1>5 DEF Insert, InsertReplyLost, InsertRow
  <2>2. PICK built \in ClockReads(c), stamped \in ClockReads(c) :
           sessions' = sessions \cup {NewRow(s, op[c].user, c, built, stamped)}
    BY <2>1 DEF InsertRow
  <2>3. /\ NewRow(s, op[c].user, c, built, stamped).sid = s
        /\ NewRow(s, op[c].user, c, built, stamped).user = op[c].user
        /\ s \in SessionId \ used /\ used' = used \cup {s}
    BY <2>1 DEF NewRow, InsertRow
  <2>4. Service!Register(s, op[c].user)
    BY <2>2, <2>3, Registration
  <2>5. /\ Asking[c].state = "cleared" /\ Asking[c].user = op[c].user
        /\ Service!Becomes(c, "granted", s) \/ Service!Becomes(c, "done", None)
    BY <1>1, <2>1, ReplyBecomes
  <2> QED
    BY <1>1, <2>4, <2>5 DEF Service!GrantNew
<1>6. CASE StatementFails(c)
  <2>1. /\ Reply(c, "failed", None) /\ op[c].pc \in {"select", "update", "insert"}
        /\ sessions' = sessions /\ used' = used
    BY <1>6 DEF StatementFails
  <2>2. Asking[c].state = "cleared" /\ Service!Becomes(c, "done", None)
    BY <1>1, <2>1, ReplyBecomes
  <2> QED
    BY <1>1, <2>1, <2>2 DEF Service!Refuse, Registered
<1> QED
  BY <1>1, <1>2, <1>3, <1>4, <1>5, <1>6 DEF StoreStatement

LEMMA CreateStutters ==
    ASSUME AuthInv, NEW c \in Call, CreateAfterMiss(c)
    PROVE  UNCHANGED Service!serviceVars
<1>1. /\ op[c].pc = "missing" /\ req[c].phase = "store" /\ op \in [Call -> Op]
      /\ staff' = staff /\ req' = req /\ sessions' = sessions /\ used' = used
  BY CallShape DEF CreateAfterMiss, Create, Invoke
<1>2. /\ op'[c].pc = "insert"
      /\ \A d \in Call \ {c} : op'[d] = op[d] /\ req'[d] = req[d]
  BY <1>1 DEF CreateAfterMiss, Create, Invoke
<1>3. AskOf(c)' = AskOf(c)
  BY <1>1, <1>2 DEF AskOf, AskState, AskSid, HandedOut
<1>4. Asking' = Asking
  BY <1>2, <1>3, AskSame
<1> QED
  BY <1>1, <1>4 DEF Service!serviceVars, Registered

(* EnsureSession's last steps: the outcome is settled already.             *)
LEMMA AnswerStutters ==
    ASSUME AuthInv, NEW c \in Call, ServeSession(c) \/ StoreError(c)
    PROVE  UNCHANGED Service!serviceVars
<1>1. /\ req[c].phase = "store" /\ op \in [Call -> Op] /\ req \in [Call -> Req]
      /\ staff' = staff /\ sessions' = sessions /\ used' = used
  BY CallShape DEF ServeSession, StoreError, Return, Result
<1>2. /\ op'[c].pc = "idle"
      /\ \A d \in Call \ {c} : op'[d] = op[d] /\ req'[d] = req[d]
  BY <1>1 DEF ServeSession, StoreError, Return, Answers, IdleOp
<1>3. CASE ServeSession(c)
  <2>1. /\ op[c].pc \in {"found", "created"}
        /\ req'[c].phase = "cookie" /\ req'[c].user = req[c].user /\ req'[c].sid = op[c].sid
    BY <1>1, <1>3 DEF ServeSession, Answers, Req
  <2>2. HandedOut(c) /\ ~HandedOut(c)'
    BY <1>2, <2>1 DEF HandedOut
  <2>3. /\ AskState(c) = "granted" /\ AskState(c)' = "granted"
        /\ AskSid(c) = op[c].sid /\ AskSid(c)' = op[c].sid
    <3>1. AskState(c) = "granted" /\ AskSid(c) = op[c].sid
      BY <1>1, <2>1, <2>2 DEF AskState, AskSid
    <3>2. AskState(c)' = "granted" /\ AskSid(c)' = op[c].sid
      BY <1>2, <2>1, <2>2 DEF AskState, AskSid
    <3> QED
      BY <3>1, <3>2
  <2>4. AskOf(c)' = AskOf(c)
    BY <1>1, <2>1, <2>3 DEF AskOf
  <2> QED
    BY <1>1, <1>2, <2>4, AskSame DEF Service!serviceVars, Registered
<1>4. CASE StoreError(c)
  <2>1. /\ op[c].pc = "failed"
        /\ req'[c].phase = "error" /\ req'[c].user = req[c].user
    BY <1>1, <1>4 DEF StoreError, Answers, Req
  <2> QED
    BY <1>1, <1>2, <2>1, AskSame DEF AskOf, AskState, AskSid, HandedOut, Service!serviceVars, Registered
<1> QED
  BY <1>3, <1>4

LEMMA FinishLeaves ==
    ASSUME AuthInv, NEW c \in Call, Finish(c)
    PROVE  Service!Leave(c)
<1>1. /\ req[c].phase \in Answer /\ op[c].pc = "idle" /\ op' = op /\ req \in [Call -> Req]
      /\ staff' = staff /\ sessions' = sessions /\ used' = used
  BY CallShape DEF Finish, Answer, storeVars
<1>2. /\ req'[c] = NoReq
      /\ \A d \in Call \ {c} : op'[d] = op[d] /\ req'[d] = req[d]
  BY <1>1 DEF Finish
<1>3. Asking[c].state \in {"granted", "done"}
  BY <1>1 DEF Asking, AskOf, AskState, AskSid, HandedOut, Answer
<1>4. AskOf(c)' = Service!Quiet
  BY <1>1, <1>2 DEF AskOf, AskState, AskSid, HandedOut, NoReq, Service!Quiet
<1>5. Asking' = [Asking EXCEPT ![c] = Service!Quiet]
  BY <1>2, <1>4, AskBecomes
<1> QED
  BY <1>1, <1>3, <1>5 DEF Service!Leave, Registered
-----------------------------------------------------------------------------
(* Ghost, the clock and the owners.                                        *)

LEMMA GhostServes ==
    ASSUME AuthInv, GhostWrites
    PROVE  \/ UNCHANGED Service!serviceVars
           \/ \E u \in User, s \in SessionId : Service!Login(s, u)
           \/ \E l \in Registered : Service!Remove(l)
<1>1. staff' = staff /\ req' = req /\ op' = op
  BY DEF GhostWrites, Ghost, GhostTouch, GhostDestroy, GhostLogin
<1>2. Asking' = Asking
  BY <1>1 DEF Asking, AskOf, AskState, AskSid, HandedOut
<1>3. CASE GhostTouch
  <2>1. PICK r \in sessions :
           sessions' = (sessions \ {r}) \cup {[r EXCEPT !.expires = now + r.maxAge]}
    BY <1>3 DEF GhostTouch
  <2> DEFINE touched == [r EXCEPT !.expires = now + r.maxAge]
  <2>2. touched.sid = r.sid /\ touched.user = r.user
    BY <2>1 DEF AuthInv, StoreInv, StoreTypeOK, Row
  <2> HIDE DEF touched
  <2>3. Registered' = Registered
    BY <2>1, <2>2, SameRegistered DEF touched
  <2> QED
    BY <1>1, <1>2, <1>3, <2>3 DEF GhostTouch, Service!serviceVars
<1>4. CASE GhostDestroy
  <2>1. PICK r \in sessions : sessions' = sessions \ {r}
    BY <1>4 DEF GhostDestroy
  <2> DEFINE l == <<r.sid, r.user>>
  <2>2. \A q \in sessions : q.sid = r.sid => q = r
    BY DEF AuthInv, StoreInv, UniqueIds
  <2>3. l \in Registered /\ Registered' = Registered \ {l}
    BY <2>1, <2>2 DEF Registered
  <2>4. Service!Remove(l)
    BY <1>1, <1>2, <1>4, <2>3 DEF Service!Remove, GhostDestroy
  <2> QED
    BY <2>3, <2>4
<1>5. ASSUME NEW u \in User, GhostLogin(u)
      PROVE  \E s \in SessionId : Service!Login(s, u)
  <2>1. PICK s \in SessionId \ used, v \in BOOLEAN :
           /\ sessions' = sessions \cup
                {[sid |-> s, user |-> u, created |-> now, expires |-> now + GhostMaxAge,
                  maxAge |-> GhostMaxAge, verified |-> v]}
           /\ used' = used \cup {s}
    BY <1>5 DEF GhostLogin
  <2> DEFINE row == [sid |-> s, user |-> u, created |-> now, expires |-> now + GhostMaxAge,
                     maxAge |-> GhostMaxAge, verified |-> v]
  <2>2. row.sid = s /\ row.user = u /\ sessions' = sessions \cup {row} /\ used' = used \cup {s}
    BY <2>1
  <2> HIDE DEF row
  <2>3. Service!Register(s, u)
    BY <2>2, Registration
  <2> QED
    BY <1>1, <1>2, <2>3 DEF Service!Login
<1> QED
  BY <1>3, <1>4, <1>5 DEF GhostWrites, Ghost

LEMMA StepIsServiceStep == AuthInv /\ [AuthNext]_authVars => [Service!ServiceNext]_Service!serviceVars
<1> SUFFICES ASSUME AuthInv, [AuthNext]_authVars
             PROVE  Service!ServiceNext \/ UNCHANGED Service!serviceVars
  OBVIOUS
<1>1. CASE Time \/ UNCHANGED authVars
  <2>1. UNCHANGED <<staff, req, op, sessions, used>>
    BY <1>1 DEF Time, Tick, authVars, storeVars
  <2> QED
    BY <2>1 DEF Service!serviceVars, Asking, AskOf, AskState, AskSid, HandedOut, Registered
<1>2. CASE GhostWrites
  BY <1>2, GhostServes DEF Service!ServiceNext
<1>3. ASSUME NEW u \in User, StaffChange(u)
      PROVE  Service!ChangeStaff(u)
  <2>1. UNCHANGED <<req, op, sessions, used>>
    BY <1>3 DEF StaffChange, storeVars
  <2>2. Asking' = Asking /\ Registered' = Registered
    BY <2>1 DEF Asking, AskOf, AskState, AskSid, HandedOut, Registered
  <2> QED
    BY <1>3, <2>1, <2>2 DEF StaffChange, Service!ChangeStaff, Staff
<1>4. ASSUME NEW c \in Call, StaffActive(c)
      PROVE  Service!Clear(c)
  BY <1>4, StaffActiveClears
<1>5. ASSUME NEW c \in Call, NotStaff(c) \/ UserQueryFails(c)
      PROVE  Service!Refuse(c)
  BY <1>5, RefusalRefuses
<1>6. ASSUME NEW c \in Call, Statement(c)
      PROVE  Service!ServiceNext \/ UNCHANGED Service!serviceVars
  BY <1>6, StatementServes DEF Service!ServiceNext
<1>7. ASSUME NEW c \in Call, CreateAfterMiss(c) \/ ServeSession(c) \/ StoreError(c)
      PROVE  UNCHANGED Service!serviceVars
  BY <1>7, CreateStutters, AnswerStutters
<1>8. ASSUME NEW c \in Call, Finish(c)
      PROVE  Service!Leave(c)
  BY <1>8, FinishLeaves
<1>9. ASSUME NEW c \in Call, NEW u \in User, NEW hasCookie \in BOOLEAN,
             EnsureSession(c, u, hasCookie)
      PROVE  Service!Ask(c, u)
  BY <1>9, EnsureSessionAsks
<1> QED
  BY <1>1, <1>2, <1>3, <1>4, <1>5, <1>6, <1>7, <1>8, <1>9
     DEF AuthNext, Progress, Service!ServiceNext

LEMMA InitIsServiceInit == AuthInit => Service!ServiceInit
<1> SUFFICES ASSUME AuthInit
             PROVE  Service!ServiceInit
  OBVIOUS
<1>1. /\ staff \in [User -> {"absent", "active", "inactive"}] /\ used = {} /\ sessions = {}
      /\ \A c \in Call : req[c] = NoReq /\ op[c] = IdleOp
  BY DEF AuthInit, StoreInit, Staff
<1>2. ASSUME NEW c \in Call
      PROVE  AskOf(c) = Service!Quiet
  BY <1>1 DEF AskOf, AskState, AskSid, HandedOut, NoReq, IdleOp, Service!Quiet
<1> QED
  BY <1>1, <1>2 DEF Service!ServiceInit, Registered, Asking
-----------------------------------------------------------------------------
(* EnsureSession, with its statements, races, stale clocks and lost        *)
(* replies, behaves as the abstract service: every grant is one atomic     *)
(* choice of a session that is the caller's, after a check that said       *)
(* active.                                                                 *)
THEOREM ServiceImplemented == AuthSpec => ImplementsService
<1>1. AuthSpec => Service!ServiceSpec
  BY InitIsServiceInit, StepIsServiceStep, AuthInvariant, PTL DEF AuthSpec, Service!ServiceSpec
<1> QED
  BY <1>1 DEF ImplementsService
=============================================================================
