-------------------------- MODULE AuthServiceProofs --------------------------
(***************************************************************************)
(* AuthService is a client of SessionStore (so all that SessionStoreProofs *)
(* proves holds of it), and its three safety properties hold for every     *)
(* number of calls, users and sessions.                                    *)
(***************************************************************************)
EXTENDS AuthService, SessionStoreProofs, FiniteSetTheorems

(* How long ago, at most, the user was seen active when a call got where   *)
(* it is.                                                                  *)
Steps(pc) == CASE pc = "select" -> 0
               [] pc \in {"update", "missing"} -> 1
               [] pc \in {"insert", "found"} -> 2
               [] OTHER -> 3

Checked(c) ==
    op[c].pc # "idle" =>
        /\ lastActive[op[c].user] >= 0
        /\ op[c].since <= lastActive[op[c].user] + Steps(op[c].pc) * MaxLag

(* A call that missed: no session that it could have known is reusable.    *)
Missed(c) == op[c].pc \in {"missing", "insert"} => Young(op[c].user) \cap req[c].known = {}

ReqInv(c) == Linked(c) /\ req[c].known \subseteq used /\ Checked(c) /\ Missed(c)

(* lastActive is what its name says.                                       *)
Histories ==
    /\ IsFiniteSet(minted)
    /\ \A u \in User : /\ lastActive[u] <= now
                       /\ staff[u] = "active" => lastActive[u] = now

AuthInv ==
    /\ StoreInv
    /\ AuthTypes
    /\ Histories
    /\ \A c \in Call : ReqInv(c)
    /\ SessionsBounded
-----------------------------------------------------------------------------
(* Every step of AuthService is one of the store, or does not touch it.    *)
LEMMA StepIsStoreStep == AuthInv /\ [AuthNext]_authVars => [StoreNext]_storeVars
<1> SUFFICES ASSUME AuthInv, [AuthNext]_authVars
             PROVE  [StoreNext]_storeVars
  OBVIOUS
<1>1. CASE Time \/ GhostWrites
  BY <1>1 DEF Time, GhostWrites, StoreNext
<1>2. CASE UNCHANGED authVars
  BY <1>2 DEF authVars
<1>3. ASSUME NEW u \in User, StaffChange(u)
      PROVE  UNCHANGED storeVars
  BY <1>3 DEF StaffChange
<1>4. ASSUME NEW c \in Call, NEW u \in User, NEW hasCookie \in BOOLEAN,
             EnsureSession(c, u, hasCookie)
      PROVE  UNCHANGED storeVars
  BY <1>4 DEF EnsureSession
<1>5. ASSUME NEW c \in Call, Finish(c)
      PROVE  UNCHANGED storeVars
  BY <1>5 DEF Finish
<1>6. ASSUME NEW c \in Call, Statement(c)
      PROVE  StoreNext
  BY <1>6 DEF Statement, StoreNext
<1>7. ASSUME NEW c \in Call, ServeSession(c) \/ StoreError(c)
      PROVE  StoreNext
  BY <1>7 DEF ServeSession, StoreError, StoreNext, Caller
<1>8. ASSUME NEW c \in Call, NotStaff(c) \/ UserQueryFails(c)
      PROVE  UNCHANGED storeVars
  BY <1>8 DEF NotStaff, UserQueryFails
<1>9. ASSUME NEW c \in Call, StaffActive(c)
      PROVE  StoreNext
  <2>1. req[c].user \in User
    BY <1>9 DEF AuthInv, ReqInv, Linked, StaffActive
  <2> QED
    BY <1>9, <2>1 DEF StaffActive, StoreNext, Caller
<1>10. ASSUME NEW c \in Call, CreateAfterMiss(c)
       PROVE  StoreNext
  <2>1. req[c].user \in User
    BY <1>10 DEF AuthInv, ReqInv, Linked, CreateAfterMiss
  <2> QED
    BY <1>10, <2>1 DEF CreateAfterMiss, StoreNext, Caller
<1> QED
  BY <1>1, <1>2, <1>3, <1>4, <1>5, <1>6, <1>7, <1>8, <1>9, <1>10 DEF AuthNext, Progress

(* What every such step does to the clock and the table.                   *)
LEMMA StoreStepFacts ==
    ASSUME StoreInv, [StoreNext]_storeVars
    PROVE  /\ StoreInv' /\ RowStep
           /\ now \in Nat /\ now' \in Nat /\ now <= now'
<1>1. StoreInv' /\ RowStep
  BY NextInv, NextRows
<1>2. now \in Nat /\ now' \in Nat
  BY <1>1, StoreAssumption DEF StoreInv, StoreTypeOK
<1>3. now' = now \/ now' = now + 1
  <2>1. CASE Tick
    BY <2>1 DEF Tick
  <2>2. CASE Ghost \/ UNCHANGED storeVars
    BY <2>2 DEF Ghost, GhostTouch, GhostDestroy, GhostLogin, storeVars
  <2>3. ASSUME NEW c \in Call, Caller(c)
        PROVE  now' = now
    BY <2>3 DEF Caller, Return, FindByUserID, Create, Invoke
  <2>4. ASSUME NEW c \in Call, StoreStatement(c)
        PROVE  now' = now
    BY <2>4 DEF StoreStatement, SelectRow, SelectNone, Update, UpdateReplyLost, RefreshRow,
                Insert, InsertReplyLost, InsertRow, StatementFails
  <2> QED
    BY <2>1, <2>2, <2>3, <2>4 DEF StoreNext
<1> QED
  BY <1>1, <1>2, <1>3

(* A reusable session after a step was reusable before it, or is new.      *)
LEMMA YoungStep ==
    ASSUME AuthInv, [StoreNext]_storeVars, NEW u \in User,
           minted' \subseteq minted \cup (used' \ used)
    PROVE  Young(u)' \subseteq Young(u) \cup (minted' \ minted)
<1> SUFFICES ASSUME NEW s \in Young(u)', s \in minted
             PROVE  s \in Young(u)
  BY DEF Young
<1>1. /\ RowStep /\ now \in Nat /\ now' \in Nat /\ now <= now' /\ MinAge \in Nat
      /\ sessions' \subseteq Row
  BY StoreStepFacts, StoreAssumption DEF AuthInv, RowStep
<1>2. PICK r \in sessions' : r.sid = s /\ r.user = u /\ r.created >= now' - MinAge
  BY DEF Young, RowsOf
<1>3. s \in used
  BY DEF AuthInv, AuthTypes
<1>4. PICK q \in sessions : Derived(r, q, now)
  BY <1>1, <1>2, <1>3 DEF RowStep
<1>5. r.created \in Int
  BY <1>1 DEF Row
<1>6. q.created >= now - MinAge
  BY <1>1, <1>2, <1>4, <1>5 DEF Derived
<1> QED
  BY <1>2, <1>4, <1>6 DEF Young, RowsOf, Derived

(* What holds of a call survives the steps it takes no part in.            *)
LEMMA ReqKept ==
    ASSUME AuthInv, [StoreNext]_storeVars, NEW d \in Call, op'[d] = op[d], req'[d] = req[d],
           minted' \subseteq minted \cup (used' \ used),
           \A u \in User : lastActive'[u] \in Int /\ lastActive[u] <= lastActive'[u]
    PROVE  ReqInv(d)'
<1>1. ReqInv(d) /\ Asks(d)
  BY DEF AuthInv, StoreInv, CallInv
<1>2. used \subseteq used'
  BY StoreStepFacts DEF AuthInv, RowStep
<1>3. Linked(d)' /\ req'[d].known \subseteq used'
  BY <1>1, <1>2 DEF ReqInv, Linked
<1>4. Checked(d)'
  <2> SUFFICES ASSUME op[d].pc # "idle"
               PROVE  /\ lastActive'[op[d].user] >= 0
                      /\ op[d].since <= lastActive'[op[d].user] + Steps(op[d].pc) * MaxLag
    BY DEF Checked
  <2>1. op[d].user \in User
    BY <1>1 DEF Asks
  <2> DEFINE old == lastActive[op[d].user]
             new == lastActive'[op[d].user]
             k == Steps(op[d].pc) * MaxLag
  <2>2. old \in Int /\ new \in Int /\ old <= new /\ op[d].since \in Nat
    BY <2>1 DEF AuthInv, AuthTypes, StoreInv, StoreTypeOK, Op
  <2>3. old >= 0 /\ op[d].since <= old + k
    BY <1>1 DEF ReqInv, Checked
  <2>4. Steps(op[d].pc) \in {0, 1, 2, 3}
    BY DEF Steps
  <2>5. k \in Nat
    BY <2>4, StoreAssumption
  <2> HIDE DEF old, new, k
  <2>6. new >= 0 /\ op[d].since <= new + k
    BY <2>2, <2>3, <2>5
  <2> QED
    BY <2>6 DEF new, k
<1>5. Missed(d)'
  <2> SUFFICES ASSUME op[d].pc \in {"missing", "insert"}
               PROVE  Young(op[d].user)' \cap req[d].known = {}
    BY DEF Missed, Young
  <2>1. op[d].user \in User
    BY <1>1 DEF Asks
  <2>2. Young(op[d].user)' \subseteq Young(op[d].user) \cup (minted' \ minted)
    BY <2>1, YoungStep
  <2>3. Young(op[d].user) \cap req[d].known = {} /\ req[d].known \subseteq used
    BY <1>1 DEF ReqInv, Missed
  <2> QED
    BY <2>2, <2>3
<1> QED
  BY <1>3, <1>4, <1>5 DEF ReqInv

LEMMA SetsFinite ==
    ASSUME AuthInv, NEW u \in User
    PROVE  /\ IsFiniteSet(Young(u)) /\ Cardinality(Young(u)) \in Nat
           /\ IsFiniteSet(Inserting(u)) /\ Cardinality(Inserting(u)) \in Nat
           /\ Cardinality(Young(u)) + Cardinality(Inserting(u)) <= Cardinality(Call)
<1>1. Young(u) \subseteq minted /\ Inserting(u) \subseteq Call
  BY DEF Young, Inserting
<1>2. IsFiniteSet(Young(u)) /\ IsFiniteSet(Inserting(u))
  BY <1>1, AuthAssumption, FS_Subset DEF AuthInv, Histories
<1> QED
  BY <1>2, FS_CardinalityType DEF AuthInv, SessionsBounded

(* Neither set grows: the bound stands.                                    *)
LEMMA BoundKept ==
    ASSUME AuthInv, NEW u \in User,
           Young(u)' \subseteq Young(u), Inserting(u)' \subseteq Inserting(u)
    PROVE  Cardinality(Young(u)') + Cardinality(Inserting(u)') <= Cardinality(Call)
<1>1. /\ IsFiniteSet(Young(u)') /\ Cardinality(Young(u)') <= Cardinality(Young(u))
      /\ IsFiniteSet(Inserting(u)') /\ Cardinality(Inserting(u)') <= Cardinality(Inserting(u))
  BY SetsFinite, FS_Subset
<1>2. Cardinality(Young(u)') \in Nat /\ Cardinality(Inserting(u)') \in Nat
  BY <1>1, FS_CardinalityType
<1>3. Cardinality(Call) \in Nat
  BY AuthAssumption, FS_CardinalityType
<1> QED
  BY <1>1, <1>2, <1>3, SetsFinite

(* A miss: there is nothing young, and at most every call is inserting.    *)
LEMMA BoundAtMiss ==
    ASSUME NEW u \in User, Young(u)' = {}
    PROVE  Cardinality(Young(u)') + Cardinality(Inserting(u)') <= Cardinality(Call)
<1>1. Inserting(u)' \subseteq Call
  BY DEF Inserting
<1>2. IsFiniteSet(Inserting(u)') /\ Cardinality(Inserting(u)') <= Cardinality(Call)
  BY <1>1, AuthAssumption, FS_Subset
<1>3. Cardinality(Young(u)') = 0
  BY FS_EmptySet
<1>4. Cardinality(Inserting(u)') \in Nat /\ Cardinality(Call) \in Nat
  BY <1>2, AuthAssumption, FS_CardinalityType
<1> QED
  BY <1>2, <1>3, <1>4

(* An insert: the call that was inserting becomes a session.               *)
LEMMA BoundAtInsert ==
    ASSUME AuthInv, NEW u \in User, NEW c \in Inserting(u), NEW s,
           Young(u)' \subseteq Young(u) \cup {s}, Inserting(u)' \subseteq Inserting(u) \ {c}
    PROVE  Cardinality(Young(u)') + Cardinality(Inserting(u)') <= Cardinality(Call)
<1>1. /\ IsFiniteSet(Young(u) \cup {s})
      /\ Cardinality(Young(u) \cup {s}) <= Cardinality(Young(u)) + 1
  <2>1. IsFiniteSet(Young(u)) /\ Cardinality(Young(u)) \in Nat
    BY SetsFinite
  <2>2. /\ IsFiniteSet(Young(u) \cup {s})
        /\ \/ Cardinality(Young(u) \cup {s}) = Cardinality(Young(u))
           \/ Cardinality(Young(u) \cup {s}) = Cardinality(Young(u)) + 1
    BY <2>1, FS_AddElement
  <2> QED
    BY <2>1, <2>2
<1>2. /\ IsFiniteSet(Inserting(u) \ {c})
      /\ Cardinality(Inserting(u) \ {c}) = Cardinality(Inserting(u)) - 1
  BY SetsFinite, FS_RemoveElement
<1>3. /\ IsFiniteSet(Young(u)') /\ Cardinality(Young(u)') <= Cardinality(Young(u) \cup {s})
      /\ IsFiniteSet(Inserting(u)')
      /\ Cardinality(Inserting(u)') <= Cardinality(Inserting(u) \ {c})
  BY <1>1, <1>2, FS_Subset
<1>4. /\ Cardinality(Young(u)') \in Nat /\ Cardinality(Inserting(u)') \in Nat
      /\ Cardinality(Young(u) \cup {s}) \in Nat /\ Cardinality(Inserting(u) \ {c}) \in Nat
      /\ Cardinality(Call) \in Nat
  BY <1>1, <1>2, <1>3, AuthAssumption, FS_CardinalityType
<1> QED
  BY <1>1, <1>2, <1>3, <1>4, SetsFinite
-----------------------------------------------------------------------------
(* The steps of a call.                                                    *)

(* A step of call c, given what c itself may rely on afterwards.           *)
LEMMA CallStepAuth ==
    ASSUME AuthInv, [StoreNext]_storeVars, NEW c \in Call,
           now' = now, UNCHANGED <<staff, lastActive>>, req' \in [Call -> Req],
           \A d \in Call \ {c} : op'[d] = op[d] /\ req'[d] = req[d],
           minted' \subseteq minted \cup (used' \ used), minted' \subseteq used',
           IsFiniteSet(minted'), ReqInv(c)', SessionsBounded'
    PROVE  AuthInv'
<1>1. StoreInv' /\ StoreTypeOK'
  BY StoreStepFacts DEF AuthInv, StoreInv
<1>2. AuthTypes' /\ Histories'
  BY <1>1 DEF AuthInv, AuthTypes, Histories
<1>3. \A u \in User : lastActive'[u] \in Int /\ lastActive[u] <= lastActive'[u]
  BY DEF AuthInv, AuthTypes
<1>4. \A d \in Call \ {c} : ReqInv(d)'
  BY <1>3, ReqKept
<1> QED
  BY <1>1, <1>2, <1>4 DEF AuthInv

(* A step that neither draws an id nor puts a call on the way to one.      *)
LEMMA QuietStep ==
    ASSUME AuthInv, [StoreNext]_storeVars, NEW c \in Call,
           UNCHANGED <<staff, lastActive, minted>>, now' = now, req' \in [Call -> Req],
           \A d \in Call \ {c} : op'[d] = op[d] /\ req'[d] = req[d], ReqInv(c)',
           op'[c].pc \in {"missing", "insert"} =>
               op[c].pc \in {"missing", "insert"} /\ op'[c].user = op[c].user
    PROVE  AuthInv'
<1>1. ASSUME NEW u \in User
      PROVE  Young(u)' \subseteq Young(u) /\ Inserting(u)' \subseteq Inserting(u)
  <2>1. Young(u)' \subseteq Young(u) \cup (minted' \ minted)
    BY YoungStep
  <2>2. Inserting(u)' \subseteq Inserting(u)
    BY DEF Inserting
  <2> QED
    BY <2>1, <2>2
<1>2. SessionsBounded'
  BY <1>1, BoundKept DEF SessionsBounded
<1>3. minted' \subseteq used' /\ IsFiniteSet(minted')
  BY StoreStepFacts DEF AuthInv, AuthTypes, Histories, RowStep
<1> QED
  BY <1>2, <1>3, CallStepAuth

(* Steps outside the store.                                                *)
LEMMA OffStoreInv ==
    ASSUME AuthInv, NEW c \in Call, UNCHANGED <<storeVars, staff, lastActive, minted>>,
           op[c].pc = "idle", NEW q \in Req, req' = [req EXCEPT ![c] = q],
           q.phase # "store", q.phase = "user" => q.user \in User, q.known \subseteq used,
           q.phase = "cookie" <=> q.sid # None
    PROVE  AuthInv'
<1>1. /\ op' = op /\ now' = now /\ used' = used /\ [StoreNext]_storeVars
      /\ UNCHANGED <<staff, lastActive, minted>>
  BY DEF storeVars
<1>2. req' \in [Call -> Req] /\ req'[c] = q /\ \A d \in Call \ {c} : req'[d] = req[d]
  BY DEF AuthInv, AuthTypes
<1>3. ReqInv(c)'
  BY <1>1, <1>2 DEF ReqInv, Linked, Checked, Missed
<1>4. \A d \in Call \ {c} : op'[d] = op[d] /\ req'[d] = req[d]
  BY <1>1, <1>2
<1> QED
  BY <1>1, <1>2, <1>3, <1>4, QuietStep

(* The record req[c] becomes when the call is answered.                    *)
LEMMA AnswerTypes ==
    ASSUME AuthInv, NEW c \in Call, NEW answer \in Answer, NEW s \in SessionId \cup {None},
           Answers(c, answer, s)
    PROVE  \E q \in Req : /\ req' = [req EXCEPT ![c] = q]
                          /\ q.phase = answer /\ q.sid = s /\ q.known = {}
<1>1. req \in [Call -> Req]
  BY DEF AuthInv, AuthTypes
<1> DEFINE q == [req[c] EXCEPT !.phase = answer, !.sid = s, !.known = {}]
<1>2. q \in Req /\ q.phase = answer /\ q.sid = s /\ q.known = {}
  BY <1>1 DEF Req
<1>3. req' = [req EXCEPT ![c] = q]
  BY DEF Answers
<1> QED
  BY <1>2, <1>3

LEMMA EnsureSessionInv ==
    ASSUME AuthInv, NEW c \in Call, NEW u \in User, NEW hasCookie \in BOOLEAN,
           EnsureSession(c, u, hasCookie)
    PROVE  AuthInv'
<1> DEFINE q == [phase |-> IF hasCookie THEN "pass" ELSE "user", user |-> u, sid |-> None,
                 known |-> used]
<1>1. q \in Req /\ q.known \subseteq used /\ q.sid = None
  BY DEF Req, Answer, AuthInv, StoreInv, StoreTypeOK
<1>2. op[c].pc = "idle"
  BY DEF EnsureSession, AuthInv, ReqInv, Linked
<1> QED
  BY <1>1, <1>2, OffStoreInv DEF EnsureSession

LEMMA FinishInv ==
    ASSUME AuthInv, NEW c \in Call, Finish(c)
    PROVE  AuthInv'
<1>1. NoReq \in Req /\ NoReq.phase = "idle" /\ NoReq.sid = None /\ NoReq.known = {}
  BY DEF NoReq, Req
<1>2. op[c].pc = "idle"
  BY DEF Finish, Answer, AuthInv, ReqInv, Linked
<1> QED
  BY <1>1, <1>2, OffStoreInv DEF Finish

LEMMA RefusedInv ==
    ASSUME AuthInv, NEW c \in Call, NotStaff(c) \/ UserQueryFails(c)
    PROVE  AuthInv'
<1>1. op[c].pc = "idle"
  BY DEF NotStaff, UserQueryFails, AuthInv, ReqInv, Linked
<1>2. PICK answer \in {"unauthorized", "error"} : Answers(c, answer, None)
  BY DEF NotStaff, UserQueryFails
<1>3. PICK q \in Req : /\ req' = [req EXCEPT ![c] = q]
                       /\ q.phase = answer /\ q.sid = None /\ q.known = {}
  BY <1>2, AnswerTypes DEF Answer
<1>4. UNCHANGED <<storeVars, staff, lastActive, minted>>
  BY DEF NotStaff, UserQueryFails
<1> QED
  BY <1>1, <1>2, <1>3, <1>4, OffStoreInv

(* One store step costs at most one latency.                               *)
LEMMA CheckedStep ==
    ASSUME AuthInv, NEW c \in Call, op[c].pc # "idle", UNCHANGED lastActive,
           op'[c].user = op[c].user, op'[c].since = now,
           Steps(op'[c].pc) >= Steps(op[c].pc) + 1
    PROVE  Checked(c)'
<1>1. /\ Recent(c) /\ Asks(c) /\ Checked(c)
  BY DEF AuthInv, StoreInv, CallInv, ReqInv
<1> DEFINE last == lastActive[op[c].user]
           k == Steps(op[c].pc)
           l == Steps(op'[c].pc)
<1>2. /\ now \in Nat /\ op[c].since \in Nat /\ last \in Int /\ MaxLag \in Nat
  BY <1>1, StoreAssumption DEF AuthInv, AuthTypes, StoreInv, StoreTypeOK, Op, Asks
<1>3. k \in {0, 1, 2, 3} /\ l \in {0, 1, 2, 3} /\ l >= k + 1
  BY DEF Steps
<1>4. last >= 0 /\ op[c].since <= last + k * MaxLag /\ now <= op[c].since + MaxLag
  BY <1>1 DEF Checked, Recent
<1> HIDE DEF last, k, l
<1>5. now <= last + l * MaxLag
  BY <1>2, <1>3, <1>4
<1> QED
  BY <1>4, <1>5 DEF Checked, last, l

LEMMA StaffActiveInv ==
    ASSUME AuthInv, NEW c \in Call, StaffActive(c)
    PROVE  AuthInv'
<1> DEFINE u == req[c].user
<1>1. u \in User /\ staff[u] = "active" /\ req[c].phase = "user" /\ req[c].sid = None
  BY DEF StaffActive, AuthInv, ReqInv, Linked
<1>2. [StoreNext]_storeVars
  BY <1>1 DEF StaffActive, StoreNext, Caller
<1>3. /\ now \in Nat /\ now' = now /\ MaxLag \in Nat /\ sessions' = sessions /\ used' = used
      /\ op \in [Call -> Op] /\ req \in [Call -> Req]
  BY StoreAssumption DEF AuthInv, AuthTypes, StoreInv, StoreTypeOK, StaffActive, FindByUserID, Invoke
<1>4. op' = [op EXCEPT ![c] = [pc |-> "select", user |-> u, sid |-> None, since |-> now]]
  BY DEF StaffActive, FindByUserID, Invoke
<1>5. req' = [req EXCEPT ![c].phase = "store"]
  BY DEF StaffActive
<1>6. /\ op'[c] = [pc |-> "select", user |-> u, sid |-> None, since |-> now]
      /\ req' \in [Call -> Req]
      /\ req'[c].phase = "store" /\ req'[c].user = u /\ req'[c].known = req[c].known
      /\ req'[c].sid = req[c].sid
      /\ \A d \in Call \ {c} : op'[d] = op[d] /\ req'[d] = req[d]
  BY <1>3, <1>4, <1>5 DEF Req
<1>7. lastActive[u] = now
  BY <1>1 DEF AuthInv, Histories
<1>8. Checked(c)'
  <2>1. Steps("select") * MaxLag = 0
    BY <1>3 DEF Steps
  <2>2. now <= now + 0 /\ now >= 0
    BY <1>3
  <2> QED
    BY <1>6, <1>7, <2>1, <2>2 DEF Checked, StaffActive
<1>9. ReqInv(c)'
  BY <1>1, <1>3, <1>6, <1>8 DEF AuthInv, ReqInv, Linked, Missed
<1> QED
  BY <1>2, <1>3, <1>6, <1>9, QuietStep DEF StaffActive

LEMMA CreateAfterMissInv ==
    ASSUME AuthInv, NEW c \in Call, CreateAfterMiss(c)
    PROVE  AuthInv'
<1> DEFINE u == op[c].user
<1>1. u \in User /\ u = req[c].user /\ req[c].phase = "store" /\ op[c].pc = "missing"
  BY DEF CreateAfterMiss, AuthInv, ReqInv, Linked
<1>2. [StoreNext]_storeVars
  BY <1>1 DEF CreateAfterMiss, StoreNext, Caller
<1>3. /\ now' = now /\ sessions' = sessions /\ used' = used /\ op \in [Call -> Op]
  BY DEF AuthInv, StoreInv, StoreTypeOK, CreateAfterMiss, Create, Invoke
<1>4. op' = [op EXCEPT ![c] = [pc |-> "insert", user |-> u, sid |-> None, since |-> now]]
  BY <1>1 DEF CreateAfterMiss, Create, Invoke
<1>5. /\ op'[c] = [pc |-> "insert", user |-> u, sid |-> None, since |-> now]
      /\ \A d \in Call \ {c} : op'[d] = op[d]
      /\ req' = req /\ minted' = minted /\ UNCHANGED <<staff, lastActive>>
  BY <1>3, <1>4 DEF CreateAfterMiss
<1>6. Steps(op'[c].pc) >= Steps(op[c].pc) + 1
  BY <1>1, <1>5 DEF Steps
<1>7. Checked(c)'
  BY <1>1, <1>5, <1>6, CheckedStep
<1>8. Missed(c)'
  BY <1>1, <1>3, <1>5 DEF AuthInv, ReqInv, Missed, Young, RowsOf
<1>9. ReqInv(c)'
  BY <1>1, <1>3, <1>5, <1>7, <1>8 DEF AuthInv, ReqInv, Linked
<1>10. req' \in [Call -> Req]
  BY <1>5 DEF AuthInv, AuthTypes
<1> QED
  BY <1>1, <1>2, <1>3, <1>5, <1>9, <1>10, QuietStep

LEMMA AnsweredInv ==
    ASSUME AuthInv, NEW c \in Call, ServeSession(c) \/ StoreError(c)
    PROVE  AuthInv'
<1>1. Return(c) /\ UNCHANGED <<staff, lastActive, minted>>
  BY DEF ServeSession, StoreError
<1>2. [StoreNext]_storeVars
  BY <1>1 DEF StoreNext, Caller
<1>3. op[c].sid \in SessionId \cup {None} /\ req \in [Call -> Req] /\ op \in [Call -> Op]
  BY DEF AuthInv, AuthTypes, StoreInv, StoreTypeOK, Op
<1>4. PICK answer \in {"cookie", "error"}, s \in SessionId \cup {None} :
         Answers(c, answer, s) /\ (answer = "cookie" <=> s # None)
  <2>1. op[c].pc \in {"found", "created"} => op[c].sid # None
    BY StoreAssumption DEF AuthInv, StoreInv, StoreTypeOK, CallInv, Owns, Holding
  <2>2. CASE ServeSession(c)
    BY <1>3, <2>1, <2>2 DEF ServeSession
  <2>3. CASE StoreError(c)
    BY <2>3 DEF StoreError
  <2> QED
    BY <2>2, <2>3
<1>5. PICK q \in Req : /\ req' = [req EXCEPT ![c] = q]
                       /\ q.phase = answer /\ q.sid = s /\ q.known = {}
  <2>1. answer \in Answer /\ Answers(c, answer, s)
    BY <1>4 DEF Answer
  <2> QED
    BY <2>1, AnswerTypes
<1>6. /\ req' \in [Call -> Req] /\ req'[c] = q
      /\ op'[c].pc = "idle" /\ now' = now
      /\ \A d \in Call \ {c} : op'[d] = op[d] /\ req'[d] = req[d]
  BY <1>1, <1>3, <1>5 DEF Return, IdleOp
<1>7. ReqInv(c)'
  BY <1>4, <1>5, <1>6 DEF ReqInv, Linked, Checked, Missed
<1> QED
  BY <1>1, <1>2, <1>6, <1>7, QuietStep

(* What every statement does to the call's record.                         *)
LEMMA StatementShape ==
    ASSUME AuthInv, NEW c \in Call, Statement(c)
    PROVE  /\ [StoreNext]_storeVars /\ now' = now /\ UNCHANGED <<staff, req, lastActive>>
           /\ \A d \in Call \ {c} : op'[d] = op[d]
           /\ op[c].pc # "idle" /\ op[c].user \in User
           /\ op'[c].user = op[c].user /\ op'[c].since = now /\ op'[c].pc # "idle"
           /\ Steps(op'[c].pc) >= Steps(op[c].pc) + 1
<1>1. [StoreNext]_storeVars /\ op \in [Call -> Op]
  BY DEF Statement, StoreNext, AuthInv, StoreInv, StoreTypeOK
<1>2. UNCHANGED <<staff, req, lastActive>> /\ StoreStatement(c)
  BY DEF Statement
<1>3. ASSUME NEW pc, NEW s, Reply(c, pc, s)
      PROVE  /\ op'[c].user = op[c].user /\ op'[c].since = now /\ op'[c].pc = pc
             /\ \A d \in Call \ {c} : op'[d] = op[d]
  BY <1>1, <1>3 DEF Reply
<1>4. now' = now /\ op[c].pc # "idle"
  BY <1>2 DEF StoreStatement, SelectRow, SelectNone, Update, UpdateReplyLost, RefreshRow,
              Insert, InsertReplyLost, InsertRow, StatementFails
<1>5. op[c].user \in User
  BY <1>4 DEF AuthInv, StoreInv, CallInv, Asks
<1>6. \E pc \in Result \cup {"update"} :
          /\ \E s : Reply(c, pc, s)
          /\ Steps(pc) >= Steps(op[c].pc) + 1
  <2>1. Steps("select") = 0 /\ Steps("update") = 1 /\ Steps("missing") = 1
        /\ Steps("insert") = 2 /\ Steps("found") = 2 /\ Steps("created") = 3
        /\ Steps("failed") = 3
    BY DEF Steps
  <2>2. CASE SelectRow(c)
    BY <2>1, <2>2 DEF SelectRow
  <2>3. CASE SelectNone(c)
    BY <2>1, <2>3 DEF SelectNone, Result
  <2>4. CASE Update(c)
    BY <2>1, <2>4 DEF Update, RefreshRow, Result
  <2>5. CASE UpdateReplyLost(c)
    BY <2>1, <2>5 DEF UpdateReplyLost, RefreshRow, Result
  <2>6. ASSUME NEW s \in SessionId, Insert(c, s) \/ InsertReplyLost(c, s)
        PROVE  \E pc \in {"created", "failed"} : /\ \E z : Reply(c, pc, z)
                                               /\ Steps(pc) >= Steps(op[c].pc) + 1
    BY <2>1, <2>6 DEF Insert, InsertReplyLost, InsertRow
  <2>7. CASE StatementFails(c)
    BY <2>1, <2>7 DEF StatementFails, Result
  <2> QED
    BY <1>2, <2>2, <2>3, <2>4, <2>5, <2>6, <2>7 DEF StoreStatement, Result
<1>7. PICK pc \in Result \cup {"update"} :
          /\ \E s : Reply(c, pc, s)
          /\ Steps(pc) >= Steps(op[c].pc) + 1
  BY <1>6
<1>8. /\ op'[c].user = op[c].user /\ op'[c].since = now /\ op'[c].pc = pc /\ pc # "idle"
      /\ \A d \in Call \ {c} : op'[d] = op[d]
  BY <1>3, <1>7 DEF Result
<1> QED
  BY <1>1, <1>2, <1>4, <1>5, <1>7, <1>8

LEMMA MissInv ==
    ASSUME AuthInv, NEW c \in Call, Statement(c), SelectNone(c)
    PROVE  SessionsBounded' /\ Missed(c)'
<1>0. PICK u \in User : u = op[c].user
  BY StatementShape
<1>1. PICK t \in ClockReads(c) : Window(u, t - MaxAge[c]) = {}
  BY <1>0 DEF SelectNone
<1>2. now' = now /\ sessions' = sessions /\ used' = used /\ minted' = minted
  BY DEF SelectNone, Statement
<1>3. /\ now \in Nat /\ t \in Nat /\ t <= now /\ MaxAge[c] \in Nat /\ MinAge \in Nat
      /\ MaxAge[c] >= MinAge /\ sessions \subseteq Row
  BY StoreAssumption DEF AuthInv, StoreInv, StoreTypeOK, Op, ClockReads
<1>4. Young(u)' = {}
  <2> SUFFICES ASSUME NEW r \in sessions, r.user = u, r.created >= now - MinAge
               PROVE  FALSE
    BY <1>2 DEF Young, RowsOf
  <2>1. r.created \in Int
    BY <1>3 DEF Row
  <2>2. r.created >= t - MaxAge[c]
    BY <1>3, <2>1
  <2> QED
    BY <1>1, <2>2 DEF Window
<1>5. ASSUME NEW v \in User
      PROVE  Cardinality(Young(v)') + Cardinality(Inserting(v)') <= Cardinality(Call)
  <2>1. CASE v = u
    BY <1>4, <2>1, BoundAtMiss
  <2>2. CASE v # u
    <3>1. Young(v)' = Young(v)
      BY <1>2 DEF Young, RowsOf
    <3>2. Inserting(v)' \subseteq Inserting(v)
      BY <1>0, <2>2, StatementShape DEF Inserting
    <3> QED
      BY <3>1, <3>2, BoundKept
  <2> QED
    BY <2>1, <2>2
<1>6. SessionsBounded'
  BY <1>5 DEF SessionsBounded
<1>7. op'[c].user = u
  BY <1>0, StatementShape
<1>8. Young(u)' \cap req'[c].known = {}
  BY <1>4
<1>9. Missed(c)'
  BY <1>7, <1>8 DEF Missed, Young
<1> QED
  BY <1>6, <1>9

LEMMA InsertBound ==
    ASSUME AuthInv, NEW c \in Call, NEW s \in SessionId, Statement(c), InsertRow(c, s),
           op'[c].pc \in {"created", "failed"}
    PROVE  SessionsBounded' /\ minted' = minted \cup {s}
<1> DEFINE u == op[c].user
<1>1. PICK built \in ClockReads(c), stamped \in ClockReads(c) :
          sessions' = sessions \cup {NewRow(s, u, c, built, stamped)}
  BY DEF InsertRow
<1>2. /\ used' = used \cup {s} /\ s \notin used /\ now' = now /\ op[c].pc = "insert"
      /\ minted' = minted \cup {s} /\ minted \subseteq used
  BY DEF InsertRow, Statement, AuthInv, AuthTypes
<1>3. [StoreNext]_storeVars /\ u \in User
  BY StatementShape
<1>4. NewRow(s, u, c, built, stamped).user = u
  BY DEF NewRow
<1>5. ASSUME NEW v \in User
      PROVE  Cardinality(Young(v)') + Cardinality(Inserting(v)') <= Cardinality(Call)
  <2>1. Young(v)' \subseteq Young(v) \cup {s}
    BY <1>2, <1>3, YoungStep
  <2>2. Inserting(v)' \subseteq Inserting(v) \ {c}
    BY StatementShape DEF Inserting
  <2>3. CASE v = u
    <3>1. c \in Inserting(v)
      BY <1>2, <2>3 DEF Inserting
    <3> QED
      BY <2>1, <2>2, <3>1, BoundAtInsert
  <2>4. CASE v # u
    <3>1. s \notin Young(v)'
      BY <1>1, <1>2, <1>4, <2>4 DEF Young, RowsOf, AuthInv, StoreInv, UniqueIds
    <3> QED
      BY <2>1, <2>2, <3>1, BoundKept
  <2> QED
    BY <2>3, <2>4
<1> QED
  BY <1>2, <1>5 DEF SessionsBounded

LEMMA StatementAuthInv ==
    ASSUME AuthInv, NEW c \in Call, Statement(c)
    PROVE  AuthInv'
<1>1. /\ [StoreNext]_storeVars /\ now' = now /\ UNCHANGED <<staff, req, lastActive>>
      /\ \A d \in Call \ {c} : op'[d] = op[d]
      /\ op[c].pc # "idle" /\ op'[c].user = op[c].user /\ op'[c].pc # "idle"
      /\ Checked(c)'
  BY StatementShape, CheckedStep
<1>2. minted' = minted \cup (used' \ used) /\ used \subseteq used' /\ minted \subseteq used
  BY StoreStepFacts, <1>1 DEF Statement, AuthInv, AuthTypes, RowStep
<1>3. Linked(c)' /\ req'[c].known \subseteq used' /\ req' \in [Call -> Req]
  BY <1>1, <1>2 DEF AuthInv, AuthTypes, ReqInv, Linked
<1>4. CASE SelectNone(c)
  <2>1. minted' = minted /\ IsFiniteSet(minted)
    BY <1>2, <1>4 DEF SelectNone, AuthInv, Histories
  <2>2. ReqInv(c)' /\ SessionsBounded'
    BY <1>1, <1>3, <1>4, MissInv DEF ReqInv
  <2> QED
    BY <1>1, <1>2, <1>3, <2>1, <2>2, CallStepAuth
<1>5. ASSUME NEW s \in SessionId, Insert(c, s) \/ InsertReplyLost(c, s)
      PROVE  AuthInv'
  <2>1. InsertRow(c, s) /\ op'[c].pc \in {"created", "failed"}
    BY <1>5 DEF Insert, InsertReplyLost, Reply, AuthInv, StoreInv, StoreTypeOK
  <2>2. SessionsBounded' /\ minted' = minted \cup {s}
    BY <2>1, InsertBound
  <2>3. IsFiniteSet(minted')
    BY <2>2, FS_AddElement DEF AuthInv, Histories
  <2>4. Missed(c)'
    BY <2>1 DEF Missed
  <2> QED
    BY <1>1, <1>2, <1>3, <2>2, <2>3, <2>4, CallStepAuth DEF ReqInv
<1>6. CASE SelectRow(c) \/ Update(c) \/ UpdateReplyLost(c) \/ StatementFails(c)
  <2>1. used' = used /\ op'[c].pc \notin {"missing", "insert"}
    BY <1>6 DEF SelectRow, Update, UpdateReplyLost, RefreshRow, StatementFails, Reply,
                AuthInv, StoreInv, StoreTypeOK
  <2>2. minted' = minted /\ ReqInv(c)'
    BY <1>1, <1>2, <1>3, <2>1 DEF ReqInv, Missed
  <2> QED
    BY <1>1, <1>3, <2>1, <2>2, QuietStep
<1> QED
  BY <1>4, <1>5, <1>6 DEF Statement, StoreStatement
-----------------------------------------------------------------------------
(* Steps in which no call takes part.                                      *)
LEMMA OutsideInv ==
    ASSUME AuthInv, [StoreNext]_storeVars, UNCHANGED <<op, req, minted>>,
           staff' \in [User -> Staff], lastActive' \in [User -> -1 .. MaxTime],
           \A u \in User : /\ lastActive[u] <= lastActive'[u] /\ lastActive'[u] <= now'
                           /\ staff'[u] = "active" => lastActive'[u] = now'
    PROVE  AuthInv'
<1>1. StoreInv' /\ StoreTypeOK' /\ RowStep
  BY StoreStepFacts DEF AuthInv, StoreInv
<1>2. AuthTypes' /\ Histories'
  BY <1>1 DEF AuthInv, AuthTypes, Histories, RowStep
<1>3. \A d \in Call : ReqInv(d)'
  BY ReqKept
<1>4. ASSUME NEW u \in User
      PROVE  Young(u)' \subseteq Young(u) /\ Inserting(u)' \subseteq Inserting(u)
  <2>1. Young(u)' \subseteq Young(u) \cup (minted' \ minted)
    BY YoungStep
  <2> QED
    BY <2>1 DEF Inserting
<1>5. SessionsBounded'
  BY <1>4, BoundKept DEF SessionsBounded
<1> QED
  BY <1>1, <1>2, <1>3, <1>5 DEF AuthInv

LEMMA AuthInitInv == AuthInit => AuthInv
<1> SUFFICES ASSUME AuthInit
             PROVE  AuthInv
  OBVIOUS
<1>1. StoreInv /\ StoreTypeOK
  BY InitInv DEF AuthInit, StoreInv
<1>2. AuthTypes
  BY <1>1, StoreAssumption DEF AuthInit, AuthTypes, StoreInit, NoReq, Req
<1>3. Histories
  BY FS_EmptySet DEF AuthInit, StoreInit, Histories
<1>4. \A c \in Call : ReqInv(c)
  BY DEF AuthInit, StoreInit, IdleOp, NoReq, ReqInv, Linked, Checked, Missed
<1>5. SessionsBounded
  <2>1. \A u \in User : Young(u) = {} /\ Inserting(u) = {}
    BY DEF AuthInit, StoreInit, IdleOp, Young, Inserting
  <2>2. Cardinality({}) = 0 /\ Cardinality(Call) \in Nat
    BY FS_EmptySet, AuthAssumption, FS_CardinalityType
  <2> QED
    BY <2>1, <2>2 DEF SessionsBounded
<1> QED
  BY <1>1, <1>2, <1>3, <1>4, <1>5 DEF AuthInv

LEMMA AuthNextInv == AuthInv /\ [AuthNext]_authVars => AuthInv'
<1> SUFFICES ASSUME AuthInv, [AuthNext]_authVars
             PROVE  AuthInv'
  OBVIOUS
<1>1. /\ [StoreNext]_storeVars /\ staff \in [User -> Staff]
      /\ lastActive \in [User -> -1 .. MaxTime] /\ now \in 0 .. MaxTime /\ MaxTime \in Nat
  BY StepIsStoreStep, StoreAssumption DEF AuthInv, AuthTypes, StoreInv, StoreTypeOK
<1>2. \A u \in User : lastActive[u] <= now /\ (staff[u] = "active" => lastActive[u] = now)
  BY DEF AuthInv, Histories
<1>3. CASE Time
  <2>1. UNCHANGED <<op, req, minted, staff>> /\ now' = now + 1 /\ now < MaxTime
    BY <1>3 DEF Time, Tick
  <2>2. lastActive' = [u \in User |-> IF staff[u] = "active" THEN now' ELSE lastActive[u]]
    BY <1>3 DEF Time
  <2>3. now' \in -1 .. MaxTime
    BY <1>1, <2>1
  <2>4. ASSUME NEW u \in User
        PROVE  /\ lastActive[u] <= lastActive'[u] /\ lastActive'[u] <= now'
               /\ staff'[u] = "active" => lastActive'[u] = now'
    BY <1>1, <1>2, <2>1, <2>2
  <2> QED
    BY <1>1, <2>1, <2>2, <2>3, <2>4, OutsideInv
<1>4. ASSUME NEW u \in User, StaffChange(u)
      PROVE  AuthInv'
  <2>1. UNCHANGED <<op, req, minted, now>>
    BY <1>4 DEF StaffChange, storeVars
  <2>2. PICK status \in Staff :
          /\ staff' = [staff EXCEPT ![u] = status]
          /\ lastActive' = IF status = "active" THEN [lastActive EXCEPT ![u] = now] ELSE lastActive
    BY <1>4 DEF StaffChange
  <2>3. now \in -1 .. MaxTime
    BY <1>1
  <2>4. ASSUME NEW v \in User
        PROVE  /\ lastActive[v] <= lastActive'[v] /\ lastActive'[v] <= now'
               /\ staff'[v] = "active" => lastActive'[v] = now'
    BY <1>1, <1>2, <2>1, <2>2
  <2> QED
    BY <1>1, <2>1, <2>2, <2>3, <2>4, OutsideInv
<1>5. CASE GhostWrites \/ UNCHANGED authVars
  <2>1. UNCHANGED <<op, req, minted, staff, lastActive, now>>
    BY <1>5 DEF GhostWrites, Ghost, GhostTouch, GhostDestroy, GhostLogin, authVars, storeVars
  <2> QED
    BY <1>1, <1>2, <2>1, OutsideInv
<1>6. ASSUME NEW c \in Call, Progress(c) \/ Finish(c)
      PROVE  AuthInv'
  BY <1>6, StaffActiveInv, RefusedInv, StatementAuthInv, CreateAfterMissInv, AnsweredInv, FinishInv
     DEF Progress
<1>7. ASSUME NEW c \in Call, NEW u \in User, NEW hasCookie \in BOOLEAN,
             EnsureSession(c, u, hasCookie)
      PROVE  AuthInv'
  BY <1>7, EnsureSessionInv
<1> QED
  BY <1>3, <1>4, <1>5, <1>6, <1>7 DEF AuthNext
-----------------------------------------------------------------------------
(* The theorems.                                                           *)

(* The inductive invariant of the service.                                 *)
THEOREM AuthInvariant == AuthSpec => []AuthInv
  BY AuthInitInv, AuthNextInv, PTL DEF AuthSpec

(* EnsureSession uses the store as its port allows: every run of the       *)
(* service is a run of SessionStore, whose theorems therefore apply.       *)
THEOREM AuthIsStoreClient == AuthSpec => StoreSpec
<1>1. AuthInit => StoreInit
  BY DEF AuthInit
<1> QED
  BY <1>1, StepIsStoreStep, AuthInvariant, PTL DEF AuthSpec, StoreSpec

(* Requests, staff records and histories keep their types.                 *)
THEOREM AuthTypeCorrect == AuthSpec => []AuthTypeOK
<1>1. AuthInv => AuthTypeOK
  BY DEF AuthInv, AuthTypeOK, ReqInv
<1> QED
  BY <1>1, AuthInvariant, PTL

(* A user never has more reusable proxy sessions, made and in the making,  *)
(* than there are concurrent calls.                                        *)
THEOREM DuplicatesBounded == AuthSpec => []SessionsBounded
<1>1. AuthInv => SessionsBounded
  BY DEF AuthInv
<1> QED
  BY <1>1, AuthInvariant, PTL

(* Requests that follow one another never duplicate a session.             *)
THEOREM RapidRequestsReuse == AuthSpec => []NoRapidDuplicate
<1>1. AuthInv => NoRapidDuplicate
  BY DEF AuthInv, ReqInv, Missed, NoRapidDuplicate
<1> QED
  BY <1>1, AuthInvariant, PTL

(* The status check of a call in whose hands a session is.                 *)
LEMMA HandedOutChecked ==
    ASSUME AuthInv, NEW c \in Call, HandedOut(c)
    PROVE  /\ op[c].user \in User /\ lastActive[op[c].user] >= 0
           /\ now <= lastActive[op[c].user] + 4 * MaxLag
<1>1. Recent(c) /\ Asks(c) /\ Checked(c) /\ op[c].pc # "idle"
  BY DEF AuthInv, StoreInv, CallInv, ReqInv, HandedOut
<1> DEFINE last == lastActive[op[c].user]
           k == Steps(op[c].pc)
<1>2. /\ now \in Nat /\ op[c].since \in Nat /\ last \in Int /\ MaxLag \in Nat
      /\ op[c].user \in User
  BY <1>1, StoreAssumption DEF AuthInv, AuthTypes, StoreInv, StoreTypeOK, Op, Asks
<1>3. k \in {0, 1, 2, 3}
  BY DEF Steps
<1>4. last >= 0 /\ op[c].since <= last + k * MaxLag /\ now <= op[c].since + MaxLag
  BY <1>1 DEF Checked, Recent
<1> HIDE DEF last, k
<1>5. now <= last + 4 * MaxLag
  BY <1>2, <1>3, <1>4
<1> QED
  BY <1>2, <1>4, <1>5 DEF last

(* A suspended user gets no session later than four latencies after.       *)
THEOREM RevocationBounded == AuthSpec => []RevocationIsPrompt
<1>1. AuthInv => RevocationIsPrompt
  BY HandedOutChecked DEF RevocationIsPrompt
<1> QED
  BY <1>1, AuthInvariant, PTL
=============================================================================
