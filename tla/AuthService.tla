----------------------------- MODULE AuthService -----------------------------
(***************************************************************************)
(* AuthService.EnsureSession over the session store: staff check, lookup,  *)
(* and creation on a miss, by concurrent Check calls that share nothing    *)
(* but the database.  Users are identified with their e-mail address.      *)
(***************************************************************************)
EXTENDS SessionStore

ASSUME AuthAssumption == IsFiniteSet(Call)

VARIABLES
    staff,      \* staff[u]: what the `users` table says of u
    req,        \* req[c]: the EnsureSession call in slot c
    lastActive, \* history: the last instant u was active staff, -1 if never
    minted      \* history: the session ids the proxy itself inserted

authVars == <<storeVars, staff, req, lastActive, minted>>

Staff == {"absent", "active", "inactive"}

(* user: FindByEmail is outstanding; store: the session store has the      *)
(* call.  pass is EnsureSession's "", cookie its signed cookie, the other  *)
(* two its errors.                                                         *)
Answer == {"pass", "cookie", "unauthorized", "error"}

Req == [phase : {"idle", "user", "store"} \cup Answer,
        user : User \cup {None}, sid : SessionId \cup {None},
        known : SUBSET SessionId]  \* history: the ids drawn before the call

NoReq == [phase |-> "idle", user |-> None, sid |-> None, known |-> {}]

AuthTypes ==
    /\ StoreTypeOK
    /\ staff \in [User -> Staff]
    /\ req \in [Call -> Req]
    /\ lastActive \in [User -> -1 .. MaxTime]
    /\ minted \subseteq used

(* The call and the store agree on who is asking, and a call has a session  *)
(* exactly when its answer is a cookie.                                    *)
Linked(c) ==
    /\ req[c].phase = "store" <=> op[c].pc # "idle"
    /\ req[c].phase \in {"user", "store"} => req[c].user \in User
    /\ req[c].phase = "store" => op[c].user = req[c].user
    /\ req[c].phase = "cookie" <=> req[c].sid # None

AuthTypeOK == AuthTypes /\ \A c \in Call : Linked(c)

AuthInit ==
    /\ StoreInit
    /\ staff \in [User -> Staff]
    /\ req = [c \in Call |-> NoReq]
    /\ lastActive = [u \in User |-> IF staff[u] = "active" THEN 0 ELSE -1]
    /\ minted = {}

-----------------------------------------------------------------------------
(* EnsureSession.                                                          *)

(* hasGhostSessionCookie looks at the cookie's name only.                  *)
EnsureSession(c, u, hasCookie) ==
    /\ req[c].phase = "idle"
    /\ req' = [req EXCEPT ![c] =
         [phase |-> IF hasCookie THEN "pass" ELSE "user", user |-> u, sid |-> None,
          known |-> used]]
    /\ UNCHANGED <<storeVars, staff, lastActive, minted>>

Answers(c, answer, sid) ==
    req' = [req EXCEPT ![c] = [@ EXCEPT !.phase = answer, !.sid = sid, !.known = {}]]

(* Mutant: no lookup before the insert.                                    *)
CreateAtOnce(c) ==
    /\ req[c].phase = "user"
    /\ staff[req[c].user] = "active"
    /\ Create(c, req[c].user)
    /\ req' = [req EXCEPT ![c].phase = "store"]
    /\ UNCHANGED <<staff, lastActive, minted>>

(* Mutant: any row of `users` will do.                                     *)
StaffOfAnyStatus(c) ==
    /\ req[c].phase = "user"
    /\ staff[req[c].user] # "absent"
    /\ FindByUserID(c, req[c].user)
    /\ req' = [req EXCEPT ![c].phase = "store"]
    /\ UNCHANGED <<staff, lastActive, minted>>

(* FindByEmail returns an active user; the lookup starts.                  *)
StaffActive(c) ==
    /\ req[c].phase = "user"
    /\ staff[req[c].user] = "active"
    /\ FindByUserID(c, req[c].user)
    /\ req' = [req EXCEPT ![c].phase = "store"]
    /\ UNCHANGED <<staff, lastActive, minted>>

(* ErrUserNotFound, or a status other than active.                         *)
NotStaff(c) ==
    /\ req[c].phase = "user"
    /\ staff[req[c].user] # "active"
    /\ Answers(c, "unauthorized", None)
    /\ UNCHANGED <<storeVars, staff, lastActive, minted>>

UserQueryFails(c) ==
    /\ req[c].phase = "user"
    /\ Answers(c, "error", None)
    /\ UNCHANGED <<storeVars, staff, lastActive, minted>>

Statement(c) ==
    /\ StoreStatement(c)
    /\ minted' = minted \cup (used' \ used)
    /\ UNCHANGED <<staff, req, lastActive>>

(* Mutant: a miss is looked up again.                                      *)
LookupAfterMiss(c) ==
    /\ op[c].pc = "missing"
    /\ FindByUserID(c, req[c].user)
    /\ UNCHANGED <<staff, req, lastActive, minted>>

CreateAfterMiss(c) ==
    /\ op[c].pc = "missing"
    /\ Create(c, req[c].user)
    /\ UNCHANGED <<staff, req, lastActive, minted>>

ServeSession(c) ==
    /\ op[c].pc \in {"found", "created"}
    /\ Return(c)
    /\ Answers(c, "cookie", op[c].sid)
    /\ UNCHANGED <<staff, lastActive, minted>>

(* Mutant: the store's error is ignored.                                   *)
StoreErrorIgnored(c) ==
    /\ op[c].pc = "failed"
    /\ Return(c)
    /\ Answers(c, "cookie", op[c].sid)
    /\ UNCHANGED <<staff, lastActive, minted>>

StoreError(c) ==
    /\ op[c].pc = "failed"
    /\ Return(c)
    /\ Answers(c, "error", None)
    /\ UNCHANGED <<staff, lastActive, minted>>

(* The server takes the answer, and the slot is free.                      *)
Finish(c) ==
    /\ req[c].phase \in Answer
    /\ req' = [req EXCEPT ![c] = NoReq]
    /\ UNCHANGED <<storeVars, staff, lastActive, minted>>

-----------------------------------------------------------------------------
(* The environment.                                                        *)

(* An owner invites, suspends or removes a staff user in Ghost.            *)
StaffChange(u) ==
    /\ \E status \in Staff \ {staff[u]} :
          /\ staff' = [staff EXCEPT ![u] = status]
          /\ lastActive' = IF status = "active" THEN [lastActive EXCEPT ![u] = now] ELSE lastActive
    /\ UNCHANGED <<storeVars, req, minted>>

Time ==
    /\ Tick
    /\ lastActive' = [u \in User |-> IF staff[u] = "active" THEN now' ELSE lastActive[u]]
    /\ UNCHANGED <<staff, req, minted>>

GhostWrites == Ghost /\ UNCHANGED <<staff, req, lastActive, minted>>

Progress(c) ==
    \/ StaffActive(c) \/ NotStaff(c) \/ UserQueryFails(c) \/ Statement(c)
    \/ CreateAfterMiss(c) \/ ServeSession(c) \/ StoreError(c)

AuthNext ==
    \/ Time \/ GhostWrites
    \/ \E u \in User : StaffChange(u)
    \/ \E c \in Call :
          \/ Progress(c) \/ Finish(c)
          \/ \E u \in User, hasCookie \in BOOLEAN : EnsureSession(c, u, hasCookie)

AuthSpec == AuthInit /\ [][AuthNext]_authVars

-----------------------------------------------------------------------------
(* Refinement of SessionService.                                           *)

(* How far call c has got, seen from outside.                              *)
AskState(c) ==
    CASE req[c].phase = "idle" -> "idle"
      [] req[c].phase = "user" -> "asked"
      [] req[c].phase = "cookie" \/ HandedOut(c) -> "granted"
      [] op[c].pc \in {"select", "missing", "update", "insert"} -> "cleared"
      [] OTHER -> "done"

AskSid(c) ==
    CASE HandedOut(c) -> op[c].sid
      [] req[c].phase = "cookie" -> req[c].sid
      [] OTHER -> None

AskOf(c) ==
    [state |-> AskState(c),
     user |-> IF req[c].phase = "idle" THEN None ELSE req[c].user,
     sid |-> AskSid(c)]

Asking == [c \in Call |-> AskOf(c)]

Registered == {<<r.sid, r.user>> : r \in sessions}

Service == INSTANCE SessionService WITH issued <- used, live <- Registered, ask <- Asking

-----------------------------------------------------------------------------
(* Properties.                                                             *)

(* EnsureSession with its statements, races and lost replies behaves as    *)
(* SessionService: a grant is one atomic choice of a session that is the   *)
(* caller's, after a status check that said active (EnsureSession).        *)
ImplementsService == Service!ServiceSpec

(* The proxy's sessions of u that every replica's lookup would still find. *)
Young(u) ==
    {s \in minted : \E r \in RowsOf(s) : r.user = u /\ r.created >= now - MinAge}

(* The calls that have missed and have yet to insert.                      *)
Inserting(u) == {c \in Call : op[c].user = u /\ op[c].pc \in {"missing", "insert"}}

(* However the calls interleave, fail, or lose replies, a user has at any  *)
(* time at most as many reusable sessions of the proxy's, made or still in *)
(* the making, as there are concurrent calls (the check-then-act of        *)
(* EnsureSession).                                                         *)
SessionsBounded ==
    \A u \in User : Cardinality(Young(u)) + Cardinality(Inserting(u)) <= Cardinality(Call)

(* A call never inserts a session for a user who still has a reusable one  *)
(* that was there when the call began: duplicates come from overlapping    *)
(* calls only (auth_service.go:61, "rapid requests").                      *)
NoRapidDuplicate ==
    \A c \in Call : op[c].pc = "insert" => Young(op[c].user) \cap req[c].known = {}

(* Whoever is being handed a session was active staff at most four step    *)
(* latencies ago: suspending a user stops new cookies within that delay    *)
(* (the IsActive check of EnsureSession).                                  *)
RevocationIsPrompt ==
    \A c \in Call : HandedOut(c) =>
        LET last == lastActive[op[c].user] IN last # -1 /\ now <= last + 4 * MaxLag

(* Every EnsureSession call returns, whichever of its statements answers,  *)
(* fails or loses its reply.  A database that never answers is cut off by  *)
(* the caller's deadline, which is StatementFails here.                    *)
CallsReturn ==
    \A c \in Call : req[c].phase \in {"user", "store"} ~> req[c].phase \in Answer

(* "Reuse an existing DB session for this user if one already exists -     *)
(* avoids creating duplicate rows on concurrent or rapid requests"         *)
(* (auth_service.go:61).                                                   *)
NoDuplicateSessions == \A u \in User : \A s, q \in Young(u) : s = q
=============================================================================
