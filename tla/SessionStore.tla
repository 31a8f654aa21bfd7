---------------------------- MODULE SessionStore ----------------------------
(***************************************************************************)
(* The mariadb session store: FindByUserID and Create, run by concurrent   *)
(* Check calls of any number of replicas against Ghost's `sessions` table, *)
(* which Ghost itself also writes.  One step is one SQL statement; the     *)
(* wall-clock instants a statement carries were read at some moment        *)
(* between the previous reply and the statement reaching the database.     *)
(* The callers are unconstrained here: AuthService is one client.  A       *)
(* statement whose caller has given up on it is a slot still in flight.    *)
(***************************************************************************)
EXTENDS Integers, FiniteSets

CONSTANTS
    Call,         \* goroutine slots: the Check calls that can be in flight
    User,         \* Ghost user ids
    SessionId,    \* session ids generateSessionID can draw
    MaxAge,       \* MaxAge[c]: sessionMaxAge of the replica running call c
    MinAge,       \* a lower bound on every replica's sessionMaxAge
    GhostMaxAge,  \* lifetime Ghost gives the sessions it creates itself
    MaxLag,       \* ticks one step of a call may take (caller's deadline)
    MaxTime,      \* bound on the clock
    None

ASSUME StoreAssumption ==
    /\ MinAge \in Nat \ {0}
    /\ MaxAge \in [Call -> Nat]
    /\ \A c \in Call : MaxAge[c] >= MinAge
    /\ GhostMaxAge \in Nat \ {0}
    /\ MaxLag \in Nat
    /\ MaxTime \in Nat
    /\ None \notin User \cup SessionId

VARIABLES
    now,       \* the clock, in ticks
    sessions,  \* the table: a set of rows
    used,      \* session ids drawn so far; random ids never repeat
    op         \* op[c]: where call c stands in the store

storeVars == <<now, sessions, used, op>>

(* The columns, and fields of session_data, that some reader tells apart.  *)
Row == [sid : SessionId, user : User, created : Int, expires : Int,
        maxAge : Nat, verified : BOOLEAN]

(* select, update, insert: a statement is outstanding.  The other four are *)
(* results: a session found or created, none found, an error.              *)
Result == {"found", "missing", "created", "failed"}
Pc == {"idle", "select", "update", "insert"} \cup Result

Op == [pc : Pc, user : User \cup {None}, sid : SessionId \cup {None}, since : Nat]

IdleOp == [pc |-> "idle", user |-> None, sid |-> None, since |-> 0]

StoreTypeOK ==
    /\ now \in 0 .. MaxTime
    /\ sessions \subseteq Row
    /\ used \subseteq SessionId
    /\ op \in [Call -> Op]

StoreInit ==
    /\ now = 0
    /\ sessions = {}
    /\ used = {}
    /\ op = [c \in Call |-> IdleOp]

-----------------------------------------------------------------------------
(* What the statements compute.                                            *)

(* Mutant: every user's rows.                                              *)
WindowOfAnyUser(u, cutoff) == {r \in sessions : r.created >= cutoff}

(* Mutant: no cutoff.                                                      *)
WindowOfAnyAge(u, cutoff) == {r \in sessions : r.user = u}

(* Mutant: AND created_at > ?                                              *)
WindowStrict(u, cutoff) == {r \in sessions : r.user = u /\ r.created > cutoff}

(* WHERE user_id = ? AND created_at >= ?                                   *)
Window(u, cutoff) == {r \in sessions : r.user = u /\ r.created >= cutoff}

(* ORDER BY created_at DESC LIMIT 1: any of the tied rows.                 *)
MostRecent(rows) == {r \in rows : \A q \in rows : q.created <= r.created}

(* Mutant: only updated_at is bumped.                                      *)
RefreshedStampOnly(r, c, t) == r

(* buildSessionData at instant t, over a row that exists already.          *)
Refreshed(r, c, t) ==
    [r EXCEPT !.expires = t + MaxAge[c], !.maxAge = MaxAge[c], !.verified = TRUE]

(* Mutant: session_data as older versions wrote it, without verified.      *)
NewRowWithoutVerified(s, u, c, built, stamped) ==
    [sid |-> s, user |-> u, created |-> stamped, expires |-> built + MaxAge[c],
     maxAge |-> MaxAge[c]]

(* session_data is built at one instant, created_at stamped at a later one. *)
NewRow(s, u, c, built, stamped) ==
    [sid |-> s, user |-> u, created |-> stamped, expires |-> built + MaxAge[c],
     maxAge |-> MaxAge[c], verified |-> TRUE]

(* The instants call c can have read from the clock since its last reply.  *)
ClockReads(c) == op[c].since .. now

Reply(c, pc, sid) ==
    op' = [op EXCEPT ![c] = [pc |-> pc, user |-> op[c].user, sid |-> sid, since |-> now]]

-----------------------------------------------------------------------------
(* The two operations.                                                     *)

AtRest(c) == op[c].pc \in {"idle"} \cup Result

Invoke(c, u, pc) ==
    /\ AtRest(c)
    /\ op' = [op EXCEPT ![c] = [pc |-> pc, user |-> u, sid |-> None, since |-> now]]
    /\ UNCHANGED <<now, sessions, used>>

FindByUserID(c, u) == Invoke(c, u, "select")

Create(c, u) == Invoke(c, u, "insert")

(* The SELECT returns a row, which is refreshed next.                      *)
SelectRow(c) ==
    /\ op[c].pc = "select"
    /\ \E t \in ClockReads(c) :
          \E r \in MostRecent(Window(op[c].user, t - MaxAge[c])) :
             Reply(c, "update", r.sid)
    /\ UNCHANGED <<now, sessions, used>>

(* sql.ErrNoRows: (nil, nil).                                              *)
SelectNone(c) ==
    /\ op[c].pc = "select"
    /\ \E t \in ClockReads(c) : Window(op[c].user, t - MaxAge[c]) = {}
    /\ Reply(c, "missing", None)
    /\ UNCHANGED <<now, sessions, used>>

(* Mutant: INSERT ... ON DUPLICATE KEY UPDATE.                             *)
RefreshRowUpsert(c) ==
    /\ op[c].pc = "update"
    /\ \E t \in ClockReads(c) :
          sessions' = {r \in sessions : r.sid # op[c].sid}
                        \cup {NewRow(op[c].sid, op[c].user, c, t, t)}
    /\ UNCHANGED <<now, used>>

(* UPDATE sessions SET session_data, updated_at WHERE session_id = ?       *)
(* The number of rows it touched is not looked at.                         *)
RefreshRow(c) ==
    /\ op[c].pc = "update"
    /\ \E t \in ClockReads(c) :
          sessions' = {IF r.sid = op[c].sid THEN Refreshed(r, c, t) ELSE r : r \in sessions}
    /\ UNCHANGED <<now, used>>

InsertRow(c, s) ==
    /\ op[c].pc = "insert"
    /\ s \in SessionId \ used
    /\ \E built, stamped \in ClockReads(c) :
          /\ built <= stamped
          /\ sessions' = sessions \cup {NewRow(s, op[c].user, c, built, stamped)}
    /\ used' = used \cup {s}
    /\ UNCHANGED now

Update(c) == RefreshRow(c) /\ Reply(c, "found", op[c].sid)

Insert(c, s) == InsertRow(c, s) /\ Reply(c, "created", s)

(* The write is committed but its reply is lost (connection cut, context   *)
(* cancelled): the caller sees an error.                                   *)
UpdateReplyLost(c) == RefreshRow(c) /\ Reply(c, "failed", None)

InsertReplyLost(c, s) == InsertRow(c, s) /\ Reply(c, "failed", None)

(* Any statement can fail without an effect.                               *)
StatementFails(c) ==
    /\ op[c].pc \in {"select", "update", "insert"}
    /\ Reply(c, "failed", None)
    /\ UNCHANGED <<now, sessions, used>>

(* The caller is done with the result.                                     *)
Return(c) ==
    /\ op[c].pc \in Result
    /\ op' = [op EXCEPT ![c] = IdleOp]
    /\ UNCHANGED <<now, sessions, used>>

-----------------------------------------------------------------------------
(* The environment: the clock, and Ghost's own session middleware.         *)

Tick ==
    /\ now < MaxTime
    /\ \A c \in Call : op[c].pc # "idle" => now < op[c].since + MaxLag
    /\ now' = now + 1
    /\ UNCHANGED <<sessions, used, op>>

(* An interactive login; the row is unverified until Ghost has confirmed   *)
(* the device.                                                             *)
GhostLogin(u) ==
    /\ \E s \in SessionId \ used, v \in BOOLEAN :
          /\ sessions' = sessions \cup
                {[sid |-> s, user |-> u, created |-> now, expires |-> now + GhostMaxAge,
                  maxAge |-> GhostMaxAge, verified |-> v]}
          /\ used' = used \cup {s}
    /\ UNCHANGED <<now, op>>

(* A request served by Ghost pushes the expiry out by originalMaxAge.      *)
GhostTouch ==
    /\ \E r \in sessions :
          sessions' = (sessions \ {r}) \cup {[r EXCEPT !.expires = now + r.maxAge]}
    /\ UNCHANGED <<now, used, op>>

(* Logout, expiry or a reset of the database removes a row.                *)
GhostDestroy ==
    /\ \E r \in sessions : sessions' = sessions \ {r}
    /\ UNCHANGED <<now, used, op>>

Ghost == GhostTouch \/ GhostDestroy \/ \E u \in User : GhostLogin(u)

StoreStatement(c) ==
    \/ SelectRow(c) \/ SelectNone(c) \/ Update(c) \/ UpdateReplyLost(c)
    \/ \E s \in SessionId : Insert(c, s) \/ InsertReplyLost(c, s)
    \/ StatementFails(c)

Caller(c) == Return(c) \/ \E u \in User : FindByUserID(c, u) \/ Create(c, u)

StoreNext == Tick \/ Ghost \/ \E c \in Call : Caller(c) \/ StoreStatement(c)

StoreSpec == StoreInit /\ [][StoreNext]_storeVars

(* The same store while Ghost leaves the table alone.                      *)
ProxyOnlySpec ==
    StoreInit /\ [][Tick \/ \E c \in Call : Caller(c) \/ StoreStatement(c)]_storeVars

-----------------------------------------------------------------------------
(* Properties.                                                             *)

HandedOut(c) == op[c].pc \in {"found", "created"}

RowsOf(s) == {r \in sessions : r.sid = s}

(* A session handed to a call belongs to the user the call asked for,      *)
(* whatever other calls and Ghost did to the table in between              *)
(* (FindByUserID, Create).                                                 *)
SessionIsCallers ==
    \A c \in Call : HandedOut(c) => \A r \in RowsOf(op[c].sid) : r.user = op[c].user

(* While a call holds a session, its row (unless Ghost removed it) is      *)
(* verified and has at least MinAge minus two step latencies left: no      *)
(* refresh that carries an older clock reading, and no touch by Ghost,     *)
(* takes that away (the UPDATE of FindByUserID).                           *)
HandedOutUsable ==
    \A c \in Call : HandedOut(c) =>
        \A r \in RowsOf(op[c].sid) : r.verified /\ now + MinAge <= r.expires + 2 * MaxLag

(* A session is refreshed only while its row is within the replica's age   *)
(* window, give or take the two statements: refreshing does not make a     *)
(* session immortal (the created_at filter of FindByUserID).               *)
ReuseBounded ==
    \A c \in Call : op[c].pc = "found" =>
        \A r \in RowsOf(op[c].sid) : op[c].since <= r.created + MaxAge[c] + 2 * MaxLag

(* A row that Ghost removed never comes back: a refresh that selected it   *)
(* before the removal is an UPDATE, not an upsert.                         *)
NoResurrection ==
    [][\A s \in used : RowsOf(s) = {} => RowsOf(s)' = {}]_storeVars

(* "Sessions older than sessionMaxAgeDays are excluded - their             *)
(* session_data.cookie.expires is already in the past"                     *)
(* (session_store.go:117).                                                 *)
ExcludedIsExpired ==
    \A c \in Call : \A r \in sessions : r.created < now - MaxAge[c] => r.expires <= now
=============================================================================
