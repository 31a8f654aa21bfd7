---------------------------- MODULE SessionService ----------------------------
(***************************************************************************)
(* What EnsureSession promises, without tables, statements and clocks: a   *)
(* caller is cleared while the user is active staff, and only then granted *)
(* a session, which is the user's own, in one atomic step: one that is     *)
(* registered, or a fresh one.  A grant may also come to nothing after the *)
(* session has been registered.  AuthService implements this.              *)
(***************************************************************************)
CONSTANTS Call, User, SessionId, None

VARIABLES
    staff,   \* staff[u]: "absent", "active" or "inactive"
    issued,  \* the session ids given out so far
    live,    \* the registered sessions: pairs of an id and its user
    ask      \* ask[c]: the request of caller c

serviceVars == <<staff, issued, live, ask>>

Quiet == [state |-> "idle", user |-> None, sid |-> None]

ServiceInit ==
    /\ staff \in [User -> {"absent", "active", "inactive"}]
    /\ issued = {} /\ live = {}
    /\ ask = [c \in Call |-> Quiet]

Becomes(c, state, sid) ==
    ask' = [ask EXCEPT ![c] = [state |-> state, user |-> @.user, sid |-> sid]]

(* A request that carries a session already is done at once.               *)
Ask(c, u) ==
    /\ ask[c] = Quiet
    /\ \E state \in {"asked", "done"} :
          ask' = [ask EXCEPT ![c] = [state |-> state, user |-> u, sid |-> None]]
    /\ UNCHANGED <<staff, issued, live>>

Clear(c) ==
    /\ ask[c].state = "asked" /\ staff[ask[c].user] = "active"
    /\ Becomes(c, "cleared", None)
    /\ UNCHANGED <<staff, issued, live>>

Refuse(c) ==
    /\ ask[c].state \in {"asked", "cleared"}
    /\ Becomes(c, "done", None)
    /\ UNCHANGED <<staff, issued, live>>

(* A session that has been removed meanwhile may still be granted, but not *)
(* one that is another user's.                                             *)
Grant(c, s) ==
    /\ ask[c].state = "cleared"
    /\ s \in issued
    /\ \A l \in live : l[1] = s => l[2] = ask[c].user
    /\ Becomes(c, "granted", s)
    /\ UNCHANGED <<staff, issued, live>>

Register(s, u) ==
    /\ s \in SessionId \ issued
    /\ issued' = issued \cup {s} /\ live' = live \cup {<<s, u>>}

GrantNew(c, s) ==
    /\ ask[c].state = "cleared"
    /\ Register(s, ask[c].user)
    /\ Becomes(c, "granted", s) \/ Becomes(c, "done", None)
    /\ UNCHANGED staff

Leave(c) ==
    /\ ask[c].state \in {"granted", "done"}
    /\ ask' = [ask EXCEPT ![c] = Quiet]
    /\ UNCHANGED <<staff, issued, live>>

(* Everyone else: Ghost's own logins and logouts, the owners of the site.  *)
Login(s, u) == Register(s, u) /\ UNCHANGED <<staff, ask>>

Remove(l) == l \in live /\ live' = live \ {l} /\ UNCHANGED <<staff, issued, ask>>

ChangeStaff(u) ==
    /\ \E status \in {"absent", "active", "inactive"} :
          staff' = [staff EXCEPT ![u] = status]
    /\ UNCHANGED <<issued, live, ask>>

ServiceNext ==
    \/ \E c \in Call :
          \/ Clear(c) \/ Refuse(c) \/ Leave(c)
          \/ \E u \in User : Ask(c, u)
          \/ \E s \in SessionId : Grant(c, s) \/ GrantNew(c, s)
    \/ \E u \in User : ChangeStaff(u) \/ \E s \in SessionId : Login(s, u)
    \/ \E l \in live : Remove(l)

ServiceSpec == ServiceInit /\ [][ServiceNext]_serviceVars
=============================================================================
