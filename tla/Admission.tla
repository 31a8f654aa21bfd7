------------------------------ MODULE Admission ------------------------------
(***************************************************************************)
(* What the proxy promises the owner of the site, without requests, rows   *)
(* and statements: a browser gets a pass to Ghost's admin only if it was   *)
(* logged in to Authentik as the user, and the user was active staff, a    *)
(* short while ago; the pass runs out; and it can be withdrawn at any      *)
(* moment, but never comes back by itself.  ExtAuth implements this.       *)
(***************************************************************************)
EXTENDS Integers

CONSTANTS
    User, Browser, None,
    Ages,  \* the lifetimes a pass may have
    Lag    \* the time one step of an admission may take

VARIABLES
    now,
    staff,       \* staff[u]: "absent", "active" or "inactive"
    login,       \* login[b]: who b is logged in to Authentik as
    lastActive,  \* the last instant u was active staff, -1 if never
    seen,        \* seen[b][u]: the last instant b was logged in as u
    pass         \* pass[b]: whose session b holds, and until when

admissionVars == <<now, staff, login, lastActive, seen, pass>>

NoPass == [user |-> None, age |-> 0, until |-> 0]

AdmissionInit ==
    /\ now = 0
    /\ staff \in [User -> {"absent", "active", "inactive"}]
    /\ login = [b \in Browser |-> None]
    /\ lastActive = [u \in User |-> IF staff[u] = "active" THEN 0 ELSE -1]
    /\ seen = [b \in Browser |-> [u \in User |-> -1]]
    /\ pass = [b \in Browser |-> NoPass]

(* Histories run along with the clock.                                     *)
Tick ==
    /\ now' = now + 1
    /\ lastActive' = [u \in User |-> IF staff[u] = "active" THEN now' ELSE lastActive[u]]
    /\ seen' = [b \in Browser |->
                  [u \in User |-> IF login[b] = u THEN now' ELSE seen[b][u]]]
    /\ UNCHANGED <<staff, login, pass>>

ChangeStaff(u) ==
    /\ \E status \in {"absent", "active", "inactive"} :
          /\ staff' = [staff EXCEPT ![u] = status]
          /\ lastActive' = IF status = "active" THEN [lastActive EXCEPT ![u] = now] ELSE lastActive
    /\ UNCHANGED <<now, login, seen, pass>>

LogIn(b, u) ==
    /\ login' = [login EXCEPT ![b] = u]
    /\ seen' = [seen EXCEPT ![b][u] = now]
    /\ UNCHANGED <<now, staff, lastActive, pass>>

LogOut(b) ==
    /\ login' = [login EXCEPT ![b] = None]
    /\ UNCHANGED <<now, staff, lastActive, seen, pass>>

(* A call takes at most six steps from the request to the answer, and four *)
(* from the status check.                                                  *)
Admit(b, u) ==
    /\ seen[b][u] # -1 /\ now <= seen[b][u] + 6 * Lag
    /\ lastActive[u] # -1 /\ now <= lastActive[u] + 4 * Lag
    /\ \E age \in Ages :
          pass' = [pass EXCEPT ![b] = [user |-> u, age |-> age, until |-> now + age]]
    /\ UNCHANGED <<now, staff, login, lastActive, seen>>

(* The browsers of a user may share what is withdrawn.                     *)
Withdraw(B) ==
    /\ pass' = [b \in Browser |-> IF b \in B THEN NoPass ELSE pass[b]]
    /\ UNCHANGED <<now, staff, login, lastActive, seen>>

AdmissionNext ==
    \/ Tick
    \/ \E u \in User : ChangeStaff(u)
    \/ \E b \in Browser : LogOut(b) \/ \E u \in User : LogIn(b, u) \/ Admit(b, u)
    \/ \E B \in SUBSET Browser : Withdraw(B)

AdmissionSpec == AdmissionInit /\ [][AdmissionNext]_admissionVars

-----------------------------------------------------------------------------
(* A pass that has not run out belongs to a user the browser was logged in *)
(* as, and who was active staff, no longer ago than its lifetime and the   *)
(* steps of the admission: so long does a logout, a suspension or the      *)
(* removal of a staff user take to have its effect.                        *)
PassesAreBounded ==
    \A b \in Browser : pass[b].user # None /\ now < pass[b].until =>
        LET u == pass[b].user IN
        /\ seen[b][u] # -1 /\ now < seen[b][u] + pass[b].age + 6 * Lag
        /\ lastActive[u] # -1 /\ now < lastActive[u] + pass[b].age + 4 * Lag
=============================================================================
