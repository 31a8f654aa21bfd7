--------------------------- MODULE AdmissionProofs ---------------------------
(***************************************************************************)
(* The whole system implements Admission, for every value of the           *)
(* constants, and what follows for the site: how long a suspension takes   *)
(* to have its effect.  The refinement rests on three invariants: rows     *)
(* keep their user, and a row once gone stays away (ExtInv); a call that   *)
(* plants a cookie began when its browser was logged in (LogoutInv), and   *)
(* passed the status check, a few latencies ago (ActiveLag).               *)
(***************************************************************************)
EXTENDS CookieProofs, ServiceProofs

ActiveLag(c) ==
    req[c].phase = "cookie" =>
        /\ lastActive[req[c].user] >= 0
        /\ now <= lastActive[req[c].user] + 4 * MaxLag

AdmissionInv == LogoutInv /\ \A c \in Call : ActiveLag(c)

-----------------------------------------------------------------------------
(* The delays since the status check.                                      *)

LEMMA ActiveLater ==
    ASSUME AuthInv, [AuthNext]_authVars, NEW u \in User
    PROVE  lastActive[u] \in Int /\ lastActive'[u] \in Int /\ lastActive[u] <= lastActive'[u]
<1>1. /\ now \in Nat /\ lastActive \in [User -> -1 .. MaxTime] /\ lastActive[u] <= now
      /\ MaxTime \in Nat /\ lastActive[u] \in Int
  BY StoreAssumption DEF AuthInv, AuthTypes, AuthTypes, StoreTypeOK, Histories
<1>2. CASE UNCHANGED lastActive
  BY <1>1, <1>2
<1>3. CASE Time
  <2>1. now' = now + 1 /\ lastActive'[u] \in {now', lastActive[u]}
    BY <1>3 DEF Time, Tick
  <2> QED
    BY <1>1, <2>1
<1>4. ASSUME NEW v \in User, StaffChange(v)
      PROVE  lastActive'[u] \in Int /\ lastActive[u] <= lastActive'[u]
  <2>1. lastActive'[u] \in {now, lastActive[u]}
    BY <1>1, <1>4 DEF StaffChange
  <2> QED
    BY <1>1, <2>1
<1>5. ASSUME NEW c \in Call,
             \/ Progress(c) \/ Finish(c)
             \/ \E v \in User, hasCookie \in BOOLEAN : EnsureSession(c, v, hasCookie)
      PROVE  UNCHANGED lastActive
  BY <1>5 DEF Progress, Finish, EnsureSession, StaffActive, NotStaff, UserQueryFails, Statement,
              CreateAfterMiss, ServeSession, StoreError
<1> QED
  BY <1>1, <1>2, <1>3, <1>4, <1>5 DEF AuthNext, GhostWrites, authVars

LEMMA ActiveLagNext ==
    ASSUME AdmissionInv, [ExtNext]_extVars, NEW c \in Call
    PROVE  ActiveLag(c)'
<1>1. ExtInv /\ AuthInv /\ [AuthNext]_authVars /\ ActiveLag(c) /\ RequestInv(c)
  BY ExtStepIsAuthStep DEF AdmissionInv, LogoutInv, ExtInv
<1>2. now \in Nat /\ MaxLag \in Nat
  BY <1>1, LagTypes
<1> SUFFICES ASSUME req'[c].phase = "cookie"
             PROVE  /\ lastActive'[req'[c].user] >= 0
                    /\ now' <= lastActive'[req'[c].user] + 4 * MaxLag
  BY DEF ActiveLag
<1>3. PICK u \in User : /\ req'[c].user = u /\ lastActive[u] >= 0
                        /\ now <= lastActive[u] + 4 * MaxLag
  <2>1. CASE req'[c] = req[c]
    <3>1. req[c].user \in User
      BY <1>1, <2>1 DEF RequestInv
    <3> QED
      BY <1>1, <2>1, <3>1 DEF ActiveLag
  <2>2. CASE HandedOut(c) /\ req'[c].user = op[c].user
    BY <1>1, <2>2, HandedOutChecked
  <2> QED
    BY <1>1, <2>1, <2>2, AnswerSteps
<1>4. lastActive[u] \in Int /\ lastActive'[u] \in Int /\ lastActive[u] <= lastActive'[u]
  BY <1>1, ActiveLater
<1>5. now' = now
  BY <1>1, AnswerSteps
<1> QED
  BY <1>2, <1>3, <1>4, <1>5

LEMMA AdmissionInitInv == ExtInit => AdmissionInv
<1> SUFFICES ASSUME ExtInit
             PROVE  AdmissionInv
  OBVIOUS
<1>1. req = [c \in Call |-> NoReq]
  BY DEF ExtInit, AuthInit
<1> QED
  BY <1>1, LogoutInitInv DEF AdmissionInv, ActiveLag, NoReq

LEMMA AdmissionNextInv == AdmissionInv /\ [ExtNext]_extVars => AdmissionInv'
  BY LogoutNextInv, ActiveLagNext DEF AdmissionInv

-----------------------------------------------------------------------------
(* Passes.                                                                 *)

PassOf(b) == Worth(RowsOf(jar[b].sid), jar[b])

NoPass == [user |-> None, age |-> 0, until |-> 0]

(* Worth depends on the rows' user only.                                   *)
LEMMA WorthOfUser ==
    ASSUME NEW rows, NEW cookie, NEW u, rows # {}, \A r \in rows : r.user = u
    PROVE  Worth(rows, cookie) = [user |-> u, age |-> cookie.maxAge, until |-> cookie.expires]
<1>1. (CHOOSE r \in rows : TRUE) \in rows
  OBVIOUS
<1> QED
  BY <1>1 DEF Worth

(* A cookie that stays is worth what it was, or nothing any more.          *)
LEMMA PassKept ==
    ASSUME ExtInv, [AuthNext]_authVars, NEW b \in Browser, jar'[b] = jar[b]
    PROVE  PassOf(b)' \in {PassOf(b), NoPass}
<1> DEFINE old == {r \in sessions : r.sid = jar[b].sid}
           rows == {r \in sessions' : r.sid = jar[b].sid}
<1>1. PassOf(b) = Worth(old, jar[b]) /\ PassOf(b)' = Worth(rows, jar[b])
  BY DEF PassOf, RowsOf, Worth
<1>2. CASE rows = {}
  BY <1>1, <1>2 DEF Worth, NoPass
<1>3. CASE rows # {}
  <2>1. PICK r \in rows : TRUE
    BY <1>3
  <2>2. \A p, q \in sessions : p.sid = q.sid => p = q
    BY DEF ExtInv, AuthInv, StoreInv, UniqueIds
  <2>3. jar[b].sid \in used
    BY <2>1, OwnersKept DEF ExtInv, BrowserInv
  <2>4. \A p \in rows : \E q \in old : q.user = p.user
    BY <2>3, OwnersKept DEF ExtInv, RowsOf
  <2>5. PICK q \in old : q.user = r.user
    BY <2>1, <2>4
  <2>6. \A p \in rows : p.user = q.user
    BY <2>2, <2>4
  <2>7. \A p \in old : p.user = q.user
    BY <2>2
  <2> HIDE DEF old, rows
  <2> DEFINE pass == [user |-> q.user, age |-> jar[b].maxAge, until |-> jar[b].expires]
  <2>8. Worth(rows, jar[b]) = pass
    BY <1>3, <2>6, WorthOfUser
  <2>9. Worth(old, jar[b]) = pass
    BY <2>7, WorthOfUser
  <2> QED
    BY <1>1, <2>8, <2>9
<1> QED
  BY <1>2, <1>3

(* A step that gives no browser a cookie withdraws passes at most.         *)
LEMMA NothingPlanted ==
    ASSUME ExtInv, [AuthNext]_authVars, UNCHANGED <<now, staff, login, lastActive, seen>>,
           \A b \in Browser : jar'[b] = jar[b] \/ PassOf(b)' = NoPass
    PROVE  \E B \in SUBSET Browser : Promise!Withdraw(B)
<1> DEFINE B == {b \in Browser : PassOf(b)' = NoPass}
<1>1. \A b \in Browser : b \notin B => PassOf(b)' = PassOf(b)
  BY PassKept
<1>2. Passes' = [b \in Browser |-> IF b \in B THEN Promise!NoPass ELSE Passes[b]]
  BY <1>1 DEF Passes, PassOf, NoPass, Promise!NoPass
<1>3. Promise!Withdraw(B)
  BY <1>2 DEF Promise!Withdraw
<1> QED
  BY <1>3

LEMMA NoCookieNoPass ==
    ASSUME ExtInv, [AuthNext]_authVars, NEW b \in Browser, jar'[b] = NoCookie
    PROVE  PassOf(b)' = NoPass
<1>1. \A r \in sessions' : r.sid # None
  BY OwnersKept DEF ExtInv
<1>2. {r \in sessions' : r.sid = jar'[b].sid} = {}
  BY <1>1 DEF NoCookie
<1> QED
  BY <1>2 DEF PassOf, RowsOf, Worth, NoPass

LEMMA SamePasses ==
    ASSUME UNCHANGED <<sessions, jar>>
    PROVE  Passes' = Passes
  BY DEF Passes, RowsOf

(* The cookie a call plants is a pass for a user confirmed a short while   *)
(* ago, or worth nothing because its row is gone.                          *)
LEMMA PlantingIsAdmission ==
    ASSUME AdmissionInv, [AuthNext]_authVars, NEW c \in Call, PlantCookie(c)
    PROVE  \/ \E b \in Browser, u \in User : Promise!Admit(b, u)
           \/ \E B \in SUBSET Browser : Promise!Withdraw(B)
<1>1. /\ ExtInv /\ RequestInv(c) /\ LagInv(c) /\ ActiveLag(c) /\ req[c].phase = "cookie"
      /\ jar \in [Browser -> Cookie]
  BY DEF AdmissionInv, LogoutInv, ExtInv, ExtTypeOK, PlantCookie
<1>2. PICK b \in Browser, u \in User :
          /\ b = check[c].browser /\ u = req[c].user /\ u = check[c].login /\ seen[b][u] # -1
          /\ \A r \in RowsOf(req[c].sid) : r.user = u
  BY <1>1, StoreAssumption DEF RequestInv, Confirmed
<1> DEFINE new == SetCookie(req[c].sid, c)
           rows == {r \in sessions : r.sid = req[c].sid}
<1>3. /\ now <= seen[b][u] + 6 * MaxLag
      /\ lastActive[u] >= 0 /\ now <= lastActive[u] + 4 * MaxLag
      /\ \A r \in rows : r.user = u
  <2>1. /\ now <= LastSeen(c) + 6 * MaxLag /\ LastSeen(c) <= seen[b][u]
        /\ LastSeen(c) \in Int /\ seen[b][u] \in Int /\ now \in Nat /\ MaxLag \in Nat
    BY <1>1, <1>2, AsksFor, LagTypes DEF LagInv
  <2>2. now <= seen[b][u] + 6 * MaxLag
    BY <2>1
  <2> QED
    BY <1>1, <1>2, <2>2 DEF ActiveLag, RowsOf
<1>4. /\ UNCHANGED <<now, staff, login, lastActive, seen, sessions>>
      /\ jar' = [jar EXCEPT ![b] = new]
  BY <1>2 DEF PlantCookie, Finish, storeVars
<1>5. /\ jar'[b] = new /\ \A a \in Browser \ {b} : jar'[a] = jar[a]
  BY <1>1, <1>2, <1>4
<1>6. new.sid = req[c].sid /\ new.maxAge = MaxAge[c] /\ new.expires = now + MaxAge[c]
  BY DEF SetCookie
<1> HIDE DEF new
<1>7. PassOf(b)' = Worth(rows, new)
  BY <1>4, <1>5, <1>6 DEF PassOf, RowsOf
<1>8. CASE rows = {}
  <2>1. PassOf(b)' = NoPass
    BY <1>7, <1>8 DEF Worth, NoPass
  <2> QED
    BY <1>1, <1>4, <1>5, <2>1, NothingPlanted
<1>9. CASE rows # {}
  <2>1. PassOf(b)' = [user |-> u, age |-> MaxAge[c], until |-> now + MaxAge[c]]
    <3>1. \A r \in rows : r.user = u
      BY <1>3
    <3> HIDE DEF rows
    <3>2. Worth(rows, new) = [user |-> u, age |-> new.maxAge, until |-> new.expires]
      BY <1>9, <3>1, WorthOfUser
    <3> QED
      BY <1>6, <1>7, <3>2
  <2>2. \A a \in Browser \ {b} : PassOf(a)' = PassOf(a)
    BY <1>4, <1>5 DEF PassOf, RowsOf
  <2>3. Passes' = [Passes EXCEPT ![b] =
                     [user |-> u, age |-> MaxAge[c], until |-> now + MaxAge[c]]]
    BY <2>1, <2>2 DEF Passes, PassOf
  <2>4. MaxAge[c] \in Lifetimes
    BY DEF Lifetimes
  <2>5. lastActive[u] # -1
    BY <1>3
  <2>6. Promise!Admit(b, u)
    BY <1>2, <1>3, <1>4, <2>3, <2>4, <2>5 DEF Promise!Admit
  <2> QED
    BY <1>2, <2>6
<1> QED
  BY <1>8, <1>9

-----------------------------------------------------------------------------
(* Every step keeps the promise.                                           *)

(* The steps of a call but the last leave the promise's variables alone,   *)
(* except for the passes of sessions that Ghost has removed.               *)
LEMMA ServingQuiet ==
    ASSUME NEW c \in Call, Serving(c), ~PlantCookie(c), AuthInv
    PROVE  UNCHANGED <<now, staff, login, lastActive, seen, jar>>
<1>1. CASE AuthentikAccepts(c)
  BY <1>1 DEF AuthentikAccepts, EnsureSession, storeVars, browserVars
<1>2. CASE AuthentikRedirects(c) \/ AuthentikFails(c)
  BY <1>2 DEF AuthentikRedirects, AuthentikFails, authVars, storeVars, browserVars
<1>3. CASE PassThrough(c) \/ AnswerLost(c)
  BY <1>3 DEF PassThrough, AnswerLost, Finish, storeVars, browserVars
<1>4. CASE Inside(Progress(c))
  <2>1. UNCHANGED <<login, seen, jar>> /\ Progress(c)
    BY <1>4 DEF Inside, browserVars
  <2>2. CASE Statement(c)
    BY <2>1, <2>2, StatementShape
  <2>3. CASE NotStaff(c) \/ UserQueryFails(c)
    BY <2>1, <2>3 DEF NotStaff, UserQueryFails, storeVars
  <2>4. CASE StaffActive(c) \/ CreateAfterMiss(c) \/ ServeSession(c) \/ StoreError(c)
    BY <2>1, <2>4 DEF StaffActive, FindByUserID, CreateAfterMiss, Create, Invoke, ServeSession,
                      StoreError, Return
  <2> QED
    BY <2>1, <2>2, <2>3, <2>4 DEF Progress
<1> QED
  BY <1>1, <1>2, <1>3, <1>4 DEF Serving

LEMMA TimeIsTick ==
    ASSUME ExtTime
    PROVE  Promise!Tick
<1>1. /\ now' = now + 1 /\ UNCHANGED <<staff, login, sessions, jar>>
      /\ lastActive' = [u \in User |-> IF staff[u] = "active" THEN now' ELSE lastActive[u]]
      /\ seen' = [b \in Browser |->
                    [u \in User |-> IF login[b] = u THEN now' ELSE seen[b][u]]]
  BY DEF ExtTime, ExtHistories, Time, Tick, browserVars
<1> QED
  BY <1>1, SamePasses DEF Promise!Tick

LEMMA StaffChangeIsPromised ==
    ASSUME NEW u \in User, Inside(StaffChange(u))
    PROVE  Promise!ChangeStaff(u)
<1>1. UNCHANGED <<now, login, seen, sessions, jar>> /\ StaffChange(u)
  BY DEF Inside, StaffChange, storeVars, browserVars
<1>2. PICK status \in Staff \ {staff[u]} :
          /\ staff' = [staff EXCEPT ![u] = status]
          /\ lastActive' = IF status = "active" THEN [lastActive EXCEPT ![u] = now] ELSE lastActive
  BY <1>1 DEF StaffChange
<1> QED
  BY <1>1, <1>2, SamePasses DEF Promise!ChangeStaff, Staff

LEMMA LoginIsPromised ==
    ASSUME NEW b \in Browser
    PROVE  /\ \A u \in User : CompleteLogin(b, u) => Promise!LogIn(b, u)
           /\ AuthentikLogout(b) => Promise!LogOut(b)
<1>1. ASSUME NEW u \in User, CompleteLogin(b, u)
      PROVE  Promise!LogIn(b, u)
  BY <1>1, SamePasses DEF CompleteLogin, authVars, storeVars, Promise!LogIn
<1>2. ASSUME AuthentikLogout(b)
      PROVE  Promise!LogOut(b)
  BY <1>2, SamePasses DEF AuthentikLogout, authVars, storeVars, Promise!LogOut
<1> QED
  BY <1>1, <1>2

LEMMA StepIsPromised ==
    AdmissionInv /\ [ExtNext]_extVars => [Promise!AdmissionNext]_Promise!admissionVars
<1> SUFFICES ASSUME AdmissionInv, [ExtNext]_extVars
             PROVE  Promise!AdmissionNext \/ UNCHANGED Promise!admissionVars
  OBVIOUS
<1>1. ExtInv /\ [AuthNext]_authVars /\ AuthInv
  BY ExtStepIsAuthStep DEF AdmissionInv, LogoutInv, ExtInv
<1>2. ASSUME UNCHANGED <<now, staff, login, lastActive, seen>>, UNCHANGED jar
      PROVE  Promise!AdmissionNext
  BY <1>1, <1>2, NothingPlanted DEF Promise!AdmissionNext
<1>3. ASSUME NEW c \in Call, Serving(c)
      PROVE  Promise!AdmissionNext
  <2>1. CASE PlantCookie(c)
    BY <1>1, <2>1, PlantingIsAdmission DEF Promise!AdmissionNext
  <2>2. CASE ~PlantCookie(c)
    BY <1>1, <1>2, <1>3, <2>2, ServingQuiet
  <2> QED
    BY <2>1, <2>2
<1>4. CASE ExtTime
  BY <1>4, TimeIsTick DEF Promise!AdmissionNext
<1>5. ASSUME NEW u \in User, Inside(StaffChange(u))
      PROVE  Promise!AdmissionNext
  BY <1>5, StaffChangeIsPromised DEF Promise!AdmissionNext
<1>6. CASE Inside(GhostWrites)
  <2>1. UNCHANGED <<now, staff, login, lastActive, seen>> /\ UNCHANGED jar
    BY <1>6 DEF Inside, GhostWrites, Ghost, GhostTouch, GhostDestroy, GhostLogin, browserVars
  <2> QED
    BY <1>2, <2>1
<1>7. CASE \/ RotateSecret \/ UNCHANGED extVars
           \/ \E c \in Call : Restart(c) \/ \E b \in Browser : Receive(c, b)
  <2>1. UNCHANGED <<now, staff, login, lastActive, seen>> /\ UNCHANGED jar
    BY <1>7 DEF RotateSecret, Restart, Receive, extVars, authVars, storeVars, browserVars
  <2> QED
    BY <1>2, <2>1
<1>8. ASSUME NEW b \in Browser, AuthentikLogout(b) \/ \E u \in User : CompleteLogin(b, u)
      PROVE  Promise!AdmissionNext
  BY <1>8, LoginIsPromised DEF Promise!AdmissionNext
<1>9. ASSUME NEW b \in Browser, DeleteCookie(b)
      PROVE  Promise!AdmissionNext
  <2>1. UNCHANGED <<now, staff, login, lastActive, seen>>
    BY <1>9 DEF DeleteCookie, authVars, storeVars
  <2>2. \A a \in Browser : jar'[a] = jar[a] \/ jar'[a] = NoCookie
    BY <1>1, <1>9 DEF DeleteCookie, ExtInv, ExtTypeOK
  <2> QED
    BY <1>1, <2>1, <2>2, NoCookieNoPass, NothingPlanted DEF Promise!AdmissionNext
<1> QED
  BY <1>3, <1>4, <1>5, <1>6, <1>7, <1>8, <1>9 DEF ExtNext

LEMMA InitIsPromised == ExtInit => Promise!AdmissionInit
<1> SUFFICES ASSUME ExtInit
             PROVE  Promise!AdmissionInit
  OBVIOUS
<1>1. sessions = {} /\ now = 0
  BY DEF ExtInit, AuthInit, StoreInit
<1>2. Passes = [b \in Browser |-> Promise!NoPass]
  BY <1>1 DEF Passes, Worth, RowsOf, Promise!NoPass
<1> QED
  BY <1>1, <1>2 DEF ExtInit, AuthInit, Staff, Promise!AdmissionInit

(* The proxy implements Admission: whatever the number of browsers, users, *)
(* requests and replicas, however requests interleave and whatever fails,  *)
(* a session gets into a browser only by admission of a user who was       *)
(* logged in from it and active a few latencies before, and is never       *)
(* brought back once it is gone (Check, EnsureSession, FindByUserID).      *)
THEOREM AdmissionImplemented == ExtSpec => ImplementsAdmission
<1>1. ExtSpec => Promise!AdmissionSpec
  BY InitIsPromised, StepIsPromised, AdmissionInitInv, AdmissionNextInv, PTL
     DEF ExtSpec, Promise!AdmissionSpec
<1> QED
  BY <1>1 DEF ImplementsAdmission

-----------------------------------------------------------------------------
(* What the promise amounts to.                                            *)

(* Admission's own invariant: a pass was good for no longer than its age,  *)
(* counted from the last login, and the last activity, plus the delays.    *)
PassInv(b) ==
    LET p == Passes[b] IN
    p.user # None =>
        /\ p.user \in User /\ p.age \in Nat /\ p.until \in Int
        /\ seen[b][p.user] # -1 /\ p.until <= seen[b][p.user] + p.age + 6 * MaxLag
        /\ lastActive[p.user] # -1 /\ p.until <= lastActive[p.user] + p.age + 4 * MaxLag

PromiseInv ==
    /\ now \in Nat
    /\ lastActive \in [User -> Int] /\ \A u \in User : lastActive[u] <= now
    /\ seen \in [Browser -> [User -> Int]] /\ \A b \in Browser, u \in User : seen[b][u] <= now
    /\ \A b \in Browser : PassInv(b)

(* Both histories are what they were, or the present instant.              *)
Recorded ==
    /\ \A u \in User : lastActive'[u] = lastActive[u] \/ lastActive'[u] = now'
    /\ \A b \in Browser, u \in User : seen'[b][u] = seen[b][u] \/ seen'[b][u] = now'

LEMMA PassStays ==
    ASSUME PromiseInv, Recorded, now' \in Nat, now <= now',
           NEW b \in Browser, Passes'[b] = Passes[b]
    PROVE  PassInv(b)'
<1> DEFINE u == Passes[b].user
<1> SUFFICES ASSUME u # None
             PROVE  /\ u \in User /\ Passes[b].age \in Nat /\ Passes[b].until \in Int
                    /\ seen'[b][u] # -1
                    /\ Passes[b].until <= seen'[b][u] + Passes[b].age + 6 * MaxLag
                    /\ lastActive'[u] # -1
                    /\ Passes[b].until <= lastActive'[u] + Passes[b].age + 4 * MaxLag
  BY DEF PassInv
<1>1. /\ u \in User /\ Passes[b].age \in Nat /\ Passes[b].until \in Int
      /\ seen[b][u] # -1 /\ Passes[b].until <= seen[b][u] + Passes[b].age + 6 * MaxLag
      /\ lastActive[u] # -1 /\ Passes[b].until <= lastActive[u] + Passes[b].age + 4 * MaxLag
  BY DEF PromiseInv, PassInv
<1>2. /\ seen[b][u] \in Int /\ seen[b][u] <= now /\ lastActive[u] \in Int /\ lastActive[u] <= now
      /\ now \in Nat /\ MaxLag \in Nat
  BY <1>1, StoreAssumption DEF PromiseInv
<1>3. seen'[b][u] = seen[b][u] \/ seen'[b][u] = now'
  BY <1>1 DEF Recorded
<1>4. lastActive'[u] = lastActive[u] \/ lastActive'[u] = now'
  BY <1>1 DEF Recorded
<1> HIDE DEF u
<1>5. seen'[b][u] # -1 /\ Passes[b].until <= seen'[b][u] + Passes[b].age + 6 * MaxLag
  BY <1>1, <1>2, <1>3
<1>6. lastActive'[u] # -1 /\ Passes[b].until <= lastActive'[u] + Passes[b].age + 4 * MaxLag
  BY <1>1, <1>2, <1>4
<1> QED
  BY <1>1, <1>5, <1>6

LEMMA PromiseStep ==
    ASSUME PromiseInv, [Promise!AdmissionNext]_Promise!admissionVars
    PROVE  PromiseInv'
<1> DEFINE Steady == UNCHANGED <<now, lastActive, seen>>
<1>1. /\ now \in Nat /\ lastActive \in [User -> Int] /\ seen \in [Browser -> [User -> Int]]
      /\ \A u \in User : lastActive[u] <= now
      /\ \A b \in Browser, u \in User : seen[b][u] <= now
  BY DEF PromiseInv
<1>2. ASSUME now' \in Nat, now <= now', Recorded, lastActive' \in [User -> Int],
             seen' \in [Browser -> [User -> Int]],
             \A b \in Browser : Passes'[b] = Passes[b] \/ PassInv(b)'
      PROVE  PromiseInv'
  <2>1. \A b \in Browser : PassInv(b)'
    BY <1>2, PassStays
  <2>2. \A u \in User : lastActive'[u] <= now'
    BY <1>1, <1>2 DEF Recorded
  <2>3. \A b \in Browser, u \in User : seen'[b][u] <= now'
    <3> SUFFICES ASSUME NEW b \in Browser, NEW u \in User
                 PROVE  seen'[b][u] <= now'
      OBVIOUS
    <3>1. seen[b][u] \in Int /\ seen[b][u] <= now
      BY <1>1
    <3>2. seen'[b][u] = seen[b][u] \/ seen'[b][u] = now'
      BY <1>2 DEF Recorded
    <3> QED
      BY <1>1, <1>2, <3>1, <3>2
  <2> QED
    BY <1>2, <2>1, <2>2, <2>3 DEF PromiseInv
<1>3. ASSUME Steady, \A b \in Browser : Passes'[b] = Passes[b] \/ PassInv(b)'
      PROVE  PromiseInv'
  BY <1>1, <1>2, <1>3 DEF Recorded
<1>4. CASE Promise!Tick
  <2>1. /\ now' = now + 1 /\ Passes' = Passes
        /\ lastActive' = [u \in User |-> IF staff[u] = "active" THEN now' ELSE lastActive[u]]
        /\ seen' = [b \in Browser |->
                      [u \in User |-> IF login[b] = u THEN now' ELSE seen[b][u]]]
    BY <1>4 DEF Promise!Tick
  <2>2. Recorded
    BY <2>1 DEF Recorded
  <2>3. \A b \in Browser : [u \in User |-> IF login[b] = u THEN now' ELSE seen[b][u]] \in [User -> Int]
    BY <1>1, <2>1
  <2>4. seen' \in [Browser -> [User -> Int]] /\ lastActive' \in [User -> Int]
    BY <1>1, <2>1, <2>3
  <2>5. now' \in Nat /\ now <= now'
    BY <1>1, <2>1
  <2> QED
    BY <1>2, <2>1, <2>2, <2>4, <2>5
<1>5. ASSUME NEW u \in User, Promise!ChangeStaff(u)
      PROVE  PromiseInv'
  <2>1. /\ UNCHANGED <<now, seen>> /\ Passes' = Passes
        /\ lastActive' \in {lastActive, [lastActive EXCEPT ![u] = now]}
    BY <1>5 DEF Promise!ChangeStaff
  <2>2. Recorded /\ lastActive' \in [User -> Int]
    BY <1>1, <2>1 DEF Recorded
  <2> QED
    BY <1>1, <1>2, <2>1, <2>2
<1>6. ASSUME NEW b \in Browser, NEW u \in User, Promise!LogIn(b, u)
      PROVE  PromiseInv'
  <2>1. /\ UNCHANGED <<now, lastActive>> /\ Passes' = Passes
        /\ seen' = [seen EXCEPT ![b][u] = now]
    BY <1>6 DEF Promise!LogIn
  <2>2. \A a \in Browser, v \in User : seen'[a][v] = IF a = b /\ v = u THEN now ELSE seen[a][v]
    BY <1>1, <2>1
  <2>3. Recorded
    BY <2>1, <2>2 DEF Recorded
  <2>4. seen' \in [Browser -> [User -> Int]]
    BY <1>1, <2>1
  <2> QED
    BY <1>1, <1>2, <2>1, <2>3, <2>4
<1>7. ASSUME NEW b \in Browser, Promise!LogOut(b)
      PROVE  PromiseInv'
  BY <1>3, <1>7 DEF Promise!LogOut
<1>8. ASSUME NEW b \in Browser, NEW u \in User, Promise!Admit(b, u)
      PROVE  PromiseInv'
  <2>1. PICK age \in Lifetimes :
            Passes' = [Passes EXCEPT ![b] = [user |-> u, age |-> age, until |-> now + age]]
    BY <1>8 DEF Promise!Admit
  <2>2. /\ Steady /\ seen[b][u] # -1 /\ now <= seen[b][u] + 6 * MaxLag
        /\ lastActive[u] # -1 /\ now <= lastActive[u] + 4 * MaxLag
    BY <1>8 DEF Promise!Admit
  <2>3. age \in Nat /\ MaxLag \in Nat /\ seen[b][u] \in Int /\ lastActive[u] \in Int
    BY <1>1, StoreAssumption DEF Lifetimes
  <2>4. /\ now + age <= seen[b][u] + age + 6 * MaxLag
        /\ now + age <= lastActive[u] + age + 4 * MaxLag
        /\ now + age \in Int
    BY <1>1, <2>2, <2>3
  <2>5. /\ Passes'[b] = [user |-> u, age |-> age, until |-> now + age]
        /\ \A a \in Browser \ {b} : Passes'[a] = Passes[a]
    BY <2>1 DEF Passes
  <2>6. PassInv(b)'
    BY <2>2, <2>3, <2>4, <2>5 DEF PassInv
  <2> QED
    BY <1>3, <2>2, <2>5, <2>6
<1>9. ASSUME NEW B \in SUBSET Browser, Promise!Withdraw(B)
      PROVE  PromiseInv'
  <2>1. Steady /\ Passes' = [b \in Browser |-> IF b \in B THEN Promise!NoPass ELSE Passes[b]]
    BY <1>9 DEF Promise!Withdraw
  <2>2. \A b \in Browser : Passes'[b] = Passes[b] \/ Passes'[b].user = None
    BY <2>1 DEF Promise!NoPass
  <2> QED
    BY <1>3, <2>1, <2>2 DEF PassInv
<1>10. CASE UNCHANGED Promise!admissionVars
  BY <1>3, <1>10 DEF Promise!admissionVars
<1> QED
  BY <1>4, <1>5, <1>6, <1>7, <1>8, <1>9, <1>10 DEF Promise!AdmissionNext

LEMMA PromiseInit == Promise!AdmissionInit => PromiseInv
<1> SUFFICES ASSUME Promise!AdmissionInit
             PROVE  PromiseInv
  OBVIOUS
<1>1. /\ now = 0 /\ lastActive = [u \in User |-> IF staff[u] = "active" THEN 0 ELSE -1]
      /\ seen = [b \in Browser |-> [u \in User |-> -1]]
      /\ \A b \in Browser : Passes[b].user = None
  BY DEF Promise!AdmissionInit, Promise!NoPass
<1> QED
  BY <1>1 DEF PromiseInv, PassInv

(* Whatever implements Admission bounds every pass.                        *)
THEOREM PromiseIsBounded == Promise!AdmissionSpec => []Promise!PassesAreBounded
<1>1. PromiseInv => Promise!PassesAreBounded
  <2> SUFFICES ASSUME PromiseInv, NEW b \in Browser, Passes[b].user # None, now < Passes[b].until
               PROVE  LET u == Passes[b].user IN
                      /\ seen[b][u] # -1 /\ now < seen[b][u] + Passes[b].age + 6 * MaxLag
                      /\ lastActive[u] # -1 /\ now < lastActive[u] + Passes[b].age + 4 * MaxLag
    BY DEF Promise!PassesAreBounded
  <2>1. PassInv(b) /\ now \in Nat
    BY DEF PromiseInv
  <2> DEFINE u == Passes[b].user
  <2>2. /\ u \in User /\ Passes[b].age \in Nat /\ Passes[b].until \in Int
        /\ seen[b][u] # -1 /\ Passes[b].until <= seen[b][u] + Passes[b].age + 6 * MaxLag
        /\ lastActive[u] # -1 /\ Passes[b].until <= lastActive[u] + Passes[b].age + 4 * MaxLag
    BY <2>1 DEF PassInv
  <2>3. seen[b][u] \in Int /\ lastActive[u] \in Int /\ MaxLag \in Nat
    BY <2>2, StoreAssumption DEF PromiseInv
  <2> HIDE DEF u
  <2>4. now < seen[b][u] + Passes[b].age + 6 * MaxLag
    BY <2>1, <2>2, <2>3
  <2>5. now < lastActive[u] + Passes[b].age + 4 * MaxLag
    BY <2>1, <2>2, <2>3
  <2> QED
    BY <2>2, <2>4, <2>5 DEF u
<1> QED
  BY <1>1, PromiseInit, PromiseStep, PTL DEF Promise!AdmissionSpec

(* After a suspension, or the removal of a staff user, a browser sends the *)
(* user's cookie for no longer than Max-Age and the four steps of a call   *)
(* that the suspension may have overtaken: the implementation inherits the *)
(* bound from the promise (Check, EnsureSession).                          *)
THEOREM SuspensionBounded == ExtSpec => []SuspensionIsBounded
<1>1. ExtInv /\ Promise!PassesAreBounded => SuspensionIsBounded
  <2> SUFFICES ASSUME ExtInv, Promise!PassesAreBounded, NEW b \in Browser, Sends(b),
                      NEW r \in RowsOf(jar[b].sid)
               PROVE  /\ lastActive[r.user] # -1
                      /\ now < lastActive[r.user] + jar[b].maxAge + 4 * MaxLag
    BY DEF SuspensionIsBounded
  <2>1. r.user \in User /\ r.user # None /\ \A q \in RowsOf(jar[b].sid) : q.user = r.user
    BY StoreAssumption DEF ExtInv, AuthInv, StoreInv, StoreTypeOK, UniqueIds, RowsOf, Row
  <2>2. Worth(RowsOf(jar[b].sid), jar[b]) =
            [user |-> r.user, age |-> jar[b].maxAge, until |-> jar[b].expires]
    BY <2>1, WorthOfUser
  <2>3. /\ Passes[b].user = r.user /\ Passes[b].age = jar[b].maxAge
        /\ Passes[b].until = jar[b].expires
    BY <2>2 DEF Passes
  <2>4. now < jar[b].expires
    BY DEF Sends
  <2> QED
    BY <2>1, <2>3, <2>4 DEF Promise!PassesAreBounded
<1>2. ExtSpec => []Promise!PassesAreBounded
  BY AdmissionImplemented, PromiseIsBounded DEF ImplementsAdmission
<1> QED
  BY <1>1, <1>2, ExtInvariant, PTL

-----------------------------------------------------------------------------
(* Planting.                                                               *)

(* A cookie planted by a replica that knows the secret is accepted at      *)
(* once, if no other browser's logout has removed the row since, and       *)
(* sessions live longer than two latencies: the row was refreshed at most  *)
(* two latencies ago.  It says nothing of the cookies planted before a     *)
(* rotation (signCookie, buildSessionData).                                *)
THEOREM PlantedIsAccepted == ExtSpec => PlantingAdmits
<1>1. ASSUME MatchInv, NEW c \in Call, NEW b \in Browser, PlantCookie(c), check[c].browser = b,
             loaded[c] = secret, RowsOf(req[c].sid) # {}, 2 * MaxLag < MinAge
      PROVE  Accepted(b)'
  <2> DEFINE new == SetCookie(req[c].sid, c)
  <2>1. /\ jar' = [jar EXCEPT ![b] = new] /\ UNCHANGED <<now, sessions, secret>>
        /\ req[c].phase = "cookie"
    BY <1>1 DEF PlantCookie, Finish, storeVars
  <2>2. jar'[b] = new
    BY <1>1, <2>1 DEF MatchInv, ExtInv, ExtTypeOK
  <2>3. /\ new.sid = req[c].sid /\ new.key = secret /\ new.expires = now + MaxAge[c]
    BY <1>1 DEF SetCookie
  <2>4. req[c].sid # None
    BY <1>1, <2>1, StoreAssumption DEF MatchInv, ExtInv, RequestInv, AuthInv, StoreInv, StoreTypeOK
  <2>5. PICK r \in sessions : r.sid = req[c].sid /\ Matched(r, now) /\ r.expires \in Int
    BY <1>1, <2>1 DEF MatchInv, AnswerMatched, RowsOf, ExtInv, ExtTypeOK, AuthTypeOK, AuthTypes, StoreTypeOK,
                      Row
  <2>6. /\ now \in Nat /\ MaxLag \in Nat /\ MinAge \in Nat \ {0} /\ MaxAge[c] \in Nat
        /\ MaxAge[c] >= MinAge
    BY <1>1, LagTypes, StoreAssumption DEF MatchInv
  <2>7. r.verified /\ now < r.expires /\ now < now + MaxAge[c]
    BY <1>1, <2>5, <2>6 DEF Matched
  <2> HIDE DEF new
  <2> QED
    BY <2>1, <2>2, <2>3, <2>4, <2>5, <2>7 DEF Accepted, Sends, RowsOf
<1>2. MatchInv => \A c \in Call, b \in Browser :
          /\ PlantCookie(c) /\ check[c].browser = b
          /\ loaded[c] = secret /\ RowsOf(req[c].sid) # {} /\ 2 * MaxLag < MinAge
          => Accepted(b)'
  BY <1>1
<1> QED
  BY <1>2, MatchInitInv, MatchNextInv, PTL DEF ExtSpec, PlantingAdmits

-----------------------------------------------------------------------------
(* What is proved of EnsureSession, behind Envoy.                          *)

(* The delay of a suspension at the service (EnsureSession).               *)
THEOREM RevocationBehindEnvoy == ExtSpec => []RevocationIsPrompt
  BY ExtIsAuthClient, RevocationBounded

(* The atomicity of EnsureSession.                                         *)
THEOREM ServiceBehindEnvoy == ExtSpec => ImplementsService
  BY ExtIsAuthClient, ServiceImplemented

(* What is proved of ExtSpec holds of the system whose liveness is checked *)
(* (CalmSpec).                                                             *)
THEOREM CalmIsSafe == CalmSpec => ExtSpec
<1>1. CalmNext => ExtNext
  BY DEF CalmNext, ExtNext, LogoutElsewhere
<1>2. [CalmNext]_extVars => [ExtNext]_extVars
  BY <1>1
<1> QED
  BY <1>2, PTL DEF CalmSpec, ExtSpec
=============================================================================
