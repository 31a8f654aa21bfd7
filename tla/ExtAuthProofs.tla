---------------------------- MODULE ExtAuthProofs ----------------------------
(***************************************************************************)
(* The whole system is a client of AuthService, so that what is proved of  *)
(* AuthSpec holds of it; and, for any number of browsers, users, calls and *)
(* replicas, a browser only holds sessions of users who logged in from it. *)
(* The inductive invariant follows a confirmed identity from the browser's *)
(* login through the request, the session and the cookie.                  *)
(***************************************************************************)
EXTENDS ExtAuth, AuthServiceProofs

Confirmed(b, u) == seen[b][u] # -1

(* The e-mail a request goes by was confirmed for its browser, and the     *)
(* session it is answered with is that user's.                             *)
RequestInv(c) ==
    /\ check[c].phase = "service" <=> req[c].phase # "idle"
    /\ check[c].phase # "idle" => check[c].browser \in Browser
    /\ check[c].phase # "idle" /\ check[c].login # None
          => Confirmed(check[c].browser, check[c].login)
    /\ check[c].phase = "service" => check[c].login \in User /\ req[c].user = check[c].login
    /\ req[c].phase = "cookie" => /\ req[c].sid \in used
                                  /\ \A r \in RowsOf(req[c].sid) : r.user = req[c].user

BrowserInv(b) ==
    /\ login[b] # None => Confirmed(b, login[b])
    /\ jar[b].sid \in used \cup {None}
    /\ \A r \in RowsOf(jar[b].sid) : Confirmed(b, r.user)

ExtInv ==
    /\ AuthInv
    /\ ExtTypeOK
    /\ \A c \in Call : RequestInv(c)
    /\ \A b \in Browser : BrowserInv(b)
-----------------------------------------------------------------------------
(* Every step of the system is one of the service, or does not touch it.   *)

LEMMA ServingIsAuthStep ==
    ASSUME NEW c \in Call, Serving(c), check[c] \in Check
    PROVE  AuthNext \/ UNCHANGED authVars
<1>1. CASE AuthentikAccepts(c)
  <2>1. /\ check[c].login \in User /\ check[c].hasCookie \in BOOLEAN
        /\ EnsureSession(c, check[c].login, check[c].hasCookie)
    BY <1>1 DEF AuthentikAccepts, Check
  <2> QED
    BY <2>1 DEF AuthNext
<1>2. CASE AuthentikRedirects(c) \/ AuthentikFails(c)
  BY <1>2 DEF AuthentikRedirects, AuthentikFails
<1>3. CASE Inside(Progress(c))
  BY <1>3 DEF Inside, AuthNext
<1>4. CASE PassThrough(c) \/ PlantCookie(c) \/ AnswerLost(c)
  <2>1. Finish(c)
    BY <1>4 DEF PassThrough, PlantCookie, AnswerLost
  <2> QED
    BY <2>1 DEF AuthNext
<1> QED
  BY <1>1, <1>2, <1>3, <1>4 DEF Serving

LEMMA ExtStepIsAuthStep ==
    ASSUME ExtTypeOK, [ExtNext]_extVars
    PROVE  [AuthNext]_authVars
<1>1. CASE UNCHANGED extVars
  BY <1>1 DEF extVars
<1>2. CASE ExtTime \/ Inside(GhostWrites) \/ \E u \in User : Inside(StaffChange(u))
  BY <1>2 DEF ExtTime, Inside, AuthNext
<1>3. CASE RotateSecret \/ \E c \in Call : Restart(c) \/ \E b \in Browser : Receive(c, b)
  BY <1>3 DEF RotateSecret, Restart, Receive
<1>4. CASE \E b \in Browser :
              AuthentikLogout(b) \/ DeleteCookie(b) \/ \E u \in User : CompleteLogin(b, u)
  BY <1>4 DEF AuthentikLogout, DeleteCookie, CompleteLogin
<1>5. ASSUME NEW c \in Call, Serving(c)
      PROVE  [AuthNext]_authVars
  <2>1. check[c] \in Check
    BY DEF ExtTypeOK
  <2> QED
    BY <1>5, <2>1, ServingIsAuthStep
<1> QED
  BY <1>1, <1>2, <1>3, <1>4, <1>5 DEF ExtNext

(* A step keeps the ids drawn, and the users of the rows that remain.      *)
LEMMA OwnersKept ==
    ASSUME AuthInv, [AuthNext]_authVars
    PROVE  /\ AuthInv' /\ used \subseteq used'
           /\ \A r \in sessions' : r.user \in User /\ r.sid # None
           /\ \A r \in sessions' : r.sid \in used =>
                 \E q \in RowsOf(r.sid) : q.user = r.user
<1>1. AuthInv' /\ [StoreNext]_storeVars
  BY AuthNextInv, StepIsStoreStep
<1>2. RowStep
  BY <1>1, StoreStepFacts DEF AuthInv
<1>3. \A r \in sessions' : r.user \in User /\ r.sid # None
  BY <1>2, StoreAssumption DEF RowStep, Row
<1>4. ASSUME NEW r \in sessions', r.sid \in used
      PROVE  \E q \in RowsOf(r.sid) : q.user = r.user
  <2>1. PICK q \in sessions : Derived(r, q, now)
    BY <1>2, <1>4 DEF RowStep
  <2> QED
    BY <2>1 DEF Derived, RowsOf
<1> QED
  BY <1>1, <1>2, <1>3, <1>4 DEF RowStep

-----------------------------------------------------------------------------
(* What a step leaves alone stays as it should be.                         *)

SeenGrows == \A b \in Browser, u \in User : Confirmed(b, u) => Confirmed(b, u)'

LEMMA RequestKept ==
    ASSUME ExtInv, [AuthNext]_authVars, SeenGrows,
           NEW d \in Call, check'[d] = check[d], req'[d] = req[d]
    PROVE  RequestInv(d)'
<1>1. RequestInv(d) /\ check[d] \in Check
  BY DEF ExtInv, ExtTypeOK
<1>2. check[d].login \in User \cup {None}
  BY <1>1 DEF Check
<1>3. check[d].phase # "idle" /\ check[d].login # None
        => Confirmed(check[d].browser, check[d].login)'
  BY <1>1, <1>2 DEF RequestInv, SeenGrows
<1>4. ASSUME req[d].phase = "cookie"
      PROVE  /\ req[d].sid \in used'
             /\ \A r \in sessions' : r.sid = req[d].sid => r.user = req[d].user
  <2>1. req[d].sid \in used /\ \A r \in RowsOf(req[d].sid) : r.user = req[d].user
    BY <1>1, <1>4 DEF RequestInv
  <2> QED
    BY <2>1, OwnersKept DEF ExtInv
<1> QED
  BY <1>1, <1>3, <1>4 DEF RequestInv, Confirmed, RowsOf

LEMMA JarKept ==
    ASSUME ExtInv, [AuthNext]_authVars, SeenGrows, NEW b \in Browser, NEW s \in used \cup {None},
           \A r \in RowsOf(s) : Confirmed(b, r.user)
    PROVE  /\ s \in used' \cup {None}
           /\ \A r \in sessions' : r.sid = s => seen'[b][r.user] # -1
<1>1. ASSUME NEW r \in sessions', r.sid = s
      PROVE  seen'[b][r.user] # -1
  <2>1. r.user \in User /\ r.sid \in used
    BY <1>1, OwnersKept DEF ExtInv
  <2>2. Confirmed(b, r.user)
    BY <1>1, <2>1, OwnersKept DEF ExtInv
  <2> QED
    BY <2>1, <2>2 DEF SeenGrows, Confirmed
<1>2. s \in used' \cup {None}
  BY OwnersKept DEF ExtInv
<1> QED
  BY <1>1, <1>2

LEMMA BrowserKept ==
    ASSUME ExtInv, [AuthNext]_authVars, SeenGrows, NEW b \in Browser,
           jar'[b] = jar[b], login'[b] # None => seen'[b][login'[b]] # -1
    PROVE  BrowserInv(b)'
<1>1. jar[b].sid \in used \cup {None} /\ \A r \in RowsOf(jar[b].sid) : Confirmed(b, r.user)
  BY DEF ExtInv, BrowserInv
<1>2. /\ jar[b].sid \in used' \cup {None}
      /\ \A r \in sessions' : r.sid = jar[b].sid => seen'[b][r.user] # -1
  BY <1>1, JarKept
<1> QED
  BY <1>2 DEF BrowserInv, RowsOf, Confirmed

(* A step of call c, and of what it puts in a jar.                         *)
LEMMA CallMoves ==
    ASSUME ExtInv, [AuthNext]_authVars, UNCHANGED <<login, seen>>, ExtTypeOK',
           NEW c \in Call, RequestInv(c)', \A b \in Browser : jar'[b] = jar[b] \/ BrowserInv(b)',
           \A d \in Call \ {c} : check'[d] = check[d] /\ req'[d] = req[d]
    PROVE  ExtInv'
<1>1. SeenGrows
  BY DEF SeenGrows, Confirmed
<1>2. \A d \in Call \ {c} : RequestInv(d)'
  BY <1>1, RequestKept
<1>3. \A b \in Browser : BrowserInv(b)'
  <2> SUFFICES ASSUME NEW b \in Browser
               PROVE  BrowserInv(b)'
    OBVIOUS
  <2>1. login'[b] # None => seen'[b][login'[b]] # -1
    BY DEF ExtInv, BrowserInv, Confirmed
  <2> QED
    BY <1>1, <2>1, BrowserKept
<1> QED
  BY <1>2, <1>3, OwnersKept DEF ExtInv

(* A step that no call takes part in.                                      *)
LEMMA NoCallMoves ==
    ASSUME ExtInv, [AuthNext]_authVars, UNCHANGED <<check, req>>, ExtTypeOK', SeenGrows,
           \A b \in Browser : BrowserInv(b)'
    PROVE  ExtInv'
  BY RequestKept, OwnersKept DEF ExtInv
-----------------------------------------------------------------------------
(* The steps of a request.                                                 *)

(* AuthTypeOK is the service's; a step of a request adds these.            *)
LEMMA RequestTypes ==
    ASSUME ExtInv, [AuthNext]_authVars, NEW c \in Call, NEW q \in Check,
           check' = [check EXCEPT ![c] = q], pkce' \in [Browser -> BOOLEAN],
           jar' \in [Browser -> Cookie], UNCHANGED <<login, seen, bare, secret, loaded>>
    PROVE  ExtTypeOK' /\ check'[c] = q /\ \A d \in Call \ {c} : check'[d] = check[d]
  BY OwnersKept DEF ExtInv, ExtTypeOK, AuthInv, AuthTypeOK, ReqInv

LEMMA ReceiveInv ==
    ASSUME ExtInv, NEW c \in Call, NEW b \in Browser, Receive(c, b)
    PROVE  ExtInv'
<1> DEFINE q == [phase |-> "authentik", browser |-> b, login |-> login[b], hasCookie |-> Sends(b),
                 since |-> now]
<1>1. /\ UNCHANGED <<authVars, browserVars, seen, bare, secret, loaded>>
      /\ check' = [check EXCEPT ![c] = q] /\ check[c].phase = "idle" /\ req[c].phase = "idle"
  BY DEF Receive
<1>2. q \in Check
  BY StoreAssumption DEF Check, Sends, ExtInv, ExtTypeOK, AuthTypeOK, AuthTypes, StoreTypeOK
<1>3. /\ ExtTypeOK' /\ check'[c] = q /\ \A d \in Call \ {c} : check'[d] = check[d]
  BY <1>1, <1>2, RequestTypes DEF browserVars, ExtInv, ExtTypeOK
<1>4. RequestInv(c)'
  BY <1>1, <1>3 DEF RequestInv, ExtInv, BrowserInv, Confirmed, authVars, browserVars
<1> QED
  BY <1>1, <1>3, <1>4, CallMoves DEF authVars, browserVars

LEMMA AcceptsInv ==
    ASSUME ExtInv, NEW c \in Call, AuthentikAccepts(c)
    PROVE  ExtInv'
<1> DEFINE q == [check[c] EXCEPT !.phase = "service", !.since = now]
<1>1. /\ UNCHANGED <<browserVars, seen, bare, secret, loaded>> /\ check[c].phase = "authentik"
      /\ check[c] \in Check /\ check[c].login \in User
      /\ EnsureSession(c, check[c].login, check[c].hasCookie)
      /\ check' = [check EXCEPT ![c].phase = "service", ![c].since = now]
  BY DEF AuthentikAccepts, ExtInv, ExtTypeOK, Check
<1>2. /\ q \in Check /\ q.phase = "service" /\ q.login = check[c].login
      /\ q.browser = check[c].browser
  <2>1. now \in Nat
    BY StoreAssumption DEF ExtInv, ExtTypeOK, AuthTypeOK, AuthTypes, StoreTypeOK
  <2>2. /\ "phase" \in DOMAIN check[c] /\ "since" \in DOMAIN check[c] /\ check[c] \in Check
    BY <1>1 DEF Check
  <2> QED
    BY <2>1, <2>2 DEF Check
<1>3. check' = [check EXCEPT ![c] = q]
  <2>1. check \in [Call -> Check]
    BY DEF ExtInv, ExtTypeOK
  <2> QED
    BY <1>1, <2>1
<1>4. [AuthNext]_authVars
  BY <1>1, ServingIsAuthStep DEF Serving
<1> HIDE DEF q
<1>5. /\ ExtTypeOK' /\ check'[c] = q /\ \A d \in Call \ {c} : check'[d] = check[d]
  BY <1>1, <1>2, <1>3, <1>4, RequestTypes DEF browserVars, ExtInv, ExtTypeOK
<1>6. /\ req'[c].phase \in {"pass", "user"} /\ req'[c].user = check[c].login
      /\ \A d \in Call \ {c} : req'[d] = req[d]
  <2>1. req \in [Call -> Req]
    BY DEF ExtInv, AuthInv, AuthTypes
  <2> QED
    BY <1>1, <2>1 DEF EnsureSession
<1>7. RequestInv(c)'
  BY <1>1, <1>2, <1>5, <1>6 DEF RequestInv, ExtInv, Confirmed
<1> QED
  BY <1>1, <1>4, <1>5, <1>6, <1>7, CallMoves DEF browserVars

LEMMA NoCheckType == NoCheck \in Check
  BY DEF NoCheck, Check

LEMMA RefusesInv ==
    ASSUME ExtInv, NEW c \in Call, AuthentikRedirects(c) \/ AuthentikFails(c)
    PROVE  ExtInv'
<1>1. /\ UNCHANGED <<authVars, jar, login, seen, bare, secret, loaded>>
      /\ check[c].phase = "authentik" /\ check' = [check EXCEPT ![c] = NoCheck]
      /\ pkce' \in [Browser -> BOOLEAN]
  BY DEF AuthentikRedirects, AuthentikFails, Ends, browserVars, ExtInv, ExtTypeOK
<1>2. /\ ExtTypeOK' /\ check'[c] = NoCheck /\ \A d \in Call \ {c} : check'[d] = check[d]
  BY <1>1, NoCheckType, RequestTypes DEF ExtInv, ExtTypeOK
<1>3. RequestInv(c)'
  BY <1>1, <1>2 DEF RequestInv, ExtInv, NoCheck, authVars
<1> QED
  BY <1>1, <1>2, <1>3, CallMoves DEF authVars

(* The service answers, or moves on by a statement.                        *)
LEMMA ProgressInv ==
    ASSUME ExtInv, NEW c \in Call, Inside(Progress(c))
    PROVE  ExtInv'
<1>1. /\ UNCHANGED <<check, browserVars, seen, bare, secret, loaded>> /\ Progress(c)
      /\ [AuthNext]_authVars
  BY DEF Inside, AuthNext
<1>2. AuthInv' /\ ExtTypeOK'
  BY <1>1, OwnersKept DEF browserVars, ExtInv, ExtTypeOK, AuthInv, AuthTypeOK, ReqInv
<1>3. /\ req \in [Call -> Req] /\ Linked(c) /\ RequestInv(c) /\ check'[c] = check[c]
      /\ Owns(c)
  BY <1>1 DEF ExtInv, AuthInv, AuthTypes, ReqInv, StoreInv, CallInv
<1>4. CASE Statement(c) \/ CreateAfterMiss(c)
  <2>1. UNCHANGED req
    BY <1>4 DEF Statement, CreateAfterMiss
  <2>2. RequestInv(c)'
    BY <1>1, <2>1, RequestKept DEF SeenGrows, Confirmed
  <2> QED
    BY <1>1, <1>2, <2>1, <2>2, CallMoves DEF browserVars
<1>5. ASSUME NEW p \in {"store", "unauthorized", "error"}, req'[c].phase = p,
             req'[c].user = req[c].user, req[c].phase # "idle",
             \A d \in Call \ {c} : req'[d] = req[d]
      PROVE  ExtInv'
  <2>1. RequestInv(c)'
    BY <1>1, <1>3, <1>5 DEF RequestInv, Confirmed
  <2> QED
    BY <1>1, <1>2, <1>5, <2>1, CallMoves DEF browserVars
<1>6. CASE StaffActive(c)
  <2>1. /\ req'[c].phase = "store" /\ req'[c].user = req[c].user /\ req[c].phase # "idle"
        /\ \A d \in Call \ {c} : req'[d] = req[d]
    BY <1>3, <1>6 DEF StaffActive, Req
  <2> QED
    BY <1>5, <2>1
<1>7. CASE NotStaff(c) \/ UserQueryFails(c) \/ StoreError(c)
  <2>1. PICK p \in {"unauthorized", "error"} : Answers(c, p, None)
    BY <1>7 DEF NotStaff, UserQueryFails, StoreError
  <2>2. req[c].phase # "idle"
    BY <1>3, <1>7 DEF NotStaff, UserQueryFails, StoreError, Linked
  <2>3. /\ req'[c].phase = p /\ req'[c].user = req[c].user
        /\ \A d \in Call \ {c} : req'[d] = req[d]
    BY <1>3, <2>1 DEF Answers, Req
  <2> QED
    BY <1>5, <2>2, <2>3
<1>8. CASE ServeSession(c)
  <2>1. /\ req[c].phase = "store" /\ op[c].user = req[c].user /\ UNCHANGED <<sessions, used>>
        /\ Answers(c, "cookie", op[c].sid)
    BY <1>3, <1>8 DEF ServeSession, Return, Linked
  <2>2. op[c].sid \in used /\ \A r \in RowsOf(op[c].sid) : r.user = op[c].user
    BY <1>3, <1>8 DEF ServeSession, Owns, Holding
  <2>3. /\ req'[c].phase = "cookie" /\ req'[c].user = req[c].user /\ req'[c].sid = op[c].sid
        /\ \A d \in Call \ {c} : req'[d] = req[d]
    BY <1>3, <2>1 DEF Answers, Req
  <2>4. RequestInv(c)'
    BY <1>1, <1>3, <2>1, <2>2, <2>3 DEF RequestInv, Confirmed, RowsOf
  <2> QED
    BY <1>1, <1>2, <2>3, <2>4, CallMoves DEF browserVars
<1> QED
  BY <1>1, <1>4, <1>6, <1>7, <1>8 DEF Progress

(* Check takes the answer, and plants the cookie if there is one.          *)
LEMMA EndsInv ==
    ASSUME ExtInv, NEW c \in Call, PassThrough(c) \/ PlantCookie(c) \/ AnswerLost(c)
    PROVE  ExtInv'
<1>1. /\ UNCHANGED <<login, pkce, seen, bare, secret, loaded>> /\ Finish(c) /\ req[c].phase \in Answer
      /\ check' = [check EXCEPT ![c] = NoCheck] /\ [AuthNext]_authVars
  BY DEF PassThrough, PlantCookie, AnswerLost, Ends, browserVars, AuthNext, Finish
<1>2. /\ req \in [Call -> Req] /\ RequestInv(c) /\ jar \in [Browser -> Cookie]
      /\ loaded \in [Call -> 0 .. secret] /\ secret \in 0 .. MaxKey /\ now \in Nat
      /\ pkce \in [Browser -> BOOLEAN]
  BY StoreAssumption DEF ExtInv, ExtTypeOK, AuthTypeOK, AuthTypes, StoreTypeOK
<1>3. /\ req'[c] = NoReq /\ \A d \in Call \ {c} : req'[d] = req[d]
      /\ UNCHANGED <<sessions, used>>
  BY <1>1, <1>2 DEF Finish, storeVars
<1> DEFINE b == check[c].browser
           new == SetCookie(req[c].sid, c)
<1>4. CASE UNCHANGED jar
  <2>1. /\ ExtTypeOK' /\ check'[c] = NoCheck /\ \A d \in Call \ {c} : check'[d] = check[d]
    BY <1>1, <1>2, <1>4, NoCheckType, RequestTypes
  <2>2. RequestInv(c)'
    BY <1>3, <2>1 DEF RequestInv, NoCheck, NoReq
  <2> QED
    BY <1>1, <1>3, <1>4, <2>1, <2>2, CallMoves
<1>5. CASE PlantCookie(c)
  <2>1. /\ req[c].phase = "cookie" /\ jar' = [jar EXCEPT ![b] = new]
    BY <1>5 DEF PlantCookie
  <2>2. /\ b \in Browser /\ check[c].login \in User /\ req[c].user = check[c].login
        /\ Confirmed(b, req[c].user)
        /\ req[c].sid \in used /\ \A r \in RowsOf(req[c].sid) : r.user = req[c].user
    BY <1>2, <2>1, StoreAssumption DEF RequestInv
  <2>3. new \in Cookie /\ new.sid = req[c].sid
    <3>1. /\ loaded[c] \in 0 .. MaxKey /\ MaxAge[c] \in Nat /\ now + MaxAge[c] \in Int
          /\ req[c].sid \in SessionId \cup {None}
      BY <1>2, StoreAssumption, ExtAuthAssumption DEF Req
    <3> QED
      BY <3>1 DEF SetCookie, Cookie
  <2> HIDE DEF new
  <2>4. jar' \in [Browser -> Cookie]
    BY <1>2, <2>1, <2>3
  <2>5. /\ ExtTypeOK' /\ check'[c] = NoCheck /\ \A d \in Call \ {c} : check'[d] = check[d]
    BY <1>1, <1>2, <2>4, NoCheckType, RequestTypes
  <2>6. RequestInv(c)'
    BY <1>3, <2>5 DEF RequestInv, NoCheck, NoReq
  <2>7. ASSUME NEW a \in Browser
        PROVE  jar'[a] = jar[a] \/ BrowserInv(a)'
    <3>1. CASE a # b
      BY <1>2, <2>1, <3>1
    <3>2. CASE a = b
      <4>1. jar'[a] = new /\ BrowserInv(a)
        BY <1>2, <2>1, <2>2, <3>2 DEF ExtInv
      <4> QED
        BY <1>1, <1>3, <2>2, <2>3, <3>2, <4>1 DEF BrowserInv, Confirmed, RowsOf
    <3> QED
      BY <3>1, <3>2
  <2> QED
    BY <1>1, <1>3, <2>5, <2>6, <2>7, CallMoves
<1> QED
  BY <1>4, <1>5 DEF PassThrough, AnswerLost, browserVars
-----------------------------------------------------------------------------
(* The steps of the environment.                                           *)

LEMMA TimeInv ==
    ASSUME ExtInv, ExtTime
    PROVE  ExtInv'
<1>1. /\ UNCHANGED <<check, browserVars, secret, loaded, req>> /\ [AuthNext]_authVars
      /\ seen' = [b \in Browser |->
                    [u \in User |-> IF login[b] = u THEN now' ELSE seen[b][u]]]
      /\ bare' = [b \in Browser |-> IF jar[b].sid # None /\ now' < jar[b].expires
                                    THEN bare[b] ELSE now']
  BY DEF ExtTime, ExtHistories, Time, AuthNext
<1>2. AuthInv' /\ now' \in 0 .. MaxTime
  BY <1>1, OwnersKept DEF ExtInv, AuthInv, AuthTypes, AuthTypes, StoreTypeOK
<1>3. seen' \in [Browser -> [User -> -1 .. MaxTime]]
  <2>1. ASSUME NEW b \in Browser, NEW u \in User
        PROVE  now' \in -1 .. MaxTime /\ seen[b][u] \in -1 .. MaxTime
    BY <1>2, StoreAssumption DEF ExtInv, ExtTypeOK
  <2> QED
    BY <1>1, <2>1
<1>4. ExtTypeOK'
  <2>1. bare' \in [Browser -> 0 .. MaxTime]
    BY <1>1, <1>2 DEF ExtInv, ExtTypeOK
  <2> QED
    BY <1>1, <1>2, <1>3, <2>1 DEF browserVars, ExtInv, ExtTypeOK, AuthInv, AuthTypeOK, ReqInv
<1>5. \A b \in Browser, u \in User : Confirmed(b, u) \/ login[b] = u => seen'[b][u] # -1
  BY <1>1, <1>2, StoreAssumption DEF Confirmed
<1>6. SeenGrows
  BY <1>5 DEF SeenGrows, Confirmed
<1>7. \A b \in Browser : BrowserInv(b)'
  <2> SUFFICES ASSUME NEW b \in Browser
               PROVE  BrowserInv(b)'
    OBVIOUS
  <2>1. login'[b] # None => seen'[b][login'[b]] # -1
    BY <1>1, <1>5 DEF browserVars, ExtInv, ExtTypeOK
  <2> QED
    BY <1>1, <1>6, <2>1, BrowserKept DEF browserVars
<1> QED
  BY <1>1, <1>4, <1>6, <1>7, NoCallMoves

LEMMA OutsiderInv ==
    ASSUME ExtInv, Inside(GhostWrites) \/ \E u \in User : Inside(StaffChange(u))
    PROVE  ExtInv'
<1>1. /\ UNCHANGED <<check, browserVars, seen, bare, secret, loaded, req>> /\ [AuthNext]_authVars
  BY DEF Inside, GhostWrites, StaffChange, AuthNext
<1>2. AuthInv' /\ ExtTypeOK'
  BY <1>1, OwnersKept DEF browserVars, ExtInv, ExtTypeOK, AuthInv, AuthTypeOK, ReqInv
<1>3. SeenGrows
  BY <1>1 DEF SeenGrows, Confirmed
<1>4. \A b \in Browser : BrowserInv(b)'
  BY <1>1, <1>3, BrowserKept DEF browserVars, ExtInv, BrowserInv, Confirmed
<1> QED
  BY <1>1, <1>2, <1>3, <1>4, NoCallMoves

LEMMA SecretInv ==
    ASSUME ExtInv, RotateSecret \/ \E c \in Call : Restart(c)
    PROVE  ExtInv'
<1>1. UNCHANGED <<authVars, check, browserVars, seen, bare>>
  BY DEF RotateSecret, Restart
<1>2. secret' \in 0 .. MaxKey /\ loaded' \in [Call -> 0 .. secret']
  <2>1. secret \in 0 .. MaxKey /\ loaded \in [Call -> 0 .. secret] /\ MaxKey \in Nat
    BY ExtAuthAssumption DEF ExtInv, ExtTypeOK
  <2>2. CASE RotateSecret
    <3>1. secret' = secret + 1 /\ secret < MaxKey /\ loaded' = loaded
      BY <2>2 DEF RotateSecret
    <3>2. 0 .. secret \subseteq 0 .. secret'
      BY <2>1, <3>1
    <3> QED
      BY <2>1, <3>1, <3>2
  <2>3. ASSUME NEW c \in Call, Restart(c)
        PROVE  secret' \in 0 .. MaxKey /\ loaded' \in [Call -> 0 .. secret']
    BY <2>1, <2>3 DEF Restart, ReadSecret
  <2> QED
    BY <2>2, <2>3
<1>3. ExtTypeOK' /\ SeenGrows
  BY <1>1, <1>2 DEF authVars, storeVars, browserVars, ExtInv, ExtTypeOK, AuthTypeOK, AuthTypes,
                    StoreTypeOK, Linked, SeenGrows, Confirmed
<1>4. \A b \in Browser : BrowserInv(b)'
  BY <1>1, <1>3, BrowserKept DEF browserVars, ExtInv, BrowserInv, Confirmed
<1> QED
  BY <1>1, <1>3, <1>4, NoCallMoves DEF authVars

(* The user logs in to Authentik or out of it, or deletes the cookie.      *)
LEMMA BrowserStepInv ==
    ASSUME ExtInv, NEW b \in Browser,
           \/ AuthentikLogout(b) \/ DeleteCookie(b)
           \/ \E u \in User : CompleteLogin(b, u)
    PROVE  ExtInv'
<1>1. UNCHANGED <<authVars, check, secret, loaded>>
  BY DEF AuthentikLogout, DeleteCookie, CompleteLogin
<1>2. AuthTypeOK' /\ UNCHANGED req /\ [AuthNext]_authVars
  BY <1>1 DEF authVars, storeVars, ExtInv, ExtTypeOK, AuthTypeOK, AuthTypes, StoreTypeOK, Linked
<1>3. /\ login' \in [Browser -> User \cup {None}] /\ pkce' \in [Browser -> BOOLEAN]
      /\ seen' \in [Browser -> [User -> -1 .. MaxTime]] /\ SeenGrows
      /\ \A a \in Browser : login'[a] # None => seen'[a][login'[a]] # -1
  <2>1. /\ login \in [Browser -> User \cup {None}] /\ pkce \in [Browser -> BOOLEAN]
        /\ seen \in [Browser -> [User -> -1 .. MaxTime]] /\ now \in Nat /\ now \in -1 .. MaxTime
        /\ \A a \in Browser : login[a] # None => seen[a][login[a]] # -1
    BY StoreAssumption DEF ExtInv, ExtTypeOK, AuthTypeOK, AuthTypes, StoreTypeOK, BrowserInv, Confirmed
  <2>2. CASE AuthentikLogout(b)
    BY <2>1, <2>2 DEF AuthentikLogout, SeenGrows, Confirmed
  <2>3. CASE DeleteCookie(b)
    BY <2>1, <2>3 DEF DeleteCookie, SeenGrows, Confirmed
  <2>4. ASSUME NEW u \in User, CompleteLogin(b, u)
        PROVE  /\ login' \in [Browser -> User \cup {None}] /\ pkce' \in [Browser -> BOOLEAN]
               /\ seen' \in [Browser -> [User -> -1 .. MaxTime]] /\ SeenGrows
               /\ \A a \in Browser : login'[a] # None => seen'[a][login'[a]] # -1
    <3>1. /\ login' = [login EXCEPT ![b] = u] /\ pkce' = [pkce EXCEPT ![b] = FALSE]
          /\ seen' = [seen EXCEPT ![b][u] = now]
      BY <2>4 DEF CompleteLogin
    <3>2. \A a \in Browser, v \in User :
              seen'[a][v] = IF a = b /\ v = u THEN now ELSE seen[a][v]
      BY <2>1, <3>1
    <3>3. now # -1
      BY <2>1
    <3> QED
      BY <2>1, <3>1, <3>2, <3>3 DEF SeenGrows, Confirmed
  <2> QED
    BY <2>2, <2>3, <2>4
<1>4. \A a \in Browser : jar'[a] = jar[a] \/ jar'[a] = NoCookie
  BY DEF AuthentikLogout, DeleteCookie, CompleteLogin, ExtInv, ExtTypeOK
<1>5. jar' \in [Browser -> Cookie]
  <2>1. NoCookie \in Cookie
    BY ExtAuthAssumption DEF NoCookie, Cookie
  <2> QED
    BY <2>1 DEF AuthentikLogout, DeleteCookie, CompleteLogin, ExtInv, ExtTypeOK
<1>6. ExtTypeOK'
  <2>1. bare' \in [Browser -> 0 .. MaxTime]
    BY DEF AuthentikLogout, DeleteCookie, CompleteLogin, ExtInv, ExtTypeOK, AuthTypeOK,
           AuthTypes, StoreTypeOK
  <2> QED
    BY <1>1, <1>2, <1>3, <1>5, <2>1 DEF ExtInv, ExtTypeOK
<1>7. ASSUME NEW a \in Browser
      PROVE  BrowserInv(a)'
  <2>1. CASE jar'[a] = jar[a]
    BY <1>2, <1>3, <2>1, BrowserKept
  <2>2. CASE jar'[a] = NoCookie
    <3>1. \A r \in sessions' : r.sid # jar'[a].sid
      BY <1>2, <2>2, OwnersKept DEF NoCookie, ExtInv
    <3> QED
      BY <1>3, <2>2, <3>1 DEF BrowserInv, NoCookie, RowsOf, Confirmed
  <2> QED
    BY <1>4, <2>1, <2>2
<1> QED
  BY <1>1, <1>2, <1>3, <1>6, <1>7, NoCallMoves
-----------------------------------------------------------------------------
LEMMA ExtInitInv == ExtInit => ExtInv
<1> SUFFICES ASSUME ExtInit
             PROVE  ExtInv
  OBVIOUS
<1>1. AuthInv /\ AuthTypeOK
  BY AuthInitInv DEF ExtInit, AuthInv, AuthTypeOK, ReqInv
<1>2. sessions = {} /\ req = [c \in Call |-> NoReq]
  BY DEF ExtInit, AuthInit, StoreInit
<1>3. ExtTypeOK
  <2>1. /\ NoCookie \in Cookie /\ 0 \in 0 .. MaxKey /\ -1 \in -1 .. MaxTime
        /\ 0 \in 0 .. MaxTime
    BY ExtAuthAssumption, StoreAssumption DEF NoCookie, Cookie
  <2> QED
    BY <1>1, <2>1, NoCheckType DEF ExtInit, ExtTypeOK
<1>4. \A c \in Call : RequestInv(c)
  BY <1>2 DEF ExtInit, RequestInv, NoCheck, NoReq
<1>5. \A b \in Browser : BrowserInv(b)
  BY <1>2 DEF ExtInit, BrowserInv, NoCookie, RowsOf
<1> QED
  BY <1>1, <1>3, <1>4, <1>5 DEF ExtInv

LEMMA ExtNextInv == ExtInv /\ [ExtNext]_extVars => ExtInv'
<1> SUFFICES ASSUME ExtInv, [ExtNext]_extVars
             PROVE  ExtInv'
  OBVIOUS
<1>1. CASE UNCHANGED extVars
  <2>1. UNCHANGED <<check, browserVars, seen, bare, secret, loaded, req>> /\ [AuthNext]_authVars
    BY <1>1 DEF extVars, authVars
  <2>2. AuthInv' /\ ExtTypeOK' /\ SeenGrows
    BY <2>1, OwnersKept DEF browserVars, ExtInv, ExtTypeOK, AuthInv, AuthTypeOK, ReqInv, SeenGrows, Confirmed
  <2>3. \A b \in Browser : BrowserInv(b)'
    BY <2>1, <2>2, BrowserKept DEF browserVars, ExtInv, BrowserInv, Confirmed
  <2> QED
    BY <2>1, <2>2, <2>3, NoCallMoves
<1>2. ASSUME NEW c \in Call, Serving(c)
      PROVE  ExtInv'
  BY <1>2, AcceptsInv, RefusesInv, ProgressInv, EndsInv DEF Serving
<1>3. CASE ExtTime \/ Inside(GhostWrites) \/ RotateSecret
           \/ \E u \in User : Inside(StaffChange(u))
  BY <1>3, TimeInv, OutsiderInv, SecretInv
<1>4. ASSUME NEW c \in Call, Restart(c) \/ \E b \in Browser : Receive(c, b)
      PROVE  ExtInv'
  BY <1>4, SecretInv, ReceiveInv
<1>5. ASSUME NEW b \in Browser,
             AuthentikLogout(b) \/ DeleteCookie(b) \/ \E u \in User : CompleteLogin(b, u)
      PROVE  ExtInv'
  BY <1>5, BrowserStepInv
<1> QED
  BY <1>1, <1>2, <1>3, <1>4, <1>5 DEF ExtNext
-----------------------------------------------------------------------------
(* The theorems.                                                           *)

(* The inductive invariant of the whole system.                            *)
THEOREM ExtInvariant == ExtSpec => []ExtInv
  BY ExtInitInv, ExtNextInv, PTL DEF ExtSpec

(* The server and its surroundings use EnsureSession as AuthService allows,*)
(* so that what AuthServiceProofs and ServiceProofs show holds behind      *)
(* Envoy too (Check).                                                      *)
THEOREM ExtIsAuthClient == ExtSpec => AuthSpec
<1>1. ExtInit => AuthInit
  BY DEF ExtInit
<1>2. ExtInv => ExtTypeOK
  BY DEF ExtInv
<1> QED
  BY <1>1, <1>2, ExtStepIsAuthStep, ExtInvariant, PTL DEF ExtSpec, AuthSpec

(* Checks, cookies and secrets keep their types.                           *)
THEOREM ExtTypeCorrect == ExtSpec => []ExtTypeOK
<1>1. ExtInv => ExtTypeOK
  BY DEF ExtInv
<1> QED
  BY <1>1, ExtInvariant, PTL

(* No browser is ever given a session of a user who has not logged in to   *)
(* Authentik from it, whatever races or failures there are (Check).        *)
THEOREM IdentityConfirmed == ExtSpec => []CookieIsConfirmed
<1>1. ExtInv => CookieIsConfirmed
  BY DEF ExtInv, BrowserInv, Confirmed, CookieIsConfirmed
<1> QED
  BY <1>1, ExtInvariant, PTL
=============================================================================
