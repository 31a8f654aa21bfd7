---------------------------- MODULE CookieProofs ----------------------------
(***************************************************************************)
(* How long a cookie outlives the Authentik session it was planted for,    *)
(* the browser's lack of a cookie, and the row it names.  The first        *)
(* invariant is a chain of delays: each phase of a call begins at most so  *)
(* many latencies after its browser was last logged in as the user the     *)
(* call works for, and last sent no ghost cookie.  The second compares     *)
(* every row with the instant at which a cookie was planted for it.        *)
(***************************************************************************)
EXTENDS ExtAuthProofs

(* What a call that may plant a cookie has seen of its browser was true at *)
(* its start, or later: that it was logged in as the user the call works   *)
(* for, and that it sent no cookie.                                        *)
Earlier(s, t) == IF s <= t THEN s ELSE t

LastSeen(c) ==
    Earlier(seen[check[c].browser][check[c].login], bare[check[c].browser])

LagInv(c) ==
    /\ check[c].phase = "authentik" /\ check[c].login # None /\ ~check[c].hasCookie =>
          check[c].since <= LastSeen(c) /\ now <= check[c].since + MaxLag
    /\ req[c].phase = "user" =>
          check[c].since <= LastSeen(c) + MaxLag /\ now <= check[c].since + MaxLag
    /\ req[c].phase = "store" =>
          op[c].since <= LastSeen(c) + (2 + Steps(op[c].pc)) * MaxLag
    /\ req[c].phase = "cookie" => now <= LastSeen(c) + 6 * MaxLag

SeenSoFar(b) ==
    /\ \A u \in User : seen[b][u] <= now
    /\ login[b] # None => seen[b][login[b]] = now
    /\ bare[b] <= now
    /\ ~Sends(b) => bare[b] = now

JarLag(b) ==
    /\ jar[b].sid # None => jar[b].expires <= bare[b] + jar[b].maxAge + 6 * MaxLag
    /\ \A r \in RowsOf(jar[b].sid) :
          jar[b].expires <= seen[b][r.user] + jar[b].maxAge + 6 * MaxLag

LogoutInv ==
    /\ ExtInv
    /\ \A c \in Call : LagInv(c)
    /\ \A b \in Browser : SeenSoFar(b) /\ JarLag(b)

SeenLater ==
    \A b \in Browser :
        /\ bare'[b] \in Int /\ bare[b] <= bare'[b]
        /\ \A u \in User : seen'[b][u] \in Int /\ seen[b][u] <= seen'[b][u]

LEMMA LagTypes ==
    ASSUME ExtInv
    PROVE  /\ now \in Nat /\ MaxLag \in Nat
           /\ \A b \in Browser : bare[b] \in Int /\ \A u \in User : seen[b][u] \in Int
           /\ \A b \in Browser : jar[b].expires \in Int /\ jar[b].maxAge \in Nat
           /\ \A b \in Browser : login[b] \in User \cup {None}
           /\ \A c \in Call : check[c].since \in Nat /\ op[c].since \in Nat
<1>1. /\ now \in Nat /\ MaxLag \in Nat /\ op \in [Call -> Op]
  BY StoreAssumption DEF ExtInv, ExtTypeOK, AuthTypeOK, AuthTypes, StoreTypeOK
<1>2. /\ check \in [Call -> Check] /\ jar \in [Browser -> Cookie]
      /\ seen \in [Browser -> [User -> -1 .. MaxTime]] /\ login \in [Browser -> User \cup {None}]
      /\ bare \in [Browser -> 0 .. MaxTime]
  BY DEF ExtInv, ExtTypeOK
<1>3. \A b \in Browser : bare[b] \in Int /\ \A u \in User : seen[b][u] \in Int
  BY <1>2, StoreAssumption
<1>4. \A c \in Call : check[c].since \in Nat /\ op[c].since \in Nat
  BY <1>1, <1>2 DEF Check, Op
<1>5. \A b \in Browser : jar[b].expires \in Int /\ jar[b].maxAge \in Nat
  BY <1>2 DEF Cookie
<1> QED
  BY <1>1, <1>2, <1>3, <1>4, <1>5

(* Whom a call that may still plant a cookie works for.                    *)
LEMMA AsksFor ==
    ASSUME ExtInv, NEW c \in Call,
           \/ check[c].phase = "authentik" /\ check[c].login # None
           \/ req[c].phase # "idle"
    PROVE  /\ check[c].browser \in Browser /\ check[c].login \in User /\ LastSeen(c) \in Int
           /\ LastSeen(c) <= seen[check[c].browser][check[c].login]
           /\ LastSeen(c) <= bare[check[c].browser]
<1>1. check[c] \in Check /\ RequestInv(c)
  BY DEF ExtInv, ExtTypeOK
<1>2. check[c].browser \in Browser /\ check[c].login \in User
  BY <1>1 DEF RequestInv, Check
<1> QED
  BY <1>2, LagTypes DEF LastSeen, Earlier

-----------------------------------------------------------------------------
(* What a step leaves alone keeps its delay.                               *)

LEMMA EarlierGrows ==
    ASSUME NEW s \in Int, NEW t \in Int, NEW p \in Int, NEW q \in Int, s <= p, t <= q
    PROVE  Earlier(p, q) \in Int /\ Earlier(s, t) <= Earlier(p, q)
  BY DEF Earlier

(* The instants a call relies on only move forward.                        *)
LEMMA LastSeenGrows ==
    ASSUME ExtInv, SeenLater, NEW d \in Call, check'[d] = check[d],
           (check[d].phase = "authentik" /\ check[d].login # None) \/ req[d].phase # "idle"
    PROVE  LastSeen(d)' \in Int /\ LastSeen(d) <= LastSeen(d)'
<1>1. PICK b \in Browser, u \in User : b = check[d].browser /\ u = check[d].login
  BY AsksFor
<1>2. /\ seen[b][u] \in Int /\ bare[b] \in Int /\ seen'[b][u] \in Int /\ bare'[b] \in Int
      /\ seen[b][u] <= seen'[b][u] /\ bare[b] <= bare'[b]
  BY LagTypes DEF SeenLater
<1>3. /\ Earlier(seen'[b][u], bare'[b]) \in Int
      /\ Earlier(seen[b][u], bare[b]) <= Earlier(seen'[b][u], bare'[b])
  BY <1>2, EarlierGrows
<1> QED
  BY <1>1, <1>3 DEF LastSeen, Earlier

LEMMA LagKept ==
    ASSUME LogoutInv, now' = now, SeenLater,
           NEW d \in Call, check'[d] = check[d], req'[d] = req[d], op'[d] = op[d]
    PROVE  LagInv(d)'
<1> DEFINE last == LastSeen(d)
           next == LastSeen(d)'
           k == 2 + Steps(op[d].pc)
<1>1. LagInv(d) /\ ExtInv
  BY DEF LogoutInv
<1>2. CASE (check[d].phase = "authentik" /\ check[d].login # None) \/ req[d].phase # "idle"
  <2>1. last \in Int /\ next \in Int /\ last <= next
    BY <1>1, <1>2, AsksFor, LastSeenGrows
  <2>2. /\ check[d].since \in Nat /\ op[d].since \in Nat /\ now \in Nat /\ MaxLag \in Nat
        /\ k \in {2, 3, 4, 5}
    BY <1>1, LagTypes DEF Steps
  <2> HIDE DEF last, next, k
  <2>3. \A t \in Int, m \in Int : t <= last + m => t <= next + m
    BY <2>1
  <2>4. k * MaxLag \in Int
    BY <2>2
  <2>5. /\ check[d].since <= last => check[d].since <= next
        /\ check[d].since <= last + MaxLag => check[d].since <= next + MaxLag
        /\ op[d].since <= last + k * MaxLag => op[d].since <= next + k * MaxLag
        /\ now <= last + 6 * MaxLag => now <= next + 6 * MaxLag
    BY <2>1, <2>2, <2>3, <2>4
  <2> QED
    BY <1>1, <2>5 DEF LagInv, last, next, k
<1>3. CASE ~(check[d].phase = "authentik" /\ check[d].login # None) /\ req[d].phase = "idle"
  BY <1>3 DEF LagInv
<1> QED
  BY <1>2, <1>3

LEMMA JarLagKept ==
    ASSUME LogoutInv, [AuthNext]_authVars, SeenLater, NEW b \in Browser, jar'[b] = jar[b]
    PROVE  JarLag(b)'
<1>1. ExtInv /\ AuthInv /\ JarLag(b) /\ BrowserInv(b)
  BY DEF LogoutInv, ExtInv
<1>a. jar[b].sid # None => jar[b].expires <= bare'[b] + jar[b].maxAge + 6 * MaxLag
  <2>1. /\ bare[b] \in Int /\ bare'[b] \in Int /\ bare[b] <= bare'[b]
        /\ jar[b].expires \in Int /\ jar[b].maxAge \in Nat /\ MaxLag \in Nat
    BY <1>1, LagTypes DEF SeenLater
  <2>2. jar[b].sid # None => jar[b].expires <= bare[b] + jar[b].maxAge + 6 * MaxLag
    BY <1>1 DEF JarLag
  <2> QED
    BY <2>1, <2>2
<1> SUFFICES ASSUME NEW r \in sessions', r.sid = jar[b].sid
             PROVE  jar[b].expires <= seen'[b][r.user] + jar[b].maxAge + 6 * MaxLag
  BY <1>a DEF JarLag, RowsOf
<1>2. r.user \in User /\ r.sid \in used
  BY <1>1, OwnersKept DEF BrowserInv
<1>3. \E q \in RowsOf(r.sid) : q.user = r.user
  BY <1>1, <1>2, OwnersKept
<1>4. jar[b].expires <= seen[b][r.user] + jar[b].maxAge + 6 * MaxLag
  BY <1>1, <1>3 DEF JarLag
<1>5. seen[b][r.user] <= seen'[b][r.user] /\ seen'[b][r.user] \in Int
  BY <1>2 DEF SeenLater
<1> QED
  BY <1>1, <1>2, <1>4, <1>5, LagTypes

(* A step of call c that takes no time.                                    *)
LEMMA CallLag ==
    ASSUME LogoutInv, [AuthNext]_authVars, ExtInv', now' = now, UNCHANGED <<login, seen, bare>>,
           NEW c \in Call, LagInv(c)',
           \A d \in Call \ {c} : check'[d] = check[d] /\ req'[d] = req[d] /\ op'[d] = op[d],
           \A b \in Browser : jar'[b] = jar[b] \/ (JarLag(b)' /\ Sends(b)')
    PROVE  LogoutInv'
<1>1. SeenLater
  BY LagTypes DEF SeenLater, LogoutInv
<1>2. \A d \in Call : LagInv(d)'
  BY <1>1, LagKept
<1>3. \A b \in Browser : JarLag(b)'
  BY <1>1, JarLagKept
<1>4. ASSUME NEW b \in Browser
      PROVE  SeenSoFar(b)'
  <2>1. SeenSoFar(b) /\ (Sends(b)' \/ jar'[b] = jar[b])
    BY DEF LogoutInv
  <2> QED
    BY <2>1 DEF SeenSoFar, Sends
<1> QED
  BY <1>2, <1>3, <1>4 DEF LogoutInv

-----------------------------------------------------------------------------
(* The steps of a call.                                                    *)

LEMMA ReceiveLag ==
    ASSUME LogoutInv, [AuthNext]_authVars, ExtInv', NEW c \in Call, NEW b \in Browser, Receive(c, b)
    PROVE  LogoutInv'
<1>1. /\ UNCHANGED <<now, req, op, jar, login, seen, bare>> /\ req[c].phase = "idle"
      /\ check' = [check EXCEPT ![c] =
            [phase |-> "authentik", browser |-> b, login |-> login[b], hasCookie |-> Sends(b),
             since |-> now]]
  BY DEF Receive, authVars, storeVars, browserVars
<1>2. /\ check'[c].browser = b /\ check'[c].login = login[b] /\ check'[c].since = now
      /\ check'[c].hasCookie = Sends(b)
      /\ \A d \in Call \ {c} : check'[d] = check[d]
  BY <1>1 DEF LogoutInv, ExtInv, ExtTypeOK
<1>3. ASSUME login[b] # None, ~Sends(b)
      PROVE  LastSeen(c)' = now
  BY <1>1, <1>2, <1>3 DEF LastSeen, Earlier, LogoutInv, SeenSoFar
<1>4. LagInv(c)'
  BY <1>1, <1>2, <1>3, LagTypes DEF LagInv, LogoutInv
<1> QED
  BY <1>1, <1>2, <1>4, CallLag

LEMMA AcceptsLag ==
    ASSUME LogoutInv, [AuthNext]_authVars, ExtInv', NEW c \in Call, AuthentikAccepts(c)
    PROVE  LogoutInv'
<1>1. /\ UNCHANGED <<now, op, jar, login, seen, bare>>
      /\ check[c].phase = "authentik" /\ check[c].login # None
      /\ check' = [check EXCEPT ![c].phase = "service", ![c].since = now]
      /\ EnsureSession(c, check[c].login, check[c].hasCookie)
  BY DEF AuthentikAccepts, EnsureSession, storeVars, browserVars
<1>2. /\ check'[c].phase = "service" /\ check'[c].since = now
      /\ check'[c].browser = check[c].browser /\ check'[c].login = check[c].login
      /\ \A d \in Call \ {c} : check'[d] = check[d]
  BY <1>1 DEF LogoutInv, ExtInv, ExtTypeOK, Check
<1>3. /\ req'[c].phase = IF check[c].hasCookie THEN "pass" ELSE "user"
      /\ \A d \in Call \ {c} : req'[d] = req[d]
  BY <1>1 DEF EnsureSession, LogoutInv, ExtInv, ExtTypeOK, AuthTypeOK, AuthTypes
<1>4. /\ ~check[c].hasCookie => now <= LastSeen(c) + MaxLag
      /\ LastSeen(c) \in Int
  BY <1>1, LagTypes, AsksFor DEF LogoutInv, LagInv
<1>5. LastSeen(c)' = LastSeen(c)
  BY <1>1, <1>2 DEF LastSeen, Earlier
<1>6. LagInv(c)'
  BY <1>1, <1>2, <1>3, <1>4, <1>5, LagTypes DEF LagInv, LogoutInv
<1> QED
  BY <1>1, <1>2, <1>3, <1>6, CallLag

LEMMA RefusesLag ==
    ASSUME LogoutInv, [AuthNext]_authVars, ExtInv', NEW c \in Call,
           AuthentikRedirects(c) \/ AuthentikFails(c)
    PROVE  LogoutInv'
<1>1. /\ UNCHANGED <<now, op, req, jar, login, seen, bare>>
      /\ check[c].phase = "authentik" /\ check' = [check EXCEPT ![c] = NoCheck]
  BY DEF AuthentikRedirects, AuthentikFails, Ends, authVars, storeVars, browserVars
<1>2. check'[c] = NoCheck /\ \A d \in Call \ {c} : check'[d] = check[d]
  BY <1>1 DEF LogoutInv, ExtInv, ExtTypeOK
<1>3. req'[c].phase = "idle"
  BY <1>1 DEF LogoutInv, ExtInv, RequestInv
<1>4. LagInv(c)'
  BY <1>2, <1>3 DEF LagInv, NoCheck
<1> QED
  BY <1>1, <1>2, <1>4, CallLag

(* Delays add up, one latency a phase.                                     *)
LEMMA OneMoreLag ==
    ASSUME NEW lag \in Nat, NEW last \in Int, NEW since \in Int, NEW t \in Int,
           NEW k \in 0 .. 3, NEW l \in 0 .. 4, l >= k + 1,
           since <= last + (2 + k) * lag, t <= since + lag
    PROVE  t <= last + (2 + l) * lag
  OBVIOUS

LEMMA StoreLag ==
    ASSUME LogoutInv, NEW c \in Call, req[c].phase = "store"
    PROVE  /\ op[c].since <= LastSeen(c) + (2 + Steps(op[c].pc)) * MaxLag
           /\ now <= op[c].since + MaxLag /\ Steps(op[c].pc) \in 0 .. 3
           /\ LastSeen(c) \in Int
           /\ now \in Nat /\ MaxLag \in Nat /\ op[c].since \in Nat
<1>1. Recent(c) /\ Linked(c) /\ LagInv(c) /\ ExtInv
  BY DEF LogoutInv, ExtInv, AuthInv, StoreInv, CallInv, ReqInv
<1>2. Steps(op[c].pc) \in 0 .. 3
  BY DEF Steps
<1> QED
  BY <1>1, <1>2, LagTypes, AsksFor DEF Recent, Linked, LagInv

LEMMA ProgressLag ==
    ASSUME LogoutInv, [AuthNext]_authVars, ExtInv', NEW c \in Call, Inside(Progress(c))
    PROVE  LogoutInv'
<1>1. /\ UNCHANGED <<check, jar, login, seen, bare>> /\ Progress(c)
      /\ LastSeen(c)' = LastSeen(c)
  BY DEF Inside, browserVars, LastSeen, Earlier
<1>2. /\ req \in [Call -> Req] /\ op \in [Call -> Op] /\ Linked(c) /\ LagInv(c) /\ ExtInv
      /\ AuthInv
  BY DEF LogoutInv, ExtInv, ExtTypeOK, AuthTypeOK, AuthTypes, StoreTypeOK, AuthInv, ReqInv
<1>3. ASSUME now' = now, req'[c].phase \in {"unauthorized", "error"},
             \A d \in Call \ {c} : req'[d] = req[d] /\ op'[d] = op[d], req[c].phase # "idle"
      PROVE  LogoutInv'
  <2>1. check[c].phase = "service"
    BY <1>3 DEF LogoutInv, ExtInv, RequestInv
  <2>2. LagInv(c)'
    BY <1>1, <1>3, <2>1 DEF LagInv
  <2> QED
    BY <1>1, <1>3, <2>2, CallLag
<1>4. CASE NotStaff(c) \/ UserQueryFails(c)
  <2>1. PICK p \in {"unauthorized", "error"} : Answers(c, p, None)
    BY <1>4 DEF NotStaff, UserQueryFails
  <2>2. req'[c].phase \in {"unauthorized", "error"} /\ \A d \in Call \ {c} : req'[d] = req[d]
    BY <1>2, <2>1 DEF Answers, Req
  <2>3. UNCHANGED <<now, op>> /\ req[c].phase # "idle"
    BY <1>4 DEF NotStaff, UserQueryFails, storeVars
  <2> QED
    BY <1>3, <2>2, <2>3
<1>5. CASE StoreError(c)
  <2>1. req'[c].phase \in {"unauthorized", "error"} /\ \A d \in Call \ {c} : req'[d] = req[d]
    BY <1>2, <1>5 DEF StoreError, Answers, Req
  <2>2. now' = now /\ (\A d \in Call \ {c} : op'[d] = op[d]) /\ req[c].phase # "idle"
    BY <1>2, <1>5 DEF StoreError, Return, Linked
  <2> QED
    BY <1>3, <2>1, <2>2
<1>6. ASSUME now' = now, req'[c].phase = "store", op'[c].since = now,
             \A d \in Call \ {c} : req'[d] = req[d] /\ op'[d] = op[d],
             now <= LastSeen(c) + (2 + Steps(op'[c].pc)) * MaxLag, req[c].phase # "idle"
      PROVE  LogoutInv'
  <2>1. check[c].phase = "service"
    BY <1>6 DEF LogoutInv, ExtInv, RequestInv
  <2>2. LagInv(c)'
    BY <1>1, <1>6, <2>1 DEF LagInv
  <2> QED
    BY <1>1, <1>6, <2>2, CallLag
<1>7. CASE StaffActive(c)
  <2>1. /\ now' = now /\ req'[c].phase = "store" /\ req[c].phase = "user"
        /\ \A d \in Call \ {c} : req'[d] = req[d] /\ op'[d] = op[d]
        /\ op'[c].since = now /\ op'[c].pc = "select"
    BY <1>2, <1>7 DEF StaffActive, FindByUserID, Invoke, Req
  <2>2. now <= LastSeen(c) + 2 * MaxLag
    BY <1>2, <2>1, LagTypes, AsksFor DEF LagInv
  <2>3. Steps(op'[c].pc) = 0
    BY <2>1 DEF Steps
  <2> QED
    BY <1>2, <1>6, <2>1, <2>2, <2>3, LagTypes
<1>8. CASE Statement(c) \/ CreateAfterMiss(c)
  <2>1. /\ now' = now /\ UNCHANGED req /\ op'[c].since = now /\ op[c].pc # "idle"
        /\ \A d \in Call \ {c} : op'[d] = op[d]
        /\ Steps(op'[c].pc) >= Steps(op[c].pc) + 1
    <3>1. CASE Statement(c)
      BY <1>2, <3>1, StatementShape
    <3>2. CASE CreateAfterMiss(c)
      BY <1>2, <3>2 DEF CreateAfterMiss, Create, Invoke, Steps
    <3> QED
      BY <1>8, <3>1, <3>2
  <2>2. req[c].phase = "store"
    BY <1>2, <2>1 DEF Linked
  <2>3. Steps(op'[c].pc) \in 0 .. 4
    BY DEF Steps
  <2>4. now <= LastSeen(c) + (2 + Steps(op'[c].pc)) * MaxLag
    BY <2>1, <2>2, <2>3, StoreLag, OneMoreLag
  <2> QED
    BY <1>6, <2>1, <2>2, <2>4
<1>9. CASE ServeSession(c)
  <2>1. /\ now' = now /\ (\A d \in Call \ {c} : req'[d] = req[d] /\ op'[d] = op[d])
        /\ req'[c].phase = "cookie" /\ req[c].phase = "store"
    BY <1>2, <1>9 DEF ServeSession, Return, Answers, Req, Linked
  <2>2. now <= LastSeen(c) + (2 + 4) * MaxLag
    BY <2>1, StoreLag, OneMoreLag
  <2>3. check[c].phase = "service"
    BY <2>1 DEF LogoutInv, ExtInv, RequestInv
  <2>4. LagInv(c)'
    BY <1>1, <2>1, <2>2, <2>3 DEF LagInv
  <2> QED
    BY <1>1, <2>1, <2>4, CallLag
<1> QED
  BY <1>1, <1>4, <1>5, <1>7, <1>8, <1>9 DEF Progress

LEMMA EndsLag ==
    ASSUME LogoutInv, [AuthNext]_authVars, ExtInv', NEW c \in Call,
           PassThrough(c) \/ PlantCookie(c) \/ AnswerLost(c)
    PROVE  LogoutInv'
<1>1. /\ UNCHANGED <<login, seen, bare>> /\ Finish(c) /\ check' = [check EXCEPT ![c] = NoCheck]
  BY DEF PassThrough, PlantCookie, AnswerLost, Ends, browserVars
<1>2. UNCHANGED <<now, sessions, op>> /\ req' = [req EXCEPT ![c] = NoReq]
  BY <1>1 DEF Finish, storeVars
<1>3. /\ check'[c] = NoCheck /\ req'[c] = NoReq
      /\ \A d \in Call \ {c} : check'[d] = check[d] /\ req'[d] = req[d]
  BY <1>1, <1>2 DEF LogoutInv, ExtInv, ExtTypeOK, AuthTypeOK, AuthTypes
<1>4. LagInv(c)'
  BY <1>3 DEF LagInv, NoCheck, NoReq
<1>5. CASE UNCHANGED jar
  BY <1>1, <1>2, <1>3, <1>4, <1>5, CallLag
<1>6. CASE PlantCookie(c)
  <2> DEFINE b == check[c].browser
             new == SetCookie(req[c].sid, c)
  <2>1. req[c].phase = "cookie" /\ jar' = [jar EXCEPT ![b] = new]
    BY <1>6 DEF PlantCookie
  <2>2. /\ RequestInv(c) /\ LagInv(c) /\ ExtInv
    BY DEF LogoutInv, ExtInv
  <2>3. /\ req[c].user = check[c].login /\ \A r \in RowsOf(req[c].sid) : r.user = req[c].user
        /\ now <= LastSeen(c) + 6 * MaxLag /\ LastSeen(c) \in Int
        /\ LastSeen(c) <= seen[b][check[c].login] /\ LastSeen(c) <= bare[b]
        /\ b \in Browser /\ check[c].login \in User /\ req[c].sid \in used
    BY <2>1, <2>2, AsksFor DEF RequestInv, LagInv
  <2>a. /\ now <= seen[b][check[c].login] + 6 * MaxLag /\ now <= bare[b] + 6 * MaxLag
        /\ seen[b][check[c].login] \in Int /\ bare[b] \in Int
    BY <2>2, <2>3, LagTypes
  <2>4. /\ new.sid = req[c].sid /\ new.expires = now + MaxAge[c] /\ new.maxAge = MaxAge[c]
        /\ MaxAge[c] \in Nat /\ MaxAge[c] > 0 /\ new.sid # None
    BY <2>2, <2>3, StoreAssumption DEF SetCookie, ExtInv, ExtTypeOK, AuthTypeOK, AuthTypes, StoreTypeOK
  <2> HIDE DEF new
  <2>5. ASSUME NEW a \in Browser
        PROVE  jar'[a] = jar[a] \/ (JarLag(a)' /\ Sends(a)')
    <3>1. CASE a # b
      BY <2>1, <2>2, <3>1 DEF ExtInv, ExtTypeOK
    <3>2. CASE a = b
      <4>1. jar'[a] = new
        BY <2>1, <2>2, <3>2 DEF ExtInv, ExtTypeOK
      <4>2. ASSUME NEW r \in sessions, r.sid = new.sid
            PROVE  new.expires <= seen[a][r.user] + new.maxAge + 6 * MaxLag
        <5>1. r.user = check[c].login
          BY <2>3, <2>4, <4>2 DEF RowsOf
        <5> QED
          BY <2>2, <2>a, <2>4, <3>2, <5>1, LagTypes
      <4>3. new.expires <= bare[a] + new.maxAge + 6 * MaxLag
        BY <2>2, <2>a, <2>4, <3>2, LagTypes
      <4>4. now < new.expires
        BY <2>2, <2>4, LagTypes
      <4> QED
        BY <1>1, <1>2, <2>4, <4>1, <4>2, <4>3, <4>4 DEF JarLag, RowsOf, Sends
    <3> QED
      BY <3>1, <3>2
  <2> QED
    BY <1>1, <1>2, <1>3, <1>4, <2>5, CallLag
<1> QED
  BY <1>5, <1>6 DEF PassThrough, AnswerLost, browserVars

-----------------------------------------------------------------------------
(* The steps of the environment.                                           *)

LEMMA TimeLag ==
    ASSUME LogoutInv, [AuthNext]_authVars, ExtInv', ExtTime
    PROVE  LogoutInv'
<1>1. /\ UNCHANGED <<check, req, op, jar, login>> /\ now' = now + 1
      /\ seen' = [b \in Browser |->
                    [u \in User |-> IF login[b] = u THEN now' ELSE seen[b][u]]]
      /\ bare' = [b \in Browser |-> IF jar[b].sid # None /\ now' < jar[b].expires
                                    THEN bare[b] ELSE now']
      /\ \A c \in Call :
            /\ check[c].phase = "authentik" \/ req[c].phase = "user"
                  => now < check[c].since + MaxLag
            /\ req[c].phase \notin Answer
  BY DEF ExtTime, ExtHistories, Time, Tick, browserVars
<1>2. ExtInv /\ now \in Nat /\ MaxLag \in Nat
  BY LagTypes DEF LogoutInv
<1>3. \A b \in Browser, u \in User :
          seen'[b][u] = IF login[b] = u THEN now + 1 ELSE seen[b][u]
  BY <1>1
<1>b. \A b \in Browser :
          bare'[b] = IF jar[b].sid # None /\ now + 1 < jar[b].expires THEN bare[b] ELSE now + 1
  BY <1>1
<1>4. SeenLater
  BY <1>2, <1>3, <1>b, LagTypes DEF SeenLater, LogoutInv, SeenSoFar
<1>5. ASSUME NEW b \in Browser
      PROVE  SeenSoFar(b)' /\ JarLag(b)'
  <2>1. SeenSoFar(b)'
    BY <1>1, <1>2, <1>3, <1>b, <1>5, LagTypes DEF SeenSoFar, LogoutInv, Sends
  <2> QED
    BY <1>1, <1>4, <1>5, <2>1, JarLagKept
<1>6. ASSUME NEW c \in Call
      PROVE  LagInv(c)'
  <2> DEFINE last == LastSeen(c)
             next == LastSeen(c)'
  <2>1. CASE (check[c].phase = "authentik" /\ check[c].login # None) \/ req[c].phase # "idle"
    <3>1. last \in Int /\ last <= next /\ next \in Int
      BY <1>1, <1>2, <1>4, <2>1, AsksFor, LastSeenGrows
    <3>2. LagInv(c) /\ check[c].since \in Nat /\ op[c].since \in Nat
      BY <1>2, LagTypes DEF LogoutInv
    <3> HIDE DEF last, next
    <3>3. check[c].phase = "authentik" /\ check[c].login # None /\ ~check[c].hasCookie =>
             check[c].since <= next /\ now + 1 <= check[c].since + MaxLag
      BY <1>1, <1>2, <3>1, <3>2 DEF LagInv, last
    <3>4. req[c].phase = "user" =>
             check[c].since <= next + MaxLag /\ now + 1 <= check[c].since + MaxLag
      BY <1>1, <1>2, <3>1, <3>2 DEF LagInv, last
    <3>5. req[c].phase = "store" => op[c].since <= next + (2 + Steps(op[c].pc)) * MaxLag
      <4>1. Steps(op[c].pc) \in {0, 1, 2, 3}
        BY DEF Steps
      <4> QED
        BY <1>1, <1>2, <3>1, <3>2, <4>1 DEF LagInv, last
    <3>6. req[c].phase # "cookie"
      BY <1>1 DEF Answer
    <3> QED
      BY <1>1, <3>3, <3>4, <3>5, <3>6 DEF LagInv, next
  <2>2. CASE ~(check[c].phase = "authentik" /\ check[c].login # None) /\ req[c].phase = "idle"
    BY <1>1, <2>2 DEF LagInv
  <2> QED
    BY <2>1, <2>2
<1> QED
  BY <1>5, <1>6 DEF LogoutInv

(* A step of the environment that takes no time.                           *)
LEMMA QuietLag ==
    ASSUME LogoutInv, [AuthNext]_authVars, ExtInv', UNCHANGED <<now, check, req, op>>,
           SeenLater, \A b \in Browser : SeenSoFar(b)' /\ (jar'[b] = jar[b] \/ jar'[b] = NoCookie)
    PROVE  LogoutInv'
<1>1. \A c \in Call : LagInv(c)'
  BY LagKept
<1>2. ASSUME NEW b \in Browser, jar'[b] = NoCookie
      PROVE  JarLag(b)'
  <2>1. \A r \in sessions' : r.sid # None
    BY OwnersKept DEF LogoutInv, ExtInv
  <2> QED
    BY <1>2, <2>1 DEF JarLag, RowsOf, NoCookie
<1> QED
  BY <1>1, <1>2, JarLagKept DEF LogoutInv

LEMMA OutsideLag ==
    ASSUME LogoutInv, [AuthNext]_authVars, ExtInv',
           \/ Inside(GhostWrites) \/ RotateSecret \/ UNCHANGED extVars
           \/ \E u \in User : Inside(StaffChange(u))
           \/ \E c \in Call : Restart(c)
    PROVE  LogoutInv'
<1>1. UNCHANGED <<check, jar, login, seen, bare, req>>
  BY DEF Inside, GhostWrites, RotateSecret, StaffChange, Restart, extVars, authVars, browserVars
<1>2. UNCHANGED <<now, op>>
  BY DEF Inside, GhostWrites, Ghost, GhostTouch, GhostDestroy, GhostLogin, RotateSecret,
         StaffChange, Restart, extVars, authVars, storeVars
<1>3. SeenLater /\ \A b \in Browser : SeenSoFar(b)'
  BY <1>1, <1>2, LagTypes DEF SeenLater, SeenSoFar, Sends, LogoutInv
<1> QED
  BY <1>1, <1>2, <1>3, QuietLag

LEMMA BrowserStepLag ==
    ASSUME LogoutInv, [AuthNext]_authVars, ExtInv', NEW b \in Browser,
           \/ AuthentikLogout(b) \/ DeleteCookie(b)
           \/ \E u \in User : CompleteLogin(b, u)
    PROVE  LogoutInv'
<1>1. UNCHANGED <<now, check, req, op>>
  BY DEF AuthentikLogout, DeleteCookie, CompleteLogin, authVars, storeVars
<1>2. \A a \in Browser : jar'[a] = jar[a] \/ jar'[a] = NoCookie
  BY DEF AuthentikLogout, DeleteCookie, CompleteLogin, LogoutInv, ExtInv, ExtTypeOK
<1>3. /\ login \in [Browser -> User \cup {None}] /\ seen \in [Browser -> [User -> -1 .. MaxTime]]
      /\ now \in Nat /\ \A a \in Browser : SeenSoFar(a)
      /\ \A a \in Browser : bare[a] \in Int /\ \A v \in User : seen[a][v] \in Int
      /\ jar \in [Browser -> Cookie] /\ bare \in [Browser -> 0 .. MaxTime]
  BY LagTypes DEF LogoutInv, ExtInv, ExtTypeOK
<1>4. SeenLater /\ \A a \in Browser : SeenSoFar(a)'
  <2>1. CASE AuthentikLogout(b)
    BY <1>1, <1>3, <2>1 DEF AuthentikLogout, SeenLater, SeenSoFar, Sends
  <2>2. CASE DeleteCookie(b)
    <3>1. /\ UNCHANGED <<login, seen>>
          /\ jar' = [jar EXCEPT ![b] = NoCookie] /\ bare' = [bare EXCEPT ![b] = now]
      BY <2>2 DEF DeleteCookie
    <3>2. \A a \in Browser : /\ jar'[a] = IF a = b THEN NoCookie ELSE jar[a]
                             /\ bare'[a] = IF a = b THEN now ELSE bare[a]
      BY <1>3, <3>1
    <3> QED
      BY <1>1, <1>3, <3>1, <3>2 DEF SeenLater, SeenSoFar, Sends, NoCookie
  <2>3. ASSUME NEW u \in User, CompleteLogin(b, u)
        PROVE  SeenLater /\ \A a \in Browser : SeenSoFar(a)'
    <3>1. /\ login' = [login EXCEPT ![b] = u] /\ seen' = [seen EXCEPT ![b][u] = now]
          /\ UNCHANGED <<jar, bare>>
      BY <2>3 DEF CompleteLogin
    <3>2. \A a \in Browser, v \in User :
              seen'[a][v] = IF a = b /\ v = u THEN now ELSE seen[a][v]
      BY <1>3, <3>1
    <3> QED
      BY <1>1, <1>3, <3>1, <3>2 DEF SeenLater, SeenSoFar, Sends
  <2> QED
    BY <2>1, <2>2, <2>3
<1> QED
  BY <1>1, <1>2, <1>4, QuietLag
-----------------------------------------------------------------------------
LEMMA LogoutInitInv == ExtInit => LogoutInv
<1> SUFFICES ASSUME ExtInit
             PROVE  LogoutInv
  OBVIOUS
<1>1. ExtInv /\ sessions = {} /\ now = 0 /\ req = [c \in Call |-> NoReq]
  BY ExtInitInv DEF ExtInit, AuthInit, StoreInit
<1>2. \A c \in Call : LagInv(c)
  BY <1>1 DEF ExtInit, LagInv, NoCheck, NoReq
<1>3. \A b \in Browser : SeenSoFar(b) /\ JarLag(b)
  BY <1>1 DEF ExtInit, SeenSoFar, Sends, JarLag, RowsOf, NoCookie
<1> QED
  BY <1>1, <1>2, <1>3 DEF LogoutInv

LEMMA LogoutNextInv == LogoutInv /\ [ExtNext]_extVars => LogoutInv'
<1> SUFFICES ASSUME LogoutInv, [ExtNext]_extVars
             PROVE  LogoutInv'
  OBVIOUS
<1>1. [AuthNext]_authVars /\ ExtInv'
  BY ExtStepIsAuthStep, ExtNextInv DEF LogoutInv, ExtInv
<1>2. ASSUME NEW c \in Call, Serving(c)
      PROVE  LogoutInv'
  BY <1>1, <1>2, AcceptsLag, RefusesLag, ProgressLag, EndsLag DEF Serving
<1>3. CASE ExtTime
  BY <1>1, <1>3, TimeLag
<1>4. CASE \/ Inside(GhostWrites) \/ RotateSecret \/ UNCHANGED extVars
           \/ \E u \in User : Inside(StaffChange(u))
           \/ \E c \in Call : Restart(c)
  BY <1>1, <1>4, OutsideLag
<1>5. ASSUME NEW c \in Call, NEW b \in Browser, Receive(c, b)
      PROVE  LogoutInv'
  BY <1>1, <1>5, ReceiveLag
<1>6. ASSUME NEW b \in Browser,
             AuthentikLogout(b) \/ DeleteCookie(b) \/ \E u \in User : CompleteLogin(b, u)
      PROVE  LogoutInv'
  BY <1>1, <1>6, BrowserStepLag
<1> QED
  BY <1>2, <1>3, <1>4, <1>5, <1>6 DEF ExtNext
-----------------------------------------------------------------------------
(* After a logout from Authentik, or a switch to another account, a        *)
(* browser sends the former user's cookie for no longer than Max-Age and   *)
(* the six phases of a call the logout may have overtaken (Check).         *)
THEOREM LogoutBounded == ExtSpec => []LogoutIsBounded
<1>1. LogoutInv => LogoutIsBounded
  <2> SUFFICES ASSUME LogoutInv, NEW b \in Browser, Sends(b), NEW r \in RowsOf(jar[b].sid)
               PROVE  now < seen[b][r.user] + jar[b].maxAge + 6 * MaxLag
    BY DEF LogoutIsBounded
  <2>1. now < jar[b].expires /\ JarLag(b) /\ ExtInv
    BY DEF Sends, LogoutInv
  <2>2. r.user \in User
    BY DEF LogoutInv, ExtInv, ExtTypeOK, AuthTypeOK, AuthTypes, StoreTypeOK, RowsOf, Row
  <2> QED
    BY <2>1, <2>2, LagTypes DEF JarLag
<1> QED
  BY <1>1, LogoutInitInv, LogoutNextInv, PTL DEF ExtSpec

(* A browser sends ghost cookies, whether Ghost honours them or not, for   *)
(* no longer than Max-Age and the six phases of a call before it sends     *)
(* none.  A cookie whose row was removed or whose secret was replaced      *)
(* keeps no browser stuck beyond that, and requests in flight do not       *)
(* prolong it (EnsureSession, Check, buildSetCookieHeader).                *)
THEOREM StuckBounded == ExtSpec => []StuckIsBounded
<1>1. LogoutInv => StuckIsBounded
  <2> SUFFICES ASSUME LogoutInv, NEW b \in Browser, Sends(b)
               PROVE  now < bare[b] + jar[b].maxAge + 6 * MaxLag
    BY DEF StuckIsBounded
  <2>1. /\ now < jar[b].expires /\ ExtInv
        /\ jar[b].expires <= bare[b] + jar[b].maxAge + 6 * MaxLag
    BY DEF Sends, LogoutInv, JarLag
  <2> QED
    BY <2>1, LagTypes
<1> QED
  BY <1>1, LogoutInitInv, LogoutNextInv, PTL DEF ExtSpec
-----------------------------------------------------------------------------
(* Rows and cookies.                                                       *)

(* Row r is good for a cookie planted at instant t.                        *)
Matched(r, t) == r.verified /\ r.maxAge >= MinAge /\ t + MinAge <= r.expires + 2 * MaxLag

PlantedAt(b) == jar[b].expires - jar[b].maxAge

AnswerMatched(c) == req[c].phase = "cookie" => \A r \in RowsOf(req[c].sid) : Matched(r, now)

JarMatched(b) == PlantedAt(b) <= now /\ \A r \in RowsOf(jar[b].sid) : Matched(r, PlantedAt(b))

MatchInv ==
    /\ ExtInv
    /\ \A c \in Call : AnswerMatched(c)
    /\ \A b \in Browser : JarMatched(b)

(* No write spoils a row for a cookie planted before it: a touch and a     *)
(* refresh count from the clock, give or take a latency.                   *)
LEMMA StaysMatched ==
    ASSUME ExtInv, [AuthNext]_authVars, NEW s \in used \cup {None}, NEW t \in Int, t <= now,
           \A r \in RowsOf(s) : Matched(r, t)
    PROVE  \A r \in sessions' : r.sid = s => Matched(r, t)
<1> SUFFICES ASSUME NEW r \in sessions', r.sid = s
             PROVE  Matched(r, t)
  OBVIOUS
<1>1. AuthInv /\ StoreInv /\ [StoreNext]_storeVars
  BY StepIsStoreStep DEF ExtInv, AuthInv
<1>2. RowStep
  BY <1>1, NextRows
<1>3. r.sid \in used /\ r \in Row
  BY <1>1, <1>2, OwnersKept DEF RowStep
<1>4. PICK q \in sessions : Derived(r, q, now)
  BY <1>2, <1>3 DEF RowStep
<1>5. Matched(q, t) /\ q \in Row
  BY <1>1, <1>4 DEF Derived, RowsOf, StoreInv, StoreTypeOK
<1>6. /\ r.expires \in Int /\ q.expires \in Int /\ q.maxAge \in Nat /\ now \in Nat
      /\ MaxLag \in Nat /\ MinAge \in Nat
  BY <1>3, <1>5, LagTypes, StoreAssumption DEF Row
<1>7. CASE r = q
  BY <1>5, <1>7
<1>8. CASE r.verified = q.verified /\ r.maxAge = q.maxAge /\ r.expires = now + q.maxAge
  <2>1. q.verified /\ q.maxAge >= MinAge
    BY <1>5 DEF Matched
  <2>2. t + MinAge <= r.expires + 2 * MaxLag
    BY <1>6, <1>8, <2>1
  <2> QED
    BY <1>8, <2>1, <2>2 DEF Matched
<1>9. CASE Fresh(r, now)
  <2>1. t + MinAge <= r.expires + 2 * MaxLag
    BY <1>6, <1>9 DEF Fresh
  <2> QED
    BY <1>9, <2>1 DEF Matched, Fresh
<1> QED
  BY <1>4, <1>7, <1>8, <1>9 DEF Derived

(* Only ServeSession makes a cookie of a session.                          *)
LEMMA AnswerSteps ==
    ASSUME ExtInv, [ExtNext]_extVars, NEW c \in Call, req'[c].phase = "cookie"
    PROVE  /\ now' = now
           /\ \/ req'[c] = req[c]
              \/ /\ HandedOut(c) /\ UNCHANGED sessions
                 /\ req'[c].sid = op[c].sid /\ req'[c].user = op[c].user
<1>1. req \in [Call -> Req] /\ op \in [Call -> Op] /\ Linked(c)
  BY DEF ExtInv, ExtTypeOK, AuthTypeOK, AuthTypes, StoreTypeOK, AuthInv, ReqInv
<1>2. CASE UNCHANGED authVars
  BY <1>2 DEF authVars, storeVars
<1>3. CASE ExtTime
  BY <1>3 DEF ExtTime, Time, Answer
<1>4. CASE Inside(GhostWrites) \/ \E u \in User : Inside(StaffChange(u))
  BY <1>4 DEF Inside, GhostWrites, Ghost, GhostTouch, GhostDestroy, GhostLogin, StaffChange,
              storeVars
<1>5. ASSUME NEW d \in Call, Serving(d)
      PROVE  /\ now' = now
             /\ \/ req'[c] = req[c]
                \/ /\ HandedOut(c) /\ UNCHANGED sessions
                   /\ req'[c].sid = op[c].sid /\ req'[c].user = op[c].user
  <2>1. CASE AuthentikAccepts(d)
    BY <1>1, <2>1 DEF AuthentikAccepts, EnsureSession, storeVars
  <2>2. CASE AuthentikRedirects(d) \/ AuthentikFails(d)
    BY <1>2, <2>2 DEF AuthentikRedirects, AuthentikFails
  <2>3. CASE PassThrough(d) \/ PlantCookie(d) \/ AnswerLost(d)
    <3>1. Finish(d)
      BY <2>3 DEF PassThrough, PlantCookie, AnswerLost
    <3> QED
      BY <1>1, <3>1 DEF Finish, NoReq, storeVars
  <2>4. CASE Inside(Progress(d))
    <3>1. CASE Statement(d)
      BY <3>1, StatementShape DEF ExtInv
    <3>2. CASE CreateAfterMiss(d)
      BY <3>2 DEF CreateAfterMiss, Create, Invoke
    <3>3. CASE StaffActive(d)
      BY <1>1, <3>3 DEF StaffActive, FindByUserID, Invoke, Req
    <3>4. CASE NotStaff(d) \/ UserQueryFails(d)
      BY <1>1, <3>4 DEF NotStaff, UserQueryFails, Answers, Req, storeVars
    <3>5. CASE StoreError(d)
      BY <1>1, <3>5 DEF StoreError, Return, Answers, Req
    <3>6. CASE ServeSession(d)
      BY <1>1, <3>6 DEF ServeSession, Return, Answers, Req, HandedOut, Linked
    <3> QED
      BY <2>4, <3>1, <3>2, <3>3, <3>4, <3>5, <3>6 DEF Inside, Progress
  <2> QED
    BY <1>5, <2>1, <2>2, <2>3, <2>4 DEF Serving
<1>6. CASE RotateSecret \/ \E d \in Call : Restart(d) \/ \E b \in Browser : Receive(d, b)
  BY <1>2, <1>6 DEF RotateSecret, Restart, Receive
<1>7. CASE \E b \in Browser :
              AuthentikLogout(b) \/ DeleteCookie(b) \/ \E u \in User : CompleteLogin(b, u)
  BY <1>2, <1>7 DEF AuthentikLogout, DeleteCookie, CompleteLogin
<1>8. CASE UNCHANGED extVars
  BY <1>2, <1>8 DEF extVars
<1> QED
  BY <1>3, <1>4, <1>5, <1>6, <1>7, <1>8 DEF ExtNext

(* Only PlantCookie puts a cookie into a jar.                              *)
LEMMA JarSteps ==
    ASSUME ExtInv, [ExtNext]_extVars, NEW b \in Browser
    PROVE  \/ jar'[b] = jar[b] \/ jar'[b] = NoCookie
           \/ \E c \in Call : /\ req[c].phase = "cookie" /\ UNCHANGED <<now, sessions>>
                              /\ jar'[b] = SetCookie(req[c].sid, c)
<1>1. jar \in [Browser -> Cookie]
  BY DEF ExtInv, ExtTypeOK
<1>2. ASSUME NEW c \in Call, Serving(c), ~PlantCookie(c)
      PROVE  UNCHANGED jar
  BY <1>2 DEF Serving, AuthentikAccepts, AuthentikRedirects, AuthentikFails, Inside, PassThrough,
              AnswerLost, browserVars
<1>3. ASSUME NEW c \in Call, PlantCookie(c)
      PROVE  \/ jar'[b] = jar[b]
             \/ /\ req[c].phase = "cookie" /\ UNCHANGED <<now, sessions>>
                /\ jar'[b] = SetCookie(req[c].sid, c)
  <2>1. /\ req[c].phase = "cookie" /\ UNCHANGED <<now, sessions>>
        /\ jar' = [jar EXCEPT ![check[c].browser] = SetCookie(req[c].sid, c)]
    BY <1>3 DEF PlantCookie, Finish, storeVars
  <2> QED
    BY <1>1, <2>1
<1>4. CASE \/ ExtTime \/ Inside(GhostWrites) \/ RotateSecret \/ UNCHANGED extVars
           \/ \E u \in User : Inside(StaffChange(u))
           \/ \E c \in Call : Restart(c) \/ \E a \in Browser : Receive(c, a)
  BY <1>4 DEF ExtTime, Inside, RotateSecret, Restart, Receive, extVars, browserVars
<1>5. CASE \E a \in Browser :
              AuthentikLogout(a) \/ DeleteCookie(a) \/ \E u \in User : CompleteLogin(a, u)
  BY <1>1, <1>5 DEF AuthentikLogout, DeleteCookie, CompleteLogin
<1> QED
  BY <1>2, <1>3, <1>4, <1>5 DEF ExtNext

LEMMA MatchNextInv == MatchInv /\ [ExtNext]_extVars => MatchInv'
<1> SUFFICES ASSUME MatchInv, [ExtNext]_extVars
             PROVE  MatchInv'
  OBVIOUS
<1>1. ExtInv /\ ExtInv' /\ [AuthNext]_authVars /\ AuthInv
  BY ExtStepIsAuthStep, ExtNextInv DEF MatchInv, ExtInv
<1>2. now \in Nat /\ now' \in Nat /\ now <= now' /\ MaxLag \in Nat /\ MinAge \in Nat
  BY <1>1, StepIsStoreStep, StoreStepFacts, StoreAssumption DEF AuthInv
<1>3. ASSUME NEW c \in Call, req'[c].phase = "cookie"
      PROVE  \A r \in sessions' : r.sid = req'[c].sid => Matched(r, now')
  <2>1. CASE req'[c] = req[c]
    <3>1. req[c].sid \in used /\ \A r \in RowsOf(req[c].sid) : Matched(r, now)
      BY <1>1, <1>3, <2>1 DEF MatchInv, AnswerMatched, ExtInv, RequestInv
    <3> QED
      BY <1>1, <1>2, <1>3, <2>1, <3>1, AnswerSteps, StaysMatched
  <2>2. CASE HandedOut(c) /\ req'[c].sid = op[c].sid /\ UNCHANGED sessions
    <3>1. now <= op[c].since + MaxLag /\ op[c].since \in Nat
      BY <1>1, <2>2, LagTypes DEF AuthInv, StoreInv, CallInv, Recent, HandedOut
    <3>2. ASSUME NEW r \in RowsOf(op[c].sid)
          PROVE  Matched(r, now)
      <4>1. Fresh(r, op[c].since) /\ r.expires \in Int
        BY <1>1, <2>2 DEF AuthInv, StoreInv, CallInv, HeldFresh, StoreTypeOK, RowsOf, Row
      <4> QED
        BY <1>2, <3>1, <4>1 DEF Fresh, Matched
    <3> QED
      BY <1>1, <1>3, <2>2, <3>2, AnswerSteps DEF RowsOf
  <2> QED
    BY <1>1, <1>3, <2>1, <2>2, AnswerSteps
<1>4. ASSUME NEW b \in Browser
      PROVE  /\ jar'[b].expires - jar'[b].maxAge <= now'
             /\ \A r \in sessions' :
                   r.sid = jar'[b].sid => Matched(r, jar'[b].expires - jar'[b].maxAge)
  <2>1. CASE jar'[b] = jar[b]
    <3>1. /\ jar[b].expires - jar[b].maxAge \in Int /\ jar[b].expires - jar[b].maxAge <= now
          /\ jar[b].sid \in used \cup {None}
          /\ \A r \in RowsOf(jar[b].sid) : Matched(r, jar[b].expires - jar[b].maxAge)
      BY <1>1, LagTypes DEF MatchInv, JarMatched, PlantedAt, ExtInv, BrowserInv
    <3> QED
      BY <1>1, <1>2, <2>1, <3>1, StaysMatched
  <2>2. CASE jar'[b] = NoCookie
    <3>1. \A r \in sessions' : r.sid # None
      BY <1>1, OwnersKept
    <3> QED
      BY <1>2, <2>2, <3>1 DEF NoCookie
  <2>3. ASSUME NEW c \in Call, req[c].phase = "cookie", UNCHANGED <<now, sessions>>,
               jar'[b] = SetCookie(req[c].sid, c)
        PROVE  /\ jar'[b].expires - jar'[b].maxAge <= now'
               /\ \A r \in sessions' :
                     r.sid = jar'[b].sid => Matched(r, jar'[b].expires - jar'[b].maxAge)
    <3>1. MaxAge[c] \in Nat
      BY StoreAssumption
    <3>2. jar'[b].expires - jar'[b].maxAge = now /\ jar'[b].sid = req[c].sid
      BY <1>2, <2>3, <3>1 DEF SetCookie
    <3> QED
      BY <1>2, <2>3, <3>2 DEF MatchInv, AnswerMatched, RowsOf
  <2> QED
    BY <1>1, <2>1, <2>2, <2>3, JarSteps
<1> QED
  BY <1>1, <1>3, <1>4 DEF MatchInv, AnswerMatched, JarMatched, PlantedAt, RowsOf, Matched

LEMMA MatchInitInv == ExtInit => MatchInv
<1> SUFFICES ASSUME ExtInit
             PROVE  MatchInv
  OBVIOUS
<1>1. ExtInv /\ sessions = {} /\ now = 0 /\ req = [c \in Call |-> NoReq]
  BY ExtInitInv DEF ExtInit, AuthInit, StoreInit
<1>2. \A c \in Call : AnswerMatched(c)
  BY <1>1 DEF AnswerMatched, NoReq
<1>3. \A b \in Browser : JarMatched(b)
  BY <1>1 DEF ExtInit, JarMatched, PlantedAt, NoCookie, RowsOf
<1> QED
  BY <1>1, <1>2, <1>3 DEF MatchInv

(* The row of a cookie that is still sent is verified, and expires at most *)
(* two latencies, and the spread of the replicas' ages, before the cookie, *)
(* whoever refreshes it meanwhile (buildSetCookieHeader, buildSessionData).*)
THEOREM CookieWithinRowAge == ExtSpec => []CookieMatchesRow
<1>1. MatchInv => CookieMatchesRow
  <2> SUFFICES ASSUME MatchInv, NEW b \in Browser, NEW r \in RowsOf(jar[b].sid)
               PROVE  /\ r.verified
                      /\ jar[b].expires <= r.expires + 2 * MaxLag + (jar[b].maxAge - MinAge)
    BY DEF CookieMatchesRow
  <2>1. Matched(r, jar[b].expires - jar[b].maxAge) /\ ExtInv
    BY DEF MatchInv, JarMatched, PlantedAt
  <2>2. r.expires \in Int
    BY <2>1 DEF ExtInv, ExtTypeOK, AuthTypeOK, AuthTypes, StoreTypeOK, RowsOf, Row
  <2> QED
    BY <2>1, <2>2, LagTypes, StoreAssumption DEF Matched
<1> QED
  BY <1>1, MatchInitInv, MatchNextInv, PTL DEF ExtSpec
=============================================================================
