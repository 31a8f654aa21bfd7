------------------------------- MODULE ExtAuth -------------------------------
(***************************************************************************)
(* The whole system: browsers behind Envoy, the ext_authz server's Check,  *)
(* Authentik's forward auth, EnsureSession (AuthService) and Ghost, which  *)
(* honours or rejects the cookie the proxy signed.  A browser may have     *)
(* several requests in flight, and each call slot is one replica's.        *)
(***************************************************************************)
EXTENDS AuthService

CONSTANTS
    Browser,  \* the browsers
    MaxKey    \* bound on rotations of admin_session_secret

ASSUME ExtAuthAssumption == MaxKey \in Nat /\ None \notin Browser

VARIABLES
    check,      \* check[c]: the Check RPC in slot c
    jar,        \* jar[b]: the ghost-admin-api-session cookie of browser b
    login,      \* login[b]: who b's Authentik session says it is
    pkce,       \* pkce[b]: b holds the PKCE state cookies of a login
    seen,       \* history: seen[b][u]: the last instant b was logged in to
                \* Authentik as u, -1 if never
    bare,       \* history: bare[b]: the last instant b sent no ghost cookie
    secret,     \* generation of admin_session_secret in Ghost's settings
    loaded      \* loaded[c]: the generation slot c's replica read at startup

browserVars == <<jar, login, pkce>>
extVars == <<authVars, check, browserVars, seen, bare, secret, loaded>>

(* login and hasCookie are what the request's Cookie header says.          *)
Check == [phase : {"idle", "authentik", "service"}, browser : Browser \cup {None},
          login : User \cup {None}, hasCookie : BOOLEAN, since : Nat]

NoCheck == [phase |-> "idle", browser |-> None, login |-> None, hasCookie |-> FALSE,
            since |-> 0]

Cookie == [sid : SessionId \cup {None}, key : 0 .. MaxKey, maxAge : Nat, expires : Int]

NoCookie == [sid |-> None, key |-> 0, maxAge |-> 0, expires |-> 0]

ExtTypeOK ==
    /\ AuthTypeOK
    /\ check \in [Call -> Check]
    /\ jar \in [Browser -> Cookie]
    /\ login \in [Browser -> User \cup {None}]
    /\ pkce \in [Browser -> BOOLEAN]
    /\ seen \in [Browser -> [User -> -1 .. MaxTime]]
    /\ bare \in [Browser -> 0 .. MaxTime]
    /\ secret \in 0 .. MaxKey
    /\ loaded \in [Call -> 0 .. secret]

ExtInit ==
    /\ AuthInit
    /\ check = [c \in Call |-> NoCheck]
    /\ jar = [b \in Browser |-> NoCookie]
    /\ login = [b \in Browser |-> None]
    /\ pkce = [b \in Browser |-> FALSE]
    /\ seen = [b \in Browser |-> [u \in User |-> -1]]
    /\ bare = [b \in Browser |-> 0]
    /\ secret = 0
    /\ loaded = [c \in Call |-> 0]

(* A browser sends the cookie until its Max-Age has run out.               *)
Sends(b) == jar[b].sid # None /\ now < jar[b].expires

(* express-session: the signature verifies, the row is there, unexpired    *)
(* and verified.                                                           *)
Accepted(b) ==
    /\ Sends(b)
    /\ jar[b].key = secret
    /\ \E r \in RowsOf(jar[b].sid) : r.verified /\ now < r.expires

-----------------------------------------------------------------------------
(* Server.Check.                                                           *)

(* A request reaches the server, which asks Authentik first.               *)
Receive(c, b) ==
    /\ check[c].phase = "idle" /\ req[c].phase = "idle"
    /\ check' = [check EXCEPT ![c] =
         [phase |-> "authentik", browser |-> b, login |-> login[b], hasCookie |-> Sends(b),
          since |-> now]]
    /\ UNCHANGED <<authVars, browserVars, seen, bare, secret, loaded>>

(* Mutant: a 200 will do, with or without an e-mail.                       *)
AuthentikAcceptsAnyone(c) ==
    /\ check[c].phase = "authentik"
    /\ EnsureSession(c, check[c].login, check[c].hasCookie)
    /\ check' = [check EXCEPT ![c].phase = "service", ![c].since = now]
    /\ UNCHANGED <<browserVars, seen, bare, secret, loaded>>

(* 200 with an e-mail: EnsureSession.  The reply may be overtaken by a      *)
(* logout.                                                                 *)
AuthentikAccepts(c) ==
    /\ check[c].phase = "authentik"
    /\ check[c].login # None
    /\ EnsureSession(c, check[c].login, check[c].hasCookie)
    /\ check' = [check EXCEPT ![c].phase = "service", ![c].since = now]
    /\ UNCHANGED <<browserVars, seen, bare, secret, loaded>>

(* The request carries no Authentik session, or one that has ended.        *)
LoggedOut(c) == check[c].login = None \/ login[check[c].browser] # check[c].login

Ends(c) == check' = [check EXCEPT ![c] = NoCheck]

(* Mutant: Authentik's Set-Cookie headers are dropped.                     *)
RedirectWithoutCookies(c) ==
    /\ check[c].phase = "authentik"
    /\ LoggedOut(c)
    /\ Ends(c)
    /\ UNCHANGED <<authVars, browserVars, seen, bare, secret, loaded>>

(* 302: the redirect is passed on with the PKCE state cookies.             *)
AuthentikRedirects(c) ==
    /\ check[c].phase = "authentik"
    /\ LoggedOut(c)
    /\ pkce' = [pkce EXCEPT ![check[c].browser] = TRUE]
    /\ Ends(c)
    /\ UNCHANGED <<authVars, jar, login, seen, bare, secret, loaded>>

(* Any other reply, or none in time: fail open.                            *)
AuthentikFails(c) ==
    /\ check[c].phase = "authentik"
    /\ Ends(c)
    /\ UNCHANGED <<authVars, browserVars, seen, bare, secret, loaded>>

(* EnsureSession said "" or failed: the request goes on to Ghost as it is. *)
PassThrough(c) ==
    /\ req[c].phase \in {"pass", "unauthorized", "error"}
    /\ Finish(c)
    /\ Ends(c)
    /\ UNCHANGED <<browserVars, seen, bare, secret, loaded>>

(* Mutant: no Max-Age.                                                     *)
SetSessionCookie(s, c) ==
    [sid |-> s, key |-> loaded[c], maxAge |-> MaxAge[c], expires |-> MaxTime + 1]

(* The session id, signed with the secret the replica knows, and Max-Age.  *)
SetCookie(s, c) ==
    [sid |-> s, key |-> loaded[c], maxAge |-> MaxAge[c], expires |-> now + MaxAge[c]]

(* 302 to /ghost/ with the cookie.                                         *)
PlantCookie(c) ==
    /\ req[c].phase = "cookie"
    /\ jar' = [jar EXCEPT ![check[c].browser] = SetCookie(req[c].sid, c)]
    /\ Finish(c)
    /\ Ends(c)
    /\ UNCHANGED <<login, pkce, seen, bare, secret, loaded>>

(* The answer never reaches the browser.                                   *)
AnswerLost(c) ==
    /\ Finish(c)
    /\ Ends(c)
    /\ UNCHANGED <<browserVars, seen, bare, secret, loaded>>

-----------------------------------------------------------------------------
(* The environment.                                                        *)

(* The callback completes only with the state cookies of the redirect.     *)
CompleteLogin(b, u) ==
    /\ pkce[b]
    /\ login' = [login EXCEPT ![b] = u]
    /\ pkce' = [pkce EXCEPT ![b] = FALSE]
    /\ seen' = [seen EXCEPT ![b][u] = now]
    /\ UNCHANGED <<authVars, check, jar, bare, secret, loaded>>

AuthentikLogout(b) ==
    /\ login[b] # None
    /\ login' = [login EXCEPT ![b] = None]
    /\ UNCHANGED <<authVars, check, jar, pkce, seen, bare, secret, loaded>>

(* "Clearing a stuck session": the user deletes a cookie Ghost rejects.    *)
DeleteCookie(b) ==
    /\ Sends(b) /\ ~Accepted(b)
    /\ jar' = [jar EXCEPT ![b] = NoCookie]
    /\ bare' = [bare EXCEPT ![b] = now]
    /\ UNCHANGED <<authVars, check, login, pkce, seen, secret, loaded>>

RotateSecret ==
    /\ secret < MaxKey
    /\ secret' = secret + 1
    /\ UNCHANGED <<authVars, check, browserVars, seen, bare, loaded>>

(* NewSessionStore.                                                        *)
ReadSecret(c) == loaded' = [loaded EXCEPT ![c] = secret]

(* A replica restarts once it has drained.                                 *)
Restart(c) ==
    /\ check[c].phase = "idle" /\ loaded[c] # secret
    /\ ReadSecret(c)
    /\ UNCHANGED <<authVars, check, browserVars, seen, bare, secret>>

(* What the histories record as the clock moves on.                        *)
ExtHistories ==
    /\ seen' = [b \in Browser |->
                  [u \in User |-> IF login[b] = u THEN now' ELSE seen[b][u]]]
    /\ bare' = [b \in Browser |-> IF jar[b].sid # None /\ now' < jar[b].expires
                                  THEN bare[b] ELSE now']

(* Mutant: Authentik's client has no time-out.                             *)
ExtTimeUnlimited ==
    /\ Time
    /\ \A c \in Call :
          /\ req[c].phase = "user" => now < check[c].since + MaxLag
          /\ req[c].phase \notin Answer
    /\ ExtHistories
    /\ UNCHANGED <<check, browserVars, secret, loaded>>

(* Authentik's client times out, the caller's deadline ends the query for  *)
(* the user, and an answer is delivered in the tick it is given in.        *)
ExtTime ==
    /\ Time
    /\ \A c \in Call :
          /\ check[c].phase = "authentik" \/ req[c].phase = "user"
                => now < check[c].since + MaxLag
          /\ req[c].phase \notin Answer
    /\ ExtHistories
    /\ UNCHANGED <<check, browserVars, secret, loaded>>

Inside(A) == A /\ UNCHANGED <<check, browserVars, seen, bare, secret, loaded>>

Serving(c) ==
    \/ AuthentikAccepts(c) \/ AuthentikRedirects(c) \/ AuthentikFails(c)
    \/ Inside(Progress(c)) \/ PassThrough(c) \/ PlantCookie(c) \/ AnswerLost(c)

ExtNext ==
    \/ ExtTime \/ Inside(GhostWrites) \/ RotateSecret
    \/ \E u \in User : Inside(StaffChange(u))
    \/ \E c \in Call : Serving(c) \/ Restart(c) \/ \E b \in Browser : Receive(c, b)
    \/ \E b \in Browser :
          AuthentikLogout(b) \/ DeleteCookie(b) \/ \E u \in User : CompleteLogin(b, u)

ExtSpec == ExtInit /\ [][ExtNext]_extVars

(* The user logs out of Ghost in another browser, which shares the row.    *)
(* Bounded: it happens to the first session only.                          *)
LogoutElsewhere == Cardinality(used) = 1 /\ Inside(GhostWrites) /\ GhostDestroy

(* The same system while staff and Authentik sessions stay as they are.    *)
CalmNext ==
    \/ ExtTime \/ LogoutElsewhere \/ RotateSecret
    \/ \E c \in Call : Serving(c) \/ Restart(c) \/ \E b \in Browser : Receive(c, b)
    \/ \E b \in Browser : DeleteCookie(b) \/ \E u \in User : CompleteLogin(b, u)

(* Users keep trying; a call in progress moves on; each of Authentik, the  *)
(* database and Envoy answers if it is asked over and over; and a replica  *)
(* with an old secret is restarted some day.                               *)
CalmSpec ==
    /\ ExtInit /\ [][CalmNext]_extVars
    /\ \A b \in Browser :
          /\ WF_extVars(\E c \in Call : Receive(c, b))
          /\ WF_extVars(\E u \in User : CompleteLogin(b, u))
          /\ WF_extVars(DeleteCookie(b))
    /\ \A c \in Call :
          /\ WF_extVars(Serving(c))
          /\ SF_extVars(Restart(c))
          /\ SF_extVars(AuthentikRedirects(c))
          /\ SF_extVars(AuthentikAccepts(c))
          /\ SF_extVars(Inside(StaffActive(c)))
          /\ SF_extVars(Inside(Statement(c)) /\ op[c].pc = "select" /\ op'[c].pc # "failed")
          /\ SF_extVars(Inside(Statement(c)) /\ op[c].pc = "update" /\ op'[c].pc # "failed")
          /\ SF_extVars(Inside(Statement(c)) /\ op[c].pc = "insert" /\ op'[c].pc # "failed")
          /\ SF_extVars(PlantCookie(c))

-----------------------------------------------------------------------------
(* Refinement of Admission.                                                *)

(* What a cookie is worth: its row's user, until it runs out.              *)
Worth(rows, cookie) ==
    IF rows = {} THEN [user |-> None, age |-> 0, until |-> 0]
    ELSE [user |-> (CHOOSE r \in rows : TRUE).user,
          age |-> cookie.maxAge, until |-> cookie.expires]

Passes == [b \in Browser |-> Worth(RowsOf(jar[b].sid), jar[b])]

Lifetimes == {MaxAge[c] : c \in Call}

Promise == INSTANCE Admission WITH pass <- Passes, Ages <- Lifetimes, Lag <- MaxLag

-----------------------------------------------------------------------------
(* Properties.                                                             *)

(* The proxy, with its requests, replicas, races and failures, keeps what  *)
(* Admission promises: only a call whose browser was logged in to          *)
(* Authentik, and whose user was active staff, a few steps ago puts a      *)
(* session into a browser, and a session once gone is not brought back to  *)
(* life under a cookie that names it (Check, EnsureSession, FindByUserID). *)
ImplementsAdmission == Promise!AdmissionSpec

(* Browser and row lifetimes agree: as long as the row of a cookie that is *)
(* still sent exists, it is verified and expires at most two step          *)
(* latencies (and the spread of the replicas' ages) before the cookie, so  *)
(* that no browser keeps presenting a session Ghost has let expire         *)
(* (Max-Age of buildSetCookieHeader, expires of buildSessionData).         *)
CookieMatchesRow ==
    \A b \in Browser : Sends(b) =>
        \A r \in RowsOf(jar[b].sid) :
            /\ r.verified
            /\ jar[b].expires <= r.expires + 2 * MaxLag + (jar[b].maxAge - MinAge)

(* A browser only ever holds a session of a user who has logged in to      *)
(* Authentik from it: whatever fails, whoever logs out meanwhile, and      *)
(* whichever calls run at once, no cookie of another user's is planted     *)
(* (Check).                                                                *)
CookieIsConfirmed ==
    \A b \in Browser : \A r \in RowsOf(jar[b].sid) : seen[b][r.user] # -1

(* What a browser still sends of a user's who has logged out of Authentik, *)
(* or whose account it has been switched from, it sends for no longer than *)
(* Max-Age and the six steps of a call that the logout may have overtaken  *)
(* (Check; EnsureSession, which lets any ghost cookie pass).               *)
LogoutIsBounded ==
    \A b \in Browser : Sends(b) =>
        \A r \in RowsOf(jar[b].sid) : now < seen[b][r.user] + jar[b].maxAge + 6 * MaxLag

(* What a browser still sends of a user's who has been suspended, or       *)
(* removed from the staff, it sends for no longer than Max-Age and the     *)
(* four steps of a call that the suspension may have overtaken (Check;     *)
(* EnsureSession, which checks the status for new cookies only).           *)
SuspensionIsBounded ==
    \A b \in Browser : Sends(b) =>
        \A r \in RowsOf(jar[b].sid) :
            LET last == lastActive[r.user] IN
            last # -1 /\ now < last + jar[b].maxAge + 4 * MaxLag

(* A browser sends ghost cookies for no longer than Max-Age and the six    *)
(* steps of a call, then none for a moment: the fast path, which looks at  *)
(* a cookie's name only, cannot keep a browser stuck for ever with cookies *)
(* Ghost rejects, be it for a row removed through another browser, a       *)
(* secret rotated before or after the replica read it, or an expiry.  Then *)
(* a request goes past the fast path, although nobody has deleted a cookie *)
(* or restarted a replica, and whatever other requests are under way       *)
(* (EnsureSession, Check, buildSetCookieHeader).                           *)
StuckIsBounded ==
    \A b \in Browser : Sends(b) => now < bare[b] + jar[b].maxAge + 6 * MaxLag

(* A replica that knows Ghost's secret never plants a cookie Ghost would   *)
(* reject, as long as the row is there and sessions live longer than two   *)
(* steps of a call: the redirect to /ghost/ does not come back.  Cookies   *)
(* signed before a rotation are another matter: no restart ends their      *)
(* rejection (Check, signCookie, buildSessionData).                        *)
PlantingAdmits ==
    [][\A c \in Call, b \in Browser :
          /\ PlantCookie(c) /\ check[c].browser = b
          /\ loaded[c] = secret /\ RowsOf(req[c].sid) # {} /\ 2 * MaxLag < MinAge
          => Accepted(b)']_extVars

(* A browser of active staff is in Ghost's admin again and again: through  *)
(* the login flow, transient failures, every expiry of its cookie, a       *)
(* logout in another browser, and a rotation of the secret                 *)
(* (docs/extauth-architecture.md, "Session renewal is fully transparent"). *)
StaffIsAdmitted ==
    (\A u \in User : staff[u] = "active") => \A b \in Browser : []<>Accepted(b)

(* "If ghost-admin-api-session present -> OkResponse (fast path)", before  *)
(* Authentik is called (docs/extauth-architecture.md:175).                 *)
CookieSkipsAuthentik ==
    [][\A c \in Call : AuthentikRedirects(c) => ~check[c].hasCookie]_extVars

(* "Changing this value is safe - session_data is refreshed on every       *)
(* session reuse" (SESSION_MAX_AGE_DAYS, docs/extauth-architecture.md:365).*)
CookieWithinRow ==
    \A b \in Browser : Sends(b) =>
        \A r \in RowsOf(jar[b].sid) : jar[b].expires <= r.expires + 2 * MaxLag
=============================================================================
