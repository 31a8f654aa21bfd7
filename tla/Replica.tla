------------------------------- MODULE Replica -------------------------------
(***************************************************************************)
(* One process: start-up, the goroutine that calls Serve, the select on    *)
(* signal and error, GracefulStop, the exit status; the Check calls it     *)
(* serves, as users of Authentik and of the pool of database connections;  *)
(* and the lifetimes it derives from SESSION_MAX_AGE_DAYS.                  *)
(***************************************************************************)
EXTENDS Integers, FiniteSets

CONSTANTS
    Call,      \* slots for Check calls
    PoolSize,  \* SetMaxOpenConns
    Days,      \* values of SESSION_MAX_AGE_DAYS an operator may set
    Second,    \* the number of nanoseconds in a second
    Milli,     \* the number of milliseconds in a second
    DaySecs,   \* the number of seconds in a day
    Half       \* 2^63: integers and durations are -Half .. Half - 1

ASSUME ReplicaAssumption ==
    /\ IsFiniteSet(Call)
    /\ PoolSize \in Nat \ {0}
    /\ Days \subseteq Int
    /\ DaySecs \in Nat \ {0} /\ Half \in Nat \ {0}
    /\ Second \in Nat \ {0, 1} /\ Milli \in 1 .. Second

VARIABLES
    days,     \* SESSION_MAX_AGE_DAYS in the environment
    main,     \* what the main goroutine does next
    serve,    \* where the goroutine that calls Serve is
    errCh,    \* "empty", "error" (buffered) or "closed"
    signal,   \* SIGTERM or SIGINT has arrived
    open,     \* Envoy has a connection that takes new calls
    stage,    \* stage[c]: the outside service call c uses or waits for
    running,  \* the calls whose statement has a database connection
    free,     \* the connections that can still be had
    status,   \* the exit status
    served,   \* history: Serve got as far as accepting connections
    broke     \* history: accepting connections failed

serverVars == <<main, serve, errCh, signal, open, status, served, broke>>
callVars == <<stage, running, free>>
replicaVars == <<days, serverVars, callVars>>

Boot == {"config", "database", "secret", "listen"}

Statements == {"user", "select", "update", "insert"}

(* What may follow each step of a call; a call can end after any of them.  *)
NextStages == [authentik |-> {"user"}, user |-> {"select"}, select |-> {"update", "insert"},
               update |-> {}, insert |-> {}]

(* Every connection can be had or has a statement running: a call that     *)
(* waits for one has given back the one it had (FindByEmail,               *)
(* FindByUserID, Create).                                                  *)
ReplicaTypeOK ==
    /\ days \in Days
    /\ main \in Boot \cup {"select", "draining", "result", "exited"}
    /\ serve \in {"none", "starting", "serving", "failed", "returned"}
    /\ errCh \in {"empty", "error", "closed"}
    /\ signal \in BOOLEAN /\ open \in BOOLEAN
    /\ stage \in [Call -> {"idle", "authentik"} \cup Statements]
    /\ running \subseteq Call /\ free \in 0 .. PoolSize
    /\ free + Cardinality(running) = PoolSize
    /\ status \in {"none", "ok", "error", "killed"}
    /\ served \in BOOLEAN /\ broke \in BOOLEAN

Idle == \A c \in Call : stage[c] = "idle"

(* A process that has just been started with SESSION_MAX_AGE_DAYS = d.     *)
ReplicaInit ==
    /\ days \in Days
    /\ main = "config" /\ serve = "none" /\ errCh = "empty"
    /\ signal = FALSE /\ open = FALSE /\ status = "none"
    /\ served = FALSE /\ broke = FALSE
    /\ stage = [c \in Call |-> "idle"] /\ running = {} /\ free = PoolSize

-----------------------------------------------------------------------------
(* The main goroutine.                                                     *)

(* What the main goroutine only reads.                                     *)
beside == <<days, serve, errCh, signal, open, served, broke, callVars>>

Main(from, to) == main = from /\ main' = to

Exit(how) == main' = "exited" /\ status' = how

(* config.Load                                                             *)
Load ==
    /\ Main("config", "database")
    /\ days > 0
    /\ UNCHANGED <<beside, status>>

(* Connect opens the pool and pings, NewSessionStore reads the secret.     *)
ConnectAndRead ==
    /\ Main("database", "secret") \/ Main("secret", "listen")
    /\ UNCHANGED <<beside, status>>

(* The listener is open, signals are caught, the goroutine is created.     *)
Listen ==
    /\ Main("listen", "select")
    /\ serve' = "starting"
    /\ UNCHANGED <<days, errCh, signal, open, status, served, broke, callVars>>

(* A missing or malformed setting, no database, no secret, port taken.     *)
BootFails ==
    /\ main \in Boot
    /\ Exit("error")
    /\ UNCHANGED beside

(* case <-ctx.Done(): GracefulStop closes the listener and starts to wait. *)
StopServing ==
    /\ signal
    /\ Main("select", "draining")
    /\ UNCHANGED <<beside, status>>

(* case err := <-errCh                                                     *)
ServeFailed ==
    /\ main = "select" /\ errCh # "empty"
    /\ Exit(IF errCh = "error" THEN "error" ELSE "ok")
    /\ UNCHANGED beside

(* Mutant: Stop, which does not wait for the calls.                        *)
StopAtOnce ==
    /\ Main("draining", "result")
    /\ UNCHANGED <<beside, status>>

(* GracefulStop returns.                                                   *)
Drained ==
    /\ Main("draining", "result")
    /\ ~open /\ Idle
    /\ UNCHANGED <<beside, status>>

(* return <-errCh                                                          *)
ReturnResult ==
    /\ main = "result" /\ errCh # "empty"
    /\ Exit(IF errCh = "error" THEN "error" ELSE "ok")
    /\ UNCHANGED beside

-----------------------------------------------------------------------------
(* The goroutine that calls Serve.                                         *)

Stopped == main \in {"draining", "result", "exited"}

(* Serve after GracefulStop is ErrServerStopped.                           *)
StartServe ==
    /\ serve = "starting" /\ main # "exited"
    /\ serve' = IF Stopped THEN "failed" ELSE "serving"
    /\ served' = ~Stopped
    /\ UNCHANGED <<days, main, errCh, signal, open, status, broke, callVars>>

AcceptFails ==
    /\ serve = "serving" /\ ~Stopped
    /\ serve' = "failed" /\ broke' = TRUE
    /\ UNCHANGED <<days, main, errCh, signal, open, status, served, callVars>>

ServeReturns(result) ==
    /\ serve' = "returned"
    /\ errCh' = result
    /\ UNCHANGED <<days, main, signal, open, status, served, broke, callVars>>

(* Mutant: the channel is not closed.                                      *)
NoClose ==
    /\ serve = "serving" /\ main = "result"
    /\ ServeReturns("empty")

(* Mutant: whatever Serve returns is sent.                                 *)
SendAlways ==
    /\ serve = "serving" /\ main = "result"
    /\ ServeReturns("error")

(* Serve returns nil once GracefulStop is done: close(errCh).              *)
ReturnNil ==
    /\ serve = "serving" /\ main = "result"
    /\ ServeReturns("closed")

(* Serve returns an error: it is sent, then the channel closed.            *)
ReturnError ==
    /\ serve = "failed" /\ main # "exited"
    /\ ServeReturns("error")

-----------------------------------------------------------------------------
(* Check calls: Authentik, then up to three statements, each of which      *)
(* takes a connection from the pool and gives it back.                     *)

Move(c, to) == stage' = [stage EXCEPT ![c] = to]

Accept(c) ==
    /\ open /\ main # "exited" /\ stage[c] = "idle"
    /\ Move(c, "authentik")
    /\ UNCHANGED <<days, serverVars, running, free>>

(* A reply, or the client's time-out of 5 s.                               *)
AuthentikReplies(c) ==
    /\ main # "exited" /\ stage[c] = "authentik"
    /\ \E to \in NextStages["authentik"] \cup {"idle"} : Move(c, to)
    /\ UNCHANGED <<days, serverVars, running, free>>

Waiting(c) == stage[c] \in Statements /\ c \notin running

TakeConnection(c) ==
    /\ main # "exited" /\ Waiting(c) /\ free > 0
    /\ running' = running \cup {c} /\ free' = free - 1
    /\ UNCHANGED <<days, serverVars, stage>>

(* Mutant: the result of the SELECT is left open when it has a row.        *)
LeaveRowsOpen(c) ==
    /\ main # "exited" /\ c \in running
    /\ \E to \in NextStages[stage[c]] \cup {"idle"} :
          /\ Move(c, to)
          /\ free' = IF to = "update" THEN free ELSE free + 1
    /\ running' = running \ {c}
    /\ UNCHANGED <<days, serverVars>>

(* Scan closes the result; ExecContext has none.                           *)
StatementEnds(c) ==
    /\ main # "exited" /\ c \in running
    /\ \E to \in NextStages[stage[c]] \cup {"idle"} : Move(c, to)
    /\ running' = running \ {c} /\ free' = free + 1
    /\ UNCHANGED <<days, serverVars>>

(* The call's context is cancelled while it waits for a connection.        *)
GiveUp(c) ==
    /\ main # "exited" /\ Waiting(c)
    /\ Move(c, "idle")
    /\ UNCHANGED <<days, serverVars, running, free>>

-----------------------------------------------------------------------------
(* The environment: Envoy, and the kubelet.                                *)

EnvoyConnects ==
    /\ serve = "serving" /\ ~Stopped /\ ~open
    /\ open' = TRUE
    /\ UNCHANGED <<days, main, serve, errCh, signal, status, served, broke, callVars>>

(* Envoy honours the GOAWAY of GracefulStop, some calls later.             *)
EnvoyLeaves ==
    /\ main = "draining" /\ open
    /\ open' = FALSE
    /\ UNCHANGED <<days, main, serve, errCh, signal, status, served, broke, callVars>>

Terminate ==
    /\ ~signal /\ main \notin Boot \cup {"exited"}
    /\ signal' = TRUE
    /\ UNCHANGED <<days, main, serve, errCh, open, status, served, broke, callVars>>

(* A crash, the end of the grace period, or a signal before NotifyContext. *)
Kill ==
    /\ main # "exited"
    /\ Exit("killed")
    /\ UNCHANGED beside

(* A new process in its place, with another configuration perhaps.         *)
StartAgain ==
    /\ main = "exited"
    /\ days' \in Days
    /\ main' = "config" /\ serve' = "none" /\ errCh' = "empty"
    /\ signal' = FALSE /\ open' = FALSE /\ status' = "none"
    /\ served' = FALSE /\ broke' = FALSE
    /\ stage' = [c \in Call |-> "idle"] /\ running' = {} /\ free' = PoolSize

MainGoroutine ==
    \/ Load \/ ConnectAndRead \/ Listen \/ BootFails
    \/ StopServing \/ ServeFailed \/ Drained \/ ReturnResult

ServeGoroutine == StartServe \/ AcceptFails \/ ReturnNil \/ ReturnError

ReplicaNext ==
    \/ MainGoroutine \/ ServeGoroutine
    \/ EnvoyConnects \/ EnvoyLeaves \/ Terminate \/ Kill \/ StartAgain
    \/ \E c \in Call :
          \/ Accept(c) \/ AuthentikReplies(c) \/ TakeConnection(c)
          \/ StatementEnds(c) \/ GiveUp(c)

ReplicaSpec == ReplicaInit /\ [][ReplicaNext]_replicaVars

(* Goroutines run; Authentik's client times out and statements end; the    *)
(* pool serves a waiter picked at random; Envoy obeys GOAWAY.              *)
FairReplicaSpec ==
    /\ ReplicaSpec
    /\ WF_replicaVars(MainGoroutine)
    /\ WF_replicaVars(StartServe \/ ReturnNil \/ ReturnError)
    /\ WF_replicaVars(EnvoyLeaves)
    /\ \A c \in Call :
          /\ WF_replicaVars(AuthentikReplies(c))
          /\ WF_replicaVars(StatementEnds(c))
          /\ SF_replicaVars(TakeConnection(c))

-----------------------------------------------------------------------------
(* Lifetimes, in integers that wrap around.                                *)

Wrap(x) == ((x + Half) % (2 * Half)) - Half

(* Mutant: milliseconds taken for seconds.                                 *)
RowAgeOfMillis(d) == Wrap(Wrap(d * DaySecs * Milli) * Second)

(* time.Duration(maxAgeDays) * 24 * time.Hour                              *)
RowAge(d) == Wrap(d * DaySecs * Second)

(* int64(maxAgeDays * 24 * 60 * 60 * 1000)                                 *)
OriginalAge(d) == Wrap(d * DaySecs * Milli)

(* sessionMaxAgeDays * 24 * 60 * 60                                        *)
CookieAge(d) == Wrap(d * DaySecs)

-----------------------------------------------------------------------------
(* Properties.                                                             *)

(* A process that reports success has answered every call it took, and     *)
(* none of them still uses the database (GracefulStop in run).             *)
SuccessMeansDrained == status = "ok" => Idle /\ running = {}

(* A process that has served and is told to stop reports success, unless   *)
(* accepting connections had failed: only a signal that overtakes Serve    *)
(* makes a clean shutdown look like a failure (run, errCh).                *)
FailureHasCause == status = "error" => ~served \/ broke

(* The three widths SESSION_MAX_AGE_DAYS is used in.  While the lifetime   *)
(* fits a Duration, the row, its originalMaxAge and the cookie of a        *)
(* process that serves all have it.  From there until the Duration has     *)
(* wrapped around once, rows are born expired, while the cookies that name *)
(* them live: what Load lets through beyond the limit ends not in an error *)
(* but in sessions that Ghost rejects (Load, buildSessionData, NewServer). *)
AgesAgree ==
    LET age == days * DaySecs * Second IN
    served =>
        /\ age > 0
        /\ age < Half => /\ RowAge(days) = age
                         /\ CookieAge(days) * Second = age
                         /\ OriginalAge(days) = CookieAge(days) * Milli
        /\ age \in Half .. 2 * Half - 1 => RowAge(days) < 0 /\ CookieAge(days) > 0

(* A process that is told to stop exits: no call in progress, no wait for  *)
(* a connection and no wait for errCh holds it up (run).                   *)
ShutdownCompletes == signal ~> main = "exited"

(* Every call ends, even if more calls than connections are in progress    *)
(* and none has a deadline: no call keeps a connection while it waits for  *)
(* another (FindByUserID, the pool of Connect).                            *)
CallsEnd == \A c \in Call : stage[c] # "idle" ~> stage[c] = "idle" \/ main = "exited"
=============================================================================
