---------------------------- MODULE ReplicaProofs ----------------------------
(***************************************************************************)
(* Type correctness of Replica, what its exit status means, and its        *)
(* lifetimes, for any number of calls and connections and any width of the *)
(* integers.  The inductive invariant says who holds the connections, how  *)
(* the two goroutines and errCh are in step, and that a drained server     *)
(* stays drained.                                                          *)
(***************************************************************************)
EXTENDS Replica, TLAPS, FiniteSetTheorems

(* Every connection is free, or used by one call that runs a statement.    *)
PoolIntact ==
    /\ IsFiniteSet(running)
    /\ free + Cardinality(running) = PoolSize
    /\ \A c \in running : stage[c] \in Statements

(* What main, the goroutine and errCh know of one another.                 *)
InStep ==
    /\ main \in Boot => serve = "none"
    /\ serve \in {"none", "starting"} => ~served
    /\ serve = "failed" => ~served \/ broke
    /\ errCh = "error" => serve = "returned" /\ (~served \/ broke)
    /\ errCh = "closed" => main \in {"result", "exited"}
    /\ status # "none" <=> main = "exited"

(* After GracefulStop nothing is in progress, and nothing comes in.        *)
StaysDrained == main = "result" \/ status = "ok" => ~open /\ Idle

ReplicaInv == ReplicaTypeOK /\ PoolIntact /\ InStep /\ StaysDrained /\ FailureHasCause

LEMMA StagesFollow ==
    ASSUME NEW s \in Statements \cup {"authentik"}
    PROVE  NextStages[s] \subseteq Statements
<1>1. CASE s = "authentik"
  BY <1>1 DEF NextStages, Statements
<1>2. CASE s = "user"
  BY <1>2 DEF NextStages, Statements
<1>3. CASE s = "select"
  BY <1>3 DEF NextStages, Statements
<1>4. CASE s = "update"
  BY <1>4 DEF NextStages, Statements
<1>5. CASE s = "insert"
  BY <1>5 DEF NextStages, Statements
<1> QED
  BY <1>1, <1>2, <1>3, <1>4, <1>5 DEF Statements

LEMMA EmptyPool ==
    /\ IsFiniteSet({}) /\ PoolSize + Cardinality({}) = PoolSize
    /\ PoolSize \in Nat /\ PoolSize \in 0 .. PoolSize
<1>1. Cardinality({}) = 0 /\ IsFiniteSet({})
  BY FS_EmptySet
<1> QED
  BY <1>1, ReplicaAssumption

(* A process that has just been started.                                   *)
LEMMA NewProcess == ReplicaInit => ReplicaInv
  BY EmptyPool DEF ReplicaInit, ReplicaInv, ReplicaTypeOK, PoolIntact, InStep, StaysDrained,
     FailureHasCause, Boot, Idle

(* A step of main, of the goroutine or of the environment, which leaves    *)
(* the calls and the pool alone.                                           *)
LEMMA PoolKept ==
    ASSUME ReplicaInv, UNCHANGED callVars
    PROVE  PoolIntact' /\ (Idle <=> Idle')
  BY DEF ReplicaInv, PoolIntact, callVars, Idle

LEMMA MainInv ==
    ASSUME ReplicaInv, MainGoroutine
    PROVE  ReplicaInv'
<1> USE DEF ReplicaInv, ReplicaTypeOK, InStep, StaysDrained, FailureHasCause, beside, Boot
<1>0. UNCHANGED callVars
  BY DEF MainGoroutine, Load, ConnectAndRead, Listen, BootFails, StopServing, ServeFailed,
         Drained, ReturnResult
<1>1. PoolIntact' /\ (Idle <=> Idle')
  BY <1>0, PoolKept
<1>2. CASE Load \/ ConnectAndRead \/ StopServing
  BY <1>1, <1>2 DEF Load, ConnectAndRead, StopServing, Main, callVars
<1>3. CASE Listen
  BY <1>1, <1>3 DEF Listen, Main, callVars
<1>4. CASE BootFails
  BY <1>1, <1>4 DEF BootFails, Exit, callVars
<1>5. CASE ServeFailed
  BY <1>1, <1>5 DEF ServeFailed, Exit, callVars
<1>6. CASE Drained
  BY <1>1, <1>6 DEF Drained, Main, callVars
<1>7. CASE ReturnResult
  BY <1>1, <1>7 DEF ReturnResult, Exit, callVars
<1> QED
  BY <1>2, <1>3, <1>4, <1>5, <1>6, <1>7 DEF MainGoroutine

LEMMA ServeInv ==
    ASSUME ReplicaInv, ServeGoroutine
    PROVE  ReplicaInv'
<1> USE DEF ReplicaInv, ReplicaTypeOK, InStep, StaysDrained, FailureHasCause, Boot
<1>0. UNCHANGED callVars
  BY DEF ServeGoroutine, StartServe, AcceptFails, ReturnNil, ReturnError, ServeReturns
<1>1. PoolIntact' /\ (Idle <=> Idle')
  BY <1>0, PoolKept
<1>2. CASE StartServe
  BY <1>1, <1>2 DEF StartServe, Stopped, callVars
<1>3. CASE AcceptFails
  BY <1>1, <1>3 DEF AcceptFails, Stopped, callVars
<1>4. CASE ReturnNil
  BY <1>1, <1>4 DEF ReturnNil, ServeReturns, callVars
<1>5. CASE ReturnError
  BY <1>1, <1>5 DEF ReturnError, ServeReturns, callVars
<1> QED
  BY <1>2, <1>3, <1>4, <1>5 DEF ServeGoroutine

LEMMA OutsideInv ==
    ASSUME ReplicaInv, EnvoyConnects \/ EnvoyLeaves \/ Terminate \/ Kill \/ UNCHANGED replicaVars
    PROVE  ReplicaInv'
<1> USE DEF ReplicaInv, ReplicaTypeOK, InStep, StaysDrained, FailureHasCause, Boot
<1>0. UNCHANGED callVars
  BY DEF EnvoyConnects, EnvoyLeaves, Terminate, Kill, beside, replicaVars
<1>1. PoolIntact' /\ (Idle <=> Idle')
  BY <1>0, PoolKept
<1>2. CASE EnvoyConnects
  <2>1. main \notin {"result", "exited"} /\ status = "none"
    BY <1>2 DEF EnvoyConnects, Stopped
  <2> QED
    BY <1>1, <1>2, <2>1 DEF EnvoyConnects, callVars
<1>3. CASE EnvoyLeaves
  BY <1>1, <1>3 DEF EnvoyLeaves, callVars
<1>4. CASE Terminate
  BY <1>1, <1>4 DEF Terminate, callVars
<1>5. CASE Kill
  BY <1>1, <1>5 DEF Kill, Exit, beside, callVars
<1>6. CASE UNCHANGED replicaVars
  BY <1>1, <1>6 DEF replicaVars, serverVars, callVars
<1> QED
  BY <1>2, <1>3, <1>4, <1>5, <1>6

(* A step of a call that is in progress, or is accepted.                   *)
LEMMA CallMoves ==
    ASSUME ReplicaInv, NEW c \in Call, NEW to \in Statements \cup {"idle", "authentik"},
           UNCHANGED <<days, serverVars>>, main # "exited", stage[c] # "idle" \/ open,
           Move(c, to) \/ stage' = stage, PoolIntact', running' \subseteq Call, free' \in 0 .. PoolSize
    PROVE  ReplicaInv'
<1>1. main # "result" /\ status = "none"
  BY DEF ReplicaInv, InStep, StaysDrained, Idle, ReplicaTypeOK
<1>2. stage' \in [Call -> {"idle", "authentik"} \cup Statements]
  BY DEF ReplicaInv, ReplicaTypeOK, Move
<1> QED
  BY <1>1, <1>2 DEF ReplicaInv, ReplicaTypeOK, PoolIntact, InStep, StaysDrained, FailureHasCause,
                    serverVars

LEMMA CallInv ==
    ASSUME ReplicaInv, NEW c \in Call,
           \/ Accept(c) \/ AuthentikReplies(c) \/ TakeConnection(c)
           \/ StatementEnds(c) \/ GiveUp(c)
    PROVE  ReplicaInv'
<1>1. /\ stage \in [Call -> {"idle", "authentik"} \cup Statements]
      /\ running \subseteq Call /\ IsFiniteSet(running) /\ free \in 0 .. PoolSize
      /\ free + Cardinality(running) = PoolSize /\ Cardinality(running) \in Nat
      /\ PoolSize \in Nat /\ \A d \in running : stage[d] \in Statements
      /\ "idle" \notin Statements /\ "authentik" \notin Statements
  BY FS_CardinalityType, ReplicaAssumption DEF ReplicaInv, ReplicaTypeOK, PoolIntact, Statements
<1>2. ASSUME NEW to \in Statements \cup {"idle", "authentik"}, Move(c, to), c \notin running,
             UNCHANGED <<running, free>>
      PROVE  PoolIntact' /\ running' \subseteq Call /\ free' \in 0 .. PoolSize
  BY <1>1, <1>2 DEF PoolIntact, Move
<1>3. CASE Accept(c)
  BY <1>1, <1>2, <1>3, CallMoves DEF Accept
<1>4. CASE AuthentikReplies(c)
  <2>1. PICK to \in Statements \cup {"idle"} : Move(c, to)
    BY <1>4, StagesFollow DEF AuthentikReplies
  <2> QED
    BY <1>1, <1>2, <1>4, <2>1, CallMoves DEF AuthentikReplies
<1>5. CASE TakeConnection(c)
  <2>1. /\ IsFiniteSet(running \cup {c})
        /\ Cardinality(running \cup {c}) = Cardinality(running) + 1
    BY <1>1, <1>5, FS_AddElement DEF TakeConnection, Waiting
  <2>2. PoolIntact' /\ running' \subseteq Call /\ free' \in 0 .. PoolSize
    BY <1>1, <1>5, <2>1 DEF TakeConnection, Waiting, PoolIntact
  <2> QED
    BY <1>1, <1>5, <2>2, CallMoves DEF TakeConnection, Waiting
<1>6. CASE StatementEnds(c)
  <2>1. PICK to \in Statements \cup {"idle"} : Move(c, to)
    BY <1>1, <1>6, StagesFollow DEF StatementEnds
  <2>2. /\ IsFiniteSet(running \ {c})
        /\ Cardinality(running \ {c}) = Cardinality(running) - 1
    BY <1>1, <1>6, FS_RemoveElement DEF StatementEnds
  <2>3. Cardinality(running \ {c}) \in Nat
    BY <2>2, FS_CardinalityType
  <2>4. PoolIntact' /\ running' \subseteq Call /\ free' \in 0 .. PoolSize
    BY <1>1, <1>6, <2>1, <2>2, <2>3 DEF StatementEnds, PoolIntact, Move
  <2> QED
    BY <1>1, <1>6, <2>1, <2>4, CallMoves DEF StatementEnds
<1>7. CASE GiveUp(c)
  BY <1>1, <1>2, <1>7, CallMoves DEF GiveUp, Waiting
<1> QED
  BY <1>3, <1>4, <1>5, <1>6, <1>7

LEMMA ReplicaNextInv == ReplicaInv /\ [ReplicaNext]_replicaVars => ReplicaInv'
<1> SUFFICES ASSUME ReplicaInv, [ReplicaNext]_replicaVars
             PROVE  ReplicaInv'
  OBVIOUS
<1>1. CASE StartAgain
  BY <1>1, EmptyPool DEF StartAgain, ReplicaInv, ReplicaTypeOK, PoolIntact, InStep, StaysDrained,
     FailureHasCause, Boot, Idle
<1> QED
  BY <1>1, MainInv, ServeInv, OutsideInv, CallInv DEF ReplicaNext
-----------------------------------------------------------------------------
(* The inductive invariant of the process.                                 *)
THEOREM ReplicaInvariant == ReplicaSpec => []ReplicaInv
  BY NewProcess, ReplicaNextInv, PTL DEF ReplicaSpec

(* Types; in particular every connection of the pool is free or in use by  *)
(* a running statement, so that none is held by a call that waits.         *)
THEOREM ReplicaTypeCorrect == ReplicaSpec => []ReplicaTypeOK
<1>1. ReplicaInv => ReplicaTypeOK
  BY DEF ReplicaInv
<1> QED
  BY <1>1, ReplicaInvariant, PTL

(* Exit status 0 means that every call was answered and none of them is in *)
(* the database.                                                           *)
THEOREM CleanExitIsDrained == ReplicaSpec => []SuccessMeansDrained
<1>1. ReplicaInv => SuccessMeansDrained
  BY DEF ReplicaInv, StaysDrained, PoolIntact, SuccessMeansDrained, Idle, ReplicaTypeOK, Statements
<1> QED
  BY <1>1, ReplicaInvariant, PTL

(* A process that has served fails only if accepting connections did.      *)
THEOREM FailureIsCaused == ReplicaSpec => []FailureHasCause
<1>1. ReplicaInv => FailureHasCause
  BY DEF ReplicaInv
<1> QED
  BY <1>1, ReplicaInvariant, PTL
-----------------------------------------------------------------------------
(* Lifetimes.                                                              *)

LEMMA ProductGrows ==
    ASSUME NEW a \in Nat \ {0}, NEW b \in Nat \ {0}
    PROVE  a * b \in Nat \ {0} /\ a * b >= a
  OBVIOUS

LEMMA FactorsGrow ==
    ASSUME NEW a \in Nat, NEW b \in Nat, NEW d \in Nat, b <= d
    PROVE  a * b <= a * d
  OBVIOUS

(* Integers that fit do not wrap around.                                   *)
LEMMA WrapFits ==
    ASSUME NEW x \in Nat, x < Half
    PROVE  Wrap(x) = x
<1>1. Half \in Nat \ {0}
  BY ReplicaAssumption
<1> DEFINE h == Half
           y == x + h
<1>2. h \in Nat \ {0} /\ y \in 0 .. 2 * h - 1
  BY <1>1
<1>3. y % (2 * h) = y
  <2> HIDE DEF h, y
  <2> QED
    BY <1>2
<1> QED
  BY <1>1, <1>3 DEF Wrap

(* Load has looked at the number of days that the rest of the process uses.*)
Loaded == serve # "none" \/ main \notin {"config", "exited"} => days > 0

LEMMA LoadedKept == ReplicaInv /\ Loaded /\ [ReplicaNext]_replicaVars => Loaded'
<1> SUFFICES ASSUME ReplicaInv, Loaded, [ReplicaNext]_replicaVars
             PROVE  Loaded'
  OBVIOUS
<1> USE DEF Loaded
<1>1. CASE MainGoroutine
  BY <1>1 DEF MainGoroutine, Load, ConnectAndRead, Listen, BootFails, StopServing, ServeFailed,
              Drained, ReturnResult, Main, Exit, beside, ReplicaInv, InStep, Boot
<1>2. CASE ServeGoroutine
  BY <1>2 DEF ServeGoroutine, StartServe, AcceptFails, ReturnNil, ReturnError, ServeReturns,
              ReplicaInv, InStep, Boot
<1>3. CASE EnvoyConnects \/ EnvoyLeaves \/ Terminate \/ Kill \/ UNCHANGED replicaVars
  BY <1>3 DEF EnvoyConnects, EnvoyLeaves, Terminate, Kill, Exit, beside, replicaVars, serverVars,
              ReplicaInv, InStep, Boot
<1>4. CASE StartAgain
  BY <1>4 DEF StartAgain
<1>5. ASSUME NEW c \in Call,
             \/ Accept(c) \/ AuthentikReplies(c) \/ TakeConnection(c)
             \/ StatementEnds(c) \/ GiveUp(c)
      PROVE  UNCHANGED <<days, main, serve>>
  BY <1>5 DEF Accept, AuthentikReplies, TakeConnection, StatementEnds, GiveUp, serverVars
<1> QED
  BY <1>1, <1>2, <1>3, <1>4, <1>5 DEF ReplicaNext

(* Beyond their width integers are negative, until they have wrapped       *)
(* around.                                                                 *)
LEMMA WrapOverflows ==
    ASSUME NEW x \in Half .. 2 * Half - 1
    PROVE  Wrap(x) < 0
<1>1. Half \in Nat \ {0}
  BY ReplicaAssumption
<1> DEFINE h == Half
           y == x - h
<1>2. h \in Nat \ {0} /\ y \in 0 .. h - 1 /\ x + h = 2 * h + y
  BY <1>1
<1>3. (2 * h + y) % (2 * h) = y
  <2> HIDE DEF h, y
  <2> QED
    BY <1>2
<1>4. y - h < 0
  BY <1>2
<1> QED
  BY <1>1, <1>2, <1>3, <1>4 DEF Wrap

(* While a lifetime fits a Duration, rows and cookies of a serving process *)
(* expire together, in the future; the first lifetimes that do not fit put *)
(* the expiry of a row, but not of its cookie, into the past (Load,        *)
(* buildSessionData, NewServer).                                           *)
THEOREM LifetimesAgree == ReplicaSpec => []AgesAgree
<1>1. ReplicaInit => Loaded
  BY DEF ReplicaInit, Loaded
<1>2. ReplicaInv /\ Loaded => AgesAgree
  <2> DEFINE secs == days * DaySecs
             age == secs * Second
             millis == secs * Milli
  <2> SUFFICES ASSUME ReplicaInv, Loaded, served
               PROVE  /\ age > 0
                      /\ age < Half => /\ RowAge(days) = age
                                       /\ CookieAge(days) * Second = age
                                       /\ OriginalAge(days) = CookieAge(days) * Milli
                      /\ age \in Half .. 2 * Half - 1 => RowAge(days) < 0 /\ CookieAge(days) > 0
    BY DEF AgesAgree
  <2>1. days \in Nat \ {0}
    BY ReplicaAssumption DEF ReplicaInv, ReplicaTypeOK, InStep, Loaded
  <2>2. secs \in Nat \ {0}
    BY <2>1, ProductGrows, ReplicaAssumption
  <2>3. RowAge(days) = Wrap(age) /\ CookieAge(days) = Wrap(secs) /\ OriginalAge(days) = Wrap(millis)
    BY DEF RowAge, CookieAge, OriginalAge
  <2> HIDE DEF secs
  <2>4. age \in Nat \ {0} /\ age >= secs /\ age >= 2 * secs
    BY <2>2, ReplicaAssumption, ProductGrows, FactorsGrow
  <2>5. millis \in Nat \ {0} /\ millis <= age
    BY <2>2, ReplicaAssumption, ProductGrows, FactorsGrow
  <2> HIDE DEF age, millis
  <2>6. ASSUME age < Half
        PROVE  Wrap(age) = age /\ Wrap(secs) = secs /\ Wrap(millis) = millis
    BY <2>2, <2>4, <2>5, <2>6, WrapFits, ReplicaAssumption
  <2>7. ASSUME age \in Half .. 2 * Half - 1
        PROVE  Wrap(age) < 0 /\ Wrap(secs) = secs
    <3>1. secs < Half
      BY <2>2, <2>4, <2>7, ReplicaAssumption
    <3> QED
      BY <2>2, <2>7, <3>1, WrapFits, WrapOverflows
  <2>8. age > 0 /\ secs > 0
    BY <2>2, <2>4
  <2>9. secs * Second = age /\ secs * Milli = millis
    BY DEF age, millis
  <2> QED
    BY <2>3, <2>6, <2>7, <2>8, <2>9
<1> QED
  BY <1>1, <1>2, LoadedKept, ReplicaInvariant, PTL DEF ReplicaSpec
=============================================================================
