-------------------------- MODULE SetupScriptProofs --------------------------
(***************************************************************************)
(* The safety of the set-up script, for any number of overlapping runs and *)
(* any other providers.  The inductive invariant says what each run relies *)
(* on at its step: its key, what it and others have set up so far, and     *)
(* that the outpost differs from what it has seen only by what it missed.  *)
(***************************************************************************)
EXTENDS SetupScript, TLAPS

Bound == {"outpost", "patchOutpost", "done"}
Pcs == Resting \cup Writes \cup {"flows", "provider", "app", "outpost"}
Keyed == {"app", "postApp", "patchApp"} \cup Bound

RunInv(r) ==
    LET q == run[r] IN
    /\ q.pc \in Writes => ~q.dry
    /\ q.pk \in {Ours, None}
    /\ q.pc \in Keyed /\ ~q.dry => q.pk = Ours /\ provider = Ours
    /\ q.pc \in Bound /\ ~q.dry => app = Ours
    /\ q.pc = "done" /\ ~q.dry => outpost = Absent \/ Ours \in outpost
    /\ q.pc = "patchOutpost" => /\ outpost \in SUBSET Pk
                                /\ outpost \subseteq q.seen \cup missed[r]
                                /\ q.seen \subseteq outpost \cup missed[r]

SetupInv == SetupTypeOK /\ \A r \in Runner : RunInv(r)

(* What a step may do to Authentik, as far as the runs rely on it.         *)
Harmless ==
    /\ provider' \in {provider, Ours} /\ app' \in {app, Ours}
    /\ \/ outpost' = outpost
       \/ /\ outpost' \in SUBSET Pk
          /\ outpost = Absent \/ Ours \in outpost => Ours \in outpost'

Noted(d) ==
    At(d, "patchOutpost") =>
      missed[d] \cup (outpost \ outpost') \cup (outpost' \ outpost) \subseteq missed'[d]

LEMMA OthersKeep ==
    ASSUME SetupInv, Harmless, NEW d \in Runner, run'[d] = run[d], Noted(d)
    PROVE  RunInv(d)'
<1>1. RunInv(d) /\ provider \in {Ours, Absent}
  BY DEF SetupInv, SetupTypeOK
<1>2. provider = Ours => provider' = Ours
  BY DEF Harmless
<1>3. app = Ours => app' = Ours
  BY DEF Harmless
<1>4. outpost = Absent \/ Ours \in outpost => outpost' = Absent \/ Ours \in outpost'
  BY DEF Harmless
<1>5. ASSUME run[d].pc = "patchOutpost"
      PROVE  /\ outpost' \in SUBSET Pk /\ outpost' \subseteq run[d].seen \cup missed'[d]
             /\ run[d].seen \subseteq outpost' \cup missed'[d]
  BY <1>1, <1>5 DEF RunInv, Harmless, Noted, At
<1> QED
  BY <1>1, <1>2, <1>3, <1>4, <1>5 DEF RunInv

(* A run's record after a step of its own.                                 *)
Moved(r, pc, pk, seen) ==
    /\ run' \in [Runner -> Run]
    /\ run'[r].pc = pc /\ run'[r].pk = pk /\ run'[r].seen = seen
    /\ run'[r].dry = run[r].dry
    /\ \A d \in Runner \ {r} : run'[d] = run[d]

LEMMA GotoMoves ==
    ASSUME SetupInv, NEW r \in Runner, NEW pc \in Pcs, Goto(r, pc)
    PROVE  Moved(r, pc, run[r].pk, run[r].seen)
<1>1. run \in [Runner -> Run] /\ run[r] \in Run
  BY DEF SetupInv, SetupTypeOK
<1> QED
  BY <1>1 DEF Goto, Run, Pcs, Moved

LEMMA KeyMoves ==
    ASSUME SetupInv, NEW r \in Runner, NEW pc \in Pcs, NEW pk \in Pk \cup {None},
           run' = [run EXCEPT ![r].pc = pc, ![r].pk = pk]
    PROVE  Moved(r, pc, pk, run[r].seen)
<1>1. run \in [Runner -> Run] /\ run[r] \in Run
  BY DEF SetupInv, SetupTypeOK
<1> DEFINE q == [run[r] EXCEPT !.pc = pc, !.pk = pk]
<1>2. q \in Run /\ q.pc = pc /\ q.pk = pk /\ q.seen = run[r].seen /\ q.dry = run[r].dry
  BY <1>1 DEF Run, Pcs
<1>3. run' = [run EXCEPT ![r] = q]
  OBVIOUS
<1> HIDE DEF q
<1> QED
  BY <1>1, <1>2, <1>3 DEF Moved

LEMMA SeenMoves ==
    ASSUME SetupInv, NEW r \in Runner, NEW pc \in Pcs, NEW seen \in SUBSET Pk,
           run' = [run EXCEPT ![r].seen = seen, ![r].pc = pc]
    PROVE  Moved(r, pc, run[r].pk, seen)
<1>1. run \in [Runner -> Run] /\ run[r] \in Run
  BY DEF SetupInv, SetupTypeOK
<1> DEFINE q == [run[r] EXCEPT !.seen = seen, !.pc = pc]
<1>2. q \in Run /\ q.pc = pc /\ q.pk = run[r].pk /\ q.seen = seen /\ q.dry = run[r].dry
  BY <1>1 DEF Run, Pcs
<1>3. run' = [run EXCEPT ![r] = q]
  OBVIOUS
<1> HIDE DEF q
<1> QED
  BY <1>1, <1>2, <1>3 DEF Moved

(* A step of run r: the invariant holds again if it holds of r.            *)
LEMMA RunStep ==
    ASSUME SetupInv, Harmless, NEW r \in Runner,
           run' \in [Runner -> Run], \A d \in Runner \ {r} : run'[d] = run[d],
           provider' \in {Ours, Absent}, app' \in Pk \cup {None, Absent},
           missed' \in [Runner -> SUBSET Pk], \A d \in Runner \ {r} : Noted(d), RunInv(r)'
    PROVE  SetupInv'
<1>1. \A d \in Runner \ {r} : RunInv(d)'
  BY OthersKeep
<1>2. SetupTypeOK'
  BY DEF SetupInv, SetupTypeOK, Harmless
<1> QED
  BY <1>1, <1>2 DEF SetupInv

(* A step of run r that only reads, or fails.                              *)
LEMMA ReadStep ==
    ASSUME SetupInv, NEW r \in Runner, UNCHANGED <<authentik, missed>>,
           run' \in [Runner -> Run], \A d \in Runner \ {r} : run'[d] = run[d], RunInv(r)'
    PROVE  SetupInv'
<1>1. Harmless /\ \A d \in Runner : Noted(d)
  BY DEF authentik, Harmless, Noted
<1>2. /\ provider' \in {Ours, Absent} /\ app' \in Pk \cup {None, Absent}
      /\ missed' \in [Runner -> SUBSET Pk]
  BY DEF SetupInv, SetupTypeOK, authentik
<1> QED
  BY <1>1, <1>2, RunStep
-----------------------------------------------------------------------------
(* The steps of a run.                                                     *)

LEMMA StopInv ==
    ASSUME SetupInv, NEW r \in Runner, Fail(r) \/ Reject(r)
    PROVE  SetupInv'
<1>1. Goto(r, "failed") /\ UNCHANGED <<authentik, missed>>
  BY DEF Fail, Reject
<1>2. Moved(r, "failed", run[r].pk, run[r].seen)
  <2>1. "failed" \in Pcs
    BY DEF Pcs, Resting
  <2> QED
    BY <1>1, <2>1, GotoMoves
<1>3. RunInv(r)
  BY DEF SetupInv
<1>4. RunInv(r)'
  BY <1>2, <1>3 DEF RunInv, Moved, Writes, Keyed, Bound
<1> QED
  BY <1>1, <1>2, <1>4, ReadStep DEF Moved

LEMMA StartInv ==
    ASSUME SetupInv, NEW r \in Runner, NEW dry \in BOOLEAN, Start(r, dry)
    PROVE  SetupInv'
<1> DEFINE q == [pc |-> "flows", dry |-> dry, pk |-> None, seen |-> {}]
<1>1. /\ run \in [Runner -> Run] /\ missed \in [Runner -> SUBSET Pk] /\ q \in Run
  BY DEF SetupInv, SetupTypeOK, Run
<1>2. /\ run' = [run EXCEPT ![r] = q] /\ missed' = [missed EXCEPT ![r] = {}]
      /\ UNCHANGED authentik
  BY DEF Start
<1>3. /\ run' \in [Runner -> Run] /\ \A d \in Runner \ {r} : run'[d] = run[d]
      /\ run'[r].pc = "flows" /\ run'[r].pk = None
      /\ missed' \in [Runner -> SUBSET Pk]
  BY <1>1, <1>2
<1>4. Harmless /\ \A d \in Runner \ {r} : Noted(d)
  BY <1>1, <1>2 DEF authentik, Harmless, Noted
<1>5. RunInv(r)'
  BY <1>3 DEF RunInv, Writes, Keyed, Bound
<1>6. provider' \in {Ours, Absent} /\ app' \in Pk \cup {None, Absent}
  BY <1>2 DEF SetupInv, SetupTypeOK, authentik
<1> QED
  BY <1>3, <1>4, <1>5, <1>6, RunStep

(* A step that reads can go on to pc with key pk and list seen.            *)
Fits(r, pc, pk, seen) ==
    /\ pc \in Writes => ~run[r].dry
    /\ pk \in {Ours, None}
    /\ pc \in Keyed /\ ~run[r].dry => pk = Ours /\ provider = Ours
    /\ pc \in Bound /\ ~run[r].dry => app = Ours
    /\ pc = "done" /\ ~run[r].dry => outpost = Absent \/ Ours \in outpost
    /\ pc = "patchOutpost" => outpost \in SUBSET Pk /\ seen = outpost

LEMMA ReadInv ==
    ASSUME SetupInv, NEW r \in Runner, UNCHANGED <<authentik, missed>>,
           NEW pc, NEW pk, NEW seen, Moved(r, pc, pk, seen), Fits(r, pc, pk, seen)
    PROVE  SetupInv'
<1>1. RunInv(r)'
  BY DEF RunInv, authentik, Moved, Fits
<1> QED
  BY <1>1, ReadStep DEF Moved

LEMMA FlowsInv ==
    ASSUME SetupInv, NEW r \in Runner, FindFlows(r)
    PROVE  SetupInv'
<1>1. UNCHANGED <<authentik, missed>> /\ Goto(r, "provider") /\ "provider" \in Pcs
  BY DEF FindFlows, Pcs
<1>2. Moved(r, "provider", run[r].pk, run[r].seen)
  BY <1>1, GotoMoves
<1>3. Fits(r, "provider", run[r].pk, run[r].seen)
  BY DEF SetupInv, RunInv, Fits, Writes, Keyed, Bound
<1> QED
  BY <1>1, <1>2, <1>3, ReadInv

LEMMA FindProviderInv ==
    ASSUME SetupInv, NEW r \in Runner, FindProvider(r)
    PROVE  SetupInv'
<1>1. UNCHANGED <<authentik, missed>> /\ {"app", "postProvider"} \subseteq Pcs
  BY DEF FindProvider, Pcs, Writes
<1>2. provider \in {Ours, Absent} /\ run[r].pk \in {Ours, None} /\ Ours \in Pk \cup {None}
  BY DEF SetupInv, SetupTypeOK, RunInv, Pk
<1>3. CASE provider # Absent
  <2>1. provider = Ours /\ run' = [run EXCEPT ![r].pc = "app", ![r].pk = Ours]
    BY <1>2, <1>3 DEF FindProvider
  <2>2. Moved(r, "app", Ours, run[r].seen)
    BY <1>1, <1>2, <2>1, KeyMoves
  <2>3. Fits(r, "app", Ours, run[r].seen)
    BY <2>1 DEF Fits, Writes, Bound
  <2> QED
    BY <1>1, <2>2, <2>3, ReadInv
<1>4. CASE provider = Absent /\ run[r].dry
  <2>1. Goto(r, "app")
    BY <1>4 DEF FindProvider
  <2>2. Moved(r, "app", run[r].pk, run[r].seen)
    BY <1>1, <2>1, GotoMoves
  <2>3. Fits(r, "app", run[r].pk, run[r].seen)
    BY <1>2, <1>4 DEF Fits, Writes
  <2> QED
    BY <1>1, <2>2, <2>3, ReadInv
<1>5. CASE provider = Absent /\ ~run[r].dry
  <2>1. Goto(r, "postProvider")
    BY <1>5 DEF FindProvider
  <2>2. Moved(r, "postProvider", run[r].pk, run[r].seen)
    BY <1>1, <2>1, GotoMoves
  <2>3. Fits(r, "postProvider", run[r].pk, run[r].seen)
    BY <1>2, <1>5 DEF Fits, Keyed, Bound
  <2> QED
    BY <1>1, <2>2, <2>3, ReadInv
<1> QED
  BY <1>3, <1>4, <1>5

LEMMA FindAppInv ==
    ASSUME SetupInv, NEW r \in Runner, FindApp(r)
    PROVE  SetupInv'
<1>1. UNCHANGED <<authentik, missed>> /\ {"outpost", "postApp", "patchApp"} \subseteq Pcs
  BY DEF FindApp, Pcs, Writes
<1>2. /\ run[r].pk \in {Ours, None}
      /\ ~run[r].dry => run[r].pk = Ours /\ provider = Ours
  BY DEF FindApp, At, SetupInv, RunInv, Keyed
<1>3. PICK pc \in {"outpost", "postApp", "patchApp"} :
         Goto(r, pc) /\ (pc = "outpost" => app = run[r].pk \/ run[r].dry)
                     /\ (pc # "outpost" => ~run[r].dry)
  BY DEF FindApp
<1>4. Moved(r, pc, run[r].pk, run[r].seen)
  BY <1>1, <1>3, GotoMoves
<1>5. Fits(r, pc, run[r].pk, run[r].seen)
  BY <1>2, <1>3 DEF Fits, Writes, Bound
<1> QED
  BY <1>1, <1>4, <1>5, ReadInv

LEMMA FindOutpostInv ==
    ASSUME SetupInv, NEW r \in Runner, FindOutpost(r)
    PROVE  SetupInv'
<1>1. UNCHANGED <<authentik, missed>> /\ {"done", "patchOutpost"} \subseteq Pcs
  BY DEF FindOutpost, Pcs, Writes, Resting
<1>2. /\ run[r].pk \in {Ours, None} /\ outpost \in (SUBSET Pk) \cup {Absent}
      /\ ~run[r].dry => run[r].pk = Ours /\ provider = Ours /\ app = Ours
  BY DEF FindOutpost, At, SetupInv, SetupTypeOK, RunInv, Keyed, Bound
<1>3. CASE outpost = Absent
  <2>1. Goto(r, "done")
    BY <1>3 DEF FindOutpost
  <2>2. Moved(r, "done", run[r].pk, run[r].seen)
    BY <1>1, <2>1, GotoMoves
  <2>3. Fits(r, "done", run[r].pk, run[r].seen)
    BY <1>2, <1>3 DEF Fits, Writes
  <2> QED
    BY <1>1, <2>2, <2>3, ReadInv
<1>4. CASE outpost # Absent
  <2>1. PICK pc \in {"done", "patchOutpost"} :
          /\ run' = [run EXCEPT ![r].seen = outpost, ![r].pc = pc]
          /\ pc = "done" => run[r].dry \/ run[r].pk \in outpost
          /\ pc = "patchOutpost" => ~run[r].dry
    BY <1>4 DEF FindOutpost
  <2>2. outpost \in SUBSET Pk /\ pc \in Pcs
    BY <1>1, <1>2, <1>4
  <2>3. Moved(r, pc, run[r].pk, outpost)
    BY <2>1, <2>2, SeenMoves
  <2>4. Fits(r, pc, run[r].pk, outpost)
    BY <1>2, <2>1, <2>2 DEF Fits, Writes
  <2> QED
    BY <1>1, <2>3, <2>4, ReadInv
<1> QED
  BY <1>3, <1>4

(* A write of run r, after which it goes on to pc, or stops.               *)
LEMMA WriteInv ==
    ASSUME SetupInv, Harmless, NEW r \in Runner, NEW pc \in {"app", "outpost", "done"},
           Applied(r, pc, Ours), ~run[r].dry,
           provider' = Ours, app' \in Pk \cup {None, Absent},
           pc \in Bound => app' = Ours,
           pc = "done" => Ours \in outpost',
           missed' \in [Runner -> SUBSET Pk], \A d \in Runner : Noted(d)
    PROVE  SetupInv'
<1>1. PICK to \in {pc, "failed"} : run' = [run EXCEPT ![r].pc = to, ![r].pk = Ours]
  BY DEF Applied
<1>2. Ours \in Pk \cup {None} /\ to \in Pcs
  BY DEF Pk, Pcs, Resting
<1>3. Moved(r, to, Ours, run[r].seen)
  BY <1>1, <1>2, KeyMoves
<1>4. RunInv(r)'
  BY <1>3 DEF RunInv, Moved, Writes, Keyed, Bound
<1> QED
  BY <1>3, <1>4, RunStep DEF Moved

LEMMA ApplyInv ==
    ASSUME SetupInv, NEW r \in Runner,
           PostProvider(r) \/ PostApp(r) \/ PatchApp(r) \/ PatchOutpost(r)
    PROVE  SetupInv'
<1>1. /\ run[r].pc \in Writes /\ ~run[r].dry /\ missed \in [Runner -> SUBSET Pk]
      /\ app \in Pk \cup {None, Absent} /\ Ours \in Pk
      /\ outpost \in (SUBSET Pk) \cup {Absent} /\ run[r].seen \in SUBSET Pk
  BY DEF PostProvider, PostApp, PatchApp, PatchOutpost, At, Writes, SetupInv, SetupTypeOK, RunInv,
         Run, Pk
<1>2. CASE PostProvider(r)
  <2>1. /\ Applied(r, "app", Ours) /\ provider' = Ours /\ UNCHANGED <<app, outpost, missed>>
    BY <1>2 DEF PostProvider
  <2>2. Harmless /\ \A d \in Runner : Noted(d)
    BY <2>1 DEF Harmless, Noted
  <2> QED
    BY <1>1, <2>1, <2>2, WriteInv DEF Bound
<1>3. CASE PostApp(r) \/ PatchApp(r)
  <2>1. run[r].pk = Ours /\ provider = Ours
    BY <1>1, <1>3 DEF PostApp, PatchApp, At, SetupInv, RunInv, Keyed
  <2>2. /\ Applied(r, "outpost", Ours) /\ app' = Ours /\ UNCHANGED <<provider, outpost, missed>>
    BY <1>3, <2>1 DEF PostApp, PatchApp
  <2>3. Harmless /\ \A d \in Runner : Noted(d)
    BY <2>2 DEF Harmless, Noted
  <2> QED
    BY <1>1, <2>1, <2>2, <2>3, WriteInv
<1>4. CASE PatchOutpost(r)
  <2>1. run[r].pk = Ours /\ provider = Ours /\ app = Ours /\ outpost \in SUBSET Pk
    BY <1>1, <1>4 DEF PatchOutpost, At, SetupInv, RunInv, Keyed, Bound
  <2>2. /\ Applied(r, "done", Ours) /\ outpost' = run[r].seen \cup {Ours}
        /\ Missed(outpost, outpost') /\ UNCHANGED <<provider, app>>
    BY <1>4, <2>1 DEF PatchOutpost
  <2>3. outpost' \in SUBSET Pk /\ Ours \in outpost'
    BY <1>1, <2>2
  <2>4. Harmless
    BY <2>2, <2>3 DEF Harmless
  <2>5. missed' \in [Runner -> SUBSET Pk] /\ \A d \in Runner : Noted(d)
    BY <1>1, <2>1, <2>2, <2>3 DEF Missed, Noted
  <2> QED
    BY <1>1, <2>1, <2>2, <2>3, <2>4, <2>5, WriteInv
<1> QED
  BY <1>2, <1>3, <1>4

LEMMA AdministratorInv ==
    ASSUME SetupInv, NEW q \in Other, Assign(q) \/ Unassign(q)
    PROVE  SetupInv'
<1>1. /\ UNCHANGED <<provider, app, run>> /\ outpost \in SUBSET Pk /\ q # Ours /\ q \in Pk
      /\ missed \in [Runner -> SUBSET Pk]
  BY SetupAssumption DEF Assign, Unassign, SetupInv, SetupTypeOK, Pk
<1>2. /\ outpost' = outpost \cup {q} \/ outpost' = outpost \ {q}
      /\ missed' \in [Runner -> SUBSET Pk] /\ \A d \in Runner : Noted(d)
  <2>1. CASE Assign(q)
    BY <1>1, <2>1 DEF Assign, Missed, Noted
  <2>2. CASE Unassign(q)
    BY <1>1, <2>2 DEF Unassign, Missed, Noted
  <2> QED
    BY <2>1, <2>2
<1>3. outpost # Absent
  BY DEF Assign, Unassign
<1>4. Harmless
  BY <1>1, <1>2, <1>3 DEF Harmless
<1>5. \A d \in Runner : RunInv(d)'
  BY <1>1, <1>2, <1>4, OthersKeep
<1>6. SetupTypeOK'
  BY <1>1, <1>2 DEF SetupInv, SetupTypeOK
<1> QED
  BY <1>5, <1>6 DEF SetupInv

LEMMA SetupNextInv == SetupInv /\ [SetupNext]_setupVars => SetupInv'
<1> SUFFICES ASSUME SetupInv, [SetupNext]_setupVars
             PROVE  SetupInv'
  OBVIOUS
<1>1. CASE UNCHANGED setupVars
  BY <1>1 DEF setupVars, authentik, SetupInv, SetupTypeOK, RunInv
<1> QED
  BY <1>1, StopInv, StartInv, FlowsInv, FindProviderInv, FindAppInv, FindOutpostInv, ApplyInv,
     AdministratorInv DEF SetupNext, Step
-----------------------------------------------------------------------------
(* The inductive invariant of the script.                                  *)
THEOREM SetupInvariant == SetupSpec => []SetupInv
<1>1. SetupInit => SetupInv
  BY DEF SetupInit, SetupInv, SetupTypeOK, Run, RunInv, Resting, Writes, Keyed, Bound, Pk
<1> QED
  BY <1>1, SetupNextInv, PTL DEF SetupSpec

THEOREM SetupTypeCorrect == SetupSpec => []SetupTypeOK
<1>1. SetupInv => SetupTypeOK
  BY DEF SetupInv
<1> QED
  BY <1>1, SetupInvariant, PTL

(* "Done" is true, whatever the run found and whoever ran at the same time. *)
THEOREM DoneMeansConfigured == SetupSpec => []DoneIsConfigured
<1>1. SetupInv => DoneIsConfigured
  BY DEF SetupInv, RunInv, DoneIsConfigured, Configured, Keyed, Bound, At
<1> QED
  BY <1>1, SetupInvariant, PTL

(* A PATCH of the outpost takes off, or puts back, only what was assigned,  *)
(* or removed, between the run's GET and its PATCH.                        *)
THEOREM LostUpdates == SetupSpec => LossIsARace
<1>1. ASSUME SetupInv, NEW r \in Runner, PatchOutpost(r)
      PROVE  /\ outpost \ outpost' \subseteq missed[r]
             /\ outpost' \ (outpost \cup {run[r].pk}) \subseteq missed[r]
  <2>1. /\ outpost \subseteq run[r].seen \cup missed[r]
        /\ run[r].seen \subseteq outpost \cup missed[r]
        /\ outpost' = run[r].seen \cup {run[r].pk}
    BY <1>1 DEF SetupInv, RunInv, PatchOutpost, At
  <2> QED
    BY <2>1
<1>2. SetupInv => \A r \in Runner : PatchOutpost(r) =>
                      /\ outpost \ outpost' \subseteq missed[r]
                      /\ outpost' \ (outpost \cup {run[r].pk}) \subseteq missed[r]
  BY <1>1
<1> QED
  BY <1>2, SetupInvariant, PTL DEF LossIsARace

(* A dry run writes nothing: only a run that is not dry reaches a request   *)
(* that does, and no step moves two runs.                                  *)
THEOREM DryRunsOnlyRead == SetupSpec => DryRunIsReadOnly
<1>1. ASSUME SetupInv, [SetupNext]_setupVars, NEW r \in Runner, run[r].dry, run'[r] # run[r]
      PROVE  UNCHANGED authentik
  <2>1. run \in [Runner -> Run] /\ (run[r].pc \in Writes => ~run[r].dry)
    BY <1>1 DEF SetupInv, SetupTypeOK, RunInv
  <2>2. PICK d \in Runner : Step(d) \/ Reject(d) \/ Fail(d) \/ \E dry \in BOOLEAN : Start(d, dry)
    BY <1>1 DEF SetupNext, setupVars, Assign, Unassign
  <2>3. CASE FindFlows(d) \/ FindProvider(d) \/ FindApp(d) \/ FindOutpost(d)
    BY <2>3 DEF FindFlows, FindProvider, FindApp, FindOutpost
  <2>4. CASE Reject(d) \/ Fail(d) \/ \E dry \in BOOLEAN : Start(d, dry)
    BY <2>4 DEF Reject, Fail, Start
  <2>5. CASE PostProvider(d) \/ PostApp(d) \/ PatchApp(d) \/ PatchOutpost(d)
    <3>1. run[d].pc \in Writes
      BY <2>5 DEF PostProvider, PostApp, PatchApp, PatchOutpost, At, Writes
    <3>2. d # r
      BY <1>1, <2>1, <3>1
    <3>3. \E pc, pk : run' = [run EXCEPT ![d].pc = pc, ![d].pk = pk]
      BY <2>5 DEF PostProvider, PostApp, PatchApp, PatchOutpost, Applied
    <3> QED
      BY <1>1, <2>1, <3>2, <3>3
  <2> QED
    BY <2>2, <2>3, <2>4, <2>5 DEF Step
<1>2. SetupInv /\ [SetupNext]_setupVars =>
        \A r \in Runner : run[r].dry /\ run'[r] # run[r] => UNCHANGED authentik
  BY <1>1
<1> QED
  BY <1>2, SetupInvariant, PTL DEF SetupSpec, DryRunIsReadOnly
-----------------------------------------------------------------------------
(* What the runs rely on is all that a step may do.                        *)
LEMMA StepsAreHarmless ==
    ASSUME SetupInv, [SetupNext]_setupVars
    PROVE  Harmless
<1>1. CASE UNCHANGED authentik
  BY <1>1 DEF authentik, Harmless
<1>2. ASSUME NEW r \in Runner, Step(r), ~UNCHANGED authentik
      PROVE  Harmless
  <2>1. PostProvider(r) \/ PostApp(r) \/ PatchApp(r) \/ PatchOutpost(r)
    BY <1>2 DEF Step, FindFlows, FindProvider, FindApp, FindOutpost
  <2>2. run[r].pc \in {"postApp", "patchApp", "patchOutpost"} => run[r].pk = Ours
    BY DEF SetupInv, RunInv, Writes, Keyed, Bound
  <2>3. CASE PostProvider(r)
    BY <2>3 DEF PostProvider, Harmless
  <2>4. CASE PostApp(r) \/ PatchApp(r)
    BY <2>2, <2>4 DEF PostApp, PatchApp, At, Harmless
  <2>5. CASE PatchOutpost(r)
    <3>1. run[r].seen \in SUBSET Pk /\ Ours \in Pk /\ outpost' = run[r].seen \cup {Ours}
      BY <2>2, <2>5 DEF PatchOutpost, At, SetupInv, SetupTypeOK, Run, Pk
    <3> QED
      BY <2>5, <3>1 DEF PatchOutpost, Harmless
  <2> QED
    BY <2>1, <2>3, <2>4, <2>5
<1>3. ASSUME NEW q \in Other, Assign(q) \/ Unassign(q)
      PROVE  Harmless
  <2>1. outpost \in SUBSET Pk /\ q \in Pk /\ q # Ours /\ UNCHANGED <<provider, app>>
    BY <1>3, SetupAssumption DEF Assign, Unassign, SetupInv, SetupTypeOK, Pk
  <2>2. outpost # Absent /\ (outpost' = outpost \cup {q} \/ outpost' = outpost \ {q})
    BY <1>3 DEF Assign, Unassign
  <2> QED
    BY <2>1, <2>2 DEF Harmless
<1>4. CASE UNCHANGED setupVars
  BY <1>1, <1>4 DEF setupVars
<1>5. ASSUME NEW r \in Runner, Reject(r) \/ Fail(r) \/ \E dry \in BOOLEAN : Start(r, dry)
      PROVE  UNCHANGED authentik
  BY <1>5 DEF Reject, Fail, Start
<1> QED
  BY <1>1, <1>2, <1>3, <1>4, <1>5 DEF SetupNext

(* A complete set-up is never undone: a run writes only its own key, which *)
(* is the provider's, and the administrator leaves that alone.             *)
THEOREM SetupIsKept == SetupSpec => StaysConfigured
<1>1. Harmless /\ Configured => Configured'
  BY DEF Harmless, Configured
<1>2. SetupInv /\ [SetupNext]_setupVars => (Configured => Configured')
  BY <1>1, StepsAreHarmless
<1> QED
  BY <1>2, SetupInvariant, PTL DEF SetupSpec, StaysConfigured
=============================================================================
