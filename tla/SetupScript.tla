----------------------------- MODULE SetupScript -----------------------------
(***************************************************************************)
(* authentik-setup-ghost.py: find or create the proxy provider and the     *)
(* application, and assign the provider to the embedded outpost.  Every    *)
(* API request is a step; runs can overlap, fail at any request, be        *)
(* started again, and share Authentik with its administrator.              *)
(***************************************************************************)
EXTENDS FiniteSets

CONSTANTS
    Runner,  \* terminals the script is run from
    Ours,    \* the primary key Authentik gives a provider called PROVIDER_NAME
    Other,   \* the keys of other providers
    Absent,  \* there is no such object
    None     \* no key

ASSUME SetupAssumption == Ours \notin Other /\ {Absent, None} \cap (Other \cup {Ours}) = {}

Pk == Other \cup {Ours}

VARIABLES
    provider,  \* the provider called PROVIDER_NAME, or Absent
    app,       \* the provider of application APP_SLUG, None if unset, or Absent
    outpost,   \* the providers of the outpost, or Absent
    run,       \* run[r]: the run of the script in terminal r
    missed     \* history: missed[r]: the providers assigned or removed since r looked

authentik == <<provider, app, outpost>>
setupVars == <<authentik, run, missed>>

Resting == {"idle", "done", "failed"}
Writes == {"postProvider", "postApp", "patchApp", "patchOutpost"}

Run == [pc : Resting \cup Writes \cup {"flows", "provider", "app", "outpost"},
        dry : BOOLEAN, pk : Pk \cup {None}, seen : SUBSET Pk]

SetupTypeOK ==
    /\ provider \in {Ours, Absent}
    /\ app \in Pk \cup {None, Absent}
    /\ outpost \in (SUBSET Pk) \cup {Absent}
    /\ run \in [Runner -> Run]
    /\ missed \in [Runner -> SUBSET Pk]

(* Whatever an earlier run, or an older set-up, has left behind.           *)
SetupInit ==
    /\ provider \in {Ours, Absent}
    /\ app \in {q \in Pk : q = Ours => provider = Ours} \cup {None, Absent}
    /\ outpost \in (SUBSET {q \in Pk : q = Ours => provider = Ours}) \cup {Absent}
    /\ run = [r \in Runner |-> [pc |-> "idle", dry |-> FALSE, pk |-> None, seen |-> {}]]
    /\ missed = [r \in Runner |-> {}]

-----------------------------------------------------------------------------
(* Steps of a run.                                                         *)

At(r, pc) == run[r].pc = pc

Goto(r, pc) == run' = [run EXCEPT ![r].pc = pc]

Start(r, dry) ==
    /\ run[r].pc \in Resting
    /\ run' = [run EXCEPT ![r] = [pc |-> "flows", dry |-> dry, pk |-> None, seen |-> {}]]
    /\ missed' = [missed EXCEPT ![r] = {}]
    /\ UNCHANGED authentik

(* sys.exit(1) on an HTTP error or a missing flow; a lost connection;      *)
(* Ctrl-C.                                                                 *)
Fail(r) ==
    /\ run[r].pc \notin Resting
    /\ Goto(r, "failed")
    /\ UNCHANGED <<authentik, missed>>

(* The name or the slug has been taken meanwhile: 400, and sys.exit(1).    *)
Reject(r) ==
    /\ \/ At(r, "postProvider") /\ provider # Absent
       \/ At(r, "postApp") /\ app # Absent
    /\ Goto(r, "failed")
    /\ UNCHANGED <<authentik, missed>>

FindFlows(r) ==
    /\ At(r, "flows")
    /\ Goto(r, "provider")
    /\ UNCHANGED <<authentik, missed>>

(* Mutant: the first result will do, and the filter matches substrings.    *)
FindFirstProvider(r) ==
    /\ At(r, "provider")
    /\ \E pk \in Pk : run' = [run EXCEPT ![r].pc = "app", ![r].pk = pk]
    /\ UNCHANGED <<authentik, missed>>

(* Mutant: a dry run goes on with what it has not found.                   *)
FindProviderOrNot(r) ==
    /\ At(r, "provider")
    /\ \/ /\ provider # Absent \/ run[r].dry
          /\ run' = [run EXCEPT ![r].pc = "app", ![r].pk = provider]
       \/ /\ provider = Absent /\ ~run[r].dry
          /\ Goto(r, "postProvider")
    /\ UNCHANGED <<authentik, missed>>

(* find_existing_provider; a dry run goes on without a key.                *)
FindProvider(r) ==
    /\ At(r, "provider")
    /\ \/ /\ provider # Absent
          /\ run' = [run EXCEPT ![r].pc = "app", ![r].pk = provider]
       \/ /\ provider = Absent
          /\ Goto(r, IF run[r].dry THEN "app" ELSE "postProvider")
    /\ UNCHANGED <<authentik, missed>>

(* A write has been applied; its reply may be lost.                        *)
Applied(r, pc, pk) ==
    \E lost \in BOOLEAN :
       run' = [run EXCEPT ![r].pc = IF lost THEN "failed" ELSE pc, ![r].pk = pk]

(* Mutant: the key is taken from the reply by the wrong name, so that None *)
(* is passed on: the application is created without a provider.            *)
PostProviderKeyDropped(r) ==
    /\ At(r, "postProvider") /\ provider = Absent
    /\ provider' = Ours
    /\ Applied(r, "app", None)
    /\ UNCHANGED <<app, outpost, missed>>

PostProvider(r) ==
    /\ At(r, "postProvider") /\ provider = Absent
    /\ provider' = Ours
    /\ Applied(r, "app", Ours)
    /\ UNCHANGED <<app, outpost, missed>>

(* Mutant: no look for the application before the POST.                    *)
PostAppAtOnce(r) ==
    /\ At(r, "app")
    /\ Goto(r, IF run[r].dry THEN "outpost" ELSE "postApp")
    /\ UNCHANGED <<authentik, missed>>

(* find_existing_app                                                       *)
FindApp(r) ==
    /\ At(r, "app")
    /\ Goto(r, IF app = run[r].pk \/ run[r].dry THEN "outpost"
               ELSE IF app = Absent THEN "postApp" ELSE "patchApp")
    /\ UNCHANGED <<authentik, missed>>

PostApp(r) ==
    /\ At(r, "postApp") /\ app = Absent
    /\ app' = run[r].pk
    /\ Applied(r, "outpost", run[r].pk)
    /\ UNCHANGED <<provider, outpost, missed>>

PatchApp(r) ==
    /\ At(r, "patchApp")
    /\ app' = run[r].pk
    /\ Applied(r, "outpost", run[r].pk)
    /\ UNCHANGED <<provider, outpost, missed>>

(* Mutant: a dry run does not stop short of the PATCH.                     *)
FindOutpostWhenDry(r) ==
    /\ At(r, "outpost")
    /\ \/ /\ outpost = Absent
          /\ Goto(r, "done")
       \/ /\ outpost # Absent
          /\ run' = [run EXCEPT ![r].seen = outpost,
                       ![r].pc = IF run[r].pk \in outpost THEN "done" ELSE "patchOutpost"]
    /\ UNCHANGED <<authentik, missed>>

(* assign_to_outpost, up to its PATCH.                                     *)
FindOutpost(r) ==
    /\ At(r, "outpost")
    /\ \/ /\ outpost = Absent
          /\ Goto(r, "done")
       \/ /\ outpost # Absent
          /\ run' = [run EXCEPT ![r].seen = outpost,
                       ![r].pc = IF run[r].dry \/ run[r].pk \in outpost
                                 THEN "done" ELSE "patchOutpost"]
    /\ UNCHANGED <<authentik, missed>>

(* The runs that have looked at the outpost miss this change of its list.  *)
Missed(old, new) ==
    missed' = [r \in Runner |->
      IF At(r, "patchOutpost") THEN missed[r] \cup (old \ new) \cup (new \ old) ELSE missed[r]]

(* Mutant: the list is replaced by the new provider.                       *)
ReplaceProviders(r) ==
    /\ At(r, "patchOutpost")
    /\ outpost' = {run[r].pk}
    /\ Missed(outpost, outpost')
    /\ Applied(r, "done", run[r].pk)
    /\ UNCHANGED <<provider, app>>

(* {"providers": current_providers + [provider_pk]}                        *)
PatchOutpost(r) ==
    /\ At(r, "patchOutpost")
    /\ outpost' = run[r].seen \cup {run[r].pk}
    /\ Missed(outpost, outpost')
    /\ Applied(r, "done", run[r].pk)
    /\ UNCHANGED <<provider, app>>

-----------------------------------------------------------------------------
(* The administrator, who leaves the script's own objects alone.           *)

Assign(q) ==
    /\ outpost # Absent /\ q \notin outpost
    /\ outpost' = outpost \cup {q}
    /\ Missed(outpost, outpost')
    /\ UNCHANGED <<provider, app, run>>

Unassign(q) ==
    /\ outpost # Absent /\ q \in outpost
    /\ outpost' = outpost \ {q}
    /\ Missed(outpost, outpost')
    /\ UNCHANGED <<provider, app, run>>

Step(r) ==
    \/ FindFlows(r) \/ FindProvider(r) \/ PostProvider(r) \/ FindApp(r)
    \/ PostApp(r) \/ PatchApp(r) \/ FindOutpost(r) \/ PatchOutpost(r)

SetupNext ==
    \/ \E r \in Runner : Step(r) \/ Reject(r) \/ Fail(r) \/ \E dry \in BOOLEAN : Start(r, dry)
    \/ \E q \in Other : Assign(q) \/ Unassign(q)

SetupSpec == SetupInit /\ [][SetupNext]_setupVars

(* The script runs, and is run again whenever it has ended.                *)
FairSetupSpec ==
    /\ SetupSpec
    /\ \A r \in Runner :
          SF_setupVars(Start(r, FALSE)) /\ WF_setupVars(Step(r) \/ Reject(r))

-----------------------------------------------------------------------------
(* Properties.                                                             *)

Configured ==
    provider = Ours /\ app = Ours /\ (outpost # Absent => Ours \in outpost)

(* A run that printed "Done" has left a provider, bound to the application *)
(* and assigned to the outpost (if there is one), whatever it found, and   *)
(* whatever other runs did at the same time (main).                        *)
DoneIsConfigured == \A r \in Runner : At(r, "done") /\ ~run[r].dry => Configured

(* Writing the list back, a run undoes nothing but what it could not see:  *)
(* a provider it takes off the outpost was assigned, and one it puts back  *)
(* was removed, between its GET and its PATCH, by the administrator or by  *)
(* another run.  The lost update itself is possible (assign_to_outpost).   *)
LossIsARace ==
    [][\A r \in Runner : PatchOutpost(r) =>
          /\ outpost \ outpost' \subseteq missed[r]
          /\ outpost' \ (outpost \cup {run[r].pk}) \subseteq missed[r]]_setupVars

(* --dry-run changes nothing, whatever it finds.                           *)
DryRunIsReadOnly ==
    [][\A r \in Runner : run[r].dry /\ run'[r] # run[r] => UNCHANGED authentik]_setupVars

(* Once Authentik is set up, no run undoes it, however old what it has     *)
(* read, and wherever it stops (find_existing_provider, find_existing_app, *)
(* assign_to_outpost).                                                     *)
StaysConfigured == [][Configured => Configured']_setupVars

(* A run stops although Authentik did not refuse anything.                 *)
Breaks == \E r \in Runner : ~At(r, "failed") /\ At(r, "failed")' /\ ~Reject(r)

(* Wherever runs have stopped before, once they no longer break, running   *)
(* the script again sets Authentik up for good (docs/authentik-setup.md:37:*)
(* "re-running it will skip resources that already exist and only patch    *)
(* what differs").  The code patches the application and the outpost; a    *)
(* provider it finds is used as it is, whatever its fields.                *)
RerunsConverge == <>[][~Breaks]_setupVars => <>[]Configured
=============================================================================
