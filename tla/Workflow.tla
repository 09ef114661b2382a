------------------------------ MODULE Workflow ------------------------------
(***************************************************************************)
(* The patch-notes workflow: the verbs of src/patch-notes/pn/workflow.py   *)
(* (prepare, merge-assessment, publish) and the mechanical stage           *)
(* (make_patch_notes.main) as sequences of steps over the files of one     *)
(* output directory.  A verb can be killed between any two steps.  The     *)
(* snapshot may be replaced at any time; the tier rules and the assessment *)
(* change while no verb runs.  The next verb decides from the files alone  *)
(* what it may reuse.                                                      *)
(*                                                                         *)
(* A file is what it was made from.  A mechanical artifact is the set of   *)
(* <<snapshot, options>> pairs whose data went into it, so an artifact     *)
(* made of one run is a singleton.  jsonio.write replaces a file whole;    *)
(* diff.json and the two Markdown files are truncated first and may be     *)
(* left torn.                                                              *)
(***************************************************************************)
EXTENDS Gateway, FiniteSets

CONSTANTS
    Options,        \* sets of output options (types, bodies, noise, sources)
    Snapshots,      \* what the NEW snapshot's ESM can be
    MaxRules,       \* bound on the versions of the tier rules
    MaxVerbs,       \* bound on the verbs the user starts
    MaxKills,       \* bound on the kills
    MaxSwaps        \* bound on the replacements of the snapshot

Mechanical == {"diff", "comp", "bundles", "lints"}
WorkFiles == {"deep", "ambiguous", "brief", "rollouts"}
None == [absent |-> TRUE]
TornFile == [torn |-> TRUE]
Made(x) == [of |-> x]

VARIABLES
    snap,    \* the NEW snapshot on disk (token, size and mtime tell it)
    rules,   \* the version of patch_notes_tiers.json
    file,    \* the output directory: name -> None, TornFile or Made(x)
    job,     \* the verb that runs: its step and its locals
    verbs,   \* the verbs started so far
    kills,
    swaps,
    swapped  \* history: was the snapshot replaced since the running verb
             \* first looked at it?

wf == <<snap, rules, file, job, verbs, kills, swaps, swapped>>
vars == <<wf, gateway>>

Names == Mechanical \cup WorkFiles \cup
         {"manifest", "triage", "assessment", "parts", "chunks"}
Idle == [pc |-> "idle", verb |-> "none", opts |-> None,
         force |-> FALSE, retriage |-> FALSE, skip |-> "none", reused |-> FALSE,
         had |-> FALSE, warned |-> FALSE, inputs |-> {}, out |-> {}]

Init ==
    /\ snap \in Snapshots /\ rules = 1 /\ verbs = 0 /\ kills = 0 /\ swaps = 0 /\ swapped = FALSE
    /\ file = [n \in Names |-> None]
    /\ job = Idle
    /\ GatewayInit

At(pc) == job.pc = pc
Goto(pc) == job' = [job EXCEPT !.pc = pc]
Write(n, value) == file' = [file EXCEPT ![n] = value]
Still == UNCHANGED <<snap, rules, verbs, kills, swaps>>
Quiet == Still /\ UNCHANGED swapped
Return == job' = Idle

Here == <<snap, job.opts>>
From(n) == file[n].of
IsMade(n) == "of" \in DOMAIN file[n]

-----------------------------------------------------------------------------
(* Deciding what to reuse.                                                 *)

(* reuse_problem: the manifest names the snapshots as they are now, the    *)
(* same options, a finished stage and every artifact, and all of them      *)
(* parse.  (The pipeline version is one more option.)                      *)
Reusable ==
    /\ IsMade("manifest")
    /\ From("manifest").input = Here
    /\ \A n \in Mechanical : n \in From("manifest").files /\ IsMade(n)

(* inputs_digest: what a triage is computed from, as it is now. *)
InputsDigest == <<file["bundles"], file["comp"], file["lints"], rules>>

(* triage_problem: the triage and its files are there and it was made of   *)
(* these inputs.  (That the DEEP slice lists the DEEP tier is checked too; *)
(* it follows from the order of the writes and is left out.)               *)
TriageUsable ==
    /\ IsMade("triage")
    /\ \A n \in WorkFiles : file[n] # None
    /\ From("triage").inputs = InputsDigest

(* assessor_verdicts: does the kept triage carry an assessor's tiers?      *)
HasVerdicts == IsMade("triage") /\ From("triage").assessed # None

-----------------------------------------------------------------------------
(* make_patch_notes.main, as a verb of its own or called by prepare.       *)

(* Validation: a directory whose narrative is finished is refused.         *)
RunBegins ==
    /\ At("run")
    /\ IF IsMade("manifest") /\ From("manifest").narrative /\ ~job.force
       THEN Return ELSE Goto("unlink")
    /\ UNCHANGED <<file, gateway>> /\ Quiet

(* Until the run finishes nothing here may pass for a finished run: the    *)
(* manifest is removed first, then the triage.                             *)
RunUnlinks_Nothing ==
    /\ At("unlink")
    /\ Goto("diff")
    /\ UNCHANGED <<file, gateway>> /\ Quiet
RunUnlinks ==
    /\ At("unlink")
    /\ IF file["manifest"] # None
       THEN Write("manifest", None) /\ UNCHANGED job
       ELSE Write("triage", None) /\ Goto("diff")
    /\ UNCHANGED gateway /\ Quiet

(* `esm diff` reads both snapshots; its output is kept in memory and       *)
(* written with a plain open and write.                                    *)
RunDiff ==
    /\ At("diff")
    /\ \/ job' = [job EXCEPT !.pc = "diffwrite", !.inputs = {Here}]
       \/ Return
    /\ swapped' = FALSE
    /\ UNCHANGED <<file, gateway>> /\ Still
RunWritesDiff ==
    /\ At("diffwrite")
    /\ IF file["diff"] # TornFile
       THEN Write("diff", TornFile) /\ UNCHANGED job
       ELSE Write("diff", Made(job.inputs)) /\ Goto("comp")
    /\ UNCHANGED gateway /\ Quiet

(* comprehensive.json comes from the diff in memory. *)
RunComprehensive ==
    /\ At("comp")
    /\ \/ /\ Write("comp", Made(job.inputs))
          /\ Goto(IF job.skip = "bundles" THEN "skip" ELSE "bundles")
       \/ Return /\ UNCHANGED file
    /\ UNCHANGED gateway /\ Quiet

(* --skip-bundles and --skip-lints: a previous run's files would otherwise *)
(* be read as this run's.                                                  *)
RunSkips ==
    /\ At("skip")
    /\ file' = [file EXCEPT ![IF job.skip = "bundles" THEN "bundles" ELSE "lints"] = None,
                            !["lints"] = None]
    /\ Goto("manifest")
    /\ GatewayClose /\ Quiet

(* build_bundles asks the live snapshot for references; a failed request   *)
(* is skipped, any other exception ends the run after closing the gateway. *)
RunAsks ==
    /\ At("bundles")
    /\ GatewayStep
    /\ job' = IF answers' # answers
              THEN [job EXCEPT !.inputs = @ \cup {Here}] ELSE job
    /\ UNCHANGED file /\ Quiet
RunBundles ==
    /\ At("bundles") /\ want = 0 /\ asked = Requests
    /\ Write("bundles", Made(job.inputs))
    /\ Goto(IF job.skip = "lints" THEN "skip" ELSE "lints")
    /\ UNCHANGED gateway /\ Quiet

RunLints ==
    /\ At("lints")
    /\ Write("lints", Made(job.inputs))
    /\ Goto("manifest")
    /\ GatewayClose /\ Quiet
RunFails ==
    /\ job.pc \in {"bundles", "lints"} /\ want = 0
    /\ Return
    /\ GatewayClose
    /\ UNCHANGED file /\ Quiet

(* new_manifest stats the snapshots, now that every file is written.       *)
(* (`steady` is history: no snapshot was replaced since the diff was made.)*)
RunManifest ==
    /\ At("manifest")
    /\ Write("manifest", Made([input |-> Here, narrative |-> FALSE, steady |-> ~swapped,
                               files |-> CASE job.skip = "bundles" -> {"diff", "comp"}
                                           [] job.skip = "lints" -> Mechanical \ {"lints"}
                                           [] OTHER -> Mechanical]))
    /\ IF job.verb = "run" THEN Return ELSE Goto("cache")
    /\ UNCHANGED gateway /\ Quiet

-----------------------------------------------------------------------------
(* prepare                                                                 *)
Prepare ==
    /\ At("prepare")
    /\ job' = [job EXCEPT !.reused = Reusable /\ ~job.force, !.had = HasVerdicts,
                          !.pc = IF Reusable /\ ~job.force THEN "cache" ELSE "run"]
    /\ swapped' = FALSE
    /\ UNCHANGED <<file, gateway>> /\ Still

(* build_cache and coverage_gate over the new snapshot. *)
PrepareCache ==
    /\ At("cache")
    /\ Goto("decide") \/ Return
    /\ UNCHANGED <<file, gateway>> /\ Quiet

Decide_RulesOnly ==
    /\ At("decide")
    /\ Goto(IF job.reused /\ TriageUsable /\ ~job.retriage THEN "slices" ELSE "triage")
    /\ UNCHANGED <<file, gateway>> /\ Quiet
(* Reused output keeps a usable triage, unless asked; a triage that is not *)
(* usable is redone, and its merged assessment with it.                    *)
Decide ==
    LET stale == job.reused /\ ~TriageUsable
        retriaged == ~job.reused \/ job.retriage \/ stale
        remerge == stale /\ ~job.retriage /\ HasVerdicts
    IN  /\ At("decide")
        /\ Goto(IF ~retriaged THEN "slices" ELSE IF remerge THEN "remerge" ELSE "triage")
        /\ UNCHANGED <<file, gateway>> /\ Quiet

(* The tiers: by the rules alone, or with the verdicts of an assessment    *)
(* laid over the bundles of the same ids.                                  *)
Tiers(assessment) == [inputs |-> InputsDigest, assessed |-> assessment]
Loadable == IsMade("bundles") /\ IsMade("comp")

Retriage ==
    /\ At("triage")
    /\ IF Loadable
       THEN job' = [job EXCEPT !.pc = "write", !.out = {Tiers(None)}]
       ELSE Return
    /\ UNCHANGED <<file, gateway>> /\ Quiet

(* run_merge_assessment inside prepare: a missing or malformed assessment  *)
(* is a warning and the rules decide; verdicts it does not restore, for it *)
(* changed or the rules no longer leave their bundles open, are another.   *)
Loses(restored) == restored # From("triage").assessed
Remerge ==
    /\ At("remerge")
    /\ IF Loadable /\ IsMade("assessment")
       THEN \E restored \in {file["assessment"], None} :
              job' = [job EXCEPT !.pc = "write", !.out = {Tiers(restored)},
                                 !.warned = Loses(restored)]
       ELSE job' = [job EXCEPT !.pc = "triage", !.warned = TRUE]
    /\ UNCHANGED <<file, gateway>> /\ Quiet

(* merge-assessment, the verb. *)
Merge ==
    /\ At("merge")
    /\ IF Loadable /\ IsMade("assessment")
       THEN job' = [job EXCEPT !.pc = "write", !.out = {Tiers(file["assessment"])}]
       ELSE Return
    /\ UNCHANGED <<file, gateway>> /\ Quiet

(* write_outputs: triage.json is removed first and written last.           *)
WriteOrder == <<"deep", "ambiguous", "brief", "rollouts">>
Unwritten == {i \in 1 .. 4 : file[WriteOrder[i]] # Made(CHOOSE t \in job.out : TRUE)}
WriteOutputs_TriageFirst ==
    LET tiers == CHOOSE t \in job.out : TRUE
        i == CHOOSE i \in Unwritten : \A j \in Unwritten : i <= j
    IN  /\ At("write")
        /\ IF file["triage"] # Made(tiers)
           THEN Write("triage", Made(tiers)) /\ UNCHANGED job
           ELSE IF Unwritten = {}
           THEN UNCHANGED file /\ Goto("slices")
           ELSE Write(WriteOrder[i], Made(tiers)) /\ UNCHANGED job
        /\ UNCHANGED gateway /\ Quiet
WriteOutputs ==
    LET tiers == CHOOSE t \in job.out : TRUE
        i == CHOOSE i \in Unwritten : \A j \in Unwritten : i <= j
    IN  /\ At("write")
        /\ IF file["triage"] # None
           THEN Write("triage", None) /\ UNCHANGED job
           ELSE IF Unwritten = {}
           THEN Write("triage", Made(tiers)) /\ Goto("slices")
           ELSE /\ Write(WriteOrder[i],
                         IF i > 2 /\ file[WriteOrder[i]] # TornFile THEN TornFile
                         ELSE Made(tiers))
                /\ UNCHANGED job
        /\ UNCHANGED gateway /\ Quiet

(* split_deep_slice: stale part files are removed, a large slice is split. *)
SplitDeepSlice ==
    /\ At("slices")
    /\ IF file["parts"] # None
       THEN Write("parts", None) /\ UNCHANGED job
       ELSE /\ Return
            /\ \/ Write("parts", file["deep"])
               \/ UNCHANGED file
    /\ UNCHANGED gateway /\ Quiet

(* publish: chunks the summary, all of them or none (publish_chunks), then *)
(* records the narrative stage in the manifest.                            *)
Publish ==
    /\ At("publish")
    /\ \/ Write("chunks", Made("summary")) /\ Goto("record")
       \/ Return /\ UNCHANGED file
    /\ UNCHANGED gateway /\ Quiet
UpdateManifest ==
    /\ At("record")
    /\ IF IsMade("manifest")
       THEN /\ Write("manifest", Made([From("manifest") EXCEPT !.narrative = TRUE]))
            /\ Return
       ELSE Return /\ UNCHANGED file
    /\ UNCHANGED gateway /\ Quiet

-----------------------------------------------------------------------------
(* The user starts a verb, an assessor answers, files change, a kill.      *)
Start ==
    /\ At("idle") /\ verbs < MaxVerbs
    /\ verbs' = verbs + 1
    /\ \E verb \in {"prepare", "run", "merge", "publish"}, o \in Options,
          force \in BOOLEAN, retriage \in BOOLEAN, skip \in {"none", "bundles", "lints"} :
         /\ retriage => verb = "prepare"
         /\ force => verb \in {"prepare", "run"}
         /\ skip # "none" => verb = "run"
         /\ job' = [Idle EXCEPT !.pc = verb, !.verb = verb, !.opts = o, !.skip = skip,
                                !.force = force, !.retriage = retriage]
    /\ UNCHANGED <<snap, rules, file, kills, swaps, swapped, gateway>>

Assess ==
    /\ At("idle") /\ IsMade("ambiguous")
    /\ From("ambiguous").assessed = None
    /\ Write("assessment", Made(From("ambiguous").inputs[1]))
    /\ UNCHANGED <<job, gateway>> /\ Quiet

(* Somebody puts another ESM in the place of the NEW snapshot, whatever    *)
(* verb runs.                                                              *)
Replace ==
    /\ swaps < MaxSwaps
    /\ swaps' = swaps + 1
    /\ snap' \in Snapshots \ {snap}
    /\ swapped' = ~At("idle")
    /\ UNCHANGED <<rules, file, job, verbs, kills, gateway>>

EditRules ==
    /\ rules < MaxRules /\ At("idle")
    /\ rules' = rules + 1
    /\ UNCHANGED <<snap, file, job, verbs, kills, swaps, swapped, gateway>>

Kill ==
    /\ ~At("idle") /\ kills < MaxKills
    /\ kills' = kills + 1
    /\ job' = Idle
    /\ GatewayClose
    /\ UNCHANGED <<snap, rules, file, verbs, swaps, swapped>>

Next ==
    \/ Start \/ Assess \/ Replace \/ EditRules \/ Kill
    \/ RunBegins \/ RunUnlinks \/ RunDiff \/ RunWritesDiff \/ RunComprehensive
    \/ RunSkips \/ RunAsks \/ RunBundles \/ RunLints \/ RunFails \/ RunManifest
    \/ Prepare \/ PrepareCache \/ Decide \/ Retriage \/ Remerge \/ Merge
    \/ WriteOutputs \/ SplitDeepSlice \/ Publish \/ UpdateManifest

Spec == Init /\ [][Next]_vars

-----------------------------------------------------------------------------
(* What prepare goes on to hand out was made from the snapshot and with    *)
(* the options that the manifest names, every file of it, whatever run was *)
(* killed or failed over the directory before, and they are the ones it    *)
(* was asked for: whether it ran the mechanical stage itself or found its  *)
(* output "finished".  Only a replacement of the snapshot between the diff *)
(* and the manifest of one run makes the manifest name what its files are  *)
(* not of, and one during this prepare what is no longer there.            *)
ReuseIsFresh ==
    job.verb = "prepare"
    /\ job.pc \in {"cache", "decide", "remerge", "triage", "write", "slices"} =>
        /\ IsMade("manifest")
        /\ From("manifest").steady =>
             \A n \in Mechanical : file[n] = Made({From("manifest").input})
        /\ ~swapped => From("manifest").input = Here

(* reuse_problem tells "why `out_dir` doesn't hold this pair's finished    *)
(* mechanical output (both snapshots as they are now, ...)": when it finds *)
(* nothing, every file is of the snapshot as it is now (workflow.py:139).  *)
FinishedIsOfNow ==
    At("cache") /\ job.reused /\ ~swapped =>
        \A n \in Mechanical : file[n] = Made({Here})

(* "its presence marks a complete, consistent set" (triage_bundles.py:1070):*)
(* with triage.json there, the four files beside it are of the same triage.*)
TriageWhole ==
    IsMade("triage") => \A n \in WorkFiles : file[n] = file["triage"]

(* "Repairing a kept triage re-applies its merged assessment"              *)
(* (workflow.py:387): a prepare that reuses the output and is not asked to *)
(* retriage loses no assessor's verdict without a warning.                 *)
VerdictsKept ==
    At("slices") /\ job.verb = "prepare" /\ job.reused /\ ~job.retriage /\ job.had
        => HasVerdicts \/ job.warned
=============================================================================
