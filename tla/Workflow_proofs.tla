-------------------------- MODULE Workflow_proofs --------------------------
(***************************************************************************)
(* What the workflow promises for every number of requests, verbs, kills   *)
(* and rule edits and for any snapshots and options: the gateway pairs     *)
(* each answer with its request (GatewayInv), a triage on disk is whole    *)
(* (WholeInv), a kept triage keeps its verdicts (KeepInv over JobInv), and *)
(* what a prepare hands out is fresh (FreshInv).                           *)
(***************************************************************************)
EXTENDS Workflow, TLAPS

-----------------------------------------------------------------------------
(* The gateway.                                                            *)

(* At most one request is in the pipes, and only while op() waits for it:  *)
(* unread, answered, torn or lost.  A dead child has nothing left to read. *)
GatewayInv ==
    /\ asked \in Nat
    /\ want = 0 => inbox = <<>> /\ outbox = <<>>
    /\ want # 0 => \/ inbox = <<want>> /\ outbox = <<>>
                   \/ inbox = <<>> /\ outbox \in {<<>>, <<want>>, <<Torn>>}
    /\ child = "dead" => inbox = <<>>
    /\ AnswersMatch

(* Every step of the workflow is, for the gateway, one of its own steps,   *)
(* its close, or nothing (src/patch-notes/pn/workflow.py runs one stage    *)
(* at a time over one gateway).                                            *)
LEMMA StepOfGateway ==
    Next => GatewayStep \/ GatewayClose \/ UNCHANGED gateway
<1>1. Start \/ Assess \/ Replace \/ EditRules => UNCHANGED gateway
  BY DEF Start, Assess, Replace, EditRules
<1>2. RunBegins \/ RunUnlinks \/ RunDiff \/ RunWritesDiff \/ RunComprehensive
        \/ RunBundles \/ RunManifest => UNCHANGED gateway
  BY DEF RunBegins, RunUnlinks, RunDiff, RunWritesDiff, RunComprehensive,
         RunBundles, RunManifest
<1>3. Prepare \/ PrepareCache \/ Decide \/ Retriage \/ Remerge \/ Merge
        \/ WriteOutputs \/ SplitDeepSlice \/ Publish \/ UpdateManifest
        => UNCHANGED gateway
  BY DEF Prepare, PrepareCache, Decide, Retriage, Remerge, Merge,
         WriteOutputs, SplitDeepSlice, Publish, UpdateManifest
<1>4. Kill \/ RunSkips \/ RunLints \/ RunFails => GatewayClose
  BY DEF Kill, RunSkips, RunLints, RunFails
<1>5. RunAsks => GatewayStep
  BY DEF RunAsks
<1> QED
  BY <1>1, <1>2, <1>3, <1>4, <1>5 DEF Next

(* One step of the gateway keeps at most one request in flight.            *)
LEMMA GatewayStepKeeps == GatewayInv /\ GatewayStep => GatewayInv'
<1> SUFFICES ASSUME GatewayInv, GatewayStep PROVE GatewayInv'
  OBVIOUS
<1> USE DEF GatewayInv, AnswersMatch, Torn
<1>1. CASE Ask
  <2>1. asked + 1 \in Nat /\ asked + 1 # 0
    OBVIOUS
  <2>2. inbox' = <<asked + 1>> /\ outbox' = <<>>
    <3>1. CASE child = "live"
      BY <1>1, <3>1 DEF Ask
    <3>2. CASE child # "live"
      BY <1>1, <3>2 DEF Ask
    <3> QED
      BY <3>1, <3>2
  <2> QED
    BY <1>1, <2>1, <2>2 DEF Ask
<1>2. CASE AskFails
  BY <1>2 DEF AskFails
<1>3. CASE Hear
  <2>1. CASE outbox # <<>>
    <3>1. inbox = <<>> /\ outbox' = <<>>
      BY <1>3, <2>1 DEF Hear
    <3>2. outbox = <<want>> \/ outbox = <<Torn>>
      BY <1>3, <2>1 DEF Hear
    <3>3. Head(outbox) = Torn \/ Head(outbox) = want
      BY <3>2
    <3>4. AnswersMatch'
      BY <1>3, <2>1, <3>3 DEF Hear
    <3> QED
      BY <1>3, <2>1, <3>1, <3>4 DEF Hear
  <2>2. CASE outbox = <<>>
    BY <1>3, <2>2 DEF Hear
  <2> QED
    BY <2>1, <2>2
<1>4. CASE Batch
  <2>1. inbox = <<want>> /\ outbox = <<>> /\ want # 0
    BY <1>4 DEF Batch
  <2>2. inbox' = <<>> /\ outbox' = <<want>>
    BY <1>4, <2>1 DEF Batch
  <2> QED
    BY <1>4, <2>1, <2>2 DEF Batch
<1>5. CASE ChildDies
  <2>1. CASE inbox = <<>>
    BY <1>5, <2>1 DEF ChildDies
  <2>2. CASE inbox # <<>>
    <3>1. want # 0 /\ outbox = <<>>
      BY <2>2
    <3>2. outbox' = <<>> \/ outbox' = <<Torn>>
      BY <1>5, <3>1 DEF ChildDies
    <3> QED
      BY <1>5, <3>1, <3>2 DEF ChildDies
  <2> QED
    BY <2>1, <2>2
<1> QED
  BY <1>1, <1>2, <1>3, <1>4, <1>5 DEF GatewayStep

(* "exactly one response line per request line, in order" (EsmGateway.op): *)
(* whatever the child's deaths, the verbs' failures and the kills, op()    *)
(* never returns the answer to another request.                            *)
THEOREM AnswersAlwaysMatch == Spec => []AnswersMatch
<1>1. Init => GatewayInv
  BY DEF Init, GatewayInit, GatewayInv, AnswersMatch
<1>2. GatewayInv /\ [Next]_vars => GatewayInv'
  <2> SUFFICES ASSUME GatewayInv, [Next]_vars PROVE GatewayInv'
    OBVIOUS
  <2>1. CASE GatewayStep
    BY <2>1, GatewayStepKeeps
  <2>2. CASE GatewayClose
    BY <2>2 DEF GatewayClose, GatewayInv, AnswersMatch
  <2>3. CASE UNCHANGED gateway
    BY <2>3 DEF gateway, GatewayInv, AnswersMatch
  <2> QED
    BY <2>1, <2>2, <2>3, StepOfGateway DEF vars
<1>3. GatewayInv => AnswersMatch
  BY DEF GatewayInv
<1> QED
  BY <1>1, <1>2, <1>3, PTL DEF Spec

-----------------------------------------------------------------------------
(* The triage and its four files.                                          *)

WholeInv == DOMAIN file = Names /\ TriageWhole

(* A step that leaves the triage and its files alone leaves it whole.      *)
LEMMA OtherFiles ==
    ASSUME WholeInv, DOMAIN file' = Names, file'["triage"] = file["triage"],
           \A n \in WorkFiles : file'[n] = file[n]
    PROVE  WholeInv'
BY DEF WholeInv, TriageWhole, IsMade

(* A step that removes the triage, or finds and leaves none, is free to    *)
(* change the other files.                                                 *)
LEMMA NoTriage ==
    ASSUME DOMAIN file' = Names, file'["triage"] = None
    PROVE  WholeInv'
BY DEF WholeInv, TriageWhole, IsMade, None

LEMMA OtherWrite ==
    ASSUME WholeInv, NEW n \in Names \ (WorkFiles \cup {"triage"}), NEW v,
           file' = [file EXCEPT ![n] = v]
    PROVE  WholeInv'
BY OtherFiles DEF WholeInv, Names, WorkFiles

(* The next of the four files to be written is one of them.                *)
LEMMA NextUnwritten ==
    Unwritten # {} =>
        WriteOrder[CHOOSE k \in Unwritten : \A j \in Unwritten : k <= j] \in WorkFiles
<1> SUFFICES ASSUME Unwritten # {}
             PROVE  WriteOrder[CHOOSE k \in Unwritten : \A j \in Unwritten : k <= j] \in WorkFiles
  OBVIOUS
<1> DEFINE i == CHOOSE k \in Unwritten : \A j \in Unwritten : k <= j
<1>1. i \in 1 .. 4
  <2>1. Unwritten \subseteq 1 .. 4
    BY DEF Unwritten
  <2>2. \E k \in Unwritten : \A j \in Unwritten : k <= j
    <3>1. CASE 1 \in Unwritten
      BY <2>1, <3>1
    <3>2. CASE 1 \notin Unwritten /\ 2 \in Unwritten
      BY <2>1, <3>2
    <3>3. CASE 1 \notin Unwritten /\ 2 \notin Unwritten /\ 3 \in Unwritten
      BY <2>1, <3>3
    <3>4. CASE 1 \notin Unwritten /\ 2 \notin Unwritten /\ 3 \notin Unwritten
      <4>1. \A j \in Unwritten : j = 4
        BY <2>1, <3>4
      <4> QED
        BY <4>1
    <3> QED
      BY <3>1, <3>2, <3>3, <3>4
  <2> QED
    BY <2>1, <2>2
<1>2. WriteOrder[i] \in WorkFiles
  <2> HIDE DEF i
  <2> QED
    BY <1>1 DEF WriteOrder, WorkFiles
<1> QED
  BY <1>2

LEMMA WritesWorkFile ==
    WriteOutputs =>
        \/ UNCHANGED file
        \/ \E n \in WorkFiles \cup {"triage"} : \E v : file' = [file EXCEPT ![n] = v]
<1> SUFFICES ASSUME WriteOutputs PROVE
        \/ UNCHANGED file
        \/ \E n \in WorkFiles \cup {"triage"} : \E v : file' = [file EXCEPT ![n] = v]
  OBVIOUS
<1> DEFINE i == CHOOSE k \in Unwritten : \A j \in Unwritten : k <= j
<1>1. CASE file["triage"] # None \/ Unwritten = {}
  BY <1>1 DEF WriteOutputs, Write
<1>2. CASE file["triage"] = None /\ Unwritten # {}
  <2>1. PICK v : file' = [file EXCEPT ![WriteOrder[i]] = v]
    BY <1>2 DEF WriteOutputs, Write
  <2>2. WriteOrder[i] \in WorkFiles
    BY <1>2, NextUnwritten
  <2> HIDE DEF i
  <2> QED
    BY <2>1, <2>2
<1> QED
  BY <1>1, <1>2

(* write_outputs removes the triage first and writes it last, when every   *)
(* file beside it is of the same tiers.                                    *)
LEMMA WritesWhole == WholeInv /\ WriteOutputs => WholeInv'
<1> SUFFICES ASSUME WholeInv, WriteOutputs PROVE WholeInv'
  OBVIOUS
<1> DEFINE tiers == CHOOSE t \in job.out : TRUE
           i == CHOOSE k \in Unwritten : \A j \in Unwritten : k <= j
<1>1. "triage" \in Names /\ WorkFiles \subseteq Names /\ "triage" \notin WorkFiles
  BY DEF Names, WorkFiles
<1>2. CASE file["triage"] # None
  <2>1. file' = [file EXCEPT !["triage"] = None]
    BY <1>2 DEF WriteOutputs, Write
  <2> QED
    BY <1>1, <2>1, NoTriage DEF WholeInv
<1>3. CASE file["triage"] = None /\ Unwritten = {}
  <2>1. file' = [file EXCEPT !["triage"] = Made(tiers)]
    BY <1>3 DEF WriteOutputs, Write
  <2>2. \A k \in 1 .. 4 : file[WriteOrder[k]] = Made(tiers)
    BY <1>3 DEF Unwritten
  <2>3. /\ file["deep"] = Made(tiers) /\ file["ambiguous"] = Made(tiers)
        /\ file["brief"] = Made(tiers) /\ file["rollouts"] = Made(tiers)
    <3> HIDE DEF tiers
    <3>1. /\ WriteOrder[1] = "deep" /\ WriteOrder[2] = "ambiguous"
          /\ WriteOrder[3] = "brief" /\ WriteOrder[4] = "rollouts"
      BY DEF WriteOrder
    <3>2. 1 \in 1 .. 4 /\ 2 \in 1 .. 4 /\ 3 \in 1 .. 4 /\ 4 \in 1 .. 4
      OBVIOUS
    <3> QED
      BY <2>2, <3>1, <3>2
  <2> HIDE DEF tiers
  <2>4. \A n \in WorkFiles : file'[n] = file'["triage"]
    BY <1>1, <2>1, <2>3 DEF WorkFiles, WholeInv
  <2> QED
    BY <2>1, <2>4 DEF WholeInv, TriageWhole
<1>4. CASE file["triage"] = None /\ Unwritten # {}
  <2>2. WriteOrder[i] \in WorkFiles
    BY <1>4, NextUnwritten
  <2>3. PICK v : file' = [file EXCEPT ![WriteOrder[i]] = v]
    BY <1>4 DEF WriteOutputs, Write
  <2> HIDE DEF i
  <2> QED
    BY <1>1, <1>4, <2>2, <2>3, NoTriage DEF WholeInv
<1> QED
  BY <1>2, <1>3, <1>4

(* The steps that change no file of the output directory.                  *)
Unwriting ==
    \/ Start \/ Replace \/ EditRules \/ Kill \/ RunBegins \/ RunDiff \/ RunAsks
    \/ RunFails \/ Prepare \/ PrepareCache \/ Decide \/ Retriage \/ Remerge \/ Merge

LEMMA UnwritingKeepsFiles == Unwriting => UNCHANGED file
BY DEF Unwriting, Start, Replace, EditRules, Kill, RunBegins, RunDiff, RunAsks,
       RunFails, Prepare, PrepareCache, Decide, Retriage, Remerge, Merge

LEMMA WholeAlways == Spec => []WholeInv
<1>1. Init => WholeInv
  BY DEF Init, WholeInv, TriageWhole, IsMade, None, Names
<1>2. WholeInv /\ [Next]_vars => WholeInv'
  <2> SUFFICES ASSUME WholeInv, [Next]_vars PROVE WholeInv'
    OBVIOUS
  <2> DEFINE Others == Names \ (WorkFiles \cup {"triage"})
  <2>0. /\ {"manifest", "diff", "comp", "bundles", "lints"} \subseteq Others
        /\ {"assessment", "parts", "chunks"} \subseteq Others
    BY DEF Names, WorkFiles, Mechanical
  <2>1. CASE Unwriting
    BY <2>1, UnwritingKeepsFiles DEF WholeInv, TriageWhole, IsMade
  <2>2. CASE UNCHANGED vars
    BY <2>2 DEF vars, wf, WholeInv, TriageWhole, IsMade
  <2>3. CASE WriteOutputs
    BY <2>3, WritesWhole
  <2>4. CASE RunUnlinks
    <3>1. CASE file["manifest"] # None
      BY <2>0, <2>4, <3>1, OtherWrite DEF RunUnlinks, Write
    <3>2. CASE file["manifest"] = None
      <4>1. file' = [file EXCEPT !["triage"] = None]
        BY <2>4, <3>2 DEF RunUnlinks, Write
      <4> QED
        BY <4>1, NoTriage DEF WholeInv, Names
    <3> QED
      BY <3>1, <3>2
  <2>5. CASE RunSkips
    <3>1. PICK n \in {"bundles", "lints"} :
             file' = [file EXCEPT ![n] = None, !["lints"] = None]
      BY <2>5 DEF RunSkips
    <3> QED
      BY <3>1, OtherFiles DEF WholeInv, Names, WorkFiles
  <2>6. CASE RunWritesDiff \/ RunComprehensive \/ RunBundles \/ RunLints \/ RunManifest
    <3>1. \/ UNCHANGED file
          \/ \E n \in {"manifest", "diff", "comp", "bundles", "lints"} :
               \E v : file' = [file EXCEPT ![n] = v]
      BY <2>6 DEF RunWritesDiff, RunComprehensive, RunBundles, RunLints, RunManifest, Write
    <3> QED
      BY <2>0, <3>1, OtherWrite DEF WholeInv, TriageWhole, IsMade
  <2>7. CASE Assess \/ SplitDeepSlice \/ Publish \/ UpdateManifest
    <3>1. \/ UNCHANGED file
          \/ \E n \in {"manifest", "assessment", "parts", "chunks"} :
               \E v : file' = [file EXCEPT ![n] = v]
      BY <2>7 DEF Assess, SplitDeepSlice, Publish, UpdateManifest, Write
    <3> QED
      BY <2>0, <3>1, OtherWrite DEF WholeInv, TriageWhole, IsMade
  <2> QED
    BY <2>1, <2>2, <2>3, <2>4, <2>5, <2>6, <2>7 DEF Next, Unwriting
<1> QED
  BY <1>1, <1>2, PTL DEF Spec

(* "its presence marks a complete, consistent set" (triage_bundles.py):    *)
(* no kill and no order of verbs leaves a triage beside a file of another. *)
THEOREM TriageAlwaysWhole == Spec => []TriageWhole
<1>1. WholeInv => TriageWhole
  BY DEF WholeInv
<1> QED
  BY <1>1, WholeAlways, PTL

-----------------------------------------------------------------------------
(* The verb that runs.                                                     *)

(* The steps of the mechanical stage after the removal of the manifest.    *)
Late == {"diff", "diffwrite", "comp", "skip", "bundles", "lints", "manifest"}
Stage == {"run", "unlink"} \cup Late

Locals == {"pc", "verb", "opts", "force", "retriage", "skip", "reused", "had",
           "warned", "inputs", "out"}

(* What the verb's place in its steps says of its locals.                  *)
JobInv ==
    /\ DOMAIN job = Locals
    /\ job.skip \in {"none", "bundles", "lints"}
    /\ job.verb # "run" => job.skip = "none"
    /\ At("prepare") \/ job.pc \in {"cache", "decide", "remerge", "triage"}
          => job.verb = "prepare"
    /\ At("merge") => job.verb = "merge"
    /\ job.pc \in Stage => job.verb \in {"prepare", "run"}
    /\ At("prepare") \/ job.pc \in Stage => ~job.reused
    /\ At("skip") => job.skip # "none"
    /\ At("bundles") => job.skip # "bundles"
    /\ At("lints") => job.skip = "none"

LEMMA JobInvHolds == JobInv /\ [Next]_vars => JobInv'
<1> SUFFICES ASSUME JobInv, [Next]_vars PROVE JobInv'
  OBVIOUS
<1> USE DEF JobInv, At, Goto, Return, Idle, Stage, Late, Locals
<1>1. CASE Start
  BY <1>1 DEF Start
<1>2. CASE Assess \/ Replace \/ EditRules
  BY <1>2 DEF Assess, Replace, EditRules
<1>3. CASE Kill \/ RunFails
  BY <1>3 DEF Kill, RunFails
<1>4. CASE RunBegins \/ RunUnlinks \/ RunDiff \/ RunWritesDiff
  <2>1. CASE RunBegins
    BY <2>1 DEF RunBegins
  <2>2. CASE RunUnlinks
    BY <2>2 DEF RunUnlinks
  <2>3. CASE RunDiff
    <3>1. CASE Return
      BY <3>1
    <3>2. CASE ~Return
      <4>1. PICK inputs : job' = [job EXCEPT !.pc = "diffwrite", !.inputs = inputs]
        BY <2>3, <3>2 DEF RunDiff
      <4> QED
        BY <2>3, <4>1 DEF RunDiff
    <3> QED
      BY <3>1, <3>2
  <2>4. CASE RunWritesDiff
    BY <2>4 DEF RunWritesDiff
  <2> QED
    BY <1>4, <2>1, <2>2, <2>3, <2>4
<1>5. CASE RunComprehensive
  BY <1>5 DEF RunComprehensive
<1>6. CASE RunSkips \/ RunAsks \/ RunBundles \/ RunLints
  BY <1>6 DEF RunSkips, RunAsks, RunBundles, RunLints
<1>7. CASE RunManifest
  BY <1>7 DEF RunManifest
<1>8. CASE Prepare \/ PrepareCache
  <2>1. CASE Prepare
    <3> DEFINE reused == Reusable /\ ~job.force
               had == HasVerdicts
    <3>1. /\ reused \in BOOLEAN
          /\ job' = [job EXCEPT !.reused = reused, !.had = had,
                                !.pc = IF reused THEN "cache" ELSE "run"]
      BY <2>1, Zenon DEF Prepare
    <3> HIDE DEF reused, had
    <3>2. /\ DOMAIN job' = Locals /\ job'.skip = job.skip /\ job'.verb = job.verb
          /\ job'.reused = reused /\ job'.pc = IF reused THEN "cache" ELSE "run"
      BY <3>1
    <3>3. job.verb = "prepare" /\ job.skip = "none"
      BY <2>1 DEF Prepare
    <3> HIDE DEF Locals
    <3> QED
      BY <3>1, <3>2, <3>3
  <2>2. CASE PrepareCache
    BY <2>2 DEF PrepareCache
  <2> QED
    BY <1>8, <2>1, <2>2
<1>9. CASE Decide
  BY <1>9 DEF Decide
<1>10. CASE Retriage \/ Remerge \/ Merge
  <2>1. CASE Retriage
    <3>1. CASE Return
      BY <3>1
    <3>2. CASE ~Return
      <4>1. PICK out : job' = [job EXCEPT !.pc = "write", !.out = out]
        BY <2>1, <3>2 DEF Retriage
      <4> QED
        BY <4>1
    <3> QED
      BY <3>1, <3>2
  <2>2. CASE Remerge
    <3>1. CASE Loadable /\ IsMade("assessment")
      <4>1. PICK restored \in {file["assessment"], None} :
               job' = [job EXCEPT !.pc = "write", !.out = {Tiers(restored)},
                                  !.warned = Loses(restored)]
        BY <2>2, <3>1, Zenon DEF Remerge
      <4> QED
        BY <2>2, <4>1 DEF Remerge
    <3>2. CASE ~(Loadable /\ IsMade("assessment"))
      <4>1. job' = [job EXCEPT !.pc = "triage", !.warned = TRUE]
        BY <2>2, <3>2, Zenon DEF Remerge
      <4>2. job.pc = "remerge"
        BY <2>2 DEF Remerge
      <4> QED
        BY <4>1, <4>2
    <3> QED
      BY <3>1, <3>2
  <2>3. CASE Merge
    <3>1. CASE Return
      BY <3>1
    <3>2. CASE ~Return
      <4>1. PICK out : job' = [job EXCEPT !.pc = "write", !.out = out]
        BY <2>3, <3>2 DEF Merge
      <4> QED
        BY <4>1
    <3> QED
      BY <3>1, <3>2
  <2> QED
    BY <1>10, <2>1, <2>2, <2>3
<1>11. CASE WriteOutputs
  <2>1. UNCHANGED job \/ job' = [job EXCEPT !.pc = "slices"]
    BY <1>11 DEF WriteOutputs
  <2> QED
    BY <2>1
<1>12. CASE SplitDeepSlice \/ Publish \/ UpdateManifest
  BY <1>12 DEF SplitDeepSlice, Publish, UpdateManifest
<1>13. CASE UNCHANGED vars
  BY <1>13 DEF vars, wf
<1> QED
  BY <1>1, <1>2, <1>3, <1>4, <1>5, <1>6, <1>7, <1>8, <1>9, <1>10, <1>11, <1>12,
     <1>13 DEF Next

LEMMA JobAlways == Spec => []JobInv
<1>1. Init => JobInv
  BY DEF Init, JobInv, Idle, At, Stage, Late, Locals
<1> QED
  BY <1>1, JobInvHolds, PTL DEF Spec

-----------------------------------------------------------------------------
(* The verdicts of an assessor.                                            *)

(* A prepare that reuses the output and found verdicts in its triage.      *)
Keeping == job.verb = "prepare" /\ job.reused /\ ~job.retriage /\ job.had

(* It has them still when it decides; then either it warns, or they are in *)
(* the tiers it writes.                                                    *)
KeepInv ==
    Keeping =>
        /\ job.pc \in {"cache", "decide", "remerge"} => HasVerdicts
        /\ At("triage") => job.warned
        /\ At("write") => job.warned \/ (CHOOSE t \in job.out : TRUE).assessed # None
        /\ At("slices") => HasVerdicts \/ job.warned

(* Nothing else changes the triage or enters the steps that matter.        *)
Deciding == {"cache", "decide", "remerge", "triage", "write", "slices"}

LEMMA IdleIsIdle == ~Idle.reused /\ Idle.pc = "idle" /\ Idle.verb = "none"
BY DEF Idle

LEMMA ElsewhereKeeps ==
    ASSUME KeepInv,
           \/ job' = job /\ file'["triage"] = file["triage"]
           \/ job'.pc \notin Deciding
           \/ ~job'.reused
    PROVE  KeepInv'
BY DEF KeepInv, Keeping, HasVerdicts, IsMade, From, At, Deciding

LEMMA KeepInvHolds ==
    ASSUME JobInv, DOMAIN file = Names, KeepInv, [Next]_vars PROVE KeepInv'
<1> USE DEF At, Goto, Return, Quiet, Still
<1>1. CASE Start \/ Kill \/ RunFails
  <2>1. CASE Start
    <3>1. job'.reused = FALSE
      BY <2>1 DEF Start, Idle
    <3> QED
      BY <3>1, ElsewhereKeeps
  <2>2. CASE Kill \/ RunFails
    BY <2>2, IdleIsIdle, ElsewhereKeeps DEF Kill, RunFails
  <2> QED
    BY <1>1, <2>1, <2>2
<1>2. CASE Assess \/ Replace \/ EditRules \/ UNCHANGED vars
  <2>1. job' = job /\ file'["triage"] = file["triage"]
    BY <1>2 DEF Assess, Replace, EditRules, Write, vars, wf, Names
  <2> QED
    BY <2>1, ElsewhereKeeps
<1>3. CASE RunBegins \/ RunUnlinks \/ RunDiff \/ RunWritesDiff \/ RunComprehensive
             \/ RunSkips \/ RunAsks \/ RunBundles \/ RunLints \/ RunManifest
  <2>1. ~job.reused /\ job.pc \in Stage
    <3>1. job.pc \in Stage
      BY <1>3 DEF RunBegins, RunUnlinks, RunDiff, RunWritesDiff, RunComprehensive,
                  RunSkips, RunAsks, RunBundles, RunLints, RunManifest, Stage, Late
    <3> QED
      BY <3>1 DEF JobInv
  <2>2. \/ job' = job \/ job' = Idle
        \/ \E pc : job' = [job EXCEPT !.pc = pc]
        \/ \E inputs : job' = [job EXCEPT !.inputs = inputs]
        \/ \E pc, inputs : job' = [job EXCEPT !.pc = pc, !.inputs = inputs]
    <3>1. CASE RunBegins \/ RunUnlinks \/ RunDiff \/ RunWritesDiff \/ RunComprehensive
      BY <3>1 DEF RunBegins, RunUnlinks, RunDiff, RunWritesDiff, RunComprehensive
    <3>2. CASE RunSkips \/ RunAsks \/ RunBundles \/ RunLints \/ RunManifest
      BY <3>2 DEF RunSkips, RunAsks, RunBundles, RunLints, RunManifest
    <3> QED
      BY <1>3, <3>1, <3>2
  <2>3. ~job'.reused
    <3>1. CASE job' = Idle
      BY <3>1, IdleIsIdle
    <3>2. CASE job' # Idle
      <4>1. job'.reused = job.reused
        BY <2>2, <3>2 DEF JobInv, Locals
      <4> QED
        BY <2>1, <4>1
    <3> QED
      BY <3>1, <3>2
  <2> QED
    BY <2>3, ElsewhereKeeps
<1>4. CASE Merge
  <2>1. job' = Idle \/ \E out : job' = [job EXCEPT !.pc = "write", !.out = out]
    BY <1>4 DEF Merge
  <2>2. ~Keeping'
    <3>1. CASE job' = Idle
      BY <3>1, IdleIsIdle DEF Keeping
    <3>2. CASE job' # Idle
      <4>1. job.verb = "merge" /\ job'.verb = job.verb
        BY <1>4, <2>1, <3>2 DEF Merge, JobInv, Locals
      <4> QED
        BY <4>1 DEF Keeping
    <3> QED
      BY <3>1, <3>2
  <2> QED
    BY <2>2 DEF KeepInv
<1>5. CASE Prepare
  <2>1. PICK reused \in BOOLEAN :
           job' = [job EXCEPT !.reused = reused, !.had = HasVerdicts,
                              !.pc = IF reused THEN "cache" ELSE "run"]
    BY <1>5 DEF Prepare
  <2>2. CASE ~reused
    <3>1. ~job'.reused
      BY <2>1, <2>2 DEF JobInv, Locals
    <3> QED
      BY <3>1, ElsewhereKeeps
  <2>3. CASE reused
    <3>1. job'.pc = "cache" /\ (job'.had <=> HasVerdicts)
      BY <2>1, <2>3 DEF JobInv, Locals
    <3>2. HasVerdicts' <=> HasVerdicts
      BY <1>5 DEF Prepare, HasVerdicts, IsMade, From
    <3> QED
      BY <3>1, <3>2 DEF KeepInv, Keeping
  <2> QED
    BY <2>2, <2>3
<1>6. CASE PrepareCache
  <2>1. job' = Idle \/ job' = [job EXCEPT !.pc = "decide"]
    BY <1>6 DEF PrepareCache
  <2>2. HasVerdicts' <=> HasVerdicts
    BY <1>6 DEF PrepareCache, HasVerdicts, IsMade, From
  <2> QED
    BY <1>6, <2>1, <2>2 DEF PrepareCache, KeepInv, Keeping, JobInv, Locals, Idle
<1>7. CASE Decide
  <2>1. PICK pc : job' = [job EXCEPT !.pc = pc]
    BY <1>7 DEF Decide
  <2>2. HasVerdicts' <=> HasVerdicts
    BY <1>7 DEF Decide, HasVerdicts, IsMade, From
  <2>3. job'.pc = pc /\ (Keeping' <=> Keeping)
    BY <2>1 DEF JobInv, Locals, Keeping
  <2>4. Keeping => HasVerdicts /\ pc \in {"slices", "remerge"}
    BY <1>7, <2>1, <2>3 DEF Decide, KeepInv, Keeping, JobInv, Locals
  <2> QED
    BY <2>2, <2>3, <2>4 DEF KeepInv
<1>8. CASE Retriage
  <2>1. CASE Return
    BY <2>1, ElsewhereKeeps DEF Idle
  <2>2. CASE ~Return
    <3>1. PICK out : job' = [job EXCEPT !.pc = "write", !.out = out]
      BY <1>8, <2>2 DEF Retriage
    <3>2. Keeping => job.warned
      BY <1>8 DEF Retriage, KeepInv
    <3> QED
      BY <3>1, <3>2 DEF KeepInv, Keeping, JobInv, Locals
  <2> QED
    BY <2>1, <2>2
<1>9. CASE Remerge
  <2>1. CASE Loadable /\ IsMade("assessment")
    <3>1. PICK restored \in {file["assessment"], None} :
             job' = [job EXCEPT !.pc = "write", !.out = {Tiers(restored)},
                                !.warned = Loses(restored)]
      BY <1>9, <2>1 DEF Remerge
    <3>2. Keeping => HasVerdicts
      BY <1>9 DEF Remerge, KeepInv
    <3>3. (CHOOSE t \in {Tiers(restored)} : TRUE) = Tiers(restored)
      OBVIOUS
    <3>4. Tiers(restored).assessed = restored
      BY DEF Tiers
    <3>5. /\ job'.pc = "write" /\ job'.out = {Tiers(restored)}
          /\ job'.warned = Loses(restored) /\ (Keeping' <=> Keeping)
      BY <3>1 DEF JobInv, Locals, Keeping
    <3>6. HasVerdicts => Loses(restored) \/ restored # None
      BY DEF HasVerdicts, Loses
    <3> QED
      BY <3>2, <3>3, <3>4, <3>5, <3>6 DEF KeepInv
  <2>2. CASE ~(Loadable /\ IsMade("assessment"))
    <3>1. job' = [job EXCEPT !.pc = "triage", !.warned = TRUE]
      BY <1>9, <2>2 DEF Remerge
    <3> QED
      BY <3>1 DEF KeepInv, JobInv, Locals
  <2> QED
    BY <2>1, <2>2
<1>10. CASE WriteOutputs
  <2> DEFINE tiers == CHOOSE t \in job.out : TRUE
  <2>1. CASE file["triage"] = None /\ Unwritten = {}
    <3>1. file' = [file EXCEPT !["triage"] = Made(tiers)] /\ job' = [job EXCEPT !.pc = "slices"]
      BY <1>10, <2>1 DEF WriteOutputs, Write
    <3> HIDE DEF tiers
    <3>2. file'["triage"] = Made(tiers)
      BY <3>1 DEF Names
    <3>3. HasVerdicts' <=> tiers.assessed # None
      BY <3>2 DEF HasVerdicts, IsMade, From, Made
    <3>4. Keeping => job.warned \/ tiers.assessed # None
      BY <1>10 DEF WriteOutputs, KeepInv, tiers
    <3> QED
      BY <3>1, <3>3, <3>4 DEF KeepInv, Keeping, JobInv, Locals
  <2>2. CASE ~(file["triage"] = None /\ Unwritten = {})
    <3>1. job' = job /\ At("write")
      BY <1>10, <2>2 DEF WriteOutputs
    <3> QED
      BY <3>1 DEF KeepInv, Keeping
  <2> QED
    BY <2>1, <2>2
<1>11. CASE SplitDeepSlice
  <2>1. CASE Return
    BY <2>1, ElsewhereKeeps DEF Idle
  <2>2. CASE ~Return
    BY <1>11, <2>2, ElsewhereKeeps DEF SplitDeepSlice, Write, Names
  <2> QED
    BY <2>1, <2>2
<1>12. CASE Publish \/ UpdateManifest
  <2>1. job'.pc \in {"record", "idle"}
    BY <1>12 DEF Publish, UpdateManifest, JobInv, Locals, Idle
  <2> QED
    BY <2>1, ElsewhereKeeps DEF Deciding
<1> QED
  BY <1>1, <1>2, <1>3, <1>4, <1>5, <1>6, <1>7, <1>8, <1>9, <1>10, <1>11, <1>12
  DEF Next

(* "Repairing a kept triage re-applies its merged assessment"              *)
(* (workflow.py): whatever was killed before, and whatever the assessor or *)
(* the rules changed meanwhile, a prepare that keeps the output loses no   *)
(* verdict without a warning.                                              *)
THEOREM VerdictsAlwaysKept == Spec => []VerdictsKept
<1>1. Init => KeepInv /\ DOMAIN file = Names
  BY DEF Init, KeepInv, Keeping, Idle
<1>2. JobInv /\ WholeInv /\ KeepInv /\ [Next]_vars => KeepInv'
  BY KeepInvHolds DEF WholeInv
<1>3. KeepInv => VerdictsKept
  BY DEF KeepInv, Keeping, VerdictsKept
<1> QED
  BY <1>1, <1>2, <1>3, JobAlways, WholeAlways, PTL DEF Spec

-----------------------------------------------------------------------------
(***************************************************************************)
(* Why a prepare may trust what it finds "finished": for every number of   *)
(* verbs, kills and requests, any snapshots and any options, what it goes  *)
(* on to hand out was made of the snapshot and the options the manifest    *)
(* names, unless the snapshot was replaced under the run that made it.     *)
(***************************************************************************)

(* The files the mechanical stage that runs has written.                   *)
Written ==
    CASE job.pc = "comp" -> {"diff"}
      [] job.pc = "bundles" -> {"diff", "comp"}
      [] job.pc = "lints" -> {"diff", "comp", "bundles"}
      [] job.pc = "skip" -> IF job.skip = "lints" THEN {"diff", "comp", "bundles"} ELSE {"diff", "comp"}
      [] job.pc = "manifest" -> CASE job.skip = "bundles" -> {"diff", "comp"}
                                  [] job.skip = "lints" -> Mechanical \ {"lints"}
                                  [] OTHER -> Mechanical
      [] OTHER -> {}

(* Until it is done a run leaves no manifest, and it reads one snapshot,   *)
(* unless that is replaced under it.                                       *)
NoManifest == job.pc \in Late => file["manifest"] = None
OneInput ==
    job.pc \in {"diffwrite", "comp", "bundles", "lints"} /\ ~swapped => job.inputs = {Here}
WrittenHere == \A n \in Written : IsMade(n) /\ (~swapped => file[n] = Made({Here}))

(* What the manifest of a steady run lists was made of the inputs that it  *)
(* names, where it still is.                                               *)
ManifestTrue ==
    IsMade("manifest") =>
        /\ DOMAIN From("manifest") = {"input", "narrative", "steady", "files"}
        /\ From("manifest").steady =>
             \A n \in Mechanical \cap From("manifest").files :
               IsMade(n) => file[n] = Made({From("manifest").input})

(* A prepare that decides has a manifest, of the snapshot it looked at,    *)
(* and all that a manifest can list.                                       *)
ManifestHeld ==
    job.pc \in Deciding /\ job.verb = "prepare" =>
        /\ IsMade("manifest")
        /\ \A n \in Mechanical : n \in From("manifest").files /\ IsMade(n)
        /\ ~swapped => From("manifest").input = Here

FreshInv == NoManifest /\ OneInput /\ WrittenHere /\ ManifestTrue /\ ManifestHeld

Tracked == Mechanical \cup {"manifest"}

LEMMA NamesAre ==
    /\ Tracked \subseteq Names
    /\ {"diff", "comp", "bundles", "lints"} = Mechanical
    /\ "manifest" \notin Mechanical
BY DEF Tracked, Names, Mechanical

LEMMA ManifestGone == file'["manifest"] = None => ManifestTrue'
BY DEF ManifestTrue, IsMade, None

LEMMA ManifestKept ==
    ASSUME ManifestTrue, \A n \in Tracked : file'[n] = file[n]
    PROVE  ManifestTrue'
BY DEF ManifestTrue, IsMade, From, Tracked

(* A verb that is in none of the steps that matter needs only the manifest.*)
LEMMA Elsewhere ==
    ASSUME ManifestTrue', job'.pc \notin Late,
           ~(job'.pc \in Deciding /\ job'.verb = "prepare")
    PROVE  FreshInv'
BY DEF FreshInv, NoManifest, OneInput, WrittenHere, Written, ManifestHeld, Late

(* Inside the mechanical stage the manifest is out of the way.             *)
LEMMA InStage ==
    ASSUME ManifestTrue', job'.pc \in Late, file'["manifest"] = None,
           OneInput', WrittenHere'
    PROVE  FreshInv'
BY DEF FreshInv, NoManifest, ManifestHeld, Late, Deciding

(* A prepare that goes on deciding finds what it found.                    *)
LEMMA StillDeciding ==
    ASSUME FreshInv, \A n \in Tracked : file'[n] = file[n], snap' = snap,
           swapped' = swapped, job.pc \in Deciding, job'.pc \in Deciding,
           job'.verb = job.verb, job'.opts = job.opts
    PROVE  FreshInv'
<1>1. ManifestTrue'
  BY ManifestKept DEF FreshInv
<1>2. job'.pc \notin Late /\ job.pc \notin Late
  BY DEF Late, Deciding
<1>3. Here' = Here
  BY DEF Here
<1>4. Written' = {}
  BY DEF Written, Deciding
<1>5. ManifestHeld'
  BY <1>3 DEF FreshInv, ManifestHeld, IsMade, From, Tracked
<1> QED
  BY <1>1, <1>2, <1>4, <1>5 DEF FreshInv, NoManifest, OneInput, WrittenHere, Late

(* A step that leaves all of it alone.                                     *)
LEMMA NothingNew ==
    ASSUME FreshInv, \A n \in Tracked : file'[n] = file[n], snap' = snap, job' = job,
           swapped' = swapped
    PROVE  FreshInv'
<1>1. ManifestTrue'
  BY ManifestKept DEF FreshInv
<1>2. Here' = Here /\ Written' = Written
  BY DEF Here, Written
<1>3. Written \subseteq Tracked /\ "manifest" \in Tracked /\ Mechanical \subseteq Tracked
  BY DEF Written, Tracked, Mechanical
<1> QED
  BY <1>1, <1>2, <1>3
  DEF FreshInv, NoManifest, OneInput, WrittenHere, ManifestHeld, IsMade, From

(* The snapshot is replaced: nothing is claimed of it until the verb that  *)
(* runs looks again.                                                       *)
LEMMA ReplaceKeeps == FreshInv /\ Replace => FreshInv'
<1> SUFFICES ASSUME FreshInv, Replace PROVE FreshInv'
  OBVIOUS
<1>0. file' = file /\ job' = job /\ swapped' = ~At("idle")
  BY DEF Replace
<1>1. ManifestTrue'
  BY <1>0, ManifestKept DEF FreshInv
<1>2. CASE At("idle")
  BY <1>0, <1>1, <1>2, Elsewhere DEF At, Late, Deciding
<1>3. CASE ~At("idle")
  <2>1. swapped' /\ Written' = Written
    BY <1>0, <1>3 DEF Written
  <2> QED
    BY <1>0, <1>1, <2>1
    DEF FreshInv, NoManifest, OneInput, WrittenHere, ManifestHeld, IsMade, From
<1> QED
  BY <1>2, <1>3

(* The steps that change neither the snapshot nor a mechanical artifact    *)
(* nor the manifest.                                                       *)
Bystanders ==
    \/ Assess \/ EditRules \/ Prepare \/ PrepareCache \/ Decide \/ Retriage \/ Remerge
    \/ Merge \/ WriteOutputs \/ SplitDeepSlice \/ Publish \/ Start \/ Kill \/ RunBegins
    \/ RunDiff \/ RunAsks \/ RunFails

LEMMA BystandersKeep ==
    ASSUME DOMAIN file = Names, Bystanders
    PROVE  snap' = snap /\ \A n \in Tracked : file'[n] = file[n]
<1>0. Tracked \cap {"assessment", "parts", "chunks", "triage", "deep", "ambiguous", "brief", "rollouts"} = {}
  BY DEF Tracked, Mechanical
<1>1. snap' = snap
  <2>1. CASE Start \/ Kill \/ EditRules \/ Assess
    BY <2>1 DEF Start, Kill, EditRules, Assess, Quiet, Still
  <2>2. CASE ~(Start \/ Kill \/ EditRules \/ Assess)
    BY <2>2 DEF Bystanders, Prepare, PrepareCache, Decide, Retriage, Remerge, Merge,
       WriteOutputs, SplitDeepSlice, Publish, RunBegins, RunDiff, RunAsks, RunFails, Quiet, Still
  <2> QED
    BY <2>1, <2>2
<1>2. CASE UNCHANGED file
  BY <1>1, <1>2
<1>3. CASE ~UNCHANGED file
  <2>1. PICK n \in Names \ Tracked : \E v : file' = [file EXCEPT ![n] = v]
    <3>1. {"assessment", "parts", "chunks", "triage", "deep", "ambiguous", "brief", "rollouts"}
            \subseteq Names \ Tracked
      BY <1>0 DEF Names, WorkFiles
    <3>2. CASE Assess \/ SplitDeepSlice \/ Publish
      BY <1>3, <3>1, <3>2 DEF Assess, SplitDeepSlice, Publish, Write
    <3>3. CASE WriteOutputs
      BY <1>3, <3>1, <3>3, WritesWorkFile DEF WorkFiles
    <3>4. CASE ~(Assess \/ SplitDeepSlice \/ Publish \/ WriteOutputs)
      BY <1>3, <3>4, UnwritingKeepsFiles DEF Bystanders, Unwriting
    <3> QED
      BY <3>2, <3>3, <3>4
  <2> QED
    BY <1>1, <2>1 DEF Tracked
<1> QED
  BY <1>2, <1>3

LEMMA IdleElsewhere ==
    ASSUME ManifestTrue', job' = Idle
    PROVE  FreshInv'
BY Elsewhere, IdleIsIdle DEF Late, Deciding

(* The mechanical stage, step by step: no manifest, one input, and what is *)
(* written so far is of that input.                                        *)
LEMMA RunKeeps ==
    ASSUME JobInv, DOMAIN file = Names, FreshInv,
           RunUnlinks \/ RunDiff \/ RunWritesDiff \/ RunComprehensive \/ RunSkips
           \/ RunAsks \/ RunBundles \/ RunLints
    PROVE  FreshInv'
<1> USE NamesAre DEF At, Goto, Return, Quiet, Still, Write, Tracked
<1>1. CASE RunUnlinks
  <2>1. CASE file["manifest"] # None
    <3>1. file'["manifest"] = None /\ job' = job
      BY <1>1, <2>1 DEF RunUnlinks
    <3> QED
      BY <1>1, <3>1, ManifestGone, Elsewhere DEF RunUnlinks, Late, Deciding
  <2>2. CASE file["manifest"] = None
    <3>1. file'["manifest"] = None /\ job' = [job EXCEPT !.pc = "diff"]
      BY <1>1, <2>2 DEF RunUnlinks, Names
    <3>2. job'.pc = "diff"
      BY <3>1 DEF JobInv, Locals
    <3>3. OneInput' /\ WrittenHere' /\ job'.pc \in Late
      BY <3>2 DEF OneInput, WrittenHere, Written, Late
    <3> QED
      BY <3>1, <3>3, ManifestGone, InStage
  <2> QED
    BY <2>1, <2>2
<1>2. CASE RunDiff
  <2>1. file'["manifest"] = None /\ ManifestTrue'
    BY <1>2, ManifestGone DEF RunDiff, FreshInv, NoManifest, Late
  <2>2. CASE job' = Idle
    BY <2>1, <2>2, IdleElsewhere
  <2>3. CASE job' # Idle
    <3>1. PICK inputs : inputs = {Here} /\ job' = [job EXCEPT !.pc = "diffwrite", !.inputs = inputs]
      BY <1>2, <2>3 DEF RunDiff
    <3>2. job'.pc = "diffwrite" /\ job'.inputs = {Here} /\ job'.opts = job.opts
      BY <3>1 DEF JobInv, Locals
    <3>3. Here' = Here
      BY <1>2, <3>2 DEF RunDiff, Here
    <3>4. OneInput' /\ WrittenHere' /\ job'.pc \in Late
      BY <3>2, <3>3 DEF OneInput, WrittenHere, Written, Late
    <3> QED
      BY <2>1, <3>4, InStage
  <2> QED
    BY <2>2, <2>3
<1>3. CASE RunWritesDiff
  <2>1. file'["manifest"] = None /\ ManifestTrue' /\ swapped' = swapped
    BY <1>3, ManifestGone DEF RunWritesDiff, FreshInv, NoManifest, Late, Names
  <2>2. CASE file["diff"] # TornFile
    <3>1. job' = job /\ Here' = Here
      BY <1>3, <2>2 DEF RunWritesDiff, Here
    <3>2. OneInput' /\ WrittenHere' /\ job'.pc \in Late
      BY <1>3, <2>1, <3>1
      DEF RunWritesDiff, FreshInv, OneInput, WrittenHere, Written, Late
    <3> QED
      BY <2>1, <3>2, InStage
  <2>3. CASE file["diff"] = TornFile
    <3>1. job' = [job EXCEPT !.pc = "comp"] /\ file'["diff"] = Made(job.inputs)
      BY <1>3, <2>3 DEF RunWritesDiff, Names
    <3>2. job'.pc = "comp" /\ job'.inputs = job.inputs /\ job'.opts = job.opts
      BY <3>1 DEF JobInv, Locals
    <3>3. Here' = Here /\ (~swapped => job.inputs = {Here})
      BY <1>3, <3>2 DEF RunWritesDiff, Here, FreshInv, OneInput
    <3>4. OneInput' /\ WrittenHere' /\ job'.pc \in Late
      BY <2>1, <3>1, <3>2, <3>3
      DEF OneInput, WrittenHere, Written, Late, IsMade, Made
    <3> QED
      BY <2>1, <3>4, InStage
  <2> QED
    BY <2>2, <2>3
<1>4. CASE RunComprehensive
  <2>1. file'["manifest"] = None /\ ManifestTrue' /\ swapped' = swapped
    BY <1>4, ManifestGone DEF RunComprehensive, FreshInv, NoManifest, Late, Names
  <2>2. CASE job' = Idle
    BY <2>1, <2>2, IdleElsewhere
  <2>3. CASE job' # Idle
    <3>1. /\ job' = [job EXCEPT !.pc = IF job.skip = "bundles" THEN "skip" ELSE "bundles"]
          /\ file' = [file EXCEPT !["comp"] = Made(job.inputs)]
      BY <1>4, <2>3 DEF RunComprehensive
    <3>2. /\ job'.pc = IF job.skip = "bundles" THEN "skip" ELSE "bundles"
          /\ job'.inputs = job.inputs /\ job'.opts = job.opts /\ job'.skip = job.skip
      BY <3>1 DEF JobInv, Locals
    <3>3. Here' = Here /\ (~swapped => job.inputs = {Here})
      BY <1>4, <3>2 DEF RunComprehensive, Here, FreshInv, OneInput
    <3>4. IsMade("diff") /\ (~swapped => file["diff"] = Made({Here}))
      BY <1>4 DEF RunComprehensive, FreshInv, WrittenHere, Written
    <3>5. file'["diff"] = file["diff"] /\ file'["comp"] = Made(job.inputs)
      BY <3>1 DEF Names
    <3>6. Written' \subseteq {"diff", "comp"}
      BY <3>2 DEF Written
    <3>7. OneInput' /\ WrittenHere' /\ job'.pc \in Late
      BY <2>1, <3>2, <3>3, <3>4, <3>5, <3>6
      DEF OneInput, WrittenHere, Late, IsMade, Made
    <3> QED
      BY <2>1, <3>7, InStage
  <2> QED
    BY <2>2, <2>3
<1>5. CASE RunSkips
  <2>1. file'["manifest"] = None /\ ManifestTrue' /\ swapped' = swapped
    BY <1>5, ManifestGone DEF RunSkips, FreshInv, NoManifest, Late, Names
  <2>2. job'.pc = "manifest" /\ job'.opts = job.opts /\ job'.skip = job.skip
    BY <1>5 DEF RunSkips, JobInv, Locals
  <2>3. Here' = Here
    BY <1>5, <2>2 DEF RunSkips, Here
  <2>4. job.skip = "lints" \/ job.skip = "bundles"
    BY <1>5 DEF RunSkips, JobInv
  <2>5. CASE job.skip = "lints"
    <3>1. \A n \in {"diff", "comp", "bundles"} : IsMade(n) /\ (~swapped => file[n] = Made({Here}))
      BY <1>5, <2>5 DEF RunSkips, FreshInv, WrittenHere, Written
    <3>2. \A n \in {"diff", "comp", "bundles"} : file'[n] = file[n]
      BY <1>5, <2>5 DEF RunSkips, Names
    <3>3. Written' = {"diff", "comp", "bundles"}
      BY <2>2, <2>5 DEF Written, Mechanical
    <3>4. OneInput' /\ WrittenHere' /\ job'.pc \in Late
      BY <2>1, <2>2, <2>3, <3>1, <3>2, <3>3 DEF OneInput, WrittenHere, Late, IsMade
    <3> QED
      BY <2>1, <3>4, InStage
  <2>6. CASE job.skip = "bundles"
    <3>1. \A n \in {"diff", "comp"} : IsMade(n) /\ (~swapped => file[n] = Made({Here}))
      BY <1>5, <2>6 DEF RunSkips, FreshInv, WrittenHere, Written
    <3>2. \A n \in {"diff", "comp"} : file'[n] = file[n]
      BY <1>5, <2>6 DEF RunSkips, Names
    <3>3. Written' = {"diff", "comp"}
      BY <2>2, <2>6 DEF Written
    <3>4. OneInput' /\ WrittenHere' /\ job'.pc \in Late
      BY <2>1, <2>2, <2>3, <3>1, <3>2, <3>3 DEF OneInput, WrittenHere, Late, IsMade
    <3> QED
      BY <2>1, <3>4, InStage
  <2> QED
    BY <2>4, <2>5, <2>6
<1>6. CASE RunAsks
  <2>1. file'["manifest"] = None /\ ManifestTrue' /\ swapped' = swapped
    BY <1>6, ManifestGone DEF RunAsks, FreshInv, NoManifest, Late
  <2>3. PICK inputs : /\ inputs = job.inputs \/ inputs = job.inputs \cup {Here}
                      /\ job' = job \/ job' = [job EXCEPT !.inputs = inputs]
    BY <1>6 DEF RunAsks
  <2>4. /\ job'.pc = "bundles" /\ job'.opts = job.opts
        /\ job'.inputs \in {job.inputs, job.inputs \cup {Here}}
    BY <1>6, <2>3 DEF RunAsks, JobInv, Locals
  <2>5. Here' = Here /\ (~swapped => job.inputs = {Here})
    BY <1>6, <2>4 DEF RunAsks, Here, FreshInv, OneInput
  <2>6. \A n \in {"diff", "comp"} : IsMade(n) /\ (~swapped => file[n] = Made({Here}))
    BY <1>6 DEF RunAsks, FreshInv, WrittenHere, Written
  <2>7. file' = file /\ Written' = {"diff", "comp"}
    BY <1>6, <2>4 DEF RunAsks, Written
  <2>8. OneInput' /\ WrittenHere' /\ job'.pc \in Late
    BY <2>1, <2>4, <2>5, <2>6, <2>7 DEF OneInput, WrittenHere, Late, IsMade
  <2> QED
    BY <2>1, <2>8, InStage
<1>7. CASE RunBundles
  <2>1. file'["manifest"] = None /\ ManifestTrue' /\ swapped' = swapped
    BY <1>7, ManifestGone DEF RunBundles, FreshInv, NoManifest, Late, Names
  <2>2. /\ job'.pc = (IF job.skip = "lints" THEN "skip" ELSE "lints")
        /\ job'.inputs = job.inputs /\ job'.opts = job.opts /\ job'.skip = job.skip
    BY <1>7 DEF RunBundles, JobInv, Locals
  <2>3. Here' = Here /\ (~swapped => job.inputs = {Here})
    BY <1>7, <2>2 DEF RunBundles, Here, FreshInv, OneInput
  <2>4. \A n \in {"diff", "comp"} : IsMade(n) /\ (~swapped => file[n] = Made({Here}))
    BY <1>7 DEF RunBundles, FreshInv, WrittenHere, Written
  <2>5. /\ \A n \in {"diff", "comp"} : file'[n] = file[n]
        /\ file'["bundles"] = Made(job.inputs)
    BY <1>7 DEF RunBundles, Names
  <2>6. Written' \subseteq {"diff", "comp", "bundles"}
    BY <2>2 DEF Written
  <2>7. OneInput' /\ WrittenHere' /\ job'.pc \in Late
    BY <2>1, <2>2, <2>3, <2>4, <2>5, <2>6
    DEF OneInput, WrittenHere, Late, IsMade, Made
  <2> QED
    BY <2>1, <2>7, InStage
<1>8. CASE RunLints
  <2>1. file'["manifest"] = None /\ ManifestTrue' /\ swapped' = swapped
    BY <1>8, ManifestGone DEF RunLints, FreshInv, NoManifest, Late, Names
  <2>2. job'.pc = "manifest" /\ job'.opts = job.opts /\ job'.skip = "none"
    BY <1>8 DEF RunLints, JobInv, Locals
  <2>3. Here' = Here /\ (~swapped => job.inputs = {Here})
    BY <1>8, <2>2 DEF RunLints, Here, FreshInv, OneInput
  <2>4. \A n \in {"diff", "comp", "bundles"} : IsMade(n) /\ (~swapped => file[n] = Made({Here}))
    BY <1>8 DEF RunLints, FreshInv, WrittenHere, Written
  <2>5. /\ \A n \in {"diff", "comp", "bundles"} : file'[n] = file[n]
        /\ file'["lints"] = Made(job.inputs)
    BY <1>8 DEF RunLints, Names
  <2>6. Written' = {"diff", "comp", "bundles", "lints"}
    BY <2>2 DEF Written
  <2>7. OneInput' /\ WrittenHere' /\ job'.pc \in Late
    BY <2>1, <2>2, <2>3, <2>4, <2>5, <2>6
    DEF OneInput, WrittenHere, Late, IsMade, Made
  <2> QED
    BY <2>1, <2>7, InStage
<1> QED
  BY <1>1, <1>2, <1>3, <1>4, <1>5, <1>6, <1>7, <1>8

(* prepare finds the output finished only if the manifest names the inputs *)
(* of now and lists every artifact.                                        *)
LEMMA PrepareKeeps ==
    ASSUME JobInv, DOMAIN file = Names, FreshInv, Prepare
    PROVE  FreshInv'
<1> USE DEF At, Quiet, Still
<1>1. snap' = snap /\ file' = file
  BY DEF Prepare
<1>2. ManifestTrue'
  BY <1>1, ManifestKept DEF FreshInv
<1>3. PICK reused \in BOOLEAN :
         /\ job' = [job EXCEPT !.reused = reused, !.had = HasVerdicts,
                               !.pc = IF reused THEN "cache" ELSE "run"]
         /\ reused => Reusable
  BY DEF Prepare
<1>4. /\ job'.pc = (IF reused THEN "cache" ELSE "run")
      /\ job'.verb = job.verb /\ job'.opts = job.opts
  BY <1>3 DEF JobInv, Locals
<1>5. CASE ~reused
  BY <1>2, <1>4, <1>5, Elsewhere DEF Late, Deciding
<1>6. CASE reused
  <2>1. Here' = Here
    BY <1>1, <1>4 DEF Here
  <2>2. ManifestHeld'
    BY <1>1, <1>3, <1>6, <2>1 DEF Reusable, ManifestHeld, IsMade, From
  <2>3. Written' = {} /\ job'.pc \notin Late
    BY <1>4, <1>6 DEF Written, Late
  <2> QED
    BY <1>2, <2>2, <2>3 DEF FreshInv, NoManifest, OneInput, WrittenHere, Late
<1> QED
  BY <1>5, <1>6

(* The manifest is written last and lists what has been written.           *)
LEMMA ManifestKeeps ==
    ASSUME JobInv, DOMAIN file = Names, FreshInv, RunManifest
    PROVE  FreshInv'
<1> USE NamesAre DEF At, Goto, Return, Quiet, Still, Write
<1> DEFINE listed == CASE job.skip = "bundles" -> {"diff", "comp"}
                       [] job.skip = "lints" -> Mechanical \ {"lints"}
                       [] OTHER -> Mechanical
           manifest == [input |-> Here, narrative |-> FALSE, steady |-> ~swapped,
                        files |-> listed]
<1>1. file' = [file EXCEPT !["manifest"] = Made(manifest)]
  BY DEF RunManifest
<1>2. \A n \in listed : IsMade(n) /\ (~swapped => file[n] = Made({Here}))
  BY DEF RunManifest, FreshInv, WrittenHere, Written
<1>3. /\ DOMAIN manifest = {"input", "narrative", "steady", "files"}
      /\ manifest.input = Here /\ manifest.files = listed /\ manifest.steady = ~swapped
  OBVIOUS
<1> HIDE DEF listed, manifest
<1>4. /\ file'["manifest"].of = manifest /\ "of" \in DOMAIN file'["manifest"]
      /\ \A n \in Mechanical : file'[n] = file[n]
  BY <1>1 DEF Names, Made, Tracked
<1>5. ManifestTrue'
  BY <1>2, <1>3, <1>4 DEF ManifestTrue, From
<1>6. CASE job.verb = "run"
  BY <1>5, <1>6, IdleElsewhere DEF RunManifest
<1>7. CASE job.verb # "run"
  <2>1. job' = [job EXCEPT !.pc = "cache"] /\ swapped' = swapped
    BY <1>7 DEF RunManifest
  <2>2. job'.pc = "cache" /\ job'.opts = job.opts
    BY <2>1 DEF JobInv, Locals
  <2>3. Here' = Here
    BY <2>2 DEF RunManifest, Here
  <2>4. listed = Mechanical
    BY <1>7 DEF JobInv, listed
  <2>5. ManifestHeld'
    BY <1>2, <1>3, <1>4, <2>3, <2>4 DEF ManifestHeld, IsMade, From
  <2>6. Written' = {} /\ job'.pc \notin Late
    BY <2>2 DEF Written, Late
  <2> QED
    BY <1>5, <2>5, <2>6 DEF FreshInv, NoManifest, OneInput, WrittenHere, Late
<1> QED
  BY <1>6, <1>7

LEMMA UpdateKeeps ==
    ASSUME DOMAIN file = Names, FreshInv, UpdateManifest
    PROVE  FreshInv'
<1> USE NamesAre DEF At, Return, Quiet, Still, Write, Tracked
<1>1. ManifestTrue'
  <2>1. CASE IsMade("manifest")
    <3> DEFINE manifest == [From("manifest") EXCEPT !.narrative = TRUE]
    <3>1. file' = [file EXCEPT !["manifest"] = Made(manifest)]
      BY <2>1 DEF UpdateManifest
    <3>2. /\ DOMAIN manifest = {"input", "narrative", "steady", "files"}
          /\ manifest.input = From("manifest").input
          /\ manifest.files = From("manifest").files
          /\ manifest.steady = From("manifest").steady
      BY <2>1 DEF FreshInv, ManifestTrue
    <3> HIDE DEF manifest
    <3>3. file'["manifest"].of = manifest /\ \A n \in Mechanical : file'[n] = file[n]
      BY <3>1 DEF Names, Made
    <3> QED
      BY <2>1, <3>2, <3>3 DEF FreshInv, ManifestTrue, From, IsMade
  <2>2. CASE ~IsMade("manifest")
    BY <2>2, ManifestKept DEF UpdateManifest, FreshInv
  <2> QED
    BY <2>1, <2>2
<1>2. job' = Idle
  BY DEF UpdateManifest
<1> QED
  BY <1>1, <1>2, IdleElsewhere

LEMMA FreshInvHolds ==
    ASSUME JobInv, DOMAIN file = Names, FreshInv, [Next]_vars
    PROVE  FreshInv'
<1> USE DEF At, Goto, Return, Quiet, Still
<1>1. CASE UNCHANGED vars
  BY <1>1, NothingNew DEF vars, wf
<1>2. CASE Assess \/ EditRules
  BY <1>2, BystandersKeep, NothingNew DEF Bystanders, Assess, EditRules
<1>3. CASE Replace
  BY <1>3, ReplaceKeeps
<1>4. CASE Start
  <2>1. job'.pc \in {"prepare", "run", "merge", "publish"}
    BY <1>4 DEF Start, Idle
  <2> QED
    BY <1>4, <2>1, BystandersKeep, ManifestKept, Elsewhere
    DEF Bystanders, FreshInv, Late, Deciding
<1>5. CASE Kill \/ RunFails
  BY <1>5, BystandersKeep, ManifestKept, IdleElsewhere
  DEF Bystanders, FreshInv, Kill, RunFails
<1>6. CASE RunBegins
  <2>1. job'.pc \in {"idle", "unlink"}
    BY <1>6 DEF RunBegins, JobInv, Locals, Idle
  <2> QED
    BY <1>6, <2>1, BystandersKeep, ManifestKept, Elsewhere
    DEF Bystanders, FreshInv, Late, Deciding
<1>7. CASE RunUnlinks \/ RunDiff \/ RunWritesDiff \/ RunComprehensive \/ RunSkips
             \/ RunAsks \/ RunBundles \/ RunLints
  BY <1>7, RunKeeps
<1>8. CASE RunManifest
  BY <1>8, ManifestKeeps
<1>9. CASE Prepare
  BY <1>9, PrepareKeeps
<1>10. CASE PrepareCache \/ Decide \/ Retriage \/ Remerge \/ WriteOutputs \/ SplitDeepSlice
  <2>1. snap' = snap /\ \A n \in Tracked : file'[n] = file[n]
    BY <1>10, BystandersKeep DEF Bystanders
  <2>s. swapped' = swapped
    BY <1>10 DEF PrepareCache, Decide, Retriage, Remerge, WriteOutputs, SplitDeepSlice
  <2>2. job.pc \in Deciding
    BY <1>10 DEF PrepareCache, Decide, Retriage, Remerge, WriteOutputs, SplitDeepSlice, Deciding
  <2>3. \/ job' = job \/ job' = Idle
        \/ \E pc \in Deciding : job' = [job EXCEPT !.pc = pc]
        \/ \E out : job' = [job EXCEPT !.pc = "write", !.out = out]
        \/ \E out, warned : job' = [job EXCEPT !.pc = "write", !.out = out, !.warned = warned]
        \/ job' = [job EXCEPT !.pc = "triage", !.warned = TRUE]
    <3>1. CASE PrepareCache \/ Decide
      BY <3>1 DEF PrepareCache, Decide, Deciding
    <3>2. CASE Retriage
      BY <3>2 DEF Retriage
    <3>3. CASE Remerge
      BY <3>3 DEF Remerge
    <3>4. CASE WriteOutputs \/ SplitDeepSlice
      BY <3>4 DEF WriteOutputs, SplitDeepSlice, Deciding
    <3> QED
      BY <1>10, <3>1, <3>2, <3>3, <3>4
  <2>4. CASE job' = Idle
    BY <2>1, <2>4, ManifestKept, IdleElsewhere DEF FreshInv
  <2>5. CASE job' # Idle
    <3>1. job'.pc \in Deciding /\ job'.verb = job.verb /\ job'.opts = job.opts
      BY <2>2, <2>3, <2>5 DEF JobInv, Locals, Deciding
    <3> QED
      BY <2>1, <2>s, <2>2, <3>1, StillDeciding
  <2> QED
    BY <2>4, <2>5
<1>11. CASE Merge
  <2>1. ManifestTrue'
    BY <1>11, BystandersKeep, ManifestKept DEF Bystanders, FreshInv
  <2>2. job' = Idle \/ \E out : job' = [job EXCEPT !.pc = "write", !.out = out]
    BY <1>11 DEF Merge
  <2>3. CASE job' = Idle
    BY <2>1, <2>3, IdleElsewhere
  <2>4. CASE job' # Idle
    <3>1. job'.pc = "write" /\ job'.verb = "merge"
      BY <1>11, <2>2, <2>4 DEF Merge, JobInv, Locals
    <3> QED
      BY <2>1, <3>1, Elsewhere DEF Late
  <2> QED
    BY <2>3, <2>4
<1>12. CASE Publish
  <2>1. job'.pc \in {"record", "idle"}
    BY <1>12 DEF Publish, JobInv, Locals, Idle
  <2> QED
    BY <1>12, <2>1, BystandersKeep, ManifestKept, Elsewhere
    DEF Bystanders, FreshInv, Late, Deciding
<1>13. CASE UpdateManifest
  BY <1>13, UpdateKeeps
<1> QED
  BY <1>1, <1>2, <1>3, <1>4, <1>5, <1>6, <1>7, <1>8, <1>9, <1>10, <1>11, <1>12,
     <1>13 DEF Next

(* What prepare hands out was made from the snapshot and with the options  *)
(* its manifest names (new_manifest in make_patch_notes.py), the ones it   *)
(* was asked for (reuse_problem in workflow.py), however often a run was   *)
(* killed or failed over the directory before and the snapshot replaced;   *)
(* a replacement hurts the output of the one run that it meets.            *)
THEOREM ReuseAlwaysFresh == Spec => []ReuseIsFresh
<1>1. Init => FreshInv
  BY DEF Init, FreshInv, NoManifest, OneInput, WrittenHere, Written, ManifestTrue,
         ManifestHeld, Idle, Late, Deciding, IsMade, None, Names
<1>2. JobInv /\ WholeInv /\ FreshInv /\ [Next]_vars => FreshInv'
  BY FreshInvHolds DEF WholeInv
<1>3. FreshInv => ReuseIsFresh
  BY DEF FreshInv, ManifestHeld, ManifestTrue, ReuseIsFresh, Deciding
<1> QED
  BY <1>1, <1>2, <1>3, JobAlways, WholeAlways, PTL DEF Spec
=============================================================================
