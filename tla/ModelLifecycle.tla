--------------------------- MODULE ModelLifecycle ---------------------------
(* The retraining flows of ModelLifecycleOrchestrationService for one serving *)
(* scope: eleven jobs of the queue "model-lifecycle", each the child of the   *)
(* next, two attempts each, two running at a time; and the endpoints of       *)
(* AdminModelLifecycleController that act on the same rows.  A champion is    *)
(* resolved through ServingView, so every job may see an earlier champion.    *)
(* The other flags come from a cache as well: a job may read either value of  *)
(* autoPromotionEnabled and autoRollbackEnabled at any time.                  *)
EXTENDS ServingView, JobFlow

CONSTANTS
    Flows,          \* flows, each with a window and job ids of its own
    Base,           \* the newest active model version: no flow activates another
    MaxDrifts,      \* bound: critical drift events
    MaxFailures,    \* bound: attempts that throw or are lost, over all flows
    MaxAdminOps     \* bound: administrators' requests, the flows they start included

ASSUME LifecycleAssumption ==
    /\ Base \in Models /\ Nothing \notin Models /\ NoChampion \notin Models
    /\ MaxDrifts \in Nat /\ MaxFailures \in Nat /\ MaxAdminOps \in Nat

VARIABLES
    created,        \* the model versions in the database
    run,            \* flow -> its training run: status and modelVersionId
    job,            \* flow -> the job it is at and how far the attempt is
    papers,         \* backtest results, calibrations and registry entries by model
    evaluation,     \* <<champion, challenger>> -> verdict its latest window gives
    decided,        \* the pairs of the PROMOTE decisions
    promoted,       \* the challenger of the latest PROMOTE decision
    drift,          \* drift event -> none, open or resolved
    rolledBack,     \* the drift events named by a rollback event
    served,         \* every model that was champion and Base, chosen the ones
    chosen,         \*   an administrator made champion
    nFailures, nAdminOps

lifecycleRows == <<created, run, papers, evaluation, decided, promoted, drift, rolledBack>>
lifecycleVars == <<viewVars, lifecycleRows, job, served, chosen, nFailures, nAdminOps>>

\* Mutant of LifecycleJobs: candidates are registered before they are calibrated.
LifecycleJobsSwapped ==
        <<"collectLabels", "buildTrainingDataset", "trainCandidate", "backtestCandidate",
          "registerCandidate", "calibrateCandidate", "shadowEvaluateCandidate",
          "computePromotionDecision", "aliasSwitch", "rollbackChampion", "archiveRetiredModels">>

LifecycleJobs == <<"collectLabels", "buildTrainingDataset", "trainCandidate", "backtestCandidate",
          "calibrateCandidate", "registerCandidate", "shadowEvaluateCandidate",
          "computePromotionDecision", "aliasSwitch", "rollbackChampion", "archiveRetiredModels">>
Papers == {"backtestCandidate", "calibrateCandidate", "registerCandidate"}

\* EXTEND_SHADOW leaves the champion as KEEP_CHAMPION does.
Verdicts == {"PROMOTE", "KEEP_CHAMPION"}
Drifts == 1..MaxDrifts
Steps == {"start", "built", "trained", "decided", "promoting", "rolling", "switched", "recorded"}

LifecycleTypeOK ==
    /\ champion \in Models \cup {NoChampion} /\ fallback = Base
    /\ aliasing \in BOOLEAN /\ servable \subseteq Models
    /\ created \subseteq Models
    /\ run \in [Flows -> [status : {"none", "running", "succeeded", "failed"},
                          model : Models \cup {Nothing}]]
    /\ job \in [Flows -> [nr : 0..Len(LifecycleJobs) + 1, step : Steps, tries : 0..Attempts,
                          held : Models \cup Drifts \cup {Nothing}]]
    /\ papers \in [Papers -> SUBSET Models]
    /\ evaluation \in [Models \X Models -> Verdicts \cup {"none"}]
    /\ decided \subseteq Models \X Models
    /\ promoted \in Models \cup {Nothing}
    /\ drift \in [Drifts -> {"none", "open", "resolved"}]
    /\ rolledBack \subseteq Drifts
    /\ served \subseteq Models /\ chosen \subseteq Models
    /\ nFailures \in 0..MaxFailures /\ nAdminOps \in 0..MaxAdminOps

LifecycleInit ==
    /\ champion = NoChampion /\ fallback = Base /\ aliasing = TRUE /\ servable = {Base}
    /\ created = {Base} /\ served = {Base} /\ chosen = {}
    /\ run = [f \in Flows |-> [status |-> "none", model |-> Nothing]]
    /\ job = [f \in Flows |-> NoJob]
    /\ papers = [p \in Papers |-> {}]
    /\ evaluation = [pair \in Models \X Models |-> "none"]
    /\ decided = {} /\ promoted = Nothing
    /\ drift = [d \in Drifts |-> "none"] /\ rolledBack = {}
    /\ nFailures = 0 /\ nAdminOps = 0

\* Mutant of At: the attempts are not counted.
AtAnyAttempt(f, name, step) ==
    /\ job[f].nr \in DOMAIN LifecycleJobs /\ LifecycleJobs[job[f].nr] = name
    /\ job[f].step = step

At(f, name, step) == IsAt(job[f], LifecycleJobs, name, step)
Hold(f, step, value) == job' = [job EXCEPT ![f] = Onward(@, step, value)]
Continue(f, step) == Hold(f, step, job[f].held)
Finish(f) == job' = [job EXCEPT ![f] = Done(@)]

\* switchAlias() of the CHAMPION alias.
Switch(m) == Crown(m) /\ served' = served \cup {m}

\* A drift event; only a critical one is of interest here.
LogDrift ==
    \/ UNCHANGED drift
    \/ \E d \in Drifts :
          /\ drift[d] = "none" /\ \A e \in Drifts : e < d => drift[e] # "none"
          /\ drift' = [drift EXCEPT ![d] = "open"]

(* ---- the jobs ---- *)

\* An administrator's request: nothing else starts a flow.
EnqueueFlow(f) ==
    /\ nAdminOps < MaxAdminOps /\ nAdminOps' = nAdminOps + 1
    /\ job[f] = NoJob
    /\ job' = [job EXCEPT ![f] = JobNr(1)]
    /\ UNCHANGED <<viewVars, lifecycleRows, served, chosen, nFailures>>

CollectLabels(f) ==
    /\ At(f, "collectLabels", "start")
    /\ Finish(f)
    /\ UNCHANGED <<viewVars, lifecycleRows, served, chosen, nFailures, nAdminOps>>

BuildTrainingDataset(f) ==
    /\ At(f, "buildTrainingDataset", "start")
    /\ run' = [run EXCEPT ![f].status = "running"]
    /\ Continue(f, "built")
    /\ UNCHANGED <<viewVars, created, papers, evaluation, decided, promoted, drift, rolledBack,
                   served, chosen, nFailures, nAdminOps>>

SaveDataset(f) ==
    /\ At(f, "buildTrainingDataset", "built")
    /\ run' = [run EXCEPT ![f].status = "succeeded"]
    /\ Finish(f)
    /\ UNCHANGED <<viewVars, created, papers, evaluation, decided, promoted, drift, rolledBack,
                   served, chosen, nFailures, nAdminOps>>

\* The listener of "failed" marks the training run of an attempt that threw,
\* long before the next attempt.
Throw(f) == /\ job' = [job EXCEPT ![f] = Failed(@)]
            /\ run' = [run EXCEPT ![f].status = "failed"]

\* The next version to be created; which one it is does not matter.
Fresh == CHOOSE m \in Models : m \notin created

\* A version of its own, named after the minute: names are unique, and a
\* candidate made in the same minute makes the attempt throw.
TrainCandidate(f) ==
    /\ At(f, "trainCandidate", "start")
    /\ \/ /\ created # Models
          /\ created' = created \cup {Fresh}
          /\ Hold(f, "trained", Fresh)
          /\ run' = [run EXCEPT ![f].status = "running"]
       \/ /\ created # {Base}
          /\ Throw(f) /\ UNCHANGED created
    /\ UNCHANGED <<viewVars, papers, evaluation, decided, promoted, drift, rolledBack,
                   served, chosen, nFailures, nAdminOps>>

SaveCandidate(f) ==
    /\ At(f, "trainCandidate", "trained")
    /\ run' = [run EXCEPT ![f] = [status |-> "succeeded", model |-> job[f].held]]
    /\ Finish(f)
    /\ UNCHANGED <<viewVars, created, papers, evaluation, decided, promoted, drift, rolledBack,
                   served, chosen, nFailures, nAdminOps>>

\* A run without a model ends the remaining jobs of the candidate early.
WritePaper(f) ==
    /\ \E p \in Papers :
          /\ At(f, p, "start")
          /\ papers' = [papers EXCEPT ![p] = @ \cup ({run[f].model} \ {Nothing})]
    /\ Finish(f)
    /\ UNCHANGED <<viewVars, created, run, evaluation, decided, promoted, drift, rolledBack,
                   served, chosen, nFailures, nAdminOps>>

\* The window the job records always lets the challenger win.
ShadowEvaluate(f) ==
    /\ At(f, "shadowEvaluateCandidate", "start")
    /\ IF run[f].model = Nothing THEN UNCHANGED evaluation
       ELSE \E c \in servable :
              evaluation' = [evaluation EXCEPT ![<<c, run[f].model>>] = "PROMOTE"]
    /\ Finish(f)
    /\ UNCHANGED <<viewVars, created, run, papers, decided, promoted, drift, rolledBack,
                   served, chosen, nFailures, nAdminOps>>

Promote(c, m) ==
    /\ decided' = decided \cup {<<c, m>>}
    /\ promoted' = m

\* Mutant of PromotionDecision: the latest window of the challenger, whoever it was compared with.
DecisionOnAnyWindow(f) ==
    \E c \in servable, d \in Models :
       LET verdict == evaluation[<<d, run[f].model>>] IN
       /\ IF verdict = "PROMOTE" THEN Promote(c, run[f].model) ELSE UNCHANGED <<decided, promoted>>
       /\ IF verdict = "none" THEN Finish(f) ELSE Continue(f, "decided")

\* Mutant of PromotionDecision: the job waits for a window that is missing.
DecisionAwaitsWindow(f) ==
    \E c \in servable :
       LET verdict == evaluation[<<c, run[f].model>>] IN
       /\ verdict # "none"
       /\ IF verdict = "PROMOTE" THEN Promote(c, run[f].model) ELSE UNCHANGED <<decided, promoted>>
       /\ Continue(f, "decided")

\* The champion resolved now, the latest window of this very pair, its verdict.
PromotionDecision(f) ==
    \E c \in servable :
       LET verdict == evaluation[<<c, run[f].model>>] IN
       /\ IF verdict = "PROMOTE" THEN Promote(c, run[f].model) ELSE UNCHANGED <<decided, promoted>>
       /\ IF verdict = "none" THEN Finish(f) ELSE Continue(f, "decided")

ComputePromotionDecision(f) ==
    /\ At(f, "computePromotionDecision", "start")
    /\ IF run[f].model = Nothing THEN Finish(f) /\ UNCHANGED <<decided, promoted>>
       ELSE PromotionDecision(f)
    /\ UNCHANGED <<viewVars, created, run, papers, evaluation, drift, rolledBack,
                   served, chosen, nFailures, nAdminOps>>

EvaluateDrift(f) ==
    /\ At(f, "computePromotionDecision", "decided")
    /\ LogDrift /\ Finish(f)
    /\ UNCHANGED <<viewVars, created, run, papers, evaluation, decided, promoted, rolledBack,
                   served, chosen, nFailures, nAdminOps>>

\* Mutant of FindPromotion: the flow's own candidate, decided or not.
FindCandidate(f) ==
    /\ At(f, "aliasSwitch", "start")
    /\ \/ Finish(f)
       \/ run[f].model # Nothing /\ Hold(f, "promoting", run[f].model)
    /\ UNCHANGED <<viewVars, lifecycleRows, served, chosen, nFailures, nAdminOps>>

\* autoPromotionEnabled, and the latest PROMOTE decision of the scope, whoever made it.
FindPromotion(f) ==
    /\ At(f, "aliasSwitch", "start")
    /\ \/ Finish(f)
       \/ /\ promoted # Nothing
          /\ Hold(f, "promoting", promoted)
    /\ UNCHANGED <<viewVars, lifecycleRows, served, chosen, nFailures, nAdminOps>>

AliasSwitch(f) ==
    /\ At(f, "aliasSwitch", "promoting")
    /\ Switch(job[f].held)
    /\ Finish(f)
    /\ UNCHANGED <<lifecycleRows, chosen, nFailures, nAdminOps>>

OpenDrifts == {d \in Drifts : drift[d] = "open"}

\* Mutant of FindDrift: the drift event is closed when the job takes it up.
TakeDrift(f) ==
    /\ At(f, "rollbackChampion", "start")
    /\ \/ Finish(f) /\ UNCHANGED drift
       \/ \E d \in OpenDrifts :
             /\ drift' = [drift EXCEPT ![d] = "resolved"]
             /\ Hold(f, "rolling", d)
    /\ UNCHANGED <<viewVars, created, run, papers, evaluation, decided, promoted, rolledBack,
                   served, chosen, nFailures, nAdminOps>>

\* autoRollbackEnabled, and the newest critical drift not resolved.
FindDrift(f) ==
    /\ At(f, "rollbackChampion", "start")
    /\ \/ Finish(f)
       \/ \E d \in OpenDrifts :
             /\ \A e \in OpenDrifts : e <= d
             /\ Hold(f, "rolling", d)
    /\ UNCHANGED <<viewVars, lifecycleRows, served, chosen, nFailures, nAdminOps>>

\* No ROLLBACK_CANDIDATE alias is ever set: the newest active version is the target.
RollbackSwitch(f) ==
    /\ At(f, "rollbackChampion", "rolling")
    /\ Switch(Base)
    /\ Continue(f, "switched")
    /\ UNCHANGED <<lifecycleRows, chosen, nFailures, nAdminOps>>

RecordRollback(f) ==
    /\ At(f, "rollbackChampion", "switched")
    /\ rolledBack' = rolledBack \cup {job[f].held}
    /\ Continue(f, "recorded")
    /\ UNCHANGED <<viewVars, created, run, papers, evaluation, decided, promoted, drift,
                   served, chosen, nFailures, nAdminOps>>

ResolveDrift(f) ==
    /\ At(f, "rollbackChampion", "recorded")
    /\ drift' = [drift EXCEPT ![job[f].held] = "resolved"]
    /\ Finish(f)
    /\ UNCHANGED <<viewVars, created, run, papers, evaluation, decided, promoted, rolledBack,
                   served, chosen, nFailures, nAdminOps>>

\* No alias is ever RETIRED: nothing to archive.
ArchiveRetiredModels(f) ==
    /\ At(f, "archiveRetiredModels", "start")
    /\ Finish(f)
    /\ UNCHANGED <<viewVars, lifecycleRows, served, chosen, nFailures, nAdminOps>>

\* An attempt throws between two writes, or the worker is lost with it and the
\* job is delivered again, which counts as another attempt here.
LoseAttempt(f) ==
    /\ Running(job[f], LifecycleJobs)
    /\ nFailures < MaxFailures /\ nFailures' = nFailures + 1
    /\ Throw(f) \/ (job' = [job EXCEPT ![f] = Failed(@)] /\ UNCHANGED run)
    /\ UNCHANGED <<viewVars, created, papers, evaluation, decided, promoted, drift, rolledBack,
                   served, chosen, nAdminOps>>

(* ---- the administrators ---- *)

ManualSwitch(m) ==
    /\ nAdminOps < MaxAdminOps /\ nAdminOps' = nAdminOps + 1
    /\ m \in created /\ Switch(m) /\ chosen' = chosen \cup {m}
    /\ UNCHANGED <<lifecycleRows, job, nFailures>>

\* setLifecycleFlags(); the other flags take any value anywhere.
ToggleResolution ==
    /\ nAdminOps < MaxAdminOps /\ nAdminOps' = nAdminOps + 1
    /\ Toggle
    /\ UNCHANGED <<lifecycleRows, job, served, chosen, nFailures>>

RecordShadowWindow(c, m, verdict) ==
    /\ nAdminOps < MaxAdminOps /\ nAdminOps' = nAdminOps + 1
    /\ {c, m} \subseteq created /\ c # m
    /\ evaluation' = [evaluation EXCEPT ![<<c, m>>] = verdict]
    /\ UNCHANGED <<viewVars, created, run, papers, decided, promoted, drift, rolledBack,
                   job, served, chosen, nFailures>>

RunUnlabeledDrift ==
    /\ nAdminOps < MaxAdminOps /\ nAdminOps' = nAdminOps + 1
    /\ LogDrift
    /\ UNCHANGED <<viewVars, created, run, papers, evaluation, decided, promoted, rolledBack,
                   job, served, chosen, nFailures>>

ForgetChampions == ForgetOld /\ UNCHANGED <<lifecycleRows, job, served, chosen, nFailures, nAdminOps>>

\* The worker at a flow.
WorkFlow(f) ==
    \/ CollectLabels(f) \/ BuildTrainingDataset(f) \/ SaveDataset(f)
    \/ TrainCandidate(f) \/ SaveCandidate(f) \/ WritePaper(f) \/ ShadowEvaluate(f)
    \/ ComputePromotionDecision(f) \/ EvaluateDrift(f) \/ FindPromotion(f) \/ AliasSwitch(f)
    \/ FindDrift(f) \/ RollbackSwitch(f) \/ RecordRollback(f) \/ ResolveDrift(f)
    \/ ArchiveRetiredModels(f)

LifecycleNext ==
    \/ \E f \in Flows : EnqueueFlow(f) \/ WorkFlow(f) \/ LoseAttempt(f)
    \/ \E m \in Models : ManualSwitch(m)
    \/ \E c, m \in Models, verdict \in Verdicts : RecordShadowWindow(c, m, verdict)
    \/ ToggleResolution \/ RunUnlabeledDrift \/ ForgetChampions

LifecycleSpec == LifecycleInit /\ [][LifecycleNext]_lifecycleVars

\* A job whose children are done is delivered to a worker, and worked on.
LifecycleFairness == \A f \in Flows : WF_lifecycleVars(WorkFlow(f))

(* ---- properties ---- *)

\* Every promotion decision compares a model that has served as champion or as
\* the fallback, perhaps not any more, with a challenger the flow trained, on a window
\* recorded for this pair.
PromotionsAreComparisons ==
    \A pair \in decided :
       /\ pair[1] \in served /\ pair[2] \in created
       /\ evaluation[pair] # "none"

\* Whatever flows, rollbacks and lost attempts overlap, the champion, once there
\* is one, is the base model, a challenger that a decision promoted, or an
\* administrator's choice.
ChampionHasACause ==
    champion \in {NoChampion, Base} \/ champion \in chosen \/ \E pair \in decided : pair[2] = champion

\* A drift event is closed only after a rollback that names it was recorded,
\* also when the job is lost halfway and repeated.
ResolvedDriftWasRolledBack ==
    \A d \in Drifts : drift[d] = "resolved" => d \in rolledBack

\* A model is registered only with its backtest and its calibration, although
\* the three jobs share nothing but the training run.
RegisteredModelsAreBacked ==
    papers["registerCandidate"] \subseteq papers["backtestCandidate"] \cap papers["calibrateCandidate"]

\* Every flow ends: its last job is done, or a job has used up its attempts.
FlowsEnd == <>[](\A f \in Flows : job[f] = NoJob \/ Over(job[f], LifecycleJobs))
=============================================================================
