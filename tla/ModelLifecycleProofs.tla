------------------------ MODULE ModelLifecycleProofs ------------------------
(* Proofs about ModelLifecycle, for any set of models and flows and any       *)
(* number of drift events, lost attempts and requests of administrators.      *)
EXTENDS ModelLifecycle, TLAPS

USE LifecycleAssumption

-----------------------------------------------------------------------------
(* The inductive invariant.                                                   *)

Promoted(m) == \E pair \in decided : pair[2] = m

\* What a job has read and not yet used still holds when it uses it: a
\* candidate it trained is in the database, a promotion it found was decided,
\* a rollback it recorded is there.
HeldIsTrue(f) ==
    /\ job[f].step = "trained" => job[f].held \in created
    /\ job[f].step = "promoting" => job[f].held \in Models /\ Promoted(job[f].held)
    /\ job[f].step \in {"rolling", "switched", "recorded"} => job[f].held \in Drifts
    /\ job[f].step = "recorded" => job[f].held \in rolledBack

\* The papers of a flow's model are written in the order of its jobs, and its
\* model is not replaced after the first of them.
PapersInOrder(f) ==
    /\ job[f].nr > 4 => run[f].model \in papers["backtestCandidate"] \cup {Nothing}
    /\ job[f].nr > 5 => run[f].model \in papers["calibrateCandidate"] \cup {Nothing}

ChampionInv ==
    /\ servable \subseteq served /\ Base \in served /\ champion \in served \cup {NoChampion}
    /\ Base \in created
    /\ \A f \in Flows : run[f].model \in created \cup {Nothing}
    /\ promoted # Nothing => Promoted(promoted)

LifecycleInv ==
    /\ LifecycleTypeOK
    /\ ChampionInv
    /\ \A f \in Flows : HeldIsTrue(f) /\ PapersInOrder(f)
    /\ PromotionsAreComparisons /\ ChampionHasACause
    /\ ResolvedDriftWasRolledBack /\ RegisteredModelsAreBacked

-----------------------------------------------------------------------------
(* What the jobs' helpers do.                                                 *)

Job == [nr : 0..Len(LifecycleJobs) + 1, step : Steps, tries : 0..Attempts,
        held : Models \cup Drifts \cup {Nothing}]

LEMMA JobsInOrder ==
    /\ Len(LifecycleJobs) = 11 /\ DOMAIN LifecycleJobs = 1..11
    /\ \A n \in 1..11 : /\ LifecycleJobs[n] = "trainCandidate" <=> n = 3
                        /\ LifecycleJobs[n] = "backtestCandidate" <=> n = 4
                        /\ LifecycleJobs[n] = "calibrateCandidate" <=> n = 5
                        /\ LifecycleJobs[n] = "registerCandidate" <=> n = 6
BY DEF LifecycleJobs

\* A job that is at a step has a place and an attempt left.
LEMMA AtAPlace ==
    ASSUME LifecycleTypeOK, NEW f \in Flows, NEW name, NEW step, At(f, name, step)
    PROVE  /\ job[f] \in Job /\ job[f].nr \in 1..11 /\ job[f].tries + 1 \in 0..Attempts
           /\ job[f].step = step /\ LifecycleJobs[job[f].nr] = name
BY JobsInOrder DEF LifecycleTypeOK, Job, At, IsAt, Attempts

\* The other flows' jobs stay what they are.
Others(f) == \A g \in Flows : g # f => job'[g] = job[g]

LEMMA HoldStep ==
    ASSUME LifecycleTypeOK, NEW f \in Flows, NEW step \in Steps,
           NEW value \in Models \cup Drifts \cup {Nothing}, Hold(f, step, value)
    PROVE  /\ job' \in [Flows -> Job] /\ Others(f)
           /\ job'[f].nr = job[f].nr /\ job'[f].step = step /\ job'[f].held = value
<1>1. job \in [Flows -> Job] /\ job[f] \in Job
  BY DEF LifecycleTypeOK, Job
<1>. QED BY <1>1 DEF Job, Hold, Onward, Others

LEMMA FinishStep ==
    ASSUME LifecycleTypeOK, NEW f \in Flows, job[f].nr \in 1..11, Finish(f)
    PROVE  /\ job' \in [Flows -> Job] /\ Others(f)
           /\ job'[f].nr = job[f].nr + 1 /\ job'[f].step = "start"
BY JobsInOrder DEF LifecycleTypeOK, Job, Finish, Done, JobNr, NoJob, Others, Steps, Attempts

LEMMA FailedStep ==
    ASSUME LifecycleTypeOK, NEW f \in Flows, job[f].tries + 1 \in 0..Attempts,
           job' = [job EXCEPT ![f] = Failed(@)]
    PROVE  /\ job' \in [Flows -> Job] /\ Others(f)
           /\ job'[f].nr = job[f].nr /\ job'[f].step = "start"
BY DEF LifecycleTypeOK, Job, Failed, JobNr, NoJob, Others, Steps

LEMMA StartStep ==
    ASSUME LifecycleTypeOK, NEW f \in Flows, job' = [job EXCEPT ![f] = JobNr(1)]
    PROVE  /\ job' \in [Flows -> Job] /\ Others(f)
           /\ job'[f].nr = 1 /\ job'[f].step = "start"
BY JobsInOrder DEF LifecycleTypeOK, Job, JobNr, NoJob, Others, Steps, Attempts

Run == [status : {"none", "running", "succeeded", "failed"}, model : Models \cup {Nothing}]

LEMMA StatusStep ==
    ASSUME LifecycleTypeOK, NEW f \in Flows, NEW status \in {"none", "running", "succeeded", "failed"},
           run' = [run EXCEPT ![f].status = status]
    PROVE  run' \in [Flows -> Run] /\ \A g \in Flows : run'[g].model = run[g].model
<1>1. \A g \in Flows : run[g] \in Run
  BY DEF LifecycleTypeOK, Run
<1>2. [run[f] EXCEPT !.status = status] \in Run /\ [run[f] EXCEPT !.status = status].model = run[f].model
  BY <1>1 DEF Run
<1>3. run' = [run EXCEPT ![f] = [run[f] EXCEPT !.status = status]]
  OBVIOUS
<1>4. run \in [Flows -> Run]
  BY DEF LifecycleTypeOK, Run
<1>. QED BY <1>2, <1>3, <1>4

\* A change of the database keeps copies of what was servable and adds a model
\* that serves already.
LEMMA KeepStep ==
    ASSUME NEW models, models \subseteq served', Base \in served', fallback' = Base,
           champion' \in served' \cup {NoChampion}, Keep(models)
    PROVE  servable' \subseteq served'
BY DEF Keep, Current

LEMMA CrownStep ==
    ASSUME LifecycleInv, NEW m \in Models, Switch(m)
    PROVE  /\ champion' = m /\ fallback' = Base /\ aliasing' \in BOOLEAN
           /\ servable' \subseteq served' /\ served' = served \cup {m} /\ Base \in served
<1>1. /\ champion' = m /\ fallback' = Base /\ aliasing' \in BOOLEAN
      /\ served' = served \cup {m} /\ Base \in served /\ Keep(servable \cup {m})
  BY DEF LifecycleInv, LifecycleTypeOK, ChampionInv, Switch, Crown
<1>2. servable \cup {m} \subseteq served'
  BY <1>1 DEF LifecycleInv, ChampionInv
<1>. QED BY <1>1, <1>2, KeepStep

-----------------------------------------------------------------------------
(* What a step of one flow leaves to the others.                              *)

\* The rows the flows' facts rest on only grow.
Grows ==
    /\ created \subseteq created' /\ decided \subseteq decided' /\ rolledBack \subseteq rolledBack'
    /\ \A p \in Papers : papers[p] \subseteq papers'[p]

LEMMA OthersKeepTheirs ==
    ASSUME LifecycleInv, NEW f \in Flows, Others(f), Grows,
           \A g \in Flows : g # f => run'[g].model = run[g].model,
           HeldIsTrue(f)', PapersInOrder(f)'
    PROVE  \A g \in Flows : HeldIsTrue(g)' /\ PapersInOrder(g)'
<1>. SUFFICES ASSUME NEW g \in Flows, g # f
              PROVE  HeldIsTrue(g)' /\ PapersInOrder(g)'
  OBVIOUS
<1>1. job'[g] = job[g] /\ run'[g].model = run[g].model /\ HeldIsTrue(g) /\ PapersInOrder(g)
  BY DEF LifecycleInv, Others
<1>2. HeldIsTrue(g)'
  BY <1>1 DEF HeldIsTrue, Grows, Promoted
<1>3. PapersInOrder(g)'
  BY <1>1 DEF PapersInOrder, Grows, Papers
<1>. QED BY <1>2, <1>3

\* A step that only moves the job on, and the status of its training run.
LEMMA JobOnly ==
    ASSUME LifecycleInv, NEW f \in Flows, Others(f), job' \in [Flows -> Job],
           UNCHANGED <<viewVars, created, papers, evaluation, decided, promoted, drift, rolledBack,
                       served, chosen>>,
           run' \in [Flows -> Run], \A g \in Flows : run'[g].model = run[g].model,
           nFailures' \in 0..MaxFailures, nAdminOps' \in 0..MaxAdminOps,
           HeldIsTrue(f)', PapersInOrder(f)'
    PROVE  LifecycleInv'
<1>1. Grows
  BY DEF Grows
<1>2. \A g \in Flows : HeldIsTrue(g)' /\ PapersInOrder(g)'
  BY <1>1, OthersKeepTheirs
<1>3. LifecycleTypeOK'
  BY DEF LifecycleInv, LifecycleTypeOK, viewVars, Job, Run
<1>4. ChampionInv'
  BY DEF LifecycleInv, ChampionInv, viewVars, Promoted
<1>5. PromotionsAreComparisons' /\ ChampionHasACause' /\ ResolvedDriftWasRolledBack' /\ RegisteredModelsAreBacked'
  BY DEF LifecycleInv, PromotionsAreComparisons, ChampionHasACause, ResolvedDriftWasRolledBack,
         RegisteredModelsAreBacked, viewVars
<1>. QED BY <1>2, <1>3, <1>4, <1>5 DEF LifecycleInv

\* The same when the rows stay.
LEMMA RunKept ==
    ASSUME LifecycleInv, UNCHANGED lifecycleRows
    PROVE  /\ run' \in [Flows -> Run] /\ \A g \in Flows : run'[g].model = run[g].model
           /\ UNCHANGED <<created, papers, evaluation, decided, promoted, drift, rolledBack>>
BY DEF LifecycleInv, LifecycleTypeOK, lifecycleRows, Run

\* The flow's own facts after its job ended, well or badly, or began.
LEMMA FactsAtStart ==
    ASSUME NEW f \in Flows, job'[f].step = "start", PapersInOrder(f)'
    PROVE  HeldIsTrue(f)' /\ PapersInOrder(f)'
BY DEF HeldIsTrue

-----------------------------------------------------------------------------
(* The steps.                                                                 *)

LEMMA LifecycleInitStep == LifecycleInit => LifecycleInv
<1>. SUFFICES ASSUME LifecycleInit PROVE LifecycleInv
  OBVIOUS
<1>1. LifecycleTypeOK
  BY JobsInOrder DEF LifecycleInit, LifecycleTypeOK, NoJob, Steps, Attempts, Papers
<1>2. ChampionInv
  BY DEF LifecycleInit, ChampionInv
<1>3. \A f \in Flows : HeldIsTrue(f) /\ PapersInOrder(f)
  BY DEF LifecycleInit, HeldIsTrue, PapersInOrder, NoJob
<1>4. PromotionsAreComparisons /\ ChampionHasACause /\ ResolvedDriftWasRolledBack /\ RegisteredModelsAreBacked
  BY DEF LifecycleInit, PromotionsAreComparisons, ChampionHasACause, ResolvedDriftWasRolledBack,
         RegisteredModelsAreBacked, Papers
<1>. QED BY <1>1, <1>2, <1>3, <1>4 DEF LifecycleInv

LEMMA EnqueueStep ==
    ASSUME LifecycleInv, NEW f \in Flows, EnqueueFlow(f)
    PROVE  LifecycleInv'
<1>1. job' \in [Flows -> Job] /\ Others(f) /\ job'[f].nr = 1 /\ job'[f].step = "start"
  BY StartStep DEF EnqueueFlow, LifecycleInv
<1>2. PapersInOrder(f)'
  BY <1>1 DEF PapersInOrder
<1>3. nFailures' \in 0..MaxFailures /\ nAdminOps' \in 0..MaxAdminOps
  BY DEF EnqueueFlow, LifecycleInv, LifecycleTypeOK
<1>. QED BY <1>1, <1>2, <1>3, FactsAtStart, RunKept, JobOnly DEF EnqueueFlow

\* A job that ends without a paper of the flow's model to its name.
LEMMA FinishOnly ==
    ASSUME LifecycleInv, NEW f \in Flows, job[f].nr \in 1..11, Finish(f),
           job[f].nr \notin {4, 5},
           UNCHANGED <<viewVars, lifecycleRows, served, chosen, nFailures, nAdminOps>>
    PROVE  LifecycleInv'
<1>1. job' \in [Flows -> Job] /\ Others(f) /\ job'[f].nr = job[f].nr + 1 /\ job'[f].step = "start"
  BY FinishStep DEF LifecycleInv
<1>2. PapersInOrder(f)'
  BY <1>1 DEF PapersInOrder, LifecycleInv, lifecycleRows
<1>3. nFailures' \in 0..MaxFailures /\ nAdminOps' \in 0..MaxAdminOps
  BY DEF LifecycleInv, LifecycleTypeOK
<1>. QED BY <1>1, <1>2, <1>3, FactsAtStart, RunKept, JobOnly

LEMMA PlainStep ==
    ASSUME LifecycleInv, NEW f \in Flows,
           CollectLabels(f) \/ ArchiveRetiredModels(f)
    PROVE  LifecycleInv'
<1>1. CASE CollectLabels(f)
  <2>1. job[f].nr \in 1..11 /\ LifecycleJobs[job[f].nr] = "collectLabels"
    BY <1>1, AtAPlace DEF CollectLabels, LifecycleInv
  <2>. QED BY <1>1, <2>1, JobsInOrder, FinishOnly DEF CollectLabels
<1>2. CASE ArchiveRetiredModels(f)
  <2>1. job[f].nr \in 1..11 /\ LifecycleJobs[job[f].nr] = "archiveRetiredModels"
    BY <1>2, AtAPlace DEF ArchiveRetiredModels, LifecycleInv
  <2>. QED BY <1>2, <2>1, JobsInOrder, FinishOnly DEF ArchiveRetiredModels
<1>. QED BY <1>1, <1>2

LEMMA FindStep ==
    ASSUME LifecycleInv, NEW f \in Flows,
           FindPromotion(f) \/ FindDrift(f)
    PROVE  LifecycleInv'
<1>1. ASSUME FindPromotion(f) PROVE LifecycleInv'
  <2>1. job[f].nr \in 1..11 /\ LifecycleJobs[job[f].nr] = "aliasSwitch"
    BY <1>1, AtAPlace DEF FindPromotion, LifecycleInv
  <2>2. CASE Finish(f)
    BY <1>1, <2>1, <2>2, JobsInOrder, FinishOnly DEF FindPromotion
  <2>3. CASE promoted # Nothing /\ Hold(f, "promoting", promoted)
    <3>1. promoted \in Models /\ Promoted(promoted)
      BY <2>3 DEF LifecycleInv, LifecycleTypeOK, ChampionInv
    <3>2. /\ job' \in [Flows -> Job] /\ Others(f) /\ job'[f].nr = job[f].nr
          /\ job'[f].step = "promoting" /\ job'[f].held = promoted
      BY <2>3, <3>1, HoldStep DEF LifecycleInv, Steps
    <3>3. HeldIsTrue(f)' /\ PapersInOrder(f)'
      BY <1>1, <3>1, <3>2 DEF HeldIsTrue, PapersInOrder, Promoted, FindPromotion, LifecycleInv, lifecycleRows
    <3>4. nFailures' \in 0..MaxFailures /\ nAdminOps' \in 0..MaxAdminOps
      BY <1>1 DEF FindPromotion, LifecycleInv, LifecycleTypeOK
    <3>. QED BY <1>1, <3>2, <3>3, <3>4, RunKept, JobOnly DEF FindPromotion
  <2>. QED BY <1>1, <2>2, <2>3 DEF FindPromotion
<1>2. ASSUME FindDrift(f) PROVE LifecycleInv'
  <2>1. job[f].nr \in 1..11 /\ LifecycleJobs[job[f].nr] = "rollbackChampion"
    BY <1>2, AtAPlace DEF FindDrift, LifecycleInv
  <2>2. CASE Finish(f)
    BY <1>2, <2>1, <2>2, JobsInOrder, FinishOnly DEF FindDrift
  <2>3. ASSUME NEW d \in OpenDrifts, Hold(f, "rolling", d) PROVE LifecycleInv'
    <3>1. d \in Drifts
      BY DEF OpenDrifts
    <3>2. /\ job' \in [Flows -> Job] /\ Others(f) /\ job'[f].nr = job[f].nr
          /\ job'[f].step = "rolling" /\ job'[f].held = d
      BY <2>3, <3>1, HoldStep DEF LifecycleInv, Steps
    <3>3. HeldIsTrue(f)' /\ PapersInOrder(f)'
      BY <1>2, <3>1, <3>2 DEF HeldIsTrue, PapersInOrder, FindDrift, LifecycleInv, lifecycleRows
    <3>4. nFailures' \in 0..MaxFailures /\ nAdminOps' \in 0..MaxAdminOps
      BY <1>2 DEF FindDrift, LifecycleInv, LifecycleTypeOK
    <3>. QED BY <1>2, <3>2, <3>3, <3>4, RunKept, JobOnly DEF FindDrift
  <2>. QED BY <1>2, <2>2, <2>3 DEF FindDrift
<1>. QED BY <1>1, <1>2

LEMMA DatasetStep ==
    ASSUME LifecycleInv, NEW f \in Flows,
           BuildTrainingDataset(f) \/ SaveDataset(f)
    PROVE  LifecycleInv'
<1>. job \in [Flows -> Job]
  BY DEF LifecycleInv, LifecycleTypeOK, Job
<1>1. ASSUME BuildTrainingDataset(f) PROVE LifecycleInv'
  <2>1. run' \in [Flows -> Run] /\ \A g \in Flows : run'[g].model = run[g].model
    BY <1>1, StatusStep DEF BuildTrainingDataset, LifecycleInv
  <2>2. /\ job' \in [Flows -> Job] /\ Others(f) /\ job'[f].nr = job[f].nr /\ job'[f].step = "built"
    <3>1. job[f].held \in Models \cup Drifts \cup {Nothing}
      BY DEF Job
    <3>. QED BY <1>1, <3>1, HoldStep DEF BuildTrainingDataset, Continue, LifecycleInv, Steps
  <2>3. HeldIsTrue(f)' /\ PapersInOrder(f)'
    BY <1>1, <2>1, <2>2 DEF HeldIsTrue, PapersInOrder, BuildTrainingDataset, LifecycleInv
  <2>4. nFailures' \in 0..MaxFailures /\ nAdminOps' \in 0..MaxAdminOps
    BY <1>1 DEF BuildTrainingDataset, LifecycleInv, LifecycleTypeOK
  <2>. QED BY <1>1, <2>1, <2>2, <2>3, <2>4, JobOnly DEF BuildTrainingDataset
<1>2. ASSUME SaveDataset(f) PROVE LifecycleInv'
  <2>1. run' \in [Flows -> Run] /\ \A g \in Flows : run'[g].model = run[g].model
    BY <1>2, StatusStep DEF SaveDataset, LifecycleInv
  <2>2. job[f].nr \in 1..11 /\ LifecycleJobs[job[f].nr] = "buildTrainingDataset"
    BY <1>2, AtAPlace DEF SaveDataset, LifecycleInv
  <2>3. job' \in [Flows -> Job] /\ Others(f) /\ job'[f].nr = job[f].nr + 1 /\ job'[f].step = "start"
    BY <1>2, <2>2, FinishStep DEF SaveDataset, LifecycleInv
  <2>4. PapersInOrder(f)'
    BY <1>2, <2>1, <2>2, <2>3, JobsInOrder DEF PapersInOrder, SaveDataset, LifecycleInv
  <2>5. nFailures' \in 0..MaxFailures /\ nAdminOps' \in 0..MaxAdminOps
    BY <1>2 DEF SaveDataset, LifecycleInv, LifecycleTypeOK
  <2>. QED BY <1>2, <2>1, <2>3, <2>4, <2>5, FactsAtStart, JobOnly DEF SaveDataset
<1>. QED BY <1>1, <1>2

\* An attempt that ends badly, whether the listener marks its run or not.
LEMMA BadEnd ==
    ASSUME LifecycleInv, NEW f \in Flows, job[f].tries + 1 \in 0..Attempts,
           Throw(f) \/ (job' = [job EXCEPT ![f] = Failed(@)] /\ UNCHANGED run),
           UNCHANGED <<viewVars, created, papers, evaluation, decided, promoted, drift, rolledBack,
                       served, chosen>>,
           nFailures' \in 0..MaxFailures, nAdminOps' \in 0..MaxAdminOps
    PROVE  LifecycleInv'
<1>1. /\ job' \in [Flows -> Job] /\ Others(f) /\ job'[f].nr = job[f].nr /\ job'[f].step = "start"
  BY FailedStep DEF Throw, LifecycleInv
<1>2. run' \in [Flows -> Run] /\ \A g \in Flows : run'[g].model = run[g].model
  <2>1. CASE Throw(f)
    BY <2>1, StatusStep DEF Throw, LifecycleInv
  <2>2. CASE UNCHANGED run
    BY <2>2 DEF LifecycleInv, LifecycleTypeOK, Run
  <2>. QED BY <2>1, <2>2
<1>3. PapersInOrder(f)'
  BY <1>1, <1>2 DEF PapersInOrder, LifecycleInv
<1>. QED BY <1>1, <1>2, <1>3, FactsAtStart, JobOnly

LEMMA LoseStep ==
    ASSUME LifecycleInv, NEW f \in Flows, LoseAttempt(f)
    PROVE  LifecycleInv'
<1>1. job[f].tries + 1 \in 0..Attempts
  BY DEF LifecycleInv, LifecycleTypeOK, LoseAttempt, Running, Attempts
<1>2. nFailures' \in 0..MaxFailures /\ nAdminOps' \in 0..MaxAdminOps
  BY DEF LoseAttempt, LifecycleInv, LifecycleTypeOK
<1>. QED BY <1>1, <1>2, BadEnd DEF LoseAttempt

LEMMA TrainStep ==
    ASSUME LifecycleInv, NEW f \in Flows, TrainCandidate(f)
    PROVE  LifecycleInv'
<1>. /\ job[f].nr \in 1..11 /\ job[f].nr = 3 /\ job[f].tries + 1 \in 0..Attempts
  BY AtAPlace, JobsInOrder DEF TrainCandidate, LifecycleInv
<1>. nFailures' \in 0..MaxFailures /\ nAdminOps' \in 0..MaxAdminOps
  BY DEF TrainCandidate, LifecycleInv, LifecycleTypeOK
<1>1. CASE Throw(f) /\ UNCHANGED created
  BY <1>1, BadEnd DEF TrainCandidate
<1>2. CASE /\ created # Models /\ created' = created \cup {Fresh} /\ Hold(f, "trained", Fresh)
           /\ run' = [run EXCEPT ![f].status = "running"]
  <2>1. Fresh \in Models \ created
    BY <1>2 DEF Fresh, LifecycleInv, LifecycleTypeOK
  <2>2. /\ job' \in [Flows -> Job] /\ Others(f) /\ job'[f].nr = 3
        /\ job'[f].step = "trained" /\ job'[f].held = Fresh
    BY <1>2, <2>1, HoldStep DEF LifecycleInv, Steps
  <2>3. run' \in [Flows -> Run] /\ \A g \in Flows : run'[g].model = run[g].model
    BY <1>2, StatusStep DEF LifecycleInv
  <2>4. HeldIsTrue(f)' /\ PapersInOrder(f)'
    BY <1>2, <2>2 DEF HeldIsTrue, PapersInOrder
  <2>5. Grows
    BY <1>2 DEF Grows, TrainCandidate
  <2>6. \A g \in Flows : HeldIsTrue(g)' /\ PapersInOrder(g)'
    BY <2>2, <2>3, <2>4, <2>5, OthersKeepTheirs
  <2>7. LifecycleTypeOK'
    BY <1>2, <2>1, <2>2, <2>3 DEF TrainCandidate, LifecycleInv, LifecycleTypeOK, viewVars, Job, Run
  <2>8. ChampionInv'
    BY <1>2, <2>3 DEF TrainCandidate, LifecycleInv, ChampionInv, viewVars, Promoted
  <2>9. PromotionsAreComparisons' /\ ChampionHasACause' /\ ResolvedDriftWasRolledBack' /\ RegisteredModelsAreBacked'
    BY <1>2 DEF TrainCandidate, LifecycleInv, PromotionsAreComparisons, ChampionHasACause,
                ResolvedDriftWasRolledBack, RegisteredModelsAreBacked, viewVars
  <2>. QED BY <2>6, <2>7, <2>8, <2>9 DEF LifecycleInv
<1>. QED BY <1>1, <1>2 DEF TrainCandidate

LEMMA SaveCandidateStep ==
    ASSUME LifecycleInv, NEW f \in Flows, SaveCandidate(f)
    PROVE  LifecycleInv'
<1>. /\ job[f].nr \in 1..11 /\ job[f].nr = 3 /\ job[f].step = "trained"
  BY AtAPlace, JobsInOrder DEF SaveCandidate, LifecycleInv
<1>. DEFINE m == job[f].held
<1>1. m \in created /\ m \in Models
  BY DEF LifecycleInv, HeldIsTrue, LifecycleTypeOK
<1>2. job' \in [Flows -> Job] /\ Others(f) /\ job'[f].nr = 4 /\ job'[f].step = "start"
  BY FinishStep DEF SaveCandidate, LifecycleInv
<1>3. run' \in [Flows -> Run] /\ run'[f].model = m /\ \A g \in Flows : g # f => run'[g].model = run[g].model
  BY <1>1 DEF SaveCandidate, LifecycleInv, LifecycleTypeOK, Run
<1>4. Grows
  BY DEF Grows, SaveCandidate
<1>5. PapersInOrder(f)'
  BY <1>2 DEF PapersInOrder
<1>6. \A g \in Flows : HeldIsTrue(g)' /\ PapersInOrder(g)'
  BY <1>2, <1>3, <1>4, <1>5, FactsAtStart, OthersKeepTheirs
<1>7. LifecycleTypeOK'
  BY <1>2, <1>3 DEF SaveCandidate, LifecycleInv, LifecycleTypeOK, viewVars, Job, Run
<1>8. ChampionInv'
  BY <1>1, <1>3 DEF SaveCandidate, LifecycleInv, ChampionInv, viewVars, Promoted
<1>9. PromotionsAreComparisons' /\ ChampionHasACause' /\ ResolvedDriftWasRolledBack' /\ RegisteredModelsAreBacked'
  BY DEF SaveCandidate, LifecycleInv, PromotionsAreComparisons, ChampionHasACause,
         ResolvedDriftWasRolledBack, RegisteredModelsAreBacked, viewVars
<1>. QED BY <1>6, <1>7, <1>8, <1>9 DEF LifecycleInv

LEMMA PaperStep ==
    ASSUME LifecycleInv, NEW f \in Flows, WritePaper(f)
    PROVE  LifecycleInv'
<1>1. PICK p \in Papers : /\ At(f, p, "start")
                          /\ papers' = [papers EXCEPT ![p] = @ \cup ({run[f].model} \ {Nothing})]
  BY DEF WritePaper
<1>2. job[f].nr \in 1..11 /\ LifecycleJobs[job[f].nr] = p
  BY <1>1, AtAPlace DEF LifecycleInv
<1>3. \/ p = "backtestCandidate" /\ job[f].nr = 4
      \/ p = "calibrateCandidate" /\ job[f].nr = 5
      \/ p = "registerCandidate" /\ job[f].nr = 6
  BY <1>2, JobsInOrder DEF Papers
<1>4. job' \in [Flows -> Job] /\ Others(f) /\ job'[f].nr = job[f].nr + 1 /\ job'[f].step = "start"
  BY <1>2, FinishStep DEF WritePaper, LifecycleInv
<1>5. run[f].model \in Models \cup {Nothing} /\ run' = run /\ papers \in [Papers -> SUBSET Models]
  BY DEF LifecycleInv, LifecycleTypeOK, WritePaper
<1>6. /\ papers' \in [Papers -> SUBSET Models]
      /\ run[f].model \in papers'[p] \cup {Nothing}
      /\ \A q \in Papers : papers[q] \subseteq papers'[q] /\ (q # p => papers'[q] = papers[q])
      /\ papers'[p] \subseteq papers[p] \cup ({run[f].model} \ {Nothing})
  BY <1>1, <1>5
<1>7. Grows
  BY <1>6 DEF Grows, WritePaper
<1>8. PapersInOrder(f)'
  BY <1>3, <1>4, <1>5, <1>6 DEF PapersInOrder, LifecycleInv, Papers
<1>9. \A g \in Flows : HeldIsTrue(g)' /\ PapersInOrder(g)'
  BY <1>4, <1>5, <1>7, <1>8, FactsAtStart, OthersKeepTheirs
<1>10. LifecycleTypeOK'
  BY <1>4, <1>5, <1>6 DEF WritePaper, LifecycleInv, LifecycleTypeOK, viewVars, Job
<1>11. ChampionInv' /\ PromotionsAreComparisons' /\ ChampionHasACause' /\ ResolvedDriftWasRolledBack'
  BY DEF WritePaper, LifecycleInv, ChampionInv, Promoted, PromotionsAreComparisons, ChampionHasACause,
         ResolvedDriftWasRolledBack, viewVars
<1>12. RegisteredModelsAreBacked'
  <2>1. CASE p # "registerCandidate"
    BY <2>1, <1>6 DEF RegisteredModelsAreBacked, LifecycleInv, Papers
  <2>2. CASE p = "registerCandidate"
    <3>1. run[f].model \in papers["backtestCandidate"] \cup {Nothing} /\ run[f].model \in papers["calibrateCandidate"] \cup {Nothing}
      BY <2>2, <1>3 DEF LifecycleInv, PapersInOrder
    <3>. QED BY <2>2, <3>1, <1>6 DEF RegisteredModelsAreBacked, LifecycleInv, Papers
  <2>. QED BY <2>1, <2>2
<1>. QED BY <1>9, <1>10, <1>11, <1>12 DEF LifecycleInv

\* A flow's model, while there is one, is a model of the database.
LEMMA ModelOfFlow ==
    ASSUME LifecycleInv, NEW f \in Flows, run[f].model # Nothing
    PROVE  run[f].model \in created /\ run[f].model \in Models
BY DEF LifecycleInv, ChampionInv, LifecycleTypeOK

LEMMA ShadowStep ==
    ASSUME LifecycleInv, NEW f \in Flows, ShadowEvaluate(f)
    PROVE  LifecycleInv'
<1>1. job[f].nr \in 1..11 /\ LifecycleJobs[job[f].nr] = "shadowEvaluateCandidate"
  BY AtAPlace DEF ShadowEvaluate, LifecycleInv
<1>2. job[f].nr \notin {4, 5} /\ Finish(f)
  BY <1>1, JobsInOrder DEF ShadowEvaluate
<1>3. CASE run[f].model = Nothing
  BY <1>1, <1>2, <1>3, FinishOnly DEF ShadowEvaluate, lifecycleRows
<1>4. CASE run[f].model # Nothing
  <2>1. PICK c \in servable : evaluation' = [evaluation EXCEPT ![<<c, run[f].model>>] = "PROMOTE"]
    BY <1>4 DEF ShadowEvaluate
  <2>2. c \in Models /\ run[f].model \in Models
    BY <1>4, ModelOfFlow DEF LifecycleInv, LifecycleTypeOK
  <2>3. /\ evaluation' \in [Models \X Models -> Verdicts \cup {"none"}]
        /\ \A pair \in Models \X Models : evaluation[pair] # "none" => evaluation'[pair] # "none"
    BY <2>1, <2>2 DEF LifecycleInv, LifecycleTypeOK, Verdicts
  <2>4. job' \in [Flows -> Job] /\ Others(f) /\ job'[f].nr = job[f].nr + 1 /\ job'[f].step = "start"
    BY <1>1, <1>2, FinishStep DEF LifecycleInv
  <2>5. PapersInOrder(f)'
    BY <1>1, <1>2, <2>4 DEF PapersInOrder, ShadowEvaluate, LifecycleInv
  <2>6. Grows
    BY DEF Grows, ShadowEvaluate
  <2>7. \A g \in Flows : HeldIsTrue(g)' /\ PapersInOrder(g)'
    BY <2>4, <2>5, <2>6, FactsAtStart, OthersKeepTheirs DEF ShadowEvaluate
  <2>8. LifecycleTypeOK'
    BY <2>3, <2>4 DEF ShadowEvaluate, LifecycleInv, LifecycleTypeOK, viewVars, Job
  <2>9. PromotionsAreComparisons'
    BY <2>3 DEF ShadowEvaluate, LifecycleInv, LifecycleTypeOK, PromotionsAreComparisons
  <2>10. ChampionInv' /\ ChampionHasACause' /\ ResolvedDriftWasRolledBack' /\ RegisteredModelsAreBacked'
    BY DEF ShadowEvaluate, LifecycleInv, ChampionInv, Promoted, ChampionHasACause,
           ResolvedDriftWasRolledBack, RegisteredModelsAreBacked, viewVars
  <2>. QED BY <2>7, <2>8, <2>9, <2>10 DEF LifecycleInv
<1>. QED BY <1>3, <1>4

\* The decision compares a model that was champion with the flow's own.
LEMMA DecisionRows ==
    ASSUME LifecycleInv, NEW f \in Flows, run[f].model # Nothing, NEW c \in servable,
           IF evaluation[<<c, run[f].model>>] = "PROMOTE" THEN Promote(c, run[f].model)
                                                          ELSE UNCHANGED <<decided, promoted>>
    PROVE  /\ decided \subseteq decided' /\ decided' \subseteq Models \X Models
           /\ promoted' \in Models \cup {Nothing}
           /\ promoted' # Nothing => \E pair \in decided' : pair[2] = promoted'
           /\ \A pair \in decided' : pair[1] \in served /\ pair[2] \in created /\ evaluation[pair] # "none"
<1>1. c \in Models /\ c \in served /\ run[f].model \in Models /\ run[f].model \in created
  BY ModelOfFlow DEF LifecycleInv, LifecycleTypeOK, ChampionInv
<1>2. CASE evaluation[<<c, run[f].model>>] = "PROMOTE"
  <2>1. decided' = decided \cup {<<c, run[f].model>>} /\ promoted' = run[f].model
    BY <1>2 DEF Promote
  <2>2. decided' \subseteq Models \X Models
    BY <1>1, <2>1 DEF LifecycleInv, LifecycleTypeOK
  <2>3. \E pair \in decided' : pair[2] = promoted'
    <3>1. <<c, run[f].model>> \in decided' /\ <<c, run[f].model>>[2] = promoted'
      BY <2>1
    <3>. QED BY <3>1
  <2>4. ASSUME NEW pair \in decided'
        PROVE  pair[1] \in served /\ pair[2] \in created /\ evaluation[pair] # "none"
    <3>1. CASE pair \in decided
      BY <3>1 DEF LifecycleInv, PromotionsAreComparisons
    <3>2. CASE pair = <<c, run[f].model>>
      BY <3>2, <1>1, <1>2
    <3>. QED BY <2>1, <3>1, <3>2
  <2>. QED BY <1>1, <2>1, <2>2, <2>3, <2>4
<1>3. CASE evaluation[<<c, run[f].model>>] # "PROMOTE"
  BY <1>3 DEF LifecycleInv, LifecycleTypeOK, PromotionsAreComparisons, ChampionInv, Promoted
<1>. QED BY <1>2, <1>3

LEMMA DecisionStep ==
    ASSUME LifecycleInv, NEW f \in Flows, ComputePromotionDecision(f)
    PROVE  LifecycleInv'
<1>1. job[f].nr \in 1..11 /\ LifecycleJobs[job[f].nr] = "computePromotionDecision" /\ job[f] \in Job
  BY AtAPlace DEF ComputePromotionDecision, LifecycleInv
<1>2. job[f].nr \notin {4, 5}
  BY <1>1, JobsInOrder
<1>3. CASE run[f].model = Nothing
  BY <1>1, <1>2, <1>3, FinishOnly DEF ComputePromotionDecision, lifecycleRows
<1>4. CASE run[f].model # Nothing
  <2>1. PICK c \in servable :
           /\ IF evaluation[<<c, run[f].model>>] = "PROMOTE" THEN Promote(c, run[f].model)
                                                             ELSE UNCHANGED <<decided, promoted>>
           /\ Finish(f) \/ Continue(f, "decided")
    BY <1>4 DEF ComputePromotionDecision, PromotionDecision
  <2>2. /\ decided \subseteq decided' /\ decided' \subseteq Models \X Models
        /\ promoted' \in Models \cup {Nothing}
        /\ promoted' # Nothing => \E pair \in decided' : pair[2] = promoted'
        /\ \A pair \in decided' : pair[1] \in served /\ pair[2] \in created /\ evaluation[pair] # "none"
    BY <1>4, <2>1, DecisionRows
  <2>3. /\ job' \in [Flows -> Job] /\ Others(f) /\ job'[f].nr \in {job[f].nr, job[f].nr + 1}
        /\ job'[f].step \in {"start", "decided"}
    <3>1. CASE Finish(f)
      BY <1>1, <3>1, FinishStep DEF LifecycleInv
    <3>2. CASE Continue(f, "decided")
      <4>1. job[f].held \in Models \cup Drifts \cup {Nothing}
        BY <1>1 DEF Job
      <4>. QED BY <3>2, <4>1, HoldStep DEF Continue, LifecycleInv, Steps
    <3>. QED BY <2>1, <3>1, <3>2
  <2>4. HeldIsTrue(f)'
    BY <2>3 DEF HeldIsTrue
  <2>5. PapersInOrder(f)'
    BY <1>1, <1>2, <2>3 DEF PapersInOrder, ComputePromotionDecision, LifecycleInv, Job
  <2>6. Grows
    BY <2>2 DEF Grows, ComputePromotionDecision
  <2>7. \A g \in Flows : HeldIsTrue(g)' /\ PapersInOrder(g)'
    BY <2>3, <2>4, <2>5, <2>6, OthersKeepTheirs DEF ComputePromotionDecision
  <2>8. LifecycleTypeOK'
    BY <2>2, <2>3 DEF ComputePromotionDecision, LifecycleInv, LifecycleTypeOK, viewVars, Job
  <2>9. ChampionInv' /\ PromotionsAreComparisons'
    BY <2>2 DEF ComputePromotionDecision, LifecycleInv, ChampionInv, Promoted, PromotionsAreComparisons, viewVars
  <2>10. ChampionHasACause' /\ ResolvedDriftWasRolledBack' /\ RegisteredModelsAreBacked'
    BY <2>2 DEF ComputePromotionDecision, LifecycleInv, ChampionHasACause,
                ResolvedDriftWasRolledBack, RegisteredModelsAreBacked, viewVars
  <2>. QED BY <2>7, <2>8, <2>9, <2>10 DEF LifecycleInv
<1>. QED BY <1>3, <1>4

LEMMA DriftRows ==
    ASSUME LifecycleInv, LogDrift
    PROVE  /\ drift' \in [Drifts -> {"none", "open", "resolved"}]
           /\ \A d \in Drifts : drift'[d] = "resolved" => drift[d] = "resolved"
<1>1. CASE UNCHANGED drift
  BY <1>1 DEF LifecycleInv, LifecycleTypeOK
<1>2. ASSUME NEW d \in Drifts, drift' = [drift EXCEPT ![d] = "open"]
      PROVE  /\ drift' \in [Drifts -> {"none", "open", "resolved"}]
             /\ \A e \in Drifts : drift'[e] = "resolved" => drift[e] = "resolved"
  BY <1>2 DEF LifecycleInv, LifecycleTypeOK
<1>. QED BY <1>1, <1>2 DEF LogDrift

LEMMA DriftStep ==
    ASSUME LifecycleInv, NEW f \in Flows, EvaluateDrift(f)
    PROVE  LifecycleInv'
<1>1. job[f].nr \in 1..11 /\ LifecycleJobs[job[f].nr] = "computePromotionDecision"
  BY AtAPlace DEF EvaluateDrift, LifecycleInv
<1>2. job[f].nr \notin {4, 5}
  BY <1>1, JobsInOrder
<1>3. /\ drift' \in [Drifts -> {"none", "open", "resolved"}]
      /\ \A d \in Drifts : drift'[d] = "resolved" => drift[d] = "resolved"
  BY DriftRows DEF EvaluateDrift
<1>4. job' \in [Flows -> Job] /\ Others(f) /\ job'[f].nr = job[f].nr + 1 /\ job'[f].step = "start"
  BY <1>1, FinishStep DEF EvaluateDrift, LifecycleInv
<1>5. PapersInOrder(f)'
  BY <1>1, <1>2, <1>4 DEF PapersInOrder, EvaluateDrift, LifecycleInv
<1>6. Grows
  BY DEF Grows, EvaluateDrift
<1>7. \A g \in Flows : HeldIsTrue(g)' /\ PapersInOrder(g)'
  BY <1>4, <1>5, <1>6, FactsAtStart, OthersKeepTheirs DEF EvaluateDrift
<1>8. LifecycleTypeOK'
  BY <1>3, <1>4 DEF EvaluateDrift, LifecycleInv, LifecycleTypeOK, viewVars, Job
<1>9. ResolvedDriftWasRolledBack'
  BY <1>3 DEF EvaluateDrift, LifecycleInv, ResolvedDriftWasRolledBack
<1>10. ChampionInv' /\ PromotionsAreComparisons' /\ ChampionHasACause' /\ RegisteredModelsAreBacked'
  BY DEF EvaluateDrift, LifecycleInv, ChampionInv, Promoted, PromotionsAreComparisons, ChampionHasACause,
         RegisteredModelsAreBacked, viewVars
<1>. QED BY <1>7, <1>8, <1>9, <1>10 DEF LifecycleInv

\* The champion changes, to a model with a cause; a flow's job may go on with it.
LEMMA SwitchRows ==
    ASSUME LifecycleInv, NEW m \in Models, Switch(m),
           m = Base \/ m \in chosen' \/ Promoted(m),
           UNCHANGED lifecycleRows, chosen \subseteq chosen', chosen' \subseteq Models,
           job' \in [Flows -> Job], nFailures' \in 0..MaxFailures, nAdminOps' \in 0..MaxAdminOps,
           \A g \in Flows : HeldIsTrue(g)' /\ PapersInOrder(g)'
    PROVE  LifecycleInv'
<1>1. /\ champion' = m /\ fallback' = Base /\ aliasing' \in BOOLEAN
      /\ servable' \subseteq served' /\ served' = served \cup {m} /\ Base \in served
  BY CrownStep
<1>2. LifecycleTypeOK'
  BY <1>1 DEF LifecycleInv, LifecycleTypeOK, lifecycleRows, Job
<1>3. ChampionInv'
  BY <1>1 DEF LifecycleInv, ChampionInv, lifecycleRows, Promoted
<1>4. ChampionHasACause'
  BY <1>1 DEF ChampionHasACause, lifecycleRows, Promoted
<1>5. PromotionsAreComparisons' /\ ResolvedDriftWasRolledBack' /\ RegisteredModelsAreBacked'
  BY <1>1 DEF LifecycleInv, PromotionsAreComparisons, ResolvedDriftWasRolledBack,
              RegisteredModelsAreBacked, lifecycleRows
<1>. QED BY <1>2, <1>3, <1>4, <1>5 DEF LifecycleInv

LEMMA AliasSwitchStep ==
    ASSUME LifecycleInv, NEW f \in Flows, AliasSwitch(f)
    PROVE  LifecycleInv'
<1>1. job[f].nr \in 1..11 /\ LifecycleJobs[job[f].nr] = "aliasSwitch" /\ job[f].step = "promoting"
  BY AtAPlace DEF AliasSwitch, LifecycleInv
<1>2. job[f].held \in Models /\ Promoted(job[f].held)
  BY <1>1 DEF LifecycleInv, HeldIsTrue
<1>3. job' \in [Flows -> Job] /\ Others(f) /\ job'[f].nr = job[f].nr + 1 /\ job'[f].step = "start"
  BY <1>1, FinishStep DEF AliasSwitch, LifecycleInv
<1>4. PapersInOrder(f)'
  BY <1>1, <1>3, JobsInOrder DEF PapersInOrder, AliasSwitch, LifecycleInv, lifecycleRows
<1>5. \A g \in Flows : HeldIsTrue(g)' /\ PapersInOrder(g)'
  BY <1>3, <1>4, FactsAtStart, OthersKeepTheirs DEF Grows, AliasSwitch, lifecycleRows
<1>6. chosen' = chosen /\ chosen \subseteq Models /\ nFailures' \in 0..MaxFailures /\ nAdminOps' \in 0..MaxAdminOps
  BY DEF AliasSwitch, LifecycleInv, LifecycleTypeOK
<1>. QED BY <1>2, <1>3, <1>5, <1>6, SwitchRows DEF AliasSwitch

LEMMA RollbackSwitchStep ==
    ASSUME LifecycleInv, NEW f \in Flows, RollbackSwitch(f)
    PROVE  LifecycleInv'
<1>1. job[f].step = "rolling" /\ job[f] \in Job
  BY AtAPlace DEF RollbackSwitch, LifecycleInv
<1>2. job[f].held \in Models \cup Drifts \cup {Nothing} /\ job[f].held \in Drifts
  BY <1>1 DEF LifecycleInv, HeldIsTrue
<1>3. /\ job' \in [Flows -> Job] /\ Others(f) /\ job'[f].nr = job[f].nr
      /\ job'[f].step = "switched" /\ job'[f].held = job[f].held
  BY <1>2, HoldStep DEF RollbackSwitch, Continue, LifecycleInv, Steps
<1>4. HeldIsTrue(f)' /\ PapersInOrder(f)'
  BY <1>2, <1>3 DEF HeldIsTrue, PapersInOrder, RollbackSwitch, LifecycleInv, lifecycleRows
<1>5. \A g \in Flows : HeldIsTrue(g)' /\ PapersInOrder(g)'
  BY <1>3, <1>4, OthersKeepTheirs DEF Grows, RollbackSwitch, lifecycleRows
<1>6. chosen' = chosen /\ chosen \subseteq Models /\ nFailures' \in 0..MaxFailures /\ nAdminOps' \in 0..MaxAdminOps
  BY DEF RollbackSwitch, LifecycleInv, LifecycleTypeOK
<1>. QED BY <1>3, <1>5, <1>6, SwitchRows DEF RollbackSwitch

LEMMA RecordRollbackStep ==
    ASSUME LifecycleInv, NEW f \in Flows, RecordRollback(f)
    PROVE  LifecycleInv'
<1>1. job[f].step = "switched"
  BY AtAPlace DEF RecordRollback, LifecycleInv
<1>2. job[f].held \in Drifts
  BY <1>1 DEF LifecycleInv, HeldIsTrue
<1>3. /\ job' \in [Flows -> Job] /\ Others(f) /\ job'[f].nr = job[f].nr
      /\ job'[f].step = "recorded" /\ job'[f].held = job[f].held
  BY <1>2, HoldStep DEF RecordRollback, Continue, LifecycleInv, Steps
<1>4. HeldIsTrue(f)' /\ PapersInOrder(f)'
  BY <1>2, <1>3 DEF HeldIsTrue, PapersInOrder, RecordRollback, LifecycleInv
<1>5. \A g \in Flows : HeldIsTrue(g)' /\ PapersInOrder(g)'
  BY <1>3, <1>4, OthersKeepTheirs DEF Grows, RecordRollback
<1>6. LifecycleTypeOK'
  BY <1>2, <1>3 DEF RecordRollback, LifecycleInv, LifecycleTypeOK, viewVars, Job
<1>7. ChampionInv' /\ PromotionsAreComparisons' /\ ChampionHasACause' /\ ResolvedDriftWasRolledBack'
      /\ RegisteredModelsAreBacked'
  BY DEF RecordRollback, LifecycleInv, ChampionInv, Promoted, PromotionsAreComparisons, ChampionHasACause,
         ResolvedDriftWasRolledBack, RegisteredModelsAreBacked, viewVars
<1>. QED BY <1>5, <1>6, <1>7 DEF LifecycleInv

LEMMA ResolveDriftStep ==
    ASSUME LifecycleInv, NEW f \in Flows, ResolveDrift(f)
    PROVE  LifecycleInv'
<1>1. job[f].nr \in 1..11 /\ LifecycleJobs[job[f].nr] = "rollbackChampion" /\ job[f].step = "recorded"
  BY AtAPlace DEF ResolveDrift, LifecycleInv
<1>2. job[f].held \in Drifts /\ job[f].held \in rolledBack
  BY <1>1 DEF LifecycleInv, HeldIsTrue
<1>3. job' \in [Flows -> Job] /\ Others(f) /\ job'[f].nr = job[f].nr + 1 /\ job'[f].step = "start"
  BY <1>1, FinishStep DEF ResolveDrift, LifecycleInv
<1>4. PapersInOrder(f)'
  BY <1>1, <1>3, JobsInOrder DEF PapersInOrder, ResolveDrift, LifecycleInv
<1>5. \A g \in Flows : HeldIsTrue(g)' /\ PapersInOrder(g)'
  BY <1>3, <1>4, FactsAtStart, OthersKeepTheirs DEF Grows, ResolveDrift
<1>6. LifecycleTypeOK'
  BY <1>2, <1>3 DEF ResolveDrift, LifecycleInv, LifecycleTypeOK, viewVars, Job
<1>7. ResolvedDriftWasRolledBack'
  BY <1>2 DEF ResolveDrift, LifecycleInv, LifecycleTypeOK, ResolvedDriftWasRolledBack
<1>8. ChampionInv' /\ PromotionsAreComparisons' /\ ChampionHasACause' /\ RegisteredModelsAreBacked'
  BY DEF ResolveDrift, LifecycleInv, ChampionInv, Promoted, PromotionsAreComparisons, ChampionHasACause,
         RegisteredModelsAreBacked, viewVars
<1>. QED BY <1>5, <1>6, <1>7, <1>8 DEF LifecycleInv

LEMMA FlowStep ==
    ASSUME LifecycleInv, NEW f \in Flows, EnqueueFlow(f) \/ WorkFlow(f) \/ LoseAttempt(f)
    PROVE  LifecycleInv'
BY EnqueueStep, PlainStep, DatasetStep, TrainStep, SaveCandidateStep, PaperStep, ShadowStep, DecisionStep,
   DriftStep, FindStep, AliasSwitchStep, RollbackSwitchStep, RecordRollbackStep, ResolveDriftStep, LoseStep
   DEF WorkFlow

\* A step that leaves the flows, their models and papers alone.
LEMMA FlowsRest ==
    ASSUME LifecycleInv, UNCHANGED <<job, run, created, papers, decided, rolledBack>>
    PROVE  job' \in [Flows -> Job] /\ \A g \in Flows : HeldIsTrue(g)' /\ PapersInOrder(g)'
BY DEF LifecycleInv, LifecycleTypeOK, Job, HeldIsTrue, PapersInOrder, Promoted

LEMMA ManualSwitchStep ==
    ASSUME LifecycleInv, NEW m \in Models, ManualSwitch(m)
    PROVE  LifecycleInv'
<1>1. job' \in [Flows -> Job] /\ \A g \in Flows : HeldIsTrue(g)' /\ PapersInOrder(g)'
  BY FlowsRest DEF ManualSwitch, lifecycleRows
<1>2. /\ chosen' = chosen \cup {m} /\ chosen \subseteq Models
      /\ nFailures' \in 0..MaxFailures /\ nAdminOps' \in 0..MaxAdminOps
  BY DEF ManualSwitch, LifecycleInv, LifecycleTypeOK
<1>. QED BY <1>1, <1>2, SwitchRows DEF ManualSwitch

LEMMA ToggleStep ==
    ASSUME LifecycleInv, ToggleResolution
    PROVE  LifecycleInv'
<1>1. job' \in [Flows -> Job] /\ \A g \in Flows : HeldIsTrue(g)' /\ PapersInOrder(g)'
  BY FlowsRest DEF ToggleResolution, lifecycleRows
<1>2. /\ champion' = champion /\ fallback' = Base /\ aliasing' \in BOOLEAN
      /\ served' = served /\ nAdminOps' \in 0..MaxAdminOps /\ Keep(servable)
  BY DEF ToggleResolution, Toggle, LifecycleInv, LifecycleTypeOK
<1>3. servable' \subseteq served'
  BY <1>2, KeepStep DEF LifecycleInv, ChampionInv
<1>4. LifecycleTypeOK'
  BY <1>1, <1>2, <1>3 DEF ToggleResolution, LifecycleInv, LifecycleTypeOK, lifecycleRows, Job
<1>5. ChampionInv' /\ PromotionsAreComparisons' /\ ChampionHasACause'
  BY <1>2, <1>3 DEF ToggleResolution, LifecycleInv, ChampionInv, Promoted, PromotionsAreComparisons,
                    ChampionHasACause, lifecycleRows
<1>6. ResolvedDriftWasRolledBack' /\ RegisteredModelsAreBacked'
  BY DEF ToggleResolution, LifecycleInv, ResolvedDriftWasRolledBack, RegisteredModelsAreBacked, lifecycleRows
<1>. QED BY <1>1, <1>4, <1>5, <1>6 DEF LifecycleInv

LEMMA WindowStep ==
    ASSUME LifecycleInv, NEW c \in Models, NEW m \in Models, NEW verdict \in Verdicts,
           RecordShadowWindow(c, m, verdict)
    PROVE  LifecycleInv'
<1>1. job' \in [Flows -> Job] /\ \A g \in Flows : HeldIsTrue(g)' /\ PapersInOrder(g)'
  BY FlowsRest DEF RecordShadowWindow
<1>2. /\ evaluation' \in [Models \X Models -> Verdicts \cup {"none"}]
      /\ \A pair \in Models \X Models : evaluation[pair] # "none" => evaluation'[pair] # "none"
  BY DEF RecordShadowWindow, LifecycleInv, LifecycleTypeOK, Verdicts
<1>3. LifecycleTypeOK'
  BY <1>1, <1>2 DEF RecordShadowWindow, LifecycleInv, LifecycleTypeOK, viewVars, Job
<1>4. PromotionsAreComparisons'
  BY <1>2 DEF RecordShadowWindow, LifecycleInv, LifecycleTypeOK, PromotionsAreComparisons
<1>5. ChampionInv' /\ ChampionHasACause' /\ ResolvedDriftWasRolledBack' /\ RegisteredModelsAreBacked'
  BY DEF RecordShadowWindow, LifecycleInv, ChampionInv, Promoted, ChampionHasACause,
         ResolvedDriftWasRolledBack, RegisteredModelsAreBacked, viewVars
<1>. QED BY <1>1, <1>3, <1>4, <1>5 DEF LifecycleInv

LEMMA UnlabeledDriftStep ==
    ASSUME LifecycleInv, RunUnlabeledDrift
    PROVE  LifecycleInv'
<1>1. job' \in [Flows -> Job] /\ \A g \in Flows : HeldIsTrue(g)' /\ PapersInOrder(g)'
  BY FlowsRest DEF RunUnlabeledDrift
<1>2. /\ drift' \in [Drifts -> {"none", "open", "resolved"}]
      /\ \A d \in Drifts : drift'[d] = "resolved" => drift[d] = "resolved"
  BY DriftRows DEF RunUnlabeledDrift
<1>3. LifecycleTypeOK'
  BY <1>1, <1>2 DEF RunUnlabeledDrift, LifecycleInv, LifecycleTypeOK, viewVars, Job
<1>4. ResolvedDriftWasRolledBack'
  BY <1>2 DEF RunUnlabeledDrift, LifecycleInv, ResolvedDriftWasRolledBack
<1>5. ChampionInv' /\ PromotionsAreComparisons' /\ ChampionHasACause' /\ RegisteredModelsAreBacked'
  BY DEF RunUnlabeledDrift, LifecycleInv, ChampionInv, Promoted, PromotionsAreComparisons, ChampionHasACause,
         RegisteredModelsAreBacked, viewVars
<1>. QED BY <1>1, <1>3, <1>4, <1>5 DEF LifecycleInv

LEMMA ForgetStep ==
    ASSUME LifecycleInv, ForgetChampions
    PROVE  LifecycleInv'
<1>1. job' \in [Flows -> Job] /\ \A g \in Flows : HeldIsTrue(g)' /\ PapersInOrder(g)'
  BY FlowsRest DEF ForgetChampions, lifecycleRows
<1>2. /\ UNCHANGED <<champion, fallback, aliasing>>
      /\ servable' \subseteq servable \cup {Current} /\ Current \in served
  BY DEF ForgetChampions, ForgetOld, Current, LifecycleInv, LifecycleTypeOK, ChampionInv
<1>3. LifecycleTypeOK' /\ ChampionInv'
  BY <1>1, <1>2 DEF ForgetChampions, LifecycleInv, LifecycleTypeOK, ChampionInv, Promoted, lifecycleRows, Job
<1>4. PromotionsAreComparisons' /\ ChampionHasACause' /\ ResolvedDriftWasRolledBack' /\ RegisteredModelsAreBacked'
  BY <1>2 DEF ForgetChampions, LifecycleInv, PromotionsAreComparisons, ChampionHasACause,
              ResolvedDriftWasRolledBack, RegisteredModelsAreBacked, lifecycleRows
<1>. QED BY <1>1, <1>3, <1>4 DEF LifecycleInv

LEMMA StutterStep ==
    ASSUME LifecycleInv, UNCHANGED lifecycleVars
    PROVE  LifecycleInv'
<1>1. job' \in [Flows -> Job] /\ \A g \in Flows : HeldIsTrue(g)' /\ PapersInOrder(g)'
  BY FlowsRest DEF lifecycleVars, lifecycleRows
<1>2. LifecycleTypeOK' /\ ChampionInv'
  BY DEF lifecycleVars, viewVars, lifecycleRows, LifecycleInv, LifecycleTypeOK, ChampionInv, Promoted
<1>3. PromotionsAreComparisons' /\ ChampionHasACause' /\ ResolvedDriftWasRolledBack' /\ RegisteredModelsAreBacked'
  BY DEF lifecycleVars, viewVars, lifecycleRows, LifecycleInv, PromotionsAreComparisons, ChampionHasACause,
         ResolvedDriftWasRolledBack, RegisteredModelsAreBacked
<1>. QED BY <1>1, <1>2, <1>3 DEF LifecycleInv

LEMMA LifecycleNextStep ==
    ASSUME LifecycleInv, [LifecycleNext]_lifecycleVars
    PROVE  LifecycleInv'
BY FlowStep, ManualSwitchStep, ToggleStep, WindowStep, UnlabeledDriftStep, ForgetStep, StutterStep
   DEF LifecycleNext

LEMMA LifecycleInvariance == LifecycleSpec => []LifecycleInv
<1>1. LifecycleInit => LifecycleInv
  BY LifecycleInitStep
<1>2. LifecycleInv /\ [LifecycleNext]_lifecycleVars => LifecycleInv'
  BY LifecycleNextStep
<1>. QED BY <1>1, <1>2, PTL DEF LifecycleSpec

-----------------------------------------------------------------------------
(* The theorems.                                                              *)

\* The rows of the lifecycle and the flows' jobs stay well formed.
THEOREM LifecycleTypes == LifecycleSpec => []LifecycleTypeOK
<1>1. LifecycleInv => LifecycleTypeOK
  BY DEF LifecycleInv
<1>. QED BY <1>1, LifecycleInvariance, PTL

\* computePromotionDecision never promotes but on a window of a challenger the
\* flows trained against a model that has served, whatever copy of the champion
\* it was given.
THEOREM DecisionsRestOnWindows == LifecycleSpec => []PromotionsAreComparisons
<1>1. LifecycleInv => PromotionsAreComparisons
  BY DEF LifecycleInv
<1>. QED BY <1>1, LifecycleInvariance, PTL

\* The flows' aliasSwitch and rollbackChampion jobs, interleaved and repeated
\* at will, only ever install a promoted challenger or the base model.
THEOREM ChampionsHaveCauses == LifecycleSpec => []ChampionHasACause
<1>1. LifecycleInv => ChampionHasACause
  BY DEF LifecycleInv
<1>. QED BY <1>1, LifecycleInvariance, PTL

\* rollbackChampion may be lost between any two of its writes: a drift event it
\* closed has its rollback event all the same.
THEOREM ClosedDriftsWereRolledBack == LifecycleSpec => []ResolvedDriftWasRolledBack
<1>1. LifecycleInv => ResolvedDriftWasRolledBack
  BY DEF LifecycleInv
<1>. QED BY <1>1, LifecycleInvariance, PTL

\* The order of the jobs alone makes a registered model one that was backtested
\* and calibrated.
THEOREM RegistrationsAreBacked == LifecycleSpec => []RegisteredModelsAreBacked
<1>1. LifecycleInv => RegisteredModelsAreBacked
  BY DEF LifecycleInv
<1>. QED BY <1>1, LifecycleInvariance, PTL
=============================================================================
