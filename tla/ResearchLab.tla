----------------------------- MODULE ResearchLab -----------------------------
(* The flows of ResearchLabOrchestrationService over one research run.  The   *)
(* run is identified by project, experiment, window, data and seed, the flow  *)
(* also by the type of search and the number of trials: flows that differ     *)
(* only there share the row of the run, its trials and its candidates, and    *)
(* their stages interleave.  Posting a request again resets the row, while    *)
(* BullMQ keeps the jobs it has.                                              *)
(* The trials of one job are one step: every row has a key of its own and a   *)
(* repeated attempt writes them all again.  The posts name one strategy       *)
(* configuration, so a candidate is known by its best trial.                  *)
EXTENDS JobFlow

CONSTANTS
    Searches,       \* the flows of the run: one per type of search
    Trials,         \* the trial numbers of a plan
    MaxPosts,       \* bound: requests posted
    MaxLosses       \* bound: attempts and posts that throw or are lost

ASSUME ResearchAssumption ==
    Nothing \notin Trials /\ MaxPosts \in Nat /\ MaxLosses \in Nat

VARIABLES
    labRun,         \* the run: its status, and the search whose space it names
    posts,          \* search -> posts that have written the run and not queued jobs
    stage,          \* search -> its flow
    plan,           \* the search whose plan the trials are keyed by
    tried,          \* the trials that have metrics
    pruned,         \* the trials marked as pruned
    robust,         \* the latest robustness run: none, TRUE if it meets the gate
    candidates,     \* best trial -> the robustness run of the candidate, if there is one
    newest,         \* the best trial of the candidate created last
    requested,      \* best trials of the promotion requests that wait for a decision
    approved,       \* best trials of the requests the gate approved
    reposted,       \* a request was posted again
    unqueued,       \* a post ended before its jobs were queued
    lost,           \* a worker was lost at a last attempt, so no listener ran
    nPosts, nLosses

labRows == <<plan, tried, pruned, robust, candidates, newest, requested, approved>>
posted == <<posts, nPosts, reposted, unqueued>>
labVars == <<labRun, posted, stage, labRows, lost, nLosses>>

ResearchStages == <<"freezeDataset", "generateConfigSet", "runTrial", "simulateTrial",
                    "aggregateTrialMetrics", "runRobustnessChecks", "registerPolicyCandidate",
                    "evaluatePromotionGate", "exportArtifacts">>

\* The best trial of a candidate, which may have none.
Bests == Trials \cup {Nothing}
Checks == {"none", "passed", "failed"}

PostTypeOK ==
    /\ posts \in [Searches -> Nat] /\ nPosts \in 0..MaxPosts
    /\ reposted \in BOOLEAN /\ unqueued \in BOOLEAN

ResearchTypeOK ==
    /\ labRun \in [status : {"none", "running", "succeeded", "failed"},
                   space : Searches \cup {Nothing}]
    /\ stage \in [Searches -> [nr : 0..Len(ResearchStages) + 1, step : {"start", "requested"},
                               tries : 0..Attempts, held : Bests]]
    /\ plan \in Searches \cup {Nothing}
    /\ tried \subseteq Trials /\ pruned \subseteq Trials
    /\ robust \in Checks /\ candidates \in [Bests -> Checks]
    /\ newest \in Bests \cup {"none"}
    /\ requested \subseteq Bests /\ approved \subseteq Bests
    /\ PostTypeOK
    /\ lost \in BOOLEAN /\ nLosses \in 0..MaxLosses

ResearchInit ==
    /\ labRun = [status |-> "none", space |-> Nothing]
    /\ stage = [s \in Searches |-> NoJob]
    /\ plan = Nothing /\ tried = {} /\ pruned = {} /\ robust = "none"
    /\ candidates = [b \in Bests |-> "none"] /\ newest = "none"
    /\ requested = {} /\ approved = {}
    /\ posts = [s \in Searches |-> 0] /\ nPosts = 0
    /\ reposted = FALSE /\ unqueued = FALSE
    /\ lost = FALSE /\ nLosses = 0

\* Mutant of AtStage: the attempts are not counted.
AtStageUncounted(s, name, step) ==
    /\ stage[s].nr \in DOMAIN ResearchStages /\ ResearchStages[stage[s].nr] = name
    /\ stage[s].step = step

AtStage(s, name, step) == IsAt(stage[s], ResearchStages, name, step)
EndStage(s) == stage' = [stage EXCEPT ![s] = Done(@)]
FailStage(s) == stage' = [stage EXCEPT ![s] = Failed(@)]

\* The trials there are.
Planned == IF plan = Nothing THEN {} ELSE Trials

(* ---- enqueueResearchFlow() ---- *)

\* The row of the run is created or reset; then nine payloads are validated.
PostRun(s) ==
    /\ nPosts < MaxPosts /\ nPosts' = nPosts + 1
    /\ labRun' = [status |-> "running", space |-> Nothing]
    /\ posts' = [posts EXCEPT ![s] = @ + 1]
    /\ UNCHANGED <<stage, labRows, reposted, unqueued, lost, nLosses>>

\* flow().add(), which leaves jobs that exist as they are.
QueueStages(s) ==
    /\ posts[s] > 0
    /\ posts' = [posts EXCEPT ![s] = @ - 1]
    /\ IF stage[s] = NoJob THEN stage' = [stage EXCEPT ![s] = JobNr(1)] /\ UNCHANGED reposted
                           ELSE reposted' = TRUE /\ UNCHANGED stage
    /\ UNCHANGED <<labRun, labRows, unqueued, lost, nPosts, nLosses>>

\* A validation throws, Redis does not answer, or the process is gone: the row
\* stays as it is.
LosePost(s) ==
    /\ posts[s] > 0
    /\ posts' = [posts EXCEPT ![s] = @ - 1]
    /\ nLosses < MaxLosses /\ nLosses' = nLosses + 1
    /\ unqueued' = TRUE
    /\ UNCHANGED <<labRun, stage, labRows, reposted, lost, nPosts>>

(* ---- the stages ---- *)

FreezeDataset(s) ==
    /\ AtStage(s, "freezeDataset", "start")
    /\ labRun' = [labRun EXCEPT !.status = "running"]
    /\ EndStage(s)
    /\ UNCHANGED <<posted, labRows, lost, nLosses>>

\* A serializable transaction under an advisory lock, retried by the code itself.
GenerateConfigSet(s) ==
    /\ AtStage(s, "generateConfigSet", "start")
    /\ labRun' = [labRun EXCEPT !.space = s]
    /\ EndStage(s)
    /\ UNCHANGED <<posted, labRows, lost, nLosses>>

\* The trials of the search space the run names now.  A run has one trial of a
\* number: the same number under another key makes the attempt throw.
RunTrial(s) ==
    /\ AtStage(s, "runTrial", "start")
    /\ \/ /\ labRun.space = Nothing
          /\ EndStage(s) /\ UNCHANGED <<plan, labRun>>
       \/ /\ labRun.space # Nothing /\ plan \in {Nothing, labRun.space}
          /\ plan' = labRun.space
          /\ EndStage(s) /\ UNCHANGED labRun
       \/ /\ labRun.space # Nothing /\ plan \notin {Nothing, labRun.space}
          /\ FailStage(s) /\ labRun' = [labRun EXCEPT !.status = "failed"]
          /\ UNCHANGED plan
    /\ UNCHANGED <<tried, pruned, robust, candidates, newest, requested, approved,
                   posted, lost, nLosses>>

\* Metrics for every trial of the run; a trial that is pruned stays so.
SimulateTrials(s) ==
    /\ AtStage(s, "simulateTrial", "start")
    /\ tried' = Planned
    /\ \E bad \in SUBSET Planned : pruned' = pruned \cup bad
    /\ EndStage(s)
    /\ UNCHANGED <<labRun, plan, robust, candidates, newest, requested, approved,
                   posted, lost, nLosses>>

\* Scorecards and the summary of the run: nothing later reads them.
AggregateTrialMetrics(s) ==
    /\ AtStage(s, "aggregateTrialMetrics", "start")
    /\ EndStage(s)
    /\ UNCHANGED <<labRun, posted, labRows, lost, nLosses>>

RunRobustnessChecks(s) ==
    /\ AtStage(s, "runRobustnessChecks", "start")
    /\ \E r \in Checks \ {"none"} : robust' = r
    /\ EndStage(s)
    /\ UNCHANGED <<labRun, plan, tried, pruned, candidates, newest, requested, approved,
                   posted, lost, nLosses>>

\* Mutant of Registrable: the filter on pruned trials is dropped.
RegistrableWithPruned == Planned

\* The trials a candidate may be made of, in an order of no meaning.
Registrable == Planned \ pruned

\* A candidate is immutable: the one that exists under the key stays as it is.
RegisterCandidate(best) ==
    IF candidates[best] # "none" THEN UNCHANGED <<candidates, newest>>
    ELSE /\ candidates' = [candidates EXCEPT ![best] = robust]
         /\ newest' = best

RegisterPolicyCandidate(s) ==
    /\ AtStage(s, "registerPolicyCandidate", "start")
    /\ \E best \in Bests :
          /\ best \in Registrable \/ (best = Nothing /\ Registrable = {})
          /\ RegisterCandidate(best)
    /\ EndStage(s)
    /\ UNCHANGED <<labRun, plan, tried, pruned, robust, requested, approved,
                   posted, lost, nLosses>>

\* The request is written before the decision; the registry may be switched off.
RequestPromotion(s) ==
    /\ AtStage(s, "evaluatePromotionGate", "start")
    /\ \/ EndStage(s) /\ UNCHANGED requested
       \/ /\ newest # "none"
          /\ requested' = requested \cup {newest}
          /\ stage' = [stage EXCEPT ![s] = Onward(@, "requested", newest)]
    /\ UNCHANGED <<labRun, plan, tried, pruned, robust, candidates, newest, approved,
                   posted, lost, nLosses>>

\* Mutant of GatePasses: the latest robustness run of the research run.
GatePassesOnLatest(best) == best \in tried /\ robust = "passed"

\* The gate's own conditions: enough turnover, which every trial with metrics
\* has, and the candidate's robustness run; a segment may fail on its own.
GatePasses(best) == best \in tried /\ candidates[best] = "passed"

DecidePromotion(s) ==
    /\ AtStage(s, "evaluatePromotionGate", "requested")
    /\ LET best == stage[s].held IN
       /\ requested' = requested \ {best}
       /\ \/ GatePasses(best) /\ approved' = approved \cup {best}
          \/ UNCHANGED approved
    /\ EndStage(s)
    /\ UNCHANGED <<labRun, plan, tried, pruned, robust, candidates, newest,
                   posted, lost, nLosses>>

\* Mutant of ExportArtifacts: the run is not marked as completed.
ExportOnly(s) ==
    /\ AtStage(s, "exportArtifacts", "start")
    /\ EndStage(s)
    /\ UNCHANGED <<labRun, posted, labRows, lost, nLosses>>

ExportArtifacts(s) ==
    /\ AtStage(s, "exportArtifacts", "start")
    /\ labRun' = [labRun EXCEPT !.status = "succeeded"]
    /\ EndStage(s)
    /\ UNCHANGED <<posted, labRows, lost, nLosses>>

\* An attempt throws, and the listener marks the run as failed; or the worker
\* is lost with it.
LoseStage(s) ==
    /\ Running(stage[s], ResearchStages) /\ FailStage(s)
    /\ nLosses < MaxLosses /\ nLosses' = nLosses + 1
    /\ \/ labRun' = [labRun EXCEPT !.status = "failed"] /\ UNCHANGED lost
       \/ UNCHANGED labRun /\ lost' = (lost \/ stage[s].tries = Attempts - 1)
    /\ UNCHANGED <<labRows, posted>>

WorkStage(s) ==
    \/ FreezeDataset(s) \/ GenerateConfigSet(s) \/ RunTrial(s) \/ SimulateTrials(s)
    \/ AggregateTrialMetrics(s) \/ RunRobustnessChecks(s) \/ RegisterPolicyCandidate(s)
    \/ RequestPromotion(s) \/ DecidePromotion(s) \/ ExportArtifacts(s)

ResearchNext ==
    \E s \in Searches : PostRun(s) \/ QueueStages(s) \/ LosePost(s) \/ WorkStage(s) \/ LoseStage(s)

ResearchSpec == ResearchInit /\ [][ResearchNext]_labVars

\* A post that is not lost goes on, and a job that is ready is worked on.
ResearchFairness == \A s \in Searches : WF_labVars(QueueStages(s) \/ WorkStage(s))

(* ---- properties ---- *)

\* Whatever flows share the run, an approval names a candidate with a trial
\* that was simulated and a robustness run of its own that passed.
ApprovalsRestOnEvidence ==
    \A best \in approved : best \in tried /\ candidates[best] = "passed"

\* With one flow at the run, however often it is repeated, no candidate is made
\* of a trial that was pruned.
Alone == \A s, t \in Searches : stage[s] # NoJob /\ stage[t] # NoJob => s = t
CandidatesAreNotPruned ==
    Alone => \A best \in Trials : candidates[best] # "none" => best \notin pruned

\* A run is closed in the end, succeeded or failed, unless it is posted again,
\* a post fails between the row and the queue, or a worker is lost at a last
\* attempt.
RunEndsClosed == <>[](labRun.status # "running" \/ reposted \/ unqueued \/ lost)
=============================================================================
