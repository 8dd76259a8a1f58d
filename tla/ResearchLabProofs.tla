------------------------- MODULE ResearchLabProofs -------------------------
(* Proofs about ResearchLab, for any set of searches and trials and any       *)
(* number of posts and lost attempts.                                         *)
EXTENDS ResearchLab, TLAPS

USE ResearchAssumption

-----------------------------------------------------------------------------
(* The inductive invariant.                                                   *)

\* Trials have metrics only under a plan, and a plan is never given up.
EvidenceInv == tried \subseteq Planned /\ ApprovalsRestOnEvidence

\* The flow that is alone at its run has no candidate before its seventh stage.
AloneInv ==
    Alone /\ (\A s \in Searches : stage[s].nr <= 7) => \A best \in Bests : candidates[best] = "none"

ResearchInv == ResearchTypeOK /\ EvidenceInv /\ AloneInv /\ CandidatesAreNotPruned

-----------------------------------------------------------------------------
(* What the stages' helpers do.                                               *)

Stage == [nr : 0..Len(ResearchStages) + 1, step : {"start", "requested"}, tries : 0..Attempts, held : Bests]
LabRun == [status : {"none", "running", "succeeded", "failed"}, space : Searches \cup {Nothing}]

LEMMA StagesInOrder ==
    /\ Len(ResearchStages) = 9 /\ DOMAIN ResearchStages = 1..9
    /\ \A n \in 1..9 : /\ ResearchStages[n] = "simulateTrial" <=> n = 4
                       /\ ResearchStages[n] = "registerPolicyCandidate" <=> n = 7
BY DEF ResearchStages

\* The flow moves on, and the others stay where they are.
Moves(s) ==
    /\ stage' \in [Searches -> Stage]
    /\ stage'[s].nr \in {stage[s].nr, stage[s].nr + 1} /\ stage'[s].nr >= 1
    /\ \A t \in Searches : t # s => stage'[t] = stage[t]

LEMMA NewStages ==
    ASSUME NEW n \in 0..10, NEW tries \in 0..Attempts
    PROVE  [nr |-> n, step |-> "start", tries |-> tries, held |-> Nothing] \in Stage
BY StagesInOrder DEF Stage, Bests

LEMMA AtAStage ==
    ASSUME ResearchTypeOK, NEW s \in Searches, NEW name, NEW step, AtStage(s, name, step)
    PROVE  /\ stage[s] \in Stage /\ stage[s].nr \in 1..9 /\ stage[s].tries + 1 \in 0..Attempts
           /\ stage[s].step = step /\ ResearchStages[stage[s].nr] = name
BY StagesInOrder DEF ResearchTypeOK, Stage, AtStage, IsAt, Attempts

LEMMA EndStep ==
    ASSUME ResearchTypeOK, NEW s \in Searches, stage[s].nr \in 1..9, EndStage(s)
    PROVE  Moves(s) /\ stage'[s].nr = stage[s].nr + 1
<1>1. Done(stage[s]) \in Stage /\ Done(stage[s]).nr = stage[s].nr + 1
  <2>1. Done(stage[s]) = [nr |-> stage[s].nr + 1, step |-> "start", tries |-> 0, held |-> Nothing]
    BY DEF Done, JobNr, NoJob
  <2>. QED BY <2>1, NewStages DEF Attempts
<1>2. stage \in [Searches -> Stage]
  BY DEF ResearchTypeOK, Stage
<1>3. stage' = [stage EXCEPT ![s] = Done(stage[s])]
  BY DEF EndStage
<1>. QED BY <1>1, <1>2, <1>3 DEF Moves

LEMMA FailStep ==
    ASSUME ResearchTypeOK, NEW s \in Searches, stage[s].nr \in 1..9, stage[s].tries + 1 \in 0..Attempts,
           FailStage(s)
    PROVE  Moves(s)
<1>1. Failed(stage[s]) \in Stage /\ Failed(stage[s]).nr = stage[s].nr
  <2>1. stage[s].nr \in 0..10
    OBVIOUS
  <2>2. Failed(stage[s]) = [nr |-> stage[s].nr, step |-> "start", tries |-> stage[s].tries + 1, held |-> Nothing]
    <3>1. JobNr(stage[s].nr) = [nr |-> stage[s].nr, step |-> "start", tries |-> 0, held |-> Nothing]
      BY DEF JobNr, NoJob
    <3>. QED BY <3>1 DEF Failed
  <2>3. [nr |-> stage[s].nr, step |-> "start", tries |-> stage[s].tries + 1, held |-> Nothing] \in Stage
    BY <2>1, NewStages
  <2>. QED BY <2>2, <2>3
<1>2. stage \in [Searches -> Stage]
  BY DEF ResearchTypeOK, Stage
<1>3. stage' = [stage EXCEPT ![s] = Failed(stage[s])]
  BY DEF FailStage
<1>. QED BY <1>1, <1>2, <1>3 DEF Moves

LEMMA RequestedStep ==
    ASSUME ResearchTypeOK, NEW s \in Searches, stage[s].nr \in 1..9, NEW best \in Bests,
           stage' = [stage EXCEPT ![s] = Onward(@, "requested", best)]
    PROVE  Moves(s)
<1>1. stage \in [Searches -> Stage]
  BY DEF ResearchTypeOK, Stage
<1>2. Onward(stage[s], "requested", best) \in Stage /\ Onward(stage[s], "requested", best).nr = stage[s].nr
  BY <1>1 DEF Onward, Stage
<1>. QED BY <1>1, <1>2 DEF Moves

\* A flow once started is never NoJob again: whoever is alone was alone before.
LEMMA StillAlone ==
    ASSUME ResearchTypeOK, NEW s \in Searches, Moves(s), Alone'
    PROVE  Alone /\ \A t \in Searches : stage[t].nr <= stage'[t].nr
<1>1. \A t \in Searches : stage[t] # NoJob => stage'[t] # NoJob
  BY DEF Moves, NoJob
<1>2. Alone
  BY <1>1 DEF Alone
<1>3. \A t \in Searches : stage[t].nr \in Nat
  BY StagesInOrder DEF ResearchTypeOK
<1>4. \A t \in Searches : stage[t].nr <= stage'[t].nr
  BY <1>3 DEF Moves
<1>. QED BY <1>2, <1>4

\* The others of a flow that is alone have no jobs.
LEMMA AloneAtLow ==
    ASSUME ResearchTypeOK, NEW s \in Searches, stage[s].nr \in 1..7, Alone
    PROVE  \A t \in Searches : stage[t].nr <= 7
<1>1. stage[s] # NoJob
  BY DEF NoJob
<1>2. \A t \in Searches : t # s => stage[t] = NoJob
  BY <1>1 DEF Alone
<1>. QED BY <1>2 DEF NoJob

-----------------------------------------------------------------------------
(* The steps.                                                                 *)

LEMMA ResearchInitStep == ResearchInit => ResearchInv
<1>. SUFFICES ASSUME ResearchInit PROVE ResearchInv
  OBVIOUS
<1>1. ResearchTypeOK
  <2>1. stage \in [Searches -> Stage]
    BY NewStages DEF ResearchInit, NoJob, Attempts
  <2>2. labRun \in LabRun /\ candidates \in [Bests -> Checks]
    BY DEF ResearchInit, LabRun, Checks
  <2>3. /\ plan \in Searches \cup {Nothing} /\ tried \subseteq Trials /\ pruned \subseteq Trials
        /\ robust \in Checks /\ newest \in Bests \cup {"none"}
        /\ requested \subseteq Bests /\ approved \subseteq Bests
        /\ lost \in BOOLEAN
    BY DEF ResearchInit, Bests, Checks
  <2>4. posts \in [Searches -> Nat] /\ reposted \in BOOLEAN /\ unqueued \in BOOLEAN
    BY DEF ResearchInit
  <2>5. nPosts \in 0..MaxPosts /\ nLosses \in 0..MaxLosses
    BY DEF ResearchInit
  <2>. QED BY <2>1, <2>2, <2>3, <2>4, <2>5 DEF ResearchTypeOK, PostTypeOK, Stage, LabRun
<1>2. EvidenceInv /\ AloneInv /\ CandidatesAreNotPruned
  BY DEF ResearchInit, EvidenceInv, ApprovalsRestOnEvidence, AloneInv, CandidatesAreNotPruned
<1>. QED BY <1>1, <1>2 DEF ResearchInv

LEMMA NothingPosted == PostTypeOK /\ UNCHANGED posted => PostTypeOK'
BY DEF PostTypeOK, posted

\* A stage that touches neither metrics nor candidates.
LEMMA StageOnly ==
    ASSUME ResearchInv, NEW s \in Searches, Moves(s), labRun' \in LabRun,
           plan' \in Searches \cup {Nothing}, plan # Nothing => plan' # Nothing, robust' \in Checks,
           requested' \subseteq Bests,
           UNCHANGED <<tried, pruned, candidates, newest, approved>>,
           PostTypeOK', lost' \in BOOLEAN, nLosses' \in 0..MaxLosses
    PROVE  ResearchInv'
<1>1. ResearchTypeOK'
  BY DEF ResearchInv, ResearchTypeOK, Moves, Stage, LabRun
<1>2. EvidenceInv'
  BY DEF ResearchInv, EvidenceInv, ApprovalsRestOnEvidence, Planned
<1>3. ASSUME Alone' PROVE Alone /\ \A t \in Searches : stage[t].nr <= stage'[t].nr
  BY <1>3, StillAlone DEF ResearchInv
<1>4. AloneInv'
  <2>. SUFFICES ASSUME Alone', \A t \in Searches : stage'[t].nr <= 7
                PROVE  \A best \in Bests : candidates'[best] = "none"
    BY DEF AloneInv
  <2>1. \A t \in Searches : stage[t].nr \in Nat /\ stage'[t].nr \in Nat
    BY <1>1, StagesInOrder DEF ResearchInv, ResearchTypeOK
  <2>2. \A t \in Searches : stage[t].nr <= 7
    BY <1>3, <2>1
  <2>. QED BY <1>3, <2>2 DEF ResearchInv, AloneInv
<1>5. CandidatesAreNotPruned'
  BY <1>3 DEF ResearchInv, CandidatesAreNotPruned
<1>. QED BY <1>1, <1>2, <1>4, <1>5 DEF ResearchInv

LEMMA StageAlone ==
    ASSUME ResearchTypeOK, ResearchTypeOK', NEW s \in Searches, Moves(s), Alone',
           \A t \in Searches : stage'[t].nr <= 7
    PROVE  Alone /\ \A t \in Searches : stage[t].nr <= 7
<1>1. \A t \in Searches : stage[t].nr \in Nat /\ stage'[t].nr \in Nat
  BY StagesInOrder DEF ResearchTypeOK
<1>. QED BY <1>1, StillAlone

LEMMA SimulateStep ==
    ASSUME ResearchInv, NEW s \in Searches, SimulateTrials(s)
    PROVE  ResearchInv'
<1>1. stage[s] \in Stage /\ stage[s].nr = 4
  BY AtAStage, StagesInOrder DEF ResearchInv, SimulateTrials
<1>2. Moves(s) /\ stage'[s].nr = 5
  BY <1>1, EndStep DEF ResearchInv, SimulateTrials
<1>3. Planned \subseteq Trials /\ Planned' = Planned
  BY DEF Planned, SimulateTrials
<1>4. ResearchTypeOK'
  BY <1>2, <1>3, NothingPosted DEF ResearchInv, ResearchTypeOK, Moves, Stage, SimulateTrials
<1>5. EvidenceInv'
  BY <1>3 DEF ResearchInv, EvidenceInv, ApprovalsRestOnEvidence, SimulateTrials
<1>6. AloneInv'
  BY <1>2, <1>4, StageAlone DEF ResearchInv, AloneInv, SimulateTrials
<1>7. CandidatesAreNotPruned'
  <2>. SUFFICES ASSUME Alone' PROVE \A best \in Trials : candidates'[best] = "none"
    BY DEF CandidatesAreNotPruned
  <2>1. Alone
    BY <1>2, StillAlone DEF ResearchInv
  <2>2. \A t \in Searches : stage[t].nr <= 7
    BY <1>1, <2>1, AloneAtLow DEF ResearchInv
  <2>. QED BY <2>1, <2>2 DEF ResearchInv, AloneInv, Bests, SimulateTrials
<1>. QED BY <1>4, <1>5, <1>6, <1>7 DEF ResearchInv

LEMMA RegisterStep ==
    ASSUME ResearchInv, NEW s \in Searches, RegisterPolicyCandidate(s)
    PROVE  ResearchInv'
<1>1. stage[s] \in Stage /\ stage[s].nr = 7
  BY AtAStage, StagesInOrder DEF ResearchInv, RegisterPolicyCandidate
<1>2. Moves(s) /\ stage'[s].nr = 8
  BY <1>1, EndStep DEF ResearchInv, RegisterPolicyCandidate
<1>3. PICK best \in Bests : /\ best \in Registrable \/ (best = Nothing /\ Registrable = {})
                            /\ RegisterCandidate(best)
  BY DEF RegisterPolicyCandidate
<1>4. candidates \in [Bests -> Checks] /\ robust \in Checks
  BY DEF ResearchInv, ResearchTypeOK
<1>5. candidates' \in [Bests -> Checks] /\ newest' \in Bests \cup {"none"}
  BY <1>3, <1>4 DEF RegisterCandidate, ResearchInv, ResearchTypeOK
<1>6. \A b \in Bests : candidates[b] # "none" => candidates'[b] = candidates[b]
  BY <1>3, <1>4 DEF RegisterCandidate
<1>7. \A b \in Bests : candidates'[b] # "none" => candidates[b] # "none" \/ b = best
  BY <1>3, <1>4 DEF RegisterCandidate
<1>8. ResearchTypeOK'
  BY <1>2, <1>5, NothingPosted DEF ResearchInv, ResearchTypeOK, Moves, Stage, RegisterPolicyCandidate
<1>9. EvidenceInv'
  <2>1. tried' = tried /\ approved' = approved /\ Planned' = Planned /\ approved \subseteq Bests
    BY DEF RegisterPolicyCandidate, Planned, ResearchInv, ResearchTypeOK
  <2>2. \A b \in approved : b \in tried /\ candidates[b] = "passed"
    BY DEF ResearchInv, EvidenceInv, ApprovalsRestOnEvidence
  <2>3. \A b \in approved : candidates'[b] = "passed"
    BY <1>6, <2>1, <2>2
  <2>. QED BY <2>1, <2>2, <2>3 DEF ResearchInv, EvidenceInv, ApprovalsRestOnEvidence
<1>10. AloneInv'
  <2>1. ~ (stage'[s].nr <= 7)
    BY <1>2
  <2>. QED BY <2>1 DEF AloneInv
<1>11. CandidatesAreNotPruned'
  <2>. SUFFICES ASSUME Alone', NEW b \in Trials, candidates'[b] # "none" PROVE b \notin pruned
    BY DEF CandidatesAreNotPruned, RegisterPolicyCandidate
  <2>1. CASE candidates[b] # "none"
    BY <1>2, <2>1, StillAlone DEF ResearchInv, CandidatesAreNotPruned
  <2>2. CASE b = best
    BY <1>3, <2>2, ResearchAssumption DEF Registrable
  <2>. QED BY <1>7, <2>1, <2>2 DEF Bests
<1>. QED BY <1>8, <1>9, <1>10, <1>11 DEF ResearchInv

LEMMA DecideStep ==
    ASSUME ResearchInv, NEW s \in Searches, DecidePromotion(s)
    PROVE  ResearchInv'
<1>1. stage[s] \in Stage /\ stage[s].nr \in 1..9
  BY AtAStage DEF ResearchInv, DecidePromotion
<1>2. Moves(s)
  BY <1>1, EndStep DEF ResearchInv, DecidePromotion
<1>3. stage[s].held \in Bests
  BY <1>1 DEF Stage
<1>4. /\ requested' = requested \ {stage[s].held}
      /\ \/ GatePasses(stage[s].held) /\ approved' = approved \cup {stage[s].held}
         \/ UNCHANGED approved
  BY DEF DecidePromotion
<1>5. requested' \subseteq Bests /\ approved' \subseteq Bests
  BY <1>3, <1>4 DEF ResearchInv, ResearchTypeOK
<1>6. ResearchTypeOK'
  BY <1>2, <1>5, NothingPosted DEF ResearchInv, ResearchTypeOK, Moves, Stage, DecidePromotion
<1>7. EvidenceInv'
  BY <1>4 DEF ResearchInv, EvidenceInv, ApprovalsRestOnEvidence, GatePasses, Planned, DecidePromotion
<1>8. AloneInv'
  BY <1>2, <1>6, StageAlone DEF ResearchInv, AloneInv, DecidePromotion
<1>9. CandidatesAreNotPruned'
  BY <1>2, StillAlone DEF ResearchInv, CandidatesAreNotPruned, DecidePromotion
<1>. QED BY <1>6, <1>7, <1>8, <1>9 DEF ResearchInv

\* The stages that touch neither metrics nor candidates.
LEMMA OtherStageStep ==
    ASSUME ResearchInv, NEW s \in Searches,
           \/ FreezeDataset(s) \/ GenerateConfigSet(s) \/ RunTrial(s) \/ AggregateTrialMetrics(s)
           \/ RunRobustnessChecks(s) \/ RequestPromotion(s) \/ ExportArtifacts(s)
    PROVE  ResearchInv'
<1>. /\ ResearchTypeOK /\ labRun \in LabRun /\ plan \in Searches \cup {Nothing} /\ robust \in Checks
     /\ requested \subseteq Bests /\ newest \in Bests \cup {"none"}
     /\ lost \in BOOLEAN /\ nLosses \in 0..MaxLosses
  BY DEF ResearchInv, ResearchTypeOK, LabRun
<1>. PostTypeOK'
  BY NothingPosted DEF FreezeDataset, GenerateConfigSet, RunTrial, AggregateTrialMetrics,
         RunRobustnessChecks, RequestPromotion, ExportArtifacts, ResearchInv, ResearchTypeOK
<1>1. CASE FreezeDataset(s)
  <2>1. Moves(s)
    BY <1>1, AtAStage, EndStep DEF FreezeDataset
  <2>. QED BY <1>1, <2>1, StageOnly DEF FreezeDataset, LabRun, labRows
<1>2. CASE GenerateConfigSet(s)
  <2>1. Moves(s)
    BY <1>2, AtAStage, EndStep DEF GenerateConfigSet
  <2>. QED BY <1>2, <2>1, StageOnly DEF GenerateConfigSet, LabRun, labRows
<1>3. CASE RunTrial(s)
  <2>1. stage[s].nr \in 1..9 /\ stage[s].tries + 1 \in 0..Attempts
    BY <1>3, AtAStage DEF RunTrial
  <2>2. Moves(s)
    BY <1>3, <2>1, EndStep, FailStep DEF RunTrial
  <2>3. labRun' \in LabRun /\ plan' \in Searches \cup {Nothing} /\ (plan # Nothing => plan' # Nothing)
    BY <1>3 DEF RunTrial, LabRun
  <2>4. /\ robust' = robust /\ requested' = requested /\ lost' = lost /\ nLosses' = nLosses
        /\ UNCHANGED <<tried, pruned, candidates, newest, approved>>
    BY <1>3 DEF RunTrial
  <2>. QED BY <2>2, <2>3, <2>4, StageOnly
<1>4. CASE AggregateTrialMetrics(s)
  <2>1. Moves(s)
    BY <1>4, AtAStage, EndStep DEF AggregateTrialMetrics
  <2>. QED BY <1>4, <2>1, StageOnly DEF AggregateTrialMetrics, labRows
<1>5. CASE RunRobustnessChecks(s)
  <2>1. Moves(s)
    BY <1>5, AtAStage, EndStep DEF RunRobustnessChecks
  <2>2. robust' \in Checks
    BY <1>5 DEF RunRobustnessChecks
  <2>. QED BY <1>5, <2>1, <2>2, StageOnly DEF RunRobustnessChecks
<1>6. CASE RequestPromotion(s)
  <2>1. stage[s].nr \in 1..9
    BY <1>6, AtAStage DEF RequestPromotion
  <2>2. Moves(s)
    <3>1. CASE EndStage(s)
      BY <2>1, <3>1, EndStep
    <3>2. CASE newest # "none" /\ stage' = [stage EXCEPT ![s] = Onward(@, "requested", newest)]
      <4>1. newest \in Bests
        BY <3>2
      <4>. QED BY <2>1, <3>2, <4>1, RequestedStep
    <3>. QED BY <1>6, <3>1, <3>2 DEF RequestPromotion
  <2>3. requested' \subseteq Bests
    BY <1>6 DEF RequestPromotion
  <2>4. /\ labRun' = labRun /\ plan' = plan /\ robust' = robust /\ lost' = lost /\ nLosses' = nLosses
        /\ UNCHANGED <<tried, pruned, candidates, newest, approved>>
    BY <1>6 DEF RequestPromotion
  <2>. QED BY <2>2, <2>3, <2>4, StageOnly
<1>7. CASE ExportArtifacts(s)
  <2>1. Moves(s)
    BY <1>7, AtAStage, EndStep DEF ExportArtifacts
  <2>. QED BY <1>7, <2>1, StageOnly DEF ExportArtifacts, LabRun, labRows
<1>. QED BY <1>1, <1>2, <1>3, <1>4, <1>5, <1>6, <1>7

LEMMA LoseStageStep ==
    ASSUME ResearchInv, NEW s \in Searches, LoseStage(s)
    PROVE  ResearchInv'
<1>. ResearchTypeOK
  BY DEF ResearchInv
<1>1. stage[s].nr \in 1..9 /\ stage[s].tries + 1 \in 0..Attempts
  BY StagesInOrder DEF LoseStage, Running, ResearchTypeOK, Attempts
<1>2. Moves(s)
  BY <1>1, FailStep DEF LoseStage
<1>3. labRun' \in LabRun /\ lost' \in BOOLEAN
  BY DEF LoseStage, ResearchTypeOK, LabRun
<1>4. nLosses' \in 0..MaxLosses
  BY DEF LoseStage, ResearchTypeOK
<1>5. /\ plan' = plan /\ robust' = robust /\ requested' = requested
      /\ UNCHANGED <<tried, pruned, candidates, newest, approved>>
  BY DEF LoseStage, labRows
<1>6. PostTypeOK'
  BY NothingPosted DEF LoseStage, ResearchTypeOK
<1>. QED BY <1>2, <1>3, <1>4, <1>5, <1>6, StageOnly DEF ResearchTypeOK

\* What a post adds to or takes from those that have queued no jobs.
LEMMA PostsStep ==
    ASSUME ResearchTypeOK, NEW s \in Searches, PostRun(s) \/ QueueStages(s) \/ LosePost(s)
    PROVE  PostTypeOK'
<1>1. posts \in [Searches -> Nat] /\ nPosts \in 0..MaxPosts /\ reposted \in BOOLEAN /\ unqueued \in BOOLEAN
  BY DEF ResearchTypeOK, PostTypeOK
<1>2. posts' \in [Searches -> Nat]
  BY <1>1 DEF PostRun, QueueStages, LosePost
<1>3. nPosts' \in 0..MaxPosts
  BY <1>1 DEF PostRun, QueueStages, LosePost
<1>4. reposted' \in BOOLEAN /\ unqueued' \in BOOLEAN
  BY <1>1 DEF PostRun, QueueStages, LosePost
<1>. QED BY <1>2, <1>3, <1>4 DEF PostTypeOK

\* A request resets the row, its jobs are queued if there are none yet, or it
\* is lost before that.  Only a flow that is not there is started.
LEMMA PostStep ==
    ASSUME ResearchInv, NEW s \in Searches, PostRun(s) \/ QueueStages(s) \/ LosePost(s)
    PROVE  ResearchInv'
<1>. ResearchTypeOK /\ stage \in [Searches -> Stage]
  BY DEF ResearchInv, ResearchTypeOK, Stage
<1>1. JobNr(1) \in Stage /\ JobNr(1).nr = 1
  <2>1. JobNr(1) = [nr |-> 1, step |-> "start", tries |-> 0, held |-> Nothing]
    BY DEF JobNr, NoJob
  <2>. QED BY <2>1, NewStages DEF Attempts
<1>2. stage' \in [Searches -> Stage]
  BY <1>1 DEF PostRun, QueueStages, LosePost
<1>3. \A t \in Searches : stage[t] # NoJob => stage'[t] = stage[t]
  BY DEF PostRun, QueueStages, LosePost
<1>4. \A t \in Searches : stage[t].nr <= 7 \/ stage'[t].nr = stage[t].nr
  BY <1>3 DEF NoJob
<1>5. labRun' \in LabRun
  BY DEF PostRun, QueueStages, LosePost, ResearchTypeOK, LabRun
<1>6. UNCHANGED <<labRows, lost>> /\ nLosses' \in 0..MaxLosses
  BY DEF PostRun, QueueStages, LosePost, ResearchTypeOK
<1>7. ResearchTypeOK'
  BY <1>2, <1>5, <1>6, PostsStep DEF ResearchTypeOK, Stage, LabRun, labRows
<1>8. EvidenceInv'
  BY <1>6 DEF ResearchInv, EvidenceInv, ApprovalsRestOnEvidence, Planned, labRows
<1>9. Alone' => Alone
  BY <1>3 DEF Alone
<1>10. AloneInv'
  BY <1>4, <1>6, <1>9 DEF ResearchInv, AloneInv, labRows
<1>11. CandidatesAreNotPruned'
  BY <1>6, <1>9 DEF ResearchInv, CandidatesAreNotPruned, labRows
<1>. QED BY <1>7, <1>8, <1>10, <1>11 DEF ResearchInv

LEMMA ResearchNextStep == ResearchInv /\ [ResearchNext]_labVars => ResearchInv'
<1>. SUFFICES ASSUME ResearchInv, [ResearchNext]_labVars PROVE ResearchInv'
  OBVIOUS
<1>1. CASE ResearchNext
  <2>. PICK s \in Searches : PostRun(s) \/ QueueStages(s) \/ LosePost(s) \/ WorkStage(s) \/ LoseStage(s)
    BY <1>1 DEF ResearchNext
  <2>1. CASE WorkStage(s)
    BY <2>1, SimulateStep, RegisterStep, DecideStep, OtherStageStep DEF WorkStage
  <2>. QED BY <2>1, PostStep, LoseStageStep
<1>2. CASE UNCHANGED labVars
  BY <1>2, NothingPosted DEF labVars, labRows, ResearchInv, ResearchTypeOK, EvidenceInv, ApprovalsRestOnEvidence, Planned,
     AloneInv, Alone, CandidatesAreNotPruned
<1>. QED BY <1>1, <1>2

-----------------------------------------------------------------------------
(* The theorems.                                                              *)

\* The inductive invariant holds in every reachable state.
THEOREM ResearchInvariance == ResearchSpec => []ResearchInv
BY ResearchInitStep, ResearchNextStep, PTL DEF ResearchSpec

\* The rows and the jobs of a research run have their types.
THEOREM ResearchTypes == ResearchSpec => []ResearchTypeOK
<1>1. ResearchInv => ResearchTypeOK
  BY DEF ResearchInv
<1>. QED BY <1>1, ResearchInvariance, PTL

\* An approval names a candidate whose trial has metrics and whose own
\* robustness run passed, whatever flows share the run.
THEOREM ApprovalsHaveEvidence == ResearchSpec => []ApprovalsRestOnEvidence
<1>1. ResearchInv => ApprovalsRestOnEvidence
  BY DEF ResearchInv, EvidenceInv
<1>. QED BY <1>1, ResearchInvariance, PTL

\* With one flow at the run, no candidate is made of a pruned trial.
THEOREM PrunedTrialsAreNoCandidates == ResearchSpec => []CandidatesAreNotPruned
<1>1. ResearchInv => CandidatesAreNotPruned
  BY DEF ResearchInv
<1>. QED BY <1>1, ResearchInvariance, PTL
=============================================================================
