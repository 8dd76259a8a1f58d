-------------------------- MODULE PublishSelection --------------------------
(***************************************************************************)
(* The publish selection engine for one match: PredictionRunPublisherService *)
(* (publish), PublishDecisionService (evaluateAndPersist),                 *)
(* ConflictResolutionService (resolve), the engine settings and manual     *)
(* overrides they read, and the public reader of PredictionsService that   *)
(* re-materialises missing pointers.                                       *)
(*                                                                         *)
(* One match is enough: every query of these services is scoped by matchId *)
(* and nothing is shared between two matches.  The line is always null for *)
(* the two markets the generator publishes, so a tuple is <<market,        *)
(* horizon>>.  Run, candidate and decision are created together, one of    *)
(* each, so one number identifies all three.                               *)
(***************************************************************************)
EXTENDS Naturals, FiniteSets, Sequences

CONSTANTS
    Markets,          \* markets published for the match (names of the code)
    LastHorizon,      \* horizons are 1..LastHorizon in time order
    Selections,       \* sides a candidate can pick: home, draw, away
    Scores,           \* selection scores, in units of the conflict margin
    PolicyOutcomes,   \* sets of reason codes the abstain policy may return
    ProfileCaps,      \* maxPicksPerMatch values of the strategy profiles
    SettingsSpace,    \* engine settings an administrator may store
    Publishers,       \* concurrent callers of publish()
    Readers,          \* concurrent public read requests
    AnySelection,     \* an override without a selection
    NoDecision,       \* publishDecisionId = null
    NoPointer,        \* no published_predictions row for the tuple
    MaxAttempts,      \* withSerializableRetry's maxAttempts
    MaxRuns,          \* bound: publish() calls explored
    MaxOverrides      \* bound: manual overrides explored

Horizons == 1 .. LastHorizon
PostMatch == LastHorizon
Tuples == Markets \X Horizons
Statuses == {"APPROVED", "ABSTAINED", "SUPPRESSED", "BLOCKED", "MANUALLY_FORCED"}
FinalStatuses == {"APPROVED", "MANUALLY_FORCED"}
Codes == {"LOW_CONFIDENCE", "UNSUPPORTED_MARKET", "UNSUPPORTED_LEAGUE", "POLICY_BLOCKED",
          "MANUAL_BLOCK", "DUPLICATE_CANDIDATE", "CONFLICTING_CANDIDATE"}
Settings == [enabled : BOOLEAN, shadowMode : BOOLEAN, emergencyRollback : BOOLEAN]
Override == [tuple : Tuples, selection : Selections \cup {AnySelection},
             action : {"FORCE", "BLOCK"}, active : BOOLEAN]

ASSUME PublishAssumption ==
    /\ LastHorizon \in Nat \ {0}
    /\ Scores \subseteq Nat
    /\ ProfileCaps \subseteq 1..8
    /\ PolicyOutcomes \subseteq SUBSET Codes
    /\ SettingsSpace \subseteq Settings
    /\ MaxAttempts \in Nat \ {0}
    /\ MaxRuns \in Nat
    /\ MaxOverrides \in Nat
    /\ NoDecision \notin Nat
    /\ AnySelection \notin Selections

VARIABLES
    clock,      \* the horizon the match is in now
    settings,   \* the selection_engine_* rows of system_settings
    overrides,  \* manual_publish_overrides, oldest first
    nRuns,      \* prediction_runs written so far
    decisions,  \* publish_decisions, one per run
    pointers,   \* published_predictions
    job,        \* each publisher's progress through publish()
    reader,     \* each public request's rows still to be re-materialised
    handed      \* decisions handed to the bankroll pipeline

vars == <<clock, settings, overrides, nRuns, decisions, pointers, job, reader, handed>>

Runs == 1 .. nRuns
Decision == [tuple : Tuples, selection : Selections, score : Scores, cap : ProfileCaps,
             status : Statuses, isPublic : BOOLEAN]
Pointer == [run : Nat, decision : Nat \cup {NoDecision}]
Job == [stage : {"tx"}, tuple : Tuples, selection : Selections, score : Scores, cap : ProfileCaps,
        policy : PolicyOutcomes, settings : SettingsSpace, attempt : 1 .. MaxAttempts]
       \cup [stage : {"handoff"}, decision : Runs]
       \cup [stage : {"idle"}]
Idle == [stage |-> "idle"]

TypeOK ==
    /\ clock \in Horizons
    /\ settings \in SettingsSpace
    /\ overrides \in Seq(Override)
    /\ nRuns \in Nat
    /\ decisions \in [Runs -> Decision]
    /\ pointers \in [Tuples -> Pointer \cup {NoPointer}]
    /\ job \in [Publishers -> Job]
    /\ reader \in [Readers -> SUBSET Runs]
    /\ handed \in SUBSET Runs

-----------------------------------------------------------------------------
(* Market families and the conflict rules ensureDefaults() seeds.          *)

MarketFamily(market) ==
    CASE market \in {"match_outcome", "match_result", "moneyline", "full_time_result",
                     "first_half_result", "htft", "half_time_full_time"} -> "result"
      [] market \in {"both_teams_to_score", "btts"} -> "btts"
      [] market \in {"total_goals_over_under", "over_under", "totals", "goal_range",
                     "first_half_goals", "second_half_goals"} -> "totals"
      [] market = "correct_score" -> "score"
      [] OTHER -> "other"

DefaultRule ==
    [family \in {"result", "totals", "btts", "score", "other"} |->
        [cap |-> IF family \in {"totals", "other"} THEN 2 ELSE 1,
         multiHorizon |-> family \in {"totals", "other"}]]

\* getConflictRules() always adds the "other" family's rule.
RulesFor(family) == {DefaultRule[family], DefaultRule["other"]}

-----------------------------------------------------------------------------
(* Conflict resolution: the reasons it adds, and the decisions it suppresses. *)

Live(i) == decisions[i].status \in FinalStatuses
LiveRuns == {i \in Runs : Live(i)}
\* Mutant of SameTuple: the horizon is left out of the query.
SameMarketLive(tuple) == {i \in LiveRuns : decisions[i].tuple[1] = tuple[1]}
SameTuple(tuple) == {i \in LiveRuns : decisions[i].tuple = tuple}
SameFamily(tuple) ==
    {i \in LiveRuns : MarketFamily(decisions[i].tuple[1]) = MarketFamily(tuple[1])}

Duplicates(tuple, selection) == {i \in SameTuple(tuple) : decisions[i].selection = selection}
Opposing(tuple, selection) == SameTuple(tuple) \ Duplicates(tuple, selection)

\* strongest.selectionScore + 0.01 >= candidate score; a score unit is 0.01.
Outscored(tuple, selection, score) ==
    \E i \in Opposing(tuple, selection) : decisions[i].score + 1 >= score

Superseded(tuple, selection, score) ==
    IF Duplicates(tuple, selection) # {} \/ Outscored(tuple, selection, score)
    THEN {} ELSE Opposing(tuple, selection)

\* Mutant of PolicyLimit: the family limit is off by one.
LoosePolicyLimit(tuple) ==
    \E rule \in RulesFor(MarketFamily(tuple[1])) : Cardinality(SameFamily(tuple)) > rule.cap

PolicyLimit(tuple) ==
    LET rules == RulesFor(MarketFamily(tuple[1]))
        family == SameFamily(tuple)
    IN  \/ \E rule \in rules : Cardinality(family) >= rule.cap
        \/ /\ \A rule \in rules : ~rule.multiHorizon
           /\ \E i \in family : decisions[i].tuple[2] # tuple[2]

ConflictReasons(tuple, selection, score, cap) ==
    LET matchLimit == IF Cardinality(LiveRuns) >= cap THEN {"POLICY_BLOCKED"} ELSE {}
    IN  matchLimit \cup
        (IF Duplicates(tuple, selection) # {} THEN {"DUPLICATE_CANDIDATE"}
         ELSE IF Outscored(tuple, selection, score) THEN {"CONFLICTING_CANDIDATE"}
         ELSE IF PolicyLimit(tuple) THEN {"POLICY_BLOCKED"} ELSE {})

-----------------------------------------------------------------------------
(* The decision for one candidate.                                         *)

ClassifyStatus(reasons) ==
    IF reasons = {} THEN "APPROVED"
    ELSE IF "MANUAL_BLOCK" \in reasons THEN "BLOCKED"
    ELSE IF reasons \cap {"DUPLICATE_CANDIDATE", "CONFLICTING_CANDIDATE"} # {} THEN "SUPPRESSED"
    ELSE IF reasons \cap {"POLICY_BLOCKED", "UNSUPPORTED_MARKET", "UNSUPPORTED_LEAGUE"} # {} THEN "BLOCKED"
    ELSE "ABSTAINED"

\* resolveManualOverride(): the newest active override that matches.
MatchingOverrides(tuple, selection) ==
    {k \in DOMAIN overrides :
        /\ overrides[k].active
        /\ overrides[k].tuple = tuple
        /\ overrides[k].selection \in {selection, AnySelection}}

ManualAction(tuple, selection) ==
    LET matching == MatchingOverrides(tuple, selection)
    IN  IF matching = {} THEN "NONE"
        ELSE overrides[CHOOSE k \in matching : \A other \in matching : other <= k].action

PolicyReasons(j) ==
    j.policy \cup (IF ManualAction(j.tuple, j.selection) = "BLOCK" THEN {"MANUAL_BLOCK"} ELSE {})

\* Mutant of ResolvesConflicts: shadow mode skips conflict resolution.
ResolvesUnlessShadow(j) ==
    /\ ~j.settings.shadowMode
    /\ ManualAction(j.tuple, j.selection) # "FORCE"
    /\ PolicyReasons(j) = {}

ResolvesConflicts(j) ==
    ManualAction(j.tuple, j.selection) # "FORCE" /\ PolicyReasons(j) = {}

StatusOf(j) ==
    IF ManualAction(j.tuple, j.selection) = "FORCE" THEN "MANUALLY_FORCED"
    ELSE IF ResolvesConflicts(j)
         THEN ClassifyStatus(ConflictReasons(j.tuple, j.selection, j.score, j.cap))
         ELSE ClassifyStatus(PolicyReasons(j))

SuppressedBy(j) ==
    IF ResolvesConflicts(j) THEN Superseded(j.tuple, j.selection, j.score) ELSE {}

PublishesPublicly(j) ==
    \/ ~j.settings.enabled
    \/ j.settings.emergencyRollback
    \/ j.settings.shadowMode
    \/ StatusOf(j) \in FinalStatuses

-----------------------------------------------------------------------------
(* Administration and time.                                                *)

Init ==
    /\ clock = 1
    /\ settings \in SettingsSpace
    /\ overrides = <<>>
    /\ nRuns = 0
    /\ decisions \in [1 .. 0 -> Decision]
    /\ pointers = [tuple \in Tuples |-> NoPointer]
    /\ job = [p \in Publishers |-> Idle]
    /\ reader = [r \in Readers |-> {}]
    /\ handed = {}

\* The match moves on: the next horizon is the one new runs are written for.
AdvanceClock ==
    /\ clock < LastHorizon
    /\ clock' = clock + 1
    /\ UNCHANGED <<settings, overrides, nRuns, decisions, pointers, job, reader, handed>>

\* setEngineSettings().
SetEngineSettings(new) ==
    /\ settings' = new
    /\ UNCHANGED <<clock, overrides, nRuns, decisions, pointers, job, reader, handed>>

\* createManualOverride(): a new row; earlier rows stay active.
CreateManualOverride(tuple, selection, action) ==
    /\ Len(overrides) < MaxOverrides
    /\ overrides' = Append(overrides, [tuple |-> tuple, selection |-> selection,
                                       action |-> action, active |-> TRUE])
    /\ UNCHANGED <<clock, settings, nRuns, decisions, pointers, job, reader, handed>>

\* The override's expiresAt passes: resolveManualOverride() no longer sees it.
ExpireOverride(k) ==
    /\ overrides[k].active
    /\ overrides' = [overrides EXCEPT ![k].active = FALSE]
    /\ UNCHANGED <<clock, settings, nRuns, decisions, pointers, job, reader, handed>>

-----------------------------------------------------------------------------
(* publish().                                                              *)

\* Everything read before the transaction: the horizon, the candidate, the
\* engine settings and the profile stay as they were read, through retries.
BeginPublish(p, market, selection, score, policy, cap) ==
    /\ job[p].stage = "idle"
    /\ nRuns + Cardinality({q \in Publishers : job[q].stage = "tx"}) < MaxRuns
    /\ job' = [job EXCEPT ![p] = [stage |-> "tx", tuple |-> <<market, clock>>,
                                  selection |-> selection, score |-> score, cap |-> cap,
                                  policy |-> policy, settings |-> settings, attempt |-> 1]]
    /\ UNCHANGED <<clock, settings, overrides, nRuns, decisions, pointers, reader, handed>>

NewDecision(j) ==
    [tuple |-> j.tuple, selection |-> j.selection, score |-> j.score, cap |-> j.cap,
     status |-> StatusOf(j), isPublic |-> PublishesPublicly(j)]

Suppress(decision) == [decision EXCEPT !.status = "SUPPRESSED", !.isPublic = FALSE]

\* Mutant of DecisionsAfter: the decision is upserted by tuple, not by candidate.
DecisionsByTupleAfter(j) ==
    [i \in 1 .. nRuns + 1 |->
        IF i = nRuns + 1 \/ decisions[i].tuple = j.tuple THEN NewDecision(j) ELSE decisions[i]]

DecisionsAfter(j) ==
    [i \in 1 .. nRuns + 1 |->
        IF i = nRuns + 1 THEN NewDecision(j)
        ELSE IF i \in SuppressedBy(j) THEN Suppress(decisions[i]) ELSE decisions[i]]

PointerKept(tuple, dropped) ==
    pointers[tuple] # NoPointer => pointers[tuple].decision \notin dropped

\* Mutant of PointersAfter: a run that is not public leaves the old pointer.
StalePointersAfter(j) ==
    IF PublishesPublicly(j) /\ j.tuple[2] # PostMatch
    THEN [pointers EXCEPT ![j.tuple] = [run |-> nRuns + 1, decision |-> nRuns + 1]]
    ELSE pointers

\* Mutant of PointersAfter: post-match runs are published too.
PointersEvenPostMatch(j) ==
    IF PublishesPublicly(j)
    THEN [pointers EXCEPT ![j.tuple] = [run |-> nRuns + 1, decision |-> nRuns + 1]]
    ELSE [pointers EXCEPT ![j.tuple] = NoPointer]

PointersAfter(j) ==
    [tuple \in Tuples |->
        IF tuple = j.tuple
        THEN IF PublishesPublicly(j) /\ tuple[2] # PostMatch
             THEN [run |-> nRuns + 1, decision |-> nRuns + 1]
             ELSE NoPointer
        ELSE IF PointerKept(tuple, SuppressedBy(j)) THEN pointers[tuple] ELSE NoPointer]

\* Mutant of HandsOff: whatever is published is handed over.
HandsOffPublic(j) == PublishesPublicly(j) /\ j.tuple[2] # PostMatch

HandsOff(j) == StatusOf(j) \in FinalStatuses /\ j.tuple[2] # PostMatch

\* The serializable transaction commits: run, candidate, decision, suppressions
\* and pointer appear together.
CommitPublish(p) ==
    LET j == job[p]
    IN  /\ j.stage = "tx"
        /\ nRuns' = nRuns + 1
        /\ decisions' = DecisionsAfter(j)
        /\ pointers' = PointersAfter(j)
        /\ job' = [job EXCEPT ![p] = IF HandsOff(j)
                                     THEN [stage |-> "handoff", decision |-> nRuns + 1]
                                     ELSE Idle]
        /\ UNCHANGED <<clock, settings, overrides, reader, handed>>

\* Mutant of SerializationFailure: the retries never stop.
EndlessRetry(p) ==
    /\ job[p].stage = "tx"
    /\ job' = [job EXCEPT ![p].attempt = (job[p].attempt % MaxAttempts) + 1]
    /\ UNCHANGED <<clock, settings, overrides, nRuns, decisions, pointers, reader, handed>>

\* Mutant of SerializationFailure: the attempt counter passes its bound.
OneRetryTooMany(p) ==
    /\ job[p].stage = "tx"
    /\ job' = IF job[p].attempt <= MaxAttempts
              THEN [job EXCEPT ![p].attempt = job[p].attempt + 1]
              ELSE [job EXCEPT ![p] = Idle]
    /\ UNCHANGED <<clock, settings, overrides, nRuns, decisions, pointers, reader, handed>>

\* P2034: the transaction rolls back; after MaxAttempts publish() logs the
\* failure and throws, and generatePredictions goes on with the next match.
SerializationFailure(p) ==
    /\ job[p].stage = "tx"
    /\ job' = IF job[p].attempt < MaxAttempts
              THEN [job EXCEPT ![p].attempt = job[p].attempt + 1]
              ELSE [job EXCEPT ![p] = Idle]
    /\ UNCHANGED <<clock, settings, overrides, nRuns, decisions, pointers, reader, handed>>

\* processPublishedSelection() is called after the commit, outside the transaction.
HandOff(p) ==
    /\ job[p].stage = "handoff"
    /\ handed' = handed \cup {job[p].decision}
    /\ job' = [job EXCEPT ![p] = Idle]
    /\ UNCHANGED <<clock, settings, overrides, nRuns, decisions, pointers, reader>>

\* The process dies, or the call into the bankroll layer throws (it is swallowed).
LosePublisher(p) ==
    /\ job[p].stage # "idle"
    /\ job' = [job EXCEPT ![p] = Idle]
    /\ UNCHANGED <<clock, settings, overrides, nRuns, decisions, pointers, reader, handed>>

-----------------------------------------------------------------------------
(* The public reader: findPublishedRows() and its self-heal.               *)

\* The decision gate of buildPublishedWhere().
Visible(tuple) ==
    /\ pointers[tuple] # NoPointer
    /\ tuple[2] # PostMatch
    /\ \/ pointers[tuple].decision = NoDecision
       \/ Live(pointers[tuple].decision)

\* dedupePredictionRuns(): the newest run of each tuple.
LatestRuns ==
    {i \in Runs : /\ decisions[i].tuple[2] # PostMatch
                  /\ \A other \in Runs : decisions[other].tuple = decisions[i].tuple => other <= i}

\* No row is visible and the 20s cooldown is over: the request takes the newest runs.
StartSelfHeal(r) ==
    /\ reader[r] = {}
    /\ \A tuple \in Tuples : ~Visible(tuple)
    /\ LatestRuns # {}
    /\ reader' = [reader EXCEPT ![r] = LatestRuns]
    /\ UNCHANGED <<clock, settings, overrides, nRuns, decisions, pointers, job, handed>>

\* One upsert: create without a decision, or update the run and keep the decision.
MaterializeRow(r, i) ==
    LET tuple == decisions[i].tuple
    IN  /\ i \in reader[r]
        /\ pointers' = [pointers EXCEPT ![tuple] =
                IF pointers[tuple] = NoPointer THEN [run |-> i, decision |-> NoDecision]
                ELSE [pointers[tuple] EXCEPT !.run = i]]
        /\ reader' = [reader EXCEPT ![r] = reader[r] \ {i}]
        /\ UNCHANGED <<clock, settings, overrides, nRuns, decisions, job, handed>>

-----------------------------------------------------------------------------
Administer ==
    \/ AdvanceClock
    \/ \E new \in SettingsSpace : SetEngineSettings(new)
    \/ \E tuple \in Tuples, selection \in Selections \cup {AnySelection}, action \in {"FORCE", "BLOCK"} :
            CreateManualOverride(tuple, selection, action)
    \/ \E k \in DOMAIN overrides : ExpireOverride(k)

Publish(p) ==
    \/ \E market \in Markets, selection \in Selections, score \in Scores,
          policy \in PolicyOutcomes, cap \in ProfileCaps :
            BeginPublish(p, market, selection, score, policy, cap)
    \/ CommitPublish(p)
    \/ SerializationFailure(p)
    \/ HandOff(p)
    \/ LosePublisher(p)

Read(r) == StartSelfHeal(r) \/ \E i \in reader[r] : MaterializeRow(r, i)

Next ==
    \/ Administer
    \/ \E p \in Publishers : Publish(p)
    \/ \E r \in Readers : Read(r)

Spec == Init /\ [][Next]_vars

\* Every publisher's next step is a continuation of one async function.
Fairness == \A p \in Publishers : WF_vars(CommitPublish(p) \/ SerializationFailure(p) \/ HandOff(p))
FairSpec == Spec /\ Fairness

-----------------------------------------------------------------------------
(* Properties.                                                             *)

\* Two live decisions share a tuple only when the later one was forced by an
\* administrator: a FORCE skips ConflictResolutionService, an approval never does.
UniqueLivePick ==
    \A i, k \in LiveRuns :
        (i < k /\ decisions[i].tuple = decisions[k].tuple) => decisions[k].status = "MANUALLY_FORCED"

OlderLive(k) == {i \in LiveRuns : i < k}
OlderRelated(k) == OlderLive(k) \cap SameFamily(decisions[k].tuple)

\* An approved decision still has fewer live decisions before it than the
\* profile's maxPicksPerMatch, and than each rule of its family allows, whatever
\* was approved, forced or suppressed since.
PickLimits ==
    \A k \in Runs : decisions[k].status = "APPROVED" =>
        /\ Cardinality(OlderLive(k)) < decisions[k].cap
        /\ \A rule \in RulesFor(MarketFamily(decisions[k].tuple[1])) :
                Cardinality(OlderRelated(k)) < rule.cap

\* A pointer that names a decision names a public one of its own tuple, never a
\* suppressed one and never one of the post-match horizon.
NamedPointerIsPublic ==
    \A tuple \in Tuples :
        (pointers[tuple] # NoPointer /\ pointers[tuple].decision # NoDecision) =>
            LET decision == decisions[pointers[tuple].decision]
            IN  decision.tuple = tuple /\ decision.isPublic /\ tuple[2] # PostMatch

\* Without the reader's self-heal a pointer is always the newest run of its
\* tuple, with that run's own decision: no stale run is ever left published.
PointerIsNewestRun ==
    \A tuple \in Tuples : pointers[tuple] # NoPointer =>
        LET newest == CHOOSE i \in Runs :
                /\ decisions[i].tuple = tuple
                /\ \A other \in Runs : decisions[other].tuple = tuple => other <= i
        IN  pointers[tuple] = [run |-> newest, decision |-> newest]

\* The committed decisions whose hand-off has not happened yet.
Pending == {job[p].decision : p \in {q \in Publishers : job[q].stage = "handoff"}}

\* What reaches the bankroll layer was approved or forced when it was decided: it
\* may have been suppressed since, but was never abstained or blocked, and is
\* never a post-match run, even in the modes that publish everything.
HandedWasFinal ==
    \A i \in handed \cup Pending :
        /\ decisions[i].status \in FinalStatuses \cup {"SUPPRESSED"}
        /\ decisions[i].tuple[2] # PostMatch

\* A decision that is no longer live never becomes live again: replays of the
\* same selection write a new run and a new decision.
NoRevival == [][\A i \in Runs : ~Live(i) => ~Live(i)']_vars

\* A publisher that entered the transaction leaves it, committed or given up:
\* the serialization retries are bounded.
PublishTerminates == \A p \in Publishers : (job[p].stage = "tx") ~> (job[p].stage # "tx")

LivePick(i) ==
    [id |-> i, tuple |-> decisions[i].tuple, forced |-> decisions[i].status = "MANUALLY_FORCED"]
LivePicks == {LivePick(i) : i \in LiveRuns}

\* The live decisions are a pick book: approvals take over a free or outscored
\* tuple within the profile's limit, and only a same-tuple candidate removes a pick.
Book == INSTANCE PickBook WITH Caps <- ProfileCaps, picks <- LivePicks, issued <- nRuns
ImplementsPickBook == Book!BookSpec

-----------------------------------------------------------------------------
(* What the repository says and the code does not do.                      *)

\* README: the public API returns only APPROVED or MANUALLY_FORCED predictions.
VisibleRunsAreApproved == \A tuple \in Tuples : Visible(tuple) => Live(pointers[tuple].run)

=============================================================================
