# SporX in TLA+

TLA+ models of the SporX API (`src/apps/api`), TLC configurations that check them on small
instances, and TLAPS proofs of what matters most for every instance. SporX predicts sports
results: scheduled jobs synchronise matches and odds, models produce probabilities, a selection
engine decides which predictions become public, and a paper bankroll bets on the published ones.

- [The system](#the-system)
- [Modules](#modules)
- [Publish selection](#publish-selection)
- [Bankroll](#bankroll)
- [Ingestion runs](#ingestion-runs)
- [Serving aliases and the model lifecycle](#serving-aliases-and-the-model-lifecycle)
- [Research lab](#research-lab)
- [Match feed](#match-feed)
- [Privacy requests](#privacy-requests)
- [Runs](#runs)
- [Proofs](#proofs)
- [What is not modelled](#what-is-not-modelled)
- [Plan](#plan)

## The system

A NestJS API and worker over PostgreSQL (Prisma), Redis and BullMQ, with two Next.js front ends.
All paths below are under `src/apps/api/src/`.

| Component | State it keeps | Operations | Talks to | Hard behaviour | Correct when |
|---|---|---|---|---|---|
| Publish selection engine: `prediction-run-publisher`, `publish-decision`, `conflict-resolution`, `selection-engine-config` | runs, candidates, decisions, published pointers, overrides, engine settings | publish, force/block, change settings | called by ingestion; hands picks to the bankroll | concurrent publishers, serializable retries, settings read outside the transaction | one live pick per tuple, limits kept, no outdated or suppressed prediction stays public |
| Public reader: `predictions.service` | none of its own; heals pointers | list | reads decisions and pointers | read, await, write without a transaction | only approved or forced predictions are shown |
| Bankroll: `bankroll-orchestration` and its services | account, ledger, stakes, tickets, paper orders, settlements | hand-over, eleven stages, hourly settlement | fed by the publisher, reads match results | redelivered jobs, interleaved pipelines, settings changed under way, crashes | balances, ledger and orders agree; each order settles once and finally |
| Job scheduler: `jobs.service` | a timer and a lock lease per process | tick, recover stale runs | creates ingestion runs | several processes, leases that lapse, Redis failures | no two runs of a type overlap; nothing stays under way for ever |
| Ingestion runs: `ingestion.service`, `ingestion-queue.service` | run rows, BullMQ jobs, inline fallbacks | create, claim, heartbeat, finish, fail | run the provider sync | redelivery, stalls, lost jobs, crashes | one processor per run; runs only move forward and end |
| Cache and lock: `cache.service` | Redis keys, memory fallback, tag indexes | get, set, invalidate a tag, lock | everybody | expiry, fallback per process, invalidation that crosses a fill | a lock is released by its owner only; an outdated copy dies out |
| Model lifecycle: `model-lifecycle-orchestration`, `model-alias` and their services | model versions, aliases, training runs, shadow evaluations, decisions, drift events | eleven jobs of a retraining flow, switch, roll back | aliases through the cache; jobs through BullMQ | flows that overlap, attempts repeated halfway, champions resolved from stale copies | every champion, decision and registration rests on its evidence |
| Research lab: `research-lab-orchestration` and its services | research runs, trials, robustness runs, candidates, promotion requests | nine stages of a flow, gate | BullMQ | flows that share a run, requests posted again | an approval rests on its candidate's own trial and checks |
| Provider ingestion: `provider-ingestion.service` | match rows, cursors, phase triggers | sync by job type | run by ingestion; writes results for the bankroll | reads and writes of several syncs alternate, conflicting and late reports, a lock that lapses | the result stands in the end; predictions are generated once per trigger |
| Privacy governance: `privacy-request.service` | requests, export and deletion jobs, legal holds | submit, judge, execute | runs each job inline and through BullMQ | two copies of a job, resubmission, a hold that changes under way | a job runs once per queuing; verdicts agree with what was done |
| Team identity (not modelled): `team-identity.service` | the stored rules, a snapshot per process | look up a team, apply a rule action | administrators, read-only endpoints | snapshots that live long, builds that overlap, rules stored as a whole | blocks hold, nothing allowed stays apart, every map follows the rules in the end |
| Provider connectors, odds ingestion, historical import | budgets; append-only snapshots | fetch, map, append | HTTP | - | rows agree with their source |
| Prediction models, markets, calibration, simulation, governance statistics | coefficients and report rows | numeric functions | ingestion | - | numeric |
| Authentication, access governance, security operations | sessions, approvals, keys | login, approve, rotate | guards | - | questions of security, left aside here |
| Read-only endpoints, administration, front ends, shared packages, infrastructure | none of the above | queries and settings | the services above | - | - |

The parts form a chain: an ingestion run syncs the matches (`MatchFeed`) and generates predictions
with the champion its aliases resolve to (`AliasCache`, `ModelLifecycle`); `publish()` decides which
of them become public (`PublishSelection`) and hands approved picks to the bankroll (`Bankroll`);
the results that later runs write make the bankroll settle. Each model takes what it gets from the
others as an environment action (`BeginPublish` any candidate, `HandOver` any key, `MatchEnds` any
result), except that `ModelLifecycle` is built on `ServingView`, the promise `AliasCache` is shown
to keep.

## Modules

| Module | Models |
|---|---|
| `PublishSelection` | the selection engine and the public reader of one match |
| `PickBook` | abstract specification of the engine's live picks, which `PublishSelection` implements |
| `PublishSelectionProofs` | TLAPS proofs about `PublishSelection` |
| `Bankroll` | the paper bankroll of one account |
| `BankrollProofs` | TLAPS proofs about `Bankroll` |
| `IngestionRuns` | scheduler, lock, queue, fallback and recovery of one job type |
| `IngestionRunsProofs` | TLAPS proofs about `IngestionRuns` |
| `ServingView` | abstract specification of the serving aliases: what a resolution may return |
| `AliasCache` | the champion alias of a scope, its copies in the processes' memory and in Redis; implements `ServingView` |
| `AliasCacheProofs` | TLAPS proofs about `AliasCache` |
| `JobFlow` | a flow of BullMQ jobs with two attempts each, used by the next two |
| `ModelLifecycle` | the retraining flows of a scope, on top of `ServingView` |
| `ModelLifecycleProofs` | TLAPS proofs about `ModelLifecycle` |
| `ResearchLab` | the research flows that share one run |
| `ResearchLabProofs` | TLAPS proofs about `ResearchLab` |
| `MatchFeed` | how one match comes to its result, and the triggers of its predictions |
| `MatchFeedProofs` | TLAPS proofs about `MatchFeed` |
| `PrivacyRequests` | the life of one privacy request and its job |
| `PrivacyRequestsProofs` | TLAPS proofs about `PrivacyRequests` |
| `MCPublishSelection`, `MCBankroll`, `MCIngestionRuns` | values for TLC |
| `MCModels` | `AliasCache`, `ModelLifecycle` and `ResearchLab` in one run, each explored alone |
| `MCRecords` | `MatchFeed` and `PrivacyRequests` in one run, each explored alone |

Definitions named *Mutant of X* are X with a plausible bug. No specification uses them: replacing X
by its mutant must make TLC find a property violated, which shows the property depends on X.
`PROJECT.json` maps every definition to its source lines and lists runs, mutants, findings,
hazards and theorems.

## Publish selection

**State.** `decisions` has one record per prediction run (run, candidate and decision rows are
created together), `pointers` is `published_predictions` by tuple, `job` is each publisher's
progress through `publish()`, `reader` the rows a public request still has to re-materialise,
`handed` what the bankroll got. A tuple is `<<market, horizon>>`: the two markets the football
generator publishes have no line.

**Actions.** `BeginPublish` is everything `publish()` reads before its transaction: candidate,
settings and profile are kept through the retries. `CommitPublish` is the serializable transaction
with all it writes (run, candidate, decision, suppressions, pointer). `SerializationFailure` is a
P2034 rollback, at most `MaxAttempts` of them. `HandOff` follows the commit outside the
transaction; `LosePublisher` is a crash or a swallowed error at either point. `StartSelfHeal` and
`MaterializeRow` are the reader's unsynchronised repair. Administrators and time are
`SetEngineSettings`, `CreateManualOverride`, `ExpireOverride`, `AdvanceClock`.

**Abstractions.** Probabilities, calibration and confidence are a score and a set of policy reason
codes, chosen freely. A score unit is the 0.01 of the conflict margin. A serializable transaction
is one action, its failure another. The advisory lock only reduces serialization failures and is
left out.

**What holds.** A tuple has one live decision unless the later one was forced
(`UniqueLivePick`); an approval keeps room under the profile's and the family's limits whatever
happens later (`PickLimits`); a pointer with a decision names a public decision of its own tuple
(`NamedPointerIsPublic`); without self-heal it is the newest run's (`PointerIsNewestRun`); only
decisions that were final reach the bankroll, in every mode (`HandedWasFinal`); decisions are
never revived (`NoRevival`); the transaction is left (`PublishTerminates`). Seen through its live
decisions the engine implements `PickBook` (`ImplementsPickBook`).

**What does not.** `VisibleRunsAreApproved`, the README's rule for the public API: the self-heal
writes pointers without a decision for the newest runs, and the gate lets such pointers through.

## Bankroll

**State.** One account, and per key (`buildBaseDedup()`: tuple and selection) its stake
recommendation, ticket with its leg, and paper order; `recorded` keys have a settlement record;
`ledger` is in creation order; `pipe` is the stage each pipeline runs next.

**Actions.** One per stage, each one transaction (`runSerializable`): between two stages
everything else may happen, which covers the BullMQ flow and the inline fallback alike.
`HandOver` may repeat a key, `Redeliver` repeats a committed stage, `LosePipeline` is a crash or
exhausted retries; `ProcessStarts` is `ensureDefaults()`, which resets every flag;
`ScheduledSettlement` is the hourly job. The stages `portfolioDecision`, `simulationAnalytics` and
`roiGovernance` write nothing of this state.

**Abstractions.** Money is an integer; in the instances one unit stands for many of the code's
10^-6, and a clipped stake is rounded to it. Kelly and the other profiles are a choice of
`Recommendations` no larger than the balance. All matches are of one sport, so the calendar-day
rule and the total rule observe the same orders. Entries written in one millisecond are ordered as
they were written. A match's final score does not change once it is known.

**What holds.** Without repetitions, the reserved balance is the open orders' stakes, the ledger's
tail is the account, and no money appears or vanishes until a minimum stake has been taken from a
balance it exceeds (`ReservedCoversOpenOrders`, `LedgerTailIsAccount`, `EquityAccountedFor`, which
names the stakes stranded by a match without a score). With repetitions, no order moves money by a
second settlement (`SettledOnce`: the ledger has one settlement entry per key). A settlement is final while nothing is repeated
(`SettlementIsFinal`), and the order of a finished match is settled in the end
(`SettlesInTheEnd`).

**What does not**, each from a line that says it does (see the findings in `PROJECT.json`):
`MoneyIsIdempotent` (a repeated pipeline reserves twice), `ConcurrentTicketsLimited` (limits are
checked before, not when, the order is placed), `KillSwitchStopsOrders` (the switch is read at
entry only), `ResultPicksAreDecided` (the published market names are not settled by their score).

The passing run uses market names `evaluateSingleLeg()` knows, so that wins and losses happen;
`bankroll_market` uses the names the generator publishes.

## Ingestion runs

**State.** `runs` are the rows of one job type; `queue` and `inline` the offers that still exist;
`proc` what each processor is syncing; `sched` each scheduler's progress through a tick; `lock` the
lock's owner in Redis. Time appears as two facts a row can acquire: `stale` (`startedAt`, or
`createdAt`, is older than the stale threshold; heartbeats and the claim reset it) and `overdue`
(`createdAt` is older than the longest running age). The two are independent, as the two settings
are.

**Actions.** A tick is `StartTick`, `Scan` or `SkipScan`, `RecoverRun` for every row read,
`LoadLatest`, `EnsureRecentRun`, `FinishTick`, each with its own database or Redis call, so ticks
of two processes, processors and faults interleave with them. `LeaseExpires`, `RenewFails`,
`StartTickAlone` (the memory lock) and `TickThrows` are the lock's failures; `CrashScheduler`
restarts with the recovery that runs without the lock. `Claim` is the conditional update both the
worker and the fallback go through; `FinishRun`, `RecoverRun` and `FailJob` write their status
unconditionally, as the code does. `StallJob`, `CrashProcessor`, `LoseOffer` are BullMQ's and the
processes' faults; `StartByHand` is the administrator.

**What holds.** One processor per run (`OneProcessorPerRun`), runs only move forward
(`RunsMoveForward`), a lock is not taken away by a late release (`LeaseIsKept`), undisturbed
schedulers never overlap two runs of a type (`NoOverlap`: disturbed means a lease lapsed, Redis
failed, a run got stale or was recovered, a job failed, a tick outlasted the threshold, or an
administrator started a run), and every run ends (`EveryRunEnds`).

## Serving aliases and the model lifecycle

### The aliases (`AliasCache`)

**State.** The `CHAMPION` row and the fallback behind it (the newest active version), each process's
copy in memory, the copy in Redis, and for both whether the tag index knows the entry. `fill` is a
resolution that missed, with what it read; `purge` is an `invalidateTag()` under way.

**Actions.** Every await of `resolveServingAlias()`, `cache.set()` and `invalidateTag()` is a step:
`StartResolution` takes the flag and asks memory and Redis, `CopyFromRedis`, `ReadAlias` the alias
row, `ReadFallback` the newest active version by a query of its own, which a first switch may
overtake, `WriteEntry`, `WriteTag`; `SwitchAlias` and `SetFlag` change the database, and
`PurgeMemory`, `ListTag`, `PurgeEntries`, `PurgeTag` follow either. The one await that is no step of
its own is between a fill's entry in memory and its entry in Redis: no command of the process
overtakes it, and no other process can tell. `ActivateModel` changes the fallback and invalidates
nothing. `ExpireMemory`, `ExpireRedis`, `ForgetFlags` and `RedisEvent` are time and the client's
connection.

**The flag.** While `championAliasResolutionEnabled` is off a resolution returns the fallback at once
and touches no cache. The flag is cached as the aliases are; of its copies `flagViews` has only the
values, and it may keep the old one from a change until `ForgetFlags`.

**Abstractions.** One scope and one key: the row of a league and the global row behind it are one.
Time to live is an entry that may expire at any moment. A process has one resolution under way. An
active model version exists, so the query for any version (152-154) is not reached. A database
without the alias table is a scope without a row; a query that throws
ends its resolution without a trace and is left out.

**What holds.** A switch does not reach the copies of other processes, a fill may write what it
read before the switch, and an entry written between list and delete loses its tag: so a
resolution may return an earlier champion, or the fallback after the first switch of a scope. But
every such copy dies out, and no process can renew it from another copy for ever: after the last
change every process serves what the database says, the champion or, with the flag off, the
fallback (`ServedInTheEnd`). `ServingView` says what code that resolves a champion may rely on. The
models a resolution may return are those some copy, some cached flag or some resolution under way
still leads to. Only a change of the row, the fallback or the flag adds one, the model it names or
the one it uncovers; no fill, invalidation or loss of Redis does, and all but the current one are
forgotten in the end (`ImplementsServingView`).

### The retraining flows (`ModelLifecycle`)

**State.** The four variables of `ServingView`; the model versions, each flow's training run,
the backtests, calibrations and registry entries by model, the latest shadow window of every pair,
the `PROMOTE` decisions, drift events and rollback events. `job` is where each flow is.

**Actions.** One per job of `processLifecycleJob`, split where it writes twice: `SaveDataset`,
`SaveCandidate`, `EvaluateDrift`, and in the rollback `RollbackSwitch`, `RecordRollback`,
`ResolveDrift`. `WritePaper` is the three jobs that write one row for the candidate.
`LoseAttempt` is an attempt that throws or a worker that dies. `ManualSwitch`,
`ToggleResolution`, `RecordShadowWindow`, `RunUnlabeledDrift` and `EnqueueFlow` are the
administrators' endpoints; nothing else starts a flow.

**Abstractions.** Metrics only matter as verdicts of a window, and the window the job itself writes
always favours the challenger, because its numbers are constants. Feature flags are read through a
cache: both values are possible at every read. `Base` stays the newest active version: no job
activates a candidate.

**What holds.** A decision compares a model that served with one that was trained, on a window of
that very pair (`PromotionsAreComparisons`); the champion is the base model, a promoted challenger
or an administrator's choice although `aliasSwitch` takes the latest decision of the scope, not its
own (`ChampionHasACause`); a drift event is closed only after its rollback was recorded
(`ResolvedDriftWasRolledBack`); a registered model has its backtest and calibration
(`RegisteredModelsAreBacked`); every flow ends (`FlowsEnd`).

## Research lab

**State.** The run that flows differing only in search type or number of trials share, its trials
with metrics, the pruned ones, the latest robustness run, the candidates with theirs, the promotion
requests and approvals. `stage` is where each flow is.

**Actions.** One per stage; the promotion gate is two, `RequestPromotion` and `DecidePromotion`,
since the request is committed before it is judged. A request is `PostRun`, which sets the run's row
running, also while its jobs exist, and `QueueStages`, which adds the flow to Redis; `LosePost` is a
failure in between, of a validation, of Redis or of the process. `RunTrial` throws when another
flow's plan has the trial numbers. `LoseStage` is an attempt that throws, which the listener
records, or a worker that dies, which nobody records.

**Abstractions.** The requests name one strategy configuration; the code's key of a candidate hashes
it as well, so here a candidate is known by its best trial.

**What holds.** An approval names a candidate with a simulated trial and a robustness run of its own
that passed, whatever the other flow wrote meanwhile (`ApprovalsRestOnEvidence`). With one flow at
the run no candidate is made of a pruned trial (`CandidatesAreNotPruned`); with two it may be, when
the second simulates after the first registered, which is why the property says so. A run is closed
in the end (`RunEndsClosed`), with three exceptions, in which its row may stay `RUNNING`: it is posted
again, a request fails after it wrote the row, or a worker dies at a last attempt, for which BullMQ
fails the job without the listener.

## Match feed

**State.** One match row: status, score, half-time score, source. `runs` is each sync's progress:
a sync stands for what a run does with one provider. `results` is the job that follows the cursor,
`reconcile` one that does not. The two jobs of the fixtures store scores and register triggers
through the same functions (`syncFootballData()`, `upsertMatchFromExternal()`); for a match near
today they are syncs of the second kind. `feedLock` and `passed` are football_data's lock and whether its cursor is past
the match's day. `triggers` are the checkpoints that register a generation of predictions,
`generated` counts the generations.

**Actions.** `Begin` normalises the row, as `sync()` does first. `Plan` and `Lock` are
football_data's cursor and lock; `Fetch` and `FetchFails` the request; `ReadRow` reads the row and
merges the report into it (`Merged` is `mergeMatchState()`), `WriteRow` writes the outcome over
whatever the row is by then; `FindTrigger`, `CreateTrigger`, `Generate` follow what was written;
`Checkpoint` moves the cursor and `Release` ends the run. `EnrichRead` and `EnrichWrite` are the
enrichers of the half-time score, which write back the source they read. `Crash`, `ExpireLock`,
`Rewind` and `Tick` are faults, administrators and time.

**Abstractions.** A score is the running or the final one, time the five phases the code compares
with. What a provider may say is given by the phase (`Reported`); late, contradictory and missing
reports are among it. The reconciling poll asks for the last 30 days; the match is in them. The
lookup of teams, leagues and aliases is that of another row.

**What holds.** Two runs read, merge and write without a transaction, so a row may go back to an
older report. Still a match is only finished with a score (`FinishedHasScore`); the unique key of a
trigger lets one run generate, and a generation is lost only with the run that registered it
(`TriggersAreFollowedOnce`); and while the reconciling poll is answered, the match ends finished
with its final score (`ResultStands`). The last rests on two details of the code: the poll ignores
the cursor, and `dataSource` becomes the incoming source even when the score is kept. Were it kept
with the score, a running score of the more reliable provider would be kept for ever.

## Privacy requests

**State.** The request's status and owner, the job of every key (the key hashes the owner, whom a
deletion erases), the hold. `work` is the next step of every call, inline copy and delivery, with
the row it last saw; `queuings` and `executed` count.

**Actions.** `Submit` creates the request or resumes it. A change of status is `ReadStatus`, which
judges the transition, and `WriteStatus`, which writes whatever the row is by then. `JudgeCall`,
`FindJob`, `CreateJob`, `ResetJob`, `Enqueue` continue a call; `Claim`, `JudgeDelivery`, `Execute` and
the writes after it are a delivery, whoever runs it. `SetHold` is an administrator, `Fail` an error
or a process that dies, after which BullMQ delivers again, twice at most.

**What holds.** A job is executed at most once for each time it was queued
(`ExecutedOncePerQueuing`). While calls do not overlap, a refused request was never acted on and a
completed one was (`VerdictsAreKept`); overlapping calls may write an older verdict over a newer
one, so the property excludes them. At rest a request submitted once is closed unless a worker
stumbled (`RestsClosed`): the delivery may be faster than the call's own `QUEUED`; it then throws on
the transition after its claim and leaves the job `RUNNING`, which its retries do not claim.

## Runs

| Run | Instance | Shows |
|---|---|---|
| `publish_core` | the result market, a public horizon and post-match, 2 scores, 2 publishers, 3 runs, 2 attempts, profile caps 1 and 2 | interleaved transactions, retries, moving horizons: `PointerIsNewestRun`, `PickLimits`, `NoRevival`, `PublishTerminates` |
| `publish_modes` | a totals market, a public horizon and post-match, 2 scores, 2 publishers, 2 runs, 2 attempts, strict and shadow settings, 1 override, abstentions, 1 reader | interleaved transactions, picks replaced by better ones: `TypeOK`, `UniqueLivePick`, `NamedPointerIsPublic`, `HandedWasFinal`, `ImplementsPickBook` |
| `publish_selfheal` | the result market, 3 horizons, 1 publisher, a reader | `VisibleRunsAreApproved` fails |
| `bankroll_ledger` | 2 keys on a match, 2 pipelines, 1 repetition, layer switched on and off | all invariants and liveness of the bankroll |
| `bankroll_replay`, `bankroll_exposure`, `bankroll_killswitch`, `bankroll_market` | the smallest instance each | the four documented statements fail |
| `ingestion_runs` | 1 run, 1 scheduler, 2 processors, 3 faults | `TypeOK`, `OneProcessorPerRun`, `RunsMoveForward`, `EveryRunEnds` |
| `ingestion_schedule` | 2 runs, 2 schedulers, 1 processor, 1 fault | `LeaseIsKept`, `NoOverlap` |
| `models` | aliases: 2 versions, 2 processes, with and without a row, 1 change of the row, the fallback or the flag; lifecycle: 3 models, 2 flows, 1 drift, 1 failure, 2 requests of administrators; lab: 2 searches, 1 trial, 2 posts, 1 loss | `ServedInTheEnd`, `ImplementsServingView`; `PromotionsAreComparisons`, `ChampionHasACause`, `ResolvedDriftWasRolledBack`, `RegisteredModelsAreBacked`, `FlowsEnd`; `ApprovalsRestOnEvidence`, `CandidatesAreNotPruned`, `RunEndsClosed` |
| `records` | privacy: every kind, 2 submissions, 1 change of the hold, 1 failure; feed: the reconciling poll beside the results of either provider, 1 window, 1 event | `ExecutedOncePerQueuing`, `VerdictsAreKept`, `RestsClosed`; `TriggersAreFollowedOnce`, `FinishedHasScore`, `ResultStands` |

**Components explored alone.** The components of `models`, and those of `records`, share no variable,
and every property names the variables of one. A step of a component is allowed only while the
others rest in an initial state: every behaviour of a component is then a behaviour of the run, with
the others stuttering, and what holds of the run holds of each. Fairness is stated on the
component's own variables, so a component that is not explored does not make it vacuous: its
actions are disabled in the run, or their fairness is what the resting state satisfies.

**Bounds.** Every rule of the selection engine compares a new candidate with live decisions of
one match, so three runs reach every outcome: two earlier picks, and a third that duplicates,
loses to, beats or is blocked by them. Two horizons are a public one and post-match, three, in
`publish_selfheal`, add a second public one. Two scores further apart than the conflict margin and
two publishers are what lets a pick replace a live one while another transaction is under way. In
the result family, whose limit is one, the better candidate suppresses the opposing pick and is
then blocked by the limit, which still counts it (`publish_core`); in the totals family, whose
limit is two, it takes the place of the pick, so `publish_modes` has a totals market, which the
engine's rules know though the football generator does not publish it; two runs are the pick and its
successor. Two keys on a match are what exposure, correlation and the ledger's order can
tell apart; the balance of four with a minimum stake of two reaches the overdraft and the empty
bankroll. Processors and recovery touch a run by its id, so one run is enough for its life, and a
fault budget of three covers a stall, its failure and a crash; two schedulers and two runs are what
an overlap needs. A cached alias is right or outdated, so two versions and one change tell every
copy apart, from a start with a row or without and with the flag on or off; without a row and with
the flag off one change leaves no copy outdated, so that start is left out. Two processes have a copy each that
the other does not invalidate; they are alike, so the one change is made at one of them. Two flows and
the base model are a champion and two challengers, whose decisions, switches and rollbacks cross;
two research flows share a run in every order. Two syncs are a reader of an old row and a writer
in between; two submissions with three copies of a job are what can claim it.
`ingestion_schedule` uses the symmetry of schedulers and of processors, `publish_modes` that of
publishers; they check invariants and a refinement without liveness. Deadlock is not checked: the bounds end every behaviour.

**Fairness.** `PublishSelection`: a publisher's next step is the continuation of one async
function; begin, crash, readers and administrators are not fair. `Bankroll`: the hourly job keeps
firing while the layer is enabled; pipelines are not fair. `IngestionRuns`: a scheduler's timer and
its tick go on; the recovery interval is over again and again, so scanning is strongly fair; a lock
nobody uses expires; rows get old. Queue, processors, syncs and heartbeats are not fair: a job may
be lost and a sync may hang. `AliasCache`: entries expire, and a resolution that waits for an answer goes
on; no resolution has to start, and an invalidation may stop anywhere. `ModelLifecycle` and
`ResearchLab`: a job whose child is done is delivered and worked on, one flow like the other, and a
request that wrote the run's row goes on or fails; requests and failures are not fair. `MatchFeed`: time
passes, and nothing else is assumed: a sync may stop anywhere. That the reconciling poll is answered
again and again is the premise of `ResultStands`. `PrivacyRequests` states no liveness.

## Proofs

Every invariant and every action property that a passing run checks is a theorem, and so is the
safety part of the two refinements. The proofs need nothing but the assumptions on the constants,
which TLC evaluates on every run.

`PublishSelectionProofs` shows, from the assumption `PublishAssumption` on the constants only:

| Theorem | Argument |
|---|---|
| `TypeCorrect` | `TypeOK` is inductive, one case per action |
| `LivePicksAreUnique` | inductive with `TypeOK`: a commit that approves finds no opposing live decision it does not suppress (`ConflictReasons`), one that forces is the exception the invariant names |
| `LiveNeverReturns` | a step adds a decision or suppresses some; none becomes live |
| `NamedPointersArePublic` | inductive once strengthened: a pointer's decision is public and not suppressed, because a suppression deletes its pointer in the same step, and the reader never changes a pointer's decision |
| `OnlySelfHealLeavesStalePointers`, `PointersAreNewest` | while no reader is healing, the run and the decision of a pointer are the newest run of its tuple: a commit publishes its own run, which is newer than every other, or takes the pointer away. Without the premise it is false, and the corollary is the run's instance, which has no readers |
| `PickLimitsHold` | the live decisions before an approval only shrink, and at its commit they left it room |
| `HandedSelectionsWereFinal` | inductive over `handed` and the pending hand-offs |
| `EngineImplementsPickBook` | the refinement `picks <- LivePicks`: a commit is `Approve`, `Force` or `Decline`, every other step stutters |

`IngestionRunsProofs` shows, from `IngestionAssumption`, for any number of processes, runs and faults:

| Theorem | Argument |
|---|---|
| `TypeCorrect` | `TypeOK` is inductive; every change of `runs` appends a row or replaces one by a row |
| `RunsOnlyMoveForward` | the same case analysis: only `Claim` makes a run running, from queued |
| `RunsAreProcessedOnce` | inductive with *a run being synced is not queued*: a claim needs a queued run, and no step makes a run queued again |
| `LeasesAreKept` | inductive: only a free lock is taken, and a release compares the owner |
| `RunsDoNotOverlap` | inductive with: undisturbed, only the lock's owner ticks, only the newest run is under way, a synced run is running, and a tick that read no active row has none under way |

`ModelLifecycleProofs` shows, from `LifecycleAssumption`, for any number of models, flows, drifts and
failures. One invariant carries the four theorems, because what a job holds between two steps
connects them:

| Theorem | Argument |
|---|---|
| `DecisionsRestOnWindows` | whatever may be resolved has served, every model in any row was created, and a window is never withdrawn |
| `ChampionsHaveCauses` | inductive with: a held or latest promotion was decided |
| `ClosedDriftsWereRolledBack` | inductive with: an attempt past `RecordRollback` holds a drift that a rollback event names |
| `RegistrationsAreBacked` | inductive with: a flow past a job has that job's row for its model, also after a repeated attempt |

`ResearchLabProofs` shows, from `ResearchAssumption`, for any number of flows and trials:

| Theorem | Argument |
|---|---|
| `ApprovalsHaveEvidence` | inductive: metrics of a trial and a candidate's robustness run are never taken back |
| `PrunedTrialsAreNoCandidates` | inductive with: the flow alone at the run has made no candidate before its seventh stage, and prunes nothing after it |

`AliasCacheProofs` shows, from `CacheAssumption`, for any number of processes, versions and switches:

| Theorem | Argument |
|---|---|
| `ModelsAreTheirComponents`, `ModelsTypes` | a step of `MCModels` is a step of one component and leaves the variables of the others: a behaviour of the run is one of each, so the theorems about the three hold in it |
| `CachesImplementServingView` | the refinement `champion <- alias`, `fallback <- base`, `aliasing <- enabled`, `servable <- Servable`: `Servable` counts the fallback as long as a resolution that saw no row may still ask for it, so every answer and every copy was in it before; `SwitchAlias` is `Crown`, `ActivateModel` is `Activate`, `SetFlag` is `Toggle`, and every other step takes models other than the current one away (`ForgetOld`) or stutters; the fairness of `ServingView` is left to TLC |

`PrivacyRequestsProofs` shows, from `PrivacyAssumption`, for any finite number of calls, holds and failures:

| Theorem | Argument |
|---|---|
| `JobsExecuteOncePerQueuing` | inductive with a count: the executions of a job, the deliveries that claimed it and have not executed yet, and one more if it can be claimed, are no more than its queuings |
| `CallsAndJobsTellOneStory`, `VerdictsStand` | inductive for requests that have a job, while calls follow one another (`Apart`): only one call or inline copy is between reading a status and writing it, so what it judged is still there; every place a worker can be in says which statuses and jobs it can meet, who holds a job, and whether anything was executed. A refusal then means nothing was, a completion that its job was |
| `SoloRequestsProgress`, `SoloRequestsRestClosed` | for a request submitted once, without a stumble: as long as it is not closed, there is a job to be claimed, or a worker that has not come to rest and is responsible for it (`SoloInv`); copies start and retry in the order the calls prescribe (`OnTime`). When nothing is left to do, nobody can be responsible, so it is closed |

`MatchFeedProofs` shows, from `MatchFeedAssumption`, for any syncs, windows and faults:

| Theorem | Argument |
|---|---|
| `TriggersGenerateOnce` | inductive: a trigger in the table was generated or has one holder, a trigger that is not has neither, and only a run's death takes a holder away |
| `FinishedMatchesHaveScores` | inductive with: the outcome a sync is about to write has a score if it is finished; a merge of rows with this property has it |
| `OneWriterTakesNothingBack` | inductive while at most one sync is between reading the row and writing it (`OneWriter`): what it is about to write keeps the score and the end of the match the row has (`KeptInv`), because a merge does (`MergedKeeps`) and the two writes without a report touch neither. Without the premise it is false, and the reconciling poll of `ResultStands` has to make it good |
| `ScoresSaidTwiceAreBelieved` | about `mergeMatchState()` alone: the first report leaves its source, so the second is compared with itself |
| `RecordsAreTheirComponents`, `RecordsTypes` | as for `MCModels`: a behaviour of `MCRecords` is one of `PrivacyRequests` and one of the steps of `MatchFeed`, without its fairness |

`BankrollProofs` shows, from `BankrollAssumption`, for any keys, limits, pipelines and repetitions.
Three invariants build on one another. `BookInv`: entries of the ledger are about existing orders, no
two of a kind are about the same, a settlement entry is about a recorded order, and while nothing is
repeated a key has one pipeline and no order before that pipeline places it. `TypesInv`: the types,
a pipeline that comes to the execution has its ticket, and an order that was ever placed has its
opening entry. `MoneyInv`: the two statements about the balances; the second needs the first, which
says that the reserve covers what a settlement takes from it.

| Theorem | Argument |
|---|---|
| `OrdersSettleOnce` | the due orders have no record, so none of the settlement entries before is about them |
| `LedgerRebuildsAccount` | the last of a settlement's entries carries the account it leaves, whatever the sums are; a first placement appends its entry, only a repeated one rewrites an older one |
| `SettledOrdersStay` | a settlement touches orders without a record only, a first placement a key without an order |
| `TypesHold` | payouts and stakes are sums of naturals; the clamps of `Reserve` and `Settled` keep the balances natural |
| `ReservationsAreCovered` | a first placement adds one stake to both sides, a settlement takes the same set of stakes from both, and recomputing changes nothing because the ledger's tail is the account |
| `NoMoneyIsLost` | for every settled order the payout is its stake and its result, or nothing for one that is stranded; summed over the due orders this is the change of the account |
| `OnePipelineNeverOverdraws` | inductive while one pipeline runs at a time and the balance covers the minimum stake (`FundedInv`): no sizing exceeds the balance, the checks and the ticket only shrink a stake, and until the only pipeline executes the balance can only grow. So the overdraft that `EquityAccountedFor` excepts takes pipelines side by side or a raised stake |
| `LedgerOnlyGrows` | a settlement and a first placement append; a repeated placement rewrites the entry of its own key at its place |

The sums over finite sets of keys are defined by a fold, about which the library has no facts that
can be used here. `SumIsOneOfThem` to `SumOfSums` derive what is needed (the sum of nothing, of a set
and one more element, of two disjoint sets, of two functions added up) from the fold's definition and
the library's theorem that finite sets are well-founded under inclusion, by way of a smallest
counterexample.

**Where the documents are right.** The five statements that runs refute hold under a condition, which
is a theorem too, so that the finding says exactly what is missing:

| Statement of a document | holds | Theorem |
|---|---|---|
| `VisibleRunsAreApproved` | until a request heals the pointers | `OnlySelfHealShowsUnapproved` |
| `MoneyIsIdempotent` | while nothing is handed over or run twice | `ReservationsAreCovered` |
| `ConcurrentTicketsLimited` | if one pipeline runs at a time and the check is on: what `CONCURRENT_OPEN` counted is still true at the execution (`CheckedInv`) | `OnePipelineKeepsTheLimit` |
| `KillSwitchStopsOrders` | if the layer is switched off while no pipeline runs | `SwitchAtRestStopsOrders` |
| `ResultPicksAreDecided` | if every pick's market is one `evaluateSingleLeg()` knows as a result | `KnownResultPicksAreDecided` |

**Only model-checked** is liveness, which the prover does not handle: `PublishTerminates`,
`SettlesInTheEnd`, `EveryRunEnds`, `ServedInTheEnd`, `FlowsEnd`, `RunEndsClosed`, `ResultStands`, and
the fairness of `ServingView` in `ImplementsServingView`.

## What is not modelled

- Numeric code (models, calibration, Kelly fractions, simulation, governance statistics, drift
  measures) chooses among the values a model offers and is not checked for what it computes. This is
  the larger part of the source, with the mapping of provider responses, text generation, expansion
  of predictions to derived markets, report rows, endpoints and front ends: the models map about an
  eighth of it, the part where state is shared.
- Authentication, access governance and security operations decide who may do what. They are
  questions of security, and left aside.
- Odds ingestion and connectors append rows; historical import is run by hand, one step after the
  other. In provider ingestion the lookup and merging of teams and leagues, standings and profiles
  are left out, and of its jobs those that do not write a result.
- The identity of teams, where administrators' rules are edited in one process's snapshot and
  stored as a whole.
- Retention cleanup, the content of exports and the audit trail of privacy governance; projects,
  notes and tags of the research lab, and the gate an administrator evaluates by hand, which takes
  its evidence from the request; rate-limit counters of the cache.
- `findPublishedRows()` without the decision gate, after a query error: it shows every pointer. A
  postponed match never settles and appears as one that never ends. The memory lock's own expiry
  only delays a process that has no Redis.

## Plan

Done: `PublishSelection` with `PickBook`, `Bankroll`, `IngestionRuns`, `AliasCache` with
`ServingView`, `ModelLifecycle`, `ResearchLab`, `MatchFeed`, `PrivacyRequests`, and the proofs above.

What would follow, in this order:

1. An abstract ledger (an account that only reserves and settles) that the single-pass pipeline
   implements.
2. A composition of `PublishSelection` and `Bankroll` over the hand-off, for what the bankroll may
   assume of the picks it gets, and of `MatchFeed` and `Bankroll` over a result that is corrected
   after its orders were settled.
3. Several job types in one tick of the scheduler, and the daily windows.
4. The identity of teams: rule actions of two administrators, which both start from an old snapshot,
   and the clusters the rules lead to.
5. Request budgets and backoff of the provider connectors.
