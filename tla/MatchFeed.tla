------------------------------ MODULE MatchFeed ------------------------------
(* How one match comes to its result, in provider-ingestion.service.ts.  The  *)
(* runs of the sync jobs ask the providers for the match, read its row, merge *)
(* the report into what they read and write the row back, without a           *)
(* transaction; the provider enricher adds the half-time score on the side.   *)
(* football_data polls behind a lock with a time to live, moves a cursor      *)
(* along and, from what it wrote, registers the triggers that have the        *)
(* predictions of the match generated.                                        *)
EXTENDS Naturals, FiniteSets

CONSTANTS
    Castings,       \* sets of syncs the scheduler may be set up with
    Others,         \* the providers beside football_data
    Reliability,    \* providerReliabilityScore of every source
    Windows,        \* prematch windows, of "24h", "6h" and "1h"
    MaxEvents       \* bound: runs that die, locks that expire under a run,
                    \* half-time scores from an enricher, rewinds of the cursor

Polled == "football_data"
Providers == Others \cup {Polled}
\* Polls that follow the cursor, and polls that do not.  The two jobs of the
\* fixtures write through the same functions: for a match near today they are
\* polls of the second kind, which ask for fewer days.
Jobs == {"results", "reconcile"}

ASSUME MatchFeedAssumption ==
    /\ Polled \notin Others
    /\ \A c \in Castings : c \subseteq Jobs \X Providers
    /\ Reliability \in [Providers -> Nat]
    /\ Windows \subseteq {"24h", "6h", "1h"}
    /\ MaxEvents \in Nat

VARIABLES
    cast,           \* the syncs that run: a job and a provider that is active
    clock,          \* where kickoff is
    row,            \* the match row
    passed,         \* the results cursor is past the day of the match
    feedLock,       \* who holds provider-sync:football_data
    triggers,       \* prediction_phase_trigger checkpoints
    generated,      \* history: generations for every trigger
    runs,           \* what every sync is about to do
    enricher,       \* the source the enricher read, while it is under way
    crashed,        \* history: a run died
    events          \* counter of the bound

feedVars == <<cast, clock, row, passed, feedLock, triggers, generated, runs, enricher, crashed, events>>

-----------------------------------------------------------------------------
\* From 2 to 6 hours before kickoff, less than 2 hours before it, the match is
\* on, it ended less than 6 hours after kickoff, that time is over.
Clocks == <<"ahead", "soon", "playing", "over", "stale">>
Tell(c) == CHOOSE i \in DOMAIN Clocks : Clocks[i] = c

MatchStatus == {"scheduled", "live", "finished", "postponed", "cancelled"}
None == "none"
Scores == {"running", "final"}      \* a score while the match is on, its result
Half == "half"                      \* the half-time score

NoRow == [status |-> None, score |-> None, half |-> None, source |-> None]
Rows == [status : MatchStatus, score : Scores \cup {None}, half : {Half, None}, source : Providers]

\* What a provider may say of the match: reports of a match that is on come
\* with a score or without, and may come late.
Reported(c) ==
    CASE c \in {"ahead", "soon"} -> {<<"scheduled", None, None>>, <<"postponed", None, None>>}
      [] c = "playing" -> {<<"scheduled", None, None>>, <<"live", None, Half>>, <<"live", "running", Half>>}
      [] c = "over" -> {<<"live", "running", Half>>, <<"finished", None, None>>, <<"finished", "final", Half>>}
      [] c = "stale" -> {<<"finished", "final", Half>>}

Report(said, p) == [status |-> said[1], score |-> said[2], half |-> said[3], source |-> p]

\* The keys of the triggers.
HalfTime == <<"ht", Half>>
FullTime(score) == <<"ft", score>>
Prematch(w) == <<"prematch", w>>
Keys == {Prematch(w) : w \in Windows} \cup {HalfTime} \cup {FullTime(s) : s \in Scores}

-----------------------------------------------------------------------------
(* mergeMatchState.                                                          *)

\* normalizeMatchStatus: a score makes a match finished, also one that is on.
Normalized(report) ==
    IF report.score # None /\ clock # "ahead"
    THEN [report EXCEPT !.status = "finished"] ELSE report

KeepsScore(old, new) ==
    /\ old.score # None
    /\ \/ new.score = None
       \/ new.score # old.score /\ Reliability[old.source] > Reliability[new.source]

\* Mutant of StatusOf: a report without a score is believed that the match is over.
StatusOfBelieved(old, new) ==
    IF old.score = None /\ new.score = None THEN new.status
    ELSE IF KeepsScore(old, new) /\ old.status # "finished" THEN new.status ELSE "finished"

StatusOf(old, new) ==
    IF old.score # None /\ new.score # None /\ KeepsScore(old, new)
       THEN IF old.status = "finished" THEN "finished" ELSE new.status
    ELSE IF new.score # None THEN "finished"
    ELSE IF old.score # None
       THEN IF old.status = "finished" \/ new.status # "cancelled" THEN "finished" ELSE new.status
    ELSE IF new.status = "finished"     \* finished without a score is not believed
       THEN IF old.status \in {None, "finished"} THEN "scheduled" ELSE old.status
    ELSE new.status

\* Mutant of Merged: a score that is kept keeps its source.
MergedWithItsSource(old, new) ==
    LET score == IF KeepsScore(old, new) THEN old.score ELSE new.score
        status == StatusOf(old, new) IN
    [status |-> IF status = "scheduled" /\ score = None /\ clock = "stale" THEN "postponed" ELSE status,
     score  |-> score,
     half   |-> IF new.half = None THEN old.half ELSE new.half,
     source |-> IF KeepsScore(old, new) THEN old.source ELSE new.source]

\* The source is that of the report, whoever the score came from.
Merged(old, new) ==
    LET score == IF KeepsScore(old, new) THEN old.score ELSE new.score
        status == StatusOf(old, new) IN
    [status |-> IF status = "scheduled" /\ score = None /\ clock = "stale" THEN "postponed" ELSE status,
     score  |-> score,
     half   |-> IF new.half = None THEN old.half ELSE new.half,
     source |-> new.source]

\* buildPredictionPhaseTriggers.
Open(w) == clock = "soon" \/ (clock = "ahead" /\ w # "1h")

Triggers(m) ==
    {Prematch(w) : w \in {v \in Windows : m.status = "scheduled" /\ Open(v)}}
    \cup (IF m.status = "live" /\ m.half # None /\ m.score = None THEN {HalfTime} ELSE {})
    \cup (IF m.status = "finished" /\ m.score # None THEN {FullTime(m.score)} ELSE {})

-----------------------------------------------------------------------------
\* A run: its next step; the report it works on and then
\* the row it is writing; the triggers it has still to register, the one it is
\* creating and those it accepted.
Resting == [step |-> "idle", match |-> NoRow,
            found |-> {}, key |-> {}, accepted |-> {}]

FeedInit ==
    /\ cast \in Castings
    /\ clock = "ahead" /\ row = NoRow /\ passed = FALSE
    /\ feedLock = {}
    /\ triggers = {} /\ generated = [k \in Keys |-> 0]
    /\ runs = [r \in cast |-> Resting]
    /\ enricher = None
    /\ crashed = FALSE /\ events = 0

Job(r) == r[1]
Provider(r) == r[2]

Now(r, step) == runs[r].step = step

Turns(r, step) == runs' = [runs EXCEPT ![r].step = step]

\* sync: the row is normalised, then the providers are asked in turn; a run
\* stands for the part of one of them.  football_data goes for its lock.
Begin(r) ==
    /\ Now(r, "idle")
    /\ row' = IF clock = "stale" /\ row.score = None /\ row.status \in {"scheduled", "finished"}
              THEN [row EXCEPT !.status = "postponed"] ELSE row
    /\ Turns(r, IF Provider(r) = Polled THEN "plan" ELSE "fetch")
    /\ UNCHANGED <<cast, clock, passed, feedLock, triggers, generated, enricher, crashed, events>>

\* Only the results job follows the cursor; past it, it asks for nothing of
\* the match's day.  The other asks for the last 30 days, in which the match is.
Covers(job) == job = "results" => ~passed

Plan(r) ==
    /\ Now(r, "plan")
    /\ Turns(r, IF Covers(Job(r)) THEN "lock" ELSE "lockBlind")
    /\ UNCHANGED <<cast, clock, row, passed, feedLock, triggers, generated, enricher, crashed, events>>

\* Mutant of Lock: the lock is taken from whoever has it.
LockAnyhow(r) ==
    /\ runs[r].step \in {"lock", "lockBlind"}
    /\ feedLock' = feedLock \cup {r}
    /\ Turns(r, IF Now(r, "lock") THEN "fetch" ELSE "checkpoint")
    /\ UNCHANGED <<cast, clock, row, passed, triggers, generated, enricher, crashed, events>>

Lock(r) ==
    /\ runs[r].step \in {"lock", "lockBlind"}
    /\ IF feedLock = {}
       THEN /\ feedLock' = {r}
            /\ Turns(r, IF Now(r, "lock") THEN "fetch" ELSE "checkpoint")
       ELSE /\ runs' = [runs EXCEPT ![r] = Resting]
            /\ UNCHANGED feedLock
    /\ UNCHANGED <<cast, clock, row, passed, triggers, generated, enricher, crashed, events>>

Fetch(r) ==
    /\ Now(r, "fetch")
    /\ \E said \in Reported(clock) :
         runs' = [runs EXCEPT ![r].match = Report(said, Provider(r)), ![r].step = "read"]
    /\ UNCHANGED <<cast, clock, row, passed, feedLock, triggers, generated, enricher, crashed, events>>

\* The request fails: the competition is left out, the run goes on.
FetchFails(r) ==
    /\ Now(r, "fetch")
    /\ IF Provider(r) = Polled THEN Turns(r, "checkpoint")
       ELSE runs' = [runs EXCEPT ![r] = Resting]
    /\ UNCHANGED <<cast, clock, row, passed, feedLock, triggers, generated, enricher, crashed, events>>

\* upsertMatchFromExternal reads the row and merges the report into it ...
ReadRow(r) ==
    /\ Now(r, "read")
    /\ runs' = [runs EXCEPT ![r].match = Merged(row, Normalized(@)), ![r].step = "write"]
    /\ UNCHANGED <<cast, clock, row, passed, feedLock, triggers, generated, enricher, crashed, events>>

\* ... and writes the outcome, whatever the row is by then.
WriteRow(r) ==
    /\ Now(r, "write")
    /\ row' = runs[r].match
    /\ runs' = [runs EXCEPT ![r] =
         IF Provider(r) = Polled
         THEN [@ EXCEPT !.match = NoRow, !.found = Triggers(row'), !.step = "find"]
         ELSE Resting]
    /\ UNCHANGED <<cast, clock, passed, feedLock, triggers, generated, enricher, crashed, events>>

\* registerPredictionPhaseTrigger: a key that is there is dropped, ...
FindTrigger(r) ==
    /\ Now(r, "find")
    /\ IF runs[r].found = {}
       THEN Turns(r, IF runs[r].accepted = {} THEN "checkpoint" ELSE "generate")
       ELSE \E k \in runs[r].found :
              runs' = [runs EXCEPT ![r].found = @ \ {k},
                                   ![r].key = IF k \in triggers THEN {} ELSE {k},
                                   ![r].step = IF k \in triggers THEN "find" ELSE "create"]
    /\ UNCHANGED <<cast, clock, row, passed, feedLock, triggers, generated, enricher, crashed, events>>

\* Mutant of CreateTrigger: the row is written whether it was there or not.
CreateTriggerAnyhow(r) ==
    /\ Now(r, "create")
    /\ triggers' = triggers \cup runs[r].key
    /\ runs' = [runs EXCEPT ![r].accepted = @ \cup runs[r].key,
                            ![r].key = {}, ![r].step = "find"]
    /\ UNCHANGED <<cast, clock, row, passed, feedLock, generated, enricher, crashed, events>>

\* ... another one is created, unless the unique key says somebody was faster.
CreateTrigger(r) ==
    /\ Now(r, "create")
    /\ triggers' = triggers \cup runs[r].key
    /\ runs' = [runs EXCEPT ![r].accepted = @ \cup (runs[r].key \ triggers),
                            ![r].key = {}, ![r].step = "find"]
    /\ UNCHANGED <<cast, clock, row, passed, feedLock, generated, enricher, crashed, events>>

Generate(r) ==
    /\ Now(r, "generate")
    /\ generated' = [k \in Keys |-> IF k \in runs[r].accepted THEN generated[k] + 1 ELSE generated[k]]
    /\ runs' = [runs EXCEPT ![r].accepted = {}, ![r].step = "checkpoint"]
    /\ UNCHANGED <<cast, clock, row, passed, feedLock, triggers, enricher, crashed, events>>

\* The cursor goes to tomorrow even when the competition was left out.  Before
\* kickoff that may still be the day of the match.
Checkpoint(r) ==
    /\ Now(r, "checkpoint")
    /\ passed' \in IF Job(r) # "results" THEN {passed}
                   ELSE IF clock \in {"ahead", "soon"} THEN BOOLEAN ELSE {TRUE}
    /\ Turns(r, "release")
    /\ UNCHANGED <<cast, clock, row, feedLock, triggers, generated, enricher, crashed, events>>

Release(r) ==
    /\ Now(r, "release")
    /\ feedLock' = feedLock \ {r}
    /\ runs' = [runs EXCEPT ![r] = Resting]
    /\ UNCHANGED <<cast, clock, row, passed, triggers, generated, enricher, crashed, events>>

\* What happens a bounded number of times.
Event == events < MaxEvents /\ events' = events + 1

\* The process dies, or an error leaves the sync before its lock is free.
Crash(r) ==
    /\ Event /\ ~Now(r, "idle")
    /\ crashed' = TRUE
    /\ runs' = [runs EXCEPT ![r] = Resting]
    /\ UNCHANGED <<cast, clock, row, passed, feedLock, triggers, generated, enricher>>

\* The time to live of the lock ends: under the run that holds it, or after it.
ExpireLock ==
    /\ feedLock # {} /\ feedLock' = {}
    /\ IF \A r \in feedLock : runs[r].step \in {"idle", "plan", "lock", "lockBlind"}
       THEN UNCHANGED events ELSE Event
    /\ UNCHANGED <<cast, clock, row, passed, triggers, generated, runs, enricher, crashed>>

\* rewindFootballResultsCheckpoints.
Rewind ==
    /\ Event /\ passed /\ passed' = FALSE
    /\ UNCHANGED <<cast, clock, row, feedLock, triggers, generated, runs, enricher, crashed>>

\* The enrichers of match details write the half-time score of a row that had
\* none, and the source they read with it.
EnrichRead ==
    /\ enricher = None
    /\ Event
    /\ row # NoRow /\ row.half = None /\ clock \notin {"ahead", "soon"}
    /\ enricher' = row.source
    /\ UNCHANGED <<cast, clock, row, passed, feedLock, triggers, generated, runs, crashed>>

EnrichWrite ==
    /\ enricher # None
    /\ row' = [row EXCEPT !.half = Half, !.source = enricher]
    /\ enricher' = None
    /\ UNCHANGED <<cast, clock, passed, feedLock, triggers, generated, runs, crashed, events>>

Tick ==
    /\ clock # "stale"
    /\ clock' = Clocks[Tell(clock) + 1]
    /\ UNCHANGED <<cast, row, passed, feedLock, triggers, generated, runs, enricher, crashed, events>>

-----------------------------------------------------------------------------
Step(r) ==
    \/ Plan(r) \/ Lock(r) \/ ReadRow(r) \/ WriteRow(r)
    \/ FindTrigger(r) \/ CreateTrigger(r) \/ Generate(r) \/ Checkpoint(r) \/ Release(r)

FeedNext ==
    \/ \E r \in cast : Begin(r) \/ Step(r) \/ Fetch(r) \/ FetchFails(r) \/ Crash(r)
    \/ Rewind \/ ExpireLock \/ EnrichRead \/ EnrichWrite \/ Tick

\* Time passes; a sync may stop anywhere, for ever.
FeedFairness == WF_feedVars(Tick)

FeedSpec == FeedInit /\ [][FeedNext]_feedVars /\ FeedFairness

-----------------------------------------------------------------------------
RunSteps == {"idle", "plan", "lock", "lockBlind", "fetch", "read", "write",
             "find", "create", "generate", "checkpoint", "release"}
Run == [step : RunSteps, match : Rows \cup {NoRow},
        found : SUBSET Keys, key : SUBSET Keys, accepted : SUBSET Keys]

FeedTypeOK ==
    /\ cast \in Castings /\ clock \in {Clocks[i] : i \in DOMAIN Clocks}
    /\ row \in Rows \cup {NoRow} /\ passed \in BOOLEAN
    /\ feedLock \subseteq cast /\ Cardinality(feedLock) <= 1
    /\ triggers \subseteq Keys /\ generated \in [Keys -> Nat]
    /\ runs \in [cast -> Run] /\ \A r \in cast : runs[r].accepted \subseteq triggers
    /\ enricher \in Providers \cup {None} /\ crashed \in BOOLEAN /\ events \in 0..MaxEvents

\* Whatever the syncs do to one another, no trigger has predictions generated
\* twice, and one that was registered is lost only with the run that did it.
Holders(k) == {r \in cast : k \in runs[r].accepted}

TriggersAreFollowedOnce ==
    \A k \in Keys : LET n == generated[k] + Cardinality(Holders(k)) IN
       IF k \in triggers /\ ~crashed THEN n = 1 ELSE n <= 1

\* A match is only finished with its score.
FinishedHasScore == row.status = "finished" => row.score # None

\* The result stands in the end, if the reconciling poll is answered again and
\* again: it makes good the scores taken while the match was on, the rows
\* overwritten by runs that had read them earlier, the requests that failed and
\* the cursor that went past them.
Reconcile == <<"reconcile", Polled>>
Answered == Reconcile \in cast /\ Fetch(Reconcile)

ResultStands ==
    []<><<Answered>>_feedVars => <>[](row.status = "finished" /\ row.score = "final")
=============================================================================
