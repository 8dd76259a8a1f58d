-------------------------- MODULE MatchFeedProofs --------------------------
(* Proofs about MatchFeed, for any providers and reliabilities, any syncs     *)
(* that run side by side and any number of events, and in the end about       *)
(* MCRecords, which puts it beside PrivacyRequests.                           *)
EXTENDS MCRecords, PrivacyRequestsProofs, FiniteSetTheorems, TLAPS

USE MatchFeedAssumption

-----------------------------------------------------------------------------
(* The inductive invariant.                                                   *)

\* FeedTypeOK, with the lock by what it is instead of its cardinality.
TypesInv ==
    /\ cast \in Castings /\ clock \in {Clocks[i] : i \in DOMAIN Clocks}
    /\ row \in Rows \cup {NoRow} /\ passed \in BOOLEAN
    /\ feedLock = {} \/ \E r \in cast : feedLock = {r}
    /\ triggers \subseteq Keys /\ generated \in [Keys -> Nat]
    /\ runs \in [cast -> Run] /\ \A r \in cast : runs[r].accepted \subseteq triggers
    /\ enricher \in Providers \cup {None} /\ crashed \in BOOLEAN /\ events \in 0..MaxEvents

\* There is a report to work on, and a row to enrich.
WorkInv ==
    /\ \A r \in cast : runs[r].step \in {"read", "write"} => runs[r].match \in Rows
    /\ enricher # None => row # NoRow

\* Triggers are accepted while they are registered, and generated for after it.
AcceptInv ==
    \A r \in cast : runs[r].step \in {"find", "create", "generate"} \/ runs[r].accepted = {}

\* What is written, or about to be, is only finished with its score.
Believed(m) == m.status = "finished" => m.score # None
ScoreInv == Believed(row) /\ \A r \in cast : runs[r].step = "write" => Believed(runs[r].match)

\* A trigger is with one run, until its predictions are generated once.
FollowedOnce(k) ==
    /\ generated[k] <= 1 /\ (k \notin triggers => generated[k] = 0)
    /\ \A r \in Holders(k) : generated[k] = 0 /\ Holders(k) = {r}
    /\ k \in triggers /\ ~crashed => generated[k] = 1 \/ Holders(k) # {}

TriggerInv == \A k \in Keys : FollowedOnce(k)

FeedInv == TypesInv /\ WorkInv /\ AcceptInv /\ ScoreInv /\ TriggerInv

-----------------------------------------------------------------------------
(* Rows, reports and clocks.                                                  *)

LEMMA ClockNames == {Clocks[i] : i \in DOMAIN Clocks} = {"ahead", "soon", "playing", "over", "stale"}
<1>1. DOMAIN Clocks = 1..5
  BY DEF Clocks
<1>2. Clocks[1] = "ahead" /\ Clocks[2] = "soon" /\ Clocks[3] = "playing" /\ Clocks[4] = "over" /\ Clocks[5] = "stale"
  BY DEF Clocks
<1>3. \A i \in 1..5 : i = 1 \/ i = 2 \/ i = 3 \/ i = 4 \/ i = 5
  OBVIOUS
<1>. QED BY <1>1, <1>2, <1>3

LEMMA TickTypes ==
    ASSUME clock \in {Clocks[i] : i \in DOMAIN Clocks}, clock # "stale"
    PROVE  Clocks[Tell(clock) + 1] \in {Clocks[i] : i \in DOMAIN Clocks}
<1>1. DOMAIN Clocks = 1..5 /\ Clocks[5] = "stale"
  BY DEF Clocks
<1>2. Tell(clock) \in DOMAIN Clocks /\ Clocks[Tell(clock)] = clock
  BY DEF Tell
<1>3. Tell(clock) + 1 \in DOMAIN Clocks
  BY <1>1, <1>2
<1>. QED BY <1>3

LEMMA CastTypes ==
    ASSUME TypesInv, NEW r \in cast
    PROVE  Provider(r) \in Providers /\ Job(r) \in Jobs /\ runs[r] \in Run
BY DEF TypesInv, Provider, Job

LEMMA ReportTypes ==
    ASSUME clock \in {Clocks[i] : i \in DOMAIN Clocks}, NEW said \in Reported(clock), NEW p \in Providers
    PROVE  Report(said, p) \in Rows
<1>1. said[1] \in MatchStatus /\ said[2] \in Scores \cup {None} /\ said[3] \in {Half, None}
  BY ClockNames DEF Reported, MatchStatus, Scores
<1>. QED BY <1>1 DEF Report, Rows

LEMMA NormalizedTypes ==
    ASSUME NEW report \in Rows
    PROVE  Normalized(report) \in Rows
BY DEF Normalized, Rows, MatchStatus

LEMMA StatusTypes ==
    ASSUME NEW old \in Rows \cup {NoRow}, NEW new \in Rows
    PROVE  StatusOf(old, new) \in MatchStatus
<1>1. old.status \in MatchStatus \cup {None} /\ new.status \in MatchStatus
  BY DEF Rows, NoRow
<1>2. None \notin MatchStatus /\ "finished" \in MatchStatus /\ "scheduled" \in MatchStatus
  BY DEF None, MatchStatus
<1>. QED BY <1>1, <1>2 DEF StatusOf

\* Finished without a score is not believed: no merge makes it up.
LEMMA MergedIsBelieved ==
    ASSUME NEW old \in Rows \cup {NoRow}, NEW new \in Rows, Believed(old)
    PROVE  Merged(old, new) \in Rows /\ Believed(Merged(old, new))
<1>. DEFINE score == IF KeepsScore(old, new) THEN old.score ELSE new.score
            status == StatusOf(old, new)
            half == IF new.half = None THEN old.half ELSE new.half
            shown == IF status = "scheduled" /\ score = None /\ clock = "stale" THEN "postponed" ELSE status
<1>1. Merged(old, new) = [status |-> shown, score |-> score, half |-> half, source |-> new.source]
  BY DEF Merged
<1>2. status \in MatchStatus
  BY StatusTypes
<1>3. old.score \in Scores \cup {None} /\ new.score \in Scores \cup {None}
  BY DEF Rows, NoRow
<1>4. score \in Scores \cup {None}
  BY <1>3
<1>5. half \in {Half, None} /\ new.source \in Providers
  BY DEF Rows, NoRow
<1>6. status = "finished" => score # None
  <2>1. CASE old.score # None /\ new.score # None
    BY <2>1
  <2>2. CASE old.score # None /\ new.score = None
    BY <2>2 DEF KeepsScore
  <2>3. CASE old.score = None /\ new.score # None
    BY <2>3 DEF KeepsScore
  <2>4. CASE old.score = None /\ new.score = None
    <3>1. old.status # "finished"
      BY <2>4 DEF Believed
    <3>. QED BY <2>4, <3>1 DEF StatusOf
  <2>. QED BY <2>1, <2>2, <2>3, <2>4
<1>7. shown \in MatchStatus /\ (shown = "finished" => status = "finished")
  BY <1>2 DEF MatchStatus
<1>. HIDE DEF score, status, half, shown
<1>. QED BY <1>1, <1>4, <1>5, <1>6, <1>7 DEF Rows, Believed

LEMMA TriggerKeys ==
    ASSUME NEW m \in Rows \cup {NoRow}
    PROVE  Triggers(m) \subseteq Keys
<1>1. m.score = None \/ m.score \in Scores
  BY DEF Rows, NoRow
<1>. QED BY <1>1 DEF Triggers, Keys

LEMMA RestingRun == Resting \in Run /\ Resting.step = "idle" /\ Resting.accepted = {}
BY DEF Resting, Run, RunSteps

-----------------------------------------------------------------------------
(* What the steps of a run have in common.                                    *)

\* A run goes on with q.
LEMMA RunStep ==
    ASSUME FeedInv, NEW r \in cast, NEW q \in Run, runs' = [runs EXCEPT ![r] = q],
           q.step \in {"read", "write"} => q.match \in Rows,
           q.step = "write" => Believed(q.match),
           q.accepted \subseteq triggers', q.step \in {"find", "create", "generate"} \/ q.accepted = {},
           feedLock' = {} \/ \E s \in cast : feedLock' = {s},
           triggers \subseteq triggers', triggers' \subseteq Keys, generated' \in [Keys -> Nat],
           row' \in Rows \cup {NoRow}, row # NoRow => row' # NoRow, Believed(row'),
           passed' \in BOOLEAN, crashed' \in BOOLEAN, events' \in 0..MaxEvents,
           UNCHANGED <<cast, clock, enricher>>
    PROVE  TypesInv' /\ WorkInv' /\ AcceptInv' /\ ScoreInv'
<1>1. /\ runs' \in [cast -> Run] /\ runs'[r] = q /\ \A s \in cast \ {r} : runs'[s] = runs[s]
  BY DEF FeedInv, TypesInv
<1>2. TypesInv'
  BY <1>1 DEF FeedInv, TypesInv
<1>3. WorkInv' /\ AcceptInv'
  BY <1>1 DEF FeedInv, WorkInv, AcceptInv
<1>4. ScoreInv'
  BY <1>1 DEF FeedInv, ScoreInv
<1>. QED BY <1>2, <1>3, <1>4

LEMMA TriggersStay ==
    ASSUME TriggerInv, UNCHANGED <<cast, triggers, generated, crashed>>,
           \A r \in cast : runs'[r].accepted = runs[r].accepted
    PROVE  TriggerInv'
<1>1. \A k \in Keys : Holders(k)' = Holders(k)
  BY DEF Holders
<1>. QED BY <1>1 DEF TriggerInv, FollowedOnce

\* A run goes on with q and keeps what it accepted.
LEMMA FeedQuietStep ==
    ASSUME FeedInv, NEW r \in cast, NEW q \in Run, runs' = [runs EXCEPT ![r] = q],
           q.step \in {"read", "write"} => q.match \in Rows,
           q.step = "write" => Believed(q.match),
           q.accepted = runs[r].accepted, q.step \in {"find", "create", "generate"} \/ q.accepted = {},
           feedLock' = {} \/ \E s \in cast : feedLock' = {s},
           row' \in Rows \cup {NoRow}, row # NoRow => row' # NoRow, Believed(row'),
           passed' \in BOOLEAN,
           UNCHANGED <<cast, clock, triggers, generated, enricher, crashed, events>>
    PROVE  FeedInv'
<1>1. /\ q.accepted \subseteq triggers' /\ triggers \subseteq triggers' /\ triggers' \subseteq Keys
      /\ generated' \in [Keys -> Nat] /\ crashed' \in BOOLEAN /\ events' \in 0..MaxEvents
  BY DEF FeedInv, TypesInv
<1>2. TypesInv' /\ WorkInv' /\ AcceptInv' /\ ScoreInv'
  BY <1>1, RunStep
<1>3. \A s \in cast : runs'[s].accepted = runs[s].accepted
  BY DEF FeedInv, TypesInv
<1>4. TriggerInv'
  BY <1>3, TriggersStay DEF FeedInv
<1>. QED BY <1>2, <1>4 DEF FeedInv

LEMMA NewStep ==
    ASSUME NEW q \in Run, NEW st \in RunSteps
    PROVE  LET n == [q EXCEPT !.step = st] IN
           n \in Run /\ n.step = st /\ n.accepted = q.accepted /\ n.match = q.match
BY DEF Run

\* A run only turns to another step.
LEMMA TurnStep ==
    ASSUME FeedInv, NEW r \in cast, NEW st \in RunSteps, Turns(r, st),
           st \notin {"read", "write"}, st \in {"find", "create", "generate"} \/ runs[r].accepted = {},
           feedLock' = {} \/ \E s \in cast : feedLock' = {s},
           row' \in Rows \cup {NoRow}, row # NoRow => row' # NoRow, Believed(row'),
           passed' \in BOOLEAN,
           UNCHANGED <<cast, clock, triggers, generated, enricher, crashed, events>>
    PROVE  FeedInv'
<1>. DEFINE q == [runs[r] EXCEPT !.step = st]
<1>1. runs[r] \in Run
  BY CastTypes DEF FeedInv
<1>2. q \in Run /\ q.step = st /\ q.accepted = runs[r].accepted
  BY <1>1, NewStep
<1>3. runs' = [runs EXCEPT ![r] = q]
  BY DEF Turns
<1>. HIDE DEF q
<1>. QED BY <1>2, <1>3, FeedQuietStep

\* A run that has accepted nothing ends.
LEMMA EndStep ==
    ASSUME FeedInv, NEW r \in cast, runs' = [runs EXCEPT ![r] = Resting], runs[r].accepted = {},
           feedLock' = {} \/ \E s \in cast : feedLock' = {s},
           row' \in Rows \cup {NoRow}, row # NoRow => row' # NoRow, Believed(row'),
           UNCHANGED <<cast, clock, passed, triggers, generated, enricher, crashed, events>>
    PROVE  FeedInv'
<1>1. passed' \in BOOLEAN
  BY DEF FeedInv, TypesInv
<1>. QED BY <1>1, RestingRun, FeedQuietStep

-----------------------------------------------------------------------------
(* The steps of a run.                                                        *)

LEMMA Standing ==
    ASSUME FeedInv
    PROVE  /\ feedLock = {} \/ \E s \in cast : feedLock = {s}
           /\ row \in Rows \cup {NoRow} /\ Believed(row) /\ passed \in BOOLEAN
           /\ \A r \in cast : /\ runs[r] \in Run
                              /\ runs[r].step \in {"find", "create", "generate"} \/ runs[r].accepted = {}
BY DEF FeedInv, TypesInv, ScoreInv, AcceptInv

LEMMA NamedSteps ==
    /\ {"plan", "lock", "lockBlind", "fetch", "checkpoint", "release"} \subseteq RunSteps
    /\ {"read", "write", "find", "create", "generate"} \subseteq RunSteps
BY DEF RunSteps

LEMMA BeginStep ==
    ASSUME FeedInv, NEW r \in cast, Begin(r)
    PROVE  FeedInv'
<1>1. PICK st \in {"plan", "fetch"} : Turns(r, st)
  BY DEF Begin
<1>2. runs[r].step = "idle"
  BY DEF Begin, Now
<1>3. row' \in Rows \cup {NoRow} /\ (row # NoRow => row' # NoRow) /\ Believed(row')
  <2>1. CASE row.status \in {"scheduled", "finished"} /\ row' = [row EXCEPT !.status = "postponed"]
    <3>1. row \in Rows
      BY <2>1, Standing DEF NoRow, None
    <3>2. row' \in Rows /\ row'.status = "postponed"
      BY <2>1, <3>1 DEF Rows, MatchStatus
    <3>. QED BY <3>2 DEF Believed, NoRow, None
  <2>2. CASE row' = row
    BY <2>2, Standing DEF Believed
  <2>. QED BY <2>1, <2>2 DEF Begin
<1>4. /\ feedLock' = feedLock /\ passed' = passed
      /\ UNCHANGED <<cast, clock, triggers, generated, enricher, crashed, events>>
  BY DEF Begin
<1>5. st \in RunSteps /\ st \notin {"read", "write"} /\ runs[r].accepted = {}
  BY <1>2, NamedSteps, Standing
<1>. QED BY <1>1, <1>3, <1>4, <1>5, Standing, TurnStep

LEMMA LockSteps ==
    ASSUME FeedInv, NEW r \in cast, Plan(r) \/ Lock(r)
    PROVE  FeedInv'
<1>1. runs[r].step \in {"plan", "lock", "lockBlind"}
  BY DEF Plan, Lock, Now
<1>2. runs[r].accepted = {}
  BY <1>1, Standing
<1>3. /\ row' = row /\ passed' = passed
      /\ UNCHANGED <<cast, clock, triggers, generated, enricher, crashed, events>>
  BY DEF Plan, Lock
<1>4. /\ row' \in Rows \cup {NoRow} /\ (row # NoRow => row' # NoRow) /\ Believed(row') /\ passed' \in BOOLEAN
  BY <1>3, Standing DEF Believed
<1>5. feedLock' = {} \/ \E s \in cast : feedLock' = {s}
  BY Standing DEF Plan, Lock
<1>6. CASE runs' = [runs EXCEPT ![r] = Resting]
  BY <1>2, <1>3, <1>4, <1>5, <1>6, EndStep
<1>7. CASE \E st \in {"lock", "lockBlind", "fetch", "checkpoint"} : Turns(r, st)
  BY <1>2, <1>3, <1>4, <1>5, <1>7, NamedSteps, TurnStep
<1>. QED BY <1>6, <1>7 DEF Plan, Lock

LEMMA FetchSteps ==
    ASSUME FeedInv, NEW r \in cast, Fetch(r) \/ FetchFails(r)
    PROVE  FeedInv'
<1>1. runs[r].accepted = {} /\ runs[r] \in Run
  BY Standing DEF Fetch, FetchFails, Now
<1>2. /\ row' = row /\ passed' = passed /\ feedLock' = feedLock
      /\ UNCHANGED <<cast, clock, passed, triggers, generated, enricher, crashed, events>>
  BY DEF Fetch, FetchFails
<1>3. /\ row' \in Rows \cup {NoRow} /\ (row # NoRow => row' # NoRow) /\ Believed(row')
      /\ passed' \in BOOLEAN /\ (feedLock' = {} \/ \E s \in cast : feedLock' = {s})
  BY <1>2, Standing DEF Believed
<1>4. CASE Fetch(r)
  <2>1. PICK said \in Reported(clock) :
           runs' = [runs EXCEPT ![r].match = Report(said, Provider(r)), ![r].step = "read"]
    BY <1>4 DEF Fetch
  <2>. DEFINE report == Report(said, Provider(r))
              q == [runs[r] EXCEPT !.match = report, !.step = "read"]
  <2>2. report \in Rows
    BY CastTypes, ReportTypes DEF FeedInv, TypesInv
  <2>. HIDE DEF report
  <2>3. q \in Run /\ q.match = report /\ q.step = "read" /\ q.accepted = {}
    BY <1>1, <2>2, NamedSteps DEF Run
  <2>4. runs' = [runs EXCEPT ![r] = q]
    BY <2>1 DEF report
  <2>. HIDE DEF q
  <2>. QED BY <1>1, <1>2, <1>3, <2>2, <2>3, <2>4, FeedQuietStep
<1>5. CASE FetchFails(r) /\ runs' = [runs EXCEPT ![r] = Resting]
  BY <1>1, <1>2, <1>3, <1>5, EndStep
<1>6. CASE FetchFails(r) /\ Turns(r, "checkpoint")
  BY <1>1, <1>2, <1>3, <1>6, NamedSteps, TurnStep
<1>. QED BY <1>4, <1>5, <1>6 DEF FetchFails

\* What is read is believed, and so is what is made of it.
LEMMA ReadRowStep ==
    ASSUME FeedInv, NEW r \in cast, ReadRow(r)
    PROVE  FeedInv'
<1>1. runs[r].accepted = {} /\ runs[r] \in Run /\ runs[r].match \in Rows
  BY Standing DEF ReadRow, Now, FeedInv, WorkInv
<1>. DEFINE merged == Merged(row, Normalized(runs[r].match))
            q == [runs[r] EXCEPT !.match = merged, !.step = "write"]
<1>2. merged \in Rows /\ Believed(merged)
  BY <1>1, Standing, NormalizedTypes, MergedIsBelieved
<1>3. runs' = [runs EXCEPT ![r].match = merged, ![r].step = "write"]
  BY DEF ReadRow
<1>. HIDE DEF merged
<1>4. q \in Run /\ q.match = merged /\ q.step = "write" /\ q.accepted = {}
  BY <1>1, <1>2, NamedSteps DEF Run
<1>5. runs' = [runs EXCEPT ![r] = q]
  BY <1>3
<1>. HIDE DEF q
<1>6. /\ row' = row /\ passed' = passed /\ feedLock' = feedLock
      /\ UNCHANGED <<cast, clock, triggers, generated, enricher, crashed, events>>
  BY DEF ReadRow
<1>7. /\ row' \in Rows \cup {NoRow} /\ (row # NoRow => row' # NoRow) /\ Believed(row')
      /\ passed' \in BOOLEAN /\ (feedLock' = {} \/ \E s \in cast : feedLock' = {s})
  BY <1>6, Standing DEF Believed
<1>. QED BY <1>1, <1>2, <1>4, <1>5, <1>6, <1>7, FeedQuietStep

LEMMA WriteRowStep ==
    ASSUME FeedInv, NEW r \in cast, WriteRow(r)
    PROVE  FeedInv'
<1>1. runs[r].accepted = {} /\ runs[r] \in Run /\ runs[r].match \in Rows /\ Believed(runs[r].match)
  BY Standing DEF WriteRow, Now, FeedInv, WorkInv, ScoreInv
<1>2. row' = runs[r].match
  BY DEF WriteRow
<1>3. row' \in Rows /\ Believed(row') /\ row' # NoRow
  BY <1>1, <1>2 DEF Believed, Rows, NoRow, MatchStatus, None
<1>4. /\ passed' = passed /\ feedLock' = feedLock
      /\ UNCHANGED <<cast, clock, passed, triggers, generated, enricher, crashed, events>>
  BY DEF WriteRow
<1>5. passed' \in BOOLEAN /\ (feedLock' = {} \/ \E s \in cast : feedLock' = {s})
  BY <1>4, Standing
<1>6. CASE runs' = [runs EXCEPT ![r] = Resting]
  BY <1>1, <1>3, <1>4, <1>5, <1>6, EndStep
<1>7. CASE runs' = [runs EXCEPT ![r] =
              [runs[r] EXCEPT !.match = NoRow, !.found = Triggers(row'), !.step = "find"]]
  <2>. DEFINE found == Triggers(row')
              q == [runs[r] EXCEPT !.match = NoRow, !.found = found, !.step = "find"]
  <2>1. found \subseteq Keys
    <3>1. row'.score = None \/ row'.score \in Scores
      BY <1>3 DEF Rows
    <3>. QED BY <3>1 DEF Triggers, Keys
  <2>. HIDE DEF found
  <2>2. q \in Run /\ q.step = "find" /\ q.accepted = {}
    BY <1>1, <2>1, NamedSteps DEF Run
  <2>3. runs' = [runs EXCEPT ![r] = q]
    BY <1>7 DEF found
  <2>. HIDE DEF q
  <2>. QED BY <1>1, <1>3, <1>4, <1>5, <2>2, <2>3, FeedQuietStep
<1>. QED BY <1>6, <1>7 DEF WriteRow

LEMMA FindStep ==
    ASSUME FeedInv, NEW r \in cast, FindTrigger(r)
    PROVE  FeedInv'
<1>1. runs[r] \in Run
  BY Standing
<1>2. /\ row' = row /\ passed' = passed /\ feedLock' = feedLock
      /\ UNCHANGED <<cast, clock, triggers, generated, enricher, crashed, events>>
  BY DEF FindTrigger
<1>3. /\ row' \in Rows \cup {NoRow} /\ (row # NoRow => row' # NoRow) /\ Believed(row')
      /\ passed' \in BOOLEAN /\ (feedLock' = {} \/ \E s \in cast : feedLock' = {s})
  BY <1>2, Standing DEF Believed
<1>4. CASE runs[r].found = {}
  <2>1. PICK st \in {"checkpoint", "generate"} :
           Turns(r, st) /\ (st = "checkpoint" => runs[r].accepted = {})
    BY <1>4 DEF FindTrigger
  <2>2. st \in RunSteps /\ st \notin {"read", "write"}
        /\ (st \in {"find", "create", "generate"} \/ runs[r].accepted = {})
    BY <2>1, NamedSteps
  <2>. QED BY <1>2, <1>3, <2>1, <2>2, TurnStep
<1>5. CASE runs[r].found # {}
  <2>1. PICK k \in runs[r].found :
           runs' = [runs EXCEPT ![r].found = runs[r].found \ {k},
                                ![r].key = IF k \in triggers THEN {} ELSE {k},
                                ![r].step = IF k \in triggers THEN "find" ELSE "create"]
    BY <1>5 DEF FindTrigger
  <2>. DEFINE found == runs[r].found \ {k}
              key == IF k \in triggers THEN {} ELSE {k}
              st == IF k \in triggers THEN "find" ELSE "create"
              q == [runs[r] EXCEPT !.found = found, !.key = key, !.step = st]
  <2>2. found \subseteq Keys /\ key \subseteq Keys /\ st \in {"find", "create"}
    BY <1>1 DEF Run
  <2>. HIDE DEF found, key, st
  <2>3. q \in Run /\ q.step = st /\ q.accepted = runs[r].accepted
    BY <1>1, <2>2, NamedSteps DEF Run
  <2>4. runs' = [runs EXCEPT ![r] = q]
    BY <2>1 DEF found, key, st
  <2>. HIDE DEF q
  <2>. QED BY <1>2, <1>3, <2>2, <2>3, <2>4, FeedQuietStep
<1>. QED BY <1>4, <1>5

\* Only the run that creates a trigger accepts it.
LEMMA CreateStep ==
    ASSUME FeedInv, NEW r \in cast, CreateTrigger(r)
    PROVE  FeedInv'
<1>. DEFINE new == runs[r].key \ triggers
            accepted == runs[r].accepted \cup new
            q == [runs[r] EXCEPT !.accepted = accepted, !.key = {}, !.step = "find"]
<1>1. runs[r] \in Run /\ runs[r].key \subseteq Keys /\ runs[r].accepted \subseteq triggers
  BY Standing DEF Run, FeedInv, TypesInv
<1>2. triggers' = triggers \cup runs[r].key /\ triggers \subseteq Keys
  BY DEF CreateTrigger, FeedInv, TypesInv
<1>3. new \subseteq Keys /\ accepted \subseteq triggers' /\ triggers' \subseteq Keys
  BY <1>1, <1>2
<1>4. runs' = [runs EXCEPT ![r].accepted = accepted, ![r].key = {}, ![r].step = "find"]
  BY DEF CreateTrigger
<1>5. \A k \in Keys : k \in new <=> k \in triggers' \ triggers
  BY <1>2
<1>6. \A k : k \in accepted <=> k \in runs[r].accepted \/ k \in new
  OBVIOUS
<1>. HIDE DEF new, accepted
<1>7. q \in Run /\ q.step = "find" /\ q.accepted = accepted
  BY <1>1, <1>2, <1>3, NamedSteps DEF Run
<1>8. runs' = [runs EXCEPT ![r] = q]
  BY <1>4
<1>. HIDE DEF q
<1>9. /\ row' = row /\ passed' = passed /\ feedLock' = feedLock /\ generated' = generated
      /\ crashed' = crashed /\ events' = events /\ UNCHANGED <<cast, clock, enricher>>
  BY DEF CreateTrigger
<1>10. /\ row' \in Rows \cup {NoRow} /\ (row # NoRow => row' # NoRow) /\ Believed(row')
       /\ passed' \in BOOLEAN /\ (feedLock' = {} \/ \E s \in cast : feedLock' = {s})
       /\ generated' \in [Keys -> Nat] /\ crashed' \in BOOLEAN /\ events' \in 0..MaxEvents
  BY <1>9, Standing DEF Believed, FeedInv, TypesInv
<1>11. TypesInv' /\ WorkInv' /\ AcceptInv' /\ ScoreInv'
  BY <1>2, <1>3, <1>7, <1>8, <1>9, <1>10, RunStep
<1>12. /\ runs'[r].accepted = accepted
       /\ \A s \in cast \ {r} : runs'[s].accepted = runs[s].accepted
  BY <1>7, <1>8 DEF FeedInv, TypesInv
<1>13. TriggerInv'
  <2>. SUFFICES ASSUME NEW k \in Keys PROVE FollowedOnce(k)'
    BY DEF TriggerInv
  <2>1. FollowedOnce(k)
    BY DEF FeedInv, TriggerInv
  <2>2. CASE k \in new
    <3>1. generated[k] = 0 /\ k \notin triggers
      BY <1>5, <2>1, <2>2 DEF FollowedOnce
    <3>2. \A s \in cast : k \notin runs[s].accepted
      BY <3>1 DEF FeedInv, TypesInv
    <3>3. Holders(k)' = {r}
      BY <1>6, <1>9, <1>12, <2>2, <3>2 DEF Holders
    <3>4. k \in triggers' /\ generated'[k] = 0
      BY <1>5, <1>9, <2>2, <3>1
    <3>. QED BY <3>3, <3>4 DEF FollowedOnce
  <2>3. CASE k \notin new
    <3>1. Holders(k)' = Holders(k)
      BY <1>6, <1>9, <1>12, <2>3 DEF Holders
    <3>2. k \in triggers' <=> k \in triggers
      BY <1>2, <1>5, <2>3
    <3>. QED BY <1>9, <2>1, <3>1, <3>2 DEF FollowedOnce
  <2>. QED BY <2>2, <2>3
<1>. QED BY <1>11, <1>13 DEF FeedInv

\* The holder of a trigger has its predictions generated and holds it no more.
LEMMA GenerateStep ==
    ASSUME FeedInv, NEW r \in cast, Generate(r)
    PROVE  FeedInv'
<1>. DEFINE q == [runs[r] EXCEPT !.accepted = {}, !.step = "checkpoint"]
<1>1. runs[r] \in Run
  BY Standing
<1>2. q \in Run /\ q.step = "checkpoint" /\ q.accepted = {}
  BY <1>1, NamedSteps DEF Run
<1>3. runs' = [runs EXCEPT ![r] = q]
  BY DEF Generate
<1>. HIDE DEF q
<1>4. /\ row' = row /\ passed' = passed /\ feedLock' = feedLock /\ triggers' = triggers
      /\ crashed' = crashed /\ events' = events /\ UNCHANGED <<cast, clock, enricher>>
  BY DEF Generate
<1>5. generated' = [k \in Keys |-> IF k \in runs[r].accepted THEN generated[k] + 1 ELSE generated[k]]
  BY DEF Generate
<1>6. generated \in [Keys -> Nat]
  BY DEF FeedInv, TypesInv
<1>7. generated' \in [Keys -> Nat]
  BY <1>5, <1>6
<1>8. /\ row' \in Rows \cup {NoRow} /\ (row # NoRow => row' # NoRow) /\ Believed(row')
      /\ passed' \in BOOLEAN /\ (feedLock' = {} \/ \E s \in cast : feedLock' = {s})
      /\ crashed' \in BOOLEAN /\ events' \in 0..MaxEvents /\ triggers' \subseteq Keys
  BY <1>4, Standing DEF Believed, FeedInv, TypesInv
<1>9. TypesInv' /\ WorkInv' /\ AcceptInv' /\ ScoreInv'
  BY <1>2, <1>3, <1>4, <1>7, <1>8, RunStep
<1>10. /\ runs'[r].accepted = {}
       /\ \A s \in cast \ {r} : runs'[s].accepted = runs[s].accepted
  BY <1>2, <1>3 DEF FeedInv, TypesInv
<1>11. TriggerInv'
  <2>. SUFFICES ASSUME NEW k \in Keys PROVE FollowedOnce(k)'
    BY DEF TriggerInv
  <2>1. FollowedOnce(k)
    BY DEF FeedInv, TriggerInv
  <2>2. CASE k \in runs[r].accepted
    <3>1. r \in Holders(k) /\ k \in triggers
      BY <2>2 DEF Holders, FeedInv, TypesInv
    <3>2. Holders(k) = {r} /\ generated[k] = 0
      BY <2>1, <3>1 DEF FollowedOnce
    <3>3. Holders(k)' = {}
      BY <1>4, <1>10, <3>2 DEF Holders
    <3>4. generated'[k] = 1
      BY <1>5, <2>2, <3>2
    <3>. QED BY <1>4, <3>1, <3>3, <3>4 DEF FollowedOnce
  <2>3. CASE k \notin runs[r].accepted
    <3>1. Holders(k)' = Holders(k)
      BY <1>4, <1>10, <2>3 DEF Holders
    <3>2. generated'[k] = generated[k]
      BY <1>5, <2>3
    <3>. QED BY <1>4, <2>1, <3>1, <3>2 DEF FollowedOnce
  <2>. QED BY <2>2, <2>3
<1>. QED BY <1>9, <1>11 DEF FeedInv

LEMMA EndSteps ==
    ASSUME FeedInv, NEW r \in cast, Checkpoint(r) \/ Release(r)
    PROVE  FeedInv'
<1>1. runs[r].accepted = {}
  BY Standing DEF Checkpoint, Release, Now
<1>2. row' = row /\ UNCHANGED <<cast, clock, triggers, generated, enricher, crashed, events>>
  BY DEF Checkpoint, Release
<1>3. row' \in Rows \cup {NoRow} /\ (row # NoRow => row' # NoRow) /\ Believed(row')
  BY <1>2, Standing DEF Believed
<1>4. CASE Checkpoint(r)
  <2>1. passed' \in BOOLEAN /\ (feedLock' = {} \/ \E s \in cast : feedLock' = {s})
    BY <1>4, Standing DEF Checkpoint
  <2>2. Turns(r, "release")
    BY <1>4 DEF Checkpoint
  <2>. QED BY <1>1, <1>2, <1>3, <2>1, <2>2, NamedSteps, TurnStep
<1>5. CASE Release(r)
  <2>1. feedLock' = {} \/ \E s \in cast : feedLock' = {s}
    BY <1>5, Standing DEF Release
  <2>2. runs' = [runs EXCEPT ![r] = Resting] /\ passed' = passed
    BY <1>5 DEF Release
  <2>. QED BY <1>1, <1>2, <1>3, <2>1, <2>2, EndStep
<1>. QED BY <1>4, <1>5

\* A run that dies loses the triggers it holds: from then on they may have no
\* predictions, but never two.
LEMMA CrashStep ==
    ASSUME FeedInv, NEW r \in cast, Crash(r)
    PROVE  FeedInv'
<1>1. runs' = [runs EXCEPT ![r] = Resting] /\ crashed' = TRUE
  BY DEF Crash
<1>2. /\ row' = row /\ passed' = passed /\ feedLock' = feedLock /\ triggers' = triggers
      /\ generated' = generated /\ UNCHANGED <<cast, clock, enricher>>
  BY DEF Crash
<1>3. events' \in 0..MaxEvents
  BY DEF Crash, Event, FeedInv, TypesInv
<1>4. /\ row' \in Rows \cup {NoRow} /\ (row # NoRow => row' # NoRow) /\ Believed(row')
      /\ passed' \in BOOLEAN /\ (feedLock' = {} \/ \E s \in cast : feedLock' = {s})
      /\ triggers' \subseteq Keys /\ generated' \in [Keys -> Nat]
  BY <1>2, Standing DEF Believed, FeedInv, TypesInv
<1>5. TypesInv' /\ WorkInv' /\ AcceptInv' /\ ScoreInv'
  BY <1>1, <1>2, <1>3, <1>4, RestingRun, RunStep
<1>6. \A s \in cast : runs'[s].accepted = runs[s].accepted \/ (s = r /\ runs'[s].accepted = {})
  BY <1>1, RestingRun DEF FeedInv, TypesInv
<1>7. TriggerInv'
  <2>. SUFFICES ASSUME NEW k \in Keys PROVE FollowedOnce(k)'
    BY DEF TriggerInv
  <2>1. FollowedOnce(k)
    BY DEF FeedInv, TriggerInv
  <2>2. Holders(k)' \subseteq Holders(k)
    BY <1>2, <1>6 DEF Holders
  <2>3. \A s \in Holders(k)' : generated'[k] = 0 /\ Holders(k)' = {s}
    BY <1>2, <2>1, <2>2 DEF FollowedOnce
  <2>. QED BY <1>1, <1>2, <2>1, <2>3 DEF FollowedOnce
<1>. QED BY <1>5, <1>7 DEF FeedInv

-----------------------------------------------------------------------------
(* The other steps.                                                           *)

\* Nothing that happens beside the runs touches what they do or accept.
LEMMA BesideStep ==
    ASSUME FeedInv, UNCHANGED <<cast, triggers, generated, runs, crashed>>,
           clock' \in {Clocks[i] : i \in DOMAIN Clocks}, feedLock' \subseteq feedLock,
           row' \in Rows \cup {NoRow}, row # NoRow => row' # NoRow, Believed(row'), passed' \in BOOLEAN,
           enricher' \in Providers \cup {None}, enricher' # None => row' # NoRow,
           events' \in 0..MaxEvents
    PROVE  FeedInv'
<1>1. TypesInv'
  BY DEF FeedInv, TypesInv
<1>2. WorkInv' /\ AcceptInv' /\ ScoreInv'
  BY DEF FeedInv, WorkInv, AcceptInv, ScoreInv
<1>3. TriggerInv'
  BY TriggersStay DEF FeedInv
<1>. QED BY <1>1, <1>2, <1>3 DEF FeedInv

LEMMA OtherStep ==
    ASSUME FeedInv, Rewind \/ ExpireLock \/ EnrichRead \/ EnrichWrite \/ Tick \/ UNCHANGED feedVars
    PROVE  FeedInv'
<1>. /\ clock \in {Clocks[i] : i \in DOMAIN Clocks} /\ row \in Rows \cup {NoRow} /\ Believed(row)
     /\ passed \in BOOLEAN /\ enricher \in Providers \cup {None} /\ events \in 0..MaxEvents
     /\ (enricher # None => row # NoRow) /\ MaxEvents \in Nat
  BY DEF FeedInv, TypesInv, WorkInv, ScoreInv
<1>1. CASE Rewind
  <2>1. events' \in 0..MaxEvents
    BY <1>1 DEF Rewind, Event
  <2>2. Believed(row') /\ row' = row
    BY <1>1 DEF Rewind, Believed
  <2>. QED BY <1>1, <2>1, <2>2, BesideStep DEF Rewind
<1>2. CASE ExpireLock
  <2>1. events' \in 0..MaxEvents
    BY <1>2 DEF ExpireLock, Event
  <2>2. Believed(row') /\ row' = row
    BY <1>2 DEF ExpireLock, Believed
  <2>. QED BY <1>2, <2>1, <2>2, BesideStep DEF ExpireLock
<1>3. CASE EnrichRead
  <2>1. events' \in 0..MaxEvents
    BY <1>3 DEF EnrichRead, Event
  <2>2. row # NoRow /\ row' = row /\ Believed(row')
    BY <1>3 DEF EnrichRead, Believed
  <2>3. enricher' \in Providers
    BY <1>3, <2>2 DEF EnrichRead, Rows
  <2>. QED BY <1>3, <2>1, <2>2, <2>3, BesideStep DEF EnrichRead
<1>4. CASE EnrichWrite
  <2>1. row \in Rows /\ enricher \in Providers
    BY <1>4 DEF EnrichWrite
  <2>2. row' \in Rows /\ row'.status = row.status /\ row'.score = row.score
    BY <1>4, <2>1 DEF EnrichWrite, Rows
  <2>3. Believed(row') /\ row' # NoRow
    BY <2>2 DEF Believed, Rows, NoRow, MatchStatus, None
  <2>. QED BY <1>4, <2>2, <2>3, BesideStep DEF EnrichWrite
<1>5. CASE Tick
  <2>1. clock' \in {Clocks[i] : i \in DOMAIN Clocks}
    BY <1>5, TickTypes DEF Tick
  <2>2. Believed(row') /\ row' = row
    BY <1>5 DEF Tick, Believed
  <2>. QED BY <1>5, <2>1, <2>2, BesideStep DEF Tick
<1>6. CASE UNCHANGED feedVars
  <2>1. Believed(row') /\ row' = row
    BY <1>6 DEF feedVars, Believed
  <2>. QED BY <1>6, <2>1, BesideStep DEF feedVars
<1>. QED BY <1>1, <1>2, <1>3, <1>4, <1>5, <1>6

LEMMA FeedInitStep == FeedInit => FeedInv
<1>. SUFFICES ASSUME FeedInit PROVE FeedInv
  OBVIOUS
<1>1. TypesInv
  <2>1. clock \in {Clocks[i] : i \in DOMAIN Clocks}
    BY ClockNames DEF FeedInit
  <2>2. runs \in [cast -> Run] /\ \A r \in cast : runs[r].accepted \subseteq triggers
    BY RestingRun DEF FeedInit
  <2>3. passed \in BOOLEAN /\ crashed \in BOOLEAN
    BY DEF FeedInit
  <2>4. generated \in [Keys -> Nat] /\ events \in 0..MaxEvents
    BY DEF FeedInit
  <2>5. /\ cast \in Castings /\ row \in Rows \cup {NoRow} /\ feedLock = {} /\ triggers \subseteq Keys
        /\ enricher \in Providers \cup {None}
    BY DEF FeedInit
  <2>. QED BY <2>1, <2>2, <2>3, <2>4, <2>5 DEF TypesInv
<1>2. \A r \in cast : runs[r].step = "idle" /\ runs[r].accepted = {}
  BY RestingRun DEF FeedInit
<1>3. row = NoRow /\ enricher = None /\ triggers = {} /\ \A k \in Keys : generated[k] = 0
  BY DEF FeedInit
<1>4. WorkInv /\ AcceptInv /\ ScoreInv
  BY <1>2, <1>3 DEF WorkInv, AcceptInv, ScoreInv, Believed, NoRow, None
<1>5. TriggerInv
  <2>. SUFFICES ASSUME NEW k \in Keys PROVE FollowedOnce(k)
    BY DEF TriggerInv
  <2>1. Holders(k) = {}
    BY <1>2 DEF Holders
  <2>. QED BY <1>3, <2>1 DEF FollowedOnce
<1>. QED BY <1>1, <1>4, <1>5 DEF FeedInv

LEMMA FeedNextStep == FeedInv /\ [FeedNext]_feedVars => FeedInv'
<1>. SUFFICES ASSUME FeedInv, [FeedNext]_feedVars PROVE FeedInv'
  OBVIOUS
<1>1. ASSUME NEW r \in cast, Begin(r) \/ Step(r) \/ Fetch(r) \/ FetchFails(r) \/ Crash(r)
      PROVE  FeedInv'
  BY <1>1, BeginStep, LockSteps, FetchSteps, ReadRowStep, WriteRowStep, FindStep, CreateStep, GenerateStep,
     EndSteps, CrashStep DEF Step
<1>. QED BY <1>1, OtherStep DEF FeedNext

-----------------------------------------------------------------------------
(* The theorems.                                                              *)

\* One run at most has the lock.
LEMMA FeedTypesHold == FeedInv => FeedTypeOK
<1>. SUFFICES ASSUME FeedInv PROVE FeedTypeOK
  OBVIOUS
<1>1. feedLock \subseteq cast /\ Cardinality(feedLock) <= 1
  <2>1. CASE feedLock = {}
    BY <2>1, FS_EmptySet
  <2>2. CASE feedLock # {}
    <3>1. PICK r \in cast : feedLock = {r}
      BY <2>2 DEF FeedInv, TypesInv
    <3>2. Cardinality(feedLock) = 1
      BY <3>1, FS_Singleton
    <3>. QED BY <3>1, <3>2
  <2>. QED BY <2>1, <2>2
<1>. QED BY <1>1 DEF FeedInv, TypesInv, FeedTypeOK

\* The inductive invariant holds in every reachable state, with fairness or
\* without it.
FeedSafety == FeedInit /\ [][FeedNext]_feedVars

THEOREM FeedInvariance == FeedSafety => []FeedInv
BY FeedInitStep, FeedNextStep, PTL DEF FeedSafety

LEMMA FeedIsSafe == FeedSpec => FeedSafety
BY DEF FeedSpec, FeedSafety

\* The row of the match, the runs and the trigger rows have their types, and
\* one run at most has the lock.
THEOREM FeedTypes == FeedSafety => []FeedTypeOK
BY FeedTypesHold, FeedInvariance, PTL

\* A trigger has its predictions generated once, unless the run that registered
\* it dies.
THEOREM TriggersGenerateOnce == FeedSpec => []TriggersAreFollowedOnce
<1>1. FeedInv => TriggersAreFollowedOnce
  <2>. SUFFICES ASSUME FeedInv, NEW k \in Keys
                PROVE  LET n == generated[k] + Cardinality(Holders(k)) IN
                       IF k \in triggers /\ ~crashed THEN n = 1 ELSE n <= 1
    BY DEF TriggersAreFollowedOnce
  <2>1. FollowedOnce(k) /\ generated[k] \in Nat
    BY DEF FeedInv, TriggerInv, TypesInv
  <2>2. CASE Holders(k) = {}
    <3>1. Cardinality(Holders(k)) = 0
      BY <2>2, FS_EmptySet
    <3>. QED BY <2>1, <2>2, <3>1 DEF FollowedOnce
  <2>3. CASE Holders(k) # {}
    <3>1. PICK r \in Holders(k) : TRUE
      BY <2>3
    <3>2. Holders(k) = {r} /\ generated[k] = 0
      BY <2>1, <3>1 DEF FollowedOnce
    <3>3. Cardinality(Holders(k)) = 1
      BY <3>2, FS_Singleton
    <3>. QED BY <3>2, <3>3
  <2>. QED BY <2>2, <2>3
<1>. QED BY <1>1, FeedIsSafe, FeedInvariance, PTL

\* Whatever the providers report, in whatever order it is merged and written
\* over what others wrote, a match is only finished with its score.
THEOREM FinishedMatchesHaveScores == FeedSpec => []FinishedHasScore
<1>1. FeedInv => FinishedHasScore
  BY DEF FeedInv, ScoreInv, Believed, FinishedHasScore
<1>. QED BY <1>1, FeedIsSafe, FeedInvariance, PTL

-----------------------------------------------------------------------------
(* What a merge keeps, and what is lost between reading a row and writing it. *)

\* No two runs are between reading the row and writing it.
OneWriter == \A r, s \in cast : Now(r, "write") /\ Now(s, "write") => r = s

\* A score stays a score, and a match that has one stays finished.
Keeps(old, new) ==
    old.score # None => new.score # None /\ (old.status = "finished" => new.status = "finished")

\* What a run is about to write takes nothing back.
KeptInv == \A r \in cast : Now(r, "write") => Keeps(row, runs[r].match)

\* mergeMatchState: whatever is reported, and by whom.
LEMMA MergedKeeps ==
    ASSUME NEW old \in Rows \cup {NoRow}, NEW new \in Rows
    PROVE  Keeps(old, Merged(old, new))
<1>. SUFFICES ASSUME old.score # None
              PROVE  /\ Merged(old, new).score # None
                     /\ old.status = "finished" => Merged(old, new).status = "finished"
  BY DEF Keeps
<1>1. Merged(old, new).score # None
  BY DEF Merged, KeepsScore
<1>2. old.status = "finished" => StatusOf(old, new) = "finished"
  BY DEF StatusOf, KeepsScore
<1>3. old.status = "finished" => Merged(old, new).status = "finished"
  BY <1>2 DEF Merged
<1>. QED BY <1>1, <1>3

\* mergeMatchState: a score that two reports of one source give in a row is
\* believed: the first one, if it does not stand, still leaves the source in
\* the row, and the second is then compared with its own source.
THEOREM ScoresSaidTwiceAreBelieved ==
    ASSUME NEW old \in Rows \cup {NoRow}, NEW new \in Rows, new.score # None
    PROVE  LET twice == Merged(Merged(old, new), new) IN
           twice.score = new.score /\ twice.status = "finished"
<1>. DEFINE once == Merged(old, new)
<1>1. once.source = new.source
  BY DEF Merged
<1>2. new.source \in Providers /\ Reliability[new.source] \in Nat
  BY DEF Rows
<1>3. ~KeepsScore(once, new)
  <2>. HIDE DEF once
  <2>1. ~(Reliability[once.source] > Reliability[new.source])
    BY <1>1, <1>2
  <2>. QED BY <2>1 DEF KeepsScore
<1>. HIDE DEF once
<1>4. StatusOf(once, new) = "finished"
  BY <1>3 DEF StatusOf
<1>5. Merged(once, new).score = new.score /\ Merged(once, new).status = "finished"
  BY <1>3, <1>4 DEF Merged
<1>. QED BY <1>5 DEF once

\* A step that brings no run to writing and takes nothing from the row.
LEMMA StayKept ==
    ASSUME FeedInv, KeptInv, cast' = cast,
           row'.score = None \/ (row'.score = row.score /\ row'.status = row.status),
           \A s \in cast : runs'[s].step = "write" =>
                              runs[s].step = "write" /\ runs'[s].match = runs[s].match
    PROVE  KeptInv'
<1>. SUFFICES ASSUME NEW s \in cast, runs'[s].step = "write"
              PROVE  Keeps(row', runs'[s].match)
  BY DEF KeptInv, Now
<1>1. Keeps(row, runs[s].match) /\ runs'[s].match = runs[s].match
  BY DEF KeptInv, Now
<1>. QED BY <1>1 DEF Keeps

\* Of the steps of a run only ReadRow leads to writing.
LEMMA OthersStay ==
    ASSUME FeedInv, NEW r \in cast,
           Begin(r) \/ Plan(r) \/ Lock(r) \/ Fetch(r) \/ FetchFails(r) \/ WriteRow(r) \/ FindTrigger(r)
           \/ CreateTrigger(r) \/ Generate(r) \/ Checkpoint(r) \/ Release(r) \/ Crash(r)
    PROVE  /\ runs'[r].step # "write"
           /\ \A s \in cast \ {r} : runs'[s] = runs[s]
<1>. /\ runs \in [cast -> Run] /\ runs[r] \in Run /\ Resting.step = "idle" /\ Resting \in Run
  BY RestingRun DEF FeedInv, TypesInv
<1>1. CASE Begin(r) \/ Plan(r) \/ Lock(r) \/ FetchFails(r)
  BY <1>1 DEF Begin, Plan, Lock, FetchFails, Turns, Run
<1>2. CASE Fetch(r)
  <2>1. PICK m : runs' = [runs EXCEPT ![r].match = m, ![r].step = "read"]
    BY <1>2 DEF Fetch
  <2>. QED BY <2>1 DEF Run
<1>3. CASE WriteRow(r)
  BY <1>3 DEF WriteRow, Run
<1>4. CASE FindTrigger(r)
  <2>1. CASE runs[r].found = {}
    BY <1>4, <2>1 DEF FindTrigger, Turns, Run
  <2>2. CASE runs[r].found # {}
    <3>1. PICK k \in runs[r].found :
            runs' = [runs EXCEPT ![r].found = @ \ {k},
                                 ![r].key = IF k \in triggers THEN {} ELSE {k},
                                 ![r].step = IF k \in triggers THEN "find" ELSE "create"]
      BY <1>4, <2>2 DEF FindTrigger
    <3>. QED BY <3>1 DEF Run
  <2>. QED BY <2>1, <2>2
<1>5. CASE CreateTrigger(r)
  BY <1>5 DEF CreateTrigger, Run
<1>6. CASE Generate(r)
  BY <1>6 DEF Generate, Run
<1>7. CASE Checkpoint(r)
  <2>1. runs' = [runs EXCEPT ![r].step = "release"]
    BY <1>7 DEF Checkpoint, Turns
  <2>. QED BY <2>1 DEF Run
<1>8. CASE Release(r) \/ Crash(r)
  BY <1>8 DEF Release, Crash
<1>. QED BY <1>1, <1>2, <1>3, <1>4, <1>5, <1>6, <1>7, <1>8

\* The steps that leave the row alone, and the two that write it without a
\* report: the normalisation touches rows without a score only, the enricher
\* the half-time score and the source.
LEMMA QuietRows ==
    ASSUME FeedInv,
           \/ \E r \in cast : \/ Begin(r) \/ Plan(r) \/ Lock(r) \/ Fetch(r) \/ FetchFails(r)
                              \/ FindTrigger(r) \/ CreateTrigger(r) \/ Generate(r)
                              \/ Checkpoint(r) \/ Release(r) \/ Crash(r)
           \/ Rewind \/ ExpireLock \/ EnrichRead \/ EnrichWrite \/ Tick \/ UNCHANGED feedVars
    PROVE  /\ cast' = cast
           /\ row'.score = None \/ (row'.score = row.score /\ row'.status = row.status)
           /\ Keeps(row, row')
<1>. row \in Rows \cup {NoRow}
  BY Standing
<1>1. CASE \E r \in cast : Begin(r)
  <2>1. cast' = cast /\ (row' = row \/ (row.score = None /\ row' = [row EXCEPT !.status = "postponed"]))
    BY <1>1 DEF Begin
  <2>2. row' = row \/ (row.score = None /\ row'.score = None)
    BY <2>1 DEF Rows, NoRow
  <2>. QED BY <2>1, <2>2 DEF Keeps
<1>2. CASE EnrichWrite
  <2>1. cast' = cast /\ row'.score = row.score /\ row'.status = row.status
    BY <1>2 DEF EnrichWrite, Rows, NoRow
  <2>. QED BY <2>1 DEF Keeps
<1>3. CASE row' = row /\ cast' = cast
  BY <1>3 DEF Keeps
<1>. QED BY <1>1, <1>2, <1>3 DEF Plan, Lock, Fetch, FetchFails, FindTrigger, CreateTrigger, Generate,
            Checkpoint, Release, Crash, Rewind, ExpireLock, EnrichRead, Tick, feedVars

LEMMA KeptStep ==
    ASSUME FeedInv, KeptInv, OneWriter, OneWriter', [FeedNext]_feedVars
    PROVE  KeptInv' /\ Keeps(row, row')
<1>. runs \in [cast -> Run] /\ row \in Rows \cup {NoRow}
  BY DEF FeedInv, TypesInv
<1>1. CASE \E r \in cast : ReadRow(r)
  <2>1. PICK r \in cast : ReadRow(r)
    BY <1>1
  <2>2. runs[r].match \in Rows /\ runs[r] \in Run
    BY <2>1 DEF ReadRow, Now, FeedInv, WorkInv
  <2>. DEFINE merged == Merged(row, Normalized(runs[r].match))
  <2>3. Keeps(row, merged)
    BY <2>2, NormalizedTypes, MergedKeeps
  <2>4. runs' = [runs EXCEPT ![r].match = merged, ![r].step = "write"]
    BY <2>1 DEF ReadRow
  <2>. HIDE DEF merged
  <2>5. runs'[r].match = merged /\ runs'[r].step = "write"
    BY <2>2, <2>4 DEF Run
  <2>6. row' = row /\ cast' = cast
    BY <2>1 DEF ReadRow
  <2>7. \A s \in cast : runs'[s].step = "write" => s = r
    BY <2>5, <2>6 DEF OneWriter, Now
  <2>. QED BY <2>3, <2>5, <2>6, <2>7 DEF KeptInv, Now, Keeps
<1>2. CASE \E r \in cast : WriteRow(r)
  <2>1. PICK r \in cast : WriteRow(r)
    BY <1>2
  <2>2. row' = runs[r].match /\ cast' = cast /\ runs[r].step = "write"
    BY <2>1 DEF WriteRow, Now
  <2>3. runs'[r].step # "write" /\ \A s \in cast \ {r} : runs'[s] = runs[s]
    BY <2>1, OthersStay
  <2>4. \A s \in cast : runs'[s].step # "write"
    BY <2>2, <2>3 DEF OneWriter, Now
  <2>5. KeptInv'
    BY <2>2, <2>4 DEF KeptInv, Now
  <2>6. Keeps(row, row')
    BY <2>2 DEF KeptInv, Now
  <2>. QED BY <2>5, <2>6
<1>3. ASSUME NEW r \in cast,
             \/ Begin(r) \/ Plan(r) \/ Lock(r) \/ Fetch(r) \/ FetchFails(r) \/ FindTrigger(r)
             \/ CreateTrigger(r) \/ Generate(r) \/ Checkpoint(r) \/ Release(r) \/ Crash(r)
      PROVE  KeptInv' /\ Keeps(row, row')
  <2>1. runs'[r].step # "write" /\ \A s \in cast \ {r} : runs'[s] = runs[s]
    BY <1>3, OthersStay
  <2>2. \A s \in cast : runs'[s].step = "write" => runs[s].step = "write" /\ runs'[s].match = runs[s].match
    BY <2>1
  <2>. QED BY <1>3, <2>2, QuietRows, StayKept
<1>4. CASE Rewind \/ ExpireLock \/ EnrichRead \/ EnrichWrite \/ Tick \/ UNCHANGED feedVars
  <2>1. runs' = runs
    BY <1>4 DEF Rewind, ExpireLock, EnrichRead, EnrichWrite, Tick, feedVars
  <2>. QED BY <1>4, <2>1, QuietRows, StayKept
<1>. QED BY <1>1, <1>2, <1>3, <1>4 DEF FeedNext, Step

\* A score, and that a match is finished, are only lost in the window between
\* reading a row and writing it: as long as no two syncs are in it, no step
\* takes them back, whoever reports what, and however late.
THEOREM OneWriterTakesNothingBack ==
    FeedSafety /\ []OneWriter => [][Keeps(row, row')]_feedVars
<1>1. FeedInit => KeptInv
  BY RestingRun DEF FeedInit, KeptInv, Now
<1>2. FeedInv /\ KeptInv /\ OneWriter /\ OneWriter' /\ [FeedNext]_feedVars => KeptInv' /\ Keeps(row, row')
  BY KeptStep
<1>3. FeedSafety => FeedInit /\ [][FeedNext]_feedVars
  BY DEF FeedSafety
<1>. QED BY <1>1, <1>2, <1>3, FeedInvariance, PTL

-----------------------------------------------------------------------------
(* The two components beside one another.                                     *)

\* Every behaviour of MCRecords is one of the requests and one of the feed, so
\* that what is proved of the two holds of the run that explores them together.
THEOREM RecordsAreTheirComponents == Spec => PrivacySpec /\ FeedSafety
<1>1. Init => PrivacyInit /\ FeedInit
  BY DEF Init
<1>2. [Next]_recordVars => [PrivacyNext]_privacyVars /\ [FeedNext]_feedVars
  <2>1. FeedAlone => FeedNext /\ UNCHANGED privacyVars
    BY DEF FeedAlone
  <2>2. PrivacyAlone => PrivacyNext /\ UNCHANGED feedVars
    BY DEF PrivacyAlone
  <2>3. TimePasses => FeedNext /\ UNCHANGED privacyVars
    BY DEF TimePasses, FeedNext
  <2>4. UNCHANGED recordVars => UNCHANGED privacyVars /\ UNCHANGED feedVars
    BY DEF recordVars
  <2>. QED BY <2>1, <2>2, <2>3, <2>4 DEF Next
<1>. QED BY <1>1, <1>2, PTL DEF Spec, PrivacySpec, FeedSafety

\* The privacy requests and the match feed have their types.
THEOREM RecordsTypes == Spec => []RecordsTypeOK
<1>1. PrivacyTypeOK /\ FeedTypeOK => RecordsTypeOK
  BY DEF RecordsTypeOK
<1>. QED BY <1>1, RecordsAreTheirComponents, PrivacyTypes, FeedTypes, PTL
=============================================================================
