----------------------- MODULE PublishSelectionProofs -----------------------
(* Proofs about PublishSelection, for any number of runs, publishers,      *)
(* readers, markets, horizons and overrides.                               *)
EXTENDS PublishSelection, SequenceTheorems, FiniteSetTheorems, TLAPS

USE PublishAssumption

-----------------------------------------------------------------------------
(* The operators of one decision return what their names say.              *)

LEMMA StatusType ==
    ASSUME NEW j PROVE StatusOf(j) \in Statuses
BY DEF StatusOf, ClassifyStatus, Statuses

\* A transaction only ever suppresses live decisions of its own tuple.
LEMMA SuppressedAreSameTuple ==
    ASSUME NEW j PROVE SuppressedBy(j) \subseteq SameTuple(j.tuple)
BY DEF SuppressedBy, Superseded, Opposing

LEMMA NewDecisionType ==
    ASSUME NEW j \in Job, j.stage = "tx"
    PROVE  NewDecision(j) \in Decision
<1>1. PublishesPublicly(j) \in BOOLEAN
  <2>1. j.settings \in Settings
    BY DEF Job
  <2>. QED BY <2>1 DEF PublishesPublicly, Settings
<1>2. j \in [stage : {"tx"}, tuple : Tuples, selection : Selections, score : Scores, cap : ProfileCaps,
             policy : PolicyOutcomes, settings : SettingsSpace, attempt : 1 .. MaxAttempts]
  BY DEF Job
<1>. QED BY <1>1, <1>2, StatusType DEF NewDecision, Decision

LEMMA DecisionsAfterType ==
    ASSUME TypeOK, NEW j \in Job, j.stage = "tx"
    PROVE  DecisionsAfter(j) \in [1 .. nRuns + 1 -> Decision]
<1>1. NewDecision(j) \in Decision
  BY NewDecisionType
<1>2. ASSUME NEW i \in 1 .. nRuns + 1, i # nRuns + 1
      PROVE  decisions[i] \in Decision /\ Suppress(decisions[i]) \in Decision
  <2>1. decisions[i] \in Decision
    BY <1>2 DEF TypeOK, Runs
  <2>. QED BY <2>1 DEF Suppress, Decision, Statuses
<1>. QED BY <1>1, <1>2 DEF DecisionsAfter

-----------------------------------------------------------------------------
(* Type correctness.                                                       *)

LEMMA TypeStep == TypeOK /\ [Next]_vars => TypeOK'
<1>. SUFFICES ASSUME TypeOK, [Next]_vars PROVE TypeOK'
  OBVIOUS
<1>. USE DEF TypeOK, Runs
<1>0. nRuns' = nRuns => Job' = Job
  BY DEF Job
<1>1. CASE AdvanceClock
  BY <1>0, <1>1 DEF AdvanceClock, Horizons
<1>2. ASSUME NEW new \in SettingsSpace, SetEngineSettings(new) PROVE TypeOK'
  BY <1>0, <1>2 DEF SetEngineSettings
<1>3. ASSUME NEW tuple \in Tuples, NEW selection \in Selections \cup {AnySelection},
             NEW action \in {"FORCE", "BLOCK"}, CreateManualOverride(tuple, selection, action)
      PROVE  TypeOK'
  BY <1>0, <1>3 DEF CreateManualOverride, Override
<1>4. ASSUME NEW k \in DOMAIN overrides, ExpireOverride(k) PROVE TypeOK'
  <2>1. overrides[k] \in Override /\ k \in 1 .. Len(overrides)
    BY ElementOfSeq, LenProperties
  <2>2. [overrides[k] EXCEPT !.active = FALSE] \in Override
    BY <2>1 DEF Override
  <2>3. overrides' \in Seq(Override)
    BY ExceptSeq, <1>4, <2>1, <2>2 DEF ExpireOverride
  <2>. QED BY <1>0, <1>4, <2>3 DEF ExpireOverride
<1>5. ASSUME NEW p \in Publishers, NEW market \in Markets, NEW selection \in Selections,
             NEW score \in Scores, NEW policy \in PolicyOutcomes, NEW cap \in ProfileCaps,
             BeginPublish(p, market, selection, score, policy, cap)
      PROVE  TypeOK'
  BY <1>0, <1>5 DEF BeginPublish, Job, Tuples
<1>6. ASSUME NEW p \in Publishers, CommitPublish(p) PROVE TypeOK'
  <2>. DEFINE j == job[p]
  <2>1. j \in Job /\ j.stage = "tx"
    BY <1>6 DEF CommitPublish
  <2>2. nRuns' \in Nat /\ decisions' \in [1 .. nRuns' -> Decision]
    BY <1>6, <2>1, DecisionsAfterType DEF CommitPublish
  <2>3. pointers' \in [Tuples -> Pointer \cup {NoPointer}]
    BY <1>6 DEF CommitPublish, PointersAfter, Pointer
  <2>4. job' \in [Publishers -> Job']
    <3>1. nRuns' = nRuns + 1
      BY <1>6 DEF CommitPublish
    <3>2. [stage |-> "handoff", decision |-> nRuns + 1] \in Job' /\ Idle \in Job'
      BY <3>1 DEF Job, Idle
    <3>3. Job \subseteq Job'
      BY <3>1 DEF Job
    <3>. QED BY <1>6, <3>2, <3>3 DEF CommitPublish
  <2>5. 1 .. nRuns \subseteq 1 .. nRuns'
    BY <1>6 DEF CommitPublish
  <2>. QED BY <1>6, <2>2, <2>3, <2>4, <2>5 DEF CommitPublish
<1>7. ASSUME NEW p \in Publishers, SerializationFailure(p) PROVE TypeOK'
  <2>1. job[p] \in [stage : {"tx"}, tuple : Tuples, selection : Selections, score : Scores,
                    cap : ProfileCaps, policy : PolicyOutcomes, settings : SettingsSpace,
                    attempt : 1 .. MaxAttempts]
    BY <1>7 DEF SerializationFailure, Job
  <2>2. job[p].attempt < MaxAttempts => job[p].attempt + 1 \in 1 .. MaxAttempts
    BY <2>1
  <2>3. job[p].attempt < MaxAttempts => [job[p] EXCEPT !.attempt = job[p].attempt + 1] \in Job
    BY <2>1, <2>2 DEF Job
  <2>4. Idle \in Job
    BY DEF Job, Idle
  <2>5. job' \in [Publishers -> Job]
    BY <1>7, <2>3, <2>4 DEF SerializationFailure
  <2>. QED BY <1>0, <1>7, <2>5 DEF SerializationFailure
<1>8. ASSUME NEW p \in Publishers, HandOff(p) PROVE TypeOK'
  BY <1>0, <1>8 DEF HandOff, Job, Idle
<1>9. ASSUME NEW p \in Publishers, LosePublisher(p) PROVE TypeOK'
  BY <1>0, <1>9 DEF LosePublisher, Job, Idle
<1>10. ASSUME NEW r \in Readers, StartSelfHeal(r) PROVE TypeOK'
  BY <1>0, <1>10 DEF StartSelfHeal, LatestRuns, Runs
<1>11. ASSUME NEW r \in Readers, NEW i \in reader[r], MaterializeRow(r, i) PROVE TypeOK'
  <2>. DEFINE tuple == decisions[i].tuple
  <2>1. i \in 1 .. nRuns /\ i \in Nat
    OBVIOUS
  <2>2. pointers[tuple] = NoPointer \/ pointers[tuple] \in Pointer
    BY <2>1 DEF Decision
  <2>3. [run |-> i, decision |-> NoDecision] \in Pointer
    BY <2>1 DEF Pointer
  <2>4. pointers[tuple] \in Pointer => [pointers[tuple] EXCEPT !.run = i] \in Pointer
    BY <2>1 DEF Pointer
  <2>5. pointers' \in [Tuples -> Pointer \cup {NoPointer}]
    BY <1>11, <2>2, <2>3, <2>4 DEF MaterializeRow
  <2>6. reader' \in [Readers -> SUBSET Runs]
    BY <1>11 DEF MaterializeRow
  <2>. QED BY <1>0, <1>11, <2>5, <2>6 DEF MaterializeRow
<1>12. CASE UNCHANGED vars
  BY <1>0, <1>12 DEF vars
<1>. QED
  BY <1>1, <1>2, <1>3, <1>4, <1>5, <1>6, <1>7, <1>8, <1>9, <1>10, <1>11, <1>12
  DEF Next, Administer, Publish, Read

\* Every reachable state is well typed, whatever the number of runs.
THEOREM TypeCorrect == Spec => []TypeOK
<1>1. Init => TypeOK
  BY DEF Init, TypeOK, Horizons, Job, Idle, Runs
<1>. QED BY <1>1, TypeStep, PTL DEF Spec

-----------------------------------------------------------------------------
(* What a committed transaction does to the decisions.                     *)

\* An approval found no opposing or duplicate pick that it did not push out, and
\* met no limit.
LEMMA ApprovedMeansNoConflict ==
    ASSUME NEW j, StatusOf(j) = "APPROVED"
    PROVE  /\ ResolvesConflicts(j)
           /\ ConflictReasons(j.tuple, j.selection, j.score, j.cap) = {}
           /\ SuppressedBy(j) = SameTuple(j.tuple)
<1>1. ASSUME NEW reasons, ClassifyStatus(reasons) = "APPROVED" PROVE reasons = {}
  BY <1>1 DEF ClassifyStatus
<1>2. ResolvesConflicts(j)
  <2>1. CASE ManualAction(j.tuple, j.selection) = "FORCE"
    BY <2>1 DEF StatusOf
  <2>2. CASE ManualAction(j.tuple, j.selection) # "FORCE" /\ ~ResolvesConflicts(j)
    BY <1>1, <2>2 DEF StatusOf, ResolvesConflicts
  <2>. QED BY <2>1, <2>2
<1>3. ConflictReasons(j.tuple, j.selection, j.score, j.cap) = {}
  BY <1>1, <1>2 DEF StatusOf, ResolvesConflicts
<1>4. Duplicates(j.tuple, j.selection) = {} /\ ~Outscored(j.tuple, j.selection, j.score)
  BY <1>3 DEF ConflictReasons
<1>. QED BY <1>2, <1>3, <1>4 DEF SuppressedBy, Superseded, Opposing

\* The transaction adds one decision, makes the ones it suppresses SUPPRESSED and
\* leaves the others as they were.
LEMMA CommitDecisions ==
    ASSUME TypeOK, NEW p \in Publishers, CommitPublish(p)
    PROVE  /\ nRuns' = nRuns + 1
           /\ Runs' = Runs \cup {nRuns + 1} /\ nRuns + 1 \notin Runs
           /\ decisions'[nRuns + 1] = NewDecision(job[p])
           /\ LiveRuns' \ {nRuns + 1} = LiveRuns \ SuppressedBy(job[p])
           /\ \A i \in Runs : decisions'[i] = IF i \in SuppressedBy(job[p])
                                               THEN Suppress(decisions[i]) ELSE decisions[i]
           /\ \A i \in Runs : decisions'[i].tuple = decisions[i].tuple
<1>1. nRuns' = nRuns + 1 /\ decisions' = DecisionsAfter(job[p])
  BY DEF CommitPublish
<1>2. Runs' = Runs \cup {nRuns + 1} /\ nRuns + 1 \notin Runs
  BY <1>1 DEF TypeOK, Runs
<1>3. nRuns + 1 \in 1 .. nRuns + 1 /\ Runs \subseteq 1 .. nRuns + 1
  BY DEF TypeOK, Runs
<1>4. decisions'[nRuns + 1] = NewDecision(job[p])
  BY <1>1, <1>3 DEF DecisionsAfter
<1>5. \A i \in Runs : decisions'[i] = IF i \in SuppressedBy(job[p])
                                       THEN Suppress(decisions[i]) ELSE decisions[i]
  BY <1>1, <1>2, <1>3 DEF DecisionsAfter
<1>6. \A i \in Runs : decisions[i] \in Decision
  BY DEF TypeOK
<1>7. \A i \in Runs : decisions'[i].tuple = decisions[i].tuple
  BY <1>5, <1>6 DEF Suppress, Decision
<1>8. \A i \in Runs : Live(i)' <=> Live(i) /\ i \notin SuppressedBy(job[p])
  BY <1>5, <1>6 DEF Live, Suppress, Decision, FinalStatuses
<1>9. LiveRuns' \ {nRuns + 1} = LiveRuns \ SuppressedBy(job[p])
  BY <1>2, <1>8 DEF LiveRuns
<1>. QED BY <1>1, <1>2, <1>4, <1>5, <1>7, <1>9

\* Every other step leaves the runs and their decisions alone.
LEMMA OnlyCommitWritesDecisions ==
    ASSUME [Next]_vars, ~\E p \in Publishers : CommitPublish(p)
    PROVE  nRuns' = nRuns /\ decisions' = decisions
BY DEF Next, Administer, Publish, Read, vars, AdvanceClock, SetEngineSettings, CreateManualOverride,
       ExpireOverride, BeginPublish, SerializationFailure, HandOff, LosePublisher, StartSelfHeal,
       MaterializeRow

-----------------------------------------------------------------------------
(* Safety.                                                                 *)

\* One tuple never carries two live picks unless an administrator forced the later.
THEOREM LivePicksAreUnique == Spec => []UniqueLivePick
<1>1. Init => UniqueLivePick
  BY DEF Init, UniqueLivePick, LiveRuns, Runs
<1>2. TypeOK /\ UniqueLivePick /\ [Next]_vars => UniqueLivePick'
  <2>. SUFFICES ASSUME TypeOK, UniqueLivePick, [Next]_vars PROVE UniqueLivePick'
    OBVIOUS
  <2>1. CASE ~\E p \in Publishers : CommitPublish(p)
    BY <2>1, OnlyCommitWritesDecisions DEF UniqueLivePick, LiveRuns, Live, Runs
  <2>2. ASSUME NEW p \in Publishers, CommitPublish(p) PROVE UniqueLivePick'
    <3>. DEFINE j == job[p]
    <3>. SUFFICES ASSUME NEW i \in LiveRuns', NEW k \in LiveRuns',
                         i < k, decisions'[i].tuple = decisions'[k].tuple
                  PROVE  decisions'[k].status = "MANUALLY_FORCED"
      BY DEF UniqueLivePick
    <3>1. i # nRuns + 1 /\ i \in LiveRuns \ SuppressedBy(j)
      BY <2>2, CommitDecisions DEF LiveRuns, Runs, TypeOK
    <3>2. CASE k # nRuns + 1
      BY <2>2, <3>1, <3>2, CommitDecisions DEF UniqueLivePick, LiveRuns
    <3>3. CASE k = nRuns + 1
      <4>1. decisions'[k].tuple = j.tuple /\ decisions'[k].status = StatusOf(j)
        <5>1. decisions'[k] = NewDecision(j)
          BY <2>2, <3>3, CommitDecisions
        <5>2. NewDecision(j).tuple = j.tuple /\ NewDecision(j).status = StatusOf(j)
          BY DEF NewDecision
        <5>. QED BY <5>1, <5>2
      <4>2. decisions[i].tuple = j.tuple
        BY <2>2, <3>1, <4>1, CommitDecisions DEF LiveRuns
      <4>3. StatusOf(j) # "APPROVED"
        BY <3>1, <4>2, ApprovedMeansNoConflict DEF SameTuple
      <4>. QED BY <3>3, <4>1, <4>3 DEF LiveRuns, Live, FinalStatuses
    <3>. QED BY <3>2, <3>3
  <2>. QED BY <2>1, <2>2
<1>. QED BY <1>1, <1>2, TypeCorrect, PTL DEF Spec

\* No step turns a decision that is not live back into a live one.
THEOREM LiveNeverReturns == Spec => NoRevival
<1>1. TypeOK /\ [Next]_vars => [\A i \in Runs : ~Live(i) => ~Live(i)']_vars
  <2>. SUFFICES ASSUME TypeOK, [Next]_vars, NEW i \in Runs, ~Live(i) PROVE ~Live(i)'
    OBVIOUS
  <2>1. CASE ~\E p \in Publishers : CommitPublish(p)
    BY <2>1, OnlyCommitWritesDecisions DEF Live
  <2>2. ASSUME NEW p \in Publishers, CommitPublish(p) PROVE ~Live(i)'
    BY <2>2, CommitDecisions DEF LiveRuns
  <2>. QED BY <2>1, <2>2
<1>. QED BY <1>1, TypeCorrect, PTL DEF Spec, NoRevival

-----------------------------------------------------------------------------
(* Pointers and hand-offs.                                                 *)

\* A decision a pointer names exists: NamedPointerIsPublic needs it to follow the
\* decision through later transactions.
NamedDecisionExists ==
    \A tuple \in Tuples :
        (pointers[tuple] # NoPointer /\ pointers[tuple].decision # NoDecision) =>
            pointers[tuple].decision \in Runs

PointerInv == NamedDecisionExists /\ NamedPointerIsPublic

LEMMA PointerStep == TypeOK /\ PointerInv /\ [Next]_vars => PointerInv'
<1>. SUFFICES ASSUME TypeOK, PointerInv, [Next]_vars,
                     NEW tuple \in Tuples, pointers'[tuple] # NoPointer,
                     pointers'[tuple].decision # NoDecision
              PROVE  /\ pointers'[tuple].decision \in Runs'
                     /\ decisions'[pointers'[tuple].decision].tuple = tuple
                     /\ decisions'[pointers'[tuple].decision].isPublic
                     /\ tuple[2] # PostMatch
  BY DEF PointerInv, NamedDecisionExists, NamedPointerIsPublic
<1>1. ASSUME NEW p \in Publishers, CommitPublish(p)
      PROVE  /\ pointers'[tuple].decision \in Runs'
             /\ decisions'[pointers'[tuple].decision].tuple = tuple
             /\ decisions'[pointers'[tuple].decision].isPublic
             /\ tuple[2] # PostMatch
  <2>. DEFINE j == job[p]
  <2>1. pointers' = PointersAfter(j)
    BY <1>1 DEF CommitPublish
  <2>2. CASE tuple = j.tuple
    <3>1. /\ PublishesPublicly(j) /\ tuple[2] # PostMatch
          /\ pointers'[tuple] = [run |-> nRuns + 1, decision |-> nRuns + 1]
      BY <2>1, <2>2 DEF PointersAfter
    <3>2. NewDecision(j).tuple = tuple /\ NewDecision(j).isPublic
      BY <2>2, <3>1 DEF NewDecision
    <3>. QED BY <1>1, <3>1, <3>2, CommitDecisions
  <2>3. CASE tuple # j.tuple
    <3>1. /\ pointers'[tuple] = pointers[tuple]
          /\ pointers[tuple].decision \notin SuppressedBy(j)
      BY <2>1, <2>3 DEF PointersAfter, PointerKept
    <3>2. /\ pointers[tuple].decision \in Runs /\ tuple[2] # PostMatch
          /\ decisions[pointers[tuple].decision].tuple = tuple
          /\ decisions[pointers[tuple].decision].isPublic
      BY <3>1 DEF PointerInv, NamedDecisionExists, NamedPointerIsPublic
    <3>. QED BY <1>1, <3>1, <3>2, CommitDecisions
  <2>. QED BY <2>2, <2>3
<1>2. ASSUME NEW r \in Readers, NEW i \in reader[r], MaterializeRow(r, i)
      PROVE  /\ pointers[tuple] # NoPointer
             /\ pointers'[tuple].decision = pointers[tuple].decision
  <2>1. pointers[tuple] # NoPointer => pointers[tuple] \in Pointer
    BY DEF TypeOK
  <2>2. /\ decisions[i].tuple = tuple => pointers'[tuple] =
              IF pointers[tuple] = NoPointer THEN [run |-> i, decision |-> NoDecision]
              ELSE [pointers[tuple] EXCEPT !.run = i]
        /\ decisions[i].tuple # tuple => pointers'[tuple] = pointers[tuple]
    BY <1>2 DEF MaterializeRow, TypeOK
  <2>3. pointers[tuple] # NoPointer
    BY <2>2
  <2>. QED BY <2>1, <2>2, <2>3 DEF Pointer
<1>3. CASE ~\E p \in Publishers : CommitPublish(p)
  <2>1. nRuns' = nRuns /\ decisions' = decisions
    BY <1>3, OnlyCommitWritesDecisions
  <2>2. pointers[tuple] # NoPointer /\ pointers'[tuple].decision = pointers[tuple].decision
    BY <1>2, <1>3
    DEF Next, Administer, Publish, Read, vars, AdvanceClock, SetEngineSettings, CreateManualOverride,
        ExpireOverride, BeginPublish, SerializationFailure, HandOff, LosePublisher, StartSelfHeal
  <2>. QED BY <2>1, <2>2 DEF PointerInv, NamedDecisionExists, NamedPointerIsPublic, Runs
<1>. QED BY <1>1, <1>3

\* A named pointer always shows a public decision of its own tuple.
THEOREM NamedPointersArePublic == Spec => []NamedPointerIsPublic
<1>1. Init => PointerInv
  BY DEF Init, PointerInv, NamedDecisionExists, NamedPointerIsPublic
<1>2. PointerInv => NamedPointerIsPublic
  BY DEF PointerInv
<1>. QED BY <1>1, <1>2, PointerStep, TypeCorrect, PTL DEF Spec

-----------------------------------------------------------------------------
(* Pointers are never stale unless a request heals them.                   *)

\* No public request is re-materialising pointers.
NoSelfHeal == \A r \in Readers : reader[r] = {}

\* i is the newest run of the tuple.
IsNewest(i, tuple) ==
    /\ i \in Runs /\ decisions[i].tuple = tuple
    /\ \A other \in Runs : decisions[other].tuple = tuple => other <= i

\* PointerIsNewestRun without its CHOOSE: the run and the decision of a pointer
\* are the number of the newest run.
FreshInv ==
    \A tuple \in Tuples : pointers[tuple] # NoPointer =>
        \E i \in Nat : IsNewest(i, tuple) /\ pointers[tuple] = [run |-> i, decision |-> i]

LEMMA NewestIsUnique == TypeOK /\ FreshInv => PointerIsNewestRun
<1>. SUFFICES ASSUME TypeOK, FreshInv, NEW tuple \in Tuples, pointers[tuple] # NoPointer
              PROVE  LET newest == CHOOSE i \in Runs :
                             /\ decisions[i].tuple = tuple
                             /\ \A other \in Runs : decisions[other].tuple = tuple => other <= i
                     IN  pointers[tuple] = [run |-> newest, decision |-> newest]
  BY DEF PointerIsNewestRun
<1>. DEFINE Newest(i) == /\ decisions[i].tuple = tuple
                         /\ \A other \in Runs : decisions[other].tuple = tuple => other <= i
<1>1. PICK i \in Nat : IsNewest(i, tuple) /\ pointers[tuple] = [run |-> i, decision |-> i]
  BY DEF FreshInv
<1>2. i \in Runs /\ Newest(i)
  BY <1>1 DEF IsNewest
<1>3. \A k \in Runs : Newest(k) => k = i
  BY <1>2 DEF TypeOK, Runs
<1>4. (CHOOSE k \in Runs : Newest(k)) = i
  BY <1>2, <1>3
<1>. QED BY <1>1, <1>4

\* A commit publishes its own run, which is newer than every other, or takes the
\* pointer away; no other tuple gets a run.
LEMMA FreshStep == TypeOK /\ NoSelfHeal /\ FreshInv /\ [Next]_vars => FreshInv'
<1>. SUFFICES ASSUME TypeOK, NoSelfHeal, FreshInv, [Next]_vars,
                     NEW tuple \in Tuples, pointers'[tuple] # NoPointer
              PROVE  \E i \in Nat : IsNewest(i, tuple)' /\ pointers'[tuple] = [run |-> i, decision |-> i]
  BY DEF FreshInv
<1>1. ASSUME NEW p \in Publishers, CommitPublish(p)
      PROVE  \E i \in Nat : IsNewest(i, tuple)' /\ pointers'[tuple] = [run |-> i, decision |-> i]
  <2>. DEFINE j == job[p]
  <2>1. pointers' = PointersAfter(j) /\ nRuns \in Nat
    BY <1>1 DEF CommitPublish, TypeOK
  <2>. PICK new \in Nat : new = nRuns + 1
    BY <2>1
  <2>2. decisions'[new].tuple = j.tuple
    <3>1. decisions'[new] = NewDecision(j)
      BY <1>1, CommitDecisions
    <3>2. NewDecision(j).tuple = j.tuple
      BY DEF NewDecision
    <3>. QED BY <3>1, <3>2
  <2>3. Runs' = Runs \cup {new} /\ \A i \in Runs : decisions'[i].tuple = decisions[i].tuple
    BY <1>1, CommitDecisions
  <2>4. CASE tuple = j.tuple
    <3>1. pointers'[tuple] = [run |-> new, decision |-> new]
      BY <2>1, <2>4 DEF PointersAfter
    <3>2. \A other \in Runs' : other <= new
      BY <2>1, <2>3 DEF Runs
    <3>3. IsNewest(new, tuple)'
      BY <2>2, <2>3, <2>4, <3>2 DEF IsNewest
    <3>. QED BY <2>1, <3>1, <3>3
  <2>5. CASE tuple # j.tuple
    <3>1. pointers'[tuple] = pointers[tuple]
      BY <2>1, <2>5 DEF PointersAfter
    <3>2. PICK i \in Nat : IsNewest(i, tuple) /\ pointers[tuple] = [run |-> i, decision |-> i]
      BY <3>1 DEF FreshInv
    <3>3. IsNewest(i, tuple)'
      BY <2>2, <2>3, <2>5, <3>2 DEF IsNewest
    <3>. QED BY <3>1, <3>2, <3>3
  <2>. QED BY <2>4, <2>5
<1>2. CASE ~\E p \in Publishers : CommitPublish(p)
  <2>1. nRuns' = nRuns /\ decisions' = decisions
    BY <1>2, OnlyCommitWritesDecisions
  <2>2. pointers' = pointers
    BY <1>2 DEF Next, Administer, Publish, Read, vars, AdvanceClock, SetEngineSettings,
                CreateManualOverride, ExpireOverride, BeginPublish, SerializationFailure, HandOff,
                LosePublisher, StartSelfHeal, MaterializeRow, NoSelfHeal
  <2>. QED BY <2>1, <2>2 DEF FreshInv, IsNewest, Runs
<1>. QED BY <1>1, <1>2

\* As long as no request heals the pointers, a pointer is the newest run of its
\* tuple with that run's own decision, whatever the publishers retry, suppress or
\* lose: only the reader can leave a stale run published.
THEOREM OnlySelfHealLeavesStalePointers == Spec /\ []NoSelfHeal => []PointerIsNewestRun
<1>1. Init => FreshInv
  BY DEF Init, FreshInv
<1>. QED BY <1>1, FreshStep, NewestIsUnique, TypeCorrect, PTL DEF Spec

\* "The public API returns only APPROVED or MANUALLY_FORCED predictions" until a
\* request heals the pointers: the run that findPublishedRows() lets through has
\* the decision it was published with.
THEOREM OnlySelfHealShowsUnapproved == Spec /\ []NoSelfHeal => []VisibleRunsAreApproved
<1>1. Init => FreshInv
  BY DEF Init, FreshInv
<1>2. TypeOK /\ FreshInv => VisibleRunsAreApproved
  <2>. SUFFICES ASSUME TypeOK, FreshInv, NEW tuple \in Tuples, Visible(tuple)
                PROVE  Live(pointers[tuple].run)
    BY DEF VisibleRunsAreApproved
  <2>1. PICK i \in Nat : pointers[tuple] = [run |-> i, decision |-> i]
    BY DEF Visible, FreshInv
  <2>2. i # NoDecision
    BY PublishAssumption
  <2>. QED BY <2>1, <2>2 DEF Visible
<1>. QED BY <1>1, <1>2, FreshStep, TypeCorrect, PTL DEF Spec

\* Without readers, as in the run publish_core, nothing heals.
COROLLARY PointersAreNewest == ASSUME Readers = {} PROVE Spec => []PointerIsNewestRun
<1>1. NoSelfHeal
  BY DEF NoSelfHeal
<1>. QED BY <1>1, OnlySelfHealLeavesStalePointers, PTL

-----------------------------------------------------------------------------
(* Limits and refinement.                                                  *)

LEMMA LiveRunsFinite ==
    ASSUME TypeOK PROVE IsFiniteSet(Runs) /\ IsFiniteSet(LiveRuns)
<1>1. IsFiniteSet(Runs)
  BY FS_Interval DEF TypeOK, Runs
<1>. QED BY <1>1, FS_Subset DEF LiveRuns

LEMMA ProfileCapsAreNat == ProfileCaps \subseteq Nat
<1>1. 1 .. 8 \subseteq Nat
  OBVIOUS
<1>. QED BY <1>1

LEMMA RuleCaps ==
    ASSUME NEW market, NEW rule \in RulesFor(MarketFamily(market)) PROVE rule.cap \in Nat
<1>1. MarketFamily(market) \in {"result", "totals", "btts", "score", "other"}
  BY DEF MarketFamily
<1>2. \A family \in {"result", "totals", "btts", "score", "other"} : DefaultRule[family].cap \in Nat
  BY DEF DefaultRule
<1>. QED BY <1>1, <1>2 DEF RulesFor

\* An approval leaves the match and the family room: it was below every limit.
LEMMA ApprovedMeansRoom ==
    ASSUME TypeOK, NEW j \in Job, j.stage = "tx", StatusOf(j) = "APPROVED"
    PROVE  /\ Cardinality(LiveRuns) < j.cap
           /\ \A rule \in RulesFor(MarketFamily(j.tuple[1])) :
                    Cardinality(SameFamily(j.tuple)) < rule.cap
<1>1. ConflictReasons(j.tuple, j.selection, j.score, j.cap) = {}
  BY ApprovedMeansNoConflict
<1>2. ~(Cardinality(LiveRuns) >= j.cap) /\ ~PolicyLimit(j.tuple)
  BY <1>1 DEF ConflictReasons
<1>3. Cardinality(LiveRuns) \in Nat /\ Cardinality(SameFamily(j.tuple)) \in Nat
  <2>1. SameFamily(j.tuple) \in SUBSET LiveRuns
    BY DEF SameFamily
  <2>. QED BY <2>1, LiveRunsFinite, FS_CardinalityType, FS_Subset
<1>4. j.cap \in Nat
  <2>1. j.cap \in ProfileCaps
    BY DEF Job
  <2>. QED BY <2>1, ProfileCapsAreNat
<1>5. \A rule \in RulesFor(MarketFamily(j.tuple[1])) : ~(Cardinality(SameFamily(j.tuple)) >= rule.cap)
  BY <1>2 DEF PolicyLimit
<1>6. \A rule \in RulesFor(MarketFamily(j.tuple[1])) : rule.cap \in Nat
  BY RuleCaps
<1>. QED BY <1>2, <1>3, <1>4, <1>5, <1>6

\* The live decisions older than a given one only get fewer.
LEMMA OlderShrinks ==
    ASSUME TypeOK, NEW p \in Publishers, CommitPublish(p), NEW k \in Runs
    PROVE  OlderLive(k)' \subseteq OlderLive(k) /\ OlderRelated(k)' \subseteq OlderRelated(k)
<1>1. k \in Nat /\ k # nRuns + 1 /\ ~(nRuns + 1 < k)
  BY DEF TypeOK, Runs
<1>2. OlderLive(k)' \subseteq OlderLive(k)
  BY <1>1, CommitDecisions DEF OlderLive
<1>3. \A i \in LiveRuns : i \in Runs
  BY DEF LiveRuns
<1>4. decisions'[k].tuple = decisions[k].tuple /\ \A i \in LiveRuns : decisions'[i].tuple = decisions[i].tuple
  BY <1>3, CommitDecisions
<1>. QED BY <1>2, <1>4 DEF OlderRelated, SameFamily, OlderLive

\* Nothing a later transaction does makes an approved pick exceed its limits.
THEOREM PickLimitsHold == Spec => []PickLimits
<1>1. Init => PickLimits
  BY DEF Init, PickLimits, Runs
<1>2. TypeOK /\ PickLimits /\ [Next]_vars => PickLimits'
  <2>. SUFFICES ASSUME TypeOK, PickLimits, [Next]_vars PROVE PickLimits'
    OBVIOUS
  <2>1. CASE ~\E p \in Publishers : CommitPublish(p)
    BY <2>1, OnlyCommitWritesDecisions
    DEF PickLimits, OlderLive, OlderRelated, LiveRuns, Live, Runs, SameFamily
  <2>2. ASSUME NEW p \in Publishers, CommitPublish(p) PROVE PickLimits'
    <3>. DEFINE j == job[p]
    <3>. SUFFICES ASSUME NEW k \in Runs', decisions'[k].status = "APPROVED"
                  PROVE  /\ Cardinality(OlderLive(k)') < decisions'[k].cap
                         /\ \A rule \in RulesFor(MarketFamily(decisions'[k].tuple[1])) :
                              Cardinality(OlderRelated(k)') < rule.cap
      BY DEF PickLimits
    <3>1. CASE k \in Runs
      <4>1. decisions[k] \in Decision
        BY <3>1 DEF TypeOK
      <4>2. decisions'[k] = decisions[k]
        BY <2>2, <3>1, <4>1, CommitDecisions DEF Suppress, Decision
      <4>3. /\ OlderLive(k)' \subseteq OlderLive(k) /\ OlderRelated(k)' \subseteq OlderRelated(k)
        BY <2>2, <3>1, OlderShrinks
      <4>4. IsFiniteSet(OlderLive(k)) /\ IsFiniteSet(OlderRelated(k))
        <5>1. OlderLive(k) \in SUBSET LiveRuns /\ OlderRelated(k) \in SUBSET LiveRuns
          BY DEF OlderLive, OlderRelated
        <5>. QED BY <5>1, LiveRunsFinite, FS_Subset
      <4>5. /\ Cardinality(OlderLive(k)') <= Cardinality(OlderLive(k))
            /\ Cardinality(OlderLive(k)') \in Nat /\ Cardinality(OlderLive(k)) \in Nat
        BY <4>3, <4>4, FS_Subset, FS_CardinalityType
      <4>6. /\ Cardinality(OlderRelated(k)') <= Cardinality(OlderRelated(k))
            /\ Cardinality(OlderRelated(k)') \in Nat /\ Cardinality(OlderRelated(k)) \in Nat
        BY <4>3, <4>4, FS_Subset, FS_CardinalityType
      <4>7. decisions[k].cap \in Nat
        <5>1. decisions[k].cap \in ProfileCaps
          BY <4>1 DEF Decision
        <5>. QED BY <5>1, ProfileCapsAreNat
      <4>8. /\ Cardinality(OlderLive(k)) < decisions[k].cap
            /\ \A rule \in RulesFor(MarketFamily(decisions[k].tuple[1])) :
                  Cardinality(OlderRelated(k)) < rule.cap
        BY <3>1, <4>2 DEF PickLimits
      <4>9. \A rule \in RulesFor(MarketFamily(decisions[k].tuple[1])) : rule.cap \in Nat
        BY RuleCaps
      <4>. QED BY <4>2, <4>5, <4>6, <4>7, <4>8, <4>9
    <3>2. CASE k = nRuns + 1
      <4>1. j \in Job /\ j.stage = "tx"
        BY <2>2 DEF CommitPublish, TypeOK
      <4>2. decisions'[k].tuple = j.tuple /\ decisions'[k].cap = j.cap /\ decisions'[k].status = StatusOf(j)
        <5>1. decisions'[k] = NewDecision(j)
          BY <2>2, <3>2, CommitDecisions
        <5>2. NewDecision(j).tuple = j.tuple /\ NewDecision(j).cap = j.cap /\ NewDecision(j).status = StatusOf(j)
          BY DEF NewDecision
        <5>. QED BY <5>1, <5>2
      <4>3. OlderLive(k)' \subseteq LiveRuns
        BY <2>2, <3>2, CommitDecisions DEF TypeOK, OlderLive
      <4>4. OlderRelated(k)' \subseteq SameFamily(j.tuple)
        <5>1. \A i \in LiveRuns : decisions'[i].tuple = decisions[i].tuple
          BY <2>2, CommitDecisions DEF LiveRuns
        <5>. QED BY <4>2, <4>3, <5>1 DEF SameFamily, OlderRelated
      <4>5. IsFiniteSet(LiveRuns) /\ IsFiniteSet(SameFamily(j.tuple))
        <5>1. SameFamily(j.tuple) \in SUBSET LiveRuns
          BY DEF SameFamily
        <5>. QED BY <5>1, LiveRunsFinite, FS_Subset
      <4>6. /\ Cardinality(OlderLive(k)') <= Cardinality(LiveRuns)
            /\ Cardinality(OlderLive(k)') \in Nat /\ Cardinality(LiveRuns) \in Nat
        BY <4>3, <4>5, FS_Subset, FS_CardinalityType
      <4>7. /\ Cardinality(OlderRelated(k)') <= Cardinality(SameFamily(j.tuple))
            /\ Cardinality(OlderRelated(k)') \in Nat /\ Cardinality(SameFamily(j.tuple)) \in Nat
        BY <4>4, <4>5, FS_Subset, FS_CardinalityType
      <4>8. j.cap \in Nat
        <5>1. j.cap \in ProfileCaps
          BY <4>1 DEF Job
        <5>. QED BY <5>1, ProfileCapsAreNat
      <4>9. /\ Cardinality(LiveRuns) < j.cap
            /\ \A rule \in RulesFor(MarketFamily(j.tuple[1])) : Cardinality(SameFamily(j.tuple)) < rule.cap
        BY <4>1, <4>2, ApprovedMeansRoom
      <4>10. \A rule \in RulesFor(MarketFamily(j.tuple[1])) : rule.cap \in Nat
        BY RuleCaps
      <4>. QED BY <4>2, <4>6, <4>7, <4>8, <4>9, <4>10
    <3>. QED BY <2>2, <3>1, <3>2, CommitDecisions
  <2>. QED BY <2>1, <2>2
<1>. QED BY <1>1, <1>2, TypeCorrect, PTL DEF Spec

-----------------------------------------------------------------------------
(* Hand-offs.                                                              *)

LEMMA PendingAreRuns == TypeOK => Pending \subseteq Runs
<1>. SUFFICES ASSUME TypeOK, NEW p \in Publishers, job[p].stage = "handoff" PROVE job[p].decision \in Runs
  BY DEF Pending
<1>1. job[p] \in Job
  BY DEF TypeOK
<1>. QED BY <1>1 DEF Job

\* Only a commit adds a decision to those handed over or about to be.
LEMMA HandedGrows ==
    ASSUME TypeOK, [Next]_vars
    PROVE  \/ handed' \cup Pending' \subseteq handed \cup Pending
           \/ \E p \in Publishers :
                /\ CommitPublish(p)
                /\ handed' = handed
                /\ \/ Pending' \subseteq Pending
                   \/ HandsOff(job[p]) /\ Pending' \subseteq Pending \cup {nRuns + 1}
<1>. USE DEF TypeOK
<1>1. ASSUME NEW p \in Publishers, NEW market \in Markets, NEW selection \in Selections,
             NEW score \in Scores, NEW policy \in PolicyOutcomes, NEW cap \in ProfileCaps,
             BeginPublish(p, market, selection, score, policy, cap)
      PROVE  handed' = handed /\ Pending' \subseteq Pending
  <2>1. job'[p].stage = "tx" /\ \A q \in Publishers : q # p => job'[q] = job[q]
    BY <1>1 DEF BeginPublish
  <2>. QED BY <1>1, <2>1 DEF BeginPublish, Pending
<1>2. ASSUME NEW p \in Publishers, CommitPublish(p)
      PROVE  /\ handed' = handed
             /\ \/ Pending' \subseteq Pending
                \/ HandsOff(job[p]) /\ Pending' \subseteq Pending \cup {nRuns + 1}
  <2>1. CASE HandsOff(job[p])
    <3>1. job'[p].decision = nRuns + 1 /\ \A q \in Publishers : q # p => job'[q] = job[q]
      BY <1>2, <2>1 DEF CommitPublish
    <3>. QED BY <1>2, <2>1, <3>1 DEF CommitPublish, Pending
  <2>2. CASE ~HandsOff(job[p])
    <3>1. job'[p].stage = "idle" /\ \A q \in Publishers : q # p => job'[q] = job[q]
      BY <1>2, <2>2 DEF CommitPublish, Idle
    <3>. QED BY <1>2, <3>1 DEF CommitPublish, Pending
  <2>. QED BY <2>1, <2>2
<1>3. ASSUME NEW p \in Publishers, SerializationFailure(p) PROVE handed' = handed /\ Pending' \subseteq Pending
  <2>1. job'[p].stage # "handoff" /\ \A q \in Publishers : q # p => job'[q] = job[q]
    <3>1. CASE job[p].attempt < MaxAttempts
      <4>1. job'[p].stage = job[p].stage
        <5>1. job[p] \in [stage : {"tx"}, tuple : Tuples, selection : Selections, score : Scores,
                          cap : ProfileCaps, policy : PolicyOutcomes, settings : SettingsSpace,
                          attempt : 1 .. MaxAttempts]
          BY <1>3 DEF SerializationFailure, Job
        <5>. QED BY <1>3, <3>1, <5>1 DEF SerializationFailure
      <4>. QED BY <1>3, <3>1, <4>1 DEF SerializationFailure
    <3>2. CASE ~(job[p].attempt < MaxAttempts)
      BY <1>3, <3>2 DEF SerializationFailure, Idle
    <3>. QED BY <3>1, <3>2
  <2>. QED BY <1>3, <2>1 DEF SerializationFailure, Pending
<1>4. ASSUME NEW p \in Publishers, HandOff(p) PROVE handed' \cup Pending' \subseteq handed \cup Pending
  <2>1. job'[p].stage # "handoff" /\ \A q \in Publishers : q # p => job'[q] = job[q]
    BY <1>4 DEF HandOff, Idle
  <2>. QED BY <1>4, <2>1 DEF HandOff, Pending
<1>5. ASSUME NEW p \in Publishers, LosePublisher(p) PROVE handed' = handed /\ Pending' \subseteq Pending
  <2>1. job'[p].stage # "handoff" /\ \A q \in Publishers : q # p => job'[q] = job[q]
    BY <1>5 DEF LosePublisher, Idle
  <2>. QED BY <1>5, <2>1 DEF LosePublisher, Pending
<1>6. CASE Administer \/ (\E r \in Readers : Read(r)) \/ UNCHANGED vars
  BY <1>6 DEF Administer, Read, vars, AdvanceClock, SetEngineSettings, CreateManualOverride,
              ExpireOverride, StartSelfHeal, MaterializeRow, Pending
<1>. QED BY <1>1, <1>2, <1>3, <1>4, <1>5, <1>6 DEF Next, Publish

\* What reaches the bankroll layer was approved or forced when it was decided.
THEOREM HandedSelectionsWereFinal == Spec => []HandedWasFinal
<1>1. Init => HandedWasFinal
  BY DEF Init, HandedWasFinal, Pending, Idle
<1>2. TypeOK /\ HandedWasFinal /\ [Next]_vars => HandedWasFinal'
  <2>. SUFFICES ASSUME TypeOK, HandedWasFinal, [Next]_vars, NEW i \in handed' \cup Pending'
                PROVE  /\ decisions'[i].status \in FinalStatuses \cup {"SUPPRESSED"}
                       /\ decisions'[i].tuple[2] # PostMatch
    BY DEF HandedWasFinal
  <2>1. CASE ~\E p \in Publishers : CommitPublish(p)
    BY <2>1, HandedGrows, OnlyCommitWritesDecisions DEF HandedWasFinal
  <2>2. ASSUME NEW p \in Publishers, CommitPublish(p), i \in handed \cup Pending
        PROVE  /\ decisions'[i].status \in FinalStatuses \cup {"SUPPRESSED"}
               /\ decisions'[i].tuple[2] # PostMatch
    <3>1. i \in Runs
      BY <2>2, PendingAreRuns DEF TypeOK
    <3>2. decisions[i] \in Decision
      BY <3>1 DEF TypeOK
    <3>3. decisions'[i] = decisions[i] \/ decisions'[i] = Suppress(decisions[i])
      BY <2>2, <3>1, CommitDecisions
    <3>. QED BY <2>2, <3>2, <3>3 DEF HandedWasFinal, Suppress, Decision
  <2>3. ASSUME NEW p \in Publishers, CommitPublish(p), HandsOff(job[p]), i = nRuns + 1
        PROVE  /\ decisions'[i].status \in FinalStatuses \cup {"SUPPRESSED"}
               /\ decisions'[i].tuple[2] # PostMatch
    <3>1. decisions'[i] = NewDecision(job[p])
      BY <2>3, CommitDecisions
    <3>2. NewDecision(job[p]).status = StatusOf(job[p]) /\ NewDecision(job[p]).tuple = job[p].tuple
      BY DEF NewDecision
    <3>. QED BY <2>3, <3>1, <3>2 DEF HandsOff
  <2>4. CASE i \in handed \cup Pending
    BY <2>1, <2>2, <2>4
  <2>5. CASE i \notin handed \cup Pending
    BY <2>3, <2>5, HandedGrows
  <2>. QED BY <2>4, <2>5
<1>. QED BY <1>1, <1>2, TypeCorrect, PTL DEF Spec

-----------------------------------------------------------------------------
(* The engine implements the pick book.                                    *)

\* There are as many picks as live decisions.
LEMMA PicksCount ==
    ASSUME TypeOK
    PROVE  IsFiniteSet(LivePicks) /\ Cardinality(LivePicks) <= Cardinality(LiveRuns)
<1>. DEFINE pickOf == [i \in LiveRuns |-> LivePick(i)]
<1>1. pickOf \in Surjection(LiveRuns, LivePicks)
  BY DEF Surjection, LivePicks
<1>. QED BY <1>1, LiveRunsFinite, FS_Surjection

\* A transaction takes out of the book the picks it suppresses and adds its own.
LEMMA CommitPicks ==
    ASSUME TypeOK, NEW p \in Publishers, CommitPublish(p)
    PROVE  LET kept == {LivePick(i) : i \in LiveRuns \ SuppressedBy(job[p])}
               added == [id |-> nRuns + 1, tuple |-> job[p].tuple,
                         forced |-> StatusOf(job[p]) = "MANUALLY_FORCED"]
           IN  LivePicks' = IF StatusOf(job[p]) \in FinalStatuses THEN kept \cup {added} ELSE kept
<1>. DEFINE j == job[p]
            kept == {LivePick(i) : i \in LiveRuns \ SuppressedBy(j)}
            added == [id |-> nRuns + 1, tuple |-> j.tuple, forced |-> StatusOf(j) = "MANUALLY_FORCED"]
<1>0. PICK new : new = nRuns + 1
  OBVIOUS
<1>1. \A i \in LiveRuns \ SuppressedBy(j) : LivePick(i)' = LivePick(i)
  BY CommitDecisions DEF LivePick, LiveRuns
<1>2. decisions'[new] = NewDecision(j)
  BY <1>0, CommitDecisions
<1>3. NewDecision(j).tuple = j.tuple /\ NewDecision(j).status = StatusOf(j)
  BY DEF NewDecision
<1>4. LivePick(new)' = added
  BY <1>0, <1>2, <1>3 DEF LivePick
<1>5. new \in LiveRuns' <=> StatusOf(j) \in FinalStatuses
  BY <1>0, <1>2, <1>3, CommitDecisions DEF LiveRuns, Live
<1>6. LiveRuns' = IF StatusOf(j) \in FinalStatuses
                  THEN (LiveRuns \ SuppressedBy(j)) \cup {new} ELSE LiveRuns \ SuppressedBy(j)
  BY <1>0, <1>5, CommitDecisions
<1>7. \A pick : pick \in LivePicks' <=> \E i \in LiveRuns' : pick = LivePick(i)'
  BY DEF LivePicks
<1>8. \A pick : pick \in kept <=> \E i \in LiveRuns \ SuppressedBy(j) : pick = LivePick(i)
  OBVIOUS
<1>. HIDE DEF added, kept
<1>9. CASE StatusOf(j) \in FinalStatuses
  <2>1. \A pick : pick \in LivePicks' <=> pick \in kept \/ pick = added
    BY <1>1, <1>4, <1>6, <1>7, <1>8, <1>9
  <2>. QED BY <1>9, <2>1 DEF added, kept
<1>10. CASE StatusOf(j) \notin FinalStatuses
  <2>1. \A pick : pick \in LivePicks' <=> pick \in kept
    BY <1>1, <1>6, <1>7, <1>8, <1>10
  <2>. QED BY <1>10, <2>1 DEF added, kept
<1>. QED BY <1>9, <1>10

\* The picks left when a whole tuple is suppressed are those on the other tuples.
LEMMA KeptWithoutTuple ==
    ASSUME NEW tuple
    PROVE  {LivePick(i) : i \in LiveRuns \ SameTuple(tuple)} = LivePicks \ Book!On(tuple)
BY DEF LivePicks, LivePick, SameTuple, Book!On

LEMMA BookStep == TypeOK /\ [Next]_vars => [Book!BookNext]_<<LivePicks, nRuns>>
<1>. SUFFICES ASSUME TypeOK, [Next]_vars PROVE [Book!BookNext]_<<LivePicks, nRuns>>
  OBVIOUS
<1>1. CASE ~\E p \in Publishers : CommitPublish(p)
  BY <1>1, OnlyCommitWritesDecisions DEF LivePicks, LivePick, LiveRuns, Live, Runs
<1>2. ASSUME NEW p \in Publishers, CommitPublish(p) PROVE Book!BookNext
  <2>. DEFINE j == job[p]
  <2>1. j \in Job /\ j.stage = "tx" /\ nRuns' = nRuns + 1
    BY <1>2 DEF CommitPublish, TypeOK
  <2>2. j.tuple \in Tuples /\ j.cap \in ProfileCaps
    BY <2>1 DEF Job
  <2>3. CASE StatusOf(j) = "APPROVED"
    <3>1. LivePicks' = (LivePicks \ Book!On(j.tuple)) \cup
                       {[id |-> nRuns + 1, tuple |-> j.tuple, forced |-> FALSE]}
      <4>1. (StatusOf(j) = "MANUALLY_FORCED") = FALSE /\ StatusOf(j) \in FinalStatuses
        BY <2>3 DEF FinalStatuses
      <4>. QED BY <1>2, <2>3, <4>1, CommitPicks, ApprovedMeansNoConflict, KeptWithoutTuple
    <3>2. Cardinality(LivePicks) < j.cap
      <4>1. Cardinality(LivePicks) \in Nat /\ Cardinality(LiveRuns) \in Nat
        BY PicksCount, LiveRunsFinite, FS_CardinalityType
      <4>2. j.cap \in Nat
        BY <2>2, ProfileCapsAreNat
      <4>3. Cardinality(LiveRuns) < j.cap
        BY <2>1, <2>3, ApprovedMeansRoom
      <4>. QED BY <4>1, <4>2, <4>3, PicksCount
    <3>3. \A tuple, cap : Cardinality(LivePicks) < cap /\ nRuns' = nRuns + 1
                          /\ LivePicks' = (LivePicks \ Book!On(tuple)) \cup
                                          {[id |-> nRuns + 1, tuple |-> tuple, forced |-> FALSE]}
                          => Book!Approve(tuple, cap)
      BY DEF Book!Approve, Book!Cardinality, Cardinality
    <3>4. Book!Approve(j.tuple, j.cap)
      BY <2>1, <3>1, <3>2, <3>3
    <3>. QED BY <2>2, <3>4 DEF Book!BookNext
  <2>4. CASE StatusOf(j) = "MANUALLY_FORCED"
    <3>1. SuppressedBy(j) = {}
      <4>1. ~ResolvesConflicts(j)
        <5>1. ASSUME NEW reasons PROVE ClassifyStatus(reasons) # "MANUALLY_FORCED"
          BY DEF ClassifyStatus
        <5>. QED BY <2>4, <5>1 DEF StatusOf, ResolvesConflicts
      <4>. QED BY <4>1 DEF SuppressedBy
    <3>2. LivePicks' = LivePicks \cup {[id |-> nRuns + 1, tuple |-> j.tuple, forced |-> TRUE]}
      <4>1. (StatusOf(j) = "MANUALLY_FORCED") = TRUE /\ StatusOf(j) \in FinalStatuses
        BY <2>4 DEF FinalStatuses
      <4>2. {LivePick(i) : i \in LiveRuns \ SuppressedBy(j)} = LivePicks
        BY <3>1 DEF LivePicks
      <4>. QED BY <1>2, <4>1, <4>2, CommitPicks
    <3>3. Book!Force(j.tuple)
      BY <2>1, <3>2 DEF Book!Force
    <3>. QED BY <2>2, <3>3 DEF Book!BookNext
  <2>5. CASE StatusOf(j) \notin FinalStatuses
    <3>1. LivePicks' = {LivePick(i) : i \in LiveRuns \ SuppressedBy(j)}
      BY <1>2, <2>5, CommitPicks
    <3>2. SuppressedBy(j) = {} \/ SuppressedBy(j) = SameTuple(j.tuple)
      BY DEF SuppressedBy, Superseded, Opposing
    <3>3. LivePicks' = LivePicks \/ LivePicks' = LivePicks \ Book!On(j.tuple)
      <4>1. CASE SuppressedBy(j) = {}
        BY <3>1, <4>1 DEF LivePicks
      <4>2. CASE SuppressedBy(j) = SameTuple(j.tuple)
        BY <3>1, <4>2, KeptWithoutTuple
      <4>. QED BY <3>2, <4>1, <4>2
    <3>4. Book!Decline(j.tuple)
      BY <2>1, <3>3 DEF Book!Decline
    <3>. QED BY <2>2, <3>4 DEF Book!BookNext
  <2>. QED BY <2>3, <2>4, <2>5 DEF FinalStatuses
<1>. QED BY <1>1, <1>2

\* Every behaviour of the engine is, seen through its live decisions, a behaviour
\* of the pick book.
THEOREM EngineImplementsPickBook == Spec => ImplementsPickBook
<1>1. Init => Book!BookInit
  BY DEF Init, Book!BookInit, LivePicks, LiveRuns, Runs
<1>. QED BY <1>1, BookStep, TypeCorrect, PTL DEF Spec, ImplementsPickBook, Book!BookSpec, Book!bookVars

=============================================================================
