------------------------- MODULE IngestionRunsProofs -------------------------
(* Proofs about IngestionRuns, for any number of schedulers, processors,   *)
(* runs and faults.                                                        *)
EXTENDS IngestionRuns, SequenceTheorems, TLAPS

USE IngestionAssumption

-----------------------------------------------------------------------------
(* What the steps do to the rows.                                          *)

\* A row keeps its place, and its status moves forward.
Onward ==
    /\ runs' \in Seq(Run)
    /\ Len(runs') \in {Len(runs), Len(runs) + 1}
    /\ \A r \in Ids : /\ runs[r].status # "queued" => runs'[r].status # "queued"
                      /\ ~Active(runs[r]) => ~Active(runs'[r])

LEMMA IdsAreNumbers ==
    ASSUME TypeOK
    PROVE  Ids = 1 .. Len(runs) /\ Len(runs) \in Nat /\ \A r \in Ids : runs[r] \in Run
BY ElementOfSeq, LenProperties DEF TypeOK, Ids

LEMMA OnwardIds ==
    ASSUME TypeOK, Onward
    PROVE  Ids \subseteq Ids' /\ Ids' = 1 .. Len(runs')
<1>1. Ids' = 1 .. Len(runs') /\ Len(runs') \in Nat
  BY LenProperties DEF Onward, Ids
<1>. QED BY <1>1, IdsAreNumbers DEF Onward

\* Replacing one row by a later one.
LEMMA RowStep ==
    ASSUME TypeOK, NEW r \in Ids, NEW row \in Run,
           runs' = [runs EXCEPT ![r] = row],
           runs[r].status # "queued" => row.status # "queued",
           ~Active(runs[r]) => ~Active(row)
    PROVE  Onward /\ Ids' = Ids /\ \A other \in Ids : runs'[other] = IF other = r THEN row ELSE runs[other]
<1>1. r \in 1 .. Len(runs) /\ runs \in Seq(Run)
  BY IdsAreNumbers DEF TypeOK
<1>2. runs' \in Seq(Run) /\ Len(runs') = Len(runs)
  BY <1>1, ExceptSeq
<1>3. \A other \in 1 .. Len(runs) : runs'[other] = IF other = r THEN row ELSE runs[other]
  BY <1>1, ExceptSeq
<1>4. Ids' = Ids
  BY <1>2, IdsAreNumbers, LenProperties DEF Ids
<1>. QED BY <1>2, <1>3, <1>4, IdsAreNumbers DEF Onward

LEMMA SameRows ==
    ASSUME TypeOK, UNCHANGED runs
    PROVE  Onward /\ Ids' = Ids
BY DEF TypeOK, Onward, Ids

LEMMA EndStep ==
    ASSUME TypeOK, NEW r \in Ids, NEW status \in {"succeeded", "failed"}, End(r, status)
    PROVE  /\ Onward /\ Ids' = Ids
           /\ \A other \in Ids : runs'[other] = IF other = r THEN Ended(status) ELSE runs[other]
<1>1. Ended(status) \in Run /\ ~Active(Ended(status)) /\ Ended(status).status # "queued"
  BY DEF Ended, Run, Active
<1>. QED BY <1>1, RowStep DEF End

LEMMA CreateStep ==
    ASSUME TypeOK, CreateRun
    PROVE  /\ Onward /\ Ids' = Ids \cup {Len(runs) + 1}
           /\ queue' \in SUBSET Ids' /\ inline' \in SUBSET Ids'
           /\ \A r \in Ids : runs'[r] = runs[r]
           /\ runs'[Len(runs) + 1] = NewRun
           /\ Len(runs') = Len(runs) + 1
<1>1. NewRun \in Run /\ runs \in Seq(Run)
  BY DEF TypeOK, NewRun, Run
<1>2. /\ runs' \in Seq(Run)
      /\ Len(runs') = Len(runs) + 1
      /\ \A r \in 1 .. Len(runs) : runs'[r] = runs[r]
      /\ runs'[Len(runs) + 1] = NewRun
  BY <1>1, AppendProperties DEF CreateRun
<1>3. Ids' = 1 .. (Len(runs) + 1)
  BY <1>2, LenProperties DEF Ids
<1>4. Ids' = Ids \cup {Len(runs) + 1}
  BY <1>3, IdsAreNumbers
<1>5. queue' \in SUBSET Ids' /\ inline' \in SUBSET Ids'
  BY <1>4 DEF CreateRun, TypeOK
<1>. QED BY <1>2, <1>4, <1>5, IdsAreNumbers DEF Onward

LEMMA ClaimStep ==
    ASSUME TypeOK, NEW p \in Processors, NEW r \in Ids, NEW from \in {"queue", "inline"}, Claim(p, r, from)
    PROVE  /\ Onward /\ Ids' = Ids
           /\ proc' \in [Processors -> Work \cup {Nobody}]
           /\ \A q \in Processors : proc'[q] # Nobody => proc'[q].run \in Ids'
           /\ \A other \in Ids \ {r} : runs'[other] = runs[other]
           /\ \/ UNCHANGED <<runs, proc>>
              \/ /\ runs[r].status = "queued" /\ runs'[r].status = "running"
                 /\ runs'[r].stale = FALSE
                 /\ proc' = [proc EXCEPT ![p] = [run |-> r, from |-> from]]
<1>1. CASE Claimable(r)
  <2>. DEFINE row == [runs[r] EXCEPT !.status = "running", !.stale = FALSE]
  <2>1. runs[r] \in Run
    BY IdsAreNumbers
  <2>2. row \in Run /\ row.status = "running" /\ row.stale = FALSE
    BY <2>1 DEF Run
  <2>3. runs' = [runs EXCEPT ![r] = row]
    BY <1>1, <2>1 DEF Claim
  <2>4. Active(runs[r]) /\ runs[r].status = "queued"
    BY <1>1 DEF Claimable, Active
  <2>5. Onward /\ Ids' = Ids /\ \A other \in Ids : runs'[other] = IF other = r THEN row ELSE runs[other]
    BY <2>2, <2>3, <2>4, RowStep
  <2>6. proc' = [proc EXCEPT ![p] = [run |-> r, from |-> from]]
    BY <1>1 DEF Claim
  <2>7. [run |-> r, from |-> from] \in Work
    BY IdsAreNumbers DEF Work
  <2>. QED BY <2>2, <2>4, <2>5, <2>6, <2>7 DEF TypeOK
<1>2. CASE ~Claimable(r)
  <2>1. UNCHANGED <<runs, proc>>
    BY <1>2 DEF Claim
  <2>. QED BY <2>1, SameRows DEF TypeOK
<1>. QED BY <1>1, <1>2

\* A heartbeat or the passing of time changes a row's age and nothing else.
LEMMA AgeStep ==
    ASSUME TypeOK, NEW r \in Ids, NEW old \in BOOLEAN,
           \/ runs' = [runs EXCEPT ![r].stale = old]
           \/ runs' = [runs EXCEPT ![r].overdue = old]
    PROVE  /\ Onward /\ Ids' = Ids
           /\ \A other \in Ids : runs'[other].status = runs[other].status
           /\ \A other \in Ids \ {r} : runs'[other] = runs[other]
<1>1. runs[r] \in Run
  BY IdsAreNumbers
<1>2. PICK row \in {[runs[r] EXCEPT !.stale = old], [runs[r] EXCEPT !.overdue = old]} :
        runs' = [runs EXCEPT ![r] = row]
  OBVIOUS
<1>3. row \in Run /\ row.status = runs[r].status
  BY <1>1, <1>2 DEF Run
<1>4. /\ runs[r].status # "queued" => row.status # "queued"
      /\ ~Active(runs[r]) => ~Active(row)
  BY <1>3 DEF Active
<1>5. Onward /\ Ids' = Ids /\ \A other \in Ids : runs'[other] = IF other = r THEN row ELSE runs[other]
  BY <1>2, <1>3, <1>4, RowStep
<1>. QED BY <1>3, <1>5

-----------------------------------------------------------------------------
(* Type correctness.                                                       *)

LEMMA SchedStep ==
    ASSUME TypeOK, NEW s \in Schedulers, NEW tick \in Tick,
           Ids \subseteq Ids', tick.rows \subseteq Ids', sched' = [sched EXCEPT ![s] = tick]
    PROVE  sched' \in [Schedulers -> Tick] /\ \A q \in Schedulers : sched'[q].rows \subseteq Ids'
BY DEF TypeOK

LEMMA IdleTick ==
    /\ Idle \in Tick /\ Idle.rows = {} /\ Idle.at = "idle" /\ Idle.lease = "none"
    /\ \A lease \in {"none", "redis", "memory"} :
            LET tick == [Idle EXCEPT !.at = "scan", !.lease = lease]
            IN  tick \in Tick /\ tick.rows = {} /\ tick.at = "scan" /\ tick.lease = lease
    /\ LET tick == [Idle EXCEPT !.at = "scan"]
       IN  tick \in Tick /\ tick.rows = {} /\ tick.at = "scan" /\ tick.lease = "none"
BY DEF Idle, Tick

\* What a fault may do to its counter.
LEMMA FaultType == TypeOK /\ Fault => faults' \in 0 .. MaxFaults
BY DEF TypeOK, Fault

\* Everything of TypeOK but the rows, the offers and the processors, for a step
\* of one scheduler.
LEMMA SchedulerType ==
    ASSUME TypeOK, NEW s \in Schedulers,
           \/ Schedule(s)
           \/ StartTickAlone(s)
           \/ RenewFails(s)
           \/ SnapshotAges(s)
           \/ TickThrows(s)
           \/ CrashScheduler(s)
    PROVE  TypeOK'
<1>. USE DEF TypeOK
<1>0. UNCHANGED runs => Ids' = Ids
  BY SameRows
<1>1. sched[s] \in Tick /\ sched[s].rows \subseteq Ids /\ Ids \subseteq Nat
  BY IdsAreNumbers
<1>2. CASE StartTick(s)
  BY <1>0, <1>2, IdleTick, SchedStep DEF StartTick
<1>3. CASE Scan(s)
  <2>. DEFINE tick == [sched[s] EXCEPT !.at = "recover", !.rows = StaleRuns]
  <2>1. StaleRuns \subseteq Ids
    BY DEF StaleRuns
  <2>2. tick \in Tick /\ tick.rows = StaleRuns
    BY <1>1, <2>1 DEF Tick
  <2>3. sched' = [sched EXCEPT ![s] = tick]
    BY <1>3 DEF Scan
  <2>. QED BY <1>0, <1>3, <2>1, <2>2, <2>3, SchedStep DEF Scan
<1>4. CASE SkipScan(s)
  <2>. DEFINE tick == [sched[s] EXCEPT !.at = "recover"]
  <2>1. tick \in Tick /\ tick.rows = sched[s].rows
    BY <1>1 DEF Tick
  <2>2. sched' = [sched EXCEPT ![s] = tick]
    BY <1>4 DEF SkipScan
  <2>. QED BY <1>0, <1>1, <1>4, <2>1, <2>2, SchedStep DEF SkipScan
<1>5. ASSUME NEW r \in sched[s].rows, RecoverRun(s, r) PROVE TypeOK'
  <2>. DEFINE tick == [sched[s] EXCEPT !.rows = @ \ {r}]
  <2>1. tick \in Tick /\ tick.rows = sched[s].rows \ {r}
    BY <1>1 DEF Tick
  <2>2. sched' = [sched EXCEPT ![s] = tick]
    BY <1>5 DEF RecoverRun
  <2>3. Onward /\ Ids' = Ids
    BY <1>1, <1>5, EndStep DEF RecoverRun
  <2>. QED BY <1>1, <1>5, <2>1, <2>2, <2>3, SchedStep DEF RecoverRun, Onward
<1>6. CASE StartupRecovered(s)
  BY <1>0, <1>6, IdleTick, SchedStep DEF StartupRecovered
<1>7. CASE LoadLatest(s)
  <2>. DEFINE tick == [sched[s] EXCEPT !.at = "ensure", !.latest = Latest]
  <2>1. Latest \in {"absent", "succeeded", "failed", "stale", "active"}
    <3>1. CASE runs = <<>>
      BY <3>1 DEF Latest
    <3>2. CASE runs # <<>>
      <4>1. runs[Len(runs)] \in Run
        BY <3>2, EmptySeq, IdsAreNumbers
      <4>. QED BY <3>2, <4>1 DEF Latest, Run, Active
    <3>. QED BY <3>1, <3>2
  <2>2. tick \in Tick /\ tick.rows = sched[s].rows
    BY <1>1, <2>1 DEF Tick
  <2>3. sched' = [sched EXCEPT ![s] = tick]
    BY <1>7 DEF LoadLatest
  <2>. QED BY <1>0, <1>1, <1>7, <2>2, <2>3, SchedStep DEF LoadLatest
<1>8. CASE EnsureRecentRun(s)
  <2>. DEFINE tick == [sched[s] EXCEPT !.at = "finish", !.latest = "unread"]
  <2>1. tick \in Tick /\ tick.rows = sched[s].rows
    BY <1>1 DEF Tick
  <2>2. sched' = [sched EXCEPT ![s] = tick]
    BY <1>8 DEF EnsureRecentRun
  <2>3. runs' \in Seq(Run) /\ Ids \subseteq Ids' /\ queue' \in SUBSET Ids' /\ inline' \in SUBSET Ids'
    <3>1. CASE CreateRun
      BY <3>1, CreateStep DEF Onward
    <3>2. CASE UNCHANGED <<runs, queue, inline>>
      BY <1>0, <3>2
    <3>. QED BY <1>8, <3>1, <3>2 DEF EnsureRecentRun
  <2>. QED BY <1>1, <1>8, <2>1, <2>2, <2>3, SchedStep DEF EnsureRecentRun
<1>9. CASE FinishTick(s)
  BY <1>0, <1>9, IdleTick, SchedStep DEF FinishTick, AfterRelease
<1>10. CASE StartTickAlone(s)
  BY <1>0, <1>10, FaultType, IdleTick, SchedStep DEF StartTickAlone
<1>11. CASE RenewFails(s)
  <2>. DEFINE tick == [sched[s] EXCEPT !.lost = TRUE]
  <2>1. tick \in Tick /\ tick.rows = sched[s].rows
    BY <1>1 DEF Tick
  <2>2. sched' = [sched EXCEPT ![s] = tick]
    BY <1>11 DEF RenewFails
  <2>. QED BY <1>0, <1>1, <1>11, <2>1, <2>2, FaultType, SchedStep DEF RenewFails
<1>12. CASE SnapshotAges(s)
  <2>. DEFINE tick == [sched[s] EXCEPT !.latest = "stale"]
  <2>1. tick \in Tick /\ tick.rows = sched[s].rows
    BY <1>1 DEF Tick
  <2>2. sched' = [sched EXCEPT ![s] = tick]
    BY <1>12 DEF SnapshotAges
  <2>. QED BY <1>0, <1>1, <1>12, <2>1, <2>2, SchedStep DEF SnapshotAges
<1>13. CASE TickThrows(s)
  BY <1>0, <1>13, FaultType, IdleTick, SchedStep DEF TickThrows, AfterRelease
<1>14. CASE CrashScheduler(s)
  BY <1>0, <1>14, FaultType, IdleTick, SchedStep DEF CrashScheduler
<1>. QED BY <1>2, <1>3, <1>4, <1>5, <1>6, <1>7, <1>8, <1>9, <1>10, <1>11, <1>12, <1>13, <1>14 DEF Schedule

LEMMA ProcessorType ==
    ASSUME TypeOK, NEW p \in Processors, Process(p)
    PROVE  TypeOK'
<1>. USE DEF TypeOK
<1>0. UNCHANGED runs => Ids' = Ids
  BY SameRows
<1>1. proc[p] # Nobody => proc[p] \in Work /\ proc[p].run \in Ids
  OBVIOUS
<1>2. ASSUME NEW r \in queue, TakeJob(p, r) PROVE TypeOK'
  BY <1>2, ClaimStep DEF TakeJob, Onward
<1>3. ASSUME NEW r \in inline, TakeInline(p, r) PROVE TypeOK'
  BY <1>3, ClaimStep DEF TakeInline, Onward
<1>4. CASE Heartbeat(p)
  BY <1>1, <1>4, AgeStep DEF Heartbeat, Onward, Working
<1>5. CASE FinishRun(p)
  <2>1. Onward /\ Ids' = Ids
    BY <1>1, <1>5, EndStep DEF FinishRun, Working
  <2>. QED BY <1>5, <2>1 DEF FinishRun, Onward
<1>6. CASE CrashProcessor(p)
  BY <1>0, <1>1, <1>6, FaultType DEF CrashProcessor, Working
<1>7. CASE StallJob(p)
  BY <1>0, <1>1, <1>7, FaultType DEF StallJob, Working
<1>. QED BY <1>2, <1>3, <1>4, <1>5, <1>6, <1>7 DEF Process

LEMMA TypeStep == TypeOK /\ [Next]_vars => TypeOK'
<1>. SUFFICES ASSUME TypeOK, [Next]_vars PROVE TypeOK'
  OBVIOUS
<1>. USE DEF TypeOK
<1>0. UNCHANGED runs => Ids' = Ids
  BY SameRows
<1>1. ASSUME NEW r \in queue, FailJob(r) PROVE TypeOK'
  <2>1. Onward /\ Ids' = Ids
    BY <1>1, EndStep DEF FailJob
  <2>. QED BY <1>1, <2>1, FaultType DEF FailJob, Onward
<1>2. ASSUME NEW r \in queue \cup inline, LoseOffer(r) PROVE TypeOK'
  BY <1>0, <1>2, FaultType DEF LoseOffer
<1>3. CASE LeaseExpires
  <2>1. CASE InUse
    <3>. DEFINE tick == [sched[lock] EXCEPT !.lease = "lapsed"]
    <3>1. tick \in Tick /\ tick.rows = sched[lock].rows /\ lock \in Schedulers
      BY <2>1 DEF InUse, Tick
    <3>2. sched' = [sched EXCEPT ![lock] = tick]
      BY <1>3, <2>1 DEF LeaseExpires
    <3>. QED BY <1>0, <1>3, <2>1, <3>1, <3>2, SchedStep DEF LeaseExpires
  <2>2. CASE ~InUse
    BY <1>0, <1>3, <2>2 DEF LeaseExpires
  <2>. QED BY <2>1, <2>2
<1>4. CASE StartByHand
  BY <1>4, CreateStep DEF StartByHand, Onward
<1>5. ASSUME NEW r \in Ids, GrowStale(r) PROVE TypeOK'
  BY <1>5, AgeStep DEF GrowStale, Onward
<1>6. ASSUME NEW r \in Ids, GrowOverdue(r) PROVE TypeOK'
  BY <1>6, AgeStep DEF GrowOverdue, Onward
<1>7. CASE UNCHANGED vars
  BY <1>0, <1>7 DEF vars
<1>. QED BY <1>1, <1>2, <1>3, <1>4, <1>5, <1>6, <1>7, ProcessorType, SchedulerType DEF Next

LEMMA TypeInit == Init => TypeOK
<1>. SUFFICES ASSUME Init PROVE TypeOK
  OBVIOUS
<1>1. runs \in Seq(Run)
  BY EmptySeq DEF Init
<1>2. sched \in [Schedulers -> Tick] /\ \A s \in Schedulers : sched[s].rows \subseteq Ids
  BY IdleTick DEF Init
<1>3. faults \in 0 .. MaxFaults
  BY DEF Init
<1>. QED BY <1>1, <1>2, <1>3 DEF Init, TypeOK

\* Every reachable state is well-typed.
THEOREM TypeCorrect == Spec => []TypeOK
BY TypeInit, TypeStep, PTL DEF Spec

-----------------------------------------------------------------------------
(* Runs move forward.                                                      *)

LEMMA NextIsOnward == TypeOK /\ [Next]_vars => Onward
<1>. SUFFICES ASSUME TypeOK, [Next]_vars PROVE Onward
  OBVIOUS
<1>1. UNCHANGED runs => Onward
  BY SameRows
<1>2. ASSUME NEW s \in Schedulers, Schedule(s) PROVE Onward
  <2>1. ASSUME NEW r \in sched[s].rows, RecoverRun(s, r) PROVE Onward
    BY <2>1, EndStep DEF RecoverRun, TypeOK
  <2>2. CASE EnsureRecentRun(s)
    BY <1>1, <2>2, CreateStep DEF EnsureRecentRun
  <2>. QED
    BY <1>1, <1>2, <2>1, <2>2
    DEF Schedule, StartTick, Scan, SkipScan, StartupRecovered, LoadLatest, FinishTick
<1>3. ASSUME NEW s \in Schedulers,
             StartTickAlone(s) \/ RenewFails(s) \/ SnapshotAges(s) \/ TickThrows(s) \/ CrashScheduler(s)
      PROVE  Onward
  BY <1>1, <1>3 DEF StartTickAlone, RenewFails, SnapshotAges, TickThrows, CrashScheduler
<1>4. ASSUME NEW p \in Processors, Process(p) PROVE Onward
  <2>1. proc[p] # Nobody => proc[p].run \in Ids
    BY DEF TypeOK
  <2>2. ASSUME NEW r \in queue, TakeJob(p, r) PROVE Onward
    BY <2>2, ClaimStep DEF TakeJob, TypeOK
  <2>3. ASSUME NEW r \in inline, TakeInline(p, r) PROVE Onward
    BY <2>3, ClaimStep DEF TakeInline, TypeOK
  <2>4. CASE Heartbeat(p)
    BY <2>1, <2>4, AgeStep DEF Heartbeat, Working
  <2>5. CASE FinishRun(p)
    BY <2>1, <2>5, EndStep DEF FinishRun, Working
  <2>. QED BY <1>1, <1>4, <2>2, <2>3, <2>4, <2>5 DEF Process, CrashProcessor, StallJob
<1>5. ASSUME NEW r \in queue, FailJob(r) PROVE Onward
  BY <1>5, EndStep DEF FailJob, TypeOK
<1>6. CASE StartByHand
  BY <1>6, CreateStep DEF StartByHand
<1>7. ASSUME NEW r \in Ids, GrowStale(r) \/ GrowOverdue(r) PROVE Onward
  BY <1>7, AgeStep DEF GrowStale, GrowOverdue
<1>. QED
  BY <1>1, <1>2, <1>3, <1>4, <1>5, <1>6, <1>7 DEF Next, LoseOffer, LeaseExpires, vars

\* What was claimed is never queued again and what ended never runs again,
\* whatever the queue delivers twice and whichever process writes last.
THEOREM RunsOnlyMoveForward == Spec => RunsMoveForward
<1>. DEFINE Forward ==
        \A r \in Ids : /\ runs[r].status # "queued" => runs'[r].status # "queued"
                       /\ ~Active(runs[r]) => ~Active(runs'[r])
<1>1. TypeOK /\ [Next]_vars => [Forward]_vars
  BY NextIsOnward DEF Onward
<1>2. RunsMoveForward <=> [][Forward]_vars
  BY DEF RunsMoveForward
<1>. HIDE DEF Forward
<1>. QED BY <1>1, <1>2, TypeCorrect, PTL DEF Spec

-----------------------------------------------------------------------------
(* One processor per run.                                                  *)

\* Stronger than OneProcessorPerRun: what is being processed is not queued, so
\* that no claim can find it.
ClaimedOnce == OneProcessorPerRun /\ \A p \in Processors : Working(p) => runs[proc[p].run].status # "queued"

\* Nobody gets work.
LEMMA NoNewWork ==
    ASSUME TypeOK, ClaimedOnce, Onward,
           \A p \in Processors : proc'[p] \in {proc[p], Nobody}
    PROVE  ClaimedOnce'
BY DEF TypeOK, ClaimedOnce, OneProcessorPerRun, Working, Onward

\* What ClaimStep says of a claim is enough.
LEMMA ClaimKeepsOne ==
    ASSUME TypeOK, ClaimedOnce, Onward, NEW p \in Processors, NEW r \in Ids, NEW from,
           \A other \in Ids \ {r} : runs'[other] = runs[other],
           \/ UNCHANGED <<runs, proc>>
           \/ /\ runs[r].status = "queued" /\ runs'[r].status = "running"
              /\ proc' = [proc EXCEPT ![p] = [run |-> r, from |-> from]]
    PROVE  ClaimedOnce'
<1>1. CASE UNCHANGED <<runs, proc>>
  BY <1>1, NoNewWork
<1>2. CASE /\ runs[r].status = "queued" /\ runs'[r].status = "running"
           /\ proc' = [proc EXCEPT ![p] = [run |-> r, from |-> from]]
  <2>1. proc'[p].run = r /\ \A q \in Processors \ {p} : proc'[q] = proc[q]
    BY <1>2 DEF TypeOK
  <2>2. \A q \in Processors : Working(q) => proc[q].run # r
    BY <1>2 DEF ClaimedOnce
  <2>. QED BY <1>2, <2>1, <2>2 DEF TypeOK, ClaimedOnce, OneProcessorPerRun, Working
<1>. QED BY <1>1, <1>2

LEMMA ClaimedOnceStep == TypeOK /\ ClaimedOnce /\ [Next]_vars => ClaimedOnce'
<1>. SUFFICES ASSUME TypeOK, ClaimedOnce, [Next]_vars PROVE ClaimedOnce'
  OBVIOUS
<1>1. Onward
  BY NextIsOnward
<1>2. UNCHANGED proc => ClaimedOnce'
  BY <1>1, NoNewWork
<1>3. ASSUME NEW p \in Processors, Process(p) PROVE ClaimedOnce'
  <2>1. ASSUME NEW r \in queue, TakeJob(p, r) PROVE ClaimedOnce'
    <3>. SUFFICES ASSUME r \in Ids, Claim(p, r, "queue") PROVE ClaimedOnce'
      BY <2>1 DEF TakeJob, TypeOK
    <3>1. /\ \A other \in Ids \ {r} : runs'[other] = runs[other]
          /\ \/ UNCHANGED <<runs, proc>>
             \/ /\ runs[r].status = "queued" /\ runs'[r].status = "running"
                /\ proc' = [proc EXCEPT ![p] = [run |-> r, from |-> "queue"]]
      BY ClaimStep
    <3>. QED BY <1>1, <3>1, ClaimKeepsOne
  <2>2. ASSUME NEW r \in inline, TakeInline(p, r) PROVE ClaimedOnce'
    <3>. SUFFICES ASSUME r \in Ids, Claim(p, r, "inline") PROVE ClaimedOnce'
      BY <2>2 DEF TakeInline, TypeOK
    <3>1. /\ \A other \in Ids \ {r} : runs'[other] = runs[other]
          /\ \/ UNCHANGED <<runs, proc>>
             \/ /\ runs[r].status = "queued" /\ runs'[r].status = "running"
                /\ proc' = [proc EXCEPT ![p] = [run |-> r, from |-> "inline"]]
      BY ClaimStep
    <3>. QED BY <1>1, <3>1, ClaimKeepsOne
  <2>3. CASE proc' = [proc EXCEPT ![p] = Nobody]
    BY <1>1, <2>3, NoNewWork DEF TypeOK
  <2>. QED
    BY <1>2, <1>3, <2>1, <2>2, <2>3 DEF Process, Heartbeat, FinishRun, CrashProcessor, StallJob
<1>. QED
  BY <1>2, <1>3
  DEF Next, Schedule, StartTick, Scan, SkipScan, RecoverRun, StartupRecovered, LoadLatest,
      EnsureRecentRun, FinishTick, StartTickAlone, RenewFails, SnapshotAges, TickThrows,
      CrashScheduler, FailJob, LoseOffer, LeaseExpires, StartByHand, GrowStale, GrowOverdue, vars

\* A run is synced by at most one processor at a time, whatever is delivered twice.
THEOREM RunsAreProcessedOnce == Spec => []OneProcessorPerRun
<1>1. Init => ClaimedOnce
  BY DEF Init, ClaimedOnce, OneProcessorPerRun, Working
<1>2. ClaimedOnce => OneProcessorPerRun
  BY DEF ClaimedOnce
<1>. QED BY <1>1, <1>2, ClaimedOnceStep, TypeCorrect, PTL DEF Spec

-----------------------------------------------------------------------------
(* Leases are kept.                                                        *)

LEMMA LeaseStep == TypeOK /\ LeaseIsKept /\ [Next]_vars => LeaseIsKept'
<1>. SUFFICES ASSUME TypeOK, LeaseIsKept, [Next]_vars PROVE LeaseIsKept'
  OBVIOUS
<1>. USE DEF LeaseIsKept
<1>0. sched \in [Schedulers -> Tick]
  BY DEF TypeOK
<1>1. UNCHANGED <<sched, lock>> => LeaseIsKept'
  OBVIOUS
<1>2. ASSUME NEW s \in Schedulers, NEW tick, tick.lease # "redis",
             sched' = [sched EXCEPT ![s] = tick], lock' \in {lock, AfterRelease(s)} \/ lock = s
      PROVE  LeaseIsKept'
  BY <1>0, <1>2 DEF AfterRelease
<1>3. ASSUME NEW s \in Schedulers, NEW tick, tick.lease = sched[s].lease,
             sched' = [sched EXCEPT ![s] = tick], UNCHANGED lock
      PROVE  LeaseIsKept'
  BY <1>0, <1>3
<1>4. ASSUME NEW s \in Schedulers, Schedule(s) PROVE LeaseIsKept'
  <2>0. sched[s] \in Tick
    BY <1>0
  <2>1. CASE StartTick(s)
    BY <1>0, <2>1 DEF StartTick
  <2>2. CASE Scan(s)
    BY <1>0, <2>2 DEF Scan, Tick
  <2>3. CASE SkipScan(s)
    BY <1>0, <2>3 DEF SkipScan, Tick
  <2>4. ASSUME NEW r \in sched[s].rows, RecoverRun(s, r) PROVE LeaseIsKept'
    BY <1>0, <2>4 DEF RecoverRun, Tick
  <2>5. CASE StartupRecovered(s)
    BY <1>2, <2>5, IdleTick DEF StartupRecovered
  <2>6. CASE LoadLatest(s)
    BY <1>0, <2>6 DEF LoadLatest, Tick
  <2>7. CASE EnsureRecentRun(s)
    <3>1. sched' = [sched EXCEPT ![s] = [sched[s] EXCEPT !.at = "finish", !.latest = "unread"]] /\ UNCHANGED lock
      BY <2>7 DEF EnsureRecentRun
    <3>. QED BY <1>0, <3>1 DEF Tick
  <2>8. CASE FinishTick(s)
    BY <1>2, <2>8, IdleTick DEF FinishTick
  <2>. QED BY <1>4, <2>1, <2>2, <2>3, <2>4, <2>5, <2>6, <2>7, <2>8 DEF Schedule
<1>5. ASSUME NEW s \in Schedulers, StartTickAlone(s) PROVE LeaseIsKept'
  BY <1>2, <1>5, IdleTick DEF StartTickAlone
<1>6. ASSUME NEW s \in Schedulers, RenewFails(s) PROVE LeaseIsKept'
  BY <1>0, <1>6 DEF RenewFails, Tick
<1>7. ASSUME NEW s \in Schedulers, SnapshotAges(s) PROVE LeaseIsKept'
  BY <1>0, <1>7 DEF SnapshotAges, Tick
<1>8. ASSUME NEW s \in Schedulers, TickThrows(s) PROVE LeaseIsKept'
  BY <1>2, <1>8, IdleTick DEF TickThrows
<1>9. ASSUME NEW s \in Schedulers, CrashScheduler(s) PROVE LeaseIsKept'
  BY <1>2, <1>9, IdleTick DEF CrashScheduler
<1>10. CASE LeaseExpires
  <2>1. CASE InUse
    <3>1. sched' = [sched EXCEPT ![lock].lease = "lapsed"] /\ lock \in Schedulers
      BY <1>10, <2>1 DEF LeaseExpires, InUse
    <3>2. \A s \in Schedulers : sched'[s].lease # "redis"
      BY <1>0, <3>1 DEF Tick
    <3>. QED BY <3>2
  <2>2. CASE ~InUse
    <3>1. UNCHANGED sched /\ \A s \in Schedulers : sched[s].lease # "redis"
      BY <1>10, <2>2 DEF LeaseExpires, InUse
    <3>. QED BY <3>1
  <2>. QED BY <2>1, <2>2
<1>. QED
  BY <1>1, <1>4, <1>5, <1>6, <1>7, <1>8, <1>9, <1>10
  DEF Next, Process, TakeJob, TakeInline, Heartbeat, FinishRun, CrashProcessor, StallJob,
      FailJob, LoseOffer, StartByHand, GrowStale, GrowOverdue, vars

\* As long as a tick's own lease runs, the lock in Redis is its own.
THEOREM LeasesAreKept == Spec => []LeaseIsKept
<1>1. Init => LeaseIsKept
  BY IdleTick DEF Init, LeaseIsKept
<1>. QED BY <1>1, LeaseStep, TypeCorrect, PTL DEF Spec

-----------------------------------------------------------------------------
(* Runs do not overlap.                                                    *)

\* The decision is taken inside a tick.
EnsureInTick == \A s \in Schedulers : sched[s].at = "ensure" => Ticking(s)

\* At most the newest run is under way, and its heartbeat is not late.
RowsCalm ==
    /\ \A r \in Ids : Active(runs[r]) => ~runs[r].stale /\ r = Len(runs)
    /\ \A p \in Processors : Working(p) => runs[proc[p].run].status = "running"

\* No tick works without the lock in Redis, and a tick about to create a run
\* read what still is so: nothing is under way.
TicksCalm ==
    \A s \in Schedulers :
        /\ sched[s].lease \in {"none", "redis"}
        /\ (sched[s].at = "ensure" /\ sched[s].latest # "active") => \A r \in Ids : ~Active(runs[r])

Calm == ~disturbed => RowsCalm /\ TicksCalm

LEMMA EnsureInTickStep == TypeOK /\ EnsureInTick /\ [Next]_vars => EnsureInTick'
<1>. SUFFICES ASSUME TypeOK, EnsureInTick, [Next]_vars PROVE EnsureInTick'
  OBVIOUS
<1>. USE DEF EnsureInTick, Ticking
<1>0. sched \in [Schedulers -> Tick]
  BY DEF TypeOK
<1>1. UNCHANGED sched => EnsureInTick'
  OBVIOUS
<1>2. ASSUME NEW s \in Schedulers, NEW tick, tick.at # "ensure" \/ tick.lease # "none",
             sched' = [sched EXCEPT ![s] = tick]
      PROVE  EnsureInTick'
  BY <1>0, <1>2
<1>3. ASSUME NEW s \in Schedulers, Schedule(s) PROVE EnsureInTick'
  <2>0. sched[s] \in Tick
    BY <1>0
  <2>1. CASE StartTick(s)
    BY <1>2, <2>1, IdleTick DEF StartTick
  <2>2. CASE Scan(s)
    BY <1>0, <2>2 DEF Scan, Tick
  <2>3. CASE SkipScan(s)
    BY <1>0, <2>3 DEF SkipScan, Tick
  <2>4. ASSUME NEW r \in sched[s].rows, RecoverRun(s, r) PROVE EnsureInTick'
    BY <1>0, <2>4 DEF RecoverRun, Tick
  <2>5. CASE StartupRecovered(s)
    BY <1>2, <2>5, IdleTick DEF StartupRecovered
  <2>6. CASE LoadLatest(s)
    BY <1>0, <2>6 DEF LoadLatest, Tick
  <2>7. CASE EnsureRecentRun(s)
    <3>1. sched' = [sched EXCEPT ![s] = [sched[s] EXCEPT !.at = "finish", !.latest = "unread"]]
      BY <2>7 DEF EnsureRecentRun
    <3>. QED BY <1>0, <3>1 DEF Tick
  <2>8. CASE FinishTick(s)
    BY <1>2, <2>8, IdleTick DEF FinishTick
  <2>. QED BY <1>3, <2>1, <2>2, <2>3, <2>4, <2>5, <2>6, <2>7, <2>8 DEF Schedule
<1>4. ASSUME NEW s \in Schedulers,
             StartTickAlone(s) \/ TickThrows(s) \/ CrashScheduler(s)
      PROVE  EnsureInTick'
  BY <1>2, <1>4, IdleTick DEF StartTickAlone, TickThrows, CrashScheduler
<1>5. ASSUME NEW s \in Schedulers, RenewFails(s) PROVE EnsureInTick'
  BY <1>0, <1>5 DEF RenewFails, Tick
<1>6. ASSUME NEW s \in Schedulers, SnapshotAges(s) PROVE EnsureInTick'
  BY <1>0, <1>6 DEF SnapshotAges, Tick
<1>7. CASE LeaseExpires
  <2>1. CASE InUse
    <3>1. sched' = [sched EXCEPT ![lock].lease = "lapsed"] /\ lock \in Schedulers
      BY <1>7, <2>1 DEF LeaseExpires, InUse
    <3>. QED BY <1>0, <3>1 DEF Tick
  <2>2. CASE ~InUse
    BY <1>1, <1>7, <2>2 DEF LeaseExpires
  <2>. QED BY <2>1, <2>2
<1>. QED
  BY <1>1, <1>3, <1>4, <1>5, <1>6, <1>7
  DEF Next, Process, TakeJob, TakeInline, Heartbeat, FinishRun, CrashProcessor, StallJob,
      FailJob, LoseOffer, StartByHand, GrowStale, GrowOverdue, vars

\* A step under which nothing becomes active, and nobody gets work.
LEMMA RowsStayCalm ==
    ASSUME TypeOK, RowsCalm, Ids' = Ids, Len(runs') = Len(runs),
           \A r \in Ids : Active(runs'[r]) => Active(runs[r]) /\ (runs'[r].stale => runs[r].stale),
           \A p \in Processors : /\ proc'[p] \in {proc[p], Nobody}
                                 /\ proc'[p] # Nobody => runs'[proc[p].run].status = runs[proc[p].run].status
    PROVE  RowsCalm'
BY DEF TypeOK, RowsCalm, Working

\* A step after which no tick is newly about to create a run.
LEMMA TicksStayCalm ==
    ASSUME TicksCalm,
           \A s \in Schedulers :
                /\ sched'[s].lease \in {"none", "redis"}
                /\ sched'[s].at = "ensure" => sched[s].at = "ensure" /\ sched'[s].latest = sched[s].latest,
           \A r \in Ids' : Active(runs'[r]) => r \in Ids /\ Active(runs[r])
    PROVE  TicksCalm'
BY DEF TicksCalm

\* A tick that finds no active newest run finds none at all.
LEMMA LatestIsAll ==
    ASSUME TypeOK, RowsCalm, Latest # "active"
    PROVE  \A r \in Ids : ~Active(runs[r])
<1>1. CASE runs = <<>>
  BY <1>1, IdsAreNumbers, LenProperties DEF Ids
<1>2. CASE runs # <<>>
  <2>1. Len(runs) \in Ids
    BY <1>2, EmptySeq, IdsAreNumbers
  <2>2. ~Active(runs[Len(runs)])
    BY <1>2, <2>1 DEF Latest, RowsCalm
  <2>. QED BY <2>2 DEF RowsCalm
<1>. QED BY <1>1, <1>2

LEMMA SchedulerKeepsCalm ==
    ASSUME TypeOK, LeaseIsKept, EnsureInTick, Calm, ~disturbed', NEW s \in Schedulers,
           Schedule(s) \/ StartTickAlone(s) \/ RenewFails(s) \/ SnapshotAges(s)
                \/ TickThrows(s) \/ CrashScheduler(s)
    PROVE  RowsCalm' /\ TicksCalm'
<1>0. sched \in [Schedulers -> Tick] /\ sched[s] \in Tick
  BY DEF TypeOK
<1>1. UNCHANGED disturbed => RowsCalm /\ TicksCalm
  BY DEF Calm
<1>2. UNCHANGED <<runs, proc, disturbed>> => RowsCalm'
  BY <1>1, RowsStayCalm DEF TypeOK, RowsCalm, Working, Ids
<1>3. ASSUME NEW tick, sched' = [sched EXCEPT ![s] = tick], UNCHANGED <<runs, disturbed>>,
             tick.lease \in {"none", "redis", sched[s].lease},
             tick.at = "ensure" => sched[s].at = "ensure" /\ tick.latest = sched[s].latest
      PROVE  TicksCalm'
  <2>1. \A q \in Schedulers : sched'[q] = IF q = s THEN tick ELSE sched[q]
    BY <1>0, <1>3
  <2>. QED BY <1>1, <1>3, <2>1 DEF TicksCalm, Ids
<1>4. CASE StartTick(s)
  BY <1>2, <1>3, <1>4, IdleTick DEF StartTick
<1>5. CASE Scan(s)
  <2>. DEFINE tick == [sched[s] EXCEPT !.at = "recover", !.rows = StaleRuns]
  <2>1. tick.at = "recover" /\ tick.lease = sched[s].lease
    BY <1>0 DEF Tick
  <2>2. sched' = [sched EXCEPT ![s] = tick]
    BY <1>5 DEF Scan
  <2>. HIDE DEF tick
  <2>. QED BY <1>2, <1>3, <1>5, <2>1, <2>2 DEF Scan
<1>6. CASE SkipScan(s)
  <2>. DEFINE tick == [sched[s] EXCEPT !.at = "recover"]
  <2>1. tick.at = "recover" /\ tick.lease = sched[s].lease
    BY <1>0 DEF Tick
  <2>2. sched' = [sched EXCEPT ![s] = tick]
    BY <1>6 DEF SkipScan
  <2>. HIDE DEF tick
  <2>. QED BY <1>2, <1>3, <1>6, <2>1, <2>2 DEF SkipScan
<1>7. CASE StartupRecovered(s)
  BY <1>2, <1>3, <1>7, IdleTick DEF StartupRecovered
<1>8. CASE LoadLatest(s)
  <2>. DEFINE tick == [sched[s] EXCEPT !.at = "ensure", !.latest = Latest]
  <2>1. tick.latest = Latest /\ tick.lease = sched[s].lease
    BY <1>0 DEF Tick
  <2>2. sched' = [sched EXCEPT ![s] = tick] /\ UNCHANGED <<runs, proc, disturbed>>
    BY <1>8 DEF LoadLatest
  <2>. HIDE DEF tick
  <2>3. \A q \in Schedulers : sched'[q] = IF q = s THEN tick ELSE sched[q]
    BY <1>0, <2>2
  <2>4. RowsCalm /\ TicksCalm
    BY <1>1, <2>2
  <2>5. Latest # "active" => \A r \in Ids : ~Active(runs[r])
    BY <2>4, LatestIsAll
  <2>6. \A q \in Schedulers :
            (sched'[q].at = "ensure" /\ sched'[q].latest # "active") => \A r \in Ids : ~Active(runs[r])
    BY <2>1, <2>3, <2>4, <2>5 DEF TicksCalm
  <2>7. \A q \in Schedulers : sched'[q].lease \in {"none", "redis"}
    BY <2>1, <2>3, <2>4 DEF TicksCalm
  <2>8. TicksCalm'
    BY <2>2, <2>6, <2>7 DEF TicksCalm, Ids
  <2>. QED BY <1>2, <2>2, <2>8
<1>9. CASE EnsureRecentRun(s)
  <2>. DEFINE tick == [sched[s] EXCEPT !.at = "finish", !.latest = "unread"]
  <2>1. tick.at = "finish" /\ tick.lease = sched[s].lease
    BY <1>0 DEF Tick
  <2>2. sched' = [sched EXCEPT ![s] = tick] /\ UNCHANGED <<proc, disturbed>>
    BY <1>9 DEF EnsureRecentRun
  <2>. HIDE DEF tick
  <2>3. RowsCalm /\ TicksCalm
    BY <1>1, <2>2
  <2>4. CASE UNCHANGED runs
    BY <1>2, <1>3, <2>1, <2>2, <2>4
  <2>5. CASE CreateRun /\ ~Covered(sched[s].latest)
    <3>1. \A r \in Ids : ~Active(runs[r])
      BY <1>9, <2>3, <2>5 DEF TicksCalm, EnsureRecentRun, Covered
    <3>2. \A p \in Processors : ~Working(p)
      BY <2>3, <3>1 DEF RowsCalm, TypeOK, Working, Active
    <3>3. \A r \in Ids' : Active(runs'[r]) => ~runs'[r].stale /\ r = Len(runs')
      BY <2>5, <3>1, CreateStep DEF NewRun
    <3>4. RowsCalm'
      BY <2>2, <3>2, <3>3 DEF RowsCalm, Working
    <3>5. \A q \in Schedulers : sched'[q] = IF q = s THEN tick ELSE sched[q]
      BY <1>0, <2>2
    <3>6. \A q \in Schedulers \ {s} : sched[q].at # "ensure"
      BY <1>9, <2>3 DEF EnsureRecentRun, EnsureInTick, Ticking, TicksCalm, LeaseIsKept
    <3>7. \A q \in Schedulers : sched'[q].at # "ensure" /\ sched'[q].lease \in {"none", "redis"}
      BY <2>1, <2>3, <3>5, <3>6 DEF TicksCalm
    <3>. QED BY <3>4, <3>7 DEF TicksCalm
  <2>. QED BY <1>9, <2>4, <2>5 DEF EnsureRecentRun
<1>10. CASE FinishTick(s)
  BY <1>2, <1>3, <1>10, IdleTick DEF FinishTick
<1>11. CASE RenewFails(s)
  <2>. DEFINE tick == [sched[s] EXCEPT !.lost = TRUE]
  <2>1. tick.at = sched[s].at /\ tick.latest = sched[s].latest /\ tick.lease = sched[s].lease
    BY <1>0 DEF Tick
  <2>2. sched' = [sched EXCEPT ![s] = tick]
    BY <1>11 DEF RenewFails
  <2>. HIDE DEF tick
  <2>. QED BY <1>2, <1>3, <1>11, <2>1, <2>2 DEF RenewFails
<1>12. CASE TickThrows(s)
  BY <1>2, <1>3, <1>12, IdleTick DEF TickThrows
<1>13. CASE CrashScheduler(s)
  BY <1>2, <1>3, <1>13, IdleTick DEF CrashScheduler
<1>. QED
  BY <1>4, <1>5, <1>6, <1>7, <1>8, <1>9, <1>10, <1>11, <1>12, <1>13
  DEF Schedule, RecoverRun, StartTickAlone, SnapshotAges

LEMMA ClaimKeepsCalm ==
    ASSUME TypeOK, ClaimedOnce, RowsCalm, Onward, Ids' = Ids, NEW p \in Processors, NEW r \in Ids, NEW from,
           \A other \in Ids \ {r} : runs'[other] = runs[other],
           \/ UNCHANGED <<runs, proc>>
           \/ /\ runs[r].status = "queued" /\ runs'[r].status = "running" /\ runs'[r].stale = FALSE
              /\ proc' = [proc EXCEPT ![p] = [run |-> r, from |-> from]]
    PROVE  RowsCalm' /\ \A other \in Ids : Active(runs'[other]) => Active(runs[other])
<1>1. CASE UNCHANGED <<runs, proc>>
  BY <1>1, RowsStayCalm DEF TypeOK
<1>2. CASE /\ runs[r].status = "queued" /\ runs'[r].status = "running" /\ runs'[r].stale = FALSE
           /\ proc' = [proc EXCEPT ![p] = [run |-> r, from |-> from]]
  <2>1. proc'[p].run = r /\ \A q \in Processors \ {p} : proc'[q] = proc[q]
    BY <1>2 DEF TypeOK
  <2>2. \A q \in Processors : Working(q) => proc[q].run # r
    BY <1>2 DEF ClaimedOnce
  <2>3. Active(runs[r]) /\ Len(runs) = Len(runs')
    BY <1>2, IdsAreNumbers, OnwardIds DEF Active, Onward
  <2>4. \A other \in Ids : Active(runs'[other]) => Active(runs[other])
    BY <2>3
  <2>5. \A other \in Ids : Active(runs'[other]) => ~runs'[other].stale /\ other = Len(runs')
    BY <1>2, <2>3, <2>4 DEF RowsCalm
  <2>6. \A q \in Processors : proc'[q] # Nobody => runs'[proc'[q].run].status = "running"
    BY <1>2, <2>1, <2>2 DEF RowsCalm, Working, TypeOK
  <2>. QED BY <2>4, <2>5, <2>6 DEF RowsCalm, Working
<1>. QED BY <1>1, <1>2

LEMMA ProcessorKeepsCalm ==
    ASSUME TypeOK, ClaimedOnce, Calm, ~disturbed', NEW p \in Processors, Process(p)
    PROVE  RowsCalm' /\ TicksCalm'
<1>1. UNCHANGED <<sched, disturbed>>
  BY DEF Process, TakeJob, TakeInline, Heartbeat, FinishRun, CrashProcessor, StallJob
<1>2. RowsCalm /\ TicksCalm
  BY <1>1 DEF Calm
<1>3. ASSUME Ids' = Ids, \A r \in Ids : Active(runs'[r]) => Active(runs[r]) PROVE TicksCalm'
  BY <1>1, <1>2, <1>3, TicksStayCalm DEF TicksCalm
<1>4. ASSUME NEW r \in Ids, Claim(p, r, "queue") \/ Claim(p, r, "inline") PROVE RowsCalm' /\ TicksCalm'
  <2>1. CASE Claim(p, r, "queue")
    <3>1. /\ Onward /\ Ids' = Ids
          /\ \A other \in Ids \ {r} : runs'[other] = runs[other]
          /\ \/ UNCHANGED <<runs, proc>>
             \/ /\ runs[r].status = "queued" /\ runs'[r].status = "running" /\ runs'[r].stale = FALSE
                /\ proc' = [proc EXCEPT ![p] = [run |-> r, from |-> "queue"]]
      BY <2>1, ClaimStep
    <3>2. RowsCalm' /\ \A other \in Ids : Active(runs'[other]) => Active(runs[other])
      BY <1>2, <3>1, ClaimKeepsCalm
    <3>. QED BY <1>3, <3>1, <3>2
  <2>2. CASE Claim(p, r, "inline")
    <3>1. /\ Onward /\ Ids' = Ids
          /\ \A other \in Ids \ {r} : runs'[other] = runs[other]
          /\ \/ UNCHANGED <<runs, proc>>
             \/ /\ runs[r].status = "queued" /\ runs'[r].status = "running" /\ runs'[r].stale = FALSE
                /\ proc' = [proc EXCEPT ![p] = [run |-> r, from |-> "inline"]]
      BY <2>2, ClaimStep
    <3>2. RowsCalm' /\ \A other \in Ids : Active(runs'[other]) => Active(runs[other])
      BY <1>2, <3>1, ClaimKeepsCalm
    <3>. QED BY <1>3, <3>1, <3>2
  <2>. QED BY <1>4, <2>1, <2>2
<1>5. CASE Heartbeat(p)
  <2>. DEFINE r == proc[p].run
  <2>1. r \in Ids /\ runs[r] \in Run
    BY <1>5, IdsAreNumbers DEF Heartbeat, Working, TypeOK
  <2>2. runs' = [runs EXCEPT ![r] = [runs[r] EXCEPT !.stale = FALSE]] /\ UNCHANGED proc
    BY <1>5 DEF Heartbeat
  <2>3. [runs[r] EXCEPT !.stale = FALSE] \in Run /\ [runs[r] EXCEPT !.stale = FALSE].status = runs[r].status
    BY <2>1 DEF Run
  <2>4. /\ Onward /\ Ids' = Ids
        /\ \A other \in Ids : runs'[other] = IF other = r THEN [runs[r] EXCEPT !.stale = FALSE] ELSE runs[other]
    BY <2>1, <2>2, <2>3, RowStep DEF Active
  <2>5. Len(runs') = Len(runs)
    BY <2>4, IdsAreNumbers, OnwardIds DEF Onward
  <2>6. \A other \in Ids : /\ runs'[other].status = runs[other].status
                           /\ runs'[other].stale => runs[other].stale
    BY <2>1, <2>3, <2>4 DEF Run
  <2>7. \A other \in Ids : Active(runs'[other]) <=> Active(runs[other])
    BY <2>6 DEF Active
  <2>8. RowsCalm'
    BY <1>2, <2>2, <2>4, <2>5, <2>6, <2>7, RowsStayCalm DEF TypeOK
  <2>. QED BY <1>3, <2>4, <2>7, <2>8
<1>6. CASE FinishRun(p)
  <2>. DEFINE r == proc[p].run
  <2>1. PICK status \in {"succeeded", "failed"} : End(r, status)
    BY <1>6 DEF FinishRun
  <2>2. r \in Ids
    BY <1>6 DEF FinishRun, Working, TypeOK
  <2>3. /\ Onward /\ Ids' = Ids
        /\ \A other \in Ids : runs'[other] = IF other = r THEN Ended(status) ELSE runs[other]
    BY <2>1, <2>2, EndStep
  <2>4. Len(runs') = Len(runs)
    BY <2>3, IdsAreNumbers, OnwardIds DEF Onward
  <2>5. \A other \in Ids : Active(runs'[other]) => Active(runs[other]) /\ runs'[other].stale = runs[other].stale
    BY <2>1, <2>3 DEF Active, Ended
  <2>6. \A q \in Processors : proc'[q] = IF q = p THEN Nobody ELSE proc[q]
    BY <1>6 DEF FinishRun, TypeOK
  <2>7. \A q \in Processors \ {p} : Working(q) => proc[q].run \in Ids \ {r}
    BY <1>6 DEF ClaimedOnce, OneProcessorPerRun, FinishRun, TypeOK, Working
  <2>8. \A q \in Processors : proc'[q] # Nobody => runs'[proc[q].run].status = runs[proc[q].run].status
    BY <2>3, <2>6, <2>7 DEF Working
  <2>9. RowsCalm'
    BY <1>2, <2>3, <2>4, <2>5, <2>6, <2>8, RowsStayCalm
  <2>. QED BY <1>3, <2>3, <2>5, <2>9
<1>7. CASE CrashProcessor(p)
  <2>1. UNCHANGED runs /\ \A q \in Processors : proc'[q] \in {proc[q], Nobody}
    BY <1>7 DEF CrashProcessor, TypeOK
  <2>. QED BY <1>2, <1>3, <2>1, SameRows, RowsStayCalm
<1>8. CASE StallJob(p)
  <2>1. UNCHANGED <<runs, proc>>
    BY <1>8 DEF StallJob
  <2>. QED BY <1>2, <1>3, <2>1, SameRows, RowsStayCalm
<1>. QED
  BY <1>4, <1>5, <1>6, <1>7, <1>8 DEF Process, TakeJob, TakeInline, TypeOK

LEMMA CalmStep == TypeOK /\ LeaseIsKept /\ ClaimedOnce /\ EnsureInTick /\ Calm /\ [Next]_vars => Calm'
<1>. SUFFICES ASSUME TypeOK, LeaseIsKept, ClaimedOnce, EnsureInTick, Calm, [Next]_vars, ~disturbed'
              PROVE  RowsCalm' /\ TicksCalm'
  BY DEF Calm
<1>1. UNCHANGED <<runs, proc, sched, disturbed>> => RowsCalm' /\ TicksCalm'
  BY DEF Calm, RowsCalm, TicksCalm, Working, Ids
<1>2. ASSUME NEW r \in Ids, GrowOverdue(r) PROVE RowsCalm' /\ TicksCalm'
  <2>1. RowsCalm /\ TicksCalm
    BY <1>2 DEF GrowOverdue, Calm
  <2>2. runs[r] \in Run
    BY IdsAreNumbers
  <2>3. runs' = [runs EXCEPT ![r] = [runs[r] EXCEPT !.overdue = TRUE]]
    BY <1>2 DEF GrowOverdue
  <2>4. /\ [runs[r] EXCEPT !.overdue = TRUE] \in Run
        /\ [runs[r] EXCEPT !.overdue = TRUE].status = runs[r].status
        /\ [runs[r] EXCEPT !.overdue = TRUE].stale = runs[r].stale
    BY <2>2 DEF Run
  <2>5. /\ Onward /\ Ids' = Ids
        /\ \A other \in Ids : runs'[other] = IF other = r THEN [runs[r] EXCEPT !.overdue = TRUE] ELSE runs[other]
    BY <2>3, <2>4, RowStep DEF Active
  <2>6. Len(runs') = Len(runs)
    BY <2>5, IdsAreNumbers, OnwardIds DEF Onward
  <2>7. \A other \in Ids : /\ runs'[other].status = runs[other].status
                           /\ runs'[other].stale = runs[other].stale
    BY <2>4, <2>5
  <2>8. \A other \in Ids : Active(runs'[other]) <=> Active(runs[other])
    BY <2>7 DEF Active
  <2>9. RowsCalm'
    BY <1>2, <2>1, <2>5, <2>6, <2>7, <2>8, RowsStayCalm DEF GrowOverdue, TypeOK
  <2>10. TicksCalm'
    BY <1>2, <2>1, <2>5, <2>8, TicksStayCalm DEF GrowOverdue, TicksCalm
  <2>. QED BY <2>9, <2>10
<1>. QED
  BY <1>1, <1>2, SchedulerKeepsCalm, ProcessorKeepsCalm
  DEF Next, FailJob, LoseOffer, LeaseExpires, StartByHand, GrowStale, vars

LEMMA CalmIsEnough == TypeOK /\ Calm => NoOverlap
<1>. SUFFICES ASSUME TypeOK, Calm, ~disturbed, NEW r \in Ids, UnderWay(r) PROVE r = Len(runs)
  BY DEF NoOverlap
<1>. QED BY DEF Calm, RowsCalm, UnderWay, Active, Working

\* Two runs of a type are under way at once only after something the lock and
\* the latest run cannot tell: a lease that ran out in use, Redis failing, a run
\* given up as stale or failed or started by hand.
THEOREM RunsDoNotOverlap == Spec => []NoOverlap
<1>1. Init => LeaseIsKept /\ ClaimedOnce /\ EnsureInTick /\ Calm
  <2>1. Init => LeaseIsKept /\ ClaimedOnce
    BY IdleTick DEF Init, LeaseIsKept, ClaimedOnce, OneProcessorPerRun, Working
  <2>2. Init => EnsureInTick /\ TicksCalm
    BY IdleTick DEF Init, EnsureInTick, TicksCalm
  <2>3. Init => RowsCalm
    BY EmptySeq DEF Init, RowsCalm, Working, Ids
  <2>. QED BY <2>1, <2>2, <2>3 DEF Calm
<1>. QED
  BY <1>1, LeaseStep, ClaimedOnceStep, EnsureInTickStep, CalmStep, CalmIsEnough, TypeCorrect, PTL DEF Spec

=============================================================================
