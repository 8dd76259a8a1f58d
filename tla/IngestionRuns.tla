---------------------------- MODULE IngestionRuns ----------------------------
(***************************************************************************)
(* The life of the ingestion runs of one job type: JobsService's ticks     *)
(* under the CacheService lock, IngestionService.run creating a run and    *)
(* offering it to BullMQ or to an inline fallback, IngestionQueueService   *)
(* claiming and finishing it, and the recovery of stale runs.              *)
(*                                                                         *)
(* One job type is enough: a tick plans its types one after the other, and *)
(* runs of two types share the lock and nothing else.  Time is what the    *)
(* code can tell of it: whether startedAt ?? createdAt is older than the   *)
(* stale threshold, and createdAt older than the longest running age.      *)
(***************************************************************************)
EXTENDS Naturals, Sequences

CONSTANTS
    Schedulers,   \* processes running JobsService
    Processors,   \* callers of processRun(): worker slots and inline fallbacks
    Nobody,       \* no owner of the lock, no work
    Gone,         \* the host and process id of a process that died
    MaxRuns,      \* bound: runs explored
    MaxFaults     \* bound: crashes, throws, stalls, lost or failed jobs, Redis errors

ASSUME IngestionAssumption ==
    /\ MaxRuns \in Nat
    /\ MaxFaults \in Nat
    /\ Nobody \notin Schedulers \cup {Gone} /\ Gone \notin Schedulers
    /\ Nobody \notin [run : Nat, from : {"queue", "inline"}]

VARIABLES
    runs,       \* ingestion_job_runs, oldest first
    queue,      \* runs with a waiting BullMQ job
    inline,     \* runs with a pending inline fallback
    proc,       \* the run each processor is syncing, and how it got it
    sched,      \* each scheduler's progress through its tick
    lock,       \* the owner of the scheduler lock in Redis
    faults,     \* faults so far
    disturbed   \* history: something happened that may make two runs overlap

vars == <<runs, queue, inline, proc, sched, lock, faults, disturbed>>

Run == [status : {"queued", "running", "succeeded", "failed"}, stale : BOOLEAN, overdue : BOOLEAN]
Ids == DOMAIN runs
Work == [run : Nat, from : {"queue", "inline"}]
Tick == [at : {"idle", "scan", "recover", "ensure", "finish"},
         lease : {"none", "redis", "lapsed", "memory"}, lost : BOOLEAN, rows : SUBSET Nat,
         latest : {"unread", "absent", "active", "stale", "succeeded", "failed"}]

TypeOK ==
    /\ runs \in Seq(Run)
    /\ queue \in SUBSET Ids
    /\ inline \in SUBSET Ids
    /\ proc \in [Processors -> Work \cup {Nobody}]
    /\ \A p \in Processors : proc[p] # Nobody => proc[p].run \in Ids
    /\ sched \in [Schedulers -> Tick]
    /\ \A s \in Schedulers : sched[s].rows \subseteq Ids
    /\ lock \in Schedulers \cup {Nobody, Gone}
    /\ faults \in 0 .. MaxFaults
    /\ disturbed \in BOOLEAN

-----------------------------------------------------------------------------
(* Runs.                                                                   *)

Active(run) == run.status \in {"queued", "running"}
NewRun == [status |-> "queued", stale |-> FALSE, overdue |-> FALSE]
Ended(status) == [status |-> status, stale |-> FALSE, overdue |-> FALSE]
End(r, status) == runs' = [runs EXCEPT ![r] = Ended(status)]

\* Mutant of StaleRuns: only a run whose heartbeat stopped is stale.
SilentRuns == {r \in Ids : Active(runs[r]) /\ runs[r].stale}

StaleRuns ==
    {r \in Ids : \/ runs[r].status = "queued" /\ runs[r].stale
                 \/ runs[r].status = "running" /\ (runs[r].stale \/ runs[r].overdue)}

\* Mutant of CreateRun: the job is enqueued first, and the row's creation may fail.
CreateRunJobFirst ==
    /\ Len(runs) < MaxRuns
    /\ runs' \in {runs, Append(runs, NewRun)}
    /\ queue' = queue \cup {Len(runs) + 1} /\ inline' = inline

\* IngestionService.run(): the row, then its job; when that fails, or its answer
\* is lost, an inline fallback, and for generatePredictions a late one anyway.
\* The table of the runs exists: without it run() syncs at once and leaves no row.
CreateRun ==
    /\ Len(runs) < MaxRuns
    /\ runs' = Append(runs, NewRun)
    /\ \/ queue' = queue \cup {Len(runs) + 1} /\ inline' = inline
       \/ inline' = inline \cup {Len(runs) + 1} /\ queue' \in {queue, queue \cup {Len(runs) + 1}}

-----------------------------------------------------------------------------
(* CacheService's lock and its lease.                                      *)

Idle == [at |-> "idle", lease |-> "none", lost |-> FALSE, rows |-> {}, latest |-> "unread"]
Ticking(s) == sched[s].lease # "none"

Fault == faults < MaxFaults /\ faults' = faults + 1

\* Mutant of AfterRelease: the lock is deleted without comparing its owner.
ReleasedByAnyone(s) == Nobody
AfterRelease(s) == IF lock = s THEN Nobody ELSE lock

InUse == lock \in Schedulers /\ sched[lock].lease = "redis"

\* The lease runs out: its owner died, was paused, or could not renew it.
LeaseExpires ==
    /\ lock # Nobody
    /\ lock' = Nobody
    /\ IF InUse
       THEN sched' = [sched EXCEPT ![lock].lease = "lapsed"] /\ disturbed' = TRUE
       ELSE UNCHANGED <<sched, disturbed>>
    /\ UNCHANGED <<runs, queue, inline, proc, faults>>

\* The renewal timer finds the lock gone, or Redis fails and the process has no
\* lock in its own memory; the tick stops at its next check.
RenewFails(s) ==
    /\ Ticking(s) /\ ~sched[s].lost
    /\ \/ lock # s /\ faults' = faults
       \/ lock = s /\ Fault
    /\ sched' = [sched EXCEPT ![s].lost = TRUE]
    /\ UNCHANGED <<runs, queue, inline, proc, lock, disturbed>>

-----------------------------------------------------------------------------
(* JobsService: start, tick, stale recovery.                               *)

\* Mutant of StartTick: the lock is set without NX.
StartTickOverwriting(s) ==
    /\ sched[s].at = "idle"
    /\ lock' = s
    /\ sched' = [sched EXCEPT ![s] = [Idle EXCEPT !.at = "scan", !.lease = "redis"]]
    /\ UNCHANGED <<runs, queue, inline, proc, faults, disturbed>>

StartTick(s) ==
    /\ sched[s].at = "idle" /\ lock = Nobody
    /\ lock' = s
    /\ sched' = [sched EXCEPT ![s] = [Idle EXCEPT !.at = "scan", !.lease = "redis"]]
    /\ UNCHANGED <<runs, queue, inline, proc, faults, disturbed>>

\* Redis fails: the process takes the lock in its own memory, which is free.
StartTickAlone(s) ==
    /\ Fault /\ sched[s].at = "idle"
    /\ sched' = [sched EXCEPT ![s] = [Idle EXCEPT !.at = "scan", !.lease = "memory"]]
    /\ disturbed' = TRUE
    /\ UNCHANGED <<runs, queue, inline, proc, lock>>

\* recoverStaleRunsIfDue(): the rows are read first and updated one by one.  A
\* starting process scans without the lock, and again in its first tick.
Scan(s) ==
    /\ sched[s].at = "scan"
    /\ sched' = [sched EXCEPT ![s].at = "recover", ![s].rows = StaleRuns]
    /\ UNCHANGED <<runs, queue, inline, proc, lock, faults, disturbed>>

\* The recovery interval is not over yet.
SkipScan(s) ==
    /\ sched[s].at = "scan" /\ Ticking(s)
    /\ sched' = [sched EXCEPT ![s].at = "recover"]
    /\ UNCHANGED <<runs, queue, inline, proc, lock, faults, disturbed>>

\* The status is written whatever it is by now.
RecoverRun(s, r) ==
    /\ r \in sched[s].rows
    /\ End(r, "failed")
    /\ sched' = [sched EXCEPT ![s].rows = @ \ {r}]
    /\ disturbed' = TRUE
    /\ UNCHANGED <<queue, inline, proc, lock, faults>>

Recovered(s) == sched[s].at = "recover" /\ sched[s].rows = {}

\* onModuleInit() goes on to the first tick.
StartupRecovered(s) ==
    /\ Recovered(s) /\ ~Ticking(s)
    /\ sched' = [sched EXCEPT ![s] = Idle]
    /\ UNCHANGED <<runs, queue, inline, proc, lock, faults, disturbed>>

Latest ==
    IF runs = <<>> THEN "absent"
    ELSE LET newest == runs[Len(runs)]
         IN  IF ~Active(newest) THEN newest.status ELSE IF newest.stale THEN "stale" ELSE "active"

\* loadLatestRunsByType(): the newest run as it is now.
LoadLatest(s) ==
    /\ Recovered(s) /\ Ticking(s) /\ ~sched[s].lost
    /\ sched' = [sched EXCEPT ![s].at = "ensure", ![s].latest = Latest]
    /\ UNCHANGED <<runs, queue, inline, proc, lock, faults, disturbed>>

Covered(latest) == latest = "active"

\* The tick is slower than the stale threshold: the row it read gets old.
SnapshotAges(s) ==
    /\ sched[s].latest = "active"
    /\ sched' = [sched EXCEPT ![s].latest = "stale"]
    /\ disturbed' = TRUE
    /\ UNCHANGED <<runs, queue, inline, proc, lock, faults>>

\* ensureRecentRun() decides on the row LoadLatest read; a succeeded run may be
\* recent enough.
EnsureRecentRun(s) ==
    LET latest == sched[s].latest
    IN  /\ sched[s].at = "ensure" /\ ~sched[s].lost
        /\ \/ ~Covered(latest) /\ CreateRun
           \/ /\ Covered(latest) \/ latest = "succeeded" \/ Len(runs) = MaxRuns
              /\ UNCHANGED <<runs, queue, inline>>
        /\ sched' = [sched EXCEPT ![s] = [@ EXCEPT !.at = "finish", !.latest = "unread"]]
        /\ UNCHANGED <<proc, lock, faults, disturbed>>

\* The finally block, after the last type or at a check of a lost lock.
FinishTick(s) ==
    /\ Ticking(s)
    /\ sched[s].at = "finish" \/ (sched[s].lost /\ (Recovered(s) \/ sched[s].at = "ensure"))
    /\ lock' = AfterRelease(s)
    /\ sched' = [sched EXCEPT ![s] = Idle]
    /\ UNCHANGED <<runs, queue, inline, proc, faults, disturbed>>

\* A query of the tick throws; or Redis fails and the release misses the lock.
TickThrows(s) ==
    /\ Fault /\ Ticking(s)
    /\ lock' \in {lock, AfterRelease(s)}
    /\ sched' = [sched EXCEPT ![s] = Idle]
    /\ UNCHANGED <<runs, queue, inline, proc, disturbed>>

-----------------------------------------------------------------------------
(* IngestionQueueService.processRun().                                     *)

Working(p) == proc[p] # Nobody

\* Mutant of Claimable: a run that is being processed is claimed again.
ClaimableAnyhow(r) == Active(runs[r])

\* Mutant of Claimable: a run that was recovered is claimed again.
ClaimableUnlessRunning(r) == runs[r].status # "running"

\* updateMany where status = queued: a second delivery finds nothing to claim.
Claimable(r) == runs[r].status = "queued"

Claim(p, r, from) ==
    /\ proc[p] = Nobody
    /\ IF Claimable(r)
       THEN /\ runs' = [runs EXCEPT ![r].status = "running", ![r].stale = FALSE]
            /\ proc' = [proc EXCEPT ![p] = [run |-> r, from |-> from]]
       ELSE UNCHANGED <<runs, proc>>

TakeJob(p, r) ==
    /\ r \in queue
    /\ queue' = queue \ {r}
    /\ Claim(p, r, "queue")
    /\ UNCHANGED <<inline, sched, lock, faults, disturbed>>

TakeInline(p, r) ==
    /\ r \in inline
    /\ inline' = inline \ {r}
    /\ Claim(p, r, "inline")
    /\ UNCHANGED <<queue, sched, lock, faults, disturbed>>

\* heartbeatRun(): only while the run still is running.
Heartbeat(p) ==
    /\ Working(p) /\ runs[proc[p].run].status = "running"
    /\ runs' = [runs EXCEPT ![proc[p].run].stale = FALSE]
    /\ UNCHANGED <<queue, inline, proc, sched, lock, faults, disturbed>>

\* The sync returns or throws: the status is written whatever it is by now.  The
\* caches cleared next hold none of this state.
FinishRun(p) ==
    /\ Working(p)
    /\ \E status \in {"succeeded", "failed"} : End(proc[p].run, status)
    /\ proc' = [proc EXCEPT ![p] = Nobody]
    /\ UNCHANGED <<queue, inline, sched, lock, faults, disturbed>>

-----------------------------------------------------------------------------
(* Faults, administrators and time.                                        *)

\* The processor's process dies; its job, if it has one, is found stalled.
CrashProcessor(p) ==
    /\ Fault /\ Working(p)
    /\ queue' = IF proc[p].from = "queue" THEN queue \cup {proc[p].run} ELSE queue
    /\ proc' = [proc EXCEPT ![p] = Nobody]
    /\ UNCHANGED <<runs, inline, sched, lock, disturbed>>

\* The job's lock runs out while its processor is still working.
StallJob(p) ==
    /\ Fault /\ Working(p) /\ proc[p].from = "queue"
    /\ queue' = queue \cup {proc[p].run}
    /\ UNCHANGED <<runs, inline, proc, sched, lock, disturbed>>

\* The worker's failed event: the payload is rejected, or the job stalled again.
FailJob(r) ==
    /\ Fault /\ r \in queue
    /\ queue' \in {queue, queue \ {r}}
    /\ End(r, "failed")
    /\ disturbed' = TRUE
    /\ UNCHANGED <<inline, proc, sched, lock>>

\* Redis loses the job, or the creating process dies with its offers.
LoseOffer(r) ==
    /\ Fault /\ r \in queue \cup inline
    /\ queue' = queue \ {r} /\ inline' = inline \ {r}
    /\ UNCHANGED <<runs, proc, sched, lock, disturbed>>

\* The scheduler's process restarts, with its old owner id (a container's process
\* often has it) or another one: onModuleInit() begins with a scan.
CrashScheduler(s) ==
    /\ Fault
    /\ sched' = [sched EXCEPT ![s] = [Idle EXCEPT !.at = "scan"]]
    /\ lock' \in IF lock = s THEN {s, Gone} ELSE {lock}
    /\ UNCHANGED <<runs, queue, inline, proc, disturbed>>

\* AdminIngestionController: a run whatever the latest one is.
StartByHand ==
    /\ CreateRun
    /\ disturbed' = TRUE
    /\ UNCHANGED <<proc, sched, lock, faults>>

GrowStale(r) ==
    /\ Active(runs[r])
    /\ runs' = [runs EXCEPT ![r].stale = TRUE]
    /\ disturbed' = TRUE
    /\ UNCHANGED <<queue, inline, proc, sched, lock, faults>>

GrowOverdue(r) ==
    /\ Active(runs[r])
    /\ runs' = [runs EXCEPT ![r].overdue = TRUE]
    /\ UNCHANGED <<queue, inline, proc, sched, lock, faults, disturbed>>

-----------------------------------------------------------------------------
Init ==
    /\ runs = <<>>
    /\ queue = {} /\ inline = {}
    /\ proc = [p \in Processors |-> Nobody]
    /\ sched = [s \in Schedulers |-> [Idle EXCEPT !.at = "scan"]]
    /\ lock = Nobody
    /\ faults = 0
    /\ disturbed = FALSE

\* What a scheduler does next by itself.
Schedule(s) ==
    \/ StartTick(s)
    \/ Scan(s)
    \/ SkipScan(s)
    \/ \E r \in sched[s].rows : RecoverRun(s, r)
    \/ StartupRecovered(s)
    \/ LoadLatest(s)
    \/ EnsureRecentRun(s)
    \/ FinishTick(s)

Process(p) ==
    \/ \E r \in queue : TakeJob(p, r)
    \/ \E r \in inline : TakeInline(p, r)
    \/ Heartbeat(p)
    \/ FinishRun(p)
    \/ CrashProcessor(p)
    \/ StallJob(p)

Next ==
    \/ \E s \in Schedulers : 
            \/ Schedule(s)
            \/ StartTickAlone(s)
            \/ RenewFails(s)
            \/ SnapshotAges(s)
            \/ TickThrows(s)
            \/ CrashScheduler(s)
    \/ \E p \in Processors : Process(p)
    \/ \E r \in queue : FailJob(r)
    \/ \E r \in queue \cup inline : LoseOffer(r)
    \/ LeaseExpires
    \/ StartByHand
    \/ \E r \in Ids : GrowStale(r) \/ GrowOverdue(r)

Spec == Init /\ [][Next]_vars

\* A lock left behind by a crash expires; a lease in use need not.
OrphanExpires == LeaseExpires /\ ~InUse

\* Ticks are timers and async functions: they go on, and find the recovery
\* interval over again and again.  Runs get old.  Nothing is assumed of the
\* queue, of the processors or of their syncs.
Fairness ==
    /\ \A s \in Schedulers : WF_vars(Schedule(s)) /\ SF_vars(Scan(s))
    /\ WF_vars(OrphanExpires)
    /\ \A r \in 1 .. MaxRuns :
            /\ WF_vars(r \in Ids /\ GrowOverdue(r))
            /\ WF_vars(r \in Ids /\ runs[r].status = "queued" /\ GrowStale(r))
FairSpec == Spec /\ Fairness

-----------------------------------------------------------------------------
(* Properties.                                                             *)

\* Two processors never sync the same run, however often it is delivered: by the
\* queue, again after a stall, and by the inline fallback.
OneProcessorPerRun ==
    \A p, q \in Processors : (p # q /\ Working(p) /\ Working(q)) => proc[p].run # proc[q].run

\* A tick that took the Redis lock keeps it until its own lease runs out: no
\* other process's late release takes it away.
LeaseIsKept == \A s \in Schedulers : sched[s].lease = "redis" => lock = s

\* Undisturbed, the schedulers never have two runs of a type under way: the row
\* they decide on cannot be outdated by another tick.
UnderWay(r) == Active(runs[r]) \/ \E p \in Processors : Working(p) /\ proc[p].run = r
NoOverlap == ~disturbed => \A r, other \in Ids : (UnderWay(r) /\ UnderWay(other)) => r = other

\* A run never moves back: what was claimed is not queued again, and what ended
\* (recovered, failed or succeeded) is not running again.
RunsMoveForward ==
    [][\A r \in Ids :
        /\ runs[r].status # "queued" => runs'[r].status # "queued"
        /\ ~Active(runs[r]) => ~Active(runs'[r])]_vars

\* Every run ends, also when its job is lost, its processor dies, or its sync
\* hangs while the heartbeat goes on.
EveryRunEnds == \A r \in 1 .. MaxRuns : (r \in Ids /\ Active(runs[r])) ~> (r \in Ids /\ ~Active(runs[r]))

=============================================================================
