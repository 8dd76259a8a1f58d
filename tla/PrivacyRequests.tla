--------------------------- MODULE PrivacyRequests ---------------------------
(* The life of one privacy request of privacy-request.service.ts: an export,  *)
(* a deletion or a data-access request, identified by its request key.  The   *)
(* calls that submit it, the copy of its job that the calling process runs    *)
(* inline and the copy that BullMQ delivers to a worker run side by side and  *)
(* meet in two rows only: the request and its job.  A status is changed by    *)
(* reading the row, judging the transition and writing the row                *)
(* (transitionDeletionRequestStatus), so the three steps of two processes may *)
(* alternate.  The legal hold on the request's domain is placed and lifted at *)
(* any time.                                                                  *)
EXTENDS Naturals, FiniteSets

CONSTANTS
    Submissions,    \* calls of submitPrivacy...Request with the same key
    Person,         \* the user named in the request row
    Nobody,         \* the user id after executeUserScopedDeletion erased it
    MaxHolds,       \* bound: times the hold is placed or lifted
    MaxFailures     \* bound: attempts lost to an error or a dead process

ASSUME PrivacyAssumption ==
    Person # Nobody /\ IsFiniteSet(Submissions) /\ MaxHolds \in Nat /\ MaxFailures \in Nat

VARIABLES
    kind,           \* requestType of the request
    request,        \* status of the deletion_requests row
    owner,          \* its userId
    jobs,           \* status of the job row with the key of that userId
    held,           \* the domain is in compliance.legal_hold.domains
    work,           \* what every call and every delivery is about to do
    queuings,       \* history: times the job with that key was set QUEUED
    executed,       \* history: runs of buildExportPayload or executeDeletion
    overlapped,     \* history: a call began before the earlier one and its job rested
    holds, failures \* counters of the bounds

privacyVars ==
    <<kind, request, owner, jobs, held, work, queuings, executed, overlapped, holds, failures>>

-----------------------------------------------------------------------------
\* The keys a job may have: the key hashes the request's userId.
Owners == {Person, Nobody}

Call(s) == <<"call", s>>
Inline(s) == <<"inline", s>>
Queued(k) == <<"queue", k>>

Calls == {Call(s) : s \in Submissions}
Deliveries == {Inline(s) : s \in Submissions} \cup {Queued(k) : k \in Owners}
Workers == Calls \cup Deliveries

Kinds == {"privacy_export", "privacy_delete", "data_access"}
Statuses == {"NONE", "OPEN", "POLICY_REVIEW", "APPROVED", "REJECTED", "QUEUED",
             "RUNNING", "COMPLETED", "FAILED"}
Terminal == {"REJECTED", "COMPLETED", "FAILED"}
JobStatuses == {"NONE", "QUEUED", "RUNNING", "COMPLETED", "FAILED"}
Attempts == 3

\* REQUEST_TRANSITIONS without CANCELLED, which nothing writes.
Transitions == {<<"OPEN", "POLICY_REVIEW">>, <<"POLICY_REVIEW", "APPROVED">>,
                <<"POLICY_REVIEW", "REJECTED">>, <<"APPROVED", "QUEUED">>,
                <<"QUEUED", "RUNNING">>, <<"QUEUED", "FAILED">>,
                <<"RUNNING", "COMPLETED">>, <<"RUNNING", "FAILED">>,
                <<"FAILED", "QUEUED">>}

\* A worker: its next step; the status it is writing and the step after that;
\* the row it last saw; the attempts it has left.
Idle == [step |-> "idle", to |-> "NONE", next |-> "idle",
         saw |-> "NONE", key |-> Nobody, left |-> 0]

PrivacyInit ==
    /\ kind \in Kinds
    /\ request = "NONE" /\ owner = Person
    /\ jobs = [k \in Owners |-> "NONE"]
    /\ held \in BOOLEAN
    /\ work = [w \in Workers |-> Idle]
    /\ queuings = [k \in Owners |-> 0] /\ executed = [k \in Owners |-> 0]
    /\ overlapped = FALSE
    /\ holds = 0 /\ failures = 0

-----------------------------------------------------------------------------
At(w, step) == work[w].step = step

Goes(w, step) == work' = [work EXCEPT ![w].step = step]

UnderWay(w) == work[w].step \notin {"idle", "done", "threw"}

\* An error leaves the handler: BullMQ delivers the job again while attempts
\* are left, the caller and the inline copy are gone.
Thrown(w) ==
    IF w \notin Calls /\ work[w].left > 1
    THEN [work[w] EXCEPT !.step = "waiting", !.left = @ - 1]
    ELSE [work[w] EXCEPT !.step = "threw"]

\* The row a call goes on with; a delivery keeps the key of its job.
Returned(w, step, status) ==
    IF w \in Calls
    THEN [Idle EXCEPT !.step = step, !.saw = status, !.key = owner]
    ELSE [work[w] EXCEPT !.step = step, !.to = "NONE", !.next = "idle"]

\* Mutant of ReadStatus: an illegal transition is passed over in silence.
ReadStatusQuietly(w, step, to, next) ==
    /\ At(w, step)
    /\ work' = [work EXCEPT ![w] =
         IF <<request, to>> \in Transitions
         THEN [@ EXCEPT !.step = "write", !.to = to, !.next = next]
         ELSE Returned(w, next, request)]
    /\ UNCHANGED <<kind, request, owner, jobs, held, queuings, executed, overlapped, holds, failures>>

\* transitionDeletionRequestStatus up to its write: the same status and a
\* terminal one are returned as they are, an illegal transition throws.
ReadStatus(w, step, to, next) ==
    /\ At(w, step)
    /\ work' = [work EXCEPT ![w] =
         IF <<request, to>> \in Transitions
         THEN [@ EXCEPT !.step = "write", !.to = to, !.next = next]
         ELSE IF request = to \/ request \in Terminal
         THEN Returned(w, next, request)
         ELSE Thrown(w)]
    /\ UNCHANGED <<kind, request, owner, jobs, held, queuings, executed, overlapped, holds, failures>>

WriteStatus(w) ==
    /\ At(w, "write")
    /\ request' = work[w].to
    /\ work' = [work EXCEPT ![w] = Returned(w, @.next, @.to)]
    /\ UNCHANGED <<kind, owner, jobs, held, queuings, executed, overlapped, holds, failures>>

-----------------------------------------------------------------------------
(* The call.                                                                 *)

\* Mutant of Resumes: a refused request is taken up again.
ResumesRejected(status) ==
    CASE kind = "data_access" -> "done"
      [] status = "OPEN" -> "review"
      [] status \in {"POLICY_REVIEW", "APPROVED", "REJECTED", "FAILED"} -> "policy"
      [] OTHER -> "done"

\* What a call does with a request that exists: submitDataAccessRequest returns
\* it, the others return one that is under way or closed.
Resumes(status) ==
    CASE kind = "data_access" -> "done"
      [] status = "OPEN" -> "review"
      [] status \in {"POLICY_REVIEW", "APPROVED", "FAILED"} -> "policy"
      [] OTHER -> "done"

\* createDeletionRequest, or the row that is there.
Submit(s) ==
    LET c == Call(s) IN
    /\ At(c, "idle")
    /\ \/ /\ request = "NONE"
          /\ request' = IF kind = "data_access" THEN "POLICY_REVIEW" ELSE "OPEN"
          /\ work' = [work EXCEPT ![c] = Returned(c,
                        IF kind = "data_access" THEN "policy" ELSE "review", request')]
       \/ /\ request # "NONE" /\ UNCHANGED request
          /\ work' = [work EXCEPT ![c] = Returned(c, Resumes(request), request)]
    /\ overlapped' = (overlapped \/ \E w \in Workers : UnderWay(w))
    /\ UNCHANGED <<kind, owner, jobs, held, queuings, executed, holds, failures>>

\* evaluatePolicy: everything but the hold is settled by the request itself.
JudgeCall(s) ==
    LET c == Call(s) IN
    /\ At(c, "policy")
    /\ work' = [work EXCEPT ![c] =
         CASE kind = "data_access" -> [@ EXCEPT !.step = "write", !.next = "done",
                                        !.to = IF held THEN "REJECTED" ELSE "COMPLETED"]
           [] kind # "data_access" /\ held -> [@ EXCEPT !.step = "reject"]
           [] OTHER -> [@ EXCEPT !.step = IF work[c].saw = "POLICY_REVIEW" THEN "approve" ELSE "find"]]
    /\ UNCHANGED <<kind, request, owner, jobs, held, queuings, executed, overlapped, holds, failures>>

\* ensureExportJob, ensureDeletionJob: a job that is waiting, running or done
\* is left alone, another one is created or reset ...
Kept(k) == jobs[k] \in {"QUEUED", "RUNNING", "COMPLETED"}

FindJob(s) ==
    LET c == Call(s) IN
    /\ At(c, "find")
    /\ Goes(c, IF Kept(work[c].key) THEN "queue"
               ELSE IF jobs[work[c].key] = "NONE" THEN "create" ELSE "reset")
    /\ UNCHANGED <<kind, request, owner, jobs, held, queuings, executed, overlapped, holds, failures>>

SetQueued(k) ==
    /\ jobs' = [jobs EXCEPT ![k] = "QUEUED"]
    /\ queuings' = [queuings EXCEPT ![k] = @ + 1]

\* (the job key is unique)
CreateJob(s) ==
    LET c == Call(s)
        k == work[c].key IN
    /\ At(c, "create")
    /\ IF jobs[k] = "NONE"
       THEN SetQueued(k) /\ Goes(c, "enqueue")
       ELSE UNCHANGED <<jobs, queuings>> /\ work' = [work EXCEPT ![c] = Thrown(c)]
    /\ UNCHANGED <<kind, request, owner, held, executed, overlapped, holds, failures>>

ResetJob(s) ==
    LET c == Call(s) IN
    /\ At(c, "reset")
    /\ SetQueued(work[c].key) /\ Goes(c, "enqueue")
    /\ UNCHANGED <<kind, request, owner, held, executed, overlapped, holds, failures>>

\* ... handed to BullMQ, which knows the job by its key and ignores the second
\* one, and run inline as well.
Enqueue(s) ==
    LET c == Call(s)
        k == work[c].key
        delivery(n) == [Idle EXCEPT !.step = "waiting", !.key = k, !.left = n] IN
    /\ At(c, "enqueue")
    /\ work' = [work EXCEPT
         ![c].step = "queue",
         ![Inline(s)] = delivery(1),
         ![Queued(k)] = IF @.step = "idle" THEN delivery(Attempts) ELSE @]
    /\ UNCHANGED <<kind, request, owner, jobs, held, queuings, executed, overlapped, holds, failures>>

CallStep(s) ==
    LET c == Call(s) IN
    \/ ReadStatus(c, "review", "POLICY_REVIEW", "policy")
    \/ JudgeCall(s)
    \/ ReadStatus(c, "reject", "REJECTED", "done")
    \/ ReadStatus(c, "approve", "APPROVED", "find")
    \/ FindJob(s) \/ CreateJob(s) \/ ResetJob(s) \/ Enqueue(s)
    \/ ReadStatus(c, "queue", "QUEUED", "done")
    \/ WriteStatus(c)

-----------------------------------------------------------------------------
(* A delivery: processPrivacyExportJob, processPrivacyDeleteJob.             *)

\* Mutant of Claimable: a job somebody runs is claimed as well.
ClaimableRunning(status) == status \in {"QUEUED", "RUNNING", "FAILED"}

\* The conditional update of the job row lets one delivery through.
Claimable(status) == status \in {"QUEUED", "FAILED"}

Claim(d) ==
    LET k == work[d].key IN
    /\ At(d, "waiting")
    /\ IF Claimable(jobs[k])
       THEN jobs' = [jobs EXCEPT ![k] = "RUNNING"] /\ Goes(d, "start")
       ELSE UNCHANGED jobs /\ Goes(d, "done")
    /\ UNCHANGED <<kind, request, owner, held, queuings, executed, overlapped, holds, failures>>

\* evaluatePolicy again, as the hold may have changed since the request.
JudgeDelivery(d) ==
    /\ At(d, "policy")
    /\ Goes(d, IF held THEN "refuse" ELSE "execute")
    /\ UNCHANGED <<kind, request, owner, jobs, held, queuings, executed, overlapped, holds, failures>>

WriteJob(d, step, status, next) ==
    /\ At(d, step)
    /\ jobs' = [jobs EXCEPT ![work[d].key] = status]
    /\ Goes(d, next)
    /\ UNCHANGED <<kind, request, owner, held, queuings, executed, overlapped, holds, failures>>

\* The deletion also takes the user id out of the request and of its job.
Execute(d) ==
    /\ At(d, "execute")
    /\ executed' = [executed EXCEPT ![work[d].key] = @ + 1]
    /\ owner' = IF kind = "privacy_delete" THEN Nobody ELSE owner
    /\ Goes(d, "complete")
    /\ UNCHANGED <<kind, request, jobs, held, queuings, overlapped, holds, failures>>

DeliveryStep(d) ==
    \/ Claim(d)
    \/ ReadStatus(d, "start", "RUNNING", "policy")
    \/ JudgeDelivery(d)
    \/ WriteJob(d, "refuse", "FAILED", "fail")
    \/ ReadStatus(d, "fail", "FAILED", "done")
    \/ Execute(d)
    \/ WriteJob(d, "complete", "COMPLETED", "finish")
    \/ ReadStatus(d, "finish", "COMPLETED", "done")
    \/ WriteStatus(d)

-----------------------------------------------------------------------------
\* updateLegalHoldDomains.
SetHold ==
    /\ holds < MaxHolds /\ holds' = holds + 1
    /\ held' = ~held
    /\ UNCHANGED <<kind, request, owner, jobs, work, queuings, executed, overlapped, failures>>

\* A worker fails or dies between two of its steps.
Fail(w) ==
    /\ failures < MaxFailures /\ failures' = failures + 1
    /\ UnderWay(w)
    /\ work' = [work EXCEPT ![w] = Thrown(w)]
    /\ UNCHANGED <<kind, request, owner, jobs, held, queuings, executed, overlapped, holds>>

PrivacyNext ==
    \/ \E s \in Submissions : Submit(s) \/ CallStep(s)
    \/ \E d \in Deliveries : DeliveryStep(d)
    \/ \E w \in Workers : Fail(w)
    \/ SetHold

PrivacySpec == PrivacyInit /\ [][PrivacyNext]_privacyVars

-----------------------------------------------------------------------------
Steps == {"idle", "write", "done", "threw", "policy",
          "review", "reject", "approve", "find", "create", "reset", "enqueue", "queue",
          "waiting", "start", "refuse", "fail", "execute", "complete", "finish"}
Works == [step : Steps, to : Statuses, next : Steps, saw : Statuses, key : Owners, left : 0..Attempts]

PrivacyTypeOK ==
    /\ kind \in Kinds /\ request \in Statuses /\ owner \in Owners
    /\ jobs \in [Owners -> JobStatuses]
    /\ held \in BOOLEAN /\ overlapped \in BOOLEAN
    /\ work \in [Workers -> Works]
    /\ queuings \in [Owners -> Nat] /\ executed \in [Owners -> Nat]
    /\ holds \in 0..MaxHolds /\ failures \in 0..MaxFailures

\* The copies BullMQ and the calling process run, the retries and a repeated
\* submission execute a job at most once for each time it was queued: whoever
\* claims it takes it from everybody else.
ExecutedOncePerQueuing == \A k \in Owners : executed[k] <= queuings[k]

\* As long as a call with the same key waits for the job of the one before, a
\* refused request was never acted on and a completed one was.
VerdictsAreKept ==
    ~overlapped /\ kind # "data_access" =>
       /\ request = "REJECTED" => \A k \in Owners : executed[k] = 0
       /\ request = "COMPLETED" => \E k \in Owners : executed[k] > 0 /\ jobs[k] = "COMPLETED"

\* When nothing is under way any more, a request that was submitted once is
\* closed, unless a worker stumbled: on an error, or on a row that another one
\* had not written yet.
Stumbled ==
    \/ \E w \in Workers : At(w, "threw")
    \/ \E k \in Owners : work[Queued(k)].left \in 1 .. Attempts - 1

Resubmitted == \E s, t \in Submissions : s # t /\ ~At(Call(s), "idle") /\ ~At(Call(t), "idle")

RestsClosed ==
    (\A w \in Workers : ~UnderWay(w)) =>
       request \in Terminal \cup {"NONE"} \/ Resubmitted \/ Stumbled
=============================================================================
