----------------------- MODULE PrivacyRequestsProofs -----------------------
(* Proofs about PrivacyRequests, for any finite number of submissions and any *)
(* number of holds and failures.                                              *)
EXTENDS PrivacyRequests, FiniteSetTheorems, TLAPS

USE PrivacyAssumption

-----------------------------------------------------------------------------
(* The inductive invariant.                                                   *)

\* A delivery that has claimed its job and has neither executed nor refused it.
Claims(d) ==
    \/ work[d].step \in {"start", "policy", "refuse", "execute"}
    \/ work[d].step = "write" /\ work[d].next = "policy"

Claimers(k) == {d \in Deliveries : work[d].key = k /\ Claims(d)}

\* A job that waits may be claimed once more.
Owed(k) == IF Claimable(jobs[k]) THEN 1 ELSE 0

\* Every queuing is used up by an execution, held by a claim or still owed.
CountInv == \A k \in Owners : executed[k] + Cardinality(Claimers(k)) + Owed(k) <= queuings[k]

\* What a delivery goes on with after it wrote the status of the request.
WriteInv == \A d \in Deliveries : work[d].step = "write" => work[d].next \in {"policy", "done"}

PrivacyInv == PrivacyTypeOK /\ WriteInv /\ CountInv

-----------------------------------------------------------------------------
(* Workers and what they are about to do.                                     *)

LEMMA WhoIsWho ==
    /\ \A s \in Submissions : /\ Call(s) \in Calls /\ Call(s) \in Workers
                             /\ Inline(s) \in Deliveries /\ Inline(s) \in Workers
    /\ \A k \in Owners : Queued(k) \in Deliveries /\ Queued(k) \in Workers
    /\ Calls \cap Deliveries = {} /\ Workers = Calls \cup Deliveries
BY DEF Calls, Deliveries, Workers, Call, Inline, Queued

LEMMA IdleWork == Idle \in Works
BY DEF Idle, Works, Steps, Statuses, Owners, Attempts

LEMMA NextStepWork ==
    ASSUME NEW r \in Works, NEW st \in Steps
    PROVE  LET q == [r EXCEPT !.step = st] IN
           q \in Works /\ q.step = st /\ q.next = r.next /\ q.key = r.key
BY DEF Works

\* The outcome of an attempt that throws claims nothing.
LEMMA ThrownWork ==
    ASSUME PrivacyTypeOK, NEW w \in Workers
    PROVE  /\ Thrown(w) \in Works /\ Thrown(w).step \in {"waiting", "threw"}
           /\ Thrown(w).key = work[w].key
<1>1. work[w] \in Works
  BY DEF PrivacyTypeOK
<1>2. CASE w \notin Calls /\ work[w].left > 1
  <2>1. Thrown(w) = [work[w] EXCEPT !.step = "waiting", !.left = work[w].left - 1]
    BY <1>2 DEF Thrown
  <2>2. work[w].left - 1 \in 0..Attempts
    BY <1>1, <1>2 DEF Works, Attempts
  <2>. QED BY <1>1, <2>1, <2>2 DEF Works, Steps
<1>3. CASE ~ (w \notin Calls /\ work[w].left > 1)
  <2>1. Thrown(w) = [work[w] EXCEPT !.step = "threw"]
    BY <1>3 DEF Thrown
  <2>. QED BY <1>1, <2>1 DEF Works, Steps
<1>. QED BY <1>2, <1>3

LEMMA ReturnedWork ==
    ASSUME PrivacyTypeOK, NEW w \in Workers, NEW st \in Steps, NEW status \in Statuses
    PROVE  /\ Returned(w, st, status) \in Works /\ Returned(w, st, status).step = st
           /\ w \in Deliveries => Returned(w, st, status).key = work[w].key
<1>1. work[w] \in Works /\ owner \in Owners
  BY DEF PrivacyTypeOK
<1>2. CASE w \in Calls
  <2>1. Returned(w, st, status) = [Idle EXCEPT !.step = st, !.saw = status, !.key = owner]
    BY <1>2 DEF Returned
  <2>. QED BY <1>1, <1>2, <2>1, IdleWork, WhoIsWho DEF Works
<1>3. CASE w \notin Calls
  <2>1. Returned(w, st, status) = [work[w] EXCEPT !.step = st, !.to = "NONE", !.next = "idle"]
    BY <1>3 DEF Returned
  <2>2. "NONE" \in Statuses /\ "idle" \in Steps
    BY DEF Statuses, Steps
  <2>. QED BY <1>1, <2>1, <2>2 DEF Works
<1>. QED BY <1>2, <1>3

-----------------------------------------------------------------------------
(* What a step leaves of the counts.                                          *)

\* The step makes w do r, and no other worker anything else.
Acts(w, r) == r \in Works /\ work' = [work EXCEPT ![w] = r]

\* The step makes no delivery claim anything it did not claim before.
ClaimsNoMore ==
    \A d \in Deliveries : Claims(d)' => Claims(d) /\ work'[d].key = work[d].key

LEMMA ClaimersFinite == \A k \in Owners : IsFiniteSet(Claimers(k)) /\ Cardinality(Claimers(k)) \in Nat
<1>. SUFFICES ASSUME NEW k \in Owners PROVE IsFiniteSet(Claimers(k)) /\ Cardinality(Claimers(k)) \in Nat
  OBVIOUS
<1>1. IsFiniteSet(Owners)
  <2>1. IsFiniteSet({Person} \cup {Nobody})
    BY FS_Singleton, FS_Union
  <2>. QED BY <2>1 DEF Owners
<1>2. IsFiniteSet({Inline(s) : s \in Submissions}) /\ IsFiniteSet({Queued(j) : j \in Owners})
  <2>1. IsFiniteSet({Inline(s) : s \in Submissions})
    <3>1. [s \in Submissions |-> Inline(s)] \in Surjection(Submissions, {Inline(s) : s \in Submissions})
      BY DEF Surjection
    <3>. QED BY <3>1, FS_Surjection
  <2>2. IsFiniteSet({Queued(j) : j \in Owners})
    <3>1. [j \in Owners |-> Queued(j)] \in Surjection(Owners, {Queued(j) : j \in Owners})
      BY DEF Surjection
    <3>. QED BY <1>1, <3>1, FS_Surjection
  <2>. QED BY <2>1, <2>2
<1>3. IsFiniteSet(Deliveries)
  BY <1>2, FS_Union DEF Deliveries
<1>4. Claimers(k) \subseteq Deliveries
  BY DEF Claimers
<1>. QED BY <1>3, <1>4, FS_Subset, FS_CardinalityType

\* A step that makes no claim and keeps what is owed within what is queued.
LEMMA CountStays ==
    ASSUME PrivacyInv, PrivacyTypeOK', ClaimsNoMore, executed' = executed,
           \A k \in Owners : queuings[k] + Owed(k)' <= queuings'[k] + Owed(k)
    PROVE  CountInv'
<1>. SUFFICES ASSUME NEW k \in Owners
              PROVE  executed'[k] + Cardinality(Claimers(k))' + Owed(k)' <= queuings'[k]
  BY DEF CountInv
<1>1. Claimers(k)' \subseteq Claimers(k)
  BY DEF Claimers, ClaimsNoMore
<1>2. /\ Cardinality(Claimers(k)) \in Nat /\ Cardinality(Claimers(k))' \in Nat
      /\ Cardinality(Claimers(k))' <= Cardinality(Claimers(k))
  BY <1>1, ClaimersFinite, FS_Subset, FS_CardinalityType
<1>3. Owed(k) \in Nat /\ Owed(k)' \in Nat
  BY DEF Owed
<1>4. queuings[k] \in Nat /\ queuings'[k] \in Nat /\ executed[k] \in Nat /\ executed'[k] = executed[k]
  BY DEF PrivacyInv, PrivacyTypeOK
<1>5. executed[k] + Cardinality(Claimers(k)) + Owed(k) <= queuings[k]
  BY DEF PrivacyInv, CountInv
<1>. QED BY <1>2, <1>3, <1>4, <1>5

\* A claimer that is done with its claim: it executes, or the job is owed again.
LEMMA ClaimIsSpent ==
    ASSUME PrivacyInv, PrivacyTypeOK', NEW d \in Deliveries, Claims(d), ~ Claims(d)',
           ClaimsNoMore, queuings' = queuings,
           NEW own \in Owners, own = work[d].key,
           \A j \in Owners \ {own} : executed'[j] = executed[j] /\ jobs'[j] = jobs[j],
           executed'[own] + Owed(own)' <= executed[own] + Owed(own) + 1
    PROVE  CountInv'
<1>. SUFFICES ASSUME NEW k \in Owners
              PROVE  executed'[k] + Cardinality(Claimers(k))' + Owed(k)' <= queuings'[k]
  BY DEF CountInv
<1>1. Claimers(k)' \subseteq Claimers(k)
  BY DEF Claimers, ClaimsNoMore
<1>2. /\ Cardinality(Claimers(k)) \in Nat /\ Cardinality(Claimers(k))' \in Nat
      /\ Cardinality(Claimers(k))' <= Cardinality(Claimers(k))
  BY <1>1, ClaimersFinite, FS_Subset, FS_CardinalityType
<1>3. Owed(k) \in Nat /\ Owed(k)' \in Nat
  BY DEF Owed
<1>4. queuings'[k] = queuings[k] /\ queuings[k] \in Nat /\ executed[k] \in Nat /\ executed'[k] \in Nat
  BY DEF PrivacyInv, PrivacyTypeOK
<1>5. executed[k] + Cardinality(Claimers(k)) + Owed(k) <= queuings[k]
  BY DEF PrivacyInv, CountInv
<1>6. CASE k # own
  <2>1. executed'[k] = executed[k] /\ Owed(k)' = Owed(k)
    BY <1>6 DEF Owed
  <2>. QED BY <1>2, <1>3, <1>4, <1>5, <2>1
<1>7. CASE k = own
  <2>1. d \in Claimers(k) /\ d \notin Claimers(k)'
    BY <1>7 DEF Claimers
  <2>2. Claimers(k)' \subseteq Claimers(k) \ {d}
    BY <1>1, <2>1
  <2>3. IsFiniteSet(Claimers(k) \ {d}) /\ Cardinality(Claimers(k) \ {d}) = Cardinality(Claimers(k)) - 1
    BY <2>1, ClaimersFinite, FS_RemoveElement
  <2>4. Cardinality(Claimers(k))' <= Cardinality(Claimers(k)) - 1
    BY <2>2, <2>3, FS_Subset
  <2>5. executed'[k] + Owed(k)' <= executed[k] + Owed(k) + 1
    BY <1>7
  <2>. QED BY <1>2, <1>3, <1>4, <1>5, <2>4, <2>5
<1>. QED BY <1>6, <1>7

-----------------------------------------------------------------------------
(* The steps.                                                                 *)

LEMMA InitStep == PrivacyInit => PrivacyInv
<1>. SUFFICES ASSUME PrivacyInit PROVE PrivacyInv
  OBVIOUS
<1>1. PrivacyTypeOK
  <2>1. work \in [Workers -> Works]
    BY IdleWork DEF PrivacyInit
  <2>2. /\ request \in Statuses /\ owner \in Owners /\ jobs \in [Owners -> JobStatuses]
        /\ held \in BOOLEAN /\ overlapped \in BOOLEAN /\ kind \in Kinds
    BY DEF PrivacyInit, Statuses, Owners, JobStatuses
  <2>3. queuings \in [Owners -> Nat] /\ executed \in [Owners -> Nat]
    BY DEF PrivacyInit
  <2>4. holds \in 0..MaxHolds /\ failures \in 0..MaxFailures
    BY DEF PrivacyInit
  <2>. QED BY <2>1, <2>2, <2>3, <2>4 DEF PrivacyTypeOK
<1>2. \A d \in Deliveries : work[d].step = "idle"
  BY WhoIsWho DEF PrivacyInit, Idle
<1>3. WriteInv
  BY <1>2 DEF WriteInv
<1>4. CountInv
  <2>. SUFFICES ASSUME NEW k \in Owners
                PROVE  executed[k] + Cardinality(Claimers(k)) + Owed(k) <= queuings[k]
    BY DEF CountInv
  <2>1. Claimers(k) = {}
    BY <1>2 DEF Claimers, Claims
  <2>2. executed[k] = 0 /\ queuings[k] = 0 /\ Owed(k) = 0
    BY DEF PrivacyInit, Owed, Claimable
  <2>. QED BY <2>1, <2>2, FS_EmptySet
<1>. QED BY <1>1, <1>3, <1>4 DEF PrivacyInv

LEMMA ActTypes ==
    ASSUME PrivacyTypeOK, NEW w \in Workers, NEW r, Acts(w, r)
    PROVE  /\ work' \in [Workers -> Works] /\ work'[w] = r
           /\ \A v \in Workers \ {w} : work'[v] = work[v]
BY DEF PrivacyTypeOK, Acts

\* The step of a worker that touches neither jobs nor histories: whatever it
\* writes into the request, the counts stay.
LEMMA QuietStep ==
    ASSUME PrivacyInv, NEW w \in Workers, NEW r, Acts(w, r),
           w \in Deliveries =>
              /\ r.step = "write" => r.next \in {"policy", "done"}
              /\ r.key = work[w].key
              /\ r.step \in {"start", "policy", "refuse", "execute"}
                    \/ (r.step = "write" /\ r.next = "policy") => Claims(w),
           request' \in Statuses, held' \in BOOLEAN, overlapped' \in BOOLEAN,
           holds' \in 0..MaxHolds, failures' \in 0..MaxFailures,
           UNCHANGED <<kind, owner, jobs, queuings, executed>>
    PROVE  PrivacyInv'
<1>1. /\ work' \in [Workers -> Works] /\ work'[w] = r
      /\ \A v \in Workers \ {w} : work'[v] = work[v]
  BY ActTypes DEF PrivacyInv
<1>2. PrivacyTypeOK'
  BY <1>1 DEF PrivacyInv, PrivacyTypeOK
<1>3. WriteInv'
  BY <1>1, WhoIsWho DEF PrivacyInv, WriteInv
<1>4. ClaimsNoMore
  BY <1>1, WhoIsWho DEF ClaimsNoMore, Claims
<1>5. \A k \in Owners : queuings[k] + Owed(k)' <= queuings'[k] + Owed(k)
  <2>1. \A k \in Owners : queuings[k] \in Nat /\ Owed(k) \in Nat
    BY DEF PrivacyInv, PrivacyTypeOK, Owed
  <2>2. \A k \in Owners : Owed(k)' = Owed(k)
    BY DEF Owed
  <2>. QED BY <2>1, <2>2
<1>6. CountInv'
  BY <1>2, <1>4, <1>5, CountStays
<1>. QED BY <1>2, <1>3, <1>6 DEF PrivacyInv

LEMMA ReadStep ==
    ASSUME PrivacyInv, NEW w \in Workers, NEW st, NEW to \in Statuses, NEW nx \in Steps,
           ReadStatus(w, st, to, nx), w \in Deliveries => (st = "start" /\ nx = "policy") \/ nx = "done"
    PROVE  PrivacyInv'
<1>. work[w] \in Works /\ request \in Statuses /\ PrivacyTypeOK
  BY DEF PrivacyInv, PrivacyTypeOK
<1>1. st = "start" => Claims(w)
  BY DEF ReadStatus, At, Claims
<1>2. /\ request' = request /\ held' = held /\ overlapped' = overlapped /\ holds' = holds /\ failures' = failures
      /\ UNCHANGED <<kind, owner, jobs, queuings, executed>>
  BY DEF ReadStatus
<1>3. /\ request' \in Statuses /\ held' \in BOOLEAN /\ overlapped' \in BOOLEAN
      /\ holds' \in 0..MaxHolds /\ failures' \in 0..MaxFailures
  BY <1>2 DEF PrivacyTypeOK
<1>4. CASE work' = [work EXCEPT ![w] = [work[w] EXCEPT !.step = "write", !.to = to, !.next = nx]]
  <2>. DEFINE r == [work[w] EXCEPT !.step = "write", !.to = to, !.next = nx]
  <2>1. r \in Works /\ r.step = "write" /\ r.next = nx /\ r.key = work[w].key
    BY DEF Works, Steps
  <2>2. Acts(w, r)
    BY <1>4, <2>1 DEF Acts
  <2>. HIDE DEF r
  <2>. QED BY <1>1, <1>2, <1>3, <2>1, <2>2, QuietStep
<1>5. CASE work' = [work EXCEPT ![w] = Returned(w, nx, request)]
  <2>1. /\ Returned(w, nx, request) \in Works /\ Returned(w, nx, request).step = nx
        /\ w \in Deliveries => Returned(w, nx, request).key = work[w].key
    BY ReturnedWork
  <2>2. Acts(w, Returned(w, nx, request))
    BY <1>5, <2>1 DEF Acts
  <2>. QED BY <1>1, <1>2, <1>3, <2>1, <2>2, QuietStep
<1>6. CASE work' = [work EXCEPT ![w] = Thrown(w)]
  <2>1. Thrown(w) \in Works /\ Thrown(w).step \in {"waiting", "threw"} /\ Thrown(w).key = work[w].key
    BY ThrownWork
  <2>2. Acts(w, Thrown(w))
    BY <1>6, <2>1 DEF Acts
  <2>. QED BY <1>2, <1>3, <2>1, <2>2, QuietStep
<1>. QED BY <1>4, <1>5, <1>6 DEF ReadStatus

LEMMA WriteStep ==
    ASSUME PrivacyInv, NEW w \in Workers, WriteStatus(w)
    PROVE  PrivacyInv'
<1>. work[w] \in Works /\ work[w].step = "write" /\ PrivacyTypeOK
  BY DEF PrivacyInv, PrivacyTypeOK, WriteStatus, At
<1>. DEFINE nx == work[w].next
            r == Returned(w, nx, work[w].to)
<1>1. nx \in Steps /\ work[w].to \in Statuses
  BY DEF Works
<1>2. r \in Works /\ r.step = nx /\ (w \in Deliveries => r.key = work[w].key)
  BY <1>1, ReturnedWork
<1>3. Acts(w, r)
  BY <1>2 DEF Acts, WriteStatus
<1>4. w \in Deliveries => nx \in {"policy", "done"}
  BY DEF PrivacyInv, WriteInv
<1>5. nx = "policy" => Claims(w)
  BY DEF Claims
<1>6. /\ request' \in Statuses /\ held' \in BOOLEAN /\ overlapped' \in BOOLEAN
      /\ holds' \in 0..MaxHolds /\ failures' \in 0..MaxFailures
      /\ UNCHANGED <<kind, owner, jobs, queuings, executed>>
  BY <1>1 DEF PrivacyTypeOK, WriteStatus
<1>. HIDE DEF r, nx
<1>. QED BY <1>2, <1>3, <1>4, <1>5, <1>6, QuietStep

\* A worker that only goes on to another step.
LEMMA GoesStep ==
    ASSUME PrivacyInv, NEW w \in Workers, NEW st \in Steps, Goes(w, st),
           w \in Deliveries => st = "done" \/ (st \in {"refuse", "execute"} /\ Claims(w)),
           UNCHANGED <<kind, request, owner, jobs, held, queuings, executed, overlapped, holds, failures>>
    PROVE  PrivacyInv'
<1>. DEFINE r == [work[w] EXCEPT !.step = st]
<1>1. r \in Works /\ r.step = st /\ r.key = work[w].key
  BY NextStepWork DEF PrivacyInv, PrivacyTypeOK
<1>2. Acts(w, r)
  BY <1>1 DEF Acts, Goes
<1>3. /\ request' \in Statuses /\ held' \in BOOLEAN /\ overlapped' \in BOOLEAN
      /\ holds' \in 0..MaxHolds /\ failures' \in 0..MaxFailures
  BY DEF PrivacyInv, PrivacyTypeOK
<1>. HIDE DEF r
<1>. QED BY <1>1, <1>2, <1>3, QuietStep

LEMMA ThrowStep ==
    ASSUME PrivacyInv, NEW w \in Workers, work' = [work EXCEPT ![w] = Thrown(w)],
           failures' \in 0..MaxFailures,
           UNCHANGED <<kind, request, owner, jobs, held, queuings, executed, overlapped, holds>>
    PROVE  PrivacyInv'
<1>1. Thrown(w) \in Works /\ Thrown(w).step \in {"waiting", "threw"} /\ Thrown(w).key = work[w].key
  BY ThrownWork DEF PrivacyInv
<1>2. Acts(w, Thrown(w))
  BY <1>1 DEF Acts
<1>3. /\ request' \in Statuses /\ held' \in BOOLEAN /\ overlapped' \in BOOLEAN /\ holds' \in 0..MaxHolds
  BY DEF PrivacyInv, PrivacyTypeOK
<1>. QED BY <1>1, <1>2, <1>3, QuietStep

LEMMA SubmitStep ==
    ASSUME PrivacyInv, NEW s \in Submissions, Submit(s)
    PROVE  PrivacyInv'
<1>. DEFINE c == Call(s)
<1>. PrivacyTypeOK /\ c \in Workers /\ c \notin Deliveries
  BY WhoIsWho DEF PrivacyInv
<1>1. /\ held' \in BOOLEAN /\ overlapped' \in BOOLEAN
      /\ holds' \in 0..MaxHolds /\ failures' \in 0..MaxFailures
      /\ UNCHANGED <<kind, owner, jobs, queuings, executed>>
  BY DEF PrivacyTypeOK, Submit
<1>2. request' \in Statuses
  BY DEF PrivacyTypeOK, Submit, Statuses
<1>3. request \in Statuses
  BY DEF PrivacyTypeOK
<1>4. \E st \in Steps, status \in Statuses : work' = [work EXCEPT ![c] = Returned(c, st, status)]
  <2>1. CASE request = "NONE" /\ work' = [work EXCEPT ![c] = Returned(c,
                        IF kind = "data_access" THEN "policy" ELSE "review", request')]
    <3>1. (IF kind = "data_access" THEN "policy" ELSE "review") \in Steps
      BY DEF Steps
    <3>. QED BY <1>2, <2>1, <3>1
  <2>2. CASE work' = [work EXCEPT ![c] = Returned(c, Resumes(request), request)]
    <3>1. Resumes(request) \in Steps
      <4>1. Resumes(request) \in {"done", "review", "policy"}
        BY DEF Resumes
      <4>. QED BY <4>1 DEF Steps
    <3>. QED BY <1>3, <2>2, <3>1
  <2>. QED BY <2>1, <2>2 DEF Submit
<1>5. PICK st \in Steps, status \in Statuses : work' = [work EXCEPT ![c] = Returned(c, st, status)]
  BY <1>4
<1>6. Acts(c, Returned(c, st, status))
  BY <1>5, ReturnedWork DEF Acts
<1>. QED BY <1>1, <1>2, <1>6, QuietStep

LEMMA JudgeCallStep ==
    ASSUME PrivacyInv, NEW s \in Submissions, JudgeCall(s)
    PROVE  PrivacyInv'
<1>. DEFINE c == Call(s)
<1>. PrivacyTypeOK /\ c \in Workers /\ c \notin Deliveries /\ work[c] \in Works
  BY WhoIsWho DEF PrivacyInv, PrivacyTypeOK
<1>1. /\ request' \in Statuses /\ held' \in BOOLEAN /\ overlapped' \in BOOLEAN
      /\ holds' \in 0..MaxHolds /\ failures' \in 0..MaxFailures
      /\ UNCHANGED <<kind, owner, jobs, queuings, executed>>
  BY DEF PrivacyTypeOK, JudgeCall
<1>2. CASE kind = "data_access"
  <2>. DEFINE r == [work[c] EXCEPT !.step = "write", !.next = "done",
                                   !.to = IF held THEN "REJECTED" ELSE "COMPLETED"]
  <2>1. work' = [work EXCEPT ![c] = r]
    BY <1>2 DEF JudgeCall
  <2>2. "write" \in Steps /\ "done" \in Steps /\ (IF held THEN "REJECTED" ELSE "COMPLETED") \in Statuses
    BY DEF Steps, Statuses
  <2>3. r \in Works
    BY <2>2 DEF Works
  <2>. HIDE DEF r
  <2>4. Acts(c, r)
    BY <2>1, <2>3 DEF Acts
  <2>. QED BY <1>1, <2>4, QuietStep
<1>3. CASE kind # "data_access"
  <2>1. \E st \in {"reject", "approve", "find"} : Goes(c, st)
    <3>1. CASE held
      BY <1>3, <3>1 DEF JudgeCall, Goes
    <3>2. CASE ~held
      BY <1>3, <3>2 DEF JudgeCall, Goes
    <3>. QED BY <3>1, <3>2
  <2>2. PICK st \in Steps : Goes(c, st)
    BY <2>1 DEF Steps
  <2>. QED BY <2>2, GoesStep DEF JudgeCall
<1>. QED BY <1>2, <1>3

\* Whoever sets a job QUEUED adds one queuing, and the job is owed once at most.
LEMMA QueuedStep ==
    ASSUME PrivacyInv, NEW s \in Submissions, NEW k \in Owners, SetQueued(k), Goes(Call(s), "enqueue"),
           UNCHANGED <<kind, request, owner, held, executed, overlapped, holds, failures>>
    PROVE  PrivacyInv'
<1>. DEFINE c == Call(s)
            r == [work[c] EXCEPT !.step = "enqueue"]
<1>. PrivacyTypeOK /\ c \in Workers /\ c \notin Deliveries
  BY WhoIsWho DEF PrivacyInv
<1>1. r \in Works
  BY NextStepWork DEF PrivacyTypeOK, Steps
<1>2. Acts(c, r)
  BY <1>1 DEF Acts, Goes
<1>3. work' \in [Workers -> Works] /\ \A v \in Workers \ {c} : work'[v] = work[v]
  <2>. HIDE DEF r, c
  <2>. QED BY <1>2, ActTypes
<1>4. jobs' \in [Owners -> JobStatuses] /\ queuings' \in [Owners -> Nat]
  BY DEF SetQueued, PrivacyTypeOK, JobStatuses
<1>5. PrivacyTypeOK'
  BY <1>3, <1>4 DEF PrivacyTypeOK
<1>6. WriteInv' /\ ClaimsNoMore
  BY <1>3, WhoIsWho DEF PrivacyInv, WriteInv, ClaimsNoMore, Claims
<1>7. \A j \in Owners : queuings[j] + Owed(j)' <= queuings'[j] + Owed(j)
  <2>. SUFFICES ASSUME NEW j \in Owners PROVE queuings[j] + Owed(j)' <= queuings'[j] + Owed(j)
    OBVIOUS
  <2>1. Owed(j) \in 0..1 /\ Owed(j)' \in 0..1 /\ queuings[j] \in Nat
    BY DEF Owed, PrivacyTypeOK
  <2>2. CASE j = k
    <3>1. queuings'[j] = queuings[j] + 1
      BY <2>2 DEF SetQueued, PrivacyTypeOK
    <3>. QED BY <2>1, <3>1
  <2>3. CASE j # k
    <3>1. queuings'[j] = queuings[j] /\ Owed(j)' = Owed(j)
      BY <2>3 DEF SetQueued, PrivacyTypeOK, Owed
    <3>. QED BY <2>1, <3>1
  <2>. QED BY <2>2, <2>3
<1>8. CountInv'
  BY <1>5, <1>6, <1>7, CountStays
<1>. QED BY <1>5, <1>6, <1>8 DEF PrivacyInv

LEMMA EnqueueStep ==
    ASSUME PrivacyInv, NEW s \in Submissions, Enqueue(s)
    PROVE  PrivacyInv'
<1>. PrivacyTypeOK /\ work \in [Workers -> Works]
  BY DEF PrivacyInv, PrivacyTypeOK
<1>1. PICK k \in Owners : k = work[Call(s)].key
  BY WhoIsWho DEF PrivacyTypeOK, Works
<1>. DEFINE c == Call(s)
            delivery(n) == [Idle EXCEPT !.step = "waiting", !.key = k, !.left = n]
            queued == IF work[Queued(k)].step = "idle" THEN delivery(Attempts) ELSE work[Queued(k)]
            going == [work[c] EXCEPT !.step = "queue"]
<1>2. \A n \in 0..Attempts : delivery(n) \in Works /\ delivery(n).step = "waiting"
  <2>1. "waiting" \in Steps
    BY DEF Steps
  <2>. QED BY <2>1, IdleWork DEF Works
<1>3. 1 \in 0..Attempts /\ Attempts \in 0..Attempts
  BY DEF Attempts
<1>4. going \in Works
  BY WhoIsWho, NextStepWork DEF Steps
<1>5. queued \in Works /\ (queued = work[Queued(k)] \/ queued.step = "waiting")
  BY <1>2, <1>3, WhoIsWho
<1>6. c \in Workers /\ Inline(s) \in Workers /\ Queued(k) \in Workers
      /\ c # Inline(s) /\ c # Queued(k) /\ Inline(s) # Queued(k)
  BY WhoIsWho DEF Call, Inline, Queued
<1>7. work' = [work EXCEPT ![c] = going, ![Inline(s)] = delivery(1), ![Queued(k)] = queued]
  BY <1>1, <1>6 DEF Enqueue
<1>. HIDE DEF delivery, queued, going
<1>8. /\ work' \in [Workers -> Works]
      /\ work'[Inline(s)] = delivery(1) /\ work'[Queued(k)] = queued
      /\ \A v \in Workers \ {c, Inline(s), Queued(k)} : work'[v] = work[v]
  BY <1>2, <1>3, <1>4, <1>5, <1>6, <1>7
<1>9. /\ \A d \in Deliveries : work'[d] = work[d] \/ work'[d].step = "waiting"
  BY <1>2, <1>3, <1>5, <1>8, WhoIsWho
<1>10. PrivacyTypeOK'
  BY <1>8 DEF PrivacyTypeOK, Enqueue
<1>11. WriteInv' /\ ClaimsNoMore
  BY <1>9 DEF PrivacyInv, WriteInv, ClaimsNoMore, Claims
<1>12. \A j \in Owners : queuings[j] + Owed(j)' <= queuings'[j] + Owed(j)
  <2>1. \A j \in Owners : queuings[j] \in Nat /\ Owed(j) \in Nat
    BY DEF PrivacyTypeOK, Owed
  <2>2. queuings' = queuings /\ \A j \in Owners : Owed(j)' = Owed(j)
    BY DEF Owed, Enqueue
  <2>. QED BY <2>1, <2>2
<1>13. executed' = executed
  BY DEF Enqueue
<1>14. CountInv'
  BY <1>10, <1>11, <1>12, <1>13, CountStays
<1>. QED BY <1>10, <1>11, <1>14 DEF PrivacyInv

LEMMA CallSteps ==
    ASSUME PrivacyInv, NEW s \in Submissions, CallStep(s)
    PROVE  PrivacyInv'
<1>. DEFINE c == Call(s)
<1>0. c \in Workers /\ c \notin Deliveries /\ work[c].key \in Owners
  BY WhoIsWho DEF PrivacyInv, PrivacyTypeOK, Works
<1>1. CASE ReadStatus(c, "review", "POLICY_REVIEW", "policy") \/ ReadStatus(c, "reject", "REJECTED", "done")
           \/ ReadStatus(c, "approve", "APPROVED", "find") \/ ReadStatus(c, "queue", "QUEUED", "done")
  <2>1. /\ {"policy", "done", "find"} \subseteq Steps
        /\ {"POLICY_REVIEW", "REJECTED", "APPROVED", "QUEUED"} \subseteq Statuses
    BY DEF Steps, Statuses
  <2>. HIDE DEF c
  <2>. QED BY <1>0, <1>1, <2>1, ReadStep
<1>2. CASE JudgeCall(s)
  BY <1>2, JudgeCallStep
<1>3. CASE FindJob(s)
  <2>1. \E st \in {"queue", "create", "reset"} : Goes(c, st)
    BY <1>3 DEF FindJob
  <2>2. PICK st \in Steps : Goes(c, st)
    BY <2>1 DEF Steps
  <2>. QED BY <1>0, <1>3, <2>2, GoesStep DEF FindJob
<1>4. CASE CreateJob(s)
  <2>1. CASE jobs[work[c].key] = "NONE"
    BY <1>0, <1>4, <2>1, QueuedStep DEF CreateJob
  <2>2. CASE jobs[work[c].key] # "NONE"
    BY <1>0, <1>4, <2>2, ThrowStep DEF CreateJob, PrivacyInv, PrivacyTypeOK
  <2>. QED BY <2>1, <2>2
<1>5. CASE ResetJob(s)
  BY <1>0, <1>5, QueuedStep DEF ResetJob
<1>6. CASE Enqueue(s)
  BY <1>6, EnqueueStep
<1>7. CASE WriteStatus(c)
  BY <1>0, <1>7, WriteStep
<1>. QED BY <1>1, <1>2, <1>3, <1>4, <1>5, <1>6, <1>7 DEF CallStep

\* The claim moves what was owed to the delivery that claims.
LEMMA ClaimStep ==
    ASSUME PrivacyInv, NEW d \in Deliveries, Claim(d)
    PROVE  PrivacyInv'
<1>. d \in Workers /\ work[d] \in Works /\ PrivacyTypeOK
  BY WhoIsWho DEF PrivacyInv, PrivacyTypeOK
<1>1. CASE ~Claimable(jobs[work[d].key])
  BY <1>1, GoesStep DEF Claim, Steps
<1>2. CASE Claimable(jobs[work[d].key])
  <2>1. PICK own \in Owners : own = work[d].key
    BY DEF Works
  <2>. DEFINE r == [work[d] EXCEPT !.step = "start"]
  <2>2. r \in Works /\ r.step = "start" /\ r.key = own
    BY <2>1, NextStepWork DEF Steps
  <2>3. Acts(d, r)
    BY <1>2, <2>2 DEF Acts, Claim, Goes
  <2>. HIDE DEF r
  <2>4. /\ work' \in [Workers -> Works] /\ work'[d].step = "start" /\ work'[d].key = own
        /\ \A v \in Workers \ {d} : work'[v] = work[v]
    BY <2>2, <2>3, ActTypes
  <2>5. jobs' = [jobs EXCEPT ![own] = "RUNNING"] /\ executed' = executed /\ queuings' = queuings
    BY <1>2, <2>1 DEF Claim
  <2>6. PrivacyTypeOK'
    BY <2>4, <2>5 DEF PrivacyTypeOK, JobStatuses, Claim
  <2>7. WriteInv'
    BY <2>4, WhoIsWho DEF PrivacyInv, WriteInv
  <2>8. CountInv'
    <3>. SUFFICES ASSUME NEW k \in Owners
                  PROVE  executed'[k] + Cardinality(Claimers(k))' + Owed(k)' <= queuings'[k]
      BY DEF CountInv
    <3>1. executed[k] + Cardinality(Claimers(k)) + Owed(k) <= queuings[k]
      BY DEF PrivacyInv, CountInv
    <3>2. Owed(k) \in Nat /\ queuings[k] \in Nat /\ executed[k] \in Nat
      BY DEF Owed, PrivacyTypeOK
    <3>3. CASE k = own
      <4>1. Owed(k) = 1 /\ Owed(k)' = 0
        BY <1>2, <2>1, <2>5, <3>3 DEF Owed, Claimable, PrivacyTypeOK
      <4>2. Claimers(k)' \subseteq Claimers(k) \cup {d}
        BY <2>4, WhoIsWho DEF Claimers, Claims
      <4>3. /\ IsFiniteSet(Claimers(k) \cup {d})
            /\ Cardinality(Claimers(k) \cup {d}) <= Cardinality(Claimers(k)) + 1
        <5>1. IsFiniteSet(Claimers(k)) /\ Cardinality(Claimers(k)) \in Nat
          BY ClaimersFinite
        <5>2. /\ IsFiniteSet(Claimers(k) \cup {d})
              /\ Cardinality(Claimers(k) \cup {d})
                   = IF d \in Claimers(k) THEN Cardinality(Claimers(k)) ELSE Cardinality(Claimers(k)) + 1
          BY <5>1, FS_AddElement
        <5>. QED BY <5>1, <5>2
      <4>4. /\ Cardinality(Claimers(k))' <= Cardinality(Claimers(k)) + 1
            /\ Cardinality(Claimers(k)) \in Nat /\ Cardinality(Claimers(k))' \in Nat
        BY <4>2, <4>3, ClaimersFinite, FS_Subset, FS_CardinalityType
      <4>. QED BY <2>5, <3>1, <3>2, <4>1, <4>4
    <3>4. CASE k # own
      <4>1. Owed(k)' = Owed(k)
        BY <2>5, <3>4 DEF Owed, PrivacyTypeOK
      <4>2. Claimers(k)' = Claimers(k)
        BY <2>1, <2>4, <3>4, WhoIsWho DEF Claimers, Claims
      <4>. QED BY <2>5, <3>1, <4>1, <4>2
    <3>. QED BY <3>3, <3>4
  <2>. QED BY <2>6, <2>7, <2>8 DEF PrivacyInv
<1>. QED BY <1>1, <1>2

\* What a delivery does with its job once it has claimed it.
LEMMA JobStep ==
    ASSUME PrivacyInv, NEW d \in Deliveries,
           WriteJob(d, "refuse", "FAILED", "fail") \/ Execute(d) \/ WriteJob(d, "complete", "COMPLETED", "finish")
    PROVE  PrivacyInv'
<1>. d \in Workers /\ work[d] \in Works /\ PrivacyTypeOK
  BY WhoIsWho DEF PrivacyInv, PrivacyTypeOK
<1>1. PICK own \in Owners : own = work[d].key
  BY DEF Works
<1>2. PICK st \in {"fail", "complete", "finish"} : Goes(d, st)
  BY DEF WriteJob, Execute
<1>. st \in Steps
  BY DEF Steps
<1>. DEFINE r == [work[d] EXCEPT !.step = st]
<1>3. r \in Works /\ r.step = st /\ r.key = own
  BY <1>1, NextStepWork
<1>4. Acts(d, r)
  BY <1>2, <1>3 DEF Acts, Goes
<1>. HIDE DEF r
<1>5. /\ work' \in [Workers -> Works] /\ work'[d].step = st /\ work'[d].key = own
      /\ \A v \in Workers \ {d} : work'[v] = work[v]
  BY <1>3, <1>4, ActTypes
<1>6. WriteInv' /\ ClaimsNoMore /\ ~Claims(d)'
  BY <1>5, WhoIsWho DEF PrivacyInv, WriteInv, ClaimsNoMore, Claims
<1>7. queuings' = queuings /\ (executed' = executed \/ executed' = [executed EXCEPT ![own] = @ + 1])
      /\ jobs' \in [Owners -> JobStatuses] /\ owner' \in Owners
  BY <1>1 DEF WriteJob, Execute, PrivacyTypeOK, JobStatuses, Owners
<1>8. PrivacyTypeOK'
  <2>1. executed' \in [Owners -> Nat]
    BY <1>7 DEF PrivacyTypeOK
  <2>2. UNCHANGED <<kind, request, held, overlapped, holds, failures>>
    BY DEF WriteJob, Execute
  <2>. QED BY <1>5, <1>7, <2>1, <2>2 DEF PrivacyTypeOK
<1>9. CASE WriteJob(d, "refuse", "FAILED", "fail")
  <2>1. Claims(d) /\ executed' = executed /\ jobs' = [jobs EXCEPT ![own] = "FAILED"]
    BY <1>1, <1>9 DEF WriteJob, At, Claims
  <2>2. \A j \in Owners \ {own} : executed'[j] = executed[j] /\ jobs'[j] = jobs[j]
    BY <2>1 DEF PrivacyTypeOK
  <2>3. executed'[own] + Owed(own)' <= executed[own] + Owed(own) + 1
    BY <2>1 DEF Owed, PrivacyTypeOK
  <2>4. CountInv'
    BY <1>1, <1>6, <1>7, <1>8, <2>1, <2>2, <2>3, ClaimIsSpent
  <2>. QED BY <1>6, <1>8, <2>4 DEF PrivacyInv
<1>10. CASE Execute(d)
  <2>1. Claims(d) /\ executed' = [executed EXCEPT ![own] = @ + 1] /\ jobs' = jobs
    BY <1>1, <1>10 DEF Execute, At, Claims
  <2>2. \A j \in Owners \ {own} : executed'[j] = executed[j] /\ jobs'[j] = jobs[j]
    BY <2>1 DEF PrivacyTypeOK
  <2>3. executed'[own] + Owed(own)' <= executed[own] + Owed(own) + 1
    BY <2>1 DEF Owed, PrivacyTypeOK
  <2>4. CountInv'
    BY <1>1, <1>6, <1>7, <1>8, <2>1, <2>2, <2>3, ClaimIsSpent
  <2>. QED BY <1>6, <1>8, <2>4 DEF PrivacyInv
<1>11. CASE WriteJob(d, "complete", "COMPLETED", "finish")
  <2>1. executed' = executed /\ jobs' = [jobs EXCEPT ![own] = "COMPLETED"]
    BY <1>1, <1>11 DEF WriteJob
  <2>2. \A j \in Owners : Owed(j)' <= Owed(j) /\ Owed(j) \in Nat /\ Owed(j)' \in Nat
    BY <2>1 DEF Owed, Claimable, PrivacyTypeOK
  <2>3. \A j \in Owners : queuings[j] + Owed(j)' <= queuings'[j] + Owed(j)
    BY <1>7, <2>2 DEF PrivacyTypeOK
  <2>4. CountInv'
    BY <1>6, <1>8, <2>1, <2>3, CountStays
  <2>. QED BY <1>6, <1>8, <2>4 DEF PrivacyInv
<1>. QED BY <1>9, <1>10, <1>11

LEMMA DeliverySteps ==
    ASSUME PrivacyInv, NEW d \in Deliveries, DeliveryStep(d)
    PROVE  PrivacyInv'
<1>0. d \in Workers
  BY WhoIsWho
<1>1. CASE ReadStatus(d, "start", "RUNNING", "policy") \/ ReadStatus(d, "fail", "FAILED", "done")
           \/ ReadStatus(d, "finish", "COMPLETED", "done")
  <2>1. {"policy", "done"} \subseteq Steps /\ {"RUNNING", "FAILED", "COMPLETED"} \subseteq Statuses
    BY DEF Steps, Statuses
  <2>. QED BY <1>0, <1>1, <2>1, ReadStep
<1>2. CASE JudgeDelivery(d)
  <2>1. Claims(d)
    BY <1>2 DEF JudgeDelivery, At, Claims
  <2>2. PICK st \in {"refuse", "execute"} : Goes(d, st)
    BY <1>2 DEF JudgeDelivery
  <2>3. st \in Steps
    BY DEF Steps
  <2>. QED BY <1>0, <1>2, <2>1, <2>2, <2>3, GoesStep DEF JudgeDelivery
<1>. QED BY <1>0, <1>1, <1>2, ClaimStep, JobStep, WriteStep DEF DeliveryStep

LEMMA RestStep ==
    ASSUME PrivacyInv, SetHold \/ UNCHANGED privacyVars
    PROVE  PrivacyInv'
<1>1. UNCHANGED <<kind, request, owner, jobs, work, queuings, executed, overlapped, failures>>
  BY DEF SetHold, privacyVars
<1>2. held' \in BOOLEAN /\ holds' \in 0..MaxHolds
  <2>1. held' \in BOOLEAN
    BY DEF SetHold, privacyVars, PrivacyInv, PrivacyTypeOK
  <2>2. CASE SetHold
    BY <2>1, <2>2 DEF SetHold, PrivacyInv, PrivacyTypeOK
  <2>3. CASE UNCHANGED privacyVars
    BY <2>1, <2>3 DEF privacyVars, PrivacyInv, PrivacyTypeOK
  <2>. QED BY <2>2, <2>3
<1>3. PrivacyTypeOK' /\ WriteInv'
  BY <1>1, <1>2 DEF PrivacyInv, PrivacyTypeOK, WriteInv
<1>4. CountInv'
  BY <1>1 DEF PrivacyInv, CountInv, Claimers, Claims, Owed
<1>. QED BY <1>3, <1>4 DEF PrivacyInv

LEMMA NextStep == PrivacyInv /\ [PrivacyNext]_privacyVars => PrivacyInv'
<1>. SUFFICES ASSUME PrivacyInv, [PrivacyNext]_privacyVars PROVE PrivacyInv'
  OBVIOUS
<1>1. ASSUME NEW w \in Workers, Fail(w) PROVE PrivacyInv'
  <2>1. failures' \in 0..MaxFailures
    BY <1>1 DEF Fail, PrivacyInv, PrivacyTypeOK
  <2>. QED BY <1>1, <2>1, ThrowStep DEF Fail
<1>. QED BY <1>1, SubmitStep, CallSteps, DeliverySteps, RestStep DEF PrivacyNext

-----------------------------------------------------------------------------
(* The theorems.                                                              *)

\* The inductive invariant holds in every reachable state.
THEOREM PrivacyInvariance == PrivacySpec => []PrivacyInv
BY InitStep, NextStep, PTL DEF PrivacySpec

\* The rows, the workers and the counters have their types.
THEOREM PrivacyTypes == PrivacySpec => []PrivacyTypeOK
<1>1. PrivacyInv => PrivacyTypeOK
  BY DEF PrivacyInv
<1>. QED BY <1>1, PrivacyInvariance, PTL

\* However many copies of a job run side by side, it is executed at most once
\* for every time it was queued.
THEOREM JobsExecuteOncePerQueuing == PrivacySpec => []ExecutedOncePerQueuing
<1>1. PrivacyInv => ExecutedOncePerQueuing
  <2>. SUFFICES ASSUME PrivacyInv, NEW k \in Owners PROVE executed[k] <= queuings[k]
    BY DEF ExecutedOncePerQueuing
  <2>1. Cardinality(Claimers(k)) \in Nat /\ Owed(k) \in Nat
    BY ClaimersFinite DEF Owed
  <2>2. executed[k] \in Nat /\ queuings[k] \in Nat
    BY DEF PrivacyInv, PrivacyTypeOK
  <2>3. executed[k] + Cardinality(Claimers(k)) + Owed(k) <= queuings[k]
    BY DEF PrivacyInv, CountInv
  <2>. QED BY <2>1, <2>2, <2>3
<1>. QED BY <1>1, PrivacyInvariance, PTL
-----------------------------------------------------------------------------
(* Verdicts: as long as the calls come one after the other, the request and   *)
(* its job tell the same story.                                               *)

\* A call with the same key waits for the job of the one before.
Apart == ~overlapped /\ kind # "data_access"

\* What a request is before it has a job.
Early == {"NONE", "OPEN", "POLICY_REVIEW", "REJECTED"}

\* A call that has not handed its job over yet.
Preparing(c) ==
    \/ work[c].step \in {"review", "policy", "reject", "approve", "find", "create", "reset", "enqueue"}
    \/ work[c].step = "write" /\ work[c].to # "QUEUED"

Alone == \A c \in Calls : Preparing(c) => \A w \in Workers \ {c} : ~UnderWay(w)

\* The status and the job a call finds where it is: nobody changed them since it
\* read them.
CallPlace(c) ==
    LET r == work[c] IN
    \/ ~UnderWay(c)
    \/ r.step = "review" /\ request = "OPEN"
    \/ r.step = "policy" /\ request = r.saw /\ request \in {"POLICY_REVIEW", "APPROVED", "FAILED"}
    \/ r.step = "reject" /\ request \in {"POLICY_REVIEW", "APPROVED", "FAILED"}
    \/ r.step = "approve" /\ request = "POLICY_REVIEW"
    \/ /\ r.step \in {"find", "create", "reset", "enqueue"} /\ request \in {"APPROVED", "FAILED"}
       /\ r.step = "create" => jobs[r.key] = "NONE"
       /\ r.step = "reset" => jobs[r.key] = "FAILED"
    \/ r.step = "queue" /\ request \notin Early
    \/ r.step = "write" /\ r.to = "POLICY_REVIEW" /\ r.next = "policy" /\ request = "OPEN"
    \/ r.step = "write" /\ r.to = "REJECTED" /\ r.next = "done" /\ request = "POLICY_REVIEW"
    \/ r.step = "write" /\ r.to = "APPROVED" /\ r.next = "find" /\ request = "POLICY_REVIEW"
    \/ r.step = "write" /\ r.to = "QUEUED" /\ r.next = "done" /\ request \notin Early

\* A delivery that has claimed its job and has not written its outcome.
Holds(d) ==
    \/ work[d].step \in {"start", "policy", "refuse", "execute", "complete"}
    \/ work[d].step = "write" /\ work[d].to = "RUNNING" /\ work[d].next = "policy"

DeliveryPlace(d) ==
    LET r == work[d] IN
    \/ ~UnderWay(d)
    \/ r.step = "waiting" \/ r.step = "fail"
    \/ /\ Holds(d) /\ jobs[r.key] = "RUNNING"
       /\ r.step = "complete" => executed[r.key] > 0
    \/ r.step = "write" /\ r.to = "FAILED" /\ r.next = "done"
    \/ r.step = "finish" /\ jobs[r.key] = "COMPLETED"
    \/ r.step = "write" /\ r.to = "COMPLETED" /\ r.next = "done" /\ jobs[r.key] = "COMPLETED"

OneHolder ==
    \A d, e \in Deliveries : Holds(d) /\ Holds(e) /\ work[d].key = work[e].key => d = e

\* A request that has not been approved has no job.
Untouched ==
    request \in Early => /\ \A d \in Deliveries : work[d].step = "idle"
                         /\ \A k \in Owners : jobs[k] = "NONE" /\ executed[k] = 0

DoneInv ==
    /\ \A k \in Owners : jobs[k] = "COMPLETED" => executed[k] > 0
    /\ request = "COMPLETED" => \E k \in Owners : jobs[k] = "COMPLETED"

Story ==
    /\ Alone
    /\ \A c \in Calls : CallPlace(c)
    /\ \A d \in Deliveries : DeliveryPlace(d)
    /\ OneHolder /\ Untouched /\ DoneInv

ApartInv == Apart => Story

\* Both ends of a step, the story told before it and still to be told after it.
During == Story /\ PrivacyTypeOK /\ PrivacyTypeOK'

\* A worker under way makes one step: it keeps its own place, claims no job that
\* another one holds, and leaves what the others rely on.
LEMMA MovesOn ==
    ASSUME During, NEW w \in Workers, NEW r, Acts(w, r), UnderWay(w),
           w \in Calls => CallPlace(w)' /\ (Preparing(w)' => Preparing(w)),
           w \in Deliveries => DeliveryPlace(w)',
           w \in Deliveries /\ Holds(w)' =>
              \A d \in Deliveries \ {w} : Holds(d) => work[d].key # r.key,
           request' = request \/ request' \notin Early \/ (w \in Calls /\ Preparing(w)),
           \A d \in Deliveries \ {w} : Holds(d) => jobs'[work[d].key] = "RUNNING",
           \A k \in Owners : /\ jobs[k] = "COMPLETED" => jobs'[k] = "COMPLETED"
                             /\ executed'[k] >= executed[k]
                             /\ jobs'[k] = "COMPLETED" => jobs[k] = "COMPLETED" \/ executed'[k] > 0,
           request' \in Early => /\ w \in Calls /\ request \in Early
                                 /\ jobs' = jobs /\ executed' = executed,
           request' = "COMPLETED" => request = "COMPLETED" \/ \E k \in Owners : jobs'[k] = "COMPLETED"
    PROVE  Story'
<1>1. /\ work' \in [Workers -> Works] /\ work'[w] = r
      /\ \A v \in Workers \ {w} : work'[v] = work[v]
  BY ActTypes DEF During
<1>2. \A c \in Calls \ {w} : ~Preparing(c)
  BY WhoIsWho DEF During, Story, Alone
<1>3. Alone'
  BY <1>1, <1>2, WhoIsWho DEF During, Story, Alone, Preparing, UnderWay
<1>4. ASSUME NEW c \in Calls PROVE CallPlace(c)'
  <2>1. CASE c = w
    BY <2>1
  <2>2. CASE c # w
    <3>1. work'[c] = work[c] /\ CallPlace(c) /\ ~Preparing(c)
      BY <1>1, <1>2, <2>2, WhoIsWho DEF During, Story
    <3>2. UnderWay(c) => request' = request \/ request' \notin Early
      BY <2>2, WhoIsWho DEF During, Story, Alone
    <3>. QED BY <3>1, <3>2 DEF CallPlace, Preparing, UnderWay
  <2>. QED BY <2>1, <2>2
<1>5. ASSUME NEW d \in Deliveries PROVE DeliveryPlace(d)'
  <2>1. CASE d = w
    BY <2>1
  <2>2. CASE d # w
    <3>1. work'[d] = work[d] /\ DeliveryPlace(d) /\ work[d].key \in Owners
      BY <1>1, <2>2, WhoIsWho DEF During, Story, PrivacyTypeOK, Works
    <3>2. /\ Holds(d) => jobs'[work[d].key] = "RUNNING"
          /\ jobs[work[d].key] = "COMPLETED" => jobs'[work[d].key] = "COMPLETED"
          /\ executed[work[d].key] > 0 => executed'[work[d].key] > 0
      BY <2>2, <3>1 DEF During, PrivacyTypeOK
    <3>. QED BY <3>1, <3>2 DEF DeliveryPlace, Holds, UnderWay
  <2>. QED BY <2>1, <2>2
<1>6. OneHolder'
  BY <1>1, WhoIsWho DEF During, Story, OneHolder, Holds
<1>7. Untouched'
  BY <1>1, WhoIsWho DEF During, Story, Untouched
<1>8. DoneInv'
  <2>1. \A k \in Owners : jobs'[k] = "COMPLETED" => executed'[k] > 0
    BY DEF During, Story, DoneInv, PrivacyTypeOK
  <2>2. request' = "COMPLETED" => \E k \in Owners : jobs'[k] = "COMPLETED"
    BY DEF During, Story, DoneInv
  <2>. QED BY <2>1, <2>2 DEF DoneInv
<1>. QED BY <1>3, <1>4, <1>5, <1>6, <1>7, <1>8 DEF Story

\* ... and without touching a row.
LEMMA LooksOn ==
    ASSUME During, NEW w \in Workers, NEW r, Acts(w, r), UnderWay(w),
           UNCHANGED <<request, jobs, executed>>,
           w \in Calls => CallPlace(w)' /\ (Preparing(w)' => Preparing(w)),
           w \in Deliveries => /\ DeliveryPlace(w)' /\ r.key = work[w].key
                               /\ Holds(w)' => Holds(w)
    PROVE  Story'
<1>1. w \in Deliveries => request \notin Early
  BY DEF During, Story, Untouched, UnderWay
<1>2. \A d \in Deliveries : Holds(d) => jobs'[work[d].key] = "RUNNING"
  <2>. SUFFICES ASSUME NEW d \in Deliveries, Holds(d) PROVE jobs'[work[d].key] = "RUNNING"
    OBVIOUS
  <2>1. DeliveryPlace(d)
    BY DEF During, Story
  <2>. QED BY <2>1 DEF DeliveryPlace, Holds, UnderWay
<1>3. \A k \in Owners : executed'[k] >= executed[k]
  BY DEF During, PrivacyTypeOK
<1>4. w \in Deliveries /\ Holds(w)' => \A d \in Deliveries \ {w} : Holds(d) => work[d].key # r.key
  BY DEF During, Story, OneHolder
<1>5. w \in Calls \/ w \in Deliveries
  BY WhoIsWho
<1>. QED BY <1>1, <1>2, <1>3, <1>4, <1>5, MovesOn

\* A worker reads the status and judges the transition.
LEMMA CallReads ==
    ASSUME During, NEW c \in Calls,
           \/ ReadStatus(c, "review", "POLICY_REVIEW", "policy") \/ ReadStatus(c, "reject", "REJECTED", "done")
           \/ ReadStatus(c, "approve", "APPROVED", "find") \/ ReadStatus(c, "queue", "QUEUED", "done")
    PROVE  Story'
<1>. work[c] \in Works /\ request \in Statuses /\ c \in Workers /\ c \notin Deliveries /\ PrivacyTypeOK
  BY WhoIsWho DEF During, PrivacyTypeOK
<1>1. PICK st, to, nx : /\ ReadStatus(c, st, to, nx)
                        /\ <<st, to, nx>> \in {<<"review", "POLICY_REVIEW", "policy">>, <<"reject", "REJECTED", "done">>,
                                               <<"approve", "APPROVED", "find">>, <<"queue", "QUEUED", "done">>}
  OBVIOUS
<1>2. CallPlace(c) /\ work[c].step = st /\ UnderWay(c)
  BY <1>1 DEF During, Story, ReadStatus, At, UnderWay
<1>3. UNCHANGED <<request, jobs, executed>>
  BY <1>1 DEF ReadStatus
<1>4. st # "queue" => Preparing(c)
  BY <1>1, <1>2 DEF Preparing
<1>5. to \in Statuses /\ nx \in Steps
  BY <1>1 DEF Statuses, Steps
<1>6. CASE <<request, to>> \in Transitions
  <2>. DEFINE r == [work[c] EXCEPT !.step = "write", !.to = to, !.next = nx]
  <2>1. r \in Works /\ r.step = "write" /\ r.to = to /\ r.next = nx
    BY <1>5 DEF Works, Steps
  <2>2. Acts(c, r)
    BY <1>1, <1>6, <2>1 DEF Acts, ReadStatus
  <2>. HIDE DEF r
  <2>3. work'[c] = r
    BY <2>2, ActTypes
  <2>4. CallPlace(c)' /\ (Preparing(c)' => Preparing(c))
    BY <1>1, <1>2, <1>3, <1>4, <1>6, <2>1, <2>3 DEF CallPlace, Preparing, Transitions, UnderWay
  <2>. QED BY <1>2, <1>3, <2>2, <2>4, LooksOn
<1>7. CASE <<request, to>> \notin Transitions /\ (request = to \/ request \in Terminal)
  <2>. DEFINE r == Returned(c, nx, request)
  <2>1. r \in Works /\ r.step = nx
    BY <1>5, ReturnedWork
  <2>2. Acts(c, r)
    BY <1>1, <1>7, <2>1 DEF Acts, ReadStatus
  <2>. HIDE DEF r
  <2>3. work'[c] = r
    BY <2>2, ActTypes
  <2>4. nx = "done"
    BY <1>1, <1>2, <1>7 DEF CallPlace, Transitions, UnderWay, Terminal
  <2>5. CallPlace(c)' /\ ~Preparing(c)'
    BY <2>1, <2>3, <2>4 DEF CallPlace, Preparing, UnderWay
  <2>. QED BY <1>2, <1>3, <2>2, <2>5, LooksOn
<1>8. CASE work' = [work EXCEPT ![c] = Thrown(c)]
  <2>1. Thrown(c) = [work[c] EXCEPT !.step = "threw"] /\ Thrown(c) \in Works
    BY ThrownWork DEF Thrown
  <2>2. Acts(c, Thrown(c)) /\ Thrown(c).step = "threw"
    BY <1>8, <2>1 DEF Acts, Works
  <2>3. work'[c].step = "threw"
    BY <2>2, ActTypes
  <2>4. CallPlace(c)' /\ ~Preparing(c)'
    BY <2>3 DEF CallPlace, Preparing, UnderWay
  <2>. QED BY <1>2, <1>3, <2>2, <2>4, LooksOn
<1>. QED BY <1>1, <1>6, <1>7, <1>8 DEF ReadStatus

LEMMA DeliveryReads ==
    ASSUME During, NEW d \in Deliveries,
           \/ ReadStatus(d, "start", "RUNNING", "policy") \/ ReadStatus(d, "fail", "FAILED", "done")
           \/ ReadStatus(d, "finish", "COMPLETED", "done")
    PROVE  Story'
<1>. work[d] \in Works /\ request \in Statuses /\ d \in Workers /\ d \notin Calls /\ PrivacyTypeOK
  BY WhoIsWho DEF During, PrivacyTypeOK
<1>1. PICK st, to, nx : /\ ReadStatus(d, st, to, nx)
                        /\ <<st, to, nx>> \in {<<"start", "RUNNING", "policy">>, <<"fail", "FAILED", "done">>,
                                               <<"finish", "COMPLETED", "done">>}
  OBVIOUS
<1>2. DeliveryPlace(d) /\ work[d].step = st /\ UnderWay(d)
  BY <1>1 DEF During, Story, ReadStatus, At, UnderWay
<1>3. UNCHANGED <<request, jobs, executed>>
  BY <1>1 DEF ReadStatus
<1>4. Holds(d) <=> st = "start"
  BY <1>1, <1>2 DEF Holds
<1>5. to \in Statuses /\ nx \in Steps
  BY <1>1 DEF Statuses, Steps
<1>6. CASE <<request, to>> \in Transitions
  <2>. DEFINE r == [work[d] EXCEPT !.step = "write", !.to = to, !.next = nx]
  <2>1. r \in Works /\ r.step = "write" /\ r.to = to /\ r.next = nx /\ r.key = work[d].key
    BY <1>5 DEF Works, Steps
  <2>2. Acts(d, r)
    BY <1>1, <1>6, <2>1 DEF Acts, ReadStatus
  <2>. HIDE DEF r
  <2>3. work'[d] = r
    BY <2>2, ActTypes
  <2>4. DeliveryPlace(d)' /\ (Holds(d)' => Holds(d))
    BY <1>1, <1>2, <1>3, <1>4, <2>1, <2>3 DEF DeliveryPlace, Holds, UnderWay
  <2>. QED BY <1>2, <1>3, <2>1, <2>2, <2>4, LooksOn
<1>7. CASE work' = [work EXCEPT ![d] = Returned(d, nx, request)]
  <2>. DEFINE r == Returned(d, nx, request)
  <2>1. r \in Works /\ r.step = nx /\ r.key = work[d].key
    BY <1>5, ReturnedWork
  <2>2. Acts(d, r)
    BY <1>7, <2>1 DEF Acts
  <2>. HIDE DEF r
  <2>3. work'[d] = r
    BY <2>2, ActTypes
  <2>4. DeliveryPlace(d)' /\ (Holds(d)' => Holds(d))
    BY <1>1, <1>2, <1>3, <1>4, <2>1, <2>3 DEF DeliveryPlace, Holds, UnderWay
  <2>. QED BY <1>2, <1>3, <2>1, <2>2, <2>4, LooksOn
<1>8. CASE work' = [work EXCEPT ![d] = Thrown(d)]
  <2>1. Thrown(d) \in Works /\ Thrown(d).step \in {"waiting", "threw"} /\ Thrown(d).key = work[d].key
    BY ThrownWork
  <2>2. Acts(d, Thrown(d))
    BY <1>8, <2>1 DEF Acts
  <2>3. work'[d] = Thrown(d)
    BY <2>2, ActTypes
  <2>4. DeliveryPlace(d)' /\ ~Holds(d)'
    BY <2>1, <2>3 DEF DeliveryPlace, Holds, UnderWay
  <2>. QED BY <1>2, <1>3, <2>1, <2>2, <2>4, LooksOn
<1>. QED BY <1>1, <1>6, <1>7, <1>8 DEF ReadStatus

\* A worker fails: it is gone, or waits for its next attempt.
LEMMA FailStory ==
    ASSUME During, NEW w \in Workers, Fail(w)
    PROVE  Story'
<1>1. Thrown(w) \in Works /\ Thrown(w).step \in {"waiting", "threw"} /\ Thrown(w).key = work[w].key
  BY ThrownWork DEF During
<1>2. w \in Calls => Thrown(w).step = "threw"
  <2>1. w \in Calls => Thrown(w) = [work[w] EXCEPT !.step = "threw"] /\ work[w] \in Works
    BY DEF Thrown, During, PrivacyTypeOK
  <2>. QED BY <2>1 DEF Works
<1>3. Acts(w, Thrown(w)) /\ UnderWay(w) /\ UNCHANGED <<request, jobs, executed>>
  BY <1>1 DEF Acts, Fail
<1>4. work'[w] = Thrown(w)
  BY <1>3, ActTypes DEF During
<1>5. w \in Calls => CallPlace(w)' /\ ~Preparing(w)'
  BY <1>2, <1>4 DEF CallPlace, Preparing, UnderWay
<1>6. w \in Deliveries => DeliveryPlace(w)' /\ ~Holds(w)'
  BY <1>1, <1>4 DEF DeliveryPlace, Holds, UnderWay
<1>. QED BY <1>1, <1>3, <1>5, <1>6, LooksOn

\* A worker writes the status it has judged.
LEMMA CallWrites ==
    ASSUME During, NEW c \in Calls, WriteStatus(c)
    PROVE  Story'
<1>. work[c] \in Works /\ c \in Workers /\ c \notin Deliveries /\ PrivacyTypeOK
  BY WhoIsWho DEF During, PrivacyTypeOK
<1>. DEFINE to == work[c].to
            nx == work[c].next
            r == Returned(c, nx, to)
<1>1. /\ CallPlace(c) /\ work[c].step = "write" /\ UnderWay(c)
      /\ request' = to /\ UNCHANGED <<jobs, executed>>
  BY DEF During, Story, WriteStatus, At, UnderWay
<1>2. \/ to = "POLICY_REVIEW" /\ nx = "policy" /\ request = "OPEN"
      \/ to = "REJECTED" /\ nx = "done" /\ request = "POLICY_REVIEW"
      \/ to = "APPROVED" /\ nx = "find" /\ request = "POLICY_REVIEW"
      \/ to = "QUEUED" /\ nx = "done" /\ request \notin Early
  BY <1>1 DEF CallPlace
<1>3. r \in Works /\ r.step = nx /\ r.saw = to
  <2>1. nx \in Steps /\ to \in Statuses
    BY DEF Works
  <2>2. r \in Works /\ r.step = nx
    BY <2>1, ReturnedWork
  <2>3. r = [Idle EXCEPT !.step = nx, !.saw = to, !.key = owner]
    BY DEF Returned
  <2>. QED BY <2>2, <2>3 DEF Idle
<1>4. Acts(c, r)
  BY <1>3 DEF Acts, WriteStatus
<1>. HIDE DEF r
<1>5. work'[c] = r
  BY <1>4, ActTypes
<1>6. CallPlace(c)'
  BY <1>1, <1>2, <1>3, <1>5 DEF CallPlace, UnderWay
<1>7. Preparing(c)' => Preparing(c)
  BY <1>1, <1>2, <1>3, <1>5 DEF Preparing
<1>8. \A d \in Deliveries \ {c} : Holds(d) => jobs'[work[d].key] = "RUNNING"
  <2>. SUFFICES ASSUME NEW d \in Deliveries, Holds(d) PROVE jobs'[work[d].key] = "RUNNING"
    OBVIOUS
  <2>1. DeliveryPlace(d)
    BY DEF During, Story
  <2>. QED BY <1>1, <2>1 DEF DeliveryPlace, Holds, UnderWay
<1>9. request' \notin Early \/ Preparing(c)
  BY <1>1, <1>2 DEF Early, Preparing
<1>10. \A k \in Owners : executed'[k] >= executed[k]
  BY <1>1 DEF PrivacyTypeOK
<1>11. (request' \in Early => request \in Early) /\ request' # "COMPLETED"
  BY <1>1, <1>2 DEF Early
<1>. QED BY <1>1, <1>4, <1>6, <1>7, <1>8, <1>9, <1>10, <1>11, MovesOn

LEMMA DeliveryWrites ==
    ASSUME During, NEW d \in Deliveries, WriteStatus(d)
    PROVE  Story'
<1>. work[d] \in Works /\ d \in Workers /\ d \notin Calls /\ PrivacyTypeOK
  BY WhoIsWho DEF During, PrivacyTypeOK
<1>. DEFINE to == work[d].to
            nx == work[d].next
            r == Returned(d, nx, to)
<1>1. /\ DeliveryPlace(d) /\ work[d].step = "write" /\ UnderWay(d)
      /\ request' = to /\ UNCHANGED <<jobs, executed>>
  BY DEF During, Story, WriteStatus, At, UnderWay
<1>2. \/ to = "RUNNING" /\ nx = "policy" /\ Holds(d) /\ jobs[work[d].key] = "RUNNING"
      \/ to = "FAILED" /\ nx = "done"
      \/ to = "COMPLETED" /\ nx = "done" /\ jobs[work[d].key] = "COMPLETED"
  BY <1>1 DEF DeliveryPlace, Holds
<1>3. r \in Works /\ r.step = nx /\ r.key = work[d].key
  <2>1. nx \in Steps /\ to \in Statuses
    BY DEF Works
  <2>. QED BY <2>1, ReturnedWork
<1>4. Acts(d, r)
  BY <1>3 DEF Acts, WriteStatus
<1>. HIDE DEF r
<1>5. work'[d] = r
  BY <1>4, ActTypes
<1>6. DeliveryPlace(d)' /\ (Holds(d)' => Holds(d))
  BY <1>1, <1>2, <1>3, <1>5 DEF DeliveryPlace, Holds, UnderWay
<1>7. \A e \in Deliveries \ {d} : Holds(e) => jobs'[work[e].key] = "RUNNING"
  <2>. SUFFICES ASSUME NEW e \in Deliveries, Holds(e) PROVE jobs'[work[e].key] = "RUNNING"
    OBVIOUS
  <2>1. DeliveryPlace(e)
    BY DEF During, Story
  <2>. QED BY <1>1, <2>1 DEF DeliveryPlace, Holds, UnderWay
<1>8. Holds(d)' => \A e \in Deliveries \ {d} : Holds(e) => work[e].key # r.key
  BY <1>3, <1>6 DEF During, Story, OneHolder
<1>9. request' \notin Early /\ \A k \in Owners : executed'[k] >= executed[k]
  BY <1>1, <1>2 DEF Early, PrivacyTypeOK
<1>10. request' = "COMPLETED" => \E k \in Owners : jobs'[k] = "COMPLETED"
  BY <1>1, <1>2 DEF Works
<1>. QED BY <1>1, <1>4, <1>6, <1>7, <1>8, <1>9, <1>10, MovesOn

\* A call judges its request, or looks for its job.
LEMMA CallGoes ==
    ASSUME During, Apart, NEW s \in Submissions, JudgeCall(s) \/ FindJob(s)
    PROVE  Story'
<1>. DEFINE c == Call(s)
<1>. work[c] \in Works /\ c \in Calls /\ c \in Workers /\ c \notin Deliveries /\ PrivacyTypeOK
  BY WhoIsWho DEF During, PrivacyTypeOK
<1>1. CallPlace(c) /\ UnderWay(c) /\ Preparing(c) /\ UNCHANGED <<request, jobs, executed>>
  BY DEF During, Story, JudgeCall, FindJob, At, UnderWay, Preparing
<1>2. \E st \in {"reject", "approve", "find", "queue", "create", "reset"} :
         /\ Goes(c, st)
         /\ st = "approve" => request = "POLICY_REVIEW"
         /\ st = "reject" => request \in {"POLICY_REVIEW", "APPROVED", "FAILED"}
         /\ st \in {"find", "queue", "create", "reset"} => request \in {"APPROVED", "FAILED"}
         /\ st = "create" => jobs[work[c].key] = "NONE"
         /\ st = "reset" => jobs[work[c].key] = "FAILED"
  <2>1. CASE JudgeCall(s)
    <3>1. work[c].step = "policy" /\ request = work[c].saw /\ request \in {"POLICY_REVIEW", "APPROVED", "FAILED"}
      BY <1>1, <2>1 DEF JudgeCall, At, CallPlace
    <3>2. CASE held
      BY <2>1, <3>1, <3>2 DEF JudgeCall, Goes, Apart
    <3>3. CASE ~held /\ request = "POLICY_REVIEW"
      BY <2>1, <3>1, <3>3 DEF JudgeCall, Goes, Apart
    <3>4. CASE ~held /\ request # "POLICY_REVIEW"
      BY <2>1, <3>1, <3>4 DEF JudgeCall, Goes, Apart
    <3>. QED BY <3>2, <3>3, <3>4
  <2>2. CASE FindJob(s)
    <3>1. work[c].step = "find" /\ request \in {"APPROVED", "FAILED"}
      BY <1>1, <2>2 DEF FindJob, At, CallPlace, UnderWay
    <3>2. jobs[work[c].key] \in JobStatuses
      BY DEF Works, PrivacyTypeOK
    <3>3. CASE Kept(work[c].key)
      BY <2>2, <3>1, <3>3 DEF FindJob
    <3>4. CASE jobs[work[c].key] = "NONE"
      BY <2>2, <3>1, <3>4 DEF FindJob, Kept
    <3>5. CASE jobs[work[c].key] = "FAILED"
      BY <2>2, <3>1, <3>5 DEF FindJob, Kept
    <3>. QED BY <3>2, <3>3, <3>4, <3>5 DEF JobStatuses, Kept
  <2>. QED BY <2>1, <2>2
<1>3. PICK st \in {"reject", "approve", "find", "queue", "create", "reset"} :
         /\ Goes(c, st)
         /\ st = "approve" => request = "POLICY_REVIEW"
         /\ st = "reject" => request \in {"POLICY_REVIEW", "APPROVED", "FAILED"}
         /\ st \in {"find", "queue", "create", "reset"} => request \in {"APPROVED", "FAILED"}
         /\ st = "create" => jobs[work[c].key] = "NONE"
         /\ st = "reset" => jobs[work[c].key] = "FAILED"
  BY <1>2
<1>. DEFINE r == [work[c] EXCEPT !.step = st]
<1>4. r \in Works /\ r.step = st /\ r.key = work[c].key
  <2>1. st \in Steps
    BY DEF Steps
  <2>. QED BY <2>1, NextStepWork
<1>5. Acts(c, r)
  BY <1>3, <1>4 DEF Acts, Goes
<1>. HIDE DEF r, c
<1>6. work'[c] = r
  BY <1>5, ActTypes
<1>7. CallPlace(c)'
  BY <1>1, <1>3, <1>4, <1>6 DEF CallPlace, Early
<1>. QED BY <1>1, <1>5, <1>7, LooksOn

\* A call queues its job: nobody else is under way.
LEMMA CallQueues ==
    ASSUME During, NEW s \in Submissions, CreateJob(s) \/ ResetJob(s)
    PROVE  Story'
<1>. DEFINE c == Call(s)
            k == work[c].key
            r == [work[c] EXCEPT !.step = "enqueue"]
<1>. work[c] \in Works /\ c \in Calls /\ c \in Workers /\ c \notin Deliveries /\ PrivacyTypeOK
  BY WhoIsWho DEF During, PrivacyTypeOK
<1>1. /\ CallPlace(c) /\ work[c].step \in {"create", "reset"}
      /\ UnderWay(c) /\ Preparing(c) /\ UNCHANGED <<request, executed>>
  BY DEF During, Story, CreateJob, ResetJob, At, UnderWay, Preparing
<1>2. request \in {"APPROVED", "FAILED"} /\ jobs[k] \in {"NONE", "FAILED"} /\ k \in Owners
  BY <1>1 DEF CallPlace, Works
<1>3. SetQueued(k) /\ Goes(c, "enqueue")
  <2>1. work[c].step = "create" => jobs[k] = "NONE"
    BY <1>1 DEF CallPlace
  <2>. QED BY <1>1, <2>1 DEF CreateJob, ResetJob, At
<1>4. r \in Works /\ r.step = "enqueue"
  <2>1. "enqueue" \in Steps
    BY DEF Steps
  <2>. QED BY <2>1, NextStepWork
<1>5. Acts(c, r)
  BY <1>3, <1>4 DEF Acts, Goes
<1>6. \A d \in Deliveries : ~Holds(d)
  BY <1>1, WhoIsWho DEF During, Story, Alone, UnderWay, Holds
<1>7. \A j \in Owners : /\ jobs[j] = "COMPLETED" => jobs'[j] = "COMPLETED"
                        /\ executed'[j] >= executed[j]
                        /\ jobs'[j] = "COMPLETED" => jobs[j] = "COMPLETED"
  BY <1>1, <1>2, <1>3 DEF SetQueued, PrivacyTypeOK
<1>. HIDE DEF r, c
<1>8. work'[c] = r
  BY <1>5, ActTypes
<1>9. CallPlace(c)'
  BY <1>1, <1>2, <1>4, <1>8 DEF CallPlace
<1>10. request' \notin Early
  BY <1>1, <1>2 DEF Early
<1>. QED BY <1>1, <1>5, <1>6, <1>7, <1>9, <1>10, MovesOn

\* What Enqueue does to the workers, when no other one is under way.
LEMMA EnqueueWork ==
    ASSUME PrivacyTypeOK, NEW s \in Submissions, Enqueue(s)
    PROVE  LET c == Call(s)
               k == work[c].key
               delivery(n) == [Idle EXCEPT !.step = "waiting", !.key = k, !.left = n] IN
           /\ k \in Owners /\ c # Inline(s) /\ c # Queued(k) /\ Inline(s) # Queued(k)
           /\ work'[c] = [work[c] EXCEPT !.step = "queue"]
           /\ work'[Inline(s)] = delivery(1)
           /\ work'[Queued(k)] = IF At(Queued(k), "idle") THEN delivery(Attempts) ELSE work[Queued(k)]
           /\ \A v \in Workers \ {c, Inline(s), Queued(k)} : work'[v] = work[v]
<1>1. PICK k \in Owners : k = work[Call(s)].key
  BY WhoIsWho DEF PrivacyTypeOK, Works
<1>2. /\ Call(s) \in Workers /\ Inline(s) \in Workers /\ Queued(k) \in Workers
      /\ Call(s) # Inline(s) /\ Call(s) # Queued(k) /\ Inline(s) # Queued(k)
  BY WhoIsWho DEF Call, Inline, Queued
<1>3. work \in [Workers -> Works]
  BY DEF PrivacyTypeOK
<1>. DEFINE delivery(n) == [Idle EXCEPT !.step = "waiting", !.key = k, !.left = n]
            queued == IF work[Queued(k)].step = "idle" THEN delivery(Attempts) ELSE work[Queued(k)]
            going == [work[Call(s)] EXCEPT !.step = "queue"]
<1>4. work' = [work EXCEPT ![Call(s)] = going, ![Inline(s)] = delivery(1), ![Queued(k)] = queued]
  BY <1>1, <1>2 DEF Enqueue
<1>. HIDE DEF delivery, queued, going
<1>5. /\ work'[Call(s)] = going /\ work'[Inline(s)] = delivery(1) /\ work'[Queued(k)] = queued
      /\ \A v \in Workers \ {Call(s), Inline(s), Queued(k)} : work'[v] = work[v]
  BY <1>2, <1>3, <1>4
<1>. QED BY <1>1, <1>2, <1>5 DEF delivery, queued, going, At

LEMMA CallEnqueues ==
    ASSUME During, NEW s \in Submissions, Enqueue(s)
    PROVE  Story'
<1>. DEFINE c == Call(s)
<1>. work[c] \in Works /\ c \in Calls /\ c \in Workers /\ c \notin Deliveries /\ PrivacyTypeOK
  BY WhoIsWho DEF During, PrivacyTypeOK
<1>1. CallPlace(c) /\ UnderWay(c) /\ Preparing(c) /\ UNCHANGED <<request, jobs, executed>>
  BY DEF During, Story, Enqueue, At, UnderWay, Preparing
<1>2. request \in {"APPROVED", "FAILED"}
  BY <1>1 DEF CallPlace, Enqueue, At
<1>3. work'[c].step = "queue"
  <2>1. work'[c] = [work[c] EXCEPT !.step = "queue"]
    BY EnqueueWork, Zenon
  <2>. QED BY <2>1 DEF Works
<1>4. \A e \in Calls \ {c} : work'[e] = work[e] /\ ~UnderWay(e)
  <2>1. PICK k \in Owners : k = work[c].key
    BY EnqueueWork, Zenon
  <2>2. \A e \in Calls \ {c} : e \in Workers \ {c, Inline(s), Queued(k)}
    BY WhoIsWho
  <2>3. \A e \in Calls \ {c} : work'[e] = work[e]
    BY <2>1, <2>2, EnqueueWork, Zenon
  <2>4. \A e \in Calls \ {c} : ~UnderWay(e)
    BY <1>1, <2>2 DEF During, Story, Alone
  <2>. QED BY <2>3, <2>4
<1>5. \A d \in Deliveries : (work'[d] = work[d] /\ ~UnderWay(d)) \/ work'[d].step = "waiting"
  <2>1. \A n \in {1, Attempts} : [Idle EXCEPT !.step = "waiting", !.key = work[c].key, !.left = n].step = "waiting"
    BY DEF Idle
  <2>2. \A d \in Deliveries : work'[d] = work[d] \/ work'[d].step = "waiting"
    BY <2>1, EnqueueWork, WhoIsWho, Zenon
  <2>3. \A d \in Deliveries : ~UnderWay(d)
    BY <1>1, WhoIsWho DEF During, Story, Alone
  <2>. QED BY <2>2, <2>3
<1>6. Alone'
  BY <1>3, <1>4 DEF Alone, Preparing, UnderWay
<1>7. \A e \in Calls : CallPlace(e)'
  BY <1>1, <1>2, <1>3, <1>4 DEF CallPlace, UnderWay, Early
<1>8. \A d \in Deliveries : DeliveryPlace(d)' /\ ~Holds(d)'
  BY <1>5 DEF DeliveryPlace, UnderWay, Holds
<1>9. OneHolder' /\ Untouched'
  BY <1>1, <1>2, <1>8 DEF OneHolder, Untouched, Early
<1>10. DoneInv'
  BY <1>1 DEF During, Story, DoneInv
<1>. QED BY <1>6, <1>7, <1>8, <1>9, <1>10 DEF Story

\* A delivery claims its job: nobody holds a job that can be claimed.
LEMMA DeliveryClaims ==
    ASSUME During, NEW d \in Deliveries, Claim(d)
    PROVE  Story'
<1>. work[d] \in Works /\ d \in Workers /\ d \notin Calls /\ PrivacyTypeOK
  BY WhoIsWho DEF During, PrivacyTypeOK
<1>1. PICK k \in Owners : k = work[d].key
  BY DEF Works
<1>2. work[d].step = "waiting" /\ UnderWay(d) /\ UNCHANGED <<request, executed>>
  BY DEF Claim, At, UnderWay
<1>3. request \notin Early
  BY <1>2 DEF During, Story, Untouched
<1>4. PICK st \in {"start", "done"} : /\ Goes(d, st)
                                      /\ st = "start" => Claimable(jobs[k]) /\ jobs' = [jobs EXCEPT ![k] = "RUNNING"]
                                      /\ st = "done" => jobs' = jobs
  <2>1. CASE Claimable(jobs[k])
    BY <1>1, <2>1 DEF Claim
  <2>2. CASE ~Claimable(jobs[k])
    BY <1>1, <2>2 DEF Claim
  <2>. QED BY <2>1, <2>2
<1>. DEFINE r == [work[d] EXCEPT !.step = st]
<1>5. r \in Works /\ r.step = st /\ r.key = k
  <2>1. st \in Steps
    BY DEF Steps
  <2>. QED BY <1>1, <2>1, NextStepWork
<1>6. Acts(d, r)
  BY <1>4, <1>5 DEF Acts, Goes
<1>. HIDE DEF r
<1>7. work'[d] = r
  BY <1>6, ActTypes
<1>8. DeliveryPlace(d)'
  BY <1>4, <1>5, <1>7 DEF DeliveryPlace, Holds, UnderWay, PrivacyTypeOK
<1>9. \A e \in Deliveries : Holds(e) => jobs[work[e].key] = "RUNNING"
  BY DEF During, Story, DeliveryPlace, Holds, UnderWay
<1>10. st = "start" => \A e \in Deliveries \ {d} : Holds(e) => work[e].key # k
  BY <1>4, <1>9 DEF Claimable
<1>11. \A e \in Deliveries \ {d} : Holds(e) => jobs'[work[e].key] = "RUNNING"
  <2>1. \A e \in Deliveries : work[e].key \in Owners
    BY WhoIsWho DEF PrivacyTypeOK, Works
  <2>. QED BY <1>4, <1>9, <2>1 DEF PrivacyTypeOK
<1>12. Holds(d)' => st = "start"
  BY <1>5, <1>7 DEF Holds
<1>13. \A j \in Owners : /\ jobs[j] = "COMPLETED" => jobs'[j] = "COMPLETED"
                         /\ executed'[j] >= executed[j]
                         /\ jobs'[j] = "COMPLETED" => jobs[j] = "COMPLETED"
  BY <1>2, <1>4 DEF PrivacyTypeOK, Claimable
<1>. QED BY <1>2, <1>3, <1>5, <1>6, <1>8, <1>10, <1>11, <1>12, <1>13, MovesOn

\* The holder of a job judges, refuses, executes or completes it.
LEMMA HolderActs ==
    ASSUME During, NEW d \in Deliveries,
           \/ JudgeDelivery(d) \/ WriteJob(d, "refuse", "FAILED", "fail")
           \/ Execute(d) \/ WriteJob(d, "complete", "COMPLETED", "finish")
    PROVE  Story'
<1>. work[d] \in Works /\ d \in Workers /\ d \notin Calls /\ PrivacyTypeOK
  BY WhoIsWho DEF During, PrivacyTypeOK
<1>1. PICK k \in Owners : k = work[d].key
  BY DEF Works
<1>2. /\ work[d].step \in {"policy", "refuse", "execute", "complete"} /\ UnderWay(d) /\ Holds(d)
      /\ DeliveryPlace(d) /\ request' = request
  BY DEF During, Story, JudgeDelivery, WriteJob, Execute, At, UnderWay, Holds
<1>3. /\ jobs[k] = "RUNNING" /\ request \notin Early
      /\ work[d].step = "complete" => executed[k] > 0
  BY <1>1, <1>2 DEF DeliveryPlace, During, Story, Untouched
<1>4. PICK st \in {"refuse", "execute", "fail", "complete", "finish"} :
         /\ Goes(d, st)
         /\ st \in {"refuse", "execute"} => jobs' = jobs /\ executed' = executed
         /\ st = "fail" => jobs' = [jobs EXCEPT ![k] = "FAILED"] /\ executed' = executed
         /\ st = "complete" => jobs' = jobs /\ executed' = [executed EXCEPT ![k] = @ + 1]
         /\ st = "finish" => /\ jobs' = [jobs EXCEPT ![k] = "COMPLETED"] /\ executed' = executed
                             /\ executed[k] > 0
  <2>1. CASE JudgeDelivery(d)
    BY <2>1 DEF JudgeDelivery
  <2>2. CASE WriteJob(d, "refuse", "FAILED", "fail")
    BY <1>1, <2>2 DEF WriteJob
  <2>3. CASE Execute(d)
    BY <1>1, <2>3 DEF Execute
  <2>4. CASE WriteJob(d, "complete", "COMPLETED", "finish")
    BY <1>1, <1>3, <2>4 DEF WriteJob, At
  <2>. QED BY <2>1, <2>2, <2>3, <2>4
<1>. DEFINE r == [work[d] EXCEPT !.step = st]
<1>5. r \in Works /\ r.step = st /\ r.key = k
  <2>1. st \in Steps
    BY DEF Steps
  <2>. QED BY <1>1, <2>1, NextStepWork
<1>6. Acts(d, r)
  BY <1>4, <1>5 DEF Acts, Goes
<1>. HIDE DEF r
<1>7. work'[d] = r
  BY <1>6, ActTypes
<1>8. /\ executed[k] \in Nat /\ \A j \in Owners : executed'[j] >= executed[j]
      /\ st = "complete" => executed'[k] > 0
  <2>1. \A j \in Owners : executed[j] \in Nat
    BY DEF PrivacyTypeOK
  <2>2. CASE st = "complete"
    <3>1. executed' = [executed EXCEPT ![k] = @ + 1] /\ executed \in [Owners -> Nat]
      BY <1>4, <2>2 DEF PrivacyTypeOK
    <3>. QED BY <2>1, <3>1
  <2>3. CASE st # "complete"
    <3>1. executed' = executed
      BY <1>4, <2>3
    <3>. QED BY <2>1, <2>3, <3>1
  <2>. QED BY <2>1, <2>2, <2>3
<1>9. DeliveryPlace(d)'
  <2>1. st \in {"refuse", "execute", "complete"} => jobs'[k] = "RUNNING"
    BY <1>3, <1>4
  <2>2. st = "finish" => jobs'[k] = "COMPLETED"
    BY <1>4 DEF PrivacyTypeOK
  <2>. QED BY <1>5, <1>7, <1>8, <2>1, <2>2 DEF DeliveryPlace, Holds, UnderWay
<1>10. \A e \in Deliveries \ {d} : Holds(e) => work[e].key # k /\ work[e].key \in Owners
  BY <1>1, <1>2, WhoIsWho DEF During, Story, OneHolder, PrivacyTypeOK, Works
<1>11. \A e \in Deliveries \ {d} : Holds(e) => jobs'[work[e].key] = "RUNNING"
  <2>1. \A e \in Deliveries : Holds(e) => jobs[work[e].key] = "RUNNING"
    BY DEF During, Story, DeliveryPlace, Holds, UnderWay
  <2>2. \A j \in Owners \ {k} : jobs'[j] = jobs[j]
    BY <1>4 DEF PrivacyTypeOK
  <2>. QED BY <1>10, <2>1, <2>2
<1>12. \A j \in Owners : /\ jobs[j] = "COMPLETED" => jobs'[j] = "COMPLETED"
                         /\ jobs'[j] = "COMPLETED" => jobs[j] = "COMPLETED" \/ executed'[j] > 0
  BY <1>3, <1>4 DEF PrivacyTypeOK
<1>. QED BY <1>2, <1>3, <1>5, <1>6, <1>8, <1>9, <1>10, <1>11, <1>12, MovesOn

\* A call begins: the ones before it and their jobs are at rest.
LEMMA CallBegins ==
    ASSUME During, Apart, Apart', NEW s \in Submissions, Submit(s)
    PROVE  Story'
<1>. DEFINE c == Call(s)
<1>. c \in Calls /\ c \in Workers /\ c \notin Deliveries /\ PrivacyTypeOK /\ request \in Statuses
  BY WhoIsWho DEF During, PrivacyTypeOK
<1>1. \A w \in Workers : ~UnderWay(w)
  BY DEF Submit, Apart
<1>2. UNCHANGED <<jobs, executed>> /\ kind # "data_access"
  BY DEF Submit, Apart
<1>3. PICK st \in {"review", "policy", "done"}, status \in Statuses :
         /\ work' = [work EXCEPT ![c] = Returned(c, st, status)]
         /\ request' = status
         /\ request' = request \/ (request = "NONE" /\ request' = "OPEN")
         /\ st = "review" => status = "OPEN"
         /\ st = "policy" => status \in {"POLICY_REVIEW", "APPROVED", "FAILED"}
  <2>1. CASE request = "NONE"
    <3>1. request' = "OPEN" /\ work' = [work EXCEPT ![c] = Returned(c, "review", "OPEN")]
      BY <1>2, <2>1 DEF Submit
    <3>. QED BY <2>1, <3>1 DEF Statuses
  <2>2. CASE request # "NONE"
    <3>1. request' = request /\ work' = [work EXCEPT ![c] = Returned(c, Resumes(request), request)]
      BY <2>2 DEF Submit
    <3>2. /\ Resumes(request) \in {"review", "policy", "done"}
          /\ Resumes(request) = "review" => request = "OPEN"
          /\ Resumes(request) = "policy" => request \in {"POLICY_REVIEW", "APPROVED", "FAILED"}
      BY <1>2 DEF Resumes
    <3>. QED BY <3>1, <3>2
  <2>. QED BY <2>1, <2>2
<1>. DEFINE r == Returned(c, st, status)
<1>4. r \in Works /\ r.step = st /\ r.saw = status
  <2>1. st \in Steps
    BY DEF Steps
  <2>2. r = [Idle EXCEPT !.step = st, !.saw = status, !.key = owner]
    BY DEF Returned
  <2>. QED BY <2>1, <2>2, ReturnedWork DEF Idle
<1>5. Acts(c, r)
  BY <1>3, <1>4 DEF Acts
<1>. HIDE DEF r
<1>6. work'[c] = r /\ \A v \in Workers \ {c} : work'[v] = work[v]
  BY <1>5, ActTypes
<1>7. \A v \in Workers \ {c} : ~UnderWay(v)'
  BY <1>1, <1>6 DEF UnderWay
<1>8. Alone'
  BY <1>6, <1>7, WhoIsWho DEF Alone, Preparing, UnderWay
<1>9. \A e \in Calls : CallPlace(e)'
  <2>1. CallPlace(c)'
    BY <1>3, <1>4, <1>6 DEF CallPlace, UnderWay
  <2>2. \A e \in Calls \ {c} : CallPlace(e)'
    BY <1>7, WhoIsWho DEF CallPlace
  <2>. QED BY <2>1, <2>2
<1>10. \A d \in Deliveries : DeliveryPlace(d)' /\ ~Holds(d)'
  BY <1>7, WhoIsWho DEF DeliveryPlace, UnderWay, Holds
<1>11. OneHolder'
  BY <1>10 DEF OneHolder
<1>12. Untouched'
  BY <1>2, <1>3, <1>6, WhoIsWho DEF During, Story, Untouched, Early
<1>13. DoneInv'
  BY <1>2, <1>3 DEF During, Story, DoneInv
<1>. QED BY <1>8, <1>9, <1>10, <1>11, <1>12, <1>13 DEF Story

\* No step changes the kind of the request or forgets that calls overlapped.
LEMMA ApartBefore == [PrivacyNext]_privacyVars => kind' = kind /\ (overlapped => overlapped')
<1>. SUFFICES ASSUME [PrivacyNext]_privacyVars PROVE kind' = kind /\ (overlapped => overlapped')
  OBVIOUS
<1>1. ASSUME NEW s \in Submissions, Submit(s) PROVE kind' = kind /\ (overlapped => overlapped')
  BY <1>1 DEF Submit
<1>2. ASSUME NEW s \in Submissions, CallStep(s) PROVE UNCHANGED <<kind, overlapped>>
  BY <1>2 DEF CallStep, ReadStatus, WriteStatus, JudgeCall, FindJob, CreateJob, ResetJob, Enqueue
<1>3. ASSUME NEW d \in Deliveries, DeliveryStep(d) PROVE UNCHANGED <<kind, overlapped>>
  BY <1>3 DEF DeliveryStep, ReadStatus, WriteStatus, Claim, JudgeDelivery, WriteJob, Execute
<1>4. CASE SetHold \/ (\E w \in Workers : Fail(w)) \/ UNCHANGED privacyVars
  BY <1>4 DEF SetHold, Fail, privacyVars
<1>. QED BY <1>1, <1>2, <1>3, <1>4 DEF PrivacyNext

LEMMA StoryStep == ApartInv /\ PrivacyTypeOK /\ PrivacyTypeOK' /\ [PrivacyNext]_privacyVars => ApartInv'
<1>. SUFFICES ASSUME ApartInv, PrivacyTypeOK, PrivacyTypeOK', [PrivacyNext]_privacyVars, Apart'
              PROVE  Story'
  BY DEF ApartInv
<1>1. Apart
  BY ApartBefore DEF Apart
<1>2. During
  BY <1>1 DEF During, ApartInv
<1>3. ASSUME NEW s \in Submissions, Submit(s) \/ CallStep(s) PROVE Story'
  <2>1. Call(s) \in Calls
    BY WhoIsWho
  <2>. QED BY <1>1, <1>2, <1>3, <2>1, CallBegins, CallReads, CallWrites, CallGoes, CallQueues, CallEnqueues
           DEF CallStep
<1>4. ASSUME NEW d \in Deliveries, DeliveryStep(d) PROVE Story'
  BY <1>2, <1>4, DeliveryReads, DeliveryWrites, DeliveryClaims, HolderActs DEF DeliveryStep
<1>5. ASSUME NEW w \in Workers, Fail(w) PROVE Story'
  BY <1>2, <1>5, FailStory
<1>6. CASE SetHold \/ UNCHANGED privacyVars
  <2>1. UNCHANGED <<request, jobs, work, executed>>
    BY <1>6 DEF SetHold, privacyVars
  <2>. QED BY <1>2, <2>1 DEF During, Story, Alone, Preparing, UnderWay, CallPlace, DeliveryPlace, Holds,
                             OneHolder, Untouched, DoneInv
<1>. QED BY <1>3, <1>4, <1>5, <1>6 DEF PrivacyNext

\* As long as the calls come one after the other, a step of one worker never
\* finds a row that another one has changed since it was read.
THEOREM CallsAndJobsTellOneStory == PrivacySpec => []ApartInv
<1>1. PrivacyInit => ApartInv
  <2>. SUFFICES ASSUME PrivacyInit PROVE Story
    BY DEF ApartInv
  <2>1. \A w \in Workers : work[w].step = "idle"
    BY DEF PrivacyInit, Idle
  <2>2. Alone /\ (\A c \in Calls : CallPlace(c)) /\ (\A d \in Deliveries : DeliveryPlace(d)) /\ OneHolder
    BY <2>1, WhoIsWho DEF Alone, Preparing, UnderWay, CallPlace, DeliveryPlace, OneHolder, Holds
  <2>3. Untouched /\ DoneInv
    BY <2>1, WhoIsWho DEF PrivacyInit, Untouched, DoneInv
  <2>. QED BY <2>2, <2>3 DEF Story
<1>. QED BY <1>1, StoryStep, PrivacyTypes, PTL DEF PrivacySpec

\* A refused request was never acted on and a completed one was, for any number of
\* calls one after the other, copies of their jobs, retries, holds and failures.
THEOREM VerdictsStand == PrivacySpec => []VerdictsAreKept
<1>1. ApartInv => VerdictsAreKept
  <2>1. Story => /\ request = "REJECTED" => \A k \in Owners : executed[k] = 0
                 /\ request = "COMPLETED" => \E k \in Owners : executed[k] > 0 /\ jobs[k] = "COMPLETED"
    BY DEF Story, Untouched, DoneInv, Early
  <2>. QED BY <2>1 DEF ApartInv, Apart, VerdictsAreKept
<1>. QED BY <1>1, CallsAndJobsTellOneStory, PTL

-----------------------------------------------------------------------------
(* Rest: a request submitted once is closed when everything has come to rest. *)

\* A call that has handed its job over, or is gone.
Past(c) ==
    \/ work[c].step \in {"queue", "done", "threw"}
    \/ At(c, "write") /\ work[c].to = "QUEUED"

\* Calls that overlap are several; an inline copy has one attempt; deliveries
\* follow their calls.
OnTime ==
    /\ overlapped => Resubmitted
    /\ \A s \in Submissions : /\ work[Inline(s)].left <= 1
                              /\ ~At(Inline(s), "idle") => Past(Call(s))
    /\ \A k \in Owners : /\ At(Queued(k), "idle") => work[Queued(k)].left = 0
                         /\ ~At(Queued(k), "idle") => \E c \in Calls : ~At(c, "idle")
    /\ \A c \in Calls : At(c, "write") => /\ work[c].next \in {"policy", "find", "done"}
                                          /\ work[c].to = "QUEUED" => work[c].next = "done"

\* One call, and nothing stumbled.
Solo == ~Resubmitted /\ ~Stumbled

Unborn ==
    /\ request # "NONE" => \E c \in Calls : ~At(c, "idle")
    /\ request = "NONE" => /\ \A d \in Deliveries : At(d, "idle")
                           /\ owner = Person /\ \A k \in Owners : jobs[k] = "NONE"

\* A data-access request is closed by its call.
AccessPlace(c) ==
    \/ At(c, "idle") \/ At(c, "policy")
    \/ At(c, "write") /\ work[c].to \in {"REJECTED", "COMPLETED"} /\ work[c].next = "done"
    \/ At(c, "done") /\ request \in Terminal

SoloAccess ==
    /\ \A c \in Calls : AccessPlace(c)
    /\ \A d \in Deliveries : At(d, "idle")

\* The call has handed its job over and has not said so in the request.
Waits(c) == At(c, "queue") \/ (At(c, "write") /\ work[c].to = "QUEUED")

SoloPlace(c) ==
    /\ Preparing(c) => /\ owner = Person /\ work[c].key = Person
                       /\ \A d \in Deliveries : At(d, "idle")
                       /\ request \in {"OPEN", "POLICY_REVIEW", "APPROVED"}
                       /\ ~At(c, "reset")
                       /\ jobs[Person] = IF At(c, "enqueue") THEN "QUEUED" ELSE "NONE"
    /\ Waits(c) => /\ request = "APPROVED" /\ jobs[Person] \in {"QUEUED", "RUNNING"}
                   /\ \A d \in Deliveries : work[d].step \in {"idle", "waiting", "start", "done"}
    /\ At(c, "done") => request \in Terminal \/ jobs[Person] # "NONE"

\* A delivery that is about to close the request.
Closes(d) ==
    \/ work[d].step \in {"fail", "finish"}
    \/ At(d, "write") /\ work[d].to \in {"FAILED", "COMPLETED"}

\* Somebody is responsible for the one job until the request is closed.
SoloJobs ==
    /\ jobs[Nobody] = "NONE" /\ \A d \in Deliveries : ~At(d, "idle") => work[d].key = Person
    /\ jobs[Person] = "QUEUED" => \/ \E c \in Calls : At(c, "enqueue")
                                  \/ \E s \in Submissions : At(Inline(s), "waiting")
    /\ jobs[Person] = "RUNNING" => \E d \in Deliveries : Holds(d)
    /\ jobs[Person] \in {"FAILED", "COMPLETED"} => request \in Terminal \/ \E d \in Deliveries : Closes(d)

SoloInv ==
    Solo => /\ Unborn
            /\ kind = "data_access" => SoloAccess
            /\ kind # "data_access" => SoloJobs /\ \A c \in Calls : SoloPlace(c)

\* Whatever throws under way has stumbled.
LEMMA ThrowingStumbles ==
    ASSUME PrivacyTypeOK, OnTime, NEW w \in Workers, work' = [work EXCEPT ![w] = Thrown(w)]
    PROVE  Stumbled'
<1>. work \in [Workers -> Works] /\ work[w] \in Works
  BY DEF PrivacyTypeOK
<1>1. work'[w] = Thrown(w)
  OBVIOUS
<1>2. CASE w \in Calls \/ work[w].left <= 1
  <2>1. Thrown(w) = [work[w] EXCEPT !.step = "threw"]
    BY <1>2 DEF Thrown, Works, Attempts
  <2>. QED BY <1>1, <2>1 DEF Stumbled, At, Works
<1>3. CASE ~ (w \in Calls \/ work[w].left <= 1)
  <2>1. PICK k \in Owners : w = Queued(k)
    BY <1>3, WhoIsWho DEF OnTime, Deliveries
  <2>2. Thrown(w) = [work[w] EXCEPT !.step = "waiting", !.left = work[w].left - 1]
    BY <1>3 DEF Thrown, Works, Attempts
  <2>3. work'[Queued(k)].left \in 1 .. Attempts - 1
    BY <1>1, <1>3, <2>1, <2>2 DEF Works, Attempts
  <2>. QED BY <2>3 DEF Stumbled
<1>. QED BY <1>2, <1>3

\* What a step of one worker does to its attempts and its place.
LEMMA ReturnedLeft ==
    ASSUME PrivacyTypeOK, NEW w \in Deliveries, NEW st, NEW status
    PROVE  Returned(w, st, status).left = work[w].left
<1>1. Returned(w, st, status) = [work[w] EXCEPT !.step = st, !.to = "NONE", !.next = "idle"] /\ work[w] \in Works
  BY WhoIsWho DEF Returned, PrivacyTypeOK
<1>. QED BY <1>1 DEF Works

\* A worker under way goes on: it never becomes idle again, a call that handed its
\* job over does not come back to it, and a delivery loses attempts only by
\* throwing.
Moves(w, r) ==
    /\ UnderWay(w) /\ Acts(w, r) /\ r.step # "idle"
    /\ w \in Calls => /\ Past(w) => r.step \in {"queue", "done", "threw"} \/ (r.step = "write" /\ r.to = "QUEUED")
                      /\ r.step = "write" => /\ r.next \in {"policy", "find", "done"}
                                             /\ r.to = "QUEUED" => r.next = "done"
    /\ w \in Deliveries => \/ r.left = work[w].left
                           \/ r.left = work[w].left - 1 /\ work[w].left > 1

LEMMA ThrownMoves ==
    ASSUME PrivacyTypeOK, NEW w \in Workers, UnderWay(w), work' = [work EXCEPT ![w] = Thrown(w)]
    PROVE  Moves(w, Thrown(w))
<1>. work[w] \in Works
  BY DEF PrivacyTypeOK
<1>1. Thrown(w) \in Works /\ Thrown(w).step \in {"waiting", "threw"}
  BY ThrownWork
<1>2. /\ w \in Calls => Thrown(w).step = "threw"
      /\ w \in Deliveries => \/ Thrown(w).left = work[w].left
                             \/ Thrown(w).left = work[w].left - 1 /\ work[w].left > 1
  BY DEF Thrown, Works
<1>. QED BY <1>1, <1>2 DEF Moves, Acts

LEMMA ReadMoves ==
    ASSUME PrivacyTypeOK, NEW w \in Workers, NEW st, NEW to \in Statuses, NEW nx \in Steps,
           ReadStatus(w, st, to, nx), st \notin {"idle", "done", "threw", "write"},
           nx \in {"policy", "find", "done"}, to = "QUEUED" <=> st = "queue", to = "QUEUED" => nx = "done"
    PROVE  \E r \in Works : Moves(w, r)
<1>. work[w] \in Works /\ request \in Statuses /\ UnderWay(w)
  BY DEF PrivacyTypeOK, ReadStatus, At, UnderWay
<1>0. Past(w) => st = "queue"
  BY DEF ReadStatus, Past, At
<1>1. CASE work' = [work EXCEPT ![w] = [work[w] EXCEPT !.step = "write", !.to = to, !.next = nx]]
  <2>. DEFINE r == [work[w] EXCEPT !.step = "write", !.to = to, !.next = nx]
  <2>1. r \in Works /\ r.step = "write" /\ r.to = to /\ r.next = nx /\ r.left = work[w].left
    BY DEF Works, Steps
  <2>. HIDE DEF r
  <2>2. Acts(w, r)
    BY <1>1, <2>1 DEF Acts, r
  <2>. QED BY <1>0, <2>1, <2>2 DEF Moves
<1>2. CASE work' = [work EXCEPT ![w] = Returned(w, nx, request)]
  <2>. DEFINE r == Returned(w, nx, request)
  <2>1. r \in Works /\ r.step = nx /\ (w \in Deliveries => r.left = work[w].left)
    BY ReturnedWork, ReturnedLeft
  <2>. HIDE DEF r
  <2>2. Acts(w, r)
    BY <1>2, <2>1 DEF Acts, r
  <2>. QED BY <1>0, <2>1, <2>2 DEF Moves
<1>3. CASE work' = [work EXCEPT ![w] = Thrown(w)]
  BY <1>3, ThrownMoves, ThrownWork
<1>. QED BY <1>1, <1>2, <1>3 DEF ReadStatus

LEMMA WriteMoves ==
    ASSUME PrivacyInv, OnTime, NEW w \in Workers, WriteStatus(w)
    PROVE  \E r \in Works : Moves(w, r)
<1>. work[w] \in Works /\ UnderWay(w) /\ PrivacyTypeOK /\ At(w, "write")
  BY DEF PrivacyInv, PrivacyTypeOK, WriteStatus, At, UnderWay
<1>. DEFINE nx == work[w].next
            r == Returned(w, nx, work[w].to)
<1>1. /\ nx \in Steps /\ work[w].to \in Statuses
      /\ w \in Calls => nx \in {"policy", "find", "done"} /\ (Past(w) => nx = "done")
      /\ w \in Deliveries => nx \in {"policy", "done"}
  <2>1. nx \in Steps /\ work[w].to \in Statuses
    BY DEF Works
  <2>2. w \in Calls => nx \in {"policy", "find", "done"} /\ (work[w].to = "QUEUED" => nx = "done")
    BY DEF OnTime, At
  <2>3. Past(w) => work[w].to = "QUEUED"
    BY DEF Past, At
  <2>4. w \in Deliveries => nx \in {"policy", "done"}
    BY DEF PrivacyInv, WriteInv, At
  <2>. QED BY <2>1, <2>2, <2>3, <2>4
<1>2. r \in Works /\ r.step = nx /\ (w \in Deliveries => r.left = work[w].left)
  BY <1>1, ReturnedWork, ReturnedLeft
<1>3. Acts(w, r)
  BY <1>2 DEF Acts, WriteStatus
<1>. HIDE DEF r, nx
<1>4. r.step # "idle"
  BY <1>1, <1>2, WhoIsWho
<1>. QED BY <1>1, <1>2, <1>3, <1>4 DEF Moves

LEMMA GoMoves ==
    ASSUME PrivacyTypeOK, NEW w \in Workers, NEW st \in Steps \ {"idle", "write"}, UnderWay(w), Goes(w, st),
           w \in Calls => ~Past(w) \/ st \in {"queue", "done", "threw"}
    PROVE  \E r \in Works : Moves(w, r)
<1>. DEFINE r == [work[w] EXCEPT !.step = st]
<1>1. r \in Works /\ r.step = st /\ r.left = work[w].left
  BY DEF PrivacyTypeOK, Works
<1>2. Acts(w, r)
  BY <1>1 DEF Acts, Goes
<1>. HIDE DEF r
<1>. QED BY <1>1, <1>2 DEF Moves

\* Every step but a submission and an enqueuing moves at most one worker.
LEMMA WorkMoves ==
    ASSUME PrivacyInv, OnTime, [PrivacyNext]_privacyVars
    PROVE  \/ \E s \in Submissions : Submit(s) \/ Enqueue(s)
           \/ overlapped' = overlapped /\ (work' = work \/ \E w \in Workers, r \in Works : Moves(w, r))
<1>. PrivacyTypeOK
  BY DEF PrivacyInv
<1>0. /\ {"policy", "find", "done", "queue", "create", "reset", "enqueue", "reject", "approve", "start", "refuse",
          "execute", "fail", "complete", "finish"} \subseteq Steps
      /\ {"POLICY_REVIEW", "REJECTED", "APPROVED", "QUEUED", "RUNNING", "FAILED", "COMPLETED"} \subseteq Statuses
  BY DEF Steps, Statuses
<1>1. ASSUME NEW s \in Submissions, CallStep(s), ~Enqueue(s)
      PROVE  overlapped' = overlapped /\ \E w \in Workers, r \in Works : Moves(w, r)
  <2>. DEFINE c == Call(s)
  <2>1. c \in Workers /\ c \in Calls
    BY WhoIsWho
  <2>2. CASE ReadStatus(c, "review", "POLICY_REVIEW", "policy") \/ ReadStatus(c, "reject", "REJECTED", "done")
             \/ ReadStatus(c, "approve", "APPROVED", "find") \/ ReadStatus(c, "queue", "QUEUED", "done")
    <3>1. overlapped' = overlapped
      BY <2>2 DEF ReadStatus
    <3>. HIDE DEF c
    <3>. QED BY <1>0, <2>1, <2>2, <3>1, ReadMoves
  <2>3. CASE WriteStatus(c)
    BY <2>1, <2>3, WriteMoves DEF WriteStatus
  <2>4. CASE JudgeCall(s)
    <3>1. UnderWay(c) /\ ~Past(c) /\ overlapped' = overlapped /\ work[c] \in Works
      BY <2>1, <2>4 DEF JudgeCall, UnderWay, Past, At, PrivacyTypeOK
    <3>2. CASE kind = "data_access"
      <4>. DEFINE r == [work[c] EXCEPT !.step = "write", !.next = "done",
                                       !.to = IF held THEN "REJECTED" ELSE "COMPLETED"]
      <4>1. r \in Works /\ r.step = "write" /\ r.next = "done" /\ r.to \in {"REJECTED", "COMPLETED"}
        <5>1. /\ "write" \in Steps /\ "done" \in Steps
              /\ (IF held THEN "REJECTED" ELSE "COMPLETED") \in Statuses
          BY DEF Steps, Statuses
        <5>. QED BY <3>1, <5>1 DEF Works
      <4>2. Acts(c, r)
        BY <2>4, <3>2, <4>1 DEF Acts, JudgeCall
      <4>. HIDE DEF r
      <4>. QED BY <2>1, <3>1, <4>1, <4>2, WhoIsWho DEF Moves
    <3>3. CASE kind # "data_access"
      <4>1. Goes(c, "reject") \/ Goes(c, "approve") \/ Goes(c, "find")
        BY <2>4, <3>3 DEF JudgeCall, Goes
      <4>. HIDE DEF c
      <4>. QED BY <1>0, <2>1, <3>1, <4>1, GoMoves
    <3>. QED BY <3>2, <3>3
  <2>5. CASE FindJob(s)
    <3>1. UnderWay(c) /\ ~Past(c) /\ overlapped' = overlapped
      BY <2>5 DEF FindJob, UnderWay, Past, At
    <3>2. Goes(c, "queue") \/ Goes(c, "create") \/ Goes(c, "reset")
      BY <2>5 DEF FindJob
    <3>. HIDE DEF c
    <3>. QED BY <1>0, <2>1, <3>1, <3>2, GoMoves
  <2>6. CASE CreateJob(s) \/ ResetJob(s)
    <3>1. UnderWay(c) /\ ~Past(c) /\ overlapped' = overlapped
      BY <2>6 DEF CreateJob, ResetJob, UnderWay, Past, At
    <3>2. Goes(c, "enqueue") \/ work' = [work EXCEPT ![c] = Thrown(c)]
      BY <2>6 DEF CreateJob, ResetJob
    <3>. HIDE DEF c
    <3>. QED BY <1>0, <2>1, <3>1, <3>2, GoMoves, ThrownMoves, ThrownWork
  <2>. QED BY <1>1, <2>2, <2>3, <2>4, <2>5, <2>6 DEF CallStep
<1>2. ASSUME NEW d \in Deliveries, DeliveryStep(d)
      PROVE  overlapped' = overlapped /\ \E w \in Workers, r \in Works : Moves(w, r)
  <2>1. d \in Workers /\ d \notin Calls
    BY WhoIsWho
  <2>2. CASE ReadStatus(d, "start", "RUNNING", "policy") \/ ReadStatus(d, "fail", "FAILED", "done")
             \/ ReadStatus(d, "finish", "COMPLETED", "done")
    <3>1. overlapped' = overlapped
      BY <2>2 DEF ReadStatus
    <3>. QED BY <1>0, <2>1, <2>2, <3>1, ReadMoves
  <2>3. CASE WriteStatus(d)
    BY <2>1, <2>3, WriteMoves DEF WriteStatus
  <2>4. CASE Claim(d) \/ JudgeDelivery(d) \/ WriteJob(d, "refuse", "FAILED", "fail")
             \/ Execute(d) \/ WriteJob(d, "complete", "COMPLETED", "finish")
    <3>1. UnderWay(d) /\ overlapped' = overlapped
      BY <2>4 DEF Claim, JudgeDelivery, WriteJob, Execute, UnderWay, At
    <3>2. PICK st \in {"start", "done", "refuse", "execute", "fail", "complete", "finish"} : Goes(d, st)
      BY <2>4 DEF Claim, JudgeDelivery, WriteJob, Execute
    <3>. QED BY <1>0, <2>1, <3>1, <3>2, GoMoves
  <2>. QED BY <1>2, <2>2, <2>3, <2>4 DEF DeliveryStep
<1>3. ASSUME NEW w \in Workers, Fail(w)
      PROVE  overlapped' = overlapped /\ \E v \in Workers, r \in Works : Moves(v, r)
  BY <1>3, ThrownMoves, ThrownWork DEF Fail
<1>4. CASE SetHold \/ UNCHANGED privacyVars
  BY <1>4 DEF SetHold, privacyVars
<1>. QED BY <1>1, <1>2, <1>3, <1>4 DEF PrivacyNext


LEMMA EnqueueLeft ==
    ASSUME PrivacyTypeOK, NEW s \in Submissions, Enqueue(s)
    PROVE  /\ work'[Call(s)].step = "queue" /\ At(Call(s), "enqueue")
           /\ work'[Inline(s)].step = "waiting" /\ work'[Inline(s)].left = 1
           /\ work'[Inline(s)].key = work[Call(s)].key
           /\ \A k \in Owners : \/ work'[Queued(k)] = work[Queued(k)]
                                \/ /\ At(Queued(k), "idle") /\ work'[Queued(k)].step = "waiting"
                                   /\ work'[Queued(k)].left = Attempts
                                   /\ work'[Queued(k)].key = work[Call(s)].key
           /\ \A t \in Submissions \ {s} : work'[Inline(t)] = work[Inline(t)] /\ work'[Call(t)] = work[Call(t)]
<1>. DEFINE c == Call(s)
            delivery(n) == [Idle EXCEPT !.step = "waiting", !.key = work[c].key, !.left = n]
<1>1. \A n \in {1, Attempts} : delivery(n).step = "waiting" /\ delivery(n).left = n /\ delivery(n).key = work[c].key
  BY DEF Idle
<1>2. PICK k \in Owners : k = work[c].key
  BY EnqueueWork, Zenon
<1>3. /\ work'[c] = [work[c] EXCEPT !.step = "queue"]
      /\ work'[Inline(s)] = delivery(1)
      /\ work'[Queued(k)] = IF At(Queued(k), "idle") THEN delivery(Attempts) ELSE work[Queued(k)]
      /\ \A v \in Workers \ {c, Inline(s), Queued(k)} : work'[v] = work[v]
  BY <1>2, EnqueueWork, Zenon
<1>4. work[c] \in Works /\ At(c, "enqueue")
  BY WhoIsWho DEF PrivacyTypeOK, Enqueue
<1>5. work'[c].step = "queue"
  BY <1>3, <1>4 DEF Works
<1>6. \A j \in Owners : Queued(j) \in Workers \ {c, Inline(s)} /\ (j # k => Queued(j) # Queued(k))
  <2>1. \A j \in Owners : Queued(j) # c /\ Queued(j) # Inline(s) /\ (j # k => Queued(j) # Queued(k))
    BY DEF Queued, Call, Inline
  <2>. QED BY <2>1, WhoIsWho
<1>7. \A t \in Submissions \ {s} : {Inline(t), Call(t)} \subseteq Workers \ {c, Inline(s), Queued(k)}
  <2>1. \A t \in Submissions \ {s} : {Inline(t), Call(t)} \cap {c, Inline(s), Queued(k)} = {}
    BY DEF Queued, Call, Inline
  <2>. QED BY <2>1, WhoIsWho
<1>. QED BY <1>1, <1>3, <1>4, <1>5, <1>6, <1>7, Zenon

\* A submission moves its call only.
LEMMA SubmitWork ==
    ASSUME PrivacyTypeOK, NEW s \in Submissions, Submit(s)
    PROVE  /\ At(Call(s), "idle") /\ work'[Call(s)].step \in {"policy", "review", "done"}
           /\ work'[Call(s)].key = owner
           /\ \A v \in Workers \ {Call(s)} : work'[v] = work[v]
<1>. DEFINE c == Call(s)
<1>1. \E st \in {"policy", "review", "done"} : \E status : work' = [work EXCEPT ![c] = Returned(c, st, status)]
  <2>1. Resumes(request) \in {"policy", "review", "done"}
    BY DEF Resumes
  <2>2. (IF kind = "data_access" THEN "policy" ELSE "review") \in {"policy", "review", "done"}
    OBVIOUS
  <2>. QED BY <2>1, <2>2 DEF Submit
<1>2. PICK st \in {"policy", "review", "done"} : \E status : work' = [work EXCEPT ![c] = Returned(c, st, status)]
  BY <1>1
<1>3. PICK status : work' = [work EXCEPT ![c] = Returned(c, st, status)]
  BY <1>2
<1>4. Returned(c, st, status).step = st /\ Returned(c, st, status).key = owner
  BY WhoIsWho DEF Returned, Idle
<1>. QED BY <1>3, <1>4, WhoIsWho DEF Submit, PrivacyTypeOK

LEMMA NeverIdleAgain ==
    ASSUME PrivacyInv, OnTime, [PrivacyNext]_privacyVars, NEW w \in Workers, ~At(w, "idle")
    PROVE  ~At(w, "idle")'
<1>. PrivacyTypeOK
  BY DEF PrivacyInv
<1>1. ASSUME NEW s \in Submissions, Submit(s) PROVE ~At(w, "idle")'
  BY <1>1, SubmitWork DEF At
<1>2. ASSUME NEW s \in Submissions, Enqueue(s) PROVE ~At(w, "idle")'
  <2>1. \/ w = Call(s) \/ w = Inline(s) \/ (\E k \in Owners : w = Queued(k))
        \/ \E t \in Submissions \ {s} : w = Call(t) \/ w = Inline(t)
    BY DEF Workers, Calls, Deliveries
  <2>. QED BY <1>2, <2>1, EnqueueLeft DEF At
<1>3. ASSUME NEW v \in Workers, NEW r \in Works, Moves(v, r) PROVE ~At(w, "idle")'
  BY <1>3, ActTypes DEF Moves, At
<1>. QED BY <1>1, <1>2, <1>3, WorkMoves DEF At

\* What happened once cannot be undone: a second submission, a stumble.
LEMMA SoloBefore ==
    ASSUME PrivacyInv, OnTime, [PrivacyNext]_privacyVars
    PROVE  (Resubmitted => Resubmitted') /\ (Stumbled => Stumbled')
<1>. PrivacyTypeOK
  BY DEF PrivacyInv
<1>1. Resubmitted => Resubmitted'
  <2>1. \A s \in Submissions : ~At(Call(s), "idle") => ~At(Call(s), "idle")'
    BY NeverIdleAgain, WhoIsWho
  <2>. QED BY <2>1 DEF Resubmitted, At
<1>2. ASSUME NEW w \in Workers, At(w, "threw") PROVE At(w, "threw")'
  <2>1. ASSUME NEW s \in Submissions, Submit(s) PROVE At(w, "threw")'
    BY <1>2, <2>1, SubmitWork DEF At
  <2>2. ASSUME NEW s \in Submissions, Enqueue(s) PROVE At(w, "threw")'
    <3>1. At(Inline(s), "idle")
      BY <2>2, EnqueueLeft DEF OnTime, Past, At
    <3>2. \/ w = Call(s) \/ w = Inline(s) \/ (\E k \in Owners : w = Queued(k))
          \/ \E t \in Submissions \ {s} : w = Call(t) \/ w = Inline(t)
      BY DEF Workers, Calls, Deliveries
    <3>. QED BY <1>2, <2>2, <3>1, <3>2, EnqueueLeft DEF At
  <2>3. ASSUME NEW v \in Workers, NEW r \in Works, Moves(v, r) PROVE At(w, "threw")'
    BY <1>2, <2>3, ActTypes DEF Moves, At, UnderWay
  <2>. QED BY <1>2, <2>1, <2>2, <2>3, WorkMoves DEF At
<1>3. ASSUME NEW k \in Owners, work[Queued(k)].left \in 1 .. Attempts - 1
      PROVE  work'[Queued(k)].left \in 1 .. Attempts - 1
  <2>. DEFINE w == Queued(k)
  <2>0. w \in Workers /\ w \in Deliveries /\ \A s \in Submissions : w # Call(s)
    BY WhoIsWho DEF Queued, Call
  <2>1. ASSUME NEW s \in Submissions, Submit(s) PROVE work'[w].left \in 1 .. Attempts - 1
    BY <1>3, <2>0, <2>1, SubmitWork
  <2>2. ASSUME NEW s \in Submissions, Enqueue(s) PROVE work'[w].left \in 1 .. Attempts - 1
    <3>1. ~At(w, "idle")
      BY <1>3 DEF OnTime
    <3>. QED BY <1>3, <2>2, <3>1, EnqueueLeft
  <2>3. ASSUME NEW v \in Workers, NEW r \in Works, Moves(v, r) PROVE work'[w].left \in 1 .. Attempts - 1
    <3>1. CASE v = w
      <4>1. work'[w] = r /\ (r.left = work[w].left \/ (r.left = work[w].left - 1 /\ work[w].left > 1))
        BY <2>0, <2>3, <3>1, ActTypes DEF Moves
      <4>. QED BY <1>3, <4>1 DEF Attempts
    <3>2. CASE v # w
      <4>1. work'[w] = work[w]
        BY <2>0, <2>3, <3>2, ActTypes DEF Moves
      <4>. QED BY <1>3, <4>1
    <3>. QED BY <3>1, <3>2
  <2>. QED BY <1>3, <2>1, <2>2, <2>3, WorkMoves
<1>4. Stumbled => Stumbled'
  BY <1>2, <1>3 DEF Stumbled
<1>. QED BY <1>1, <1>4

LEMMA OnTimeStep ==
    ASSUME PrivacyInv, PrivacyInv', OnTime, [PrivacyNext]_privacyVars
    PROVE  OnTime'
<1>. PrivacyTypeOK /\ PrivacyTypeOK'
  BY DEF PrivacyInv
<1>0. \A w \in Workers : ~At(w, "idle") => ~At(w, "idle")'
  BY NeverIdleAgain
<1>1. ASSUME NEW s \in Submissions, Submit(s) PROVE OnTime'
  <2>. DEFINE c == Call(s)
  <2>1. At(c, "idle") /\ ~At(c, "idle")' /\ ~At(c, "write")' /\ \A v \in Workers \ {c} : work'[v] = work[v]
    BY <1>1, SubmitWork DEF At
  <2>2. \A d \in Deliveries : d \in Workers \ {c}
    BY WhoIsWho
  <2>3. overlapped' => Resubmitted'
    <3>1. CASE overlapped
      BY <3>1, SoloBefore DEF OnTime
    <3>2. ASSUME NEW w \in Workers, UnderWay(w) PROVE Resubmitted'
      <4>1. \E t \in Submissions : ~At(Call(t), "idle")
        <5>1. ~At(w, "idle")
          BY <3>2 DEF UnderWay, At
        <5>. QED BY <5>1 DEF OnTime, Workers, Calls, Deliveries, Past, At
      <4>2. PICK t \in Submissions : ~At(Call(t), "idle")
        BY <4>1
      <4>3. t # s /\ ~At(Call(t), "idle")'
        BY <1>0, <2>1, <4>2, WhoIsWho
      <4>. QED BY <2>1, <4>3 DEF Resubmitted
    <3>. QED BY <1>1, <3>1, <3>2 DEF Submit
  <2>4. \A t \in Submissions : /\ work'[Inline(t)].left <= 1
                               /\ ~At(Inline(t), "idle")' => Past(Call(t))'
    <3>. SUFFICES ASSUME NEW t \in Submissions
                  PROVE  /\ work'[Inline(t)].left <= 1
                         /\ ~At(Inline(t), "idle")' => Past(Call(t))'
      OBVIOUS
    <3>1. work'[Inline(t)] = work[Inline(t)]
      BY <2>1, <2>2, WhoIsWho
    <3>2. ~At(Inline(t), "idle") => Past(Call(t)) /\ t # s
      BY <2>1 DEF OnTime, Past, At
    <3>3. t # s => work'[Call(t)] = work[Call(t)]
      BY <2>1, WhoIsWho DEF Call
    <3>. QED BY <3>1, <3>2, <3>3 DEF OnTime, Past, At
  <2>5. \A k \in Owners : /\ At(Queued(k), "idle")' => work'[Queued(k)].left = 0
                          /\ ~At(Queued(k), "idle")' => \E e \in Calls : ~At(e, "idle")'
    <3>1. \A k \in Owners : work'[Queued(k)] = work[Queued(k)]
      BY <2>1, <2>2, WhoIsWho
    <3>. QED BY <2>1, <3>1, WhoIsWho DEF OnTime, At
  <2>6. \A e \in Calls : At(e, "write")' => /\ work'[e].next \in {"policy", "find", "done"}
                                            /\ work'[e].to = "QUEUED" => work'[e].next = "done"
    <3>1. \A e \in Calls \ {c} : work'[e] = work[e]
      BY <2>1, WhoIsWho
    <3>2. \A e \in Calls : At(e, "write")' => e # c
      BY <2>1
    <3>. HIDE DEF c
    <3>. QED BY <3>1, <3>2 DEF OnTime, At
  <2>. QED BY <2>3, <2>4, <2>5, <2>6 DEF OnTime
<1>2. ASSUME NEW s \in Submissions, Enqueue(s) PROVE OnTime'
  <2>. DEFINE c == Call(s)
  <2>1. overlapped' => Resubmitted'
    BY <1>2, SoloBefore DEF OnTime, Enqueue
  <2>2. work'[c].step = "queue" /\ ~At(c, "idle")' /\ ~At(c, "write")' /\ Past(c)'
    BY <1>2, EnqueueLeft DEF Past, At
  <2>3. \A t \in Submissions : /\ work'[Inline(t)].left <= 1
                               /\ ~At(Inline(t), "idle")' => Past(Call(t))'
    <3>. SUFFICES ASSUME NEW t \in Submissions
                  PROVE  /\ work'[Inline(t)].left <= 1
                         /\ ~At(Inline(t), "idle")' => Past(Call(t))'
      OBVIOUS
    <3>1. CASE t = s
      BY <1>2, <2>2, <3>1, EnqueueLeft
    <3>2. CASE t # s
      <4>1. work'[Inline(t)] = work[Inline(t)] /\ work'[Call(t)] = work[Call(t)]
        BY <1>2, <3>2, EnqueueLeft
      <4>. QED BY <4>1 DEF OnTime, Past, At
    <3>. QED BY <3>1, <3>2
  <2>4. \A k \in Owners : /\ At(Queued(k), "idle")' => work'[Queued(k)].left = 0
                          /\ ~At(Queued(k), "idle")' => \E e \in Calls : ~At(e, "idle")'
    <3>1. c \in Calls
      BY WhoIsWho
    <3>2. \A k \in Owners : At(Queued(k), "idle")' => work'[Queued(k)] = work[Queued(k)]
      BY <1>2, EnqueueLeft DEF At
    <3>. QED BY <2>2, <3>1, <3>2 DEF OnTime, At
  <2>5. \A e \in Calls : At(e, "write")' => /\ work'[e].next \in {"policy", "find", "done"}
                                            /\ work'[e].to = "QUEUED" => work'[e].next = "done"
    <3>1. \A t \in Submissions \ {s} : work'[Call(t)] = work[Call(t)]
      BY <1>2, EnqueueLeft
    <3>2. \A e \in Calls : At(e, "write")' => work'[e] = work[e]
      BY <2>2, <3>1 DEF Calls
    <3>. QED BY <3>2 DEF OnTime, At
  <2>. QED BY <2>1, <2>3, <2>4, <2>5 DEF OnTime
<1>3. ASSUME NEW w \in Workers, NEW r \in Works, Moves(w, r), overlapped' = overlapped PROVE OnTime'
  <2>1. /\ work'[w] = r /\ \A v \in Workers \ {w} : work'[v] = work[v]
        /\ UnderWay(w) /\ r.step # "idle"
    BY <1>3, ActTypes DEF Moves
  <2>2. overlapped' => Resubmitted'
    BY <1>3, SoloBefore DEF OnTime
  <2>3. \A c \in Calls : Past(c) => Past(c)'
    BY <1>3, <2>1, WhoIsWho DEF Moves, Past, At
  <2>4. \A d \in Deliveries : /\ At(d, "idle")' <=> At(d, "idle")
                              /\ At(d, "idle")' => work'[d] = work[d]
                              /\ work'[d].left <= work[d].left
    <3>. SUFFICES ASSUME NEW d \in Deliveries
                  PROVE  /\ At(d, "idle")' <=> At(d, "idle")
                         /\ At(d, "idle")' => work'[d] = work[d]
                         /\ work'[d].left <= work[d].left
      OBVIOUS
    <3>0. d \in Workers /\ work[d] \in Works
      BY WhoIsWho DEF PrivacyTypeOK
    <3>1. CASE d = w
      BY <1>3, <2>1, <3>0, <3>1 DEF Moves, At, UnderWay, Works
    <3>2. CASE d # w
      <4>1. work'[d] = work[d]
        BY <2>1, <3>0, <3>2
      <4>. QED BY <3>0, <4>1 DEF At, Works
    <3>. QED BY <3>1, <3>2
  <2>5. \A t \in Submissions : /\ work'[Inline(t)].left <= 1
                               /\ ~At(Inline(t), "idle")' => Past(Call(t))'
    <3>. SUFFICES ASSUME NEW t \in Submissions
                  PROVE  /\ work'[Inline(t)].left <= 1
                         /\ ~At(Inline(t), "idle")' => Past(Call(t))'
      OBVIOUS
    <3>1. work'[Inline(t)].left \in Nat /\ work[Inline(t)].left \in Nat
      BY WhoIsWho DEF PrivacyTypeOK, Works
    <3>. QED BY <2>3, <2>4, <3>1, WhoIsWho DEF OnTime
  <2>6. \A k \in Owners : /\ At(Queued(k), "idle")' => work'[Queued(k)].left = 0
                          /\ ~At(Queued(k), "idle")' => \E e \in Calls : ~At(e, "idle")'
    BY <1>0, <2>4, WhoIsWho DEF OnTime
  <2>7. \A c \in Calls : At(c, "write")' => /\ work'[c].next \in {"policy", "find", "done"}
                                            /\ work'[c].to = "QUEUED" => work'[c].next = "done"
    <3>. SUFFICES ASSUME NEW c \in Calls, At(c, "write")'
                  PROVE  /\ work'[c].next \in {"policy", "find", "done"}
                         /\ work'[c].to = "QUEUED" => work'[c].next = "done"
      OBVIOUS
    <3>1. CASE c = w
      BY <1>3, <2>1, <3>1 DEF Moves, At
    <3>2. CASE c # w
      <4>1. work'[c] = work[c]
        BY <2>1, <3>2, WhoIsWho
      <4>. QED BY <4>1 DEF OnTime, At
    <3>. QED BY <3>1, <3>2
  <2>. QED BY <2>2, <2>5, <2>6, <2>7 DEF OnTime
<1>4. CASE work' = work /\ overlapped' = overlapped
  BY <1>4 DEF OnTime, Resubmitted, Past, At
<1>. QED BY <1>1, <1>2, <1>3, <1>4, WorkMoves

\* One call that is not idle is the only one.
LEMMA OnlyCall ==
    ASSUME ~Resubmitted, NEW c \in Calls, NEW e \in Calls, ~At(c, "idle"), ~At(e, "idle")
    PROVE  c = e
<1>1. PICK s \in Submissions, t \in Submissions : c = Call(s) /\ e = Call(t)
  BY DEF Calls
<1>. QED BY <1>1 DEF Resubmitted

SoloStory == Unborn /\ SoloJobs /\ \A c \in Calls : SoloPlace(c)

\* Both ends of a step in which nothing stumbles.
SoloDuring ==
    /\ During /\ OnTime /\ Solo /\ ~Resubmitted' /\ ~Stumbled'
    /\ kind # "data_access" /\ SoloStory

\* The call makes a step and leaves the job alone.
LEMMA CallOnly ==
    ASSUME SoloDuring, NEW c \in Calls, NEW r, Acts(c, r), UnderWay(c), ~At(c, "enqueue"), r.step # "idle",
           jobs' = jobs, request' # "NONE", SoloPlace(c)',
           request' = request \/ request' \in Terminal \/ jobs[Person] \notin {"FAILED", "COMPLETED"}
    PROVE  SoloStory'
<1>1. /\ work'[c] = r /\ \A v \in Workers \ {c} : work'[v] = work[v]
      /\ \A d \in Deliveries : work'[d] = work[d]
  BY ActTypes, WhoIsWho DEF SoloDuring, During
<1>2. ~At(c, "idle") /\ ~At(c, "idle")'
  BY <1>1 DEF UnderWay, At
<1>3. \A e \in Calls \ {c} : At(e, "idle") /\ At(e, "idle")'
  <2>1. \A e \in Calls \ {c} : At(e, "idle")
    BY <1>2, OnlyCall DEF SoloDuring, Solo
  <2>. QED BY <1>1, <2>1, WhoIsWho DEF At
<1>4. \A e \in Calls : SoloPlace(e)'
  BY <1>3 DEF SoloPlace, Preparing, Waits, At
<1>5. Unborn'
  BY <1>2 DEF Unborn
<1>6. SoloJobs'
  <2>1. jobs'[Nobody] = "NONE" /\ \A d \in Deliveries : ~At(d, "idle")' => work'[d].key = Person
    BY <1>1 DEF SoloDuring, SoloStory, SoloJobs, At
  <2>2. jobs'[Person] = "QUEUED" => \E s \in Submissions : At(Inline(s), "waiting")'
    <3>1. \A e \in Calls : ~At(e, "enqueue")
      BY <1>3 DEF At
    <3>. QED BY <1>1, <3>1, WhoIsWho DEF SoloDuring, SoloStory, SoloJobs, At
  <2>3. jobs'[Person] = "RUNNING" => \E d \in Deliveries : Holds(d)'
    BY <1>1 DEF SoloDuring, SoloStory, SoloJobs, Holds
  <2>4. jobs'[Person] \in {"FAILED", "COMPLETED"} => request' \in Terminal \/ \E d \in Deliveries : Closes(d)'
    BY <1>1 DEF SoloDuring, SoloStory, SoloJobs, Closes, At
  <2>. QED BY <2>1, <2>2, <2>3, <2>4 DEF SoloJobs
<1>. QED BY <1>4, <1>5, <1>6 DEF SoloStory

\* What is known of the call while it is under way.
LEMMA CallKnows ==
    ASSUME SoloDuring, NEW c \in Calls, UnderWay(c)
    PROVE  /\ CallPlace(c) /\ SoloPlace(c) /\ work[c] \in Works /\ c \in Workers /\ c \notin Deliveries
           /\ request \in Statuses \ {"NONE"} /\ (Preparing(c) \/ Waits(c))
<1>1. CallPlace(c) /\ SoloPlace(c) /\ work[c] \in Works /\ c \in Workers /\ c \notin Deliveries
  BY WhoIsWho DEF SoloDuring, During, Story, SoloStory, PrivacyTypeOK
<1>2. Preparing(c) \/ Waits(c)
  BY <1>1 DEF CallPlace, Preparing, Waits, At
<1>. QED BY <1>1, <1>2 DEF SoloPlace, SoloDuring, During, PrivacyTypeOK

LEMMA SoloReads ==
    ASSUME SoloDuring, NEW c \in Calls,
           \/ ReadStatus(c, "review", "POLICY_REVIEW", "policy") \/ ReadStatus(c, "reject", "REJECTED", "done")
           \/ ReadStatus(c, "approve", "APPROVED", "find") \/ ReadStatus(c, "queue", "QUEUED", "done")
    PROVE  SoloStory'
<1>1. PICK st, to, nx : /\ ReadStatus(c, st, to, nx)
                        /\ <<st, to, nx>> \in {<<"review", "POLICY_REVIEW", "policy">>, <<"reject", "REJECTED", "done">>,
                                               <<"approve", "APPROVED", "find">>, <<"queue", "QUEUED", "done">>}
  OBVIOUS
<1>2. work[c].step = st /\ UnderWay(c) /\ UNCHANGED <<request, owner, jobs>>
  BY <1>1 DEF ReadStatus, At, UnderWay
<1>3. /\ CallPlace(c) /\ SoloPlace(c) /\ work[c] \in Works /\ c \in Workers /\ c \notin Deliveries
      /\ request \in Statuses \ {"NONE"}
  BY <1>2, CallKnows
<1>4. /\ st = "queue" => Waits(c)
      /\ st # "queue" => Preparing(c)
  BY <1>1, <1>2 DEF Waits, Preparing, At
<1>5. <<request, to>> \in Transitions
  <2>1. request # to /\ request \notin Terminal
    BY <1>1, <1>2, <1>3, <1>4 DEF CallPlace, SoloPlace, Terminal, UnderWay
  <2>2. work' # [work EXCEPT ![c] = Thrown(c)]
    BY <1>3, ThrowingStumbles DEF SoloDuring, During
  <2>. QED BY <1>1, <2>1, <2>2 DEF ReadStatus
<1>. DEFINE r == [work[c] EXCEPT !.step = "write", !.to = to, !.next = nx]
<1>6. r \in Works /\ r.step = "write" /\ r.to = to /\ r.key = work[c].key
  <2>1. "write" \in Steps /\ to \in Statuses /\ nx \in Steps
    BY <1>1 DEF Steps, Statuses
  <2>. QED BY <1>3, <2>1 DEF Works
<1>7. Acts(c, r)
  BY <1>1, <1>5, <1>6 DEF Acts, ReadStatus
<1>. HIDE DEF r
<1>8. work'[c] = r /\ \A d \in Deliveries : work'[d] = work[d]
  BY <1>3, <1>7, ActTypes, WhoIsWho DEF SoloDuring, During
<1>9. SoloPlace(c)'
  BY <1>1, <1>2, <1>3, <1>4, <1>6, <1>8 DEF SoloPlace, Preparing, Waits, At
<1>10. ~At(c, "enqueue")
  BY <1>1, <1>2 DEF At
<1>. QED BY <1>2, <1>3, <1>6, <1>7, <1>9, <1>10, CallOnly

LEMMA SoloWrites ==
    ASSUME SoloDuring, NEW c \in Calls, WriteStatus(c)
    PROVE  SoloStory'
<1>. DEFINE to == work[c].to
            nx == work[c].next
            r == Returned(c, nx, to)
<1>1. work[c].step = "write" /\ UnderWay(c) /\ request' = to /\ UNCHANGED <<owner, jobs>>
  BY DEF WriteStatus, At, UnderWay
<1>2. /\ CallPlace(c) /\ SoloPlace(c) /\ work[c] \in Works /\ c \in Workers /\ c \notin Deliveries
  BY <1>1, CallKnows
<1>3. \/ to = "POLICY_REVIEW" /\ nx = "policy"
      \/ to = "REJECTED" /\ nx = "done"
      \/ to = "APPROVED" /\ nx = "find"
      \/ to = "QUEUED" /\ nx = "done"
  BY <1>1, <1>2 DEF CallPlace, UnderWay
<1>4. /\ to = "QUEUED" => Waits(c)
      /\ to # "QUEUED" => Preparing(c)
  BY <1>1 DEF Waits, Preparing, At
<1>5. r \in Works /\ r.step = nx /\ r.key = owner
  <2>1. nx \in Steps /\ to \in Statuses
    BY <1>2 DEF Works
  <2>2. r \in Works /\ r.step = nx
    BY <1>2, <2>1, ReturnedWork DEF SoloDuring, During
  <2>3. r = [Idle EXCEPT !.step = nx, !.saw = to, !.key = owner]
    BY DEF Returned
  <2>. QED BY <2>2, <2>3 DEF Idle
<1>6. Acts(c, r)
  BY <1>5 DEF Acts, WriteStatus
<1>. HIDE DEF r
<1>7. work'[c] = r /\ \A d \in Deliveries : work'[d] = work[d]
  BY <1>2, <1>6, ActTypes, WhoIsWho DEF SoloDuring, During
<1>8. jobs[Person] \in {"NONE", "QUEUED", "RUNNING"} /\ (to = "QUEUED" => jobs[Person] # "NONE")
  BY <1>2, <1>4 DEF SoloPlace
<1>9. SoloPlace(c)'
  BY <1>1, <1>2, <1>3, <1>4, <1>5, <1>7, <1>8 DEF SoloPlace, Preparing, Waits, At, Terminal
<1>10. ~At(c, "enqueue") /\ request' # "NONE" /\ r.step # "idle"
  BY <1>1, <1>3, <1>5 DEF At
<1>. QED BY <1>1, <1>6, <1>8, <1>9, <1>10, CallOnly

LEMMA SoloGoes ==
    ASSUME SoloDuring, NEW s \in Submissions, JudgeCall(s) \/ FindJob(s)
    PROVE  SoloStory'
<1>. DEFINE c == Call(s)
<1>0. c \in Calls
  BY WhoIsWho
<1>1. /\ work[c].step \in {"policy", "find"} /\ UnderWay(c) /\ Preparing(c)
      /\ UNCHANGED <<request, owner, jobs>>
  BY DEF JudgeCall, FindJob, At, UnderWay, Preparing
<1>2. /\ CallPlace(c) /\ SoloPlace(c) /\ work[c] \in Works /\ c \in Workers /\ c \notin Deliveries
      /\ request \in Statuses \ {"NONE"}
  BY <1>0, <1>1, CallKnows
<1>3. work[c].key = Person /\ jobs[Person] = "NONE"
  BY <1>1, <1>2 DEF SoloPlace, At
<1>4. \E st \in {"reject", "approve", "find", "create"} : Goes(c, st)
  <2>1. CASE JudgeCall(s)
    BY <2>1 DEF JudgeCall, Goes, SoloDuring
  <2>2. CASE FindJob(s)
    BY <1>3, <2>2 DEF FindJob, Kept
  <2>. QED BY <2>1, <2>2
<1>5. PICK st \in {"reject", "approve", "find", "create"} : Goes(c, st)
  BY <1>4
<1>. DEFINE r == [work[c] EXCEPT !.step = st]
<1>6. r \in Works /\ r.step = st /\ r.key = work[c].key
  BY <1>2 DEF Works, Steps
<1>7. Acts(c, r)
  BY <1>5, <1>6 DEF Acts, Goes
<1>. HIDE DEF r, c
<1>8. work'[c] = r /\ \A d \in Deliveries : work'[d] = work[d]
  BY <1>2, <1>7, ActTypes, WhoIsWho DEF SoloDuring, During
<1>9. SoloPlace(c)'
  BY <1>1, <1>2, <1>3, <1>6, <1>8 DEF SoloPlace, Preparing, Waits, At
<1>10. ~At(c, "enqueue")
  BY <1>1 DEF At
<1>. QED BY <1>0, <1>1, <1>2, <1>6, <1>7, <1>9, <1>10, CallOnly

LEMMA SoloQueues ==
    ASSUME SoloDuring, NEW s \in Submissions, CreateJob(s) \/ ResetJob(s)
    PROVE  SoloStory'
<1>. DEFINE c == Call(s)
<1>0. c \in Calls
  BY WhoIsWho
<1>1. work[c].step \in {"create", "reset"} /\ UnderWay(c) /\ Preparing(c) /\ UNCHANGED <<request, owner>>
  BY DEF CreateJob, ResetJob, At, UnderWay, Preparing
<1>2. /\ SoloPlace(c) /\ work[c] \in Works /\ c \in Workers /\ c \notin Deliveries
      /\ request \in Statuses \ {"NONE"} /\ PrivacyTypeOK
  BY <1>0, <1>1, CallKnows DEF SoloDuring, During
<1>3. work[c].key = Person /\ jobs[Person] = "NONE" /\ ~At(c, "reset")
  BY <1>1, <1>2 DEF SoloPlace, At
<1>4. SetQueued(Person) /\ Goes(c, "enqueue")
  BY <1>3 DEF CreateJob, ResetJob
<1>. DEFINE r == [work[c] EXCEPT !.step = "enqueue"]
<1>5. r \in Works /\ r.step = "enqueue" /\ r.key = work[c].key
  BY <1>2 DEF Works, Steps
<1>6. Acts(c, r)
  BY <1>4, <1>5 DEF Acts, Goes
<1>. HIDE DEF r, c
<1>7. /\ work'[c] = r /\ \A v \in Workers \ {c} : work'[v] = work[v]
      /\ \A d \in Deliveries : work'[d] = work[d]
  BY <1>2, <1>6, ActTypes, WhoIsWho
<1>8. jobs'[Person] = "QUEUED" /\ jobs'[Nobody] = "NONE"
  BY <1>4 DEF SetQueued, SoloDuring, SoloStory, SoloJobs, PrivacyTypeOK, During, Owners
<1>9. \A e \in Calls \ {c} : At(e, "idle")'
  <2>1. \A e \in Calls \ {c} : At(e, "idle")
    BY <1>0, <1>1, OnlyCall DEF SoloDuring, Solo, UnderWay, At
  <2>. QED BY <1>7, <2>1, WhoIsWho DEF At
<1>10. \A e \in Calls : SoloPlace(e)'
  <2>1. SoloPlace(c)'
    BY <1>1, <1>2, <1>5, <1>7, <1>8 DEF SoloPlace, Preparing, Waits, At
  <2>. QED BY <1>9, <2>1 DEF SoloPlace, Preparing, Waits, At
<1>11. Unborn'
  BY <1>0, <1>1, <1>2, <1>5, <1>7 DEF Unborn, At
<1>12. SoloJobs'
  BY <1>0, <1>5, <1>7, <1>8 DEF SoloJobs, SoloDuring, SoloStory, At
<1>. QED BY <1>10, <1>11, <1>12 DEF SoloStory

LEMMA SoloEnqueues ==
    ASSUME SoloDuring, NEW s \in Submissions, Enqueue(s)
    PROVE  SoloStory'
<1>. DEFINE c == Call(s)
<1>0. c \in Calls /\ Inline(s) \in Deliveries
  BY WhoIsWho
<1>1. work[c].step = "enqueue" /\ UnderWay(c) /\ Preparing(c) /\ UNCHANGED <<request, owner, jobs>>
  BY DEF Enqueue, At, UnderWay, Preparing
<1>2. /\ CallPlace(c) /\ SoloPlace(c) /\ work[c] \in Works /\ c \in Workers /\ c \notin Deliveries
      /\ request \in Statuses \ {"NONE"} /\ PrivacyTypeOK
  BY <1>0, <1>1, CallKnows DEF SoloDuring, During
<1>3. work[c].key = Person /\ jobs[Person] = "QUEUED" /\ request = "APPROVED" /\ \A d \in Deliveries : At(d, "idle")
  BY <1>1, <1>2 DEF SoloPlace, CallPlace, At
<1>4. /\ work'[c].step = "queue" /\ work'[Inline(s)].step = "waiting"
      /\ \A d \in Deliveries : \/ work'[d] = work[d]
                               \/ work'[d].step = "waiting" /\ work'[d].key = Person
  BY <1>2, <1>3, EnqueueLeft DEF Deliveries
<1>5. \A e \in Calls \ {c} : At(e, "idle")'
  <2>1. \A e \in Calls \ {c} : At(e, "idle")
    BY <1>0, <1>1, OnlyCall DEF SoloDuring, Solo, At
  <2>2. \A t \in Submissions \ {s} : work'[Call(t)] = work[Call(t)]
    BY <1>2, EnqueueLeft
  <2>. QED BY <2>1, <2>2 DEF At, Calls
<1>6. \A e \in Calls : SoloPlace(e)'
  <2>1. SoloPlace(c)'
    BY <1>1, <1>3, <1>4 DEF SoloPlace, Preparing, Waits, At
  <2>. QED BY <1>5, <2>1 DEF SoloPlace, Preparing, Waits, At
<1>7. Unborn'
  BY <1>0, <1>1, <1>2, <1>4 DEF Unborn, At
<1>8. SoloJobs'
  BY <1>0, <1>1, <1>3, <1>4 DEF SoloJobs, SoloDuring, SoloStory, At
<1>. QED BY <1>6, <1>7, <1>8 DEF SoloStory


\* A delivery makes a step: whoever was responsible for the job still is, or hands
\* it on.
LEMMA DeliveryOnly ==
    ASSUME SoloDuring, NEW d \in Deliveries, NEW r, Acts(d, r), ~At(d, "idle"), r.step # "idle",
           r.key = work[d].key, request' # "NONE", jobs'[Nobody] = jobs[Nobody],
           (\E c \in Calls : Waits(c)) =>
              /\ request' = request /\ jobs'[Person] \in {"QUEUED", "RUNNING"}
              /\ r.step \in {"waiting", "start", "done"},
           request' = request \/ request' \in Terminal \/ jobs'[Person] # "NONE",
           jobs[Person] # "NONE" => jobs'[Person] # "NONE",
           jobs'[Person] = "QUEUED" => jobs[Person] = "QUEUED" /\ ~At(d, "waiting"),
           jobs'[Person] = "RUNNING" => Holds(d)' \/ (jobs[Person] = "RUNNING" /\ ~Holds(d)),
           jobs'[Person] \in {"FAILED", "COMPLETED"} =>
              \/ request' \in Terminal \/ Closes(d)'
              \/ jobs'[Person] = jobs[Person] /\ request' = request /\ ~Closes(d)
    PROVE  SoloStory'
<1>1. /\ work'[d] = r /\ \A v \in Workers \ {d} : work'[v] = work[v]
      /\ \A c \in Calls : work'[c] = work[c]
      /\ \A e \in Deliveries \ {d} : work'[e] = work[e]
  BY ActTypes, WhoIsWho DEF SoloDuring, During
<1>2. \A c \in Calls : ~Preparing(c) /\ SoloPlace(c)
  BY DEF SoloDuring, SoloStory, SoloPlace
<1>3. \A c \in Calls : SoloPlace(c)'
  <2>. SUFFICES ASSUME NEW c \in Calls PROVE SoloPlace(c)'
    OBVIOUS
  <2>1. /\ Preparing(c)' <=> Preparing(c)
        /\ Waits(c)' <=> Waits(c)
        /\ At(c, "done")' <=> At(c, "done")
    BY <1>1 DEF Preparing, Waits, At
  <2>2. At(c, "done") => request' \in Terminal \/ jobs'[Person] # "NONE"
    BY <1>2 DEF SoloPlace
  <2>3. Waits(c) => /\ request' = "APPROVED" /\ jobs'[Person] \in {"QUEUED", "RUNNING"}
                    /\ \A e \in Deliveries : work'[e].step \in {"idle", "waiting", "start", "done"}
    BY <1>1, <1>2 DEF SoloPlace
  <2>. QED BY <1>2, <2>1, <2>2, <2>3 DEF SoloPlace
<1>4. Unborn'
  <2>1. request # "NONE"
    BY DEF SoloDuring, SoloStory, Unborn
  <2>. QED BY <1>1, <2>1 DEF SoloDuring, SoloStory, Unborn, At
<1>5. jobs'[Nobody] = "NONE" /\ \A e \in Deliveries : ~At(e, "idle")' => work'[e].key = Person
  BY <1>1 DEF SoloDuring, SoloStory, SoloJobs, At
<1>6. jobs'[Person] = "QUEUED" => \E s \in Submissions : At(Inline(s), "waiting")'
  <2>1. jobs[Person] = "QUEUED" => \E s \in Submissions : At(Inline(s), "waiting")
    <3>1. \A c \in Calls : ~At(c, "enqueue")
      BY <1>2 DEF Preparing, At
    <3>. QED BY <3>1 DEF SoloDuring, SoloStory, SoloJobs
  <2>. QED BY <1>1, <2>1, WhoIsWho DEF At
<1>7. jobs'[Person] = "RUNNING" => \E e \in Deliveries : Holds(e)'
  <2>1. \A e \in Deliveries \ {d} : Holds(e) => Holds(e)'
    BY <1>1 DEF Holds
  <2>. QED BY <2>1 DEF SoloDuring, SoloStory, SoloJobs
<1>8. jobs'[Person] \in {"FAILED", "COMPLETED"} => request' \in Terminal \/ \E e \in Deliveries : Closes(e)'
  <2>1. \A e \in Deliveries \ {d} : Closes(e) => Closes(e)'
    BY <1>1 DEF Closes, At
  <2>. QED BY <2>1 DEF SoloDuring, SoloStory, SoloJobs
<1>. QED BY <1>3, <1>4, <1>5, <1>6, <1>7, <1>8 DEF SoloJobs, SoloStory

\* What is known of a delivery that has begun.
LEMMA DeliveryKnows ==
    ASSUME SoloDuring, NEW d \in Deliveries, ~At(d, "idle")
    PROVE  /\ DeliveryPlace(d) /\ work[d].key = Person
           /\ work[d] \in Works /\ d \in Workers /\ d \notin Calls
           /\ request \in Statuses \ {"NONE"} /\ Nobody # Person /\ PrivacyTypeOK
           /\ (\E c \in Calls : Waits(c)) =>
                 /\ request = "APPROVED" /\ jobs[Person] \in {"QUEUED", "RUNNING"}
                 /\ work[d].step \in {"waiting", "start", "done"}
<1>1. DeliveryPlace(d) /\ work[d].key = Person /\ work[d] \in Works /\ d \in Workers /\ d \notin Calls /\ PrivacyTypeOK
  BY WhoIsWho DEF SoloDuring, During, Story, SoloStory, SoloJobs, PrivacyTypeOK
<1>2. request \in Statuses \ {"NONE"}
  BY DEF SoloDuring, During, SoloStory, Unborn, PrivacyTypeOK
<1>3. (\E c \in Calls : Waits(c)) =>
                 /\ request = "APPROVED" /\ jobs[Person] \in {"QUEUED", "RUNNING"}
                 /\ work[d].step \in {"waiting", "start", "done"}
  BY DEF SoloDuring, SoloStory, SoloPlace, At
<1>. QED BY <1>1, <1>2, <1>3

LEMMA SoloDeliveryReads ==
    ASSUME SoloDuring, NEW d \in Deliveries,
           \/ ReadStatus(d, "start", "RUNNING", "policy") \/ ReadStatus(d, "fail", "FAILED", "done")
           \/ ReadStatus(d, "finish", "COMPLETED", "done")
    PROVE  SoloStory'
<1>1. PICK st, to, nx : /\ ReadStatus(d, st, to, nx)
                        /\ <<st, to, nx>> \in {<<"start", "RUNNING", "policy">>, <<"fail", "FAILED", "done">>,
                                               <<"finish", "COMPLETED", "done">>}
  OBVIOUS
<1>2. work[d].step = st /\ ~At(d, "idle") /\ UNCHANGED <<request, jobs>>
  BY <1>1 DEF ReadStatus, At
<1>3. /\ DeliveryPlace(d) /\ work[d].key = Person /\ work[d] \in Works /\ d \in Workers /\ d \notin Calls
      /\ request \in Statuses \ {"NONE"} /\ PrivacyTypeOK
  BY <1>2, DeliveryKnows
<1>4. work' # [work EXCEPT ![d] = Thrown(d)]
  BY <1>3, ThrowingStumbles DEF SoloDuring
<1>5. ~\E c \in Calls : Waits(c)
  <2>1. request = "APPROVED" => <<request, to>> \notin Transitions /\ request # to /\ request \notin Terminal
    BY <1>1 DEF Transitions, Terminal
  <2>. QED BY <1>1, <1>2, <1>4, <2>1, DeliveryKnows DEF ReadStatus
<1>6. "write" \in Steps /\ to \in Statuses /\ nx \in Steps
  BY <1>1 DEF Steps, Statuses
<1>7. PICK r \in Works : /\ Acts(d, r) /\ r.key = work[d].key
                         /\ \/ r.step = "write" /\ r.to = to /\ r.next = nx
                            \/ r.step = nx /\ (request = to \/ request \in Terminal)
  <2>1. CASE work' = [work EXCEPT ![d] = [work[d] EXCEPT !.step = "write", !.to = to, !.next = nx]]
    <3>. DEFINE r == [work[d] EXCEPT !.step = "write", !.to = to, !.next = nx]
    <3>1. r \in Works /\ r.step = "write" /\ r.to = to /\ r.next = nx /\ r.key = work[d].key
      BY <1>3, <1>6 DEF Works
    <3>. QED BY <2>1, <3>1 DEF Acts
  <2>2. CASE work' = [work EXCEPT ![d] = Returned(d, nx, request)] /\ (request = to \/ request \in Terminal)
    <3>1. /\ Returned(d, nx, request) \in Works /\ Returned(d, nx, request).step = nx
          /\ Returned(d, nx, request).key = work[d].key
      BY <1>3, <1>6, ReturnedWork
    <3>. QED BY <2>2, <3>1 DEF Acts
  <2>. QED BY <1>1, <1>4, <2>1, <2>2 DEF ReadStatus
<1>8. work'[d] = r
  BY <1>3, <1>7, ActTypes
<1>9. r.step # "idle" /\ ~At(d, "waiting")
  BY <1>1, <1>2, <1>7 DEF At
<1>10. Holds(d)' \/ ~Holds(d)
  BY <1>1, <1>2, <1>7, <1>8 DEF Holds
<1>11. request' \in Terminal \/ Closes(d)' \/ ~Closes(d)
  BY <1>1, <1>2, <1>7, <1>8 DEF Closes, At, Terminal
<1>. QED BY <1>2, <1>3, <1>5, <1>7, <1>9, <1>10, <1>11, DeliveryOnly

LEMMA SoloDeliveryWrites ==
    ASSUME SoloDuring, NEW d \in Deliveries, WriteStatus(d)
    PROVE  SoloStory'
<1>. DEFINE to == work[d].to
            nx == work[d].next
            r == Returned(d, nx, to)
<1>1. work[d].step = "write" /\ UnderWay(d) /\ ~At(d, "idle") /\ ~At(d, "waiting") /\ request' = to /\ UNCHANGED jobs
  BY DEF WriteStatus, At, UnderWay
<1>2. /\ DeliveryPlace(d) /\ work[d].key = Person /\ work[d] \in Works /\ d \in Workers /\ d \notin Calls
      /\ PrivacyTypeOK /\ ~\E c \in Calls : Waits(c)
  BY <1>1, DeliveryKnows
<1>3. \/ to = "RUNNING" /\ nx = "policy" /\ Holds(d) /\ jobs[Person] = "RUNNING"
      \/ to \in {"FAILED", "COMPLETED"} /\ nx = "done" /\ ~Holds(d)
  BY <1>1, <1>2 DEF DeliveryPlace, Holds
<1>4. r \in Works /\ r.step = nx /\ r.key = work[d].key
  <2>1. nx \in Steps /\ to \in Statuses
    BY <1>2 DEF Works
  <2>. QED BY <1>2, <2>1, ReturnedWork
<1>5. Acts(d, r)
  BY <1>4 DEF Acts, WriteStatus
<1>. HIDE DEF r
<1>6. work'[d] = r
  BY <1>2, <1>5, ActTypes
<1>7. r.step # "idle" /\ request' # "NONE"
  BY <1>1, <1>3, <1>4
<1>8. Holds(d)' \/ ~Holds(d)
  BY <1>3, <1>4, <1>6 DEF Holds
<1>9. request' \in Terminal \/ jobs'[Person] = "RUNNING"
  BY <1>1, <1>3 DEF Terminal
<1>. QED BY <1>1, <1>2, <1>4, <1>5, <1>7, <1>8, <1>9, DeliveryOnly

LEMMA SoloClaims ==
    ASSUME SoloDuring, NEW d \in Deliveries, Claim(d)
    PROVE  SoloStory'
<1>1. work[d].step = "waiting" /\ ~At(d, "idle") /\ UNCHANGED request /\ ~Holds(d) /\ ~Closes(d)
  BY DEF Claim, At, Holds, Closes
<1>2. /\ work[d].key = Person /\ work[d] \in Works /\ d \in Workers /\ d \notin Calls
      /\ request \in Statuses \ {"NONE"} /\ PrivacyTypeOK /\ Nobody # Person
      /\ (\E c \in Calls : Waits(c)) => request = "APPROVED" /\ jobs[Person] \in {"QUEUED", "RUNNING"}
  BY <1>1, DeliveryKnows
<1>3. PICK st \in {"start", "done"} :
         /\ Goes(d, st)
         /\ st = "start" => Claimable(jobs[Person]) /\ jobs' = [jobs EXCEPT ![Person] = "RUNNING"]
         /\ st = "done" => ~Claimable(jobs[Person]) /\ jobs' = jobs
  <2>1. CASE Claimable(jobs[Person])
    BY <1>2, <2>1 DEF Claim
  <2>2. CASE ~Claimable(jobs[Person])
    BY <1>2, <2>2 DEF Claim
  <2>. QED BY <2>1, <2>2
<1>. DEFINE r == [work[d] EXCEPT !.step = st]
<1>4. r \in Works /\ r.step = st /\ r.key = work[d].key
  BY <1>2 DEF Works, Steps
<1>5. Acts(d, r)
  BY <1>3, <1>4 DEF Acts, Goes
<1>. HIDE DEF r
<1>6. work'[d] = r
  BY <1>2, <1>5, ActTypes
<1>7. /\ jobs'[Nobody] = jobs[Nobody]
      /\ st = "start" => jobs'[Person] = "RUNNING" /\ Holds(d)'
      /\ st = "done" => jobs' = jobs /\ jobs[Person] # "QUEUED"
  BY <1>2, <1>3, <1>4, <1>6 DEF PrivacyTypeOK, Owners, Holds, Claimable
<1>. QED BY <1>1, <1>2, <1>3, <1>4, <1>5, <1>7, DeliveryOnly

LEMMA SoloHolderActs ==
    ASSUME SoloDuring, NEW d \in Deliveries,
           \/ JudgeDelivery(d) \/ WriteJob(d, "refuse", "FAILED", "fail")
           \/ Execute(d) \/ WriteJob(d, "complete", "COMPLETED", "finish")
    PROVE  SoloStory'
<1>1. /\ work[d].step \in {"policy", "refuse", "execute", "complete"} /\ UnderWay(d) /\ Holds(d)
      /\ ~At(d, "idle") /\ ~At(d, "waiting") /\ ~Closes(d) /\ request' = request
  BY DEF JudgeDelivery, WriteJob, Execute, At, UnderWay, Holds, Closes
<1>2. /\ DeliveryPlace(d) /\ work[d].key = Person /\ work[d] \in Works /\ d \in Workers /\ d \notin Calls
      /\ request \in Statuses \ {"NONE"} /\ PrivacyTypeOK /\ Nobody # Person /\ ~\E c \in Calls : Waits(c)
  BY <1>1, DeliveryKnows
<1>3. jobs[Person] = "RUNNING"
  BY <1>1, <1>2 DEF DeliveryPlace
<1>4. PICK st \in {"refuse", "execute", "fail", "complete", "finish"} :
         /\ Goes(d, st)
         /\ st \in {"refuse", "execute", "complete"} => jobs' = jobs
         /\ st = "fail" => jobs' = [jobs EXCEPT ![Person] = "FAILED"]
         /\ st = "finish" => jobs' = [jobs EXCEPT ![Person] = "COMPLETED"]
  <2>1. CASE JudgeDelivery(d)
    BY <2>1 DEF JudgeDelivery
  <2>2. CASE WriteJob(d, "refuse", "FAILED", "fail")
    BY <1>2, <2>2 DEF WriteJob
  <2>3. CASE Execute(d)
    BY <2>3 DEF Execute
  <2>4. CASE WriteJob(d, "complete", "COMPLETED", "finish")
    BY <1>2, <2>4 DEF WriteJob
  <2>. QED BY <2>1, <2>2, <2>3, <2>4
<1>. DEFINE r == [work[d] EXCEPT !.step = st]
<1>5. r \in Works /\ r.step = st /\ r.key = work[d].key
  BY <1>2 DEF Works, Steps
<1>6. Acts(d, r)
  BY <1>4, <1>5 DEF Acts, Goes
<1>. HIDE DEF r
<1>7. work'[d] = r
  BY <1>2, <1>6, ActTypes
<1>8. /\ jobs'[Nobody] = jobs[Nobody]
      /\ st \in {"refuse", "execute", "complete"} => jobs'[Person] = "RUNNING" /\ Holds(d)'
      /\ st = "fail" => jobs'[Person] = "FAILED" /\ Closes(d)'
      /\ st = "finish" => jobs'[Person] = "COMPLETED" /\ Closes(d)'
  BY <1>2, <1>3, <1>4, <1>5, <1>7 DEF PrivacyTypeOK, Owners, Holds, Closes
<1>. QED BY <1>1, <1>2, <1>4, <1>5, <1>6, <1>8, DeliveryOnly


\* The first and only submission.
LEMMA SoloBegins ==
    ASSUME PrivacyTypeOK, PrivacyTypeOK', Solo, ~Resubmitted', SoloInv, NEW s \in Submissions, Submit(s)
    PROVE  /\ Unborn'
           /\ kind = "data_access" => SoloAccess'
           /\ kind # "data_access" => SoloJobs' /\ \A c \in Calls : SoloPlace(c)'
<1>. DEFINE b == Call(s)
<1>0. b \in Calls /\ b \in Workers /\ b \notin Deliveries
  BY WhoIsWho
<1>1. /\ At(b, "idle") /\ work'[b].step \in {"policy", "review", "done"} /\ work'[b].key = owner
      /\ \A v \in Workers \ {b} : work'[v] = work[v]
      /\ \A d \in Deliveries : work'[d] = work[d]
  BY <1>0, SubmitWork, WhoIsWho
<1>2. ~At(b, "idle")'
  BY <1>1 DEF At
<1>3. \A c \in Calls \ {b} : At(c, "idle") /\ At(c, "idle")'
  <2>1. \A c \in Calls \ {b} : At(c, "idle")'
    <3>. SUFFICES ASSUME NEW c \in Calls \ {b}, ~At(c, "idle")' PROVE FALSE
      OBVIOUS
    <3>1. PICK t \in Submissions : c = Call(t)
      BY DEF Calls
    <3>. QED BY <1>2, <3>1 DEF Resubmitted
  <2>. QED BY <1>1, <2>1, WhoIsWho DEF At
<1>4. request = "NONE"
  <2>1. \A c \in Calls : At(c, "idle")
    BY <1>1, <1>3
  <2>. QED BY <2>1 DEF SoloInv, Unborn
<1>5. /\ \A d \in Deliveries : At(d, "idle")
      /\ owner = Person /\ \A k \in Owners : jobs[k] = "NONE"
  BY <1>4 DEF SoloInv, Unborn
<1>6. \A d \in Deliveries : At(d, "idle")'
  BY <1>1, <1>5 DEF At
<1>7. /\ work' = [work EXCEPT ![b] = Returned(b, IF kind = "data_access" THEN "policy" ELSE "review", request')]
      /\ request' = (IF kind = "data_access" THEN "POLICY_REVIEW" ELSE "OPEN")
      /\ UNCHANGED <<kind, jobs, owner>>
  BY <1>4 DEF Submit
<1>8. Unborn'
  BY <1>0, <1>2, <1>7 DEF Unborn
<1>9. work'[b].step = IF kind = "data_access" THEN "policy" ELSE "review"
  <2>1. Returned(b, IF kind = "data_access" THEN "policy" ELSE "review", request').step
            = IF kind = "data_access" THEN "policy" ELSE "review"
    BY <1>0 DEF Returned, Idle
  <2>. QED BY <1>0, <1>7, <2>1 DEF PrivacyTypeOK
<1>10. ASSUME kind = "data_access" PROVE SoloAccess'
  BY <1>3, <1>6, <1>9, <1>10 DEF SoloAccess, AccessPlace, At
<1>11. ASSUME kind # "data_access" PROVE SoloJobs' /\ \A c \in Calls : SoloPlace(c)'
  <2>1. SoloJobs'
    BY <1>5, <1>6, <1>7 DEF SoloJobs, Owners
  <2>2. SoloPlace(b)'
    BY <1>1, <1>5, <1>6, <1>7, <1>9, <1>11 DEF SoloPlace, Preparing, Waits, At, Owners
  <2>3. \A c \in Calls \ {b} : SoloPlace(c)'
    BY <1>3 DEF SoloPlace, Preparing, Waits, At
  <2>. QED BY <2>1, <2>2, <2>3
<1>. QED BY <1>8, <1>10, <1>11

LEMMA SoloFails ==
    ASSUME PrivacyTypeOK, OnTime, ~Stumbled', NEW w \in Workers
    PROVE  ~Fail(w)
BY ThrowingStumbles DEF Fail

\* The call of a data-access request judges it and writes its verdict.
LEMMA AccessStep ==
    ASSUME PrivacyTypeOK, PrivacyTypeOK', Solo, Unborn, SoloAccess, kind = "data_access",
           NEW s \in Submissions, CallStep(s)
    PROVE  Unborn' /\ SoloAccess'
<1>. DEFINE c == Call(s)
<1>0. c \in Calls /\ c \in Workers /\ c \notin Deliveries /\ work[c] \in Works /\ "write" \in Steps
      /\ {"REJECTED", "COMPLETED"} \subseteq Statuses
  BY WhoIsWho DEF PrivacyTypeOK, Steps, Statuses
<1>1. AccessPlace(c)
  BY <1>0 DEF SoloAccess
<1>2. JudgeCall(s) \/ WriteStatus(c)
  BY <1>1 DEF CallStep, AccessPlace, At, ReadStatus, FindJob, CreateJob, ResetJob, Enqueue
<1>3. ~At(c, "idle") /\ UNCHANGED <<owner, jobs>>
  BY <1>2 DEF JudgeCall, WriteStatus, At
<1>4. PICK r \in Works : /\ Acts(c, r)
                         /\ \/ /\ r.step = "write" /\ r.to \in {"REJECTED", "COMPLETED"} /\ r.next = "done"
                               /\ request' = request
                            \/ r.step = "done" /\ request' \in Terminal
  <2>1. CASE JudgeCall(s)
    <3>1. PICK to \in {"REJECTED", "COMPLETED"} :
             work' = [work EXCEPT ![c] = [work[c] EXCEPT !.step = "write", !.next = "done", !.to = to]]
      BY <2>1 DEF JudgeCall
    <3>. DEFINE r == [work[c] EXCEPT !.step = "write", !.next = "done", !.to = to]
    <3>2. r \in Works /\ r.step = "write" /\ r.to = to /\ r.next = "done"
      <4>1. "done" \in Steps /\ to \in Statuses
        BY <1>0 DEF Steps
      <4>. QED BY <1>0, <4>1 DEF Works
    <3>3. Acts(c, r) /\ request' = request
      BY <2>1, <3>1, <3>2 DEF Acts, JudgeCall
    <3>. QED BY <3>2, <3>3
  <2>2. CASE WriteStatus(c)
    <3>1. work[c].to \in {"REJECTED", "COMPLETED"} /\ work[c].next = "done" /\ work[c].to \in Statuses
      BY <1>0, <1>1, <2>2 DEF WriteStatus, AccessPlace, At
    <3>. DEFINE r == Returned(c, "done", work[c].to)
    <3>2. "done" \in Steps
      BY DEF Steps
    <3>3. r \in Works /\ r.step = "done"
      BY <1>0, <3>1, <3>2, ReturnedWork
    <3>4. work' = [work EXCEPT ![c] = r] /\ request' = work[c].to
      BY <2>2, <3>1 DEF WriteStatus
    <3>. QED BY <3>1, <3>3, <3>4 DEF Acts, Terminal
  <2>. QED BY <1>2, <2>1, <2>2
<1>5. /\ work'[c] = r /\ \A v \in Workers \ {c} : work'[v] = work[v]
      /\ \A d \in Deliveries : work'[d] = work[d]
  BY <1>0, <1>4, ActTypes, WhoIsWho
<1>6. \A e \in Calls \ {c} : At(e, "idle") /\ At(e, "idle")'
  <2>1. \A e \in Calls \ {c} : At(e, "idle")
    BY <1>0, <1>3, OnlyCall DEF Solo
  <2>. QED BY <1>5, <2>1, WhoIsWho DEF At
<1>7. \A d \in Deliveries : At(d, "idle") /\ At(d, "idle")'
  BY <1>5 DEF SoloAccess, At
<1>8. Unborn'
  <2>1. ~At(c, "idle")'
    BY <1>4, <1>5 DEF At
  <2>2. request' = "NONE" => request = "NONE"
    BY <1>4 DEF Terminal
  <2>. QED BY <1>0, <1>3, <1>7, <2>1, <2>2 DEF Unborn
<1>9. AccessPlace(c)'
  BY <1>4, <1>5 DEF AccessPlace, At
<1>10. SoloAccess'
  BY <1>6, <1>7, <1>9 DEF SoloAccess, AccessPlace
<1>. QED BY <1>8, <1>10

LEMMA SoloStep ==
    ASSUME PrivacyInv, PrivacyInv', ApartInv, OnTime, SoloInv, [PrivacyNext]_privacyVars
    PROVE  SoloInv'
<1>. PrivacyTypeOK /\ PrivacyTypeOK'
  BY DEF PrivacyInv
<1>. SUFFICES ASSUME ~Resubmitted', ~Stumbled'
              PROVE  /\ Unborn'
                     /\ kind' = "data_access" => SoloAccess'
                     /\ kind' # "data_access" => SoloJobs' /\ \A c \in Calls : SoloPlace(c)'
  BY DEF SoloInv, Solo
<1>1. Solo /\ kind' = kind /\ ~overlapped
  BY SoloBefore, ApartBefore DEF Solo, OnTime
<1>2. kind # "data_access" => SoloDuring
  BY <1>1 DEF SoloDuring, SoloStory, During, SoloInv, ApartInv, Apart
<1>3. kind = "data_access" => Unborn /\ SoloAccess
  BY <1>1 DEF SoloInv
<1>4. ASSUME NEW s \in Submissions, Submit(s) PROVE SoloInv'
  BY <1>1, <1>4, SoloBegins DEF SoloInv
<1>5. ASSUME NEW s \in Submissions, CallStep(s) PROVE Unborn' /\ (kind = "data_access" => SoloAccess')
                                                     /\ (kind # "data_access" => SoloStory')
  <2>1. CASE kind = "data_access"
    BY <1>1, <1>3, <1>5, <2>1, AccessStep
  <2>2. CASE kind # "data_access"
    <3>1. Call(s) \in Calls
      BY WhoIsWho
    <3>2. SoloStory'
      BY <1>2, <1>5, <2>2, <3>1, SoloReads, SoloWrites, SoloGoes, SoloQueues, SoloEnqueues DEF CallStep
    <3>. QED BY <2>2, <3>2 DEF SoloStory
  <2>. QED BY <2>1, <2>2
<1>6. ASSUME NEW d \in Deliveries, DeliveryStep(d) PROVE kind # "data_access" /\ SoloStory'
  <2>1. kind # "data_access"
    <3>1. ~At(d, "idle")
      BY <1>6 DEF DeliveryStep, ReadStatus, WriteStatus, Claim, JudgeDelivery, WriteJob, Execute, At
    <3>. QED BY <1>3, <3>1 DEF SoloAccess
  <2>. QED BY <1>2, <1>6, <2>1, SoloDeliveryReads, SoloDeliveryWrites, SoloClaims, SoloHolderActs DEF DeliveryStep
<1>7. ASSUME NEW w \in Workers, Fail(w) PROVE FALSE
  BY <1>7, SoloFails
<1>8. ASSUME SetHold \/ UNCHANGED privacyVars
      PROVE  Unborn' /\ (kind = "data_access" => SoloAccess') /\ (kind # "data_access" => SoloStory')
  <2>1. UNCHANGED <<request, owner, jobs, work>>
    BY <1>8 DEF SetHold, privacyVars
  <2>2. Unborn => Unborn'
    BY <2>1 DEF Unborn, At
  <2>3. SoloAccess => SoloAccess'
    BY <2>1 DEF SoloAccess, AccessPlace, At
  <2>4. SoloJobs => SoloJobs'
    BY <2>1 DEF SoloJobs, At, Holds, Closes
  <2>5. ASSUME NEW c \in Calls, SoloPlace(c) PROVE SoloPlace(c)'
    BY <2>1, <2>5 DEF SoloPlace, Preparing, Waits, At
  <2>. QED BY <1>2, <1>3, <2>2, <2>3, <2>4, <2>5 DEF SoloDuring, SoloStory
<1>9. \/ \E s \in Submissions : Submit(s) \/ CallStep(s)
      \/ \E d \in Deliveries : DeliveryStep(d)
      \/ SetHold \/ UNCHANGED privacyVars
  BY <1>7 DEF PrivacyNext
<1>10. Solo'
  BY DEF Solo
<1>. QED BY <1>1, <1>4, <1>5, <1>6, <1>8, <1>9, <1>10 DEF SoloInv, SoloStory

\* At rest the call is done, and what it left to others is done as well.
LEMMA SoloRest ==
    ASSUME PrivacyTypeOK, OnTime, SoloInv
    PROVE  RestsClosed
<1>. SUFFICES ASSUME \A w \in Workers : ~UnderWay(w), request # "NONE", ~Resubmitted, ~Stumbled
              PROVE  request \in Terminal
  BY DEF RestsClosed
<1>1. \A w \in Workers : work[w].step \in {"idle", "done"}
  BY DEF UnderWay, Stumbled, At
<1>2. PICK c \in Calls : At(c, "done")
  <2>1. \E c \in Calls : ~At(c, "idle")
    BY DEF SoloInv, Solo, Unborn
  <2>. QED BY <1>1, <2>1, WhoIsWho DEF At
<1>3. CASE kind = "data_access"
  BY <1>2, <1>3 DEF SoloInv, Solo, SoloAccess, AccessPlace, At
<1>4. CASE kind # "data_access"
  <2>1. SoloJobs /\ (request \in Terminal \/ jobs[Person] # "NONE")
    BY <1>2, <1>4 DEF SoloInv, Solo, SoloPlace
  <2>2. jobs[Person] \in JobStatuses
    BY DEF PrivacyTypeOK, Owners
  <2>3. /\ \A e \in Calls : ~At(e, "enqueue")
        /\ \A s \in Submissions : ~At(Inline(s), "waiting")
        /\ \A d \in Deliveries : ~Holds(d) /\ ~Closes(d)
    BY <1>1, WhoIsWho DEF At, Holds, Closes
  <2>. QED BY <2>1, <2>2, <2>3 DEF SoloJobs, JobStatuses
<1>. QED BY <1>3, <1>4

\* As long as a request was submitted once and nothing stumbled, somebody who has
\* not come to rest is responsible for what is left to do.
THEOREM SoloRequestsProgress == PrivacySpec => [](OnTime /\ SoloInv)
<1>1. PrivacyInit => OnTime /\ SoloInv
  <2>. SUFFICES ASSUME PrivacyInit PROVE OnTime /\ SoloInv
    OBVIOUS
  <2>1. \A w \in Workers : work[w].step = "idle" /\ work[w].left = 0
    BY DEF PrivacyInit, Idle
  <2>2. OnTime
    BY <2>1, WhoIsWho DEF PrivacyInit, OnTime, At
  <2>3. Unborn /\ SoloAccess
    BY <2>1, WhoIsWho DEF PrivacyInit, Unborn, SoloAccess, AccessPlace, At
  <2>4. \A c \in Calls : SoloPlace(c)
    BY <2>1, WhoIsWho DEF SoloPlace, Preparing, Waits, At
  <2>5. SoloJobs
    BY <2>1, WhoIsWho DEF PrivacyInit, SoloJobs, Owners, At
  <2>. QED BY <2>2, <2>3, <2>4, <2>5 DEF SoloInv
<1>2. ASSUME PrivacyInv, PrivacyInv', ApartInv, OnTime, SoloInv, [PrivacyNext]_privacyVars
      PROVE  OnTime' /\ SoloInv'
  BY <1>2, OnTimeStep, SoloStep
<1>. QED BY <1>1, <1>2, PrivacyInvariance, CallsAndJobsTellOneStory, PTL DEF PrivacySpec

\* When nothing is under way any more, a request submitted once is closed unless a
\* worker stumbled, for any number of holds and failures.
THEOREM SoloRequestsRestClosed == PrivacySpec => []RestsClosed
<1>1. PrivacyTypeOK /\ OnTime /\ SoloInv => RestsClosed
  BY SoloRest
<1>. QED BY <1>1, PrivacyTypes, SoloRequestsProgress, PTL

=============================================================================
