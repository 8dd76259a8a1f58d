------------------------------- MODULE JobFlow -------------------------------
(* One flow of BullMQ jobs as model-lifecycle-orchestration.service.ts and    *)
(* research-lab-orchestration.service.ts chain them: every job is the only    *)
(* child of the next one, which is delivered once its child is done; a job    *)
(* has two attempts, and one that fails for good keeps its parents waiting    *)
(* for ever.  A worker's attempt consists of the steps between two awaits     *)
(* that another process may see.                                              *)
EXTENDS Naturals, Sequences

CONSTANT Nothing        \* nothing read yet, no row

Attempts == 2

\* The job of the flow that is next or running, how far its attempt is, the
\* attempts it has used up, and what the attempt has read and not yet used.
NoJob == [nr |-> 0, step |-> "start", tries |-> 0, held |-> Nothing]
JobNr(n) == [NoJob EXCEPT !.nr = n]

IsAt(job, jobs, name, step) ==
    /\ job.nr \in DOMAIN jobs /\ jobs[job.nr] = name
    /\ job.step = step /\ job.tries < Attempts

\* The attempt goes on; it ends well; it ends badly.
Onward(job, step, value) == [job EXCEPT !.step = step, !.held = value]
Done(job) == JobNr(job.nr + 1)
Failed(job) == [JobNr(job.nr) EXCEPT !.tries = job.tries + 1]

Running(job, jobs) == job.nr \in DOMAIN jobs /\ job.tries < Attempts

\* The last job is done, or a job has used up its attempts.
Over(job, jobs) == job.nr = Len(jobs) + 1 \/ job.tries = Attempts
=============================================================================
