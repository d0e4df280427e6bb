------------------------------ MODULE JobQueue ------------------------------
(***************************************************************************)
(* The background jobs of one site: the table ho_jobs, the tools and       *)
(* actions that fill it, and the job workers that poll it (brain/jobs.go). *)
(* The manager runs one worker per site, but StopSite does not wait for    *)
(* it: a stopped worker that is in the middle of a job overlaps with the   *)
(* worker of the next StartSite.                                           *)
(***************************************************************************)
EXTENDS Naturals

CONSTANTS
    NumJobs,        \* jobs ever enqueued: BOUND of the model
    Workers,        \* job workers, running and stopped
    Requests,       \* values of max_attempts that callers ask for
    Bound           \* bound on stops, crashes and failed statements

Jobs == 1 .. NumJobs
Budgets == {"stops", "crashes", "dbfails"}

\* From the 62nd attempt on the backoff no longer fits an int, which the module
\* leaves out.
ASSUME JobsAssumption ==
    /\ NumJobs \in Nat
    /\ Requests \subseteq 0 .. 61
    /\ Bound \in [Budgets -> Nat]
    /\ "none" \notin Workers

VARIABLES
    status,    \* ho_jobs.status, "absent" before the job is enqueued
    attempts,  \* ho_jobs.attempts
    limit,     \* ho_jobs.max_attempts
    due,       \* scheduled_at has come
    pc,        \* where each worker is
    job,       \* the job each worker has selected
    handle,    \* the worker the manager has for the site, or "none"
    used       \* how much of each bound is used up

rows == <<status, attempts, limit, due>>
vars == <<rows, pc, job, handle, used>>

Statuses == {"absent", "pending", "running", "completed", "failed", "cancelled"}

\* A worker holds its job from the claim to the statement that reports the result.
Holding == {"exec", "done", "erred", "retry", "giveup"}
Points == {"off", "poll", "claim"} \cup Holding

Holds(w, j) == pc[w] \in Holding /\ job[w] = j
Orphan(j) == status[j] = "running" /\ ~\E w \in Workers : Holds(w, j)

Init ==
    /\ status = [j \in Jobs |-> "absent"]
    /\ attempts = [j \in Jobs |-> 0]
    /\ limit = [j \in Jobs |-> 0]
    /\ due = [j \in Jobs |-> FALSE]
    /\ pc = [w \in Workers |-> "off"]
    /\ job = [w \in Workers |-> 1]
    /\ handle = "none"
    /\ used = [k \in Budgets |-> 0]

\* One use of a bounded kind of event: BOUND of the model, not of the code.
Spend(k) ==
    /\ used[k] < Bound[k]
    /\ used' = [used EXCEPT ![k] = @ + 1]

\* Worker w moves on to point p.
Goto(w, p) == pc' = [pc EXCEPT ![w] = p]

-----------------------------------------------------------------------------
(* The tools                                                               *)

\* Ids are handed out in order; a job may be scheduled for later.
Insert(j, n) ==
    /\ status[j] = "absent"
    /\ \A k \in Jobs : k < j => status[k] # "absent"
    /\ status' = [status EXCEPT ![j] = "pending"]
    /\ limit' = [limit EXCEPT ![j] = n]
    /\ \E now \in BOOLEAN : due' = [due EXCEPT ![j] = now]
    /\ UNCHANGED <<attempts, pc, job, handle, used>>

\* manage_jobs enqueue: max_attempts is clamped to 1 .. 10.
Enqueue(j) ==
    \E n \in Requests : Insert(j, CASE n < 1 -> 1 [] n > 10 -> 10 [] OTHER -> n)

\* The action enqueue_job: any positive number is taken and truncated, 0.5 to 0.
ActionEnqueue(j) == \E n \in Requests : Insert(j, n)

\* Wrong on purpose: the status is not looked at.
CancelledAnyway(j) ==
    /\ status[j] # "absent"
    /\ status' = [status EXCEPT ![j] = "cancelled"]
    /\ UNCHANGED <<attempts, limit, due, pc, job, handle, used>>

Cancel(j) ==
    /\ status[j] \in {"pending", "running"}
    /\ status' = [status EXCEPT ![j] = "cancelled"]
    /\ UNCHANGED <<attempts, limit, due, pc, job, handle, used>>

\* Time passes.
Due(j) ==
    /\ status[j] # "absent" /\ ~due[j]
    /\ due' = [due EXCEPT ![j] = TRUE]
    /\ UNCHANGED <<status, attempts, limit, pc, job, handle, used>>

-----------------------------------------------------------------------------
(* A worker: one job per tick                                              *)

Ready(j) == status[j] = "pending" /\ due[j]

\* The oldest job that is ready is read; a stopped worker may still do this, when
\* its ticker and its context are ready together.
Select(w) ==
    /\ pc[w] = "poll"
    /\ \E j \in Jobs :
          /\ Ready(j) /\ \A k \in Jobs : Ready(k) => j <= k
          /\ job' = [job EXCEPT ![w] = j]
    /\ Goto(w, "claim")
    /\ UNCHANGED <<rows, handle, used>>

\* Wrong on purpose: the claim does not look at the status again.
ClaimedBlind(w) ==
    /\ pc[w] = "claim"
    /\ status' = [status EXCEPT ![job[w]] = "running"]
    /\ attempts' = [attempts EXCEPT ![job[w]] = @ + 1]
    /\ Goto(w, "exec")
    /\ UNCHANGED <<limit, due, job, handle, used>>

\* Wrong on purpose: the claim does not count the attempt.
ClaimedUncounted(w) ==
    /\ pc[w] = "claim" /\ status[job[w]] = "pending"
    /\ status' = [status EXCEPT ![job[w]] = "running"]
    /\ Goto(w, "exec")
    /\ UNCHANGED <<attempts, limit, due, job, handle, used>>

\* The claim takes effect only on a job that is still pending; otherwise, or when
\* the statement fails, the worker goes back to its ticker.
Claim(w) ==
    /\ pc[w] = "claim"
    /\ \/ /\ status[job[w]] = "pending"
          /\ status' = [status EXCEPT ![job[w]] = "running"]
          /\ attempts' = [attempts EXCEPT ![job[w]] = @ + 1]
          /\ Goto(w, "exec")
          /\ UNCHANGED used
       \/ /\ status[job[w]] # "pending"
          /\ Goto(w, "poll")
          /\ UNCHANGED <<status, attempts, used>>
       \/ /\ Spend("dbfails")
          /\ Goto(w, "poll")
          /\ UNCHANGED <<status, attempts>>
    /\ UNCHANGED <<limit, due, job, handle>>

\* executeJob: mail, request, query or nothing at all; each may fail and all return.
Execute(w) ==
    /\ pc[w] = "exec"
    /\ Goto(w, "done") \/ Goto(w, "erred")
    /\ UNCHANGED <<rows, job, handle, used>>

\* The result is written whatever the status is by now.  If the statement fails
\* nobody notices.
Report(w, s) ==
    \/ status' = [status EXCEPT ![job[w]] = s] /\ UNCHANGED used
    \/ Spend("dbfails") /\ UNCHANGED status

Complete(w) ==
    /\ pc[w] = "done"
    /\ Report(w, "completed")
    /\ Goto(w, "poll")
    /\ UNCHANGED <<attempts, limit, due, job, handle>>

\* handleFailure reads the counts; if it cannot, both are zero and the job is given up.
Judge(w) ==
    /\ pc[w] = "erred"
    /\ \/ /\ Goto(w, IF attempts[job[w]] < limit[job[w]] THEN "retry" ELSE "giveup")
          /\ UNCHANGED used
       \/ /\ Spend("dbfails")
          /\ Goto(w, "giveup")
    /\ UNCHANGED <<rows, job, handle>>

\* Back to the queue, some time from now.
Retry(w) ==
    /\ pc[w] = "retry"
    /\ \/ /\ status' = [status EXCEPT ![job[w]] = "pending"]
          /\ due' = [due EXCEPT ![job[w]] = FALSE]
          /\ UNCHANGED used
       \/ Spend("dbfails") /\ UNCHANGED <<status, due>>
    /\ Goto(w, "poll")
    /\ UNCHANGED <<attempts, limit, job, handle>>

GiveUp(w) ==
    /\ pc[w] = "giveup"
    /\ Report(w, "failed")
    /\ Goto(w, "poll")
    /\ UNCHANGED <<attempts, limit, due, job, handle>>

-----------------------------------------------------------------------------
(* The manager                                                             *)

\* StartSite.
Start(w) ==
    /\ handle = "none" /\ pc[w] = "off"
    /\ handle' = w
    /\ Goto(w, "poll")
    /\ UNCHANGED <<rows, job, used>>

\* StopSite: the context is cancelled and the handle dropped, nobody waits.
Stop ==
    /\ handle # "none"
    /\ Spend("stops")
    /\ handle' = "none"
    /\ UNCHANGED <<rows, pc, job>>

\* Wrong on purpose: the worker drops its job when it is stopped.
ExitsAnywhere(w) ==
    /\ handle # w /\ pc[w] # "off"
    /\ Goto(w, "off")
    /\ UNCHANGED <<rows, job, handle, used>>

\* Only the wait for the ticker looks at the context.
Exit(w) ==
    /\ handle # w /\ pc[w] = "poll"
    /\ Goto(w, "off")
    /\ UNCHANGED <<rows, job, handle, used>>

\* The process dies; only the table is left, and nothing resets it.
Crash ==
    /\ Spend("crashes")
    /\ pc' = [w \in Workers |-> "off"]
    /\ handle' = "none"
    /\ UNCHANGED <<rows, job>>

-----------------------------------------------------------------------------
WorkerStep(w) ==
    \/ Select(w) \/ Claim(w) \/ Execute(w) \/ Complete(w) \/ Judge(w) \/ Retry(w) \/ GiveUp(w)

Next ==
    \/ \E j \in Jobs : Enqueue(j) \/ ActionEnqueue(j) \/ Cancel(j) \/ Due(j)
    \/ \E w \in Workers : WorkerStep(w) \/ Start(w) \/ Exit(w)
    \/ Stop \/ Crash

Spec == Init /\ [][Next]_vars

\* Goroutines run, executions return, time passes, a stopped worker's context wins
\* the select at some point, and the site is started again.
Fairness ==
    /\ \A w \in Workers : WF_vars(WorkerStep(w)) /\ SF_vars(Exit(w))
    /\ \A j \in Jobs : WF_vars(Due(j))
    /\ WF_vars(\E w \in Workers : Start(w))

FairSpec == Spec /\ Fairness

-----------------------------------------------------------------------------
(* Properties                                                              *)

TypeOK ==
    /\ status \in [Jobs -> Statuses]
    /\ attempts \in [Jobs -> Nat]
    /\ limit \in [Jobs -> Nat]
    /\ due \in [Jobs -> BOOLEAN]
    /\ pc \in [Workers -> Points]
    /\ job \in [Workers -> Nat \ {0}]
    /\ \A w \in Workers : pc[w] \in {"claim"} \cup Holding => job[w] \in Jobs
    /\ handle \in Workers \cup {"none"}
    /\ used \in [Budgets -> Nat]

\* A job is run by one worker at a time, even when a stopped worker overlaps its
\* successor and the job is cancelled in between.
OneRunner ==
    \A v, w \in Workers : pc[v] \in Holding /\ pc[w] \in Holding /\ job[v] = job[w] => v = w

\* A job is claimed at most max_attempts times, and once if that is zero.
AttemptsBounded == \A j \in Jobs : attempts[j] <= limit[j] \/ attempts[j] <= 1

\* A job fails for good only when its attempts are used up, or when they could not
\* be read.
FailedAtLimit ==
    \A j \in Jobs : status[j] = "failed" => attempts[j] >= limit[j] \/ used["dbfails"] > 0

\* Stopping and starting the site loses no job: one that is marked as running is
\* being run, unless the process died or the result could not be written.
StopsLoseNothing ==
    \A j \in Jobs : Orphan(j) => used["crashes"] > 0 \/ used["dbfails"] > 0

\* A result stands: no late worker, no cancellation and no retry changes the status
\* of a job that is completed or has failed.
ResultStands ==
    [][\A j \in Jobs : status[j] \in {"completed", "failed"} => status'[j] = status[j]]_vars

\* Every job that is due comes to an end, whatever its elders do, unless the process
\* dies on it or its result cannot be written.
Ended(j) == status[j] \in {"completed", "failed", "cancelled"}
JobsEnd == \A j \in Jobs : (status[j] = "pending") ~> (Ended(j) \/ Orphan(j))

\* The inductive invariant: what a claim, a retry and a result rely on.
JobInv ==
    /\ OneRunner
    /\ AttemptsBounded
    /\ FailedAtLimit
    /\ StopsLoseNothing
    /\ \A j \in Jobs : status[j] = "absent" => attempts[j] = 0
    /\ \A j \in Jobs : status[j] = "pending" => attempts[j] = 0 \/ attempts[j] < limit[j]
    /\ \A w \in Workers :
          /\ pc[w] \in Holding => status[job[w]] \in {"running", "cancelled"}
          /\ pc[w] = "retry" => attempts[job[w]] < limit[job[w]]
          /\ pc[w] = "giveup" => attempts[job[w]] >= limit[job[w]] \/ used["dbfails"] > 0

\* tools/jobs.go: "cancel: Cancel a pending or running job by ID."  A cancelled job
\* stays cancelled.
CancelStands == [][\A j \in Jobs : status[j] = "cancelled" => status'[j] = "cancelled"]_vars
=============================================================================
