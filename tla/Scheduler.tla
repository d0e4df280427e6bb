------------------------------ MODULE Scheduler ------------------------------
(***************************************************************************)
(* The scheduled tasks of the site of module Sites: the rows of            *)
(* ho_scheduled_tasks and ho_task_runs, the scheduler that looks for due   *)
(* tasks every 30 seconds (brain/scheduler.go), the command channel of the *)
(* worker, the worker that runs a task (brain/scheduled.go), and the tool  *)
(* and the admin handlers that edit tasks meanwhile.                       *)
(***************************************************************************)
EXTENDS Sites, Sequences, FiniteSets

CONSTANTS
    Tasks,          \* ids of tasks
    NumRuns,        \* runs ever recorded: BOUND of the model
    Slots,          \* places in a worker's command channel (16 in the code)
    MaxEdits        \* edits of tasks: BOUND of the model

Runs == 1 .. NumRuns

ASSUME SchedulerAssumption ==
    /\ NumRuns \in Nat
    /\ Slots \in Nat
    /\ MaxEdits \in Nat

VARIABLES
    here, on,       \* the task exists, is_enabled
    kind,           \* "timed": it has a cron expression or an interval; or "once"
    next,           \* next_run: NULL, a time to come, or a time that has come
    counted,        \* run_count
    status, of,     \* ho_task_runs: status and task_id
    made,           \* runs recorded so far
    spc,            \* where the scheduler is
    batch, snap,    \* the due tasks it has selected, and their kind as it was then
    cur, curRun,    \* the task it is at and the run it recorded for it, 0 if it could not
    held,           \* the open database it works on
    queue,          \* each worker's command channel: the scheduled tasks in it
    wpc, wtask,     \* where each worker is, and with which task,
    wrun, wok,      \* which run and which result
    editing,        \* the task whose new schedule is stored and whose next_run is not
    flipping,       \* the toggle that has read is_enabled, or <<>>
    fired,          \* tasks whose run is recorded and whose next_run is still the old one
    edits           \* edits so far

taskVars == <<here, on, kind, next, counted>>
runVars == <<status, of, made>>
passVars == <<spc, batch, snap, cur, curRun, held>>
workVars == <<queue, wpc, wtask, wrun, wok>>
editVars == <<editing, flipping, edits>>
ghosts == <<fired>>
schedVars == <<taskVars, runVars, passVars, workVars, editVars, ghosts>>
vars == <<siteVars, schedVars>>

\* What a local that is out of scope holds.
NoTask == CHOOSE t \in Tasks : TRUE
NoSnap == [t \in Tasks |-> "timed"]

Init ==
    /\ SitesInit
    /\ here = [t \in Tasks |-> FALSE] /\ on = [t \in Tasks |-> FALSE]
    /\ kind = NoSnap /\ next = [t \in Tasks |-> "null"]
    /\ counted = [t \in Tasks |-> 0]
    /\ status = [r \in Runs |-> "absent"] /\ of = [r \in Runs |-> NoTask]
    /\ made = 0
    /\ spc = "init" /\ batch = {} /\ snap = NoSnap
    /\ cur = NoTask /\ curRun = 0 /\ held = 0
    /\ queue = [w \in Workers |-> <<>>]
    /\ wpc = [w \in Workers |-> "off"]
    /\ wtask = [w \in Workers |-> NoTask]
    /\ wrun = [w \in Workers |-> 0] /\ wok = [w \in Workers |-> FALSE]
    /\ editing = {} /\ flipping = <<>>
    /\ fired = {}
    /\ edits = 0

\* A statement through a handle works if the handle's database is still the open one.
Usable(d) == d # 0 /\ d = cached

\* A statement that fails although the database is open.
Failing == SiteSpend("failures") /\ UNCHANGED <<row, disk, cached, opened, handle, started,
              wdb, creating, deleting, toggling, sweeping, up, late>>

-----------------------------------------------------------------------------
(* The scheduler                                                           *)

Due(t) == here[t] /\ on[t] /\ next[t] = "due"

\* Once per process: enabled tasks without a next_run get one, if the site is open.
InitializeNextRun ==
    /\ up /\ spc = "init"
    /\ next' = IF cached = 0 THEN next
               ELSE [t \in Tasks |->
                        IF here[t] /\ on[t] /\ next[t] = "null" /\ kind[t] = "timed"
                        THEN "later" ELSE next[t]]
    /\ spc' = "idle"
    /\ UNCHANGED <<siteVars, here, on, kind, counted, runVars, batch, snap, cur, curRun,
                   held, workVars, editVars, ghosts>>

\* The due tasks are read once; what happens to their rows later is not seen.
PassBegins ==
    /\ up /\ spc = "idle" /\ cached # 0
    /\ \E t \in Tasks : Due(t)
    /\ batch' = {t \in Tasks : Due(t)}
    /\ snap' = kind
    /\ held' = cached
    /\ spc' = "next"
    /\ UNCHANGED <<siteVars, taskVars, runVars, cur, curRun, workVars, editVars, ghosts>>

\* The run is recorded; that fails if the task is gone, and is then ignored.
Record(t) ==
    /\ up /\ spc = "next" /\ t \in batch
    /\ cur' = t
    /\ \/ /\ Usable(held) /\ here[t] /\ made < NumRuns
          /\ made' = made + 1
          /\ status' = [status EXCEPT ![made'] = "running"]
          /\ of' = [of EXCEPT ![made'] = t]
          /\ curRun' = made'
          /\ fired' = fired \cup {t}
          /\ UNCHANGED siteVars
       \/ /\ ~(Usable(held) /\ here[t])
          /\ curRun' = 0
          /\ UNCHANGED <<siteVars, runVars, ghosts>>
       \/ /\ Usable(held) /\ here[t] /\ Failing
          /\ curRun' = 0
          /\ UNCHANGED <<runVars, ghosts>>
    /\ spc' = "send"
    /\ UNCHANGED <<taskVars, batch, snap, held, workVars, editVars>>

Room(w) == Len(queue[w]) < Slots

Put(w) == queue' = [queue EXCEPT ![w] = Append(@, [task |-> cur, run |-> curRun])]

\* SendCommand: the channel of the site's worker, if there is one and it has room.
Send ==
    /\ up /\ spc = "send"
    /\ \/ handle = 0 /\ spc' = "fail" /\ UNCHANGED queue
       \/ handle # 0 /\ Room(handle) /\ Put(handle) /\ spc' = "advance"
       \/ handle # 0 /\ ~Room(handle) /\ spc' = "waiting" /\ UNCHANGED queue
    /\ UNCHANGED <<siteVars, taskVars, runVars, batch, snap, cur, curRun, held, wpc, wtask,
                   wrun, wok, editVars, ghosts>>

\* Wrong on purpose: the timer is looked at after the command went in.
SentAndTimedOut ==
    /\ up /\ spc = "waiting"
    /\ \/ Room(handle) /\ Put(handle) /\ spc' \in {"advance", "fail"}
       \/ spc' = "fail" /\ UNCHANGED queue
    /\ UNCHANGED <<siteVars, taskVars, runVars, batch, snap, cur, curRun, held, wpc, wtask,
                   wrun, wok, editVars, ghosts>>

\* Wrong on purpose: no timeout.
SendForever ==
    /\ up /\ spc = "waiting"
    /\ Room(handle) /\ Put(handle) /\ spc' = "advance"
    /\ UNCHANGED <<siteVars, taskVars, runVars, batch, snap, cur, curRun, held, wpc, wtask,
                   wrun, wok, editVars, ghosts>>

\* Up to five seconds for a place, with the manager's read lock held all the time.
SendWaits ==
    /\ up /\ spc = "waiting"
    /\ \/ Room(handle) /\ Put(handle) /\ spc' = "advance"
       \/ spc' = "fail" /\ UNCHANGED queue
    /\ UNCHANGED <<siteVars, taskVars, runVars, batch, snap, cur, curRun, held, wpc, wtask,
                   wrun, wok, editVars, ghosts>>

\* UPDATE ho_task_runs through database d: the run's row, if it is still there.
SetStatus(r, s, d) ==
    \/ /\ status' = IF Usable(d) /\ status[r] # "absent" THEN [status EXCEPT ![r] = s] ELSE status
       /\ UNCHANGED siteVars
    \/ Usable(d) /\ Failing /\ UNCHANGED status

\* Wrong on purpose: the failed dispatch is only logged.
FailureLogged ==
    /\ up /\ spc = "fail"
    /\ spc' = "advance"
    /\ UNCHANGED <<siteVars, taskVars, runVars, batch, snap, cur, curRun, held, workVars,
                   editVars, ghosts>>

\* The run of a task that could not be dispatched is marked as failed.
MarkFailed ==
    /\ up /\ spc = "fail"
    /\ IF curRun = 0 THEN UNCHANGED <<siteVars, status>> ELSE SetStatus(curRun, "failed", held)
    /\ spc' = "advance"
    /\ UNCHANGED <<taskVars, of, made, batch, snap, cur, curRun, held, workVars, editVars,
                   ghosts>>

\* On to the next task of the pass; what the loop held goes out of scope.
NextOfBatch ==
    /\ batch' = batch \ {cur}
    /\ curRun' = 0 /\ cur' = NoTask
    /\ IF batch' = {} THEN spc' = "idle" /\ snap' = NoSnap /\ held' = 0
       ELSE spc' = "next" /\ UNCHANGED <<snap, held>>

\* Wrong on purpose: a task is rescheduled only when it could be dispatched.
AdvanceDispatched ==
    /\ up /\ spc = "advance"
    /\ IF Usable(held) /\ here[cur] /\ status[IF curRun = 0 THEN 1 ELSE curRun] # "failed"
       THEN next' = [next EXCEPT ![cur] = "later"] /\ fired' = fired \ {cur}
       ELSE UNCHANGED <<next, fired>>
    /\ NextOfBatch
    /\ UNCHANGED <<siteVars, here, on, kind, counted, runVars, workVars, editVars>>

\* next_run from the schedule as it was when the pass began; a task without a
\* schedule is disabled, and its next_run stays as it is.
Advance ==
    /\ up /\ spc = "advance"
    /\ \/ /\ IF ~(Usable(held) /\ here[cur]) THEN UNCHANGED <<on, next>>
             ELSE IF snap[cur] = "timed"
             THEN next' = [next EXCEPT ![cur] = "later"] /\ UNCHANGED on
             ELSE on' = [on EXCEPT ![cur] = FALSE] /\ UNCHANGED next
          /\ fired' = fired \ {cur}
          /\ UNCHANGED siteVars
       \/ Usable(held) /\ Failing /\ UNCHANGED <<on, next, fired>>
    /\ NextOfBatch
    /\ UNCHANGED <<here, kind, counted, runVars, workVars, editVars>>

-----------------------------------------------------------------------------
(* A worker                                                                *)

\* A build does not read the channel.
BuildBegins(w) ==
    /\ wpc[w] = "free" /\ handle = w /\ wpc' = [wpc EXCEPT ![w] = "building"]
    /\ UNCHANGED <<siteVars, taskVars, runVars, passVars, queue, wtask, wrun, wok, editVars, ghosts>>

BuildEnds(w) ==
    /\ wpc[w] = "building" /\ wpc' = [wpc EXCEPT ![w] = "free"]
    /\ UNCHANGED <<siteVars, taskVars, runVars, passVars, queue, wtask, wrun, wok, editVars, ghosts>>

\* handleCommand of a scheduled task; a stopped worker may still take one.
Take(w) ==
    /\ wpc[w] = "free" /\ queue[w] # <<>>
    /\ wtask' = [wtask EXCEPT ![w] = Head(queue[w]).task]
    /\ wrun' = [wrun EXCEPT ![w] = Head(queue[w]).run]
    /\ queue' = [queue EXCEPT ![w] = Tail(@)]
    /\ \E p \in {"native", "prompt"} : wpc' = [wpc EXCEPT ![w] = p]
    /\ UNCHANGED <<siteVars, taskVars, runVars, passVars, wok, editVars, ghosts>>

\* Back to the channel.
Done(w) ==
    /\ wpc' = [wpc EXCEPT ![w] = "free"] /\ wok' = [wok EXCEPT ![w] = FALSE]
    /\ wtask' = [wtask EXCEPT ![w] = NoTask] /\ wrun' = [wrun EXCEPT ![w] = 0]

\* After the run: without a record of it there is nothing to finalize.
Ran(w, ok) ==
    /\ \/ wrun[w] = 0 /\ Done(w)
       \/ /\ wrun[w] # 0
          /\ wpc' = [wpc EXCEPT ![w] = "finalize"] /\ wok' = [wok EXCEPT ![w] = ok]
          /\ UNCHANGED <<wtask, wrun>>
    /\ UNCHANGED <<siteVars, taskVars, runVars, passVars, queue, editVars, ghosts>>

\* A statement, a count or an event; works or fails, whatever happened to the worker
\* meanwhile, and fails on a database that is closed.
ExecuteNativeAction(w) == wpc[w] = "native" /\ \E ok \in BOOLEAN : (ok => wdb[w] = cached) /\ Ran(w, ok)

\* A stage of the model provider's; a stopped worker's stage ends with an error.
ExecuteScheduledTask(w) == wpc[w] = "prompt" /\ \E ok \in BOOLEAN : (ok => w = handle) /\ Ran(w, ok)

\* finalizeTaskRun, first statement: the result.
Finalize(w) ==
    /\ wpc[w] = "finalize"
    /\ SetStatus(wrun[w], IF wok[w] THEN "completed" ELSE "failed", wdb[w])
    /\ wpc' = [wpc EXCEPT ![w] = "count"]
    /\ UNCHANGED <<taskVars, of, made, passVars, queue, wtask, wrun, wok, editVars, ghosts>>

\* Second statement: the counter of completed runs (that of errors is left out).
Count(w) ==
    /\ wpc[w] = "count"
    /\ \/ /\ counted' = IF wok[w] /\ Usable(wdb[w]) /\ here[wtask[w]]
                        THEN [counted EXCEPT ![wtask[w]] = @ + 1] ELSE counted
          /\ UNCHANGED siteVars
       \/ wok[w] /\ Usable(wdb[w]) /\ Failing /\ UNCHANGED counted
    /\ Done(w)
    /\ UNCHANGED <<here, on, kind, next, runVars, passVars, queue, editVars, ghosts>>

\* A stopped worker leaves its loop, and what is in its channel is lost.
Leave(w) ==
    /\ wpc[w] \in {"free", "building"} /\ handle # w
    /\ wpc' = [wpc EXCEPT ![w] = "off"]
    /\ queue' = [queue EXCEPT ![w] = <<>>]
    /\ UNCHANGED <<siteVars, taskVars, runVars, passVars, wtask, wrun, wok, editVars, ghosts>>

WorkerStep(w) ==
    \/ Take(w) \/ ExecuteNativeAction(w) \/ ExecuteScheduledTask(w) \/ Finalize(w) \/ Count(w)

-----------------------------------------------------------------------------
(* The tool manage_scheduler and the admin handlers                        *)

Edited == up /\ cached # 0 /\ edits < MaxEdits /\ edits' = edits + 1

EditOthers == <<siteVars, counted, runVars, passVars, workVars>>

CreateTask(t) ==
    /\ Edited /\ ~here[t] /\ kind[t] # "gone"
    /\ here' = [here EXCEPT ![t] = TRUE]
    /\ on' = [on EXCEPT ![t] = TRUE]
    /\ \E k \in {"timed", "once"} :
          /\ kind' = [kind EXCEPT ![t] = k]
          /\ next' = [next EXCEPT ![t] = IF k = "timed" THEN "later" ELSE "null"]
    /\ UNCHANGED <<EditOthers, editing, flipping, ghosts>>

\* The first statement stores the schedule and the switch; a new next_run is a
\* statement of its own.  The admin's handler has none for a task without a schedule.
UpdateTask(t) ==
    /\ Edited /\ here[t] /\ editing = {}
    /\ \E k \in {"timed", "once"}, b \in BOOLEAN :
          /\ kind' = [kind EXCEPT ![t] = k]
          /\ on' = [on EXCEPT ![t] = b]
          /\ editing' \in {{}, {t}}
          /\ editing' = {} => k = kind[t] \/ k = "once"
    /\ UNCHANGED <<EditOthers, here, next, flipping, fired>>

UpdateNextRun(t) ==
    /\ up /\ t \in editing
    /\ editing' = {}
    /\ next' = IF here[t] THEN [next EXCEPT ![t] = "later"] ELSE next
    /\ UNCHANGED <<EditOthers, here, on, kind, flipping, edits, fired>>

ToggleTaskRead(t) ==
    /\ Edited /\ here[t] /\ flipping = <<>>
    /\ flipping' = <<t, on[t]>>
    /\ UNCHANGED <<EditOthers, here, on, kind, next, editing, ghosts>>

ToggleTaskWrite ==
    /\ up /\ flipping # <<>>
    /\ on' = IF here[flipping[1]] THEN [on EXCEPT ![flipping[1]] = ~flipping[2]] ELSE on
    /\ flipping' = <<>>
    /\ UNCHANGED <<EditOthers, here, kind, next, editing, edits, fired>>

\* The runs go with the task; its id is never used again.
DeleteTask(t) ==
    /\ Edited /\ here[t]
    /\ here' = [here EXCEPT ![t] = FALSE] /\ on' = [on EXCEPT ![t] = FALSE]
    /\ kind' = [kind EXCEPT ![t] = "gone"] /\ next' = [next EXCEPT ![t] = "null"]
    /\ counted' = [counted EXCEPT ![t] = 0]
    /\ status' = [r \in Runs |-> IF of[r] = t THEN "absent" ELSE status[r]]
    /\ fired' = fired \ {t}
    /\ UNCHANGED <<siteVars, of, made, passVars, workVars, editing, flipping>>

\* The tool's run_now needs an enabled task, the admin's enables it.
RunNow(t) ==
    /\ Edited /\ here[t]
    /\ next' = [next EXCEPT ![t] = "due"]
    /\ on' = [on EXCEPT ![t] = TRUE]
    /\ fired' = fired \ {t}
    /\ UNCHANGED <<EditOthers, here, kind, editing, flipping>>

TimePasses(t) ==
    /\ next[t] = "later"
    /\ next' = [next EXCEPT ![t] = "due"]
    /\ UNCHANGED <<EditOthers, here, on, kind, editVars, ghosts>>

-----------------------------------------------------------------------------
(* The site underneath                                                     *)

\* What the process holds is lost when it ends; tasks and runs are lost with the
\* directory.  While the scheduler waits for a place in the channel nobody gets the
\* manager's lock to start or stop a worker.
SiteStep ==
    /\ SitesNext
    /\ spc = "waiting" /\ up' => handle' = handle
    /\ IF disk /\ ~disk'
       THEN /\ here' = [t \in Tasks |-> FALSE] /\ on' = here'
            /\ kind' = [t \in Tasks |-> "gone"] /\ next' = [t \in Tasks |-> "null"]
            /\ counted' = [t \in Tasks |-> 0]
            /\ status' = [r \in Runs |-> "absent"]
            /\ fired' = {}
       ELSE UNCHANGED <<taskVars, status, fired>>
    /\ IF up'
       THEN /\ wpc' = [w \in Workers |-> IF w \in started + 1 .. started' THEN "free" ELSE wpc[w]]
            /\ UNCHANGED <<passVars, queue, wtask, wrun, wok, editing, flipping>>
       ELSE /\ wpc' = [w \in Workers |-> "off"]
            /\ queue' = [w \in Workers |-> <<>>]
            /\ spc' = "init" /\ batch' = {} /\ curRun' = 0
            /\ editing' = {} /\ flipping' = <<>>
            /\ snap' = NoSnap /\ cur' = NoTask /\ held' = 0
            /\ wtask' = [w \in Workers |-> NoTask] /\ wrun' = [w \in Workers |-> 0]
            /\ wok' = [w \in Workers |-> FALSE]
    /\ UNCHANGED <<of, made, edits>>

PassStep ==
    \/ InitializeNextRun \/ PassBegins \/ (\E t \in Tasks : Record(t))
    \/ Send \/ SendWaits \/ MarkFailed \/ Advance

Next ==
    \/ SiteStep
    \/ PassStep
    \/ \E w \in Workers : WorkerStep(w) \/ BuildBegins(w) \/ BuildEnds(w) \/ Leave(w)
    \/ \E t \in Tasks :
          \/ CreateTask(t) \/ UpdateTask(t) \/ UpdateNextRun(t) \/ ToggleTaskRead(t)
          \/ DeleteTask(t) \/ RunNow(t) \/ TimePasses(t)
    \/ ToggleTaskWrite

Spec == Init /\ [][Next]_vars

\* The ticker comes again and every send has its timeout: nothing is asked of the
\* workers, which may build for ever.
Fairness == WF_vars(PassStep)

FairSpec == Spec /\ Fairness

-----------------------------------------------------------------------------
(* Properties                                                              *)

SchedTypeOK ==
    /\ SitesTypeOK
    /\ here \in [Tasks -> BOOLEAN] /\ on \in [Tasks -> BOOLEAN]
    /\ kind \in [Tasks -> {"timed", "once", "gone"}]
    /\ next \in [Tasks -> {"null", "later", "due"}]
    /\ counted \in [Tasks -> Nat]
    /\ status \in [Runs -> {"absent", "running", "completed", "failed"}]
    /\ of \in [Runs -> Tasks]
    /\ made \in 0 .. NumRuns
    /\ spc \in {"init", "idle", "next", "send", "waiting", "fail", "advance"}
    /\ batch \subseteq Tasks /\ snap \in [Tasks -> {"timed", "once"}]
    /\ cur \in Tasks /\ curRun \in 0 .. made /\ held \in 0 .. NumOpens
    /\ queue \in [Workers -> Seq([task : Tasks, run : 0 .. made])]
    /\ wpc \in [Workers -> {"off", "free", "building", "native", "prompt", "finalize", "count"}]
    /\ wtask \in [Workers -> Tasks] /\ wrun \in [Workers -> 0 .. made]
    /\ wok \in [Workers -> BOOLEAN]
    /\ editing \subseteq Tasks /\ edits \in 0 .. MaxEdits
    /\ flipping \in {<<>>} \cup (Tasks \X BOOLEAN)
    /\ fired \subseteq Tasks
    /\ \A t \in Tasks : ~here[t] => ~on[t] /\ next[t] = "null"

\* Every statement about a run follows the life of a record: the scheduler's verdict
\* that a dispatch failed and a worker's result never meet on the same run.
Record_ == INSTANCE RunRecord WITH Runs <- Runs, status <- status
RunsImplementRecord == Record_!RecordSpec

\* A run is in one pair of hands: the scheduler's until it is sent, then a channel's,
\* then a worker's.
AtScheduler(r) == curRun = r /\ spc \in {"send", "waiting", "fail"}
Holders(r) ==
    {w \in Workers : wpc[w] \in {"native", "prompt", "finalize"} /\ wrun[w] = r}
Places(r) ==
    {p \in Workers \X (1 .. Slots) : p[2] <= Len(queue[p[1]]) /\ queue[p[1]][p[2]].run = r}
OneHolder ==
    \A r \in Runs : Cardinality(Holders(r)) + Cardinality(Places(r))
                        + (IF AtScheduler(r) THEN 1 ELSE 0) <= 1

\* A run that says it is running is on its way, in one of those hands, unless its worker
\* was stopped with the run in its channel, the process died or a statement failed.
RunningIsOnItsWay ==
    /\ OneHolder
    /\ \A r \in Runs : status[r] = "running" =>
          \/ AtScheduler(r) \/ Holders(r) # {} \/ Places(r) # {}
          \/ spent["stops"] + spent["crashes"] + spent["failures"] > 0

\* One time that comes is one run: a task gets its next run only after its next_run was
\* moved on, unless that statement failed or the process died before it.
NotTwice ==
    [][\A t \in Tasks :
          t \in fired /\ made' > made /\ of'[made'] = t
             => spent["crashes"] + spent["failures"] > 0]_vars

\* A due task of an open site does not stay due: it is recorded, or edited away.
DueIsServed ==
    \A t \in Tasks :
        (Due(t) /\ up) ~> (~Due(t) \/ ~up \/ cached = 0 \/ made = NumRuns)
=============================================================================
