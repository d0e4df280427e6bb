------------------------------ MODULE Pipeline ------------------------------
(***************************************************************************)
(* The pipeline worker of one site (brain/pipeline.go, brain/stages.go):   *)
(* one goroutine that runs the build stages, waits for the owner in the    *)
(* paused loop and watches the site in the monitoring loop; the row and    *)
(* the questions it leaves in the site database; the command channel; the  *)
(* handlers that answer questions and change the mode; the chat-wake       *)
(* goroutines; and crashes, stops and restarts between any two steps.      *)
(*                                                                         *)
(* `loc' is where the worker's goroutine is.  A step is what happens       *)
(* between two points where another goroutine or a crash can be observed.  *)
(***************************************************************************)
EXTENDS PipelineRow, Sequences

CONSTANTS
    Questions,  \* questions the model may ask
    ChanCap,    \* capacity of the commands channel (16 in the code)
    Slots,      \* capacity of the manager's semaphore (4 in the code)
    OwnerCmds,  \* the commands the owner's front ends send in this instance
    Bound       \* bound on owner commands, mode changes, crashes, stops and database
                \* failures

VARIABLES
    ckpt,       \* column checkpoint_messages: NULL, of a build, or of something else
    mode,       \* sites.mode, in the global database
    qst,        \* ho_questions.status of each question, "none" before it is inserted
    loc,        \* where the worker goroutine is
    bstate,     \* PipelineWorker.state
    cur,        \* the local variable stage of runBuildPipeline
    outcome,    \* what the stage handler returned: the next stage or a kind of error
    retries,    \* the local variable stageRetries
    wakeCtx,    \* wakeContext carries an answer
    todo,       \* plan questions runPlan has still to insert
    cancelled,  \* the worker's context is cancelled (StopSite, StopAll)
    chan,       \* the commands channel
    waking,     \* step of the handler that answers each question
    modeReq,    \* mode the admin handler has written but not yet sent
    chatq,      \* chat-wake goroutines waiting for the semaphore
    chats,      \* chat-wake goroutines holding it
    used,       \* how much of each bound is used up
    broken      \* history: a stage failed MaxStageRetries times in a row and the owner
                \* has not resumed, updated or restarted the build since

dbVars == <<stage, planned, pause, errs, ckpt, mode, qst>>
workVars == <<loc, bstate, cur, outcome, retries, wakeCtx, todo>>
sideVars == <<chan, waking, modeReq, chatq, chats>>
vars == <<dbVars, workVars, sideVars, cancelled, used, broken>>

BrainStates == {"idle", "building", "monitoring", "paused"}
Modes == {"building", "monitoring", "paused"}
Budgets == {"cmds", "modes", "crashes", "stops", "dbfails"}
Commands == {"wake", "answer", "build", "monitor", "pause", "update", "chat", "task"}
ErrorKinds == {"paused", "critical", "permanent", "transient"}

InBuildLoop == {"top", "run", "asking", "patching", "done", "failed",
                "judge", "tripped", "backoff"}
InTick == {"tickwait", "tick"}
Locs == {"off", "boot", "enter", "gone", "paused", "monitor"} \cup InBuildLoop \cup InTick

ASSUME PipelineAssumption ==
    /\ ChanCap \in Nat \ {0}
    /\ Slots \in Nat \ {0}
    /\ OwnerCmds \subseteq Commands \ {"answer"}
    /\ Bound \in [Budgets -> Nat]

Pending == {q \in Questions : qst[q] = "pending"}
Answered == {q \in Questions : qst[q] = "answered"}

\* One use of a bounded kind of event: BOUND of the model, not of the code.
Spend(k) ==
    /\ used[k] < Bound[k]
    /\ used' = [used EXCEPT ![k] = @ + 1]

Ask(q) ==
    /\ qst[q] = "none"
    /\ qst' = [qst EXCEPT ![q] = "pending"]

\* The manager knows the worker, so commands reach its channel.
Registered == loc # "off" /\ ~cancelled

Init ==
    /\ RowInit
    /\ ckpt = "none"
    /\ mode = "building"
    /\ qst = [q \in Questions |-> "none"]
    /\ loc = "off" /\ bstate = "idle" /\ cur = "EXPAND" /\ outcome = "EXPAND"
    /\ retries = 0 /\ wakeCtx = FALSE /\ todo = {} /\ cancelled = FALSE
    /\ chan = <<>> /\ waking = [q \in Questions |-> "idle"] /\ modeReq = "none"
    /\ chatq = 0 /\ chats = 0
    /\ used = [k \in Budgets |-> 0]
    /\ broken = FALSE

-----------------------------------------------------------------------------
(* Starting the worker                                                     *)

\* StartSite: a fresh worker, with a channel of its own.  Chat sessions of the
\* worker before it that still wait see their context cancelled and leave.
Start ==
    /\ loc = "off"
    /\ loc' = "boot"
    /\ bstate' = "idle" /\ wakeCtx' = FALSE /\ chan' = <<>> /\ cancelled' = FALSE
    /\ chatq' = 0
    /\ UNCHANGED <<dbVars, cur, outcome, retries, todo, waking, modeReq, chats, used,
                   broken>>

\* Wrong on purpose: the breaker is forgotten after a restart at the threshold.
RecoveredAtThreshold ==
    /\ errs' = IF errs > MaxStageRetries THEN errs ELSE 0
    /\ bstate' = "building" /\ loc' = "enter"
    /\ pause' = IF pause = "failure" THEN "no" ELSE pause
    /\ UNCHANGED wakeCtx

\* Wrong on purpose: an approval the owner has not given is lifted too.
RecoveredFromApproval ==
    IF errs >= MaxStageRetries
    THEN /\ bstate' = "paused" /\ loc' = "paused"
         /\ UNCHANGED <<errs, pause, wakeCtx>>
    ELSE /\ errs' = 0 /\ pause' = IF pause = "answers" THEN pause ELSE "no"
         /\ bstate' = "building" /\ loc' = "enter"
         /\ UNCHANGED wakeCtx

\* Wrong on purpose: answers that came before the crash are not looked for.
RecoveredBlind ==
    IF errs >= MaxStageRetries
    THEN /\ bstate' = "paused" /\ loc' = "paused"
         /\ UNCHANGED <<errs, pause, wakeCtx>>
    ELSE /\ errs' = 0 /\ pause' = IF pause = "failure" THEN "no" ELSE pause
         /\ bstate' = "building" /\ loc' = "enter"
         /\ UNCHANGED wakeCtx

\* autoRecover: give up at the threshold, else clear errors and the pauses that
\* no owner has to lift; an answered pause is lifted with the answers at hand.
AutoRecovered ==
    IF errs >= MaxStageRetries
    THEN /\ bstate' = "paused" /\ loc' = "paused"
         /\ UNCHANGED <<errs, pause, wakeCtx>>
    ELSE /\ errs' = 0
         /\ bstate' = "building" /\ loc' = "enter"
         /\ LET answered == pause = "answers" /\ Pending = {}
            IN  /\ pause' = IF pause = "failure" \/ answered THEN "no" ELSE pause
                /\ wakeCtx' = IF answered THEN Answered # {} ELSE wakeCtx

\* Run: the mode of the site decides where the worker begins.
Boot ==
    /\ loc = "boot"
    /\ \/ /\ mode = "building" /\ AutoRecovered
       \/ /\ mode = "monitoring"
          /\ bstate' = "monitoring" /\ loc' = "monitor"
          /\ UNCHANGED <<errs, pause, wakeCtx>>
       \/ /\ mode = "paused"
          /\ bstate' = "paused" /\ loc' = "paused"
          /\ UNCHANGED <<errs, pause, wakeCtx>>
    /\ UNCHANGED <<stage, planned, ckpt, mode, qst, cur, outcome, retries, todo, sideVars,
                   cancelled, used, broken>>

\* Wrong on purpose: the build starts over, whatever stage the row names.
EnterFromScratch ==
    /\ loc = "enter"
    /\ IF pause # "no"
       THEN /\ bstate' = "paused" /\ loc' = "paused"
            /\ UNCHANGED <<cur, retries>>
       ELSE /\ cur' = "EXPAND" /\ retries' = 0 /\ loc' = "top"
            /\ UNCHANGED bstate
    /\ UNCHANGED <<dbVars, outcome, wakeCtx, todo, sideVars, cancelled, used, broken>>

\* runBuildPipeline up to its loop.
Enter ==
    /\ loc = "enter"
    /\ IF pause # "no"
       THEN /\ bstate' = "paused" /\ loc' = "paused"
            /\ UNCHANGED <<cur, retries>>
       ELSE /\ cur' = stage /\ retries' = 0 /\ loc' = "top"
            /\ UNCHANGED bstate
    /\ UNCHANGED <<dbVars, outcome, wakeCtx, todo, sideVars, cancelled, used, broken>>

\* The site or the row cannot be read: the goroutine returns and leaves its
\* entry, and its channel, in the manager.
LoadFails ==
    /\ loc \in {"boot", "enter"}
    /\ Spend("dbfails")
    /\ loc' = "gone"
    /\ UNCHANGED <<dbVars, bstate, cur, outcome, retries, wakeCtx, todo, sideVars,
                   cancelled, broken>>

-----------------------------------------------------------------------------
(* The build loop: one stage after the other                               *)

\* Head of the loop: the end of the build, or the stage handler is called.
\* runPlan pauses again when questions of an earlier run are unanswered.
StageBegins ==
    /\ loc = "top" /\ ~cancelled
    /\ \/ /\ cur = "MONITORING"
          /\ bstate' = "monitoring" /\ loc' = "monitor"
          /\ UNCHANGED <<pause, outcome>>
       \/ /\ cur = "PLAN" /\ ~wakeCtx /\ Pending # {}
          /\ pause' = "answers" /\ outcome' = "paused" /\ loc' = "failed"
          /\ UNCHANGED bstate
       \/ /\ cur # "MONITORING"
          /\ ~(cur = "PLAN" /\ ~wakeCtx /\ Pending # {})
          /\ loc' = "run"
          /\ UNCHANGED <<bstate, pause, outcome>>
    /\ UNCHANGED <<stage, planned, errs, ckpt, mode, qst, cur, retries, wakeCtx, todo,
                   sideVars, cancelled, used, broken>>

\* The handler returns an error, at once (no provider) or from its LLM calls; a
\* cancelled context also ends here.  COMPLETE can only panic, which the loop recovers.
HandlerFails ==
    /\ \/ loc = "top" /\ ~cancelled /\ cur # "MONITORING"
       \/ loc = "run"
    /\ outcome' \in {"transient", "permanent"}
    /\ cur = "COMPLETE" => outcome' = "transient"
    /\ UNCHANGED ckpt

\* A BUILD that fails in its tool loop has already dropped its checkpoint.
BuildFails ==
    /\ loc = "run" /\ cur = "BUILD"
    /\ outcome' \in {"transient", "permanent"}
    /\ ckpt' = "none"

\* Only VALIDATE reports critical issues.
CriticalIssues ==
    /\ loc = "run" /\ cur = "VALIDATE"
    /\ outcome' = "critical"
    /\ UNCHANGED ckpt

StageFails ==
    /\ HandlerFails \/ BuildFails \/ CriticalIssues
    /\ loc' = "failed"
    /\ UNCHANGED <<stage, planned, pause, errs, mode, qst, bstate, cur, retries, wakeCtx,
                   todo, sideVars, cancelled, used, broken>>

\* runExpand, runBuild and runValidate; BUILD needs the plan and, done, drops its
\* checkpoint.
ExpandDone == cur = "EXPAND" /\ outcome' = "PLAN" /\ UNCHANGED ckpt
BuildDone == cur = "BUILD" /\ planned /\ outcome' = "VALIDATE" /\ ckpt' = "none"
ValidateDone == cur = "VALIDATE" /\ outcome' = "COMPLETE" /\ UNCHANGED ckpt

StageSucceeds ==
    /\ loc = "run"
    /\ ExpandDone \/ BuildDone \/ ValidateDone
    /\ loc' = "done"
    /\ UNCHANGED <<stage, planned, pause, errs, mode, qst, bstate, cur, retries, wakeCtx,
                   todo, sideVars, cancelled, used, broken>>

\* runPlan with a plan: it is stored and the answers are used up.
PlanSucceeds ==
    /\ loc = "run" /\ cur = "PLAN"
    /\ planned' = TRUE
    /\ wakeCtx' = FALSE
    /\ outcome' = "BUILD" /\ loc' = "done"
    /\ UNCHANGED <<stage, pause, errs, ckpt, mode, qst, bstate, cur, retries, todo, sideVars,
                   cancelled, used, broken>>

\* runPlan with questions: the old ones are superseded, the new ones inserted
\* one by one, each visible to the owner at once, and only then the row paused.
PlanAsks ==
    /\ loc = "run" /\ cur = "PLAN"
    /\ \E Q \in (SUBSET {q \in Questions : qst[q] = "none"}) \ {{}} : todo' = Q
    /\ qst' = [q \in Questions |-> IF qst[q] = "pending" THEN "superseded" ELSE qst[q]]
    /\ loc' = "asking"
    /\ UNCHANGED <<stage, planned, pause, errs, ckpt, mode, bstate, cur, outcome, retries,
                   wakeCtx, sideVars, cancelled, used, broken>>

AskNext ==
    /\ loc = "asking"
    /\ \E q \in todo : Ask(q) /\ todo' = todo \ {q}
    /\ UNCHANGED <<stage, planned, pause, errs, ckpt, mode, loc, bstate, cur, outcome,
                   retries, wakeCtx, sideVars, cancelled, used, broken>>

PauseForAnswers ==
    /\ loc = "asking" /\ todo = {}
    /\ pause' = "answers"
    /\ outcome' = "paused" /\ loc' = "failed"
    /\ UNCHANGED <<stage, planned, errs, ckpt, mode, qst, bstate, cur, retries, wakeCtx,
                   todo, sideVars, cancelled, used, broken>>

\* runComplete switches the site to monitoring before the row is advanced.
CompleteSucceeds ==
    /\ loc = "run" /\ cur = "COMPLETE"
    /\ mode' = "monitoring"
    /\ outcome' = "MONITORING" /\ loc' = "done"
    /\ UNCHANGED <<stage, planned, pause, errs, ckpt, qst, bstate, cur, retries, wakeCtx,
                   todo, sideVars, cancelled, used, broken>>

\* runUpdatePlan: without a plan it fails; with one the pages to be rebuilt are
\* deleted before the patched plan is stored.
UpdateClearsPages ==
    /\ loc = "run" /\ cur = "UPDATE_PLAN" /\ planned
    /\ loc' = "patching"
    /\ UNCHANGED <<dbVars, bstate, cur, outcome, retries, wakeCtx, todo, sideVars,
                   cancelled, used, broken>>

UpdatePlanSucceeds ==
    /\ loc = "patching"
    /\ planned' = TRUE
    /\ outcome' = "BUILD" /\ loc' = "done"
    /\ UNCHANGED <<stage, pause, errs, ckpt, mode, qst, bstate, cur, retries, wakeCtx, todo,
                   sideVars, cancelled, used, broken>>

\* The tool loop of BUILD: the checkpoint at the end of the infrastructure phase.
Checkpoint ==
    /\ loc = "run" /\ cur = "BUILD" /\ planned
    /\ ckpt # "build"
    /\ ckpt' = "build"
    /\ UNCHANGED <<stage, planned, pause, errs, mode, qst, workVars, sideVars, cancelled,
                   used, broken>>

\* manage_communication in a tool loop: a question that pauses nothing.
InfoAsked(q) ==
    /\ \/ loc = "run" /\ cur = "BUILD" /\ planned
       \/ loc = "tick"
       \/ chats > 0
    /\ Ask(q)
    /\ UNCHANGED <<stage, planned, pause, errs, ckpt, mode, workVars, sideVars, cancelled,
                   used, broken>>

\* A secret asked in BUILD: the tool loop saves its messages and pauses the row.
\* Nothing reads row or channel between the insert and the pause, so they are one
\* step; a crash in between is InfoAsked followed by Crash.
SecretAsked(q) ==
    /\ loc = "run" /\ cur = "BUILD" /\ planned
    /\ Ask(q)
    /\ ckpt' = "build"
    /\ pause' = "answers"
    /\ outcome' = "paused" /\ loc' = "failed"
    /\ UNCHANGED <<stage, planned, errs, mode, bstate, cur, retries, wakeCtx, todo, sideVars,
                   cancelled, used, broken>>

\* RequestApproval pauses the row itself; the tool loop that called it goes on.  A
\* question that is still pending is not asked twice.
ApprovalAsked(q) ==
    /\ \/ loc = "run" /\ cur \in {"BUILD", "VALIDATE"} /\ planned
       \/ chats > 0
    /\ Ask(q) \/ (qst[q] = "pending" /\ UNCHANGED qst)
    /\ pause' = "approval"
    /\ UNCHANGED <<stage, planned, errs, ckpt, mode, workVars, sideVars, cancelled, used,
                   broken>>

\* The loop records success: AdvanceStage, or the stage once more if that fails.
StageAdvances ==
    /\ loc = "done"
    /\ \/ /\ stage' = outcome /\ errs' = 0
          /\ cur' = outcome /\ retries' = 0
          /\ UNCHANGED used
       \/ /\ Spend("dbfails")
          /\ UNCHANGED <<stage, errs, cur, retries>>
    /\ loc' = "top"
    /\ UNCHANGED <<planned, pause, ckpt, mode, qst, bstate, outcome, wakeCtx, todo, sideVars,
                   cancelled, broken>>

-----------------------------------------------------------------------------
(* The build loop: a stage has failed                                      *)

\* The row is read: paused means the stage stopped on purpose.  If it cannot be
\* read the failure is judged like any other.
FailureChecked ==
    /\ loc = "failed"
    /\ \/ /\ pause # "no"
          /\ bstate' = "paused" /\ loc' = "paused"
          /\ UNCHANGED used
       \/ /\ pause = "no" /\ UNCHANGED used
          /\ loc' = "judge" /\ UNCHANGED bstate
       \/ /\ pause # "no" /\ Spend("dbfails")
          /\ loc' = "judge" /\ UNCHANGED bstate
    /\ UNCHANGED <<dbVars, cur, outcome, retries, wakeCtx, todo, sideVars, cancelled, broken>>

\* Wrong on purpose: the retry of VALIDATE has no bound, or is not counted.
RetriedForever ==
    /\ loc = "judge" /\ cur = "VALIDATE" /\ outcome = "critical"
    /\ retries' = retries + 1
    /\ loc' = "backoff"
    /\ UNCHANGED <<dbVars, bstate, cur, outcome, wakeCtx, todo, sideVars, cancelled, used,
                   broken>>

RetriedUncounted ==
    /\ loc = "judge" /\ cur = "VALIDATE" /\ outcome = "critical"
    /\ loc' = "backoff"
    /\ UNCHANGED <<dbVars, bstate, cur, outcome, retries, wakeCtx, todo, sideVars, cancelled,
                   used, broken>>

\* VALIDATE is tried once more for critical issues, then given up.
ValidateRetried ==
    /\ loc = "judge" /\ cur = "VALIDATE"
    /\ outcome = "critical" /\ retries < 1
    /\ retries' = retries + 1
    /\ loc' = "backoff"
    /\ UNCHANGED <<dbVars, bstate, cur, outcome, wakeCtx, todo, sideVars, cancelled, used,
                   broken>>

ValidateGivenUp ==
    /\ loc = "judge" /\ cur = "VALIDATE"
    /\ ~(outcome = "critical" /\ retries < 1)
    /\ \/ stage' = "COMPLETE" /\ errs' = 0 /\ UNCHANGED used
       \/ Spend("dbfails") /\ UNCHANGED <<stage, errs>>
    /\ cur' = "COMPLETE" /\ retries' = 0 /\ loc' = "top"
    /\ UNCHANGED <<planned, pause, ckpt, mode, qst, bstate, outcome, wakeCtx, todo, sideVars,
                   cancelled, broken>>

\* Any other stage: pause at once on a permanent error ...
PermanentError ==
    /\ loc = "judge" /\ cur # "VALIDATE" /\ outcome = "permanent"
    /\ pause' = "failure"
    /\ bstate' = "paused" /\ loc' = "paused"
    /\ UNCHANGED <<stage, planned, errs, ckpt, mode, qst, cur, outcome, retries, wakeCtx,
                   todo, sideVars, cancelled, used, broken>>

\* Wrong on purpose: the failure is counted in memory only, and lost in a crash.
CountedInMemory ==
    /\ loc = "judge" /\ cur # "VALIDATE" /\ outcome # "permanent"
    /\ retries' = retries + 1
    /\ LET last == retries + 1 >= MaxStageRetries
       IN  /\ loc' = IF last THEN "tripped" ELSE "backoff"
           /\ broken' = (broken \/ last)
    /\ UNCHANGED <<stage, planned, pause, errs, ckpt, mode, qst, bstate, cur, outcome, wakeCtx,
                   todo, sideVars, cancelled, used>>

\* ... else charge the failure to the row and try again,
FailureCounted ==
    /\ loc = "judge" /\ cur # "VALIDATE" /\ outcome # "permanent"
    /\ errs' = errs + 1
    /\ retries' = retries + 1
    /\ LET last == retries + 1 >= MaxStageRetries
       IN  /\ loc' = IF last THEN "tripped" ELSE "backoff"
           /\ broken' = (broken \/ last)
    /\ UNCHANGED <<stage, planned, pause, ckpt, mode, qst, bstate, cur, outcome, wakeCtx,
                   todo, sideVars, cancelled, used>>

\* ... until the breaker trips.
BreakerTrips ==
    /\ loc = "tripped"
    /\ pause' = "failure"
    /\ bstate' = "paused" /\ loc' = "paused"
    /\ UNCHANGED <<stage, planned, errs, ckpt, mode, qst, cur, outcome, retries, wakeCtx,
                   todo, sideVars, cancelled, used, broken>>

BackoffEnds ==
    /\ loc = "backoff" /\ ~cancelled
    /\ loc' = "top"
    /\ UNCHANGED <<dbVars, bstate, cur, outcome, retries, wakeCtx, todo, sideVars, cancelled,
                   used, broken>>

-----------------------------------------------------------------------------
(* Commands                                                                *)

\* handleCommand, one case per command.
HandleWake(c) ==
    /\ c \in {"wake", "answer"}
    /\ wakeCtx' = (wakeCtx \/ c = "answer")
    /\ IF bstate = "paused"
       THEN ResumePipeline /\ bstate' = "building" /\ broken' = FALSE
       ELSE UNCHANGED <<rowVars, bstate, broken>>
    /\ UNCHANGED <<ckpt, qst, chatq, used>>

HandleMode(c) ==
    /\ \/ c = "build" /\ ResetPipeline /\ bstate' = "building" /\ broken' = FALSE
       \/ c = "monitor" /\ bstate' = "monitoring" /\ UNCHANGED <<rowVars, broken>>
       \/ c = "pause" /\ bstate' = "paused" /\ UNCHANGED <<rowVars, broken>>
    /\ UNCHANGED <<ckpt, qst, wakeCtx, chatq, used>>

\* A failure to record the stage is only logged.
HandleUpdate(c) ==
    /\ c = "update"
    /\ \/ RequestUpdate /\ UNCHANGED used
       \/ Spend("dbfails") /\ UNCHANGED rowVars
    /\ bstate' = "building" /\ broken' = FALSE
    /\ UNCHANGED <<ckpt, qst, wakeCtx, chatq>>

HandleChat(c) ==
    /\ c = "chat"
    /\ chatq' = IF bstate = "monitoring" THEN chatq + 1 ELSE chatq
    /\ UNCHANGED <<rowVars, ckpt, qst, bstate, wakeCtx, used, broken>>

\* A scheduled task runs its own tool loop inside handleCommand; it may ask for
\* a secret or an approval, which pauses the row but not the worker.
HandleTask(c) ==
    /\ c = "task"
    /\ \/ UNCHANGED <<rowVars, ckpt, qst>>
       \/ \E q \in Questions :
             /\ Ask(q)
             /\ \/ PausePipeline("answers") /\ ckpt' = "other"
                \/ PausePipeline("approval") /\ UNCHANGED ckpt
                \/ UNCHANGED <<rowVars, ckpt>>
    /\ UNCHANGED <<bstate, wakeCtx, chatq, used, broken>>

HandleCommand ==
    /\ chan # <<>>
    /\ LET c == Head(chan)
       IN  HandleWake(c) \/ HandleMode(c) \/ HandleUpdate(c) \/ HandleChat(c) \/ HandleTask(c)
    /\ chan' = Tail(chan)
    /\ UNCHANGED <<mode, cur, outcome, retries, todo, waking, modeReq, chats, cancelled>>

\* runPausedLoop leaves for the loop that fits the new state,
PausedHandles ==
    /\ loc = "paused"
    /\ HandleCommand
    /\ loc' = CASE bstate' = "building" -> "enter"
                [] bstate' = "monitoring" -> "monitor"
                [] OTHER -> "paused"

\* runMonitoringLoop stays whatever the command did to the state.
MonitorHandles ==
    /\ loc = "monitor"
    /\ HandleCommand
    /\ UNCHANGED loc

-----------------------------------------------------------------------------
(* Monitoring ticks and chat-wake goroutines share the semaphore           *)

SlotFree == chats + (IF loc = "tick" THEN 1 ELSE 0) < Slots

TickFires ==
    /\ loc = "monitor"
    /\ loc' = "tickwait"
    /\ UNCHANGED <<dbVars, bstate, cur, outcome, retries, wakeCtx, todo, sideVars, cancelled,
                   used, broken>>

TickStarts ==
    /\ loc = "tickwait"
    /\ SlotFree
    /\ loc' = "tick"
    /\ UNCHANGED <<dbVars, bstate, cur, outcome, retries, wakeCtx, todo, sideVars, cancelled,
                   used, broken>>

\* The tick is over, or was cancelled while it waited; a worker that was told to
\* pause in the meantime moves to the paused loop now.
TickEnds ==
    /\ \/ loc = "tick"
       \/ loc = "tickwait" /\ cancelled
    /\ loc' = IF bstate = "paused" THEN "paused" ELSE "monitor"
    /\ UNCHANGED <<dbVars, bstate, cur, outcome, retries, wakeCtx, todo, sideVars, cancelled,
                   used, broken>>

TickAsksSecret(q) ==
    /\ loc = "tick"
    /\ Ask(q)
    /\ ckpt' = "other"
    /\ pause' = "answers"
    /\ bstate' = "paused" /\ loc' = "paused"
    /\ UNCHANGED <<stage, planned, errs, mode, cur, outcome, retries, wakeCtx, todo, sideVars,
                   cancelled, used, broken>>

ChatStarts ==
    /\ chatq > 0
    /\ \/ SlotFree /\ chats' = chats + 1
       \/ cancelled /\ UNCHANGED chats
    /\ chatq' = chatq - 1
    /\ UNCHANGED <<dbVars, workVars, chan, waking, modeReq, cancelled, used, broken>>

ChatEnds ==
    /\ chats > 0
    /\ chats' = chats - 1
    /\ UNCHANGED <<dbVars, workVars, chan, waking, modeReq, chatq, cancelled, used, broken>>

\* A chat session that asks for a secret pauses the row, not the worker.
ChatAsksSecret(q) ==
    /\ chats > 0
    /\ Ask(q)
    /\ ckpt' = "other"
    /\ pause' = "answers"
    /\ chats' = chats - 1
    /\ UNCHANGED <<stage, planned, errs, mode, workVars, chan, waking, modeReq, chatq,
                   cancelled, used, broken>>

-----------------------------------------------------------------------------
(* The owner                                                               *)

\* SendCommand delivers while the worker is known and its channel has room.
CanSend == Registered /\ Len(chan) < ChanCap

OwnerSends(c) ==
    /\ CanSend
    /\ Spend("cmds")
    /\ chan' = Append(chan, c)
    /\ UNCHANGED <<dbVars, workVars, waking, modeReq, chatq, chats, cancelled, broken>>

\* BrainHandler.Mode writes the mode, then sends the command and ignores failure.
AdminWritesMode(m) ==
    /\ modeReq = "none"
    /\ Spend("modes")
    /\ mode' = m /\ modeReq' = m
    /\ UNCHANGED <<stage, planned, pause, errs, ckpt, qst, workVars, chan, waking, chatq,
                   chats, cancelled, broken>>

ModeCommand(m) ==
    CASE m = "building" -> "build"
      [] m = "monitoring" -> "monitor"
      [] m = "paused" -> "pause"

AdminSendsMode ==
    /\ modeReq # "none"
    /\ chan' = IF CanSend THEN Append(chan, ModeCommand(modeReq)) ELSE chan
    /\ modeReq' = "none"
    /\ UNCHANGED <<dbVars, workVars, waking, chatq, chats, cancelled, used, broken>>

\* Answer: mark the question, then count what is pending, then wake the worker.
\* The status is not looked at: a superseded question can still be answered.
AnswerMarks(q) ==
    /\ waking[q] = "idle" /\ qst[q] \in {"pending", "superseded"}
    /\ qst' = [qst EXCEPT ![q] = "answered"]
    /\ waking' = [waking EXCEPT ![q] = "marked"]
    /\ UNCHANGED <<stage, planned, pause, errs, ckpt, mode, workVars, chan, modeReq, chatq,
                   chats, cancelled, used, broken>>

AnswerCounts(q) ==
    /\ waking[q] = "marked"
    /\ waking' = [waking EXCEPT ![q] = IF Pending = {} THEN "send" ELSE "idle"]
    /\ UNCHANGED <<dbVars, workVars, chan, modeReq, chatq, chats, cancelled, used, broken>>

\* The subscriber in main.go sends the wake, once more after a failure.
AnswerWakes(q) ==
    /\ waking[q] \in {"send", "resend"}
    /\ IF CanSend
       THEN /\ chan' = Append(chan, "answer")
            /\ waking' = [waking EXCEPT ![q] = "idle"]
       ELSE /\ waking' = [waking EXCEPT ![q] = IF @ = "send" THEN "resend" ELSE "idle"]
            /\ UNCHANGED chan
    /\ UNCHANGED <<dbVars, workVars, modeReq, chatq, chats, cancelled, used, broken>>

-----------------------------------------------------------------------------
(* Stops and crashes                                                       *)

\* StopSite, StopAll: the context is cancelled, nobody waits for the goroutine.
Stop ==
    /\ Registered
    /\ Spend("stops")
    /\ cancelled' = TRUE
    /\ UNCHANGED <<dbVars, workVars, sideVars, broken>>

\* Wrong on purpose: the backoff between two tries does not look at the context.
ExitAtLoopHeads ==
    /\ cancelled
    /\ loc \in {"top", "paused", "monitor", "gone"}
    /\ loc' = "off"
    /\ UNCHANGED <<dbVars, bstate, cur, outcome, retries, wakeCtx, todo, sideVars, cancelled,
                   used, broken>>

\* The points where the goroutine looks at its context.
Exit ==
    /\ cancelled
    /\ loc \in {"top", "backoff", "paused", "monitor", "gone"}
    /\ loc' = "off"
    /\ UNCHANGED <<dbVars, bstate, cur, outcome, retries, wakeCtx, todo, sideVars, cancelled,
                   used, broken>>

\* The process dies: the databases are all that is left.
Crash ==
    /\ Spend("crashes")
    /\ loc' = "off" /\ bstate' = "idle" /\ wakeCtx' = FALSE /\ todo' = {}
    /\ retries' = 0 /\ cancelled' = FALSE
    /\ chan' = <<>> /\ waking' = [q \in Questions |-> "idle"] /\ modeReq' = "none"
    /\ chatq' = 0 /\ chats' = 0
    /\ UNCHANGED <<dbVars, cur, outcome, broken>>

-----------------------------------------------------------------------------
WorkerStep ==
    \/ Boot \/ Enter
    \/ StageBegins \/ StageFails \/ StageSucceeds \/ PlanSucceeds \/ PlanAsks \/ AskNext
    \/ PauseForAnswers \/ CompleteSucceeds \/ UpdateClearsPages \/ UpdatePlanSucceeds
    \/ Checkpoint \/ \E q \in Questions : SecretAsked(q)
    \/ StageAdvances \/ FailureChecked \/ ValidateRetried \/ ValidateGivenUp
    \/ PermanentError \/ FailureCounted \/ BreakerTrips \/ BackoffEnds
    \/ TickStarts \/ TickEnds \/ \E q \in Questions : TickAsksSecret(q)

Handle == PausedHandles \/ MonitorHandles

SideStep ==
    \/ ChatStarts \/ ChatEnds \/ \E q \in Questions : ChatAsksSecret(q)
    \/ AdminSendsMode
    \/ \E q \in Questions : AnswerCounts(q) \/ AnswerWakes(q)

Next ==
    \/ Start \/ WorkerStep \/ Handle \/ SideStep
    \/ LoadFails \/ TickFires
    \/ \E q \in Questions : InfoAsked(q) \/ ApprovalAsked(q) \/ AnswerMarks(q)
    \/ \E c \in OwnerCmds : OwnerSends(c)
    \/ \E m \in Modes : AdminWritesMode(m)
    \/ Stop \/ Exit \/ Crash

Spec == Init /\ [][Next]_vars

\* A goroutine that can run does; an LLM call returns within its timeout.  The
\* select of a loop takes a ready command or a cancelled context sooner or later,
\* which is strong fairness: the loop visits it again and again.  A restarted
\* process starts its sites.  Ticks, owners and faults owe nothing.
Fairness ==
    /\ WF_vars(Start)
    /\ WF_vars(WorkerStep)
    /\ SF_vars(Handle)
    /\ SF_vars(Exit)
    /\ WF_vars(ChatStarts) /\ WF_vars(ChatEnds) /\ WF_vars(AdminSendsMode)
    /\ \A q \in Questions : WF_vars(AnswerCounts(q)) /\ WF_vars(AnswerWakes(q))

FairSpec == Spec /\ Fairness
-----------------------------------------------------------------------------
(* Properties                                                              *)

TypeOK ==
    /\ RowTypeOK
    /\ ckpt \in {"none", "build", "other"}
    /\ mode \in Modes
    /\ qst \in [Questions -> {"none", "pending", "answered", "superseded"}]
    /\ loc \in Locs
    /\ bstate \in BrainStates
    /\ cur \in Stages
    /\ outcome \in Stages \cup ErrorKinds
    /\ retries \in 0 .. MaxStageRetries
    /\ wakeCtx \in BOOLEAN
    /\ todo \subseteq Questions
    /\ cancelled \in BOOLEAN
    /\ chan \in Seq(Commands)
    /\ waking \in [Questions -> {"idle", "marked", "send", "resend"}]
    /\ modeReq \in Modes \cup {"none"}
    /\ chatq \in Nat
    /\ chats \in Nat
    /\ used \in [Budgets -> Nat]
    /\ broken \in BOOLEAN

\* The stage the loop runs is the stage a restart would run: runBuildPipeline's
\* local variable and the row agree wherever the loop is, except that COMPLETE may
\* run on a row that still says VALIDATE (the advance past a failed VALIDATE is
\* allowed to fail).
MemoryMatchesRow ==
    loc \in InBuildLoop => cur = stage \/ (cur = "COMPLETE" /\ stage = "VALIDATE")

\* The circuit breaker survives restarts: once a stage has failed MaxStageRetries
\* times in a row no stage runs until the owner resumes, updates or restarts the
\* build, even if the process dies between counting the failure and pausing the row.
BreakerHolds == loc = "run" => ~broken

\* The worker implements the protocol of its row (PipelineRow): each of its steps,
\* of the chat sessions, of the owner's handlers, of a crash or a restart writes
\* the row as one statement of plan.go may, or not at all.
RowSpecImplemented == RowSpec

\* What the worker's goroutine relies on between its steps; together with TypeOK and
\* MemoryMatchesRow it is inductive.  The loop never counts past the threshold and
\* the row counts at least as much as the loop; a stage that succeeded names a
\* successor that may be recorded; a tripped breaker keeps the worker out of the loop.
RetriesBounded ==
    loc \in InBuildLoop \ {"tripped"} =>
        IF cur = "VALIDATE" THEN retries <= 1 ELSE retries < MaxStageRetries /\ retries <= errs

SuccessorIsNext ==
    /\ loc = "done" => <<cur, outcome>> \in Edges /\ (outcome = "BUILD" => planned)
    /\ loc = "asking" => cur = "PLAN"
    /\ loc = "patching" => cur = "UPDATE_PLAN" /\ planned
    /\ loc \in InBuildLoop \ {"top"} => cur # "MONITORING"

BrokenStaysOut ==
    /\ broken => errs >= MaxStageRetries /\ loc \notin (InBuildLoop \ {"tripped"}) \cup {"enter"}
    /\ loc = "paused" => bstate = "paused"

WorkerInv == MemoryMatchesRow /\ RetriesBounded /\ SuccessorIsNext /\ BrokenStaysOut

\* A build comes to an end: the loop that runs stages always leaves for the paused
\* loop, the monitoring loop or the end of the goroutine, whatever its stages return.
BuildEnds == (loc \in InBuildLoop) ~> (loc \notin InBuildLoop)

\* StopSite works everywhere: a worker whose context is cancelled ends.
StopTerminates == cancelled ~> (loc = "off")

\* No wake-up is lost: a worker does not wait for answers it already has, whether
\* they came before, while or after the row was paused, or across a restart.  The
\* breaker has priority: at its threshold autoRecover leaves every pause in place.
\* A site its owner has set to paused waits as well.  It takes a channel with room:
\* SendCommand drops the wake-up when sixteen commands have piled up in a long build.
WaitsForNothing ==
    /\ loc = "paused" /\ pause = "answers" /\ Pending = {}
    /\ errs < MaxStageRetries /\ mode # "paused"
AnsweredResumes == WaitsForNothing ~> ~WaitsForNothing

\* A build that was interrupted in building mode goes on after the restart with the
\* stage the row names.
Interrupted(s) ==
    loc = "off" /\ mode = "building" /\ pause = "no" /\ errs < MaxStageRetries /\ stage = s
InterruptedBuildResumes ==
    \A s \in Stages \ {"MONITORING"} :
        Interrupted(s) ~> (loc \in {"run", "failed"} /\ cur = s) \/ mode # "building"

-----------------------------------------------------------------------------
(* What the repository says of the worker, and the worker does not do.  Each is    *)
(* checked in a run of its own that finds the behaviour; see README.md.            *)

\* tools/approval.go: "Pause the pipeline so the brain waits for the answer."  No
\* stage is begun while the row is paused for an approval.
ApprovalWaits == [][loc = "top" /\ loc' = "run" => pause # "approval"]_vars

\* brain/types.go: CommandUpdate, "trigger incremental update".  A row that names
\* UPDATE_PLAN and is not paused gets its UPDATE_PLAN stage run, unless it is paused.
UpdateStarts ==
    (stage = "UPDATE_PLAN" /\ pause = "no")
        ~> (loc = "run" /\ cur = "UPDATE_PLAN") \/ pause # "no"
=============================================================================
