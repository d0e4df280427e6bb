---------------------------- MODULE PipelineProofs ----------------------------
(***************************************************************************)
(* Theorems about the pipeline worker of one site, for every set of        *)
(* questions, every threshold and every bound.                             *)
(*                                                                         *)
(* The invariant is TypeOK /\ WorkerInv.  TypeOK needs WorkerInv, whose     *)
(* RetriesBounded keeps the retry counter in its domain and whose          *)
(* SuccessorIsNext makes what a stage returned a stage; the row's protocol *)
(* needs both, and PlanBeforeBuild then follows from the theorem about the *)
(* protocol, which comes first.                                            *)
(***************************************************************************)
EXTENDS Pipeline, TLAPS

\* Every statement of plan.go keeps the columns of the row in their domains, and
\* none records a stage that needs a plan without one.
LEMMA RowStep == RowTypeOK /\ PlanBeforeBuild /\ [RowNext]_rowVars
                     => RowTypeOK' /\ PlanBeforeBuild'
<1> SUFFICES ASSUME RowTypeOK, PlanBeforeBuild, [RowNext]_rowVars
             PROVE  RowTypeOK' /\ PlanBeforeBuild'
    OBVIOUS
<1> USE DEF RowTypeOK, PlanBeforeBuild, Stages, PauseReasons
<1>1. ASSUME NEW s \in Stages, Advance(s)
      PROVE  RowTypeOK' /\ PlanBeforeBuild'
    <2>1. RowTypeOK'
        BY <1>1 DEF Advance
    <2>2. s \in {"VALIDATE", "COMPLETE", "MONITORING"} =>
              stage \in {"BUILD", "VALIDATE", "COMPLETE"}
        BY <1>1 DEF Advance, Edges
    <2>3. PlanBeforeBuild'
        BY <1>1, <2>2 DEF Advance
    <2> QED  BY <2>1, <2>3
<1>2. CASE RequestUpdate
    BY <1>2 DEF RequestUpdate
<1>3. CASE SavePlan
    BY <1>3 DEF SavePlan
<1>4. CASE ResetPipeline
    BY <1>4 DEF ResetPipeline
<1>5. ASSUME NEW r \in PauseReasons, PausePipeline(r)
      PROVE  RowTypeOK' /\ PlanBeforeBuild'
    BY <1>5 DEF PausePipeline
<1>6. CASE ResumePipeline
    BY <1>6 DEF ResumePipeline
<1>7. CASE IncrementErrorCount
    BY <1>7 DEF IncrementErrorCount
<1>8. CASE AutoRecover
    BY <1>8 DEF AutoRecover
<1>9. CASE UNCHANGED rowVars
    BY <1>9 DEF rowVars
<1> QED  BY <1>1, <1>2, <1>3, <1>4, <1>5, <1>6, <1>7, <1>8, <1>9 DEF RowNext

\* Whatever order the statements of plan.go run in, within their preconditions, a
\* stage that works from the plan is recorded only with a plan.
THEOREM RowPlanBeforeBuild == RowSpec => [](RowTypeOK /\ PlanBeforeBuild)
<1>1. RowInit => RowTypeOK /\ PlanBeforeBuild
    <2> SUFFICES ASSUME RowInit
                 PROVE  RowTypeOK /\ PlanBeforeBuild
        OBVIOUS
    <2>1. planned \in BOOLEAN
        BY Zenon DEF RowInit
    <2>2. stage = "EXPAND" /\ pause = "no" /\ errs = 0
        BY DEF RowInit
    <2> QED  BY <2>1, <2>2 DEF RowTypeOK, PlanBeforeBuild, Stages, PauseReasons
<1> QED  BY <1>1, RowStep, PTL DEF RowSpec

-----------------------------------------------------------------------------

\* handleCommand keeps every variable in its domain, whichever command it takes.
LEMMA CommandTypes == TypeOK /\ HandleCommand /\ loc' \in Locs => TypeOK'
<1> SUFFICES ASSUME TypeOK, HandleCommand, loc' \in Locs
             PROVE  TypeOK'
    OBVIOUS
<1> USE DEF TypeOK, RowTypeOK, BrainStates, Modes, Stages, PauseReasons, Budgets
<1> DEFINE c == Head(chan)
<1>1. /\ c \in Commands
      /\ chan' \in Seq(Commands)
      /\ UNCHANGED <<mode, cur, outcome, retries, todo, waking, modeReq, chats, cancelled>>
    BY DEF HandleCommand
<1>2. CASE HandleWake(c)
    <2>1. wakeCtx' \in BOOLEAN /\ broken' \in BOOLEAN
        BY <1>2, Zenon DEF HandleWake
    <2>2. /\ UNCHANGED <<stage, planned, errs, ckpt, qst, chatq, used>>
          /\ pause' \in {pause, "no"} /\ bstate' \in {bstate, "building"}
        BY <1>2 DEF HandleWake, ResumePipeline, rowVars
    <2> QED  BY <1>1, <2>1, <2>2
<1>3. CASE HandleMode(c)
    <2>1. planned' \in BOOLEAN /\ broken' \in BOOLEAN
        BY <1>3, Zenon DEF HandleMode, ResetPipeline, rowVars
    <2>2. /\ UNCHANGED <<ckpt, qst, wakeCtx, chatq, used>>
          /\ stage' \in {stage, "EXPAND"} /\ pause' \in {pause, "no"} /\ errs' \in {errs, 0}
          /\ bstate' \in BrainStates
        BY <1>3 DEF HandleMode, ResetPipeline, rowVars
    <2> QED  BY <1>1, <2>1, <2>2
<1>4. CASE HandleUpdate(c)
    <2>1. broken' \in BOOLEAN
        BY <1>4, Zenon DEF HandleUpdate
    <2>2. /\ UNCHANGED <<planned, pause, ckpt, qst, wakeCtx, chatq>>
          /\ stage' \in {stage, "UPDATE_PLAN"} /\ errs' \in {errs, 0}
          /\ bstate' = "building" /\ used' \in [Budgets -> Nat]
        BY <1>4 DEF HandleUpdate, RequestUpdate, rowVars, Spend
    <2> QED  BY <1>1, <2>1, <2>2
<1>5. CASE HandleChat(c)
    BY <1>1, <1>5 DEF HandleChat, rowVars
<1>6. CASE HandleTask(c)
    <2>1. /\ UNCHANGED <<stage, planned, errs, bstate, wakeCtx, chatq, used, broken>>
          /\ pause' \in {pause, "answers", "approval"} /\ ckpt' \in {ckpt, "other"}
          /\ qst' \in [Questions -> {"none", "pending", "answered", "superseded"}]
        BY <1>6 DEF HandleTask, PausePipeline, rowVars, Ask
    <2> QED  BY <1>1, <2>1
<1> QED  BY <1>2, <1>3, <1>4, <1>5, <1>6 DEF HandleCommand

-----------------------------------------------------------------------------
(* The invariant is inductive                                              *)

\* A step from a state of the invariant leads to a well-typed state.
LEMMA TypeStep == TypeOK /\ WorkerInv /\ [Next]_vars => TypeOK'
<1> SUFFICES ASSUME TypeOK, WorkerInv, [Next]_vars
             PROVE  TypeOK'
    OBVIOUS
<1> USE RetriesAssumption DEF TypeOK, RowTypeOK, dbVars, workVars, sideVars, WorkerInv,
        RetriesBounded, InBuildLoop, InTick, Locs, Stages, PauseReasons, BrainStates, ErrorKinds,
        Modes, Budgets, Commands
<1>1. CASE Start
    <2>1. wakeCtx' \in BOOLEAN /\ cancelled' \in BOOLEAN
        BY <1>1, Zenon DEF Start
    <2>2. UNCHANGED <<dbVars, cur, outcome, retries, todo, waking, modeReq, chats, used, broken>>
          /\ loc' = "boot" /\ bstate' = "idle" /\ chan' = <<>> /\ chatq' = 0
        BY <1>1 DEF Start
    <2> QED  BY <2>1, <2>2
<1>2. CASE Boot
    <2>1. wakeCtx' \in BOOLEAN
        BY <1>2, Zenon DEF Boot, AutoRecovered
    <2>2. UNCHANGED <<stage, planned, ckpt, mode, qst, cur, outcome, retries, todo, sideVars,
                      cancelled, used, broken>>
        BY <1>2 DEF Boot
    <2>3. /\ errs' \in {errs, 0} /\ pause' \in {pause, "no"}
          /\ bstate' \in BrainStates /\ loc' \in Locs
        BY <1>2 DEF Boot, AutoRecovered
    <2> QED  BY <2>1, <2>2, <2>3
<1>3. CASE Enter
    BY <1>3 DEF Enter
<1>4. CASE LoadFails
    BY <1>4 DEF LoadFails, Spend
<1>5. CASE StageBegins
    BY <1>5 DEF StageBegins
<1>6. CASE StageFails
    BY <1>6 DEF StageFails, HandlerFails, BuildFails, CriticalIssues
<1>7. CASE StageSucceeds
    BY <1>7 DEF StageSucceeds, ExpandDone, BuildDone, ValidateDone
<1>8. CASE PlanSucceeds
    <2>1. planned' \in BOOLEAN /\ wakeCtx' \in BOOLEAN
        BY <1>8, Zenon DEF PlanSucceeds
    <2>2. UNCHANGED <<stage, pause, errs, ckpt, mode, qst, bstate, cur, retries, todo, sideVars,
                      cancelled, used, broken>>
          /\ outcome' = "BUILD" /\ loc' = "done"
        BY <1>8 DEF PlanSucceeds
    <2> QED  BY <2>1, <2>2
<1>9. CASE PlanAsks
    BY <1>9 DEF PlanAsks
<1>10. CASE AskNext
    BY <1>10 DEF AskNext, Ask
<1>11. CASE PauseForAnswers
    BY <1>11 DEF PauseForAnswers
<1>12. CASE CompleteSucceeds
    BY <1>12 DEF CompleteSucceeds
<1>13. CASE UpdateClearsPages
    BY <1>13 DEF UpdateClearsPages
<1>14. CASE UpdatePlanSucceeds
    BY <1>14 DEF UpdatePlanSucceeds
<1>15. CASE Checkpoint
    BY <1>15 DEF Checkpoint
<1>16. CASE StageAdvances
    <2>1. outcome \in Stages
        BY <1>16 DEF StageAdvances, SuccessorIsNext, Edges
    <2> QED  BY <1>16, <2>1 DEF StageAdvances, Spend
<1>17. CASE FailureChecked
    BY <1>17 DEF FailureChecked, Spend
<1>18. CASE ValidateRetried
    BY <1>18 DEF ValidateRetried
<1>19. CASE ValidateGivenUp
    BY <1>19 DEF ValidateGivenUp, Spend
<1>20. CASE PermanentError
    BY <1>20 DEF PermanentError
<1>21. CASE FailureCounted
    BY <1>21 DEF FailureCounted
<1>22. CASE BreakerTrips
    BY <1>22 DEF BreakerTrips
<1>23. CASE BackoffEnds
    BY <1>23 DEF BackoffEnds
<1>24. CASE PausedHandles
    <2>1. loc' \in Locs
        BY <1>24 DEF PausedHandles
    <2> QED  BY <1>24, <2>1, CommandTypes DEF PausedHandles
<1>25. CASE MonitorHandles
    <2> QED  BY <1>25, CommandTypes DEF MonitorHandles
<1>26. CASE TickFires
    BY <1>26 DEF TickFires
<1>27. CASE TickStarts
    BY <1>27 DEF TickStarts
<1>28. CASE TickEnds
    BY <1>28 DEF TickEnds
<1>29. CASE ChatStarts
    BY <1>29 DEF ChatStarts, SlotFree
<1>30. CASE ChatEnds
    BY <1>30 DEF ChatEnds
<1>31. CASE AdminSendsMode
    BY <1>31 DEF AdminSendsMode, ModeCommand, CanSend
<1>32. CASE Stop
    BY <1>32 DEF Stop, Spend
<1>33. CASE Exit
    BY <1>33 DEF Exit
<1>34. CASE Crash
    <2>1. wakeCtx' \in BOOLEAN /\ cancelled' \in BOOLEAN
        BY <1>34, Zenon DEF Crash
    <2>2. UNCHANGED <<dbVars, cur, outcome, broken>>
          /\ loc' = "off" /\ bstate' = "idle" /\ todo' = {} /\ retries' = 0
          /\ chan' = <<>> /\ waking' = [q \in Questions |-> "idle"] /\ modeReq' = "none"
          /\ chatq' = 0 /\ chats' = 0
        BY <1>34 DEF Crash
    <2>3. used' \in [Budgets -> Nat]
        BY <1>34 DEF Crash, Spend
    <2> QED  BY <2>1, <2>2, <2>3
<1>35. ASSUME NEW q \in Questions, InfoAsked(q)
      PROVE  TypeOK'
    BY <1>35 DEF InfoAsked, Ask
<1>36. ASSUME NEW q \in Questions, SecretAsked(q)
      PROVE  TypeOK'
    BY <1>36 DEF SecretAsked, Ask
<1>37. ASSUME NEW q \in Questions, ApprovalAsked(q)
      PROVE  TypeOK'
    BY <1>37 DEF ApprovalAsked, Ask
<1>38. ASSUME NEW q \in Questions, TickAsksSecret(q)
      PROVE  TypeOK'
    BY <1>38 DEF TickAsksSecret, Ask
<1>39. ASSUME NEW q \in Questions, ChatAsksSecret(q)
      PROVE  TypeOK'
    BY <1>39 DEF ChatAsksSecret, Ask
<1>40. ASSUME NEW q \in Questions, AnswerMarks(q)
      PROVE  TypeOK'
    BY <1>40 DEF AnswerMarks
<1>41. ASSUME NEW q \in Questions, AnswerCounts(q)
      PROVE  TypeOK'
    BY <1>41 DEF AnswerCounts
<1>42. ASSUME NEW q \in Questions, AnswerWakes(q)
      PROVE  TypeOK'
    <2>1. UNCHANGED <<dbVars, workVars, modeReq, chatq, chats, cancelled, used, broken>>
        BY <1>42 DEF AnswerWakes
    <2>2. waking' \in [Questions -> {"idle", "marked", "send", "resend"}]
        BY <1>42 DEF AnswerWakes
    <2>3. chan' = chan \/ chan' = Append(chan, "answer")
        BY <1>42 DEF AnswerWakes
    <2>4. chan' \in Seq(Commands)
        BY <2>3
    <2> QED  BY <2>1, <2>2, <2>4
<1>43. ASSUME NEW c \in OwnerCmds, OwnerSends(c)
      PROVE  TypeOK'
    BY <1>43, PipelineAssumption DEF OwnerSends, Spend, CanSend
<1>44. ASSUME NEW m \in Modes, AdminWritesMode(m)
      PROVE  TypeOK'
    BY <1>44 DEF AdminWritesMode, Spend
<1>45. CASE UNCHANGED vars
    BY <1>45 DEF vars
<1> QED
    BY <1>1, <1>2, <1>3, <1>4, <1>5, <1>6, <1>7, <1>8, <1>9, <1>10, <1>11, <1>12, <1>13,
        <1>14, <1>15, <1>16, <1>17, <1>18, <1>19, <1>20, <1>21, <1>22, <1>23, <1>24, <1>25,
        <1>26, <1>27, <1>28, <1>29, <1>30, <1>31, <1>32, <1>33, <1>34, <1>35, <1>36, <1>37,
        <1>38, <1>39, <1>40, <1>41, <1>42, <1>43, <1>44, <1>45
    DEF Next, WorkerStep, Handle, SideStep

\* A step from a state of the invariant keeps what the worker relies on: one action
\* of the worker, the owner, a chat session or a fault each.
LEMMA WorkerStepInv == TypeOK /\ WorkerInv /\ [Next]_vars => WorkerInv'
<1> SUFFICES ASSUME TypeOK, WorkerInv, [Next]_vars
             PROVE  WorkerInv'
    OBVIOUS
<1> USE RetriesAssumption DEF TypeOK, RowTypeOK, dbVars, workVars, sideVars, WorkerInv,
        MemoryMatchesRow, RetriesBounded, SuccessorIsNext, BrokenStaysOut, InBuildLoop, InTick, Edges
<1>1. CASE Start
    BY <1>1 DEF Start
<1>2. CASE Boot
    BY <1>2 DEF Boot, AutoRecovered
<1>3. CASE Enter
    BY <1>3 DEF Enter
<1>4. CASE LoadFails
    BY <1>4 DEF LoadFails
<1>5. CASE StageBegins
    BY <1>5 DEF StageBegins
<1>6. CASE StageFails
    BY <1>6 DEF StageFails, HandlerFails, BuildFails, CriticalIssues
<1>7. CASE StageSucceeds
    BY <1>7 DEF StageSucceeds, ExpandDone, BuildDone, ValidateDone
<1>8. CASE PlanSucceeds
    BY <1>8 DEF PlanSucceeds
<1>9. CASE PlanAsks
    BY <1>9 DEF PlanAsks
<1>10. CASE AskNext
    BY <1>10 DEF AskNext
<1>11. CASE PauseForAnswers
    BY <1>11 DEF PauseForAnswers
<1>12. CASE CompleteSucceeds
    BY <1>12 DEF CompleteSucceeds
<1>13. CASE UpdateClearsPages
    BY <1>13 DEF UpdateClearsPages
<1>14. CASE UpdatePlanSucceeds
    BY <1>14 DEF UpdatePlanSucceeds
<1>15. CASE Checkpoint
    BY <1>15 DEF Checkpoint
<1>16. CASE StageAdvances
    BY <1>16 DEF StageAdvances
<1>17. CASE FailureChecked
    BY <1>17 DEF FailureChecked
<1>18. CASE ValidateRetried
    BY <1>18 DEF ValidateRetried
<1>19. CASE ValidateGivenUp
    BY <1>19 DEF ValidateGivenUp
<1>20. CASE PermanentError
    BY <1>20 DEF PermanentError
<1>21. CASE FailureCounted
    BY <1>21 DEF FailureCounted
<1>22. CASE BreakerTrips
    BY <1>22 DEF BreakerTrips
<1>23. CASE BackoffEnds
    BY <1>23 DEF BackoffEnds
<1>24. CASE PausedHandles
    BY <1>24
    DEF PausedHandles, HandleCommand, HandleWake, HandleMode, HandleUpdate, HandleChat,
        HandleTask, ResumePipeline, ResetPipeline, RequestUpdate, PausePipeline, rowVars
<1>25. CASE MonitorHandles
    BY <1>25
    DEF MonitorHandles, HandleCommand, HandleWake, HandleMode, HandleUpdate, HandleChat,
        HandleTask, ResumePipeline, ResetPipeline, RequestUpdate, PausePipeline, rowVars
<1>26. CASE TickFires
    BY <1>26 DEF TickFires
<1>27. CASE TickStarts
    BY <1>27 DEF TickStarts
<1>28. CASE TickEnds
    BY <1>28 DEF TickEnds
<1>29. CASE ChatStarts
    BY <1>29 DEF ChatStarts
<1>30. CASE ChatEnds
    BY <1>30 DEF ChatEnds
<1>31. CASE AdminSendsMode
    BY <1>31 DEF AdminSendsMode
<1>32. CASE Stop
    BY <1>32 DEF Stop
<1>33. CASE Exit
    BY <1>33 DEF Exit
<1>34. CASE Crash
    BY <1>34 DEF Crash
<1>35. ASSUME NEW q \in Questions, InfoAsked(q)
      PROVE  WorkerInv'
    BY <1>35 DEF InfoAsked
<1>36. ASSUME NEW q \in Questions, SecretAsked(q)
      PROVE  WorkerInv'
    BY <1>36 DEF SecretAsked
<1>37. ASSUME NEW q \in Questions, ApprovalAsked(q)
      PROVE  WorkerInv'
    BY <1>37 DEF ApprovalAsked
<1>38. ASSUME NEW q \in Questions, TickAsksSecret(q)
      PROVE  WorkerInv'
    BY <1>38 DEF TickAsksSecret
<1>39. ASSUME NEW q \in Questions, ChatAsksSecret(q)
      PROVE  WorkerInv'
    BY <1>39 DEF ChatAsksSecret
<1>40. ASSUME NEW q \in Questions, AnswerMarks(q)
      PROVE  WorkerInv'
    BY <1>40 DEF AnswerMarks
<1>41. ASSUME NEW q \in Questions, AnswerCounts(q)
      PROVE  WorkerInv'
    BY <1>41 DEF AnswerCounts
<1>42. ASSUME NEW q \in Questions, AnswerWakes(q)
      PROVE  WorkerInv'
    BY <1>42 DEF AnswerWakes
<1>43. ASSUME NEW c \in OwnerCmds, OwnerSends(c)
      PROVE  WorkerInv'
    BY <1>43 DEF OwnerSends
<1>44. ASSUME NEW m \in Modes, AdminWritesMode(m)
      PROVE  WorkerInv'
    BY <1>44 DEF AdminWritesMode
<1>45. CASE UNCHANGED vars
    BY <1>45 DEF vars
<1> QED
    BY <1>1, <1>2, <1>3, <1>4, <1>5, <1>6, <1>7, <1>8, <1>9, <1>10, <1>11, <1>12, <1>13,
        <1>14, <1>15, <1>16, <1>17, <1>18, <1>19, <1>20, <1>21, <1>22, <1>23, <1>24, <1>25,
        <1>26, <1>27, <1>28, <1>29, <1>30, <1>31, <1>32, <1>33, <1>34, <1>35, <1>36, <1>37,
        <1>38, <1>39, <1>40, <1>41, <1>42, <1>43, <1>44, <1>45
    DEF Next, WorkerStep, Handle, SideStep

\* The invariant holds when the database of a site is created.
LEMMA InitInv == Init => TypeOK /\ WorkerInv
<1> SUFFICES ASSUME Init
             PROVE  TypeOK /\ WorkerInv
    OBVIOUS
<1>1. /\ planned \in BOOLEAN /\ wakeCtx \in BOOLEAN
      /\ cancelled \in BOOLEAN /\ broken \in BOOLEAN
    BY Zenon DEF Init, RowInit
<1>2. ~broken
    BY Zenon DEF Init
<1>3. /\ stage = "EXPAND" /\ pause = "no" /\ errs = 0
      /\ ckpt = "none" /\ mode = "building" /\ qst = [q \in Questions |-> "none"]
      /\ loc = "off" /\ bstate = "idle" /\ cur = "EXPAND" /\ outcome = "EXPAND"
      /\ retries = 0 /\ todo = {} /\ chan = <<>> /\ waking = [q \in Questions |-> "idle"]
      /\ modeReq = "none" /\ chatq = 0 /\ chats = 0 /\ used = [k \in Budgets |-> 0]
    BY DEF Init, RowInit
<1>4. TypeOK
    BY <1>1, <1>3, RetriesAssumption
    DEF TypeOK, RowTypeOK, Stages, PauseReasons, Modes, BrainStates, Locs
<1>5. WorkerInv
    BY <1>2, <1>3
    DEF WorkerInv, MemoryMatchesRow, RetriesBounded, SuccessorIsNext, BrokenStaysOut, InBuildLoop
<1> QED  BY <1>4, <1>5

\* Crashes, stops, commands and failures included, the worker is always in a state
\* of the invariant.
THEOREM PipelineInvariant == Spec => [](TypeOK /\ WorkerInv)
<1> QED  BY InitInv, TypeStep, WorkerStepInv, PTL DEF Spec

\* Every variable of the worker, its databases and its surroundings has its type;
\* in particular no stage is retried past MaxStageRetries.
THEOREM PipelineTyped == Spec => []TypeOK
<1> QED  BY PipelineInvariant, PTL

\* What runBuildPipeline runs is what a restart would run.
THEOREM PipelineMemoryMatchesRow == Spec => []MemoryMatchesRow
<1>1. WorkerInv => MemoryMatchesRow
    BY DEF WorkerInv
<1> QED  BY <1>1, PipelineInvariant, PTL

\* The circuit breaker holds across crashes: a stage that failed MaxStageRetries
\* times in a row is followed by no stage until the owner acts.
THEOREM PipelineBreakerHolds == Spec => []BreakerHolds
<1>1. WorkerInv => BreakerHolds
    BY DEF WorkerInv, BrokenStaysOut, BreakerHolds, InBuildLoop
<1> QED  BY <1>1, PipelineInvariant, PTL

-----------------------------------------------------------------------------
(* The worker implements the protocol of its row                           *)

\* A step from a state of the invariant writes the row as one statement of plan.go
\* may, or leaves it as it is.
LEMMA RowRefinedByStep == TypeOK /\ WorkerInv /\ [Next]_vars => [RowNext]_rowVars
<1> SUFFICES ASSUME TypeOK, WorkerInv, [Next]_vars
             PROVE  [RowNext]_rowVars
    OBVIOUS
<1> USE RetriesAssumption DEF TypeOK, RowTypeOK, dbVars, workVars, sideVars, WorkerInv,
        MemoryMatchesRow, RetriesBounded, SuccessorIsNext, InBuildLoop, Edges, Stages, PauseReasons,
        RowNext, rowVars
<1>1. CASE Start
    BY <1>1 DEF Start
<1>2. CASE Boot
    BY <1>2 DEF Boot, AutoRecovered, AutoRecover
<1>3. CASE Enter
    BY <1>3 DEF Enter
<1>4. CASE LoadFails
    BY <1>4 DEF LoadFails
<1>5. CASE StageBegins
    BY <1>5 DEF StageBegins, PausePipeline
<1>6. CASE StageFails
    BY <1>6 DEF StageFails, HandlerFails, BuildFails, CriticalIssues
<1>7. CASE StageSucceeds
    BY <1>7 DEF StageSucceeds, ExpandDone, BuildDone, ValidateDone
<1>8. CASE PlanSucceeds
    BY <1>8 DEF PlanSucceeds, SavePlan
<1>9. CASE PlanAsks
    BY <1>9 DEF PlanAsks
<1>10. CASE AskNext
    BY <1>10 DEF AskNext
<1>11. CASE PauseForAnswers
    BY <1>11 DEF PauseForAnswers, PausePipeline
<1>12. CASE CompleteSucceeds
    BY <1>12 DEF CompleteSucceeds
<1>13. CASE UpdateClearsPages
    BY <1>13 DEF UpdateClearsPages
<1>14. CASE UpdatePlanSucceeds
    BY <1>14 DEF UpdatePlanSucceeds, SavePlan
<1>15. CASE Checkpoint
    BY <1>15 DEF Checkpoint
<1>16. CASE StageAdvances
    BY <1>16 DEF StageAdvances, Advance
<1>17. CASE FailureChecked
    BY <1>17 DEF FailureChecked
<1>18. CASE ValidateRetried
    BY <1>18 DEF ValidateRetried
<1>19. CASE ValidateGivenUp
    BY <1>19 DEF ValidateGivenUp, Advance
<1>20. CASE PermanentError
    BY <1>20 DEF PermanentError, PausePipeline
<1>21. CASE FailureCounted
    BY <1>21 DEF FailureCounted, IncrementErrorCount
<1>22. CASE BreakerTrips
    BY <1>22 DEF BreakerTrips, PausePipeline
<1>23. CASE BackoffEnds
    BY <1>23 DEF BackoffEnds
<1>24. CASE PausedHandles
    BY <1>24
    DEF PausedHandles, HandleCommand, HandleWake, HandleMode, HandleUpdate, HandleChat,
        HandleTask
<1>25. CASE MonitorHandles
    BY <1>25
    DEF MonitorHandles, HandleCommand, HandleWake, HandleMode, HandleUpdate, HandleChat,
        HandleTask
<1>26. CASE TickFires
    BY <1>26 DEF TickFires
<1>27. CASE TickStarts
    BY <1>27 DEF TickStarts
<1>28. CASE TickEnds
    BY <1>28 DEF TickEnds
<1>29. CASE ChatStarts
    BY <1>29 DEF ChatStarts
<1>30. CASE ChatEnds
    BY <1>30 DEF ChatEnds
<1>31. CASE AdminSendsMode
    BY <1>31 DEF AdminSendsMode
<1>32. CASE Stop
    BY <1>32 DEF Stop
<1>33. CASE Exit
    BY <1>33 DEF Exit
<1>34. CASE Crash
    BY <1>34 DEF Crash
<1>35. ASSUME NEW q \in Questions, InfoAsked(q)
      PROVE  [RowNext]_rowVars
    BY <1>35 DEF InfoAsked
<1>36. ASSUME NEW q \in Questions, SecretAsked(q)
      PROVE  [RowNext]_rowVars
    BY <1>36 DEF SecretAsked, PausePipeline
<1>37. ASSUME NEW q \in Questions, ApprovalAsked(q)
      PROVE  [RowNext]_rowVars
    BY <1>37 DEF ApprovalAsked, PausePipeline
<1>38. ASSUME NEW q \in Questions, TickAsksSecret(q)
      PROVE  [RowNext]_rowVars
    BY <1>38 DEF TickAsksSecret, PausePipeline
<1>39. ASSUME NEW q \in Questions, ChatAsksSecret(q)
      PROVE  [RowNext]_rowVars
    BY <1>39 DEF ChatAsksSecret, PausePipeline
<1>40. ASSUME NEW q \in Questions, AnswerMarks(q)
      PROVE  [RowNext]_rowVars
    BY <1>40 DEF AnswerMarks
<1>41. ASSUME NEW q \in Questions, AnswerCounts(q)
      PROVE  [RowNext]_rowVars
    BY <1>41 DEF AnswerCounts
<1>42. ASSUME NEW q \in Questions, AnswerWakes(q)
      PROVE  [RowNext]_rowVars
    BY <1>42 DEF AnswerWakes
<1>43. ASSUME NEW c \in OwnerCmds, OwnerSends(c)
      PROVE  [RowNext]_rowVars
    BY <1>43 DEF OwnerSends
<1>44. ASSUME NEW m \in Modes, AdminWritesMode(m)
      PROVE  [RowNext]_rowVars
    BY <1>44 DEF AdminWritesMode
<1>45. CASE UNCHANGED vars
    BY <1>45 DEF vars
<1> QED
    BY <1>1, <1>2, <1>3, <1>4, <1>5, <1>6, <1>7, <1>8, <1>9, <1>10, <1>11, <1>12, <1>13,
        <1>14, <1>15, <1>16, <1>17, <1>18, <1>19, <1>20, <1>21, <1>22, <1>23, <1>24, <1>25,
        <1>26, <1>27, <1>28, <1>29, <1>30, <1>31, <1>32, <1>33, <1>34, <1>35, <1>36, <1>37,
        <1>38, <1>39, <1>40, <1>41, <1>42, <1>43, <1>44, <1>45
    DEF Next, WorkerStep, Handle, SideStep

\* The worker, with everything that goes on around it, implements PipelineRow.
THEOREM PipelineImplementsRow == Spec => RowSpecImplemented
<1>1. Init => RowInit
    BY DEF Init
<1> QED  BY <1>1, RowRefinedByStep, PipelineInvariant, PTL DEF Spec, RowSpec, RowSpecImplemented

\* A stage that works from the plan is recorded only with a plan, by the theorem
\* about the protocol of the row.
THEOREM PipelinePlanBeforeBuild == Spec => []PlanBeforeBuild
<1> QED  BY PipelineImplementsRow, RowPlanBeforeBuild, PTL DEF RowSpecImplemented
=============================================================================
