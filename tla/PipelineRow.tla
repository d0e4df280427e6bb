----------------------------- MODULE PipelineRow -----------------------------
(***************************************************************************)
(* The row of ho_pipeline_state: the durable record of where the build of  *)
(* one site stands.  brain/plan.go holds every statement that writes it;   *)
(* each is an action here, with the precondition its callers must meet.    *)
(* The pipeline worker (module Pipeline) is shown to implement this module *)
(* whatever crashes, retries, owner commands and chat sessions interleave. *)
(***************************************************************************)
EXTENDS Naturals

CONSTANT MaxStageRetries   \* failures of a stage before the breaker pauses the build

ASSUME RetriesAssumption == MaxStageRetries \in Nat \ {0}

VARIABLES
    stage,     \* column stage
    planned,   \* column plan_json is not NULL
    pause,     \* columns paused and pause_reason: "no" stands for paused = 0
    errs       \* column error_count

rowVars == <<stage, planned, pause, errs>>

Stages == {"EXPAND", "PLAN", "BUILD", "VALIDATE", "COMPLETE", "MONITORING", "UPDATE_PLAN"}

\* "answers" and "approval" are the two reasons of types.go; "failure" stands
\* for the free-text reasons the worker writes when a stage cannot go on.
PauseReasons == {"answers", "approval", "failure"}

RowTypeOK ==
    /\ stage \in Stages
    /\ planned \in BOOLEAN
    /\ pause \in PauseReasons \cup {"no"}
    /\ errs \in Nat

RowInit ==
    /\ stage = "EXPAND"
    /\ planned = FALSE
    /\ pause = "no"
    /\ errs = 0

\* The stage graph.  VALIDATE gives way to COMPLETE even when it fails.  If that
\* write fails COMPLETE runs all the same, hence the edge to MONITORING.
Edges == {<<"EXPAND", "PLAN">>, <<"PLAN", "BUILD">>, <<"UPDATE_PLAN", "BUILD">>,
          <<"BUILD", "VALIDATE">>, <<"VALIDATE", "COMPLETE">>,
          <<"VALIDATE", "MONITORING">>, <<"COMPLETE", "MONITORING">>}

-----------------------------------------------------------------------------
\* AdvanceStage, called by the build loop: no plan, no BUILD.
Advance(s) ==
    /\ <<stage, s>> \in Edges
    /\ s = "BUILD" => planned
    /\ stage' = s
    /\ errs' = 0
    /\ UNCHANGED <<planned, pause>>

\* AdvanceStage(UPDATE_PLAN), called for the owner's update command.
RequestUpdate ==
    /\ stage' = "UPDATE_PLAN"
    /\ errs' = 0
    /\ UNCHANGED <<planned, pause>>

\* The two statements of stages.go that store plan_json.
SavePlan ==
    /\ stage \in {"PLAN", "UPDATE_PLAN"}
    /\ stage = "UPDATE_PLAN" => planned
    /\ planned' = TRUE
    /\ UNCHANGED <<stage, pause, errs>>

ResetPipeline ==
    /\ stage' = "EXPAND"
    /\ planned' = FALSE
    /\ pause' = "no"
    /\ errs' = 0

PausePipeline(r) ==
    /\ pause' = r
    /\ UNCHANGED <<stage, planned, errs>>

ResumePipeline ==
    /\ pause' = "no"
    /\ UNCHANGED <<stage, planned, errs>>

\* A failure is charged to a stage of the build, never to monitoring.
IncrementErrorCount ==
    /\ stage # "MONITORING"
    /\ errs' = errs + 1
    /\ UNCHANGED <<stage, planned, pause>>

\* The statements of autoRecover: only below the breaker's threshold, and a
\* pause for approval is kept.
AutoRecover ==
    /\ errs < MaxStageRetries
    /\ errs' = 0
    /\ pause' \in {pause, "no"}
    /\ pause = "approval" => pause' = "approval"
    /\ pause = "failure" => pause' = "no"
    /\ UNCHANGED <<stage, planned>>

RowNext ==
    \/ \E s \in Stages : Advance(s)
    \/ RequestUpdate
    \/ SavePlan
    \/ ResetPipeline
    \/ \E r \in PauseReasons : PausePipeline(r)
    \/ ResumePipeline
    \/ IncrementErrorCount
    \/ AutoRecover

RowSpec == RowInit /\ [][RowNext]_rowVars

-----------------------------------------------------------------------------
(* A stage that works from the plan is only ever recorded when a plan is   *)
(* recorded: BUILD, VALIDATE, COMPLETE and MONITORING follow a saved plan  *)
(* and ResetPipeline drops the plan and the stage in one statement.        *)
PlanBeforeBuild ==
    stage \in {"BUILD", "VALIDATE", "COMPLETE", "MONITORING"} => planned
=============================================================================
