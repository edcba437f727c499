------------------------------ MODULE RunStore ------------------------------
(***************************************************************************)
(* The rows PostgresRunStore keeps about one troubleshooting run, and the   *)
(* transactions of the technician's API on them.  Each action is one        *)
(* committed transaction; a request the code refuses (RunTransitionError,   *)
(* IntegrityError) is rolled back as a whole and is no step at all.         *)
(*                                                                          *)
(* Data abstracted: a step is its phase, its status and whether the safety  *)
(* layer allowed its command; command texts, policies on fixes and backups, *)
(* and audit events are left to other modules.  A step whose phase is none  *)
(* of "fix" and "validation" (a restore, or any other text) behaves as a    *)
(* diagnostic one.                                                          *)
(***************************************************************************)
EXTENDS Outbox

CONSTANTS
    Verdicts,  \* verdicts classify_command may return
    Phases     \* phases a technician or the planner gives a step

ASSUME RunStoreAssumption ==
    /\ Verdicts \subseteq {"allowed", "blocked"}
    /\ Phases \subseteq {"diagnostic", "fix", "validation"}
    /\ "diagnostic" \in Phases

VARIABLES
    runStatus,           \* runs.status
    pendingStep,         \* the step of runs.pending_step, or NoStep
    connectionApproved,  \* a connection.approved event has been recorded
    stepStatus,          \* proposed_steps.status, "none" while the id is unused
    stepPhase,           \* proposed_steps.phase
    execution            \* the status of the step's command_executions row

storeVars == <<runStatus, pendingStep, connectionApproved,
               stepStatus, stepPhase, execution>>

\* The statuses the code writes; the table's check allows "planning" as well.
RunStatus == {"awaiting_connection_approval", "investigating",
              "awaiting_step_approval", "executing", "fixing", "validating",
              "ready_for_activity", "submitted", "aborted", "failed"}
StepStatus == {"none", "proposed", "approved", "rejected", "blocked",
               "executed", "failed"}
ExecutionStatus == {"none", "running", "completed", "failed", "timed_out"}

StoreTypeOK ==
    /\ runStatus \in RunStatus
    /\ pendingStep \in Steps \cup {NoStep}
    /\ connectionApproved \in BOOLEAN
    /\ stepStatus \in [Steps -> StepStatus]
    /\ stepPhase \in [Steps -> Phases]
    /\ execution \in [Steps -> ExecutionStatus]

\* create_run: the run waits for the connection approval, nothing is queued.
StoreInit ==
    /\ runStatus = "awaiting_connection_approval"
    /\ pendingStep = NoStep
    /\ connectionApproved = FALSE
    /\ stepStatus = [s \in Steps |-> "none"]
    /\ stepPhase = [s \in Steps |-> "diagnostic"]
    /\ execution = [s \in Steps |-> "none"]
-----------------------------------------------------------------------------
StatusForApproved(phase) ==
    CASE phase = "fix" -> "fixing"
      [] phase = "validation" -> "validating"
      [] OTHER -> "executing"

\* Mutant: the state diagram's Planning status, which no code writes.
IdleStatusPlanning(status) ==
    IF status = "validating" THEN "validating" ELSE "planning"

IdleStatus(status) ==
    IF status = "validating" THEN "validating" ELSE "investigating"

Active(s) == stepStatus[s] \in {"proposed", "approved"}

\* Mutant: a run that is over takes steps.
AcceptsStepsWhenOver ==
    ~(runStatus = "awaiting_step_approval" /\ pendingStep # NoStep)

\* _create_step's own refusals.
AcceptsSteps ==
    /\ runStatus \notin {"aborted", "submitted", "failed"}
    /\ ~(runStatus = "awaiting_step_approval" /\ pendingStep # NoStep)

\* Mutant: the partial index covers approved rows only.
NoApprovedStep == \A s \in Steps : stepStatus[s] # "approved"

\* The unique index proposed_steps_one_active_step_per_run_idx.
NoActiveStep == \A s \in Steps : ~Active(s)

\* The insert violates no index: a blocked row is not in the partial index.
AcceptsVerdict(verdict) == verdict = "blocked" \/ NoActiveStep

CreateStep(s, phase, verdict) ==
    /\ stepStatus[s] = "none"
    /\ AcceptsSteps
    /\ AcceptsVerdict(verdict)
    /\ stepPhase' = [stepPhase EXCEPT ![s] = phase]
    /\ IF verdict = "blocked"
       THEN /\ stepStatus' = [stepStatus EXCEPT ![s] = "blocked"]
            /\ runStatus' = IdleStatus(runStatus)
            /\ pendingStep' = NoStep
       ELSE /\ stepStatus' = [stepStatus EXCEPT ![s] = "proposed"]
            /\ runStatus' = "awaiting_step_approval"
            /\ pendingStep' = s
    /\ UNCHANGED <<connectionApproved, execution>>
-----------------------------------------------------------------------------
(* The technician's requests.                                               *)

ApproveConnection ==
    /\ runStatus = "awaiting_connection_approval"
    /\ Len(outbox) < MaxEvents
    /\ runStatus' = "investigating"
    /\ connectionApproved' = TRUE
    /\ outbox' = Enqueued(outbox, "agent.plan_requested", NoStep)
    /\ UNCHANGED <<pendingStep, stepStatus, stepPhase, execution>>

\* Planning that nobody has claimed yet is cancelled in the same transaction.
CreateManualStep(s, phase, verdict) ==
    /\ CreateStep(s, phase, verdict)
    /\ outbox' = Cancelled(outbox, "agent.plan_requested")

\* propose_restore_command: a backup record with a restore command exists as
\* soon as a step that needs a backup was created.  Planning is not cancelled.
ProposeRestore(s, verdict) ==
    /\ \E t \in Steps : stepStatus[t] # "none"
    /\ CreateStep(s, "diagnostic", verdict)
    /\ UNCHANGED outbox

\* Mutant: the approval forgets _queue_command_execution.
ApproveStepUnqueued(s) ==
    /\ runStatus = "awaiting_step_approval"
    /\ stepStatus[s] = "proposed"
    /\ Len(outbox) < MaxEvents
    /\ stepStatus' = [stepStatus EXCEPT ![s] = "approved"]
    /\ runStatus' = StatusForApproved(stepPhase[s])
    /\ pendingStep' = NoStep
    /\ UNCHANGED <<connectionApproved, stepPhase, execution, outbox>>

\* approve_step and edit_and_approve_step: an edit changes the command and its
\* classification before the same checks, and a blocked edit is rolled back.
\* Policy checks on fixes and backups may refuse, which is no step.
ApproveStep(s) ==
    /\ runStatus = "awaiting_step_approval"
    /\ stepStatus[s] = "proposed"
    /\ Len(outbox) < MaxEvents
    /\ stepStatus' = [stepStatus EXCEPT ![s] = "approved"]
    /\ runStatus' = StatusForApproved(stepPhase[s])
    /\ pendingStep' = NoStep
    /\ outbox' = Enqueued(outbox, CommandKind, s)
    /\ UNCHANGED <<connectionApproved, stepPhase, execution>>

RejectStep(s) ==
    /\ runStatus = "awaiting_step_approval"
    /\ stepStatus[s] = "proposed"
    /\ stepStatus' = [stepStatus EXCEPT ![s] = "rejected"]
    /\ runStatus' = IdleStatus(runStatus)
    /\ pendingStep' = NoStep
    /\ UNCHANGED <<connectionApproved, stepPhase, execution, outbox>>

\* The steps of the run are left as they are.
RetryRun ==
    /\ runStatus \notin {"aborted", "submitted"}
    /\ Len(outbox) < MaxEvents
    /\ runStatus' = "investigating"
    /\ pendingStep' = NoStep
    /\ outbox' = Enqueued(Superseded(outbox), "agent.plan_requested", NoStep)
    /\ UNCHANGED <<connectionApproved, stepStatus, stepPhase, execution>>

\* Mutants: the abort keeps pending_step; it cancels every open outbox row.
AbortRunKeepsPending ==
    /\ runStatus \notin {"aborted", "submitted"}
    /\ runStatus' = "aborted"
    /\ UNCHANGED <<pendingStep, connectionApproved, stepStatus, stepPhase,
                   execution, outbox>>
AbortRunCancelsAll ==
    /\ runStatus \notin {"aborted", "submitted"}
    /\ runStatus' = "aborted"
    /\ pendingStep' = NoStep
    /\ outbox' = [e \in DOMAIN outbox |-> WithStatus(outbox[e], "completed")]
    /\ UNCHANGED <<connectionApproved, stepStatus, stepPhase, execution>>

AbortRun ==
    /\ runStatus \notin {"aborted", "submitted"}
    /\ runStatus' = "aborted"
    /\ pendingStep' = NoStep
    /\ UNCHANGED <<connectionApproved, stepStatus, stepPhase, execution, outbox>>

\* queue_activity_submission, of a run whose draft is complete; a request that
\* is still open is returned as it is, which is no step.  What happens to the
\* request is in ActivitySubmission; here the technician may always queue one.
QueueSubmission ==
    /\ runStatus = "ready_for_activity"
    /\ Len(outbox) < MaxEvents
    /\ outbox' = Enqueued(Cancelled(outbox, DraftKind), SubmissionKind, NoStep)
    /\ UNCHANGED storeVars
-----------------------------------------------------------------------------
(* The worker's transactions.                                               *)

\* mark_integration_request_completed: by the run's id, whatever its status is
\* by then, and without touching pending_step.
MarkSubmitted ==
    /\ runStatus' = "submitted"
    /\ UNCHANGED <<pendingStep, connectionApproved, stepStatus, stepPhase,
                   execution, outbox>>

\* Mutant: neither the check for an existing execution nor its index.
MayStartAgain(s) ==
    /\ runStatus # "aborted"
    /\ stepStatus[s] = "approved"
    /\ runStatus = StatusForApproved(stepPhase[s])

\* start_command_execution, including the unique index on (run, step) of
\* command_executions.
MayStart(s) ==
    /\ runStatus # "aborted"
    /\ stepStatus[s] = "approved"
    /\ runStatus = StatusForApproved(stepPhase[s])
    /\ execution[s] = "none"

StartCommandExecution(s) ==
    /\ MayStart(s)
    /\ execution' = [execution EXCEPT ![s] = "running"]
    /\ UNCHANGED <<runStatus, pendingStep, connectionApproved,
                   stepStatus, stepPhase, outbox>>

\* How a command can end: "unreached" is a runner error before the remote host
\* produced an exit code or output, recorded as a failed execution.
Outcomes == {"completed", "failed", "timed_out", "unreached"}

FinalExecutionStatus(outcome) ==
    IF outcome = "unreached" THEN "failed" ELSE outcome

\* Mutant: a runner that reached nothing leaves the run's status as it was.
TransitionForgetsUnreached(phase, outcome, suitePassed) ==
    IF outcome = "unreached" THEN [run |-> "executing", ask |-> "nothing"]
    ELSE [run |-> "investigating", ask |-> "agent.plan_requested"]

\* _apply_completed_command_transition: the run's next status and the event
\* it enqueues ("nothing" for a run that fails).
Transition(phase, outcome, suitePassed) ==
    CASE phase = "validation" /\ outcome = "completed" /\ suitePassed ->
            [run |-> "ready_for_activity", ask |-> "agent.activity_draft_requested"]
      [] \/ phase = "validation" /\ ~(outcome = "completed" /\ suitePassed)
         \/ phase = "fix" /\ outcome = "completed" ->
            [run |-> "validating", ask |-> "agent.plan_requested"]
      [] phase # "validation" /\ outcome = "unreached" ->
            [run |-> "failed", ask |-> "nothing"]
      [] OTHER ->
            [run |-> "investigating", ask |-> "agent.plan_requested"]

\* complete_command_execution.  The transaction reads the run without a lock
\* ("seen") before this, its commit; the run row it writes may have changed
\* since.
CompleteCommandExecution(s, seen, outcome, suitePassed) ==
    LET next == Transition(stepPhase[s], outcome, suitePassed)
    IN  /\ Len(outbox) < MaxEvents
        /\ execution' = [execution EXCEPT ![s] = FinalExecutionStatus(outcome)]
        /\ stepStatus' = [stepStatus EXCEPT
              ![s] = IF outcome = "completed" THEN "executed" ELSE "failed"]
        /\ IF seen = "aborted"
           THEN UNCHANGED <<runStatus, pendingStep, outbox>>
           ELSE /\ runStatus' = next.run
                /\ pendingStep' = NoStep
                /\ outbox' = IF next.ask = "nothing" THEN outbox
                             ELSE Enqueued(outbox, next.ask, NoStep)
        /\ UNCHANGED <<connectionApproved, stepPhase>>

TechnicianNext ==
    \/ ApproveConnection
    \/ \E s \in Steps, phase \in Phases, verdict \in Verdicts :
          CreateManualStep(s, phase, verdict)
    \/ \E s \in Steps, verdict \in Verdicts : ProposeRestore(s, verdict)
    \/ \E s \in Steps : ApproveStep(s) \/ RejectStep(s)
    \/ RetryRun
    \/ AbortRun
    \/ QueueSubmission
=============================================================================
