------------------------------- MODULE Worker -------------------------------
(***************************************************************************)
(* The whole autopilot for one run: worker processes that take rows from    *)
(* the outbox and run the planner, the command, the draft and the           *)
(* submission workflows, beside a technician who may call any API operation *)
(* at any time.                                                             *)
(*                                                                          *)
(* pc[w] says where worker w is between two transactions:                   *)
(*   idle       waiting in the loop of main                                 *)
(*   claimed    a row is claimed, its handler has not read the run yet      *)
(*   proposing  the planner has read the run and is choosing a step         *)
(*   starting   the command workflow has seen a run that is not aborted     *)
(*   executing  command_executions holds a running row, SSH has not begun   *)
(*   completing the SSH command has ended, its result is not stored         *)
(*   applying   complete_command_execution has read the run, not committed  *)
(*   done       the handler returned, the row is not completed yet          *)
(*   failing    the handler raised, the row is not failed yet               *)
(***************************************************************************)
EXTENDS RunStore

CONSTANT MaxErrors  \* bound: planner and database errors inside a handler
ASSUME WorkerAssumption == MaxErrors \in Nat

VARIABLES
    pc,
    seen,     \* the run status complete_command_execution read
    errors,   \* errors so far
    sshRuns   \* how often the step's command was run over SSH

workerVars == <<pc, seen, errors, sshRuns>>
vars == <<outboxVars, storeVars, workerVars>>

Locations == {"idle", "claimed", "proposing", "starting", "executing",
              "completing", "applying", "done", "failing"}

WorkerTypeOK ==
    /\ pc \in [Workers -> Locations]
    /\ seen \in [Workers -> RunStatus]
    /\ errors \in Nat
    /\ sshRuns \in [Steps -> Nat]

\* Every variable has its type.
TypeOK == OutboxTypeOK /\ StoreTypeOK /\ WorkerTypeOK

Init ==
    /\ OutboxInit
    /\ StoreInit
    /\ pc = [w \in Workers |-> "idle"]
    /\ seen = [w \in Workers |-> "investigating"]
    /\ errors = 0
    /\ sshRuns = [s \in Steps |-> 0]
-----------------------------------------------------------------------------
At(w, location) == pc[w] = location
Goto(w, location) == pc' = [pc EXCEPT ![w] = location]

Kind(w) == outbox[job[w]].kind
StepOf(w) == outbox[job[w]].step

\* What a step of a handler that only reads, or only writes run rows, keeps.
KeepStore == UNCHANGED <<storeVars, outboxVars>>
KeepQueueHolders == UNCHANGED <<job, crashes>>

Claim(w) ==
    /\ At(w, "idle")
    /\ ClaimEvent(w)
    /\ Goto(w, "claimed")
    /\ UNCHANGED <<storeVars, seen, errors, sshRuns>>

\* Mutant: the planner waits for the pending step instead of skipping.
PlanContextWaits(w) ==
    /\ At(w, "claimed")
    /\ Kind(w) = "agent.plan_requested"
    /\ pendingStep = NoStep
    /\ Goto(w, IF runStatus \in {"aborted", "ready_for_activity", "submitted", "failed"}
               THEN "done" ELSE "proposing")
    /\ KeepStore
    /\ UNCHANGED <<seen, errors, sshRuns>>

\* _planner_context_node: a run that is over or has a pending step is skipped.
PlanContext(w) ==
    /\ At(w, "claimed")
    /\ Kind(w) = "agent.plan_requested"
    /\ IF \/ runStatus \in {"aborted", "ready_for_activity", "submitted", "failed"}
          \/ pendingStep # NoStep
       THEN Goto(w, "done")
       ELSE Goto(w, "proposing")
    /\ KeepStore
    /\ UNCHANGED <<seen, errors, sshRuns>>

\* _approval_checkpoint_node, propose_agent_step: the step chosen from what
\* the context node read is created in whatever state the run is in by now.
ProposeAgentStep(w) ==
    /\ At(w, "proposing")
    /\ \E s \in Steps, phase \in Phases, verdict \in Verdicts :
          CreateStep(s, phase, verdict)
    /\ Goto(w, "done")
    /\ UNCHANGED outbox
    /\ KeepQueueHolders
    /\ UNCHANGED <<seen, errors, sshRuns>>

\* The same call raises: the run does not take the step, or the index rejects it.
ProposalRefused(w) ==
    /\ At(w, "proposing")
    /\ \E verdict \in Verdicts : ~(AcceptsSteps /\ AcceptsVerdict(verdict))
    /\ Goto(w, "failing")
    /\ KeepStore
    /\ UNCHANGED <<seen, errors, sshRuns>>

\* Mutant: the request is dropped once the run has left its busy status.
RequestCommandSkips(w) ==
    /\ At(w, "claimed")
    /\ Kind(w) = CommandKind
    /\ Goto(w, IF runStatus \in {"executing", "fixing", "validating"}
               THEN "starting" ELSE "done")
    /\ KeepStore
    /\ UNCHANGED <<seen, errors, sshRuns>>

\* _command_request_node, its unlocked read of the run.
RequestCommand(w) ==
    /\ At(w, "claimed")
    /\ Kind(w) = CommandKind
    /\ Goto(w, IF runStatus = "aborted" THEN "done" ELSE "starting")
    /\ KeepStore
    /\ UNCHANGED <<seen, errors, sshRuns>>

StartCommand(w) ==
    /\ At(w, "starting")
    /\ StartCommandExecution(StepOf(w))
    /\ Goto(w, "executing")
    /\ KeepQueueHolders
    /\ UNCHANGED <<seen, errors, sshRuns>>

StartRefused(w) ==
    /\ At(w, "starting")
    /\ ~MayStart(StepOf(w))
    /\ Goto(w, "failing")
    /\ KeepStore
    /\ UNCHANGED <<seen, errors, sshRuns>>

\* _command_execution_node: an exception of the runner is a result, not a raise.
RunCommand(w) ==
    /\ At(w, "executing")
    /\ sshRuns' = [sshRuns EXCEPT ![StepOf(w)] = @ + 1]
    /\ Goto(w, "completing")
    /\ KeepStore
    /\ UNCHANGED <<seen, errors>>

\* complete_command_execution up to its read of the run.
ReadRun(w) ==
    /\ At(w, "completing")
    /\ seen' = [seen EXCEPT ![w] = runStatus]
    /\ Goto(w, "applying")
    /\ KeepStore
    /\ UNCHANGED <<errors, sshRuns>>

\* ... and its commit.
ApplyCompletion(w) ==
    /\ At(w, "applying")
    /\ \E outcome \in Outcomes, suitePassed \in BOOLEAN :
          CompleteCommandExecution(StepOf(w), seen[w], outcome, suitePassed)
    /\ Goto(w, "done")
    /\ KeepQueueHolders
    /\ UNCHANGED <<seen, errors, sshRuns>>

\* create_activity_draft raises unless the run is ready for its activity.
DraftActivity(w) ==
    /\ At(w, "claimed")
    /\ Kind(w) = "agent.activity_draft_requested"
    /\ Goto(w, IF runStatus = "ready_for_activity" THEN "done" ELSE "failing")
    /\ KeepStore
    /\ UNCHANGED <<seen, errors, sshRuns>>

\* _process_activity_submission as the run sees it: the request completes, or
\* Phoenix or the database fail, or an earlier claim of the row completed it.
SubmitActivity(w) ==
    /\ At(w, "claimed")
    /\ Kind(w) = SubmissionKind
    /\ \/ MarkSubmitted /\ Goto(w, "done") /\ KeepQueueHolders
       \/ KeepStore /\ (Goto(w, "done") \/ Goto(w, "failing"))
    /\ UNCHANGED <<seen, errors, sshRuns>>

\* Any other exception a handler lets through (an uncaught planner error, a
\* lost database connection, a deadlock victim): the open transaction is gone.
HandlerError(w) ==
    /\ pc[w] \in {"claimed", "proposing", "starting", "completing", "applying"}
    /\ errors < MaxErrors
    /\ errors' = errors + 1
    /\ Goto(w, "failing")
    /\ KeepStore
    /\ UNCHANGED <<seen, sshRuns>>

Complete(w) ==
    /\ At(w, "done")
    /\ CompleteEvent(w)
    /\ Goto(w, "idle")
    /\ UNCHANGED <<storeVars, seen, errors, sshRuns>>

Fail(w) ==
    /\ At(w, "failing")
    /\ FailEvent(w)
    /\ Goto(w, "idle")
    /\ UNCHANGED <<storeVars, seen, errors, sshRuns>>

Crash(w) ==
    /\ ~At(w, "idle")
    /\ CrashWorker(w)
    /\ Goto(w, "idle")
    /\ UNCHANGED <<storeVars, seen, errors, sshRuns>>
-----------------------------------------------------------------------------
Handle(w) ==
    \/ PlanContext(w) \/ ProposeAgentStep(w) \/ ProposalRefused(w)
    \/ RequestCommand(w) \/ StartCommand(w) \/ StartRefused(w)
    \/ RunCommand(w) \/ ReadRun(w) \/ ApplyCompletion(w)
    \/ DraftActivity(w) \/ SubmitActivity(w)
    \/ Complete(w) \/ Fail(w)

Technician == TechnicianNext /\ KeepQueueHolders /\ UNCHANGED workerVars

TimePasses ==
    /\ \E e \in DOMAIN outbox : Age(e)
    /\ UNCHANGED <<storeVars, workerVars>>

Next ==
    \/ Technician
    \/ \E w \in Workers : Claim(w) \/ Handle(w) \/ HandlerError(w) \/ Crash(w)
    \/ TimePasses

Spec == Init /\ [][Next]_vars

\* A worker that is alive keeps working and time passes; the technician is
\* free to do nothing, errors and crashes need not happen.
Fairness ==
    /\ \A w \in Workers : WF_vars(Claim(w)) /\ WF_vars(Handle(w))
    /\ WF_vars(TimePasses)

FairSpec == Spec /\ Fairness
-----------------------------------------------------------------------------
(* Safety.                                                                  *)

(* runs.status and runs.pending_step agree with each other and with the     *)
(* step row: a run that awaits a decision names a pending step, and a step  *)
(* it names is still undecided.  Ten transactions write the pair, two of    *)
(* them without looking at what it is by then: the completion of a command, *)
(* which read it earlier, and that of a submission, which never reads it    *)
(* and leaves the pending step of a run it moves to submitted.              *)
PendingStepIsProposed ==
    /\ runStatus = "awaiting_step_approval" => pendingStep # NoStep
    /\ pendingStep # NoStep =>
          /\ runStatus \in {"awaiting_step_approval", "submitted"}
          /\ stepStatus[pendingStep] = "proposed"

(* What is approved or rejected is the step the run shows as pending,       *)
(* although approve_step, edit_and_approve_step and reject_step take any    *)
(* proposed step of the run by its id: a proposal that a retry has taken    *)
(* off the run, or that a slow planner adds to a run that has moved on, is  *)
(* never decided behind the back of another one.                            *)
OnlyPendingStepIsDecided ==
    [][\A s \in Steps :
          stepStatus[s] = "proposed" /\ stepStatus'[s] # "proposed" => s = pendingStep
      ]_vars

(* A run shown as executing or fixing has an approved step of that phase:   *)
(* no transaction leaves the busy status behind when the step is over.      *)
BusyRunHasApprovedStep ==
    runStatus \in {"executing", "fixing"} =>
        \E s \in Steps : /\ stepStatus[s] = "approved"
                         /\ StatusForApproved(stepPhase[s]) = runStatus

(* A command is sent over SSH at most once, although its outbox row may be  *)
(* claimed again after a crash, an error or a stale claim, and by two       *)
(* workers at a time.                                                       *)
CommandRunsAtMostOnce == \A s \in Steps : sshRuns[s] <= 1

RunIsOver == runStatus \in {"aborted", "submitted"}

(* "Aborted runs cannot execute pending outbox work"                        *)
(* (docs/architecture-spec.md:558): a command that was approved and not yet *)
(* started when its run was aborted or submitted is never started, although *)
(* both statuses may be overwritten, by the completion of a command or a    *)
(* submission under way, and the planner may act on what it read before.    *)
AbandonedCommandNeverStarts ==
    [][\A s \in Steps :
          stepStatus[s] = "approved" /\ execution[s] = "none" /\ RunIsOver
              => (stepStatus[s] = "approved" /\ execution[s] = "none" /\ RunIsOver)'
      ]_vars

(* Approved work is not lost: while an approved command has not been        *)
(* started and the run is not over, an outbox row for it is still open or   *)
(* visibly dead-lettered, never completed.                                  *)
ApprovedCommandKeepsItsRow ==
    \A s \in Steps :
        stepStatus[s] = "approved" /\ execution[s] = "none" /\ ~RunIsOver
            => \E e \in DOMAIN outbox : /\ outbox[e].kind = CommandKind
                                       /\ outbox[e].step = s
                                       /\ outbox[e].status # "completed"

(* The step row and its execution row tell the same story: a step is        *)
(* executed or failed exactly when its execution has ended with that        *)
(* result, and only an approved step has a running one.                     *)
ExecutionMatchesStep ==
    \A s \in Steps :
        /\ execution[s] = "running" => stepStatus[s] = "approved"
        /\ stepStatus[s] = "executed" <=> execution[s] = "completed"
        /\ stepStatus[s] = "failed" <=> execution[s] \in {"failed", "timed_out"}
-----------------------------------------------------------------------------
(* What makes the safety properties inductive.                              *)

(* The partial unique index on proposed_steps.                              *)
OneActiveStep == \A s, t \in Steps : Active(s) /\ Active(t) => s = t

HoldsCommand(w) == pc[w] \in {"starting", "executing", "completing", "applying"}
Runs(w, s) ==
    pc[w] \in {"executing", "completing", "applying"} /\ StepOf(w) = s

(* From the start of a command to the commit of its result one worker has   *)
(* it, its execution row is running, and it has not been sent before:       *)
(* start_command_execution is the gate that a second claim of the row, by   *)
(* the same worker or another one, does not pass.                           *)
OneRunnerPerCommand ==
    /\ \A w \in Workers : job[w] = 0 <=> pc[w] = "idle"
    /\ \A w \in Workers : HoldsCommand(w) => Kind(w) = CommandKind
    /\ \A e \in DOMAIN outbox :
          outbox[e].kind = CommandKind => outbox[e].step \in Steps
    /\ \A w \in Workers, s \in Steps : Runs(w, s) => execution[s] = "running"
    /\ \A v, w \in Workers, s \in Steps : Runs(v, s) /\ Runs(w, s) => v = w
    /\ \A s \in Steps : execution[s] = "none" => sshRuns[s] = 0
    /\ \A w \in Workers : pc[w] = "executing" => sshRuns[StepOf(w)] = 0

(* A run that complete_command_execution read as aborted is still over at   *)
(* its commit; a submission may have completed in between.                  *)
AbortSeenIsCurrent ==
    \A w \in Workers : pc[w] = "applying" /\ seen[w] = "aborted" => RunIsOver

(* A command row exists only for a step that was approved.                  *)
CommandRowsAreApproved ==
    \A e \in DOMAIN outbox :
        outbox[e].kind = CommandKind
            => stepStatus[outbox[e].step] \in {"approved", "executed", "failed"}

(* A handler that returns has nothing left to do: the command of its row    *)
(* was started, the step has been decided otherwise, or the run is over.    *)
DoneCommandIsSettled ==
    \A w \in Workers :
        /\ pc[w] = "proposing" => Kind(w) # CommandKind
        /\ pc[w] = "done" /\ Kind(w) = CommandKind
            => \/ execution[StepOf(w)] # "none"
               \/ stepStatus[StepOf(w)] # "approved"
               \/ RunIsOver
=============================================================================
