---------------------------- MODULE WorkerProofs ----------------------------
(***************************************************************************)
(* Safety of the autopilot for any number of workers, steps, attempts,      *)
(* events, errors and crashes.                                              *)
(***************************************************************************)
EXTENDS Worker, OutboxProofs

-----------------------------------------------------------------------------
(* The queue inside the autopilot.                                          *)

LEMMA TransitionAsks ==
    ASSUME NEW phase, NEW outcome \in Outcomes, NEW suitePassed \in BOOLEAN
    PROVE  LET next == Transition(phase, outcome, suitePassed) IN
           /\ next.run \in {"ready_for_activity", "validating", "failed", "investigating"}
           /\ next.ask \in {"nothing", "agent.plan_requested",
                            "agent.activity_draft_requested"}
BY DEF Transition, Outcomes

LEMMA TechnicianQueueStep ==
    ASSUME Technician
    PROVE  [OutboxNext]_outboxVars
<1>0. /\ NoStep \in Steps \cup {NoStep} /\ Steps \subseteq Steps \cup {NoStep}
      /\ {"agent.plan_requested", CommandKind} \subseteq EventKinds
      /\ UNCHANGED <<job, crashes>>
    BY DEF EventKinds, Technician, KeepQueueHolders
<1>1. CASE ApproveConnection
    BY <1>0, <1>1 DEF ApproveConnection, OutboxNext, EnqueueEvent
<1>2. ASSUME NEW s \in Steps, NEW phase \in Phases, NEW verdict \in Verdicts,
             CreateManualStep(s, phase, verdict)
      PROVE  [OutboxNext]_outboxVars
    BY <1>0, <1>2 DEF CreateManualStep, OutboxNext, CancelEvents
<1>3. ASSUME NEW s \in Steps, ApproveStep(s)
      PROVE  [OutboxNext]_outboxVars
    BY <1>0, <1>3 DEF ApproveStep, OutboxNext, EnqueueEvent
<1>4. ASSUME NEW s \in Steps, RejectStep(s)
      PROVE  [OutboxNext]_outboxVars
    BY <1>0, <1>4 DEF RejectStep, outboxVars
<1>5. CASE RetryRun
    BY <1>0, <1>5 DEF RetryRun, OutboxNext, SupersedeAndEnqueue
<1>6. CASE AbortRun
    BY <1>0, <1>6 DEF AbortRun, outboxVars
<1>7. ASSUME NEW s \in Steps, NEW verdict \in Verdicts, ProposeRestore(s, verdict)
      PROVE  [OutboxNext]_outboxVars
    BY <1>0, <1>7 DEF ProposeRestore, outboxVars
<1>8. CASE QueueSubmission
    BY <1>0, <1>8 DEF QueueSubmission, OutboxNext, CancelAndEnqueue
<1> QED BY <1>1, <1>2, <1>3, <1>4, <1>5, <1>6, <1>7, <1>8 DEF Technician, TechnicianNext

LEMMA WorkerQueueStep ==
    ASSUME NEW w \in Workers,
           Claim(w) \/ Handle(w) \/ HandlerError(w) \/ Crash(w)
    PROVE  [OutboxNext]_outboxVars
<1>1. CASE Claim(w)
    BY <1>1 DEF Claim, OutboxNext
<1>2. CASE \/ PlanContext(w) \/ ProposalRefused(w) \/ RequestCommand(w)
           \/ StartRefused(w) \/ RunCommand(w) \/ ReadRun(w)
           \/ DraftActivity(w) \/ HandlerError(w)
    BY <1>2 DEF PlanContext, ProposalRefused, RequestCommand, StartRefused,
                RunCommand, ReadRun, DraftActivity, HandlerError, KeepStore
<1>9. CASE SubmitActivity(w)
    BY <1>9 DEF SubmitActivity, MarkSubmitted, KeepStore, KeepQueueHolders, outboxVars
<1>3. CASE ProposeAgentStep(w)
    BY <1>3 DEF ProposeAgentStep, KeepQueueHolders, outboxVars
<1>4. CASE StartCommand(w)
    BY <1>4 DEF StartCommand, StartCommandExecution, KeepQueueHolders, outboxVars
<1>5. CASE ApplyCompletion(w)
  <2>1. PICK outcome \in Outcomes, suitePassed \in BOOLEAN :
            CompleteCommandExecution(StepOf(w), seen[w], outcome, suitePassed)
      BY <1>5 DEF ApplyCompletion
  <2>2. UNCHANGED <<job, crashes>>
      BY <1>5 DEF ApplyCompletion, KeepQueueHolders
  <2> DEFINE next == Transition(stepPhase[StepOf(w)], outcome, suitePassed)
  <2>3. next.ask = "nothing" \/ next.ask \in EventKinds
      BY TransitionAsks DEF EventKinds, DraftKind
  <2>4. /\ Len(outbox) < MaxEvents
        /\ outbox' = outbox \/ outbox' = Enqueued(outbox, next.ask, NoStep)
        /\ next.ask = "nothing" => outbox' = outbox
      BY <2>1 DEF CompleteCommandExecution
  <2> HIDE DEF next
  <2>5. CASE outbox' = outbox
      BY <2>2, <2>5 DEF outboxVars
  <2>6. CASE outbox' # outbox
      BY <2>2, <2>3, <2>4, <2>6 DEF OutboxNext, EnqueueEvent
  <2> QED BY <2>5, <2>6
<1>6. CASE Complete(w)
    BY <1>6 DEF Complete, OutboxNext
<1>7. CASE Fail(w)
    BY <1>7 DEF Fail, OutboxNext
<1>8. CASE Crash(w)
    BY <1>8 DEF Crash, OutboxNext
<1> QED BY <1>1, <1>2, <1>3, <1>4, <1>5, <1>6, <1>7, <1>8, <1>9 DEF Handle

LEMMA QueueStep ==
    ASSUME [Next]_vars
    PROVE  [OutboxNext]_outboxVars
<1>1. CASE TimePasses
    BY <1>1 DEF TimePasses, OutboxNext
<1>2. CASE UNCHANGED vars
    BY <1>2 DEF vars, outboxVars
<1> QED BY <1>1, <1>2, TechnicianQueueStep, WorkerQueueStep DEF Next

(* Every transaction of the store and of the worker changes the table only  *)
(* as the queue protocol allows: what is shown of Outbox holds of the whole *)
(* autopilot.                                                               *)
THEOREM WorkerImplementsOutbox == Spec => OutboxSpec
<1>1. Init => OutboxInit
    BY DEF Init
<1>2. [Next]_vars => [OutboxNext]_outboxVars
    BY QueueStep
<1> QED BY <1>1, <1>2, PTL DEF Spec, OutboxSpec

(* With one worker process, no transaction of the autopilot works on an     *)
(* outbox row again that was completed or dead-lettered.                    *)
THEOREM WorkerImplementsTaskQueue == OneWorker => (Spec => ImplementsTaskQueue)
BY WorkerImplementsOutbox, OutboxImplementsTaskQueue

(* Whatever the workers of the autopilot do, a row is claimed fewer than    *)
(* MaxAttempts times plus the crashes and the workers.                      *)
THEOREM WorkerAttemptsBounded ==
    IsFiniteSet(Workers) => (Spec => []AttemptsBoundedByWorkers)
BY WorkerImplementsOutbox, AttemptsBoundedByWorkersCorrect
-----------------------------------------------------------------------------
(* Types.                                                                   *)

LEMMA CreateStepType ==
    ASSUME StoreTypeOK, NEW s \in Steps, NEW phase \in Phases, NEW verdict,
           CreateStep(s, phase, verdict)
    PROVE  StoreTypeOK'
BY DEF StoreTypeOK, CreateStep, IdleStatus, RunStatus, StepStatus

LEMMA StoreTypeStep ==
    ASSUME TypeOK, [Next]_vars
    PROVE  StoreTypeOK'
<1> USE DEF TypeOK
<1>1. CASE Technician
  <2>1. ASSUME NEW s \in Steps, NEW phase \in Phases, NEW verdict \in Verdicts,
               CreateManualStep(s, phase, verdict)
        PROVE  StoreTypeOK'
      BY <2>1, CreateStepType DEF CreateManualStep
  <2>4. ASSUME NEW s \in Steps, NEW verdict \in Verdicts, ProposeRestore(s, verdict)
        PROVE  StoreTypeOK'
      BY <2>4, RunStoreAssumption, CreateStepType DEF ProposeRestore
  <2>2. CASE ApproveConnection \/ RetryRun \/ AbortRun
      BY <2>2 DEF StoreTypeOK, ApproveConnection, RetryRun, AbortRun, RunStatus
  <2>3. ASSUME NEW s \in Steps, ApproveStep(s) \/ RejectStep(s)
        PROVE  StoreTypeOK'
      BY <2>3 DEF StoreTypeOK, ApproveStep, RejectStep, StatusForApproved,
                  IdleStatus, RunStatus, StepStatus
  <2>5. CASE QueueSubmission
      BY <2>5 DEF QueueSubmission, StoreTypeOK, storeVars
  <2> QED BY <1>1, <2>1, <2>2, <2>3, <2>4, <2>5 DEF Technician, TechnicianNext
<1>2. ASSUME NEW w \in Workers, ProposeAgentStep(w)
      PROVE  StoreTypeOK'
    BY <1>2, CreateStepType DEF ProposeAgentStep
<1>3. ASSUME NEW w \in Workers, StartCommand(w)
      PROVE  StoreTypeOK'
    BY <1>3 DEF StoreTypeOK, StartCommand, StartCommandExecution, ExecutionStatus
<1>4. ASSUME NEW w \in Workers, ApplyCompletion(w)
      PROVE  StoreTypeOK'
  <2>1. PICK outcome \in Outcomes, suitePassed \in BOOLEAN :
            CompleteCommandExecution(StepOf(w), seen[w], outcome, suitePassed)
      BY <1>4 DEF ApplyCompletion
  <2> DEFINE next == Transition(stepPhase[StepOf(w)], outcome, suitePassed)
  <2>2. next.run \in RunStatus
      BY TransitionAsks DEF RunStatus
  <2>3. FinalExecutionStatus(outcome) \in ExecutionStatus
      BY DEF FinalExecutionStatus, Outcomes, ExecutionStatus
  <2>4. /\ execution' = [execution EXCEPT ![StepOf(w)] = FinalExecutionStatus(outcome)]
        /\ stepStatus' = [stepStatus EXCEPT
              ![StepOf(w)] = IF outcome = "completed" THEN "executed" ELSE "failed"]
        /\ \/ UNCHANGED <<runStatus, pendingStep>>
           \/ runStatus' = next.run /\ pendingStep' = NoStep
        /\ UNCHANGED <<connectionApproved, stepPhase>>
      BY <2>1 DEF CompleteCommandExecution
  <2> HIDE DEF next
  <2> QED BY <2>2, <2>3, <2>4 DEF StoreTypeOK, StepStatus
<1>5. CASE UNCHANGED storeVars
    BY <1>5 DEF StoreTypeOK, storeVars
<1>6. CASE MarkSubmitted
    BY <1>6 DEF MarkSubmitted, StoreTypeOK, RunStatus
<1> QED BY <1>1, <1>2, <1>3, <1>4, <1>5, <1>6
        DEF Next, vars, TimePasses, Claim, Handle, PlanContext, ProposalRefused,
            RequestCommand, StartRefused, RunCommand, ReadRun, DraftActivity,
            SubmitActivity, HandlerError, Complete, Fail, Crash, KeepStore

LEMMA WorkerTypeStep ==
    ASSUME TypeOK, [Next]_vars
    PROVE  WorkerTypeOK'
<1> USE DEF TypeOK, WorkerTypeOK
<1>1. CASE Technician \/ TimePasses \/ UNCHANGED vars
    BY <1>1 DEF Technician, TimePasses, vars, workerVars
<1>2. ASSUME NEW w \in Workers, RunCommand(w)
      PROVE  WorkerTypeOK'
  <2> DEFINE s == StepOf(w)
             n == sshRuns[s] + 1
  <2>1. sshRuns' = [sshRuns EXCEPT ![s] = n]
      BY <1>2 DEF RunCommand
  <2>2. s \in Steps => n \in Nat
      OBVIOUS
  <2> HIDE DEF s, n
  <2>3. sshRuns' \in [Steps -> Nat]
      BY <2>1, <2>2
  <2> QED BY <1>2, <2>3 DEF RunCommand, Goto, Locations
<1>3. ASSUME NEW w \in Workers, HandlerError(w)
      PROVE  WorkerTypeOK'
    BY <1>3 DEF HandlerError, Goto, Locations
<1>4. ASSUME NEW w \in Workers, ReadRun(w)
      PROVE  WorkerTypeOK'
    BY <1>4 DEF ReadRun, Goto, Locations, StoreTypeOK
<1>5. ASSUME NEW w \in Workers,
             \/ Claim(w) \/ PlanContext(w) \/ ProposeAgentStep(w)
             \/ ProposalRefused(w) \/ RequestCommand(w) \/ StartCommand(w)
             \/ StartRefused(w) \/ ApplyCompletion(w) \/ DraftActivity(w)
             \/ SubmitActivity(w) \/ Complete(w) \/ Fail(w) \/ Crash(w)
      PROVE  WorkerTypeOK'
  <2>1. /\ UNCHANGED <<seen, errors, sshRuns>>
        /\ \E location \in Locations : Goto(w, location)
      BY <1>5 DEF Claim, PlanContext, ProposeAgentStep, ProposalRefused,
                  RequestCommand, StartCommand, StartRefused, ApplyCompletion,
                  DraftActivity, SubmitActivity, Complete, Fail, Crash, Locations
  <2> QED BY <2>1 DEF Goto
<1> QED BY <1>1, <1>2, <1>3, <1>4, <1>5 DEF Next, Handle

LEMMA TypeStep ==
    ASSUME TypeOK, [Next]_vars
    PROVE  TypeOK' /\ KeepsRows(outbox, outbox')
BY QueueStep, OutboxTypeStep, OutboxNextKeepsRows, StoreTypeStep, WorkerTypeStep
   DEF TypeOK

LEMMA InitType == Init => TypeOK
<1> SUFFICES ASSUME Init PROVE TypeOK
    OBVIOUS
<1>1. OutboxTypeOK
    BY EmptySeq DEF Init, OutboxInit, OutboxTypeOK
<1>2. StoreTypeOK
    BY RunStoreAssumption
       DEF Init, StoreInit, StoreTypeOK, RunStatus, StepStatus, ExecutionStatus
<1>3. WorkerTypeOK
    BY DEF Init, WorkerTypeOK, Locations, RunStatus
<1> QED BY <1>1, <1>2, <1>3 DEF TypeOK

(* Whatever the technician, the workers, errors and crashes do, every row   *)
(* keeps a value of its column and every worker a row of the table.         *)
THEOREM TypeCorrect == Spec => []TypeOK
<1>1. TypeOK /\ [Next]_vars => TypeOK'
    BY TypeStep
<1> QED BY <1>1, InitType, PTL DEF Spec
-----------------------------------------------------------------------------
(* One active step.                                                         *)

LEMMA CreateStepActive ==
    ASSUME TypeOK, OneActiveStep, NEW s \in Steps, NEW phase, NEW verdict,
           CreateStep(s, phase, verdict)
    PROVE  OneActiveStep'
<1>1. CASE verdict = "blocked"
    BY <1>1 DEF CreateStep, OneActiveStep, Active, TypeOK, StoreTypeOK
<1>2. CASE verdict # "blocked"
    BY <1>2 DEF CreateStep, AcceptsVerdict, NoActiveStep, OneActiveStep, Active,
                TypeOK, StoreTypeOK
<1> QED BY <1>1, <1>2

LEMMA OneActiveStepStep ==
    ASSUME TypeOK, OneActiveStep, [Next]_vars
    PROVE  OneActiveStep'
<1> USE DEF OneActiveStep, Active
<1>1. ASSUME NEW s \in Steps, NEW phase, NEW verdict \in Verdicts,
             CreateStep(s, phase, verdict)
      PROVE  OneActiveStep'
    BY <1>1, CreateStepActive
<1>2. ASSUME NEW s \in Steps, ApproveStep(s)
      PROVE  OneActiveStep'
    BY <1>2 DEF ApproveStep, TypeOK, StoreTypeOK
<1>3. ASSUME NEW s \in Steps, RejectStep(s)
      PROVE  OneActiveStep'
    BY <1>3 DEF RejectStep, TypeOK, StoreTypeOK
<1>4. ASSUME NEW w \in Workers, ApplyCompletion(w)
      PROVE  OneActiveStep'
    BY <1>4 DEF ApplyCompletion, CompleteCommandExecution, TypeOK, StoreTypeOK
<1>5. CASE UNCHANGED stepStatus
    BY <1>5
<1> QED BY <1>1, <1>2, <1>3, <1>4, <1>5
        DEF Next, vars, Technician, TechnicianNext, ApproveConnection,
            CreateManualStep, ProposeRestore, RetryRun, AbortRun, QueueSubmission,
            TimePasses, Claim, Handle,
            PlanContext, ProposeAgentStep, ProposalRefused, RequestCommand,
            StartCommand, StartCommandExecution, StartRefused, RunCommand,
            ReadRun, DraftActivity, SubmitActivity, MarkSubmitted, HandlerError,
            Complete, Fail, Crash, KeepStore, storeVars

\* The index is a guard of the one statement that makes a step active.
LEMMA OneActiveStepCorrect == Spec => []OneActiveStep
<1>1. Init => OneActiveStep
    BY DEF Init, StoreInit, OneActiveStep, Active
<1>2. TypeOK /\ OneActiveStep /\ [Next]_vars => OneActiveStep'
    BY OneActiveStepStep
<1> QED BY <1>1, <1>2, TypeCorrect, PTL DEF Spec
-----------------------------------------------------------------------------
(* One runner per command.                                                  *)

LEMMA KeptHandle ==
    ASSUME TypeOK, KeepsRows(outbox, outbox'),
           NEW v \in Workers, job[v] # 0, job'[v] = job[v]
    PROVE  Kind(v)' = Kind(v) /\ StepOf(v)' = StepOf(v)
BY HeldRow DEF TypeOK, KeepsRows, Kind, StepOf

LEMMA UnchangedRows ==
    ASSUME outbox' = outbox
    PROVE  DOMAIN outbox' \ DOMAIN outbox = {}
OBVIOUS

\* A command row is new only when it is enqueued by the approval of its step.
LEMMA NewCommandRows ==
    ASSUME TypeOK, [Next]_vars,
           NEW e \in DOMAIN outbox' \ DOMAIN outbox, outbox'[e].kind = CommandKind
    PROVE  \E s \in Steps : ApproveStep(s) /\ outbox'[e].step = s
<1>0. /\ outbox \in Seq(Event) /\ outbox' # outbox
      /\ NoStep \in Steps \cup {NoStep}
      /\ {"agent.plan_requested", "agent.activity_draft_requested"}
            \subseteq EventKinds \ {CommandKind}
      /\ CommandKind \in EventKinds
    BY DEF TypeOK, OutboxTypeOK, EventKinds, CommandKind, DraftKind, SubmissionKind
<1>1. CASE ApproveConnection
    BY <1>0, <1>1, EnqueuedRows DEF ApproveConnection
<1>2. ASSUME NEW s \in Steps, NEW phase, NEW verdict, CreateManualStep(s, phase, verdict)
      PROVE  FALSE
    BY <1>0, <1>2, CancelledRows DEF CreateManualStep, Updates
<1>3. ASSUME NEW s \in Steps, ApproveStep(s)
      PROVE  outbox'[e].step = s
  <2>1. s \in Steps \cup {NoStep} /\ outbox' = Enqueued(outbox, CommandKind, s)
      BY <1>3 DEF ApproveStep
  <2>2. outbox \in Seq(Event) /\ CommandKind \in EventKinds
      BY <1>0
  <2>3. \A f \in DOMAIN outbox' \ DOMAIN outbox : outbox'[f].step = s
      BY ONLY <2>1, <2>2, EnqueuedRows
  <2> QED BY <2>3
<1>4. CASE RetryRun
    BY <1>0, <1>4, SupersedeAndEnqueueRows DEF RetryRun, TypeOK
<1>5. ASSUME NEW w \in Workers, ApplyCompletion(w)
      PROVE  FALSE
  <2>1. PICK outcome \in Outcomes, suitePassed \in BOOLEAN :
            CompleteCommandExecution(StepOf(w), seen[w], outcome, suitePassed)
      BY <1>5 DEF ApplyCompletion
  <2> DEFINE ask == Transition(stepPhase[StepOf(w)], outcome, suitePassed).ask
  <2>2. ask = "nothing" \/ ask \in EventKinds \ {CommandKind}
      BY TransitionAsks DEF EventKinds, CommandKind, DraftKind, SubmissionKind
  <2>3. ask # "nothing" /\ outbox' = Enqueued(outbox, ask, NoStep)
      BY <1>0, <2>1 DEF CompleteCommandExecution
  <2> HIDE DEF ask
  <2> QED BY <1>0, <2>2, <2>3, EnqueuedRows
<1>6. ASSUME NEW w \in Workers, Claim(w)
      PROVE  FALSE
    BY <1>6, ClaimEventRows DEF Claim, Updates, TypeOK
<1>7. ASSUME NEW w \in Workers, Complete(w)
      PROVE  FALSE
    BY <1>0, <1>7, HeldRow, CompletedRows DEF Complete, CompleteEvent, Updates, TypeOK
<1>8. ASSUME NEW w \in Workers, Fail(w)
      PROVE  FALSE
    BY <1>0, <1>8, HeldRow, FailedRows DEF Fail, FailEvent, Updates, TypeOK
<1>9. CASE TimePasses
    BY <1>0, <1>9, AgedRows DEF TimePasses, Age, Updates
<1>10. CASE QueueSubmission
  <2>1. SubmissionKind \in EventKinds /\ SubmissionKind # CommandKind
      BY DEF EventKinds, CommandKind, SubmissionKind
  <2> QED BY <1>0, <1>10, <2>1, CancelAndEnqueueRows DEF QueueSubmission, TypeOK
<1> QED BY <1>0, <1>1, <1>2, <1>3, <1>4, <1>5, <1>6, <1>7, <1>8, <1>9, <1>10
        DEF Next, vars, outboxVars, Technician, TechnicianNext, ProposeRestore,
            RejectStep, AbortRun,
            Handle, PlanContext, ProposeAgentStep, ProposalRefused, RequestCommand,
            StartCommand, StartCommandExecution, StartRefused, RunCommand,
            ReadRun, DraftActivity, SubmitActivity, MarkSubmitted, HandlerError,
            Crash, CrashWorker, KeepStore

LEMMA CommandRowsNameSteps ==
    ASSUME TypeOK, OneRunnerPerCommand, [Next]_vars,
           NEW e \in DOMAIN outbox', outbox'[e].kind = CommandKind
    PROVE  outbox'[e].step \in Steps
<1>1. CASE e \in DOMAIN outbox
    BY <1>1, TypeStep DEF KeepsRows, OneRunnerPerCommand
<1>2. CASE e \notin DOMAIN outbox
    BY <1>2, NewCommandRows
<1> QED BY <1>1, <1>2

\* The step of a command in hand is a step of the run.
LEMMA HeldCommand ==
    ASSUME TypeOK, OneRunnerPerCommand, NEW w \in Workers, HoldsCommand(w)
    PROVE  job[w] # 0 /\ StepOf(w) \in Steps
<1>1. job[w] # 0 /\ Kind(w) = CommandKind
    BY DEF OneRunnerPerCommand, HoldsCommand
<1> QED BY <1>1, HeldRow DEF TypeOK, OneRunnerPerCommand, Kind, StepOf

\* A step that moves no worker into or along a command.
LEMMA RunnerFrame ==
    ASSUME TypeOK, OneRunnerPerCommand, [Next]_vars,
           UNCHANGED <<execution, sshRuns>>,
           \A v \in Workers : job'[v] = 0 <=> pc'[v] = "idle",
           \A v \in Workers : HoldsCommand(v)' =>
               /\ job'[v] = job[v]
               /\ \/ pc'[v] = pc[v]
                  \/ pc'[v] = "applying" /\ pc[v] = "completing"
                  \/ pc'[v] = "starting" /\ Kind(v) = CommandKind /\ job[v] # 0
    PROVE  OneRunnerPerCommand'
<1>1. KeepsRows(outbox, outbox')
    BY TypeStep
<1>2. ASSUME NEW v \in Workers, HoldsCommand(v)'
      PROVE  /\ job[v] # 0
             /\ Kind(v)' = Kind(v) /\ StepOf(v)' = StepOf(v)
             /\ Kind(v) = CommandKind
  <2>1. job[v] # 0 /\ Kind(v) = CommandKind
      BY <1>2 DEF OneRunnerPerCommand, HoldsCommand
  <2> QED BY <1>1, <1>2, <2>1, KeptHandle
<1>3. ASSUME NEW v \in Workers, NEW s \in Steps, Runs(v, s)'
      PROVE  Runs(v, s) /\ (pc'[v] = "executing" => pc[v] = "executing")
    BY <1>2, <1>3 DEF Runs, HoldsCommand
<1>4. ASSUME NEW v \in Workers, pc'[v] = "executing"
      PROVE  sshRuns'[StepOf(v)'] = 0
    BY <1>2, <1>4 DEF OneRunnerPerCommand, HoldsCommand
<1>5. \A e \in DOMAIN outbox' :
          outbox'[e].kind = CommandKind => outbox'[e].step \in Steps
    BY CommandRowsNameSteps
<1> QED BY <1>2, <1>3, <1>4, <1>5 DEF OneRunnerPerCommand

LEMMA OneRunnerStep ==
    ASSUME TypeOK, OneRunnerPerCommand, [Next]_vars
    PROVE  OneRunnerPerCommand'
<1>0. /\ pc \in [Workers -> Locations] /\ job \in [Workers -> Nat]
      /\ execution \in [Steps -> ExecutionStatus] /\ sshRuns \in [Steps -> Nat]
      /\ \A v \in Workers : job[v] = 0 <=> pc[v] = "idle"
      /\ 0 \notin DOMAIN outbox
    BY FreeRow DEF TypeOK, OutboxTypeOK, StoreTypeOK, WorkerTypeOK, OneRunnerPerCommand
<1>1. CASE UNCHANGED <<job, execution, workerVars>>
    BY <1>0, <1>1, RunnerFrame DEF workerVars, HoldsCommand
<1>2. ASSUME NEW w \in Workers, Claim(w)
      PROVE  OneRunnerPerCommand'
  <2>1. /\ job'[w] \in DOMAIN outbox
        /\ job' = [job EXCEPT ![w] = job'[w]]
        /\ pc' = [pc EXCEPT ![w] = "claimed"]
        /\ UNCHANGED <<execution, sshRuns>>
      BY <1>2, ClaimEventRows DEF Claim, Goto, storeVars, TypeOK
  <2>2. \A v \in Workers : job'[v] = 0 <=> pc'[v] = "idle"
      BY <1>0, <2>1
  <2> QED BY <1>0, <2>1, <2>2, RunnerFrame DEF HoldsCommand
<1>3. ASSUME NEW w \in Workers, Complete(w) \/ Fail(w) \/ Crash(w)
      PROVE  OneRunnerPerCommand'
  <2>1. /\ job' = [job EXCEPT ![w] = 0]
        /\ pc' = [pc EXCEPT ![w] = "idle"]
        /\ UNCHANGED <<execution, sshRuns>>
      BY <1>3 DEF Complete, CompleteEvent, Fail, FailEvent, Crash, CrashWorker,
                  Goto, storeVars
  <2>2. \A v \in Workers : job'[v] = 0 <=> pc'[v] = "idle"
      BY <1>0, <2>1
  <2> QED BY <1>0, <2>1, <2>2, RunnerFrame DEF HoldsCommand
<1>4. ASSUME NEW w \in Workers,
             \/ PlanContext(w) \/ ProposeAgentStep(w) \/ ProposalRefused(w)
             \/ RequestCommand(w) \/ StartRefused(w) \/ ReadRun(w)
             \/ DraftActivity(w) \/ SubmitActivity(w) \/ HandlerError(w)
      PROVE  OneRunnerPerCommand'
  <2>1. /\ UNCHANGED <<job, execution, sshRuns>>
        /\ pc[w] # "idle"
        /\ \E l \in Locations :
              /\ pc' = [pc EXCEPT ![w] = l]
              /\ \/ l \in {"proposing", "failing", "done"}
                 \/ l = "starting" /\ Kind(w) = CommandKind
                 \/ l = "applying" /\ pc[w] = "completing"
      BY <1>4 DEF PlanContext, ProposeAgentStep, CreateStep, ProposalRefused,
                  RequestCommand, StartRefused, ReadRun, DraftActivity,
                  SubmitActivity, MarkSubmitted, HandlerError, KeepStore,
                  KeepQueueHolders, storeVars, outboxVars, Goto, At, Locations
  <2>2. \A v \in Workers : job'[v] = 0 <=> pc'[v] = "idle"
      BY <1>0, <2>1
  <2> QED BY <1>0, <2>1, <2>2, RunnerFrame DEF HoldsCommand
<1>5. ASSUME NEW w \in Workers, StartCommand(w)
      PROVE  OneRunnerPerCommand'
  <2> DEFINE s == StepOf(w)
  <2>1. /\ pc[w] = "starting" /\ pc' = [pc EXCEPT ![w] = "executing"]
        /\ execution[s] = "none" /\ execution' = [execution EXCEPT ![s] = "running"]
        /\ UNCHANGED <<outbox, job, sshRuns>>
      BY <1>5 DEF StartCommand, At, Goto, StartCommandExecution, MayStart,
                  KeepQueueHolders
  <2>2. job[w] # 0 /\ s \in Steps /\ Kind(w) = CommandKind /\ HoldsCommand(w)
      BY <2>1, HeldCommand DEF HoldsCommand, OneRunnerPerCommand
  <2>3. \A v \in Workers : Kind(v)' = Kind(v) /\ StepOf(v)' = StepOf(v)
      BY <2>1 DEF Kind, StepOf
  <2>4. \A v \in Workers, t \in Steps : Runs(v, t) => t # s
      BY <2>1, <2>2 DEF OneRunnerPerCommand
  <2>5. \A v \in Workers, t \in Steps :
            Runs(v, t)' => Runs(v, t) \/ (v = w /\ t = s)
      BY <1>0, <2>1, <2>3 DEF Runs
  <2>6. sshRuns[s] = 0
      BY <2>1, <2>2 DEF OneRunnerPerCommand
  <2>7. \A v \in Workers : HoldsCommand(v)' => HoldsCommand(v)
      BY <1>0, <2>1, <2>2 DEF HoldsCommand
  <2>8. \A v \in Workers : pc'[v] = "executing" => sshRuns'[StepOf(v)'] = 0
      BY <1>0, <2>1, <2>3, <2>6 DEF OneRunnerPerCommand
  <2> HIDE DEF s
  <2> QED BY <1>0, <2>1, <2>2, <2>3, <2>4, <2>5, <2>7, <2>8 DEF OneRunnerPerCommand
<1>6. ASSUME NEW w \in Workers, RunCommand(w)
      PROVE  OneRunnerPerCommand'
  <2> DEFINE s == StepOf(w)
  <2>1. /\ pc[w] = "executing" /\ pc' = [pc EXCEPT ![w] = "completing"]
        /\ sshRuns' = [sshRuns EXCEPT ![s] = sshRuns[s] + 1]
        /\ UNCHANGED <<outbox, job, execution>>
      BY <1>6 DEF RunCommand, At, Goto, KeepStore, storeVars, outboxVars
  <2>2. job[w] # 0 /\ s \in Steps /\ Kind(w) = CommandKind /\ HoldsCommand(w)
      BY <2>1, HeldCommand DEF HoldsCommand, OneRunnerPerCommand
  <2>3. \A v \in Workers : Kind(v)' = Kind(v) /\ StepOf(v)' = StepOf(v)
      BY <2>1 DEF Kind, StepOf
  <2>4. Runs(w, s) /\ execution[s] = "running"
      BY <2>1, <2>2 DEF Runs, OneRunnerPerCommand
  <2>5. \A v \in Workers, t \in Steps : Runs(v, t)' => Runs(v, t)
      BY <1>0, <2>1, <2>3 DEF Runs
  <2>6. \A v \in Workers : HoldsCommand(v)' => HoldsCommand(v)
      BY <1>0, <2>1, <2>2 DEF HoldsCommand
  <2>7. ASSUME NEW v \in Workers, pc'[v] = "executing"
        PROVE  sshRuns'[StepOf(v)'] = 0
    <3>1. pc[v] = "executing" /\ v # w
        BY <1>0, <2>1, <2>7
    <3>2. StepOf(v) \in Steps /\ Runs(v, StepOf(v))
        BY <3>1, HeldCommand DEF HoldsCommand, Runs
    <3>3. StepOf(v) # s
        BY <2>2, <2>4, <3>1, <3>2 DEF OneRunnerPerCommand
    <3> QED BY <1>0, <2>1, <2>3, <3>1, <3>2, <3>3 DEF OneRunnerPerCommand
  <2>8. \A t \in Steps : execution'[t] = "none" => sshRuns'[t] = 0
      BY <1>0, <2>1, <2>2, <2>4 DEF OneRunnerPerCommand
  <2> HIDE DEF s
  <2> QED BY <1>0, <2>1, <2>2, <2>3, <2>5, <2>6, <2>7, <2>8 DEF OneRunnerPerCommand
<1>7. ASSUME NEW w \in Workers, ApplyCompletion(w)
      PROVE  OneRunnerPerCommand'
  <2> DEFINE s == StepOf(w)
  <2>1. PICK outcome \in Outcomes :
            execution' = [execution EXCEPT ![s] = FinalExecutionStatus(outcome)]
      BY <1>7 DEF ApplyCompletion, CompleteCommandExecution
  <2>2. /\ pc[w] = "applying" /\ pc' = [pc EXCEPT ![w] = "done"]
        /\ UNCHANGED <<job, sshRuns>>
      BY <1>7 DEF ApplyCompletion, At, Goto, KeepQueueHolders
  <2>3. job[w] # 0 /\ s \in Steps /\ Runs(w, s)
      BY <2>2, HeldCommand DEF HoldsCommand, Runs
  <2>4. FinalExecutionStatus(outcome) # "none"
      BY DEF FinalExecutionStatus, Outcomes
  <2>5. ASSUME NEW v \in Workers, HoldsCommand(v)'
        PROVE  /\ HoldsCommand(v) /\ v # w /\ pc'[v] = pc[v]
               /\ Kind(v)' = Kind(v) /\ StepOf(v)' = StepOf(v)
    <3>1. HoldsCommand(v) /\ v # w /\ pc'[v] = pc[v]
        BY <1>0, <2>2, <2>5 DEF HoldsCommand
    <3> QED BY <2>2, <3>1, HeldCommand, KeptHandle, TypeStep
  <2>6. ASSUME NEW v \in Workers, NEW t \in Steps, Runs(v, t)'
        PROVE  Runs(v, t) /\ t # s
    <3>1. Runs(v, t) /\ v # w
        BY <2>5, <2>6 DEF Runs, HoldsCommand
    <3> QED BY <2>3, <3>1 DEF OneRunnerPerCommand
  <2>7. \A e \in DOMAIN outbox' :
            outbox'[e].kind = CommandKind => outbox'[e].step \in Steps
      BY CommandRowsNameSteps
  <2>8. \A v \in Workers : pc'[v] = "executing" => sshRuns'[StepOf(v)'] = 0
      BY <2>2, <2>5 DEF OneRunnerPerCommand, HoldsCommand
  <2>9. \A v \in Workers : job'[v] = 0 <=> pc'[v] = "idle"
      BY <1>0, <2>2, <2>3
  <2> HIDE DEF s
  <2> QED BY <1>0, <2>1, <2>2, <2>3, <2>4, <2>5, <2>6, <2>7, <2>8, <2>9
          DEF OneRunnerPerCommand
<1> QED BY <1>1, <1>2, <1>3, <1>4, <1>5, <1>6, <1>7
        DEF Next, Technician, KeepQueueHolders, TechnicianNext, CreateManualStep, ProposeRestore,
            CreateStep, ApproveConnection, ApproveStep, RejectStep, RetryRun, AbortRun,
            QueueSubmission, TimePasses, Age, Handle, vars, outboxVars, storeVars, workerVars

LEMMA InitOneRunner == Init => OneRunnerPerCommand /\ CommandRunsAtMostOnce
BY DEF Init, OutboxInit, StoreInit, OneRunnerPerCommand, CommandRunsAtMostOnce,
       HoldsCommand, Runs

(* From its start to the commit of its result a command has one worker, its *)
(* execution row is running and it was not sent before.                     *)
THEOREM OneRunnerPerCommandCorrect == Spec => []OneRunnerPerCommand
<1>1. TypeOK /\ OneRunnerPerCommand /\ [Next]_vars => OneRunnerPerCommand'
    BY OneRunnerStep
<1> QED BY <1>1, InitOneRunner, TypeCorrect, PTL DEF Spec

LEMMA AtMostOnceStep ==
    ASSUME TypeOK, OneRunnerPerCommand, CommandRunsAtMostOnce, [Next]_vars
    PROVE  CommandRunsAtMostOnce'
<1>1. ASSUME NEW w \in Workers, RunCommand(w)
      PROVE  CommandRunsAtMostOnce'
  <2>1. pc[w] = "executing" /\ StepOf(w) \in Steps
      BY <1>1, HeldCommand DEF RunCommand, At, HoldsCommand
  <2>2. sshRuns[StepOf(w)] = 0
      BY <2>1 DEF OneRunnerPerCommand
  <2> QED BY <1>1, <2>1, <2>2
          DEF RunCommand, CommandRunsAtMostOnce, TypeOK, WorkerTypeOK
<1>2. CASE UNCHANGED sshRuns
    BY <1>2 DEF CommandRunsAtMostOnce
<1> QED BY <1>1, <1>2
        DEF Next, vars, workerVars, Technician, TimePasses, Claim, Handle,
            PlanContext, ProposeAgentStep, ProposalRefused, RequestCommand,
            StartCommand, StartRefused, ReadRun, ApplyCompletion,
            DraftActivity, SubmitActivity, HandlerError, Complete, Fail, Crash

(* No approved command is sent to the host twice, whatever is claimed       *)
(* again, retried or recovered.                                             *)
THEOREM CommandRunsAtMostOnceCorrect == Spec => []CommandRunsAtMostOnce
<1>1. TypeOK /\ OneRunnerPerCommand /\ CommandRunsAtMostOnce /\ [Next]_vars
         => CommandRunsAtMostOnce'
    BY AtMostOnceStep
<1> QED BY <1>1, InitOneRunner, TypeCorrect, OneRunnerPerCommandCorrect, PTL DEF Spec
-----------------------------------------------------------------------------
(* The run row, the step rows, the execution rows and the outbox agree.     *)

LEMMA ApplyCompletionEffect ==
    ASSUME TypeOK, OneRunnerPerCommand, ExecutionMatchesStep,
           NEW w \in Workers, ApplyCompletion(w)
    PROVE  LET s == StepOf(w) IN
           /\ s \in Steps
           /\ Runs(w, s) /\ job[w] # 0
           /\ stepStatus[s] = "approved" /\ execution[s] = "running"
           /\ \E outcome \in Outcomes :
                 /\ execution' = [execution EXCEPT ![s] = FinalExecutionStatus(outcome)]
                 /\ stepStatus' = [stepStatus EXCEPT
                       ![s] = IF outcome = "completed" THEN "executed" ELSE "failed"]
           /\ UNCHANGED <<stepPhase, job, seen>>
           /\ pc[w] = "applying" /\ pc' = [pc EXCEPT ![w] = "done"]
           /\ \/ seen[w] = "aborted" /\ UNCHANGED <<runStatus, pendingStep>>
              \/ /\ seen[w] # "aborted" /\ pendingStep' = NoStep
                 /\ runStatus' \in {"ready_for_activity", "validating", "failed",
                                    "investigating"}
<1> DEFINE s == StepOf(w)
<1>1. /\ pc[w] = "applying" /\ pc' = [pc EXCEPT ![w] = "done"]
      /\ UNCHANGED <<job, seen>>
    BY DEF ApplyCompletion, At, Goto, KeepQueueHolders
<1>2. s \in Steps /\ Runs(w, s) /\ job[w] # 0
    BY <1>1, HeldCommand DEF HoldsCommand, Runs
<1>3. execution[s] = "running" /\ stepStatus[s] = "approved"
    BY <1>2 DEF OneRunnerPerCommand, ExecutionMatchesStep
<1>4. PICK outcome \in Outcomes, suitePassed \in BOOLEAN :
          CompleteCommandExecution(s, seen[w], outcome, suitePassed)
    BY DEF ApplyCompletion
<1> DEFINE next == Transition(stepPhase[s], outcome, suitePassed)
<1>5. next.run \in {"ready_for_activity", "validating", "failed", "investigating"}
    BY TransitionAsks
<1>6. /\ execution' = [execution EXCEPT ![s] = FinalExecutionStatus(outcome)]
      /\ stepStatus' = [stepStatus EXCEPT
            ![s] = IF outcome = "completed" THEN "executed" ELSE "failed"]
      /\ UNCHANGED stepPhase
      /\ \/ seen[w] = "aborted" /\ UNCHANGED <<runStatus, pendingStep>>
         \/ seen[w] # "aborted" /\ pendingStep' = NoStep /\ runStatus' = next.run
    BY <1>4 DEF CompleteCommandExecution
<1> HIDE DEF s, next
<1> QED BY <1>1, <1>2, <1>3, <1>5, <1>6 DEF s

\* Everything CreateStep does to the run and its steps.
LEMMA CreateStepEffect ==
    ASSUME TypeOK, NEW s \in Steps, NEW phase \in Phases, NEW verdict,
           CreateStep(s, phase, verdict)
    PROVE  /\ stepStatus[s] = "none"
           /\ AcceptsSteps
           /\ UNCHANGED execution
           /\ stepPhase' = [stepPhase EXCEPT ![s] = phase]
           /\ \/ /\ stepStatus' = [stepStatus EXCEPT ![s] = "blocked"]
                 /\ runStatus' \in {"validating", "investigating"}
                 /\ pendingStep' = NoStep
              \/ /\ stepStatus' = [stepStatus EXCEPT ![s] = "proposed"]
                 /\ NoActiveStep
                 /\ runStatus' = "awaiting_step_approval"
                 /\ pendingStep' = s
BY DEF CreateStep, AcceptsVerdict, IdleStatus

\* The steps of Worker by what they do to the store.
LEMMA StoreCases ==
    ASSUME [Next]_vars
    PROVE  \/ \E s \in Steps, phase \in Phases, verdict \in Verdicts :
                 CreateStep(s, phase, verdict)
           \/ \E s \in Steps : ApproveStep(s) \/ RejectStep(s)
           \/ ApproveConnection \/ RetryRun \/ AbortRun
           \/ \E w \in Workers : StartCommand(w) \/ ApplyCompletion(w)
           \/ MarkSubmitted
           \/ UNCHANGED storeVars
BY RunStoreAssumption
   DEF Next, vars, Technician, TechnicianNext, CreateManualStep, ProposeRestore,
       QueueSubmission, TimePasses, Claim, Handle, PlanContext, ProposeAgentStep,
       ProposalRefused, RequestCommand, StartRefused, RunCommand, ReadRun,
       DraftActivity, SubmitActivity, HandlerError, Complete, Fail, Crash, KeepStore

LEMMA ExecutionMatchesStepStep ==
    ASSUME TypeOK, OneRunnerPerCommand, ExecutionMatchesStep, [Next]_vars
    PROVE  ExecutionMatchesStep'
<1> USE DEF ExecutionMatchesStep
<1>0. stepStatus \in [Steps -> StepStatus] /\ execution \in [Steps -> ExecutionStatus]
    BY DEF TypeOK, StoreTypeOK
<1>1. ASSUME NEW s \in Steps, NEW phase \in Phases, NEW verdict \in Verdicts,
             CreateStep(s, phase, verdict)
      PROVE  ExecutionMatchesStep'
    BY <1>0, <1>1, CreateStepEffect DEF ExecutionStatus
<1>2. ASSUME NEW s \in Steps, ApproveStep(s) \/ RejectStep(s)
      PROVE  ExecutionMatchesStep'
    BY <1>0, <1>2 DEF ApproveStep, RejectStep
<1>3. ASSUME NEW w \in Workers, StartCommand(w)
      PROVE  ExecutionMatchesStep'
    BY <1>0, <1>3 DEF StartCommand, StartCommandExecution, MayStart
<1>4. ASSUME NEW w \in Workers, ApplyCompletion(w)
      PROVE  ExecutionMatchesStep'
    BY <1>0, <1>4, ApplyCompletionEffect DEF FinalExecutionStatus, Outcomes
<1>5. CASE UNCHANGED <<stepStatus, execution>>
    BY <1>5
<1> QED BY <1>1, <1>2, <1>3, <1>4, <1>5, StoreCases
        DEF ApproveConnection, RetryRun, AbortRun, MarkSubmitted, storeVars

(* A step is executed or failed exactly when its execution ended with that  *)
(* result, and a running execution belongs to an approved step.             *)
THEOREM ExecutionMatchesStepCorrect == Spec => []ExecutionMatchesStep
<1>1. Init => ExecutionMatchesStep
    BY DEF Init, StoreInit, ExecutionMatchesStep
<1>2. TypeOK /\ OneRunnerPerCommand /\ ExecutionMatchesStep /\ [Next]_vars
         => ExecutionMatchesStep'
    BY ExecutionMatchesStepStep
<1> QED BY <1>1, <1>2, TypeCorrect, OneRunnerPerCommandCorrect, PTL DEF Spec

LEMMA PendingStepStep ==
    ASSUME TypeOK, OneRunnerPerCommand, ExecutionMatchesStep,
           PendingStepIsProposed, [Next]_vars
    PROVE  PendingStepIsProposed'
<1> USE DEF PendingStepIsProposed
<1>0. /\ stepStatus \in [Steps -> StepStatus]
      /\ pendingStep \in Steps \cup {NoStep} /\ NoStep \notin Steps
    BY OutboxAssumption DEF TypeOK, StoreTypeOK
<1>1. ASSUME NEW s \in Steps, NEW phase \in Phases, NEW verdict \in Verdicts,
             CreateStep(s, phase, verdict)
      PROVE  PendingStepIsProposed'
    BY <1>0, <1>1, CreateStepEffect
<1>2. ASSUME NEW s \in Steps, ApproveStep(s) \/ RejectStep(s)
      PROVE  PendingStepIsProposed'
    BY <1>0, <1>2 DEF ApproveStep, RejectStep, StatusForApproved, IdleStatus
<1>3. CASE ApproveConnection \/ RetryRun \/ AbortRun
    BY <1>0, <1>3 DEF ApproveConnection, RetryRun, AbortRun
<1>4. ASSUME NEW w \in Workers, ApplyCompletion(w)
      PROVE  PendingStepIsProposed'
    BY <1>0, <1>4, ApplyCompletionEffect
<1>5. CASE UNCHANGED <<runStatus, pendingStep, stepStatus>>
    BY <1>5
<1>6. CASE MarkSubmitted
    BY <1>6 DEF MarkSubmitted
<1> QED BY <1>1, <1>2, <1>3, <1>4, <1>5, <1>6, StoreCases
        DEF StartCommand, StartCommandExecution, storeVars

(* A run that awaits a decision names a step, and a step the run names is   *)
(* undecided, although the completion of a submission writes the status of  *)
(* the run and forgets the step.                                            *)
THEOREM PendingStepIsProposedCorrect == Spec => []PendingStepIsProposed
<1>1. Init => PendingStepIsProposed
    BY DEF Init, StoreInit, PendingStepIsProposed
<1>2. TypeOK /\ OneRunnerPerCommand /\ ExecutionMatchesStep
         /\ PendingStepIsProposed /\ [Next]_vars => PendingStepIsProposed'
    BY PendingStepStep
<1> QED BY <1>1, <1>2, TypeCorrect, OneRunnerPerCommandCorrect,
           ExecutionMatchesStepCorrect, PTL DEF Spec
-----------------------------------------------------------------------------
(* What a step of Worker may do to one row.                                 *)

LEMMA LeavingOver ==
    ASSUME [Next]_vars, RunIsOver, ~RunIsOver'
    PROVE  \E w \in Workers : ApplyCompletion(w)
BY StoreCases
   DEF RunIsOver, CreateStep, AcceptsSteps, ApproveStep, RejectStep,
       ApproveConnection, RetryRun, AbortRun, StartCommand, StartCommandExecution,
       MarkSubmitted, storeVars

LEMMA BecomingApproved ==
    ASSUME TypeOK, OneRunnerPerCommand, ExecutionMatchesStep, [Next]_vars,
           NEW s \in Steps, stepStatus[s] # "approved", stepStatus'[s] = "approved"
    PROVE  ApproveStep(s)
<1>0. stepStatus \in [Steps -> StepStatus]
    BY DEF TypeOK, StoreTypeOK
<1>1. ASSUME NEW t \in Steps, NEW phase \in Phases, NEW verdict \in Verdicts,
             CreateStep(t, phase, verdict)
      PROVE  FALSE
    BY <1>0, <1>1, CreateStepEffect
<1>2. ASSUME NEW t \in Steps, ApproveStep(t) \/ RejectStep(t)
      PROVE  ApproveStep(s)
    BY <1>0, <1>2 DEF ApproveStep, RejectStep
<1>3. ASSUME NEW w \in Workers, ApplyCompletion(w)
      PROVE  FALSE
    BY <1>0, <1>3, ApplyCompletionEffect
<1> QED BY <1>1, <1>2, <1>3, StoreCases
        DEF ApproveConnection, RetryRun, AbortRun, StartCommand,
            StartCommandExecution, MarkSubmitted, storeVars

LEMMA ExecutionStays ==
    ASSUME TypeOK, OneRunnerPerCommand, ExecutionMatchesStep, [Next]_vars,
           NEW s \in Steps, execution[s] # "none"
    PROVE  execution'[s] # "none"
<1>0. execution \in [Steps -> ExecutionStatus]
    BY DEF TypeOK, StoreTypeOK
<1>1. ASSUME NEW w \in Workers, StartCommand(w)
      PROVE  execution'[s] # "none"
    BY <1>0, <1>1 DEF StartCommand, StartCommandExecution
<1>2. ASSUME NEW w \in Workers, ApplyCompletion(w)
      PROVE  execution'[s] # "none"
    BY <1>0, <1>2, ApplyCompletionEffect DEF FinalExecutionStatus, Outcomes
<1> QED BY <1>1, <1>2, StoreCases
        DEF CreateStep, ApproveStep, RejectStep, ApproveConnection, RetryRun,
            AbortRun, MarkSubmitted, storeVars

LEMMA CommandRowStaysOpen ==
    ASSUME TypeOK, [Next]_vars, NEW e \in DOMAIN outbox,
           outbox[e].kind = CommandKind, outbox[e].status # "completed"
    PROVE  \/ outbox'[e].status # "completed"
           \/ \E w \in Workers : Complete(w) /\ job[w] = e
<1>0. /\ outbox \in Seq(Event)
      /\ NoStep \in Steps \cup {NoStep}
      /\ "agent.plan_requested" \in EventKinds
      /\ "agent.plan_requested" # CommandKind
    BY DEF TypeOK, OutboxTypeOK, EventKinds, CommandKind, DraftKind, SubmissionKind
<1>1. ASSUME KeepsCommandsOpen(outbox, outbox')
      PROVE  outbox'[e].status # "completed"
    BY <1>1 DEF KeepsCommandsOpen
<1>2. CASE ApproveConnection
    BY <1>0, <1>1, <1>2, EnqueuedRows DEF ApproveConnection
<1>3. ASSUME NEW s \in Steps, NEW phase, NEW verdict, CreateManualStep(s, phase, verdict)
      PROVE  outbox'[e].status # "completed"
    BY <1>0, <1>1, <1>3, CancelledRows DEF CreateManualStep
<1>4. ASSUME NEW s \in Steps, ApproveStep(s)
      PROVE  outbox'[e].status # "completed"
  <2>1. s \in Steps \cup {NoStep} /\ outbox' = Enqueued(outbox, CommandKind, s)
      BY <1>4 DEF ApproveStep
  <2>2. outbox \in Seq(Event) /\ CommandKind \in EventKinds
      BY <1>0 DEF EventKinds
  <2>3. KeepsCommandsOpen(outbox, outbox')
      BY ONLY <2>1, <2>2, EnqueuedRows
  <2> QED BY <1>1, <2>3
<1>5. CASE RetryRun
    BY <1>1, <1>5, SupersedeAndEnqueueRows DEF RetryRun, TypeOK
<1>6. ASSUME NEW w \in Workers, ApplyCompletion(w)
      PROVE  outbox'[e].status # "completed"
  <2>1. PICK outcome \in Outcomes, suitePassed \in BOOLEAN :
            CompleteCommandExecution(StepOf(w), seen[w], outcome, suitePassed)
      BY <1>6 DEF ApplyCompletion
  <2> DEFINE ask == Transition(stepPhase[StepOf(w)], outcome, suitePassed).ask
  <2>2. ask = "nothing" \/ ask \in EventKinds
      BY TransitionAsks DEF EventKinds, DraftKind
  <2>3. outbox' = outbox \/ (ask # "nothing" /\ outbox' = Enqueued(outbox, ask, NoStep))
      BY <2>1 DEF CompleteCommandExecution
  <2> HIDE DEF ask
  <2> QED BY <1>0, <1>1, <2>2, <2>3, EnqueuedRows
<1>7. ASSUME NEW w \in Workers, Claim(w)
      PROVE  outbox'[e].status # "completed"
    BY <1>1, <1>7, ClaimEventRows DEF Claim, TypeOK
<1>8. ASSUME NEW w \in Workers, Complete(w), job[w] # e
      PROVE  outbox'[e].status # "completed"
    BY <1>0, <1>8, HeldRow, CompletedRows DEF Complete, CompleteEvent, TypeOK
<1>9. ASSUME NEW w \in Workers, Fail(w)
      PROVE  outbox'[e].status # "completed"
    BY <1>0, <1>1, <1>9, HeldRow, FailedRows DEF Fail, FailEvent, TypeOK
<1>10. CASE TimePasses
    BY <1>0, <1>1, <1>10, AgedRows DEF TimePasses, Age
<1>11. CASE UNCHANGED outbox
    BY <1>11
<1>12. CASE QueueSubmission
  <2>1. /\ SubmissionKind \in EventKinds /\ DraftKind # CommandKind
        /\ outbox' = Enqueued(Cancelled(outbox, DraftKind), SubmissionKind, NoStep)
      BY <1>12 DEF QueueSubmission, EventKinds, CommandKind, DraftKind
  <2> DEFINE q == Cancelled(outbox, DraftKind)
  <2>2. Updates(outbox, q) /\ KeepsCommandsOpen(outbox, q)
      BY <1>0, <2>1, CancelledRows
  <2> HIDE DEF q
  <2>3. q \in Seq(Event) /\ DOMAIN q = DOMAIN outbox
      BY <2>2 DEF Updates
  <2>4. KeepsCommandsOpen(q, outbox')
      BY <1>0, <2>1, <2>3, EnqueuedRows DEF q
  <2>5. KeepsCommandsOpen(outbox, outbox')
      BY <2>2, <2>3, <2>4 DEF KeepsCommandsOpen, Updates, KeepsRows
  <2> QED BY <1>1, <2>5
<1> QED BY <1>2, <1>3, <1>4, <1>5, <1>6, <1>7, <1>8, <1>9, <1>10, <1>11, <1>12
        DEF Next, vars, outboxVars, Technician, TechnicianNext, ProposeRestore,
            RejectStep, AbortRun,
            Handle, PlanContext, ProposeAgentStep, ProposalRefused, RequestCommand,
            StartCommand, StartCommandExecution, StartRefused, RunCommand,
            ReadRun, DraftActivity, SubmitActivity, MarkSubmitted, HandlerError,
            Crash, CrashWorker, KeepStore
-----------------------------------------------------------------------------
(* The status of the run.                                                   *)

\* Two completions cannot be under way: their steps would both be approved.
LEMMA OneCompletion ==
    ASSUME TypeOK, OneRunnerPerCommand, ExecutionMatchesStep, OneActiveStep,
           NEW v \in Workers, NEW w \in Workers,
           pc[v] = "applying", pc[w] = "applying"
    PROVE  v = w
<1>1. /\ StepOf(v) \in Steps /\ Runs(v, StepOf(v))
      /\ StepOf(w) \in Steps /\ Runs(w, StepOf(w))
    BY HeldCommand DEF HoldsCommand, Runs
<1>2. stepStatus[StepOf(v)] = "approved" /\ stepStatus[StepOf(w)] = "approved"
    BY <1>1 DEF OneRunnerPerCommand, ExecutionMatchesStep
<1>3. StepOf(v) = StepOf(w)
    BY <1>1, <1>2 DEF OneActiveStep, Active
<1> QED BY <1>1, <1>3 DEF OneRunnerPerCommand

LEMMA Applying ==
    ASSUME TypeOK, [Next]_vars, NEW v \in Workers, pc'[v] = "applying"
    PROVE  \/ pc[v] = "applying" /\ seen'[v] = seen[v]
           \/ ReadRun(v) /\ seen'[v] = runStatus /\ runStatus' = runStatus
<1>0. pc \in [Workers -> Locations] /\ seen \in [Workers -> RunStatus]
    BY DEF TypeOK, WorkerTypeOK
<1>1. CASE Technician \/ TimePasses \/ UNCHANGED vars
    BY <1>1 DEF Technician, TimePasses, vars, workerVars
<1>2. ASSUME NEW w \in Workers, ReadRun(w)
      PROVE  \/ pc[v] = "applying" /\ seen'[v] = seen[v]
             \/ ReadRun(v) /\ seen'[v] = runStatus /\ runStatus' = runStatus
  <2>1. CASE v = w
      BY <1>0, <1>2, <2>1 DEF ReadRun, KeepStore, storeVars
  <2>2. CASE v # w
      BY <1>0, <1>2, <2>2 DEF ReadRun, Goto
  <2> QED BY <2>1, <2>2
<1>3. ASSUME NEW w \in Workers,
             \/ Claim(w) \/ PlanContext(w) \/ ProposeAgentStep(w)
             \/ ProposalRefused(w) \/ RequestCommand(w) \/ StartCommand(w)
             \/ StartRefused(w) \/ RunCommand(w) \/ ApplyCompletion(w)
             \/ DraftActivity(w) \/ SubmitActivity(w) \/ HandlerError(w)
             \/ Complete(w) \/ Fail(w) \/ Crash(w)
      PROVE  pc[v] = "applying" /\ seen'[v] = seen[v]
  <2>1. /\ UNCHANGED seen
        /\ \E l \in Locations \ {"applying"} : Goto(w, l)
      BY <1>3 DEF Claim, PlanContext, ProposeAgentStep, ProposalRefused,
                  RequestCommand, StartCommand, StartRefused, RunCommand,
                  ApplyCompletion, DraftActivity, SubmitActivity, HandlerError,
                  Complete, Fail, Crash, Locations
  <2> QED BY <1>0, <2>1 DEF Goto
<1> QED BY <1>1, <1>2, <1>3 DEF Next, Handle

LEMMA AbortSeenStep ==
    ASSUME TypeOK, OneRunnerPerCommand, ExecutionMatchesStep, OneActiveStep,
           AbortSeenIsCurrent, [Next]_vars
    PROVE  AbortSeenIsCurrent'
<1> SUFFICES ASSUME NEW v \in Workers, pc'[v] = "applying", seen'[v] = "aborted"
             PROVE  RunIsOver'
    BY DEF AbortSeenIsCurrent
<1>1. CASE ReadRun(v) /\ seen'[v] = runStatus /\ runStatus' = runStatus
    BY <1>1 DEF RunIsOver
<1>2. CASE pc[v] = "applying" /\ seen'[v] = seen[v]
  <2>1. RunIsOver
      BY <1>2 DEF AbortSeenIsCurrent
  <2>2. ASSUME NEW w \in Workers, ApplyCompletion(w)
        PROVE  FALSE
    <3>1. pc[w] = "applying" /\ pc' = [pc EXCEPT ![w] = "done"]
        BY <2>2, ApplyCompletionEffect
    <3>2. v = w
        BY <1>2, <3>1, OneCompletion
    <3> QED BY <3>1, <3>2 DEF TypeOK, WorkerTypeOK
  <2> QED BY <2>1, <2>2, LeavingOver
<1> QED BY <1>1, <1>2, Applying

LEMMA BusyRunStep ==
    ASSUME TypeOK, OneRunnerPerCommand, ExecutionMatchesStep, AbortSeenIsCurrent,
           BusyRunHasApprovedStep, [Next]_vars
    PROVE  BusyRunHasApprovedStep'
<1> USE DEF BusyRunHasApprovedStep
<1>0. stepStatus \in [Steps -> StepStatus] /\ stepPhase \in [Steps -> Phases]
    BY DEF TypeOK, StoreTypeOK
<1>1. ASSUME NEW s \in Steps, NEW phase \in Phases, NEW verdict \in Verdicts,
             CreateStep(s, phase, verdict)
      PROVE  BusyRunHasApprovedStep'
    BY <1>1, CreateStepEffect
<1>2. ASSUME NEW s \in Steps, ApproveStep(s)
      PROVE  BusyRunHasApprovedStep'
  <2>1. /\ stepStatus' = [stepStatus EXCEPT ![s] = "approved"]
        /\ stepPhase' = stepPhase
        /\ runStatus' = StatusForApproved(stepPhase[s])
      BY <1>2 DEF ApproveStep
  <2>2. stepStatus'[s] = "approved" /\ StatusForApproved(stepPhase'[s]) = runStatus'
      BY <1>0, <2>1
  <2> QED BY <2>2 DEF StatusForApproved
<1>3. CASE ApproveConnection \/ RetryRun \/ AbortRun \/ \E s \in Steps : RejectStep(s)
    BY <1>3 DEF ApproveConnection, RetryRun, AbortRun, RejectStep, IdleStatus
<1>4. ASSUME NEW w \in Workers, ApplyCompletion(w)
      PROVE  BusyRunHasApprovedStep'
    BY <1>4, ApplyCompletionEffect DEF AbortSeenIsCurrent, RunIsOver
<1>5. CASE UNCHANGED <<runStatus, stepStatus, stepPhase>>
    BY <1>5 DEF StatusForApproved
<1>6. CASE MarkSubmitted
    BY <1>6 DEF MarkSubmitted
<1> QED BY <1>1, <1>2, <1>3, <1>4, <1>5, <1>6, StoreCases
        DEF StartCommand, StartCommandExecution, storeVars

(* A completion that read the run as aborted commits while it is over: in   *)
(* between a submission may have completed, and nothing else writes the     *)
(* status, so the run it leaves alone is not busy.                          *)
THEOREM AbortSeenIsCurrentCorrect == Spec => []AbortSeenIsCurrent
<1>1. Init => AbortSeenIsCurrent
    BY DEF Init, AbortSeenIsCurrent
<1>2. TypeOK /\ OneRunnerPerCommand /\ ExecutionMatchesStep /\ OneActiveStep
         /\ AbortSeenIsCurrent /\ [Next]_vars => AbortSeenIsCurrent'
    BY AbortSeenStep
<1> QED BY <1>1, <1>2, TypeCorrect, OneRunnerPerCommandCorrect, OneActiveStepCorrect,
           ExecutionMatchesStepCorrect, PTL DEF Spec

(* A run shown as executing or fixing has an approved step of that phase.   *)
THEOREM BusyRunHasApprovedStepCorrect == Spec => []BusyRunHasApprovedStep
<1>1. Init => BusyRunHasApprovedStep
    BY DEF Init, StoreInit, BusyRunHasApprovedStep
<1>2. TypeOK /\ OneRunnerPerCommand /\ ExecutionMatchesStep /\ AbortSeenIsCurrent
         /\ BusyRunHasApprovedStep /\ [Next]_vars => BusyRunHasApprovedStep'
    BY BusyRunStep
<1> QED BY <1>1, <1>2, TypeCorrect, OneRunnerPerCommandCorrect,
           ExecutionMatchesStepCorrect, AbortSeenIsCurrentCorrect, PTL DEF Spec
-----------------------------------------------------------------------------
(* Approved commands and their rows.                                        *)

LEMMA CommandRowsApprovedStep ==
    ASSUME TypeOK, OneRunnerPerCommand, ExecutionMatchesStep,
           CommandRowsAreApproved, [Next]_vars
    PROVE  CommandRowsAreApproved'
<1> DEFINE Decided == {"approved", "executed", "failed"}
<1>0. stepStatus \in [Steps -> StepStatus]
    BY DEF TypeOK, StoreTypeOK
<1>1. ASSUME NEW s \in Steps, stepStatus[s] \in Decided
      PROVE  stepStatus'[s] \in Decided
  <2>1. ASSUME NEW t \in Steps, NEW phase \in Phases, NEW verdict \in Verdicts,
               CreateStep(t, phase, verdict)
        PROVE  stepStatus'[s] \in Decided
      BY <1>0, <1>1, <2>1, CreateStepEffect
  <2>2. ASSUME NEW t \in Steps, ApproveStep(t) \/ RejectStep(t)
        PROVE  stepStatus'[s] \in Decided
      BY <1>0, <1>1, <2>2 DEF ApproveStep, RejectStep
  <2>3. ASSUME NEW w \in Workers, ApplyCompletion(w)
        PROVE  stepStatus'[s] \in Decided
      BY <1>0, <1>1, <2>3, ApplyCompletionEffect
  <2> QED BY <1>1, <2>1, <2>2, <2>3, StoreCases
          DEF ApproveConnection, RetryRun, AbortRun, StartCommand,
              StartCommandExecution, MarkSubmitted, storeVars
<1> SUFFICES ASSUME NEW e \in DOMAIN outbox', outbox'[e].kind = CommandKind
             PROVE  stepStatus'[outbox'[e].step] \in Decided
    BY DEF CommandRowsAreApproved
<1>2. CASE e \in DOMAIN outbox
  <2>1. outbox[e].kind = CommandKind /\ outbox'[e].step = outbox[e].step
      BY <1>2, TypeStep DEF KeepsRows
  <2>2. outbox[e].step \in Steps /\ stepStatus[outbox[e].step] \in Decided
      BY <1>2, <2>1 DEF OneRunnerPerCommand, CommandRowsAreApproved
  <2> QED BY <1>1, <2>1, <2>2
<1>3. CASE e \notin DOMAIN outbox
  <2>1. PICK s \in Steps : ApproveStep(s) /\ outbox'[e].step = s
      BY <1>3, NewCommandRows
  <2> QED BY <1>0, <2>1 DEF ApproveStep
<1> QED BY <1>2, <1>3

\* A command about to be completed is settled by the step that got it there.
LEMMA BecomingDone ==
    ASSUME TypeOK, OneRunnerPerCommand, ExecutionMatchesStep, DoneCommandIsSettled,
           [Next]_vars, NEW v \in Workers, pc'[v] = "done", pc[v] # "done",
           Kind(v)' = CommandKind
    PROVE  execution'[StepOf(v)'] # "none" \/ RunIsOver'
<1>0. pc \in [Workers -> Locations] /\ execution \in [Steps -> ExecutionStatus]
    BY DEF TypeOK, WorkerTypeOK, StoreTypeOK
<1>1. CASE PlanContext(v) \/ ProposeAgentStep(v) \/ DraftActivity(v) \/ SubmitActivity(v)
  <2>1. UNCHANGED <<outbox, job>>
      BY <1>1 DEF PlanContext, ProposeAgentStep, DraftActivity, SubmitActivity,
                  MarkSubmitted, KeepStore, KeepQueueHolders, outboxVars
  <2>2. Kind(v) = CommandKind
      BY <2>1 DEF Kind
  <2> QED BY <1>1, <2>2 DEF PlanContext, ProposeAgentStep, DraftActivity,
                            SubmitActivity, At, DoneCommandIsSettled, CommandKind,
                            SubmissionKind
<1>2. CASE RequestCommand(v)
    BY <1>0, <1>2 DEF RequestCommand, Goto, KeepStore, storeVars, RunIsOver
<1>3. CASE ApplyCompletion(v)
  <2>1. job[v] # 0 /\ job' = job /\ StepOf(v) \in Steps
      BY <1>3, ApplyCompletionEffect
  <2>2. StepOf(v)' = StepOf(v)
      BY <2>1, KeptHandle, TypeStep
  <2>3. execution'[StepOf(v)] # "none"
      BY <1>0, <1>3, ApplyCompletionEffect DEF FinalExecutionStatus, Outcomes
  <2> QED BY <2>2, <2>3
<1>4. ASSUME NEW w \in Workers, w # v,
             Claim(w) \/ Handle(w) \/ HandlerError(w) \/ Crash(w)
      PROVE  FALSE
  <2>1. \E l \in Locations : Goto(w, l)
      BY <1>4 DEF Claim, Handle, PlanContext, ProposeAgentStep, ProposalRefused,
                  RequestCommand, StartCommand, StartRefused, RunCommand, ReadRun,
                  ApplyCompletion, DraftActivity, SubmitActivity, HandlerError,
                  Complete, Fail, Crash, Locations
  <2> QED BY <1>0, <1>4, <2>1 DEF Goto
<1>5. ASSUME \/ Claim(v) \/ ProposalRefused(v) \/ StartCommand(v) \/ StartRefused(v)
             \/ RunCommand(v) \/ ReadRun(v) \/ HandlerError(v) \/ Complete(v)
             \/ Fail(v) \/ Crash(v)
      PROVE  FALSE
  <2>1. \E l \in Locations \ {"done"} : Goto(v, l)
      BY <1>5 DEF Claim, ProposalRefused, StartCommand, StartRefused, RunCommand,
                  ReadRun, HandlerError, Complete, Fail, Crash, Locations
  <2> QED BY <1>0, <2>1 DEF Goto
<1>6. CASE Technician \/ TimePasses \/ UNCHANGED vars
    BY <1>6 DEF Technician, TimePasses, vars, workerVars
<1> QED BY <1>1, <1>2, <1>3, <1>4, <1>5, <1>6 DEF Next, Handle

LEMMA SameHolder ==
    ASSUME TypeOK, OneRunnerPerCommand, [Next]_vars, NEW v \in Workers,
           pc'[v] = pc[v], pc[v] # "idle"
    PROVE  job[v] # 0 /\ Kind(v)' = Kind(v) /\ StepOf(v)' = StepOf(v)
<1>0. pc \in [Workers -> Locations] /\ job \in [Workers -> Nat] /\ job[v] # 0
    BY DEF TypeOK, WorkerTypeOK, OutboxTypeOK, OneRunnerPerCommand
<1>1. job'[v] = job[v]
  <2>1. ASSUME NEW w \in Workers, Claim(w) \/ Complete(w) \/ Fail(w) \/ Crash(w)
        PROVE  job'[v] = job[v]
    <3>1. pc'[w] # pc[w]
        BY <1>0, <2>1 DEF Claim, Complete, Fail, Crash, At, Goto
    <3>2. \E j : job' = [job EXCEPT ![w] = j]
        BY <2>1 DEF Claim, ClaimEvent, Complete, CompleteEvent, Fail, FailEvent,
                    Crash, CrashWorker
    <3> QED BY <1>0, <3>1, <3>2
  <2>2. CASE UNCHANGED job
      BY <2>2
  <2> QED BY <2>1, <2>2
          DEF Next, Technician, KeepQueueHolders, TimePasses, Age, Handle, PlanContext,
              ProposeAgentStep, ProposalRefused, RequestCommand, StartCommand,
              StartRefused, RunCommand, ReadRun, ApplyCompletion, DraftActivity,
              SubmitActivity, HandlerError, KeepStore, vars, outboxVars
<1> QED BY <1>0, <1>1, KeptHandle, TypeStep

LEMMA Proposing ==
    ASSUME TypeOK, OneRunnerPerCommand, DoneCommandIsSettled, [Next]_vars,
           NEW v \in Workers, pc'[v] = "proposing"
    PROVE  Kind(v)' # CommandKind
<1>0. pc \in [Workers -> Locations]
    BY DEF TypeOK, WorkerTypeOK
<1>1. CASE pc[v] = "proposing"
    BY <1>1, SameHolder DEF DoneCommandIsSettled
<1>2. CASE PlanContext(v)
    BY <1>2 DEF PlanContext, Kind, KeepStore, outboxVars, CommandKind
<1>3. ASSUME NEW w \in Workers, pc[v] # "proposing",
             \/ w # v /\ PlanContext(w)
             \/ Claim(w) \/ ProposeAgentStep(w) \/ ProposalRefused(w)
             \/ RequestCommand(w) \/ StartCommand(w) \/ StartRefused(w)
             \/ RunCommand(w) \/ ReadRun(w) \/ ApplyCompletion(w)
             \/ DraftActivity(w) \/ SubmitActivity(w) \/ HandlerError(w)
             \/ Complete(w) \/ Fail(w) \/ Crash(w)
      PROVE  FALSE
  <2>1. \E l \in Locations : Goto(w, l) /\ (w # v \/ l # "proposing")
      BY <1>3 DEF PlanContext, Claim, ProposeAgentStep, ProposalRefused,
                  RequestCommand, StartCommand, StartRefused, RunCommand, ReadRun,
                  ApplyCompletion, DraftActivity, SubmitActivity, HandlerError,
                  Complete, Fail, Crash, Locations
  <2> QED BY <1>0, <1>3, <2>1 DEF Goto
<1>4. CASE Technician \/ TimePasses \/ UNCHANGED vars
    BY <1>1, <1>4 DEF Technician, TimePasses, vars, workerVars
<1> QED BY <1>1, <1>2, <1>3, <1>4 DEF Next, Handle

LEMMA DoneCommandStep ==
    ASSUME TypeOK, OneRunnerPerCommand, ExecutionMatchesStep, OneActiveStep,
           CommandRowsAreApproved, DoneCommandIsSettled, [Next]_vars
    PROVE  DoneCommandIsSettled'
<1>0. stepStatus \in [Steps -> StepStatus]
    BY DEF TypeOK, StoreTypeOK
<1> SUFFICES ASSUME NEW v \in Workers, pc'[v] = "done", Kind(v)' = CommandKind
             PROVE  \/ execution'[StepOf(v)'] # "none"
                    \/ stepStatus'[StepOf(v)'] # "approved"
                    \/ RunIsOver'
    BY Proposing DEF DoneCommandIsSettled
<1>1. CASE pc[v] # "done"
    BY <1>1, BecomingDone
<1>2. CASE pc[v] = "done"
  <2> DEFINE s == StepOf(v)
  <2>1. job[v] # 0 /\ Kind(v) = CommandKind /\ StepOf(v)' = s
      BY <1>2, SameHolder
  <2>2. s \in Steps /\ stepStatus[s] \in {"approved", "executed", "failed"}
      BY <2>1, HeldRow
         DEF TypeOK, OneRunnerPerCommand, CommandRowsAreApproved, Kind, StepOf
  <2>3. execution[s] # "none" \/ stepStatus[s] # "approved" \/ RunIsOver
      BY <1>2, <2>1 DEF DoneCommandIsSettled
  <2> HIDE DEF s
  <2>4. CASE execution[s] # "none"
      BY <2>1, <2>2, <2>4, ExecutionStays
  <2>5. CASE stepStatus[s] # "approved"
    <3>1. ~ApproveStep(s)
        BY <2>2 DEF ApproveStep
    <3> QED BY <2>1, <2>2, <2>5, <3>1, BecomingApproved
  <2>6. CASE RunIsOver /\ ~RunIsOver' /\ stepStatus[s] = "approved"
    <3>1. PICK w \in Workers : ApplyCompletion(w)
        BY <2>6, LeavingOver
    <3>2. StepOf(w) = s
        BY <2>2, <2>6, <3>1, ApplyCompletionEffect DEF OneActiveStep, Active
    <3>3. stepStatus'[s] # "approved"
        BY <1>0, <2>2, <3>1, <3>2, ApplyCompletionEffect
    <3> QED BY <2>1, <3>3
  <2> QED BY <2>3, <2>4, <2>5, <2>6
<1> QED BY <1>1, <1>2

LEMMA ApprovedCommandStep ==
    ASSUME TypeOK, OneRunnerPerCommand, ExecutionMatchesStep, OneActiveStep,
           DoneCommandIsSettled, ApprovedCommandKeepsItsRow, [Next]_vars
    PROVE  ApprovedCommandKeepsItsRow'
<1>0. stepStatus \in [Steps -> StepStatus] /\ outbox \in Seq(Event)
    BY DEF TypeOK, StoreTypeOK, OutboxTypeOK
<1> SUFFICES ASSUME NEW s \in Steps, stepStatus'[s] = "approved",
                    execution'[s] = "none", ~RunIsOver'
             PROVE  \E e \in DOMAIN outbox' : /\ outbox'[e].kind = CommandKind
                                              /\ outbox'[e].step = s
                                              /\ outbox'[e].status # "completed"
    BY DEF ApprovedCommandKeepsItsRow
<1>1. execution[s] = "none"
    BY ExecutionStays
<1>2. CASE stepStatus[s] # "approved"
  <2>1. s \in Steps \cup {NoStep} /\ outbox' = Enqueued(outbox, CommandKind, s)
      BY <1>2, BecomingApproved DEF ApproveStep
  <2>2. outbox \in Seq(Event) /\ CommandKind \in EventKinds
      BY <1>0 DEF EventKinds
  <2>3. /\ DOMAIN outbox' \ DOMAIN outbox # {}
        /\ \A e \in DOMAIN outbox' \ DOMAIN outbox :
              /\ outbox'[e].kind = CommandKind
              /\ outbox'[e].step = s
              /\ outbox'[e].status = "pending"
      BY ONLY <2>1, <2>2, EnqueuedRows
  <2> QED BY <2>3
<1>3. CASE stepStatus[s] = "approved" /\ RunIsOver
  <2>1. PICK w \in Workers : ApplyCompletion(w)
      BY <1>3, LeavingOver
  <2>2. StepOf(w) = s
      BY <1>3, <2>1, ApplyCompletionEffect DEF OneActiveStep, Active
  <2> QED BY <1>1, <2>1, <2>2, ApplyCompletionEffect
<1>4. CASE stepStatus[s] = "approved" /\ ~RunIsOver
  <2>1. PICK e \in DOMAIN outbox : /\ outbox[e].kind = CommandKind
                                   /\ outbox[e].step = s
                                   /\ outbox[e].status # "completed"
      BY <1>1, <1>4 DEF ApprovedCommandKeepsItsRow
  <2>2. ASSUME NEW w \in Workers, Complete(w), job[w] = e
        PROVE  FALSE
      BY <1>1, <1>4, <2>1, <2>2 DEF Complete, At, Kind, StepOf, DoneCommandIsSettled
  <2>3. outbox'[e].status # "completed"
      BY <2>1, <2>2, CommandRowStaysOpen
  <2> QED BY <2>1, <2>3, TypeStep DEF KeepsRows
<1> QED BY <1>2, <1>3, <1>4

LEMMA InitRows ==
    Init => CommandRowsAreApproved /\ DoneCommandIsSettled /\ ApprovedCommandKeepsItsRow
BY DEF Init, OutboxInit, StoreInit, CommandRowsAreApproved, DoneCommandIsSettled,
       ApprovedCommandKeepsItsRow

(* A command handler that returns has started its command, or the step was  *)
(* decided otherwise, or the run is over: a row is never completed with    *)
(* its approved command left behind.                                        *)
THEOREM DoneCommandIsSettledCorrect == Spec => [](CommandRowsAreApproved /\ DoneCommandIsSettled)
<1>1. TypeOK /\ OneRunnerPerCommand /\ ExecutionMatchesStep /\ CommandRowsAreApproved
         /\ [Next]_vars => CommandRowsAreApproved'
    BY CommandRowsApprovedStep
<1>2. TypeOK /\ OneRunnerPerCommand /\ ExecutionMatchesStep /\ OneActiveStep
         /\ CommandRowsAreApproved /\ DoneCommandIsSettled /\ [Next]_vars
         => DoneCommandIsSettled'
    BY DoneCommandStep
<1> QED BY <1>1, <1>2, InitRows, TypeCorrect, OneRunnerPerCommandCorrect,
           OneActiveStepCorrect, ExecutionMatchesStepCorrect, PTL DEF Spec

(* An approved command that has not been started has an outbox row that is  *)
(* still open or visibly dead-lettered, unless the run is over.             *)
THEOREM ApprovedCommandKeepsItsRowCorrect == Spec => []ApprovedCommandKeepsItsRow
<1>1. TypeOK /\ OneRunnerPerCommand /\ ExecutionMatchesStep /\ OneActiveStep
         /\ DoneCommandIsSettled /\ ApprovedCommandKeepsItsRow /\ [Next]_vars
         => ApprovedCommandKeepsItsRow'
    BY ApprovedCommandStep
<1> QED BY <1>1, InitRows, TypeCorrect, OneRunnerPerCommandCorrect,
           OneActiveStepCorrect, ExecutionMatchesStepCorrect,
           DoneCommandIsSettledCorrect, PTL DEF Spec
-----------------------------------------------------------------------------
(* Decisions and abandoned commands.                                        *)

LEMMA DecisionStep ==
    ASSUME TypeOK, OneRunnerPerCommand, ExecutionMatchesStep, OneActiveStep,
           PendingStepIsProposed, [Next]_vars, NEW s \in Steps,
           stepStatus[s] = "proposed", stepStatus'[s] # "proposed"
    PROVE  s = pendingStep
<1>0. /\ stepStatus \in [Steps -> StepStatus]
      /\ pendingStep \in Steps \cup {NoStep}
    BY DEF TypeOK, StoreTypeOK
<1>1. ASSUME NEW t \in Steps, NEW phase \in Phases, NEW verdict \in Verdicts,
             CreateStep(t, phase, verdict)
      PROVE  FALSE
    BY <1>0, <1>1, CreateStepEffect
<1>2. ASSUME NEW t \in Steps, ApproveStep(t) \/ RejectStep(t)
      PROVE  s = pendingStep
  <2>1. pendingStep \in Steps /\ Active(pendingStep)
      BY <1>0, <1>2 DEF ApproveStep, RejectStep, PendingStepIsProposed, Active
  <2> QED BY <2>1 DEF OneActiveStep, Active
<1>3. ASSUME NEW w \in Workers, ApplyCompletion(w)
      PROVE  FALSE
    BY <1>0, <1>3, ApplyCompletionEffect
<1> QED BY <1>1, <1>2, <1>3, StoreCases
        DEF ApproveConnection, RetryRun, AbortRun, StartCommand,
            StartCommandExecution, MarkSubmitted, storeVars

(* approve_step, edit_and_approve_step and reject_step look for any         *)
(* proposed step of the run by its id, and still decide only the one the    *)
(* run shows as pending.                                                    *)
THEOREM OnlyPendingStepIsDecidedCorrect == Spec => OnlyPendingStepIsDecided
<1>1. TypeOK /\ OneRunnerPerCommand /\ ExecutionMatchesStep /\ OneActiveStep
         /\ PendingStepIsProposed /\ [Next]_vars
         => [\A s \in Steps :
                stepStatus[s] = "proposed" /\ stepStatus'[s] # "proposed"
                    => s = pendingStep]_vars
    BY DecisionStep
<1> QED BY <1>1, TypeCorrect, OneRunnerPerCommandCorrect, ExecutionMatchesStepCorrect,
           OneActiveStepCorrect, PendingStepIsProposedCorrect, PTL
        DEF Spec, OnlyPendingStepIsDecided

LEMMA AbandonedStep ==
    ASSUME TypeOK, OneRunnerPerCommand, ExecutionMatchesStep, OneActiveStep,
           [Next]_vars, NEW s \in Steps,
           stepStatus[s] = "approved", execution[s] = "none", RunIsOver
    PROVE  (stepStatus[s] = "approved" /\ execution[s] = "none" /\ RunIsOver)'
<1>0. stepStatus \in [Steps -> StepStatus] /\ execution \in [Steps -> ExecutionStatus]
    BY DEF TypeOK, StoreTypeOK
<1>1. ASSUME NEW w \in Workers, ApplyCompletion(w)
      PROVE  FALSE
    BY <1>1, ApplyCompletionEffect DEF OneActiveStep, Active
<1>2. RunIsOver'
    BY <1>1, LeavingOver
<1>3. ASSUME NEW w \in Workers, StartCommand(w)
      PROVE  FALSE
    BY <1>3 DEF StartCommand, StartCommandExecution, MayStart, StatusForApproved,
                RunIsOver
<1> QED BY <1>0, <1>1, <1>2, <1>3, StoreCases
        DEF CreateStep, AcceptsSteps, ApproveStep, RejectStep, ApproveConnection,
            RetryRun, AbortRun, MarkSubmitted, storeVars, RunIsOver

(* A command that was approved and not started when its run was aborted or  *)
(* submitted is never started: no completion can be under way that would    *)
(* bring the run back, for its step would be a second active one.           *)
THEOREM AbandonedCommandNeverStartsCorrect == Spec => AbandonedCommandNeverStarts
<1>1. TypeOK /\ OneRunnerPerCommand /\ ExecutionMatchesStep /\ OneActiveStep
         /\ [Next]_vars
         => [\A s \in Steps :
                stepStatus[s] = "approved" /\ execution[s] = "none" /\ RunIsOver
                    => (stepStatus[s] = "approved" /\ execution[s] = "none"
                           /\ RunIsOver)']_vars
    BY AbandonedStep
<1> QED BY <1>1, TypeCorrect, OneRunnerPerCommandCorrect, ExecutionMatchesStepCorrect,
           OneActiveStepCorrect, PTL DEF Spec, AbandonedCommandNeverStarts
=============================================================================
