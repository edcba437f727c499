-------------------------- MODULE SubmissionProofs --------------------------
(***************************************************************************)
(* Safety of the activity submission for any number of workers, requests,   *)
(* attempts, crashes, errors and lost answers.                              *)
(***************************************************************************)
EXTENDS ActivitySubmission, OutboxProofs

\* The part of a handler that works on a request.
Submitting == {"marking", "creating", "recording", "patching", "completing",
               "raised"}

\* Submission rows carry requests, and whoever submits holds such a row.
RowsCarryRequests ==
    /\ \A e \in DOMAIN outbox :
          outbox[e].kind = SubmissionKind => outbox[e].step \in Requests
    /\ \A w \in Workers :
          /\ pc[w] # "idle" => job[w] # 0
          /\ pc[w] \in Submitting => Kind(w) = SubmissionKind

\* What a handler has done before it gets where it is.
Progress ==
    /\ \A r \in Requests : recorded[r] => activities[r] > 0
    /\ \A w \in Workers :
          /\ pc[w] = "recording" => activities[RequestOf(w)] > 0
          /\ pc[w] \in {"patching", "completing"} => recorded[RequestOf(w)]
          /\ pc[w] = "completing" => ticketDone
-----------------------------------------------------------------------------
(* The queue.                                                               *)

LEMMA HandlerQueueStep ==
    ASSUME NEW w \in Workers,
           Claim(w) \/ Handle(w) \/ HandlerError(w) \/ Crash(w)
    PROVE  [OutboxNext]_outboxVars
<1>1. CASE Claim(w)
    BY <1>1 DEF Claim, OutboxNext
<1>2. CASE \/ DraftActivity(w) \/ GetRequest(w) \/ MarkProcessing(w)
           \/ CreateActivity(w) \/ RecordActivity(w) \/ SetTicketStatus(w)
           \/ CompleteRequest(w) \/ FailRequest(w) \/ HandlerError(w)
    BY <1>2 DEF DraftActivity, GetRequest, MarkProcessing, CreateActivity,
                RecordActivity, SetTicketStatus, CompleteRequest, FailRequest,
                HandlerError, KeepQueue
<1>3. CASE Complete(w) \/ Fail(w) \/ Crash(w)
    BY <1>3 DEF Complete, Fail, Crash, OutboxNext
<1> QED BY <1>1, <1>2, <1>3 DEF Handle

LEMMA SubmissionQueueStep ==
    ASSUME [Next]_vars
    PROVE  [OutboxNext]_outboxVars
<1>0. /\ NoRequest \in Steps \cup {NoStep} /\ Requests = Steps
      /\ {DraftKind, SubmissionKind} \subseteq EventKinds
    BY DEF NoRequest, Requests, EventKinds
<1>1. CASE BecomeReady
  <2>1. EnqueueEvent(DraftKind, NoRequest)
      BY <1>1 DEF BecomeReady, EnqueueEvent
  <2> QED BY <1>0, <2>1 DEF OutboxNext
<1>2. CASE ReopenRun \/ AbortRun \/ SaveDraft
    BY <1>2 DEF ReopenRun, AbortRun, SaveDraft, KeepQueue
<1>3. ASSUME NEW r \in Requests, QueueSubmission(r)
      PROVE  [OutboxNext]_outboxVars
  <2>1. CancelAndEnqueue(DraftKind, SubmissionKind, r)
      BY <1>3 DEF QueueSubmission, CancelAndEnqueue
  <2> QED BY <1>0, <2>1 DEF OutboxNext
<1>4. CASE TimePasses
    BY <1>4 DEF TimePasses, OutboxNext
<1>5. CASE UNCHANGED vars
    BY <1>5 DEF vars
<1> QED BY <1>1, <1>2, <1>3, <1>4, <1>5, HandlerQueueStep DEF Next, Technician

(* Every transaction of the drafting and submission of an activity changes  *)
(* the table only as the queue protocol allows.                             *)
THEOREM SubmissionImplementsOutbox == Spec => OutboxSpec
<1>1. Init => OutboxInit
    BY DEF Init
<1>2. [Next]_vars => [OutboxNext]_outboxVars
    BY SubmissionQueueStep
<1> QED BY <1>1, <1>2, PTL DEF Spec, OutboxSpec
-----------------------------------------------------------------------------
(* Types, and the rows behind the handlers.                                 *)

LEMMA RowsStep ==
    ASSUME SubmissionTypeOK, [Next]_vars
    PROVE  OutboxTypeOK' /\ KeepsRows(outbox, outbox')
BY SubmissionQueueStep, OutboxTypeStep, OutboxNextKeepsRows DEF SubmissionTypeOK

LEMMA HandlerTypeStep ==
    ASSUME SubmissionTypeOK, OutboxTypeOK', RowsCarryRequests, NEW w \in Workers,
           Claim(w) \/ Handle(w) \/ HandlerError(w) \/ Crash(w)
    PROVE  SubmissionTypeOK'
<1> USE DEF SubmissionTypeOK, Goto, Locations, KeepRows, rowVars, KeepPhoenix,
            phoenixVars
<1>1. CASE Claim(w) \/ GetRequest(w) \/ HandlerError(w) \/ Complete(w) \/ Crash(w)
    BY <1>1 DEF Claim, GetRequest, HandlerError, Complete, Crash
<1>2. CASE DraftActivity(w)
    BY <1>2 DEF DraftActivity
<1>3. CASE MarkProcessing(w) \/ RecordActivity(w) \/ CompleteRequest(w)
    BY <1>3 DEF MarkProcessing, RecordActivity, CompleteRequest, RequestStatus,
                RunStatus
<1>4. CASE CreateActivity(w)
    BY <1>4 DEF CreateActivity
<1>5. CASE SetTicketStatus(w)
    BY <1>5 DEF SetTicketStatus
<1>6. CASE FailRequest(w) \/ Fail(w)
    BY <1>6 DEF FailRequest, Fail, StatusAfterFailure, RequestStatus
<1> QED BY <1>1, <1>2, <1>3, <1>4, <1>5, <1>6 DEF Handle

LEMMA SubmissionTypeStep ==
    ASSUME SubmissionTypeOK, RowsCarryRequests, [Next]_vars
    PROVE  SubmissionTypeOK'
<1>0. OutboxTypeOK'
    BY RowsStep
<1> USE DEF SubmissionTypeOK, KeepRows, rowVars, KeepPhoenix, phoenixVars
<1>1. CASE BecomeReady \/ ReopenRun \/ AbortRun \/ SaveDraft
    BY <1>0, <1>1 DEF BecomeReady, ReopenRun, AbortRun, SaveDraft, RunStatus
<1>2. ASSUME NEW r \in Requests, QueueSubmission(r)
      PROVE  SubmissionTypeOK'
    BY <1>0, <1>2 DEF QueueSubmission, RequestStatus
<1>3. CASE TimePasses \/ UNCHANGED vars
    BY <1>0, <1>3 DEF TimePasses, vars
<1> QED BY <1>0, <1>1, <1>2, <1>3, HandlerTypeStep DEF Next, Technician

\* A step that enqueues nothing.
LEMMA UpdatedRows ==
    ASSUME SubmissionTypeOK, RowsCarryRequests,
           KeepsRows(outbox, outbox'), DOMAIN outbox' = DOMAIN outbox,
           NEW e \in DOMAIN outbox', outbox'[e].kind = SubmissionKind
    PROVE  outbox'[e].step \in Requests
BY DEF RowsCarryRequests, KeepsRows

LEMMA HandlerKeepsDomain ==
    ASSUME OutboxTypeOK, NEW w \in Workers,
           Claim(w) \/ Handle(w) \/ HandlerError(w) \/ Crash(w)
    PROVE  DOMAIN outbox' = DOMAIN outbox
<1>0. outbox \in Seq(Event)
    BY DEF OutboxTypeOK
<1>1. CASE Claim(w)
    BY <1>1, ClaimEventRows DEF Claim, Updates
<1>2. CASE Complete(w)
    BY <1>0, <1>2, HeldRow, CompletedRows DEF Complete, CompleteEvent, Updates
<1>3. CASE Fail(w)
    BY <1>0, <1>3, HeldRow, FailedRows DEF Fail, FailEvent, Updates
<1>4. CASE UNCHANGED outbox
    BY <1>4
<1> QED BY <1>1, <1>2, <1>3, <1>4
        DEF Handle, DraftActivity, GetRequest, MarkProcessing, CreateActivity,
            RecordActivity, SetTicketStatus, CompleteRequest, FailRequest,
            HandlerError, Crash, CrashWorker, KeepQueue, outboxVars

LEMMA RowsCarryStep ==
    ASSUME SubmissionTypeOK, RowsCarryRequests, [Next]_vars,
           NEW e \in DOMAIN outbox', outbox'[e].kind = SubmissionKind
    PROVE  outbox'[e].step \in Requests
<1>0. /\ OutboxTypeOK /\ outbox \in Seq(Event)
      /\ KeepsRows(outbox, outbox')
      /\ {DraftKind, SubmissionKind} \subseteq EventKinds
      /\ DraftKind # SubmissionKind
      /\ Requests = Steps /\ NoRequest = NoStep
    BY RowsStep DEF SubmissionTypeOK, OutboxTypeOK, EventKinds, DraftKind,
                    SubmissionKind, Requests, NoRequest
<1>1. CASE e \in DOMAIN outbox
    BY <1>0, <1>1 DEF KeepsRows, RowsCarryRequests
<1>2. CASE BecomeReady /\ e \notin DOMAIN outbox
  <2>1. outbox' = Enqueued(outbox, DraftKind, NoStep)
      BY <1>0, <1>2 DEF BecomeReady
  <2>2. outbox'[e].kind = DraftKind
      BY <1>0, <1>2, <2>1, EnqueuedRows
  <2> QED BY <1>0, <2>2
<1>3. ASSUME NEW r \in Requests, QueueSubmission(r), e \notin DOMAIN outbox
      PROVE  outbox'[e].step \in Requests
  <2>1. outbox' = Enqueued(Cancelled(outbox, DraftKind), SubmissionKind, r)
      BY <1>3 DEF QueueSubmission
  <2>2. r \in Steps \cup {NoStep}
      BY <1>0
  <2>3. outbox'[e].step = r
      BY <1>0, <1>3, <2>1, <2>2, CancelAndEnqueueRows
  <2> QED BY <2>3
<1>4. CASE TimePasses
  <2>1. PICK f \in DOMAIN outbox : outbox' = Aged(outbox, f)
      BY <1>4 DEF TimePasses, Age
  <2>2. DOMAIN outbox' = DOMAIN outbox
      BY <1>0, <2>1, AgedRows DEF Updates
  <2> QED BY <1>0, <2>2, UpdatedRows
<1>5. CASE UNCHANGED outbox
    BY <1>0, <1>5, UpdatedRows
<1>6. CASE \E w \in Workers : Claim(w) \/ Handle(w) \/ HandlerError(w) \/ Crash(w)
    BY <1>0, <1>6, HandlerKeepsDomain, UpdatedRows
<1> QED BY <1>1, <1>2, <1>3, <1>4, <1>5, <1>6
        DEF Next, Technician, ReopenRun, AbortRun, SaveDraft, KeepQueue,
            outboxVars, vars

\* A handler's step moves its own worker only, from a row it keeps or to none.
LEMMA HandlerMoves ==
    ASSUME SubmissionTypeOK, RowsCarryRequests, NEW w \in Workers,
           Claim(w) \/ Handle(w) \/ HandlerError(w) \/ Crash(w)
    PROVE  /\ \A v \in Workers : v # w => pc'[v] = pc[v] /\ job'[v] = job[v]
           /\ pc'[w] = "idle" \/ (job'[w] # 0 /\ (pc[w] = "idle" \/ job'[w] = job[w]))
           /\ pc'[w] \in Submitting => pc[w] # "idle" /\ Kind(w) = SubmissionKind
<1> USE DEF SubmissionTypeOK, OutboxTypeOK, Goto, Submitting, KeepQueue, outboxVars,
            RowsCarryRequests
<1>1. CASE Claim(w)
    BY <1>1, ClaimEventRows, FreeRow DEF Claim
<1>2. CASE DraftActivity(w) \/ GetRequest(w)
    BY <1>2 DEF DraftActivity, GetRequest
<1>3. CASE MarkProcessing(w) \/ CreateActivity(w) \/ RecordActivity(w)
    BY <1>3 DEF MarkProcessing, CreateActivity, RecordActivity
<1>4. CASE SetTicketStatus(w) \/ CompleteRequest(w) \/ FailRequest(w)
    BY <1>4 DEF SetTicketStatus, CompleteRequest, FailRequest
<1>5. CASE HandlerError(w)
    BY <1>5 DEF HandlerError
<1>6. CASE Complete(w) \/ Fail(w) \/ Crash(w)
    BY <1>6 DEF Complete, CompleteEvent, Fail, FailEvent, Crash, CrashWorker
<1> QED BY <1>1, <1>2, <1>3, <1>4, <1>5, <1>6 DEF Handle

LEMMA RowsCarryRequestsStep ==
    ASSUME SubmissionTypeOK, RowsCarryRequests, [Next]_vars
    PROVE  RowsCarryRequests'
<1>1. \A e \in DOMAIN outbox' :
          outbox'[e].kind = SubmissionKind => outbox'[e].step \in Requests
    BY RowsCarryStep
<1>2. ASSUME NEW v \in Workers, pc[v] # "idle", job'[v] = job[v]
      PROVE  outbox'[job'[v]].kind = outbox[job[v]].kind
    BY <1>2, RowsStep DEF KeepsRows, RowsCarryRequests, SubmissionTypeOK, OutboxTypeOK
<1>3. ASSUME NEW v \in Workers, pc'[v] = pc[v], job'[v] = job[v]
      PROVE  /\ pc'[v] # "idle" => job'[v] # 0
             /\ pc'[v] \in Submitting => outbox'[job'[v]].kind = SubmissionKind
    BY <1>2, <1>3 DEF RowsCarryRequests, Kind, Submitting
<1>4. ASSUME NEW w \in Workers,
             Claim(w) \/ Handle(w) \/ HandlerError(w) \/ Crash(w)
      PROVE  /\ pc'[w] # "idle" => job'[w] # 0
             /\ pc'[w] \in Submitting => outbox'[job'[w]].kind = SubmissionKind
    BY <1>2, <1>4, HandlerMoves DEF Kind, Submitting
<1>5. CASE UNCHANGED <<pc, job>>
    BY <1>1, <1>3, <1>5 DEF RowsCarryRequests, Kind
<1>6. CASE \E w \in Workers : Claim(w) \/ Handle(w) \/ HandlerError(w) \/ Crash(w)
  <2>1. PICK w \in Workers : Claim(w) \/ Handle(w) \/ HandlerError(w) \/ Crash(w)
      BY <1>6
  <2>2. \A v \in Workers : v # w => pc'[v] = pc[v] /\ job'[v] = job[v]
      BY <2>1, HandlerMoves
  <2>3. \A v \in Workers :
            /\ pc'[v] # "idle" => job'[v] # 0
            /\ pc'[v] \in Submitting => outbox'[job'[v]].kind = SubmissionKind
      BY <1>3, <1>4, <2>1, <2>2
  <2> QED BY <1>1, <2>3 DEF RowsCarryRequests, Kind
<1> QED BY <1>5, <1>6
        DEF Next, Technician, BecomeReady, ReopenRun, AbortRun, SaveDraft,
            QueueSubmission, TimePasses, Age, KeepQueue, outboxVars, vars
-----------------------------------------------------------------------------
(* What was done stays done.                                                *)

LEMMA HeldRequest ==
    ASSUME SubmissionTypeOK, RowsCarryRequests, NEW w \in Workers,
           pc[w] \in Submitting
    PROVE  RequestOf(w) \in Requests
BY DEF SubmissionTypeOK, OutboxTypeOK, RowsCarryRequests, Submitting, Kind, RequestOf

LEMMA SameRequest ==
    ASSUME SubmissionTypeOK, RowsCarryRequests, [Next]_vars, NEW w \in Workers,
           pc[w] # "idle", job'[w] = job[w]
    PROVE  RequestOf(w)' = RequestOf(w)
<1>1. job[w] \in DOMAIN outbox
    BY DEF SubmissionTypeOK, OutboxTypeOK, RowsCarryRequests
<1> QED BY <1>1, RowsStep DEF KeepsRows, RequestOf

LEMMA Monotone ==
    ASSUME SubmissionTypeOK, RowsCarryRequests, [Next]_vars
    PROVE  /\ \A r \in Requests : recorded[r] => recorded'[r]
           /\ \A r \in Requests : activities[r] > 0 => activities'[r] > 0
           /\ ticketDone => ticketDone'
<1> USE DEF SubmissionTypeOK, KeepRows, rowVars, KeepPhoenix, phoenixVars
<1>1. CASE Technician \/ BecomeReady \/ TimePasses \/ UNCHANGED vars
    BY <1>1 DEF Technician, BecomeReady, ReopenRun, AbortRun, SaveDraft,
                QueueSubmission, TimePasses, vars
<1>2. ASSUME NEW w \in Workers, CreateActivity(w)
      PROVE  /\ UNCHANGED <<recorded, ticketDone>>
             /\ \A r \in Requests : activities[r] > 0 => activities'[r] > 0
    BY <1>2 DEF CreateActivity
<1>3. ASSUME NEW w \in Workers, RecordActivity(w)
      PROVE  /\ UNCHANGED <<activities, ticketDone>>
             /\ \A r \in Requests : recorded[r] => recorded'[r]
    BY <1>3 DEF RecordActivity
<1>4. ASSUME NEW w \in Workers, SetTicketStatus(w)
      PROVE  UNCHANGED <<recorded, activities>> /\ (ticketDone => ticketDone')
  <2>1. UNCHANGED <<recorded, activities>>
      BY <1>4 DEF SetTicketStatus
  <2>2. ticketDone' = TRUE \/ ticketDone' = ticketDone
      BY <1>4 DEF SetTicketStatus
  <2> QED BY <2>1, <2>2
<1>5. ASSUME NEW w \in Workers,
             \/ Claim(w) \/ DraftActivity(w) \/ GetRequest(w) \/ MarkProcessing(w)
             \/ CompleteRequest(w) \/ FailRequest(w) \/ Complete(w) \/ Fail(w)
             \/ HandlerError(w) \/ Crash(w)
      PROVE  UNCHANGED <<recorded, activities, ticketDone>>
    BY <1>5 DEF Claim, DraftActivity, GetRequest, MarkProcessing, CompleteRequest,
                FailRequest, Complete, Fail, HandlerError, Crash
<1> QED BY <1>1, <1>2, <1>3, <1>4, <1>5 DEF Next, Handle

\* The worker that moves has done what its new location says.
LEMMA HandlerProgress ==
    ASSUME SubmissionTypeOK, RowsCarryRequests, Progress, NEW w \in Workers,
           Claim(w) \/ Handle(w) \/ HandlerError(w) \/ Crash(w)
    PROVE  /\ pc'[w] = "recording" => activities'[RequestOf(w)] > 0
           /\ pc'[w] \in {"patching", "completing"} => recorded'[RequestOf(w)]
           /\ pc'[w] = "completing" => ticketDone'
<1> USE DEF SubmissionTypeOK, Goto, Progress
<1>1. CASE \/ Claim(w) \/ DraftActivity(w) \/ GetRequest(w) \/ CompleteRequest(w)
           \/ FailRequest(w) \/ HandlerError(w) \/ Complete(w) \/ Fail(w) \/ Crash(w)
    BY <1>1 DEF Claim, DraftActivity, GetRequest, CompleteRequest, FailRequest,
                HandlerError, Complete, Fail, Crash
<1>2. CASE MarkProcessing(w)
    BY <1>2 DEF MarkProcessing
<1>3. CASE CreateActivity(w)
  <2>1. RequestOf(w) \in Requests
      BY <1>3, HeldRequest DEF CreateActivity, Submitting
  <2> QED BY <1>3, <2>1 DEF CreateActivity
<1>4. CASE RecordActivity(w)
  <2> DEFINE status == "activity_created"
  <2>1. RequestOf(w) \in Requests
      BY <1>4, HeldRequest DEF RecordActivity, Submitting
  <2> QED BY <1>4, <2>1 DEF RecordActivity
<1>5. CASE SetTicketStatus(w)
    BY <1>5 DEF SetTicketStatus, KeepRows, rowVars
<1> QED BY <1>1, <1>2, <1>3, <1>4, <1>5 DEF Handle

LEMMA RecordedExists ==
    ASSUME SubmissionTypeOK, RowsCarryRequests, Progress, [Next]_vars,
           NEW r \in Requests, recorded'[r]
    PROVE  activities'[r] > 0
<1>1. CASE recorded[r]
    BY <1>1, Monotone DEF Progress
<1>2. CASE \E w \in Workers : RecordActivity(w)
  <2>1. PICK w \in Workers : RecordActivity(w)
      BY <1>2
  <2>2. /\ activities[RequestOf(w)] > 0
        /\ recorded' = [recorded EXCEPT ![RequestOf(w)] = TRUE]
      BY <2>1 DEF RecordActivity, Progress
  <2>3. recorded[r] \/ r = RequestOf(w)
      BY <2>2 DEF SubmissionTypeOK
  <2> QED BY <2>2, <2>3, Monotone DEF Progress
<1>3. CASE UNCHANGED recorded
    BY <1>1, <1>3
<1> QED BY <1>2, <1>3
        DEF Next, vars, rowVars, Technician, BecomeReady, ReopenRun, AbortRun,
            SaveDraft, QueueSubmission, TimePasses, Claim, Handle, DraftActivity,
            GetRequest, MarkProcessing, CreateActivity, SetTicketStatus,
            CompleteRequest, FailRequest, Complete, Fail, HandlerError, Crash,
            KeepRows

LEMMA ProgressStep ==
    ASSUME SubmissionTypeOK, RowsCarryRequests, Progress, [Next]_vars
    PROVE  Progress'
<1> DEFINE Done(v) == /\ pc[v] = "recording" => activities[RequestOf(v)] > 0
                      /\ pc[v] \in {"patching", "completing"} => recorded[RequestOf(v)]
                      /\ pc[v] = "completing" => ticketDone
<1>1. \A r \in Requests : recorded'[r] => activities'[r] > 0
    BY RecordedExists
<1>2. ASSUME NEW v \in Workers, pc'[v] = pc[v], job'[v] = job[v]
      PROVE  Done(v)'
  <2>1. CASE pc[v] \in {"recording", "patching", "completing"}
    <3>1. RequestOf(v) \in Requests /\ RequestOf(v)' = RequestOf(v)
        BY <1>2, <2>1, HeldRequest, SameRequest DEF Submitting
    <3> QED BY <1>2, <3>1, Monotone DEF Progress
  <2>2. CASE pc[v] \notin {"recording", "patching", "completing"}
      BY <1>2, <2>2
  <2> QED BY <2>1, <2>2
<1>3. ASSUME NEW w \in Workers,
             Claim(w) \/ Handle(w) \/ HandlerError(w) \/ Crash(w)
      PROVE  Done(w)'
  <2>1. CASE pc'[w] \in {"recording", "patching", "completing"}
    <3>1. pc[w] # "idle" /\ job'[w] = job[w]
        BY <1>3, <2>1, HandlerMoves DEF Submitting
    <3>2. RequestOf(w)' = RequestOf(w)
        BY <3>1, SameRequest
    <3> QED BY <1>3, <3>2, HandlerProgress
  <2>2. CASE pc'[w] \notin {"recording", "patching", "completing"}
      BY <2>2
  <2> QED BY <2>1, <2>2
<1> HIDE DEF Done
<1>4. CASE UNCHANGED <<pc, job>>
  <2>1. \A v \in Workers : Done(v)'
      BY <1>2, <1>4
  <2> QED BY <1>1, <2>1 DEF Progress, Done
<1>5. CASE \E w \in Workers : Claim(w) \/ Handle(w) \/ HandlerError(w) \/ Crash(w)
  <2>1. PICK w \in Workers : Claim(w) \/ Handle(w) \/ HandlerError(w) \/ Crash(w)
      BY <1>5
  <2>2. \A v \in Workers : v # w => pc'[v] = pc[v] /\ job'[v] = job[v]
      BY <2>1, HandlerMoves
  <2>3. \A v \in Workers : Done(v)'
      BY <1>2, <1>3, <2>1, <2>2
  <2> QED BY <1>1, <2>3 DEF Progress, Done
<1> QED BY <1>4, <1>5
        DEF Next, Technician, BecomeReady, ReopenRun, AbortRun, SaveDraft,
            QueueSubmission, TimePasses, Age, KeepQueue, outboxVars, vars

LEMMA SubmittedStep ==
    ASSUME SubmissionTypeOK, RowsCarryRequests, Progress, SubmittedIsReal, [Next]_vars
    PROVE  SubmittedIsReal'
<1>1. CASE \E w \in Workers : CompleteRequest(w)
  <2>1. PICK w \in Workers : CompleteRequest(w)
      BY <1>1
  <2>2. /\ RequestOf(w) \in Requests
        /\ ticketDone /\ recorded[RequestOf(w)]
      BY <2>1, HeldRequest DEF CompleteRequest, Progress, Submitting
  <2>3. activities[RequestOf(w)] > 0
      BY <2>2 DEF Progress
  <2> QED BY <2>2, <2>3, Monotone DEF SubmittedIsReal
<1>2. CASE runStatus' = "submitted" => runStatus = "submitted"
    BY <1>2, Monotone DEF SubmittedIsReal
<1> QED BY <1>1, <1>2
        DEF Next, vars, rowVars, Technician, BecomeReady, ReopenRun, AbortRun,
            SaveDraft, QueueSubmission, TimePasses, Claim, Handle, DraftActivity,
            GetRequest, MarkProcessing, CreateActivity, RecordActivity,
            SetTicketStatus, FailRequest, Complete, Fail, HandlerError, Crash,
            KeepRows

LEMMA InitSubmission ==
    ASSUME Init
    PROVE  SubmissionTypeOK /\ RowsCarryRequests /\ Progress /\ SubmittedIsReal
<1>1. OutboxTypeOK
    BY EmptySeq DEF Init, OutboxInit, OutboxTypeOK
<1>2. SubmissionTypeOK
    BY <1>1 DEF Init, SubmissionTypeOK, RunStatus, RequestStatus, Locations
<1>3. RowsCarryRequests
    BY EmptySeq DEF Init, OutboxInit, RowsCarryRequests, Submitting
<1>4. Progress /\ SubmittedIsReal
    BY DEF Init, Progress, SubmittedIsReal
<1> QED BY <1>2, <1>3, <1>4

(* Every variable of the submission keeps its type.                         *)
THEOREM SubmissionTypeCorrect == Spec => []SubmissionTypeOK
<1> DEFINE Inv == SubmissionTypeOK /\ RowsCarryRequests
<1>1. Init => Inv
    BY InitSubmission
<1>2. Inv /\ [Next]_vars => Inv'
    BY SubmissionTypeStep, RowsCarryRequestsStep
<1> QED BY <1>1, <1>2, PTL DEF Spec

(* A run is shown as submitted only when the ticket is DONE and the recorded *)
(* activity exists, however the workers' writes to the database and to      *)
(* Phoenix interleave with crashes, retries and stale claims.               *)
THEOREM SubmittedIsRealCorrect == Spec => []SubmittedIsReal
<1> DEFINE Inv == /\ SubmissionTypeOK /\ RowsCarryRequests
                  /\ Progress /\ SubmittedIsReal
<1>1. Init => Inv
    BY InitSubmission
<1>2. Inv /\ [Next]_vars => Inv'
    BY SubmissionTypeStep, RowsCarryRequestsStep, ProgressStep, SubmittedStep
<1> QED BY <1>1, <1>2, PTL DEF Spec
-----------------------------------------------------------------------------
(* One worker process: the queue below it is a task queue.                  *)

(* The drafting and submission of activities by one worker process keep the *)
(* promises of TaskQueue: no finished submission row is worked on again.    *)
THEOREM SubmissionImplementsTaskQueue == OneWorker => (Spec => ImplementsTaskQueue)
BY SubmissionImplementsOutbox, OutboxImplementsTaskQueue

\* The requests a further submission has to wait for, and the rows that carry
\* a request.
Active(r) == request[r] \notin {"none", "dead_letter"}
Carries(e, r) == outbox[e].kind = SubmissionKind /\ outbox[e].step = r
Live(e) == outbox[e].status \in {"pending", "processing", "failed"}

\* Requests and rows agree: a request has one row, which is live while the
\* request has to be worked on, and what is live belongs to the only active
\* request.
RequestsFollowRows ==
    /\ \A q, r \in Requests : Active(q) /\ Active(r) => q = r
    /\ \A r \in Requests : request[r] = "completed" => runStatus = "submitted"
    /\ \A r \in Requests : \A e, f \in DOMAIN outbox :
          Carries(e, r) /\ Carries(f, r) => e = f
    /\ \A r \in Requests : \A e \in DOMAIN outbox :
          Carries(e, r) => request[r] # "none" /\ (Live(e) => Active(r))
    /\ \A r \in Requests :
          Active(r) => \/ request[r] = "completed"
                       \/ \E e \in DOMAIN outbox : Carries(e, r) /\ Live(e)

\* A submission row is completed only after its request.
DoneRequestIsCompleted ==
    \A w \in Workers :
        pc[w] = "done" /\ Kind(w) = SubmissionKind
            => request[RequestOf(w)] = "completed"

\* The rows stay what they were to their observers.
RowsAlike ==
    /\ DOMAIN outbox' = DOMAIN outbox
    /\ \A e \in DOMAIN outbox :
          /\ outbox'[e].kind = outbox[e].kind
          /\ outbox'[e].step = outbox[e].step
          /\ Live(e)' <=> Live(e)

LEMMA AlikeStep ==
    ASSUME RequestsFollowRows, RowsAlike,
           \A r \in Requests :
               /\ request'[r] = "none" <=> request[r] = "none"
               /\ Active(r)' <=> Active(r)
               /\ request'[r] = "completed" => runStatus' = "submitted"
               /\ request[r] = "completed" /\ request'[r] # "completed" =>
                     \E e \in DOMAIN outbox : Carries(e, r) /\ Live(e)
    PROVE  RequestsFollowRows'
<1>1. \A r \in Requests : \A e \in DOMAIN outbox : Carries(e, r)' <=> Carries(e, r)
    BY DEF RowsAlike, Carries
<1>2. DOMAIN outbox' = DOMAIN outbox /\ \A e \in DOMAIN outbox : Live(e)' <=> Live(e)
    BY DEF RowsAlike
<1>3. \A q, r \in Requests : Active(q)' /\ Active(r)' => q = r
    BY DEF RequestsFollowRows
<1>4. \A r \in Requests : \A e, f \in DOMAIN outbox' :
          Carries(e, r)' /\ Carries(f, r)' => e = f
    BY <1>1, <1>2 DEF RequestsFollowRows
<1>5. \A r \in Requests : \A e \in DOMAIN outbox' :
          Carries(e, r)' => request'[r] # "none" /\ (Live(e)' => Active(r)')
    BY <1>1, <1>2 DEF RequestsFollowRows
<1>6. ASSUME NEW r \in Requests, Active(r)'
      PROVE  \/ request'[r] = "completed"
             \/ \E e \in DOMAIN outbox' : Carries(e, r)' /\ Live(e)'
  <2>1. Active(r)
      BY <1>6
  <2>2. \/ request'[r] = "completed"
        \/ \E e \in DOMAIN outbox : Carries(e, r) /\ Live(e)
      BY <2>1 DEF RequestsFollowRows
  <2> QED BY <1>1, <1>2, <2>2
<1> HIDE DEF Active, Carries, Live
<1> QED BY <1>3, <1>4, <1>5, <1>6 DEF RequestsFollowRows
\* The technician's transactions, and the passing of time.
LEMMA TechnicianKeepsRequests ==
    ASSUME SubmissionTypeOK, RowsCarryRequests, RequestsFollowRows,
           ReopenRun \/ AbortRun \/ SaveDraft \/ TimePasses
    PROVE  RequestsFollowRows'
<1>1. UNCHANGED request /\ (runStatus = "submitted" => runStatus' = "submitted")
    BY DEF ReopenRun, AbortRun, SaveDraft, TimePasses, KeepRows, rowVars
<1>2. CASE UNCHANGED outbox
  <2>1. RowsAlike
      BY <1>2 DEF RowsAlike, Live
  <2> QED BY <1>1, <2>1, AlikeStep DEF RequestsFollowRows, Active
<1>3. ASSUME NEW e \in DOMAIN outbox, Age(e)
      PROVE  RequestsFollowRows'
  <2>1. RowsAlike
      BY <1>3, AgedRow, AgedRows
         DEF RowsAlike, Live, Age, Updates, KeepsRows, SubmissionTypeOK, OutboxTypeOK
  <2> QED BY <1>1, <2>1, AlikeStep DEF RequestsFollowRows, Active
<1> QED BY <1>2, <1>3 DEF ReopenRun, AbortRun, SaveDraft, TimePasses, KeepQueue, outboxVars

\* A new row that carries no request.
LEMMA BecomeReadyKeepsRequests ==
    ASSUME SubmissionTypeOK, RowsCarryRequests, RequestsFollowRows, BecomeReady
    PROVE  RequestsFollowRows'
<1>1. /\ outbox \in Seq(Event)
      /\ outbox' = Enqueued(outbox, DraftKind, NoStep)
      /\ DraftKind \in EventKinds /\ DraftKind # SubmissionKind
    BY DEF BecomeReady, SubmissionTypeOK, OutboxTypeOK, NoRequest, EventKinds,
           DraftKind, SubmissionKind
<1>2. /\ \A e \in DOMAIN outbox : e \in DOMAIN outbox' /\ outbox'[e] = outbox[e]
      /\ \A e \in DOMAIN outbox' \ DOMAIN outbox : outbox'[e].kind = DraftKind
    BY <1>1, EnqueuedRow, EnqueuedRows
<1>3. /\ UNCHANGED request
      /\ \A r \in Requests : request[r] # "completed"
    BY DEF BecomeReady, RequestsFollowRows
<1>4. \A e \in DOMAIN outbox' : \A r :
         Carries(e, r)' => /\ e \in DOMAIN outbox
                           /\ Carries(e, r) /\ (Live(e)' <=> Live(e))
    BY <1>1, <1>2 DEF Carries, Live
<1>5. \A e \in DOMAIN outbox : \A r :
         Carries(e, r) /\ Live(e) => e \in DOMAIN outbox' /\ Carries(e, r)' /\ Live(e)'
    BY <1>2 DEF Carries, Live
<1>6. \A r : Active(r)' <=> Active(r)
    BY <1>3 DEF Active
<1> HIDE DEF Active, Carries, Live
<1> QED BY <1>3, <1>4, <1>5, <1>6 DEF RequestsFollowRows

\* The request that is queued was not used, and no other one is active.
LEMMA QueueSubmissionKeepsRequests ==
    ASSUME SubmissionTypeOK, RowsCarryRequests, RequestsFollowRows,
           NEW r \in Requests, QueueSubmission(r)
    PROVE  RequestsFollowRows'
<1> DEFINE q == Cancelled(outbox, DraftKind)
<1>1. /\ outbox \in Seq(Event) /\ r \in Steps
      /\ outbox' = Enqueued(q, SubmissionKind, r)
      /\ SubmissionKind \in EventKinds /\ DraftKind # SubmissionKind
    BY DEF QueueSubmission, SubmissionTypeOK, OutboxTypeOK, Requests, EventKinds,
           DraftKind, SubmissionKind
<1>2. Updates(outbox, q)
    BY <1>1, CancelledRows
<1>3. \A e \in DOMAIN outbox : outbox[e].kind = SubmissionKind => q[e] = outbox[e]
    BY <1>1 DEF Cancelled
<1> HIDE DEF q
<1>4. /\ \A e \in DOMAIN q : e \in DOMAIN outbox' /\ outbox'[e] = q[e]
      /\ \A e, f \in DOMAIN outbox' \ DOMAIN q : e = f
      /\ \A e \in DOMAIN outbox' \ DOMAIN q :
            /\ outbox'[e].kind = SubmissionKind /\ outbox'[e].step = r
            /\ outbox'[e].status = "pending"
      /\ DOMAIN outbox' \ DOMAIN q # {}
    BY <1>1, <1>2, EnqueuedRow, EnqueuedRows, EnqueuedOne DEF Updates
<1>5. DOMAIN q = DOMAIN outbox
    BY <1>2 DEF Updates
<1>6. \A e \in DOMAIN outbox : \A p :
         /\ e \in DOMAIN outbox'
         /\ Carries(e, p)' <=> Carries(e, p)
         /\ Carries(e, p) => (Live(e)' <=> Live(e))
    BY <1>2, <1>3, <1>4, <1>5 DEF Carries, Live, Updates, KeepsRows
<1>7. \A e \in DOMAIN outbox' \ DOMAIN outbox :
         Live(e)' /\ \A p : Carries(e, p)' <=> p = r
    BY <1>4, <1>5 DEF Carries, Live
<1>8. /\ request[r] = "none" /\ request' = [request EXCEPT ![r] = "pending"]
      /\ request \in [Requests -> RequestStatus]
    BY DEF QueueSubmission, SubmissionTypeOK
<1>9. \A p \in Requests : ~Active(p)
    BY <1>8 DEF QueueSubmission, RequestsFollowRows, Active, Open, RequestStatus
<1>10. \A p \in Requests : /\ Active(p)' <=> p = r
                           /\ request'[p] # "completed"
                           /\ request[p] # "none" => request'[p] # "none"
    BY <1>8, <1>9 DEF Active
<1>11. request'[r] # "none"
    BY <1>8
<1>12. \A e \in DOMAIN outbox : ~Carries(e, r)
    BY <1>8 DEF RequestsFollowRows
<1> HIDE DEF Active, Carries, Live
<1>13. \A p \in Requests : \A e, f \in DOMAIN outbox' :
           Carries(e, p)' /\ Carries(f, p)' => e = f
    BY <1>4, <1>5, <1>6, <1>7, <1>12 DEF RequestsFollowRows
<1>14. \A p \in Requests : \A e \in DOMAIN outbox' :
          Carries(e, p)' => request'[p] # "none" /\ (Live(e)' => Active(p)')
  <2> SUFFICES ASSUME NEW p \in Requests, NEW e \in DOMAIN outbox', Carries(e, p)'
               PROVE  request'[p] # "none" /\ (Live(e)' => Active(p)')
      OBVIOUS
  <2>1. CASE e \in DOMAIN outbox
      BY <1>6, <1>9, <1>10, <2>1 DEF RequestsFollowRows
  <2>2. CASE e \notin DOMAIN outbox
      BY <1>7, <1>10, <1>11, <2>2
  <2> QED BY <2>1, <2>2
<1>15. \E e \in DOMAIN outbox' : Carries(e, r)' /\ Live(e)'
    BY <1>4, <1>5, <1>7
<1> QED BY <1>10, <1>13, <1>14, <1>15 DEF RequestsFollowRows
\* What a submitting worker holds is live, so its request is active.
LEMMA HeldIsActive ==
    ASSUME SubmissionTypeOK, RowsCarryRequests, QueueInv, RequestsFollowRows,
           NEW w \in Workers, pc[w] # "idle"
    PROVE  /\ job[w] \in DOMAIN outbox /\ Live(job[w])
           /\ Kind(w) = SubmissionKind =>
                 /\ RequestOf(w) \in Requests
                 /\ Carries(job[w], RequestOf(w))
                 /\ Active(RequestOf(w))
<1>1. job[w] # 0 /\ job[w] \in DOMAIN outbox
    BY HeldRow DEF RowsCarryRequests, QueueInv
<1>2. Live(job[w])
    BY <1>1 DEF QueueInv, HeldRowIsProcessing, Live
<1>3. ASSUME Kind(w) = SubmissionKind
      PROVE  RequestOf(w) \in Requests /\ Carries(job[w], RequestOf(w))
    BY <1>1, <1>3 DEF RowsCarryRequests, Kind, RequestOf, Carries
<1> QED BY <1>1, <1>2, <1>3 DEF RequestsFollowRows

\* A handler gives the request it holds another status that is active.
LEMMA ActiveMove ==
    ASSUME SubmissionTypeOK, RowsCarryRequests, QueueInv, RequestsFollowRows,
           NEW w \in Workers, pc[w] \in Submitting, UNCHANGED outbox,
           NEW status, request' = [request EXCEPT ![RequestOf(w)] = status],
           status \notin {"none", "dead_letter"},
           status = "completed" => runStatus' = "submitted",
           runStatus = "submitted" => runStatus' = "submitted"
    PROVE  RequestsFollowRows'
<1>1. pc[w] # "idle" /\ Kind(w) = SubmissionKind
    BY DEF Submitting, RowsCarryRequests
<1> DEFINE h == RequestOf(w)
<1>2. /\ h \in Requests /\ Active(h)
      /\ Carries(job[w], h) /\ Live(job[w]) /\ job[w] \in DOMAIN outbox
    BY <1>1, HeldIsActive
<1>3. RowsAlike
    BY DEF RowsAlike, Live
<1> HIDE DEF h
<1>4. request' = [request EXCEPT ![h] = status] /\ request \in [Requests -> RequestStatus]
    BY DEF h, SubmissionTypeOK
<1>5. \A r \in Requests :
         /\ request'[r] = "none" <=> request[r] = "none"
         /\ Active(r)' <=> Active(r)
         /\ request'[r] = "completed" => runStatus' = "submitted"
    BY <1>2, <1>4 DEF Active, RequestsFollowRows
<1>6. \A r \in Requests :
         request[r] = "completed" /\ request'[r] # "completed" =>
                     \E e \in DOMAIN outbox : Carries(e, r) /\ Live(e)
  <2> SUFFICES ASSUME NEW r \in Requests, request[r] = "completed", request'[r] # "completed"
               PROVE  Carries(job[w], r) /\ Live(job[w])
      BY <1>2
  <2>1. r = h
      BY <1>4
  <2> QED BY <1>2, <2>1
<1> QED BY <1>3, <1>5, <1>6, AlikeStep

\* The steps of a handler before it ends its row.
LEMMA HandlerKeepsRequests ==
    ASSUME SubmissionTypeOK, RowsCarryRequests, QueueInv, RequestsFollowRows,
           NEW w \in Workers,
           \/ Claim(w) \/ DraftActivity(w) \/ GetRequest(w) \/ MarkProcessing(w)
           \/ CreateActivity(w) \/ RecordActivity(w) \/ SetTicketStatus(w)
           \/ CompleteRequest(w) \/ FailRequest(w) \/ HandlerError(w) \/ Crash(w)
    PROVE  RequestsFollowRows'
<1> USE DEF KeepRows, rowVars, KeepQueue, outboxVars
<1>1. CASE Claim(w)
  <2>1. /\ UNCHANGED <<request, runStatus>>
        /\ ClaimEvent(w) /\ OutboxTypeOK
      BY <1>1 DEF Claim, SubmissionTypeOK
  <2>2. /\ DOMAIN outbox' = DOMAIN outbox
        /\ \A e \in DOMAIN outbox : /\ TaskOf(outbox'[e]) = TaskOf(outbox[e])
                                    /\ outbox'[e].kind = outbox[e].kind
                                    /\ outbox'[e].step = outbox[e].step
                                    /\ outbox[e].status \in EventStatus
                                    /\ outbox'[e].status \in EventStatus
    <3>1. /\ Updates(outbox, outbox') /\ outbox \in Seq(Event)
          /\ outbox' \in Seq(Event) /\ DOMAIN outbox' = DOMAIN outbox
        BY <2>1, ClaimEventRows DEF Updates, OutboxTypeOK
    <3>2. \A e \in DOMAIN outbox : /\ outbox[e].status \in EventStatus
                                   /\ outbox'[e].status \in EventStatus
        BY <3>1, RowType
    <3> QED BY <2>1, <3>1, <3>2, ClaimTasks DEF Updates, KeepsRows
  <2>3. RowsAlike
      BY <2>2 DEF RowsAlike, Live, TaskOf, EventStatus
  <2> QED BY <2>1, <2>3, AlikeStep DEF RequestsFollowRows, Active
<1>2. CASE \/ DraftActivity(w) \/ GetRequest(w) \/ CreateActivity(w)
           \/ SetTicketStatus(w) \/ HandlerError(w) \/ Crash(w)
  <2>1. UNCHANGED <<request, runStatus, outbox>>
      BY <1>2 DEF DraftActivity, GetRequest, CreateActivity, SetTicketStatus,
                  HandlerError, Crash, CrashWorker
  <2>2. RowsAlike
      BY <2>1 DEF RowsAlike, Live
  <2> QED BY <2>1, <2>2, AlikeStep DEF RequestsFollowRows, Active
<1>3. CASE MarkProcessing(w)
  <2> DEFINE old == request[RequestOf(w)]
             status == IF old = "completed" THEN old ELSE "processing"
  <2>1. /\ pc[w] \in Submitting /\ UNCHANGED <<outbox, runStatus>>
        /\ request' = [request EXCEPT ![RequestOf(w)] = status]
      BY <1>3 DEF MarkProcessing, Submitting
  <2>2. RequestOf(w) \in Requests
      BY <2>1, HeldRequest
  <2>3. status = "completed" => runStatus = "submitted"
      BY <2>2 DEF RequestsFollowRows
  <2>4. status \notin {"none", "dead_letter"}
      OBVIOUS
  <2> HIDE DEF status
  <2> QED BY <2>1, <2>3, <2>4, ActiveMove
<1>4. CASE RecordActivity(w)
  <2> DEFINE status == "activity_created"
  <2>1. /\ pc[w] \in Submitting /\ UNCHANGED <<outbox, runStatus>>
        /\ request' = [request EXCEPT ![RequestOf(w)] = status]
      BY <1>4 DEF RecordActivity, Submitting
  <2>2. status \notin {"none", "dead_letter", "completed"}
      OBVIOUS
  <2> HIDE DEF status
  <2> QED BY <2>1, <2>2, ActiveMove
<1>5. CASE CompleteRequest(w)
  <2> DEFINE status == "completed"
  <2>1. /\ pc[w] \in Submitting /\ UNCHANGED outbox /\ runStatus' = "submitted"
        /\ request' = [request EXCEPT ![RequestOf(w)] = status]
      BY <1>5 DEF CompleteRequest, Submitting
  <2>2. status \notin {"none", "dead_letter"}
      OBVIOUS
  <2> HIDE DEF status
  <2> QED BY <2>1, <2>2, ActiveMove
<1>6. CASE FailRequest(w)
  <2> DEFINE old == request[RequestOf(w)]
             status == IF old = "activity_created" THEN old ELSE "failed"
  <2>1. /\ pc[w] \in Submitting /\ UNCHANGED <<outbox, runStatus>>
        /\ request' = [request EXCEPT ![RequestOf(w)] = status]
      BY <1>6 DEF FailRequest, Submitting, StatusAfterFailure
  <2>2. status \notin {"none", "dead_letter", "completed"}
      OBVIOUS
  <2> HIDE DEF status
  <2> QED BY <2>1, <2>2, ActiveMove
<1> QED BY <1>1, <1>2, <1>3, <1>4, <1>5, <1>6
\* A row ends whose request, if it carries one, is completed or becomes dead.
LEMMA EndKeepsRequests ==
    ASSUME SubmissionTypeOK, RowsCarryRequests, QueueInv, RequestsFollowRows,
           NEW w \in Workers, pc[w] # "idle",
           KeepsRows(outbox, outbox'), DOMAIN outbox' = DOMAIN outbox,
           NEW h, h = job[w], ~Live(h)',
           \A e \in DOMAIN outbox : e # h => outbox'[e] = outbox[e],
           UNCHANGED runStatus,
           \A r \in Requests :
               \/ /\ Kind(w) = SubmissionKind /\ RequestOf(w) = r
                  /\ \/ request'[r] = "dead_letter"
                     \/ request[r] = "completed" /\ request'[r] = "completed"
               \/ /\ ~(Kind(w) = SubmissionKind /\ RequestOf(w) = r)
                  /\ request'[r] = request[r]
    PROVE  RequestsFollowRows'
<1>1. h \in DOMAIN outbox
    BY HeldIsActive
<1>2. \A r : Carries(h, r) <=> Kind(w) = SubmissionKind /\ RequestOf(w) = r
    BY DEF Carries, Kind, RequestOf
<1>3. Kind(w) = SubmissionKind => RequestOf(w) \in Requests /\ Active(RequestOf(w))
    BY HeldIsActive
<1>4. \A r : \A e \in DOMAIN outbox : Carries(e, r)' <=> Carries(e, r)
    BY DEF KeepsRows, Carries
<1>5. \A e \in DOMAIN outbox : e # h => (Live(e)' <=> Live(e))
    BY DEF Live
<1>6. \A r \in Requests : /\ Active(r)' => Active(r)
                          /\ request'[r] = "completed" => request[r] = "completed"
                          /\ request[r] # "none" => request'[r] # "none"
    BY <1>3 DEF Active
<1>7. \A r \in Requests : ~Carries(h, r) => request'[r] = request[r]
    BY <1>2
<1>8. \A r \in Requests :
         Carries(h, r) => request'[r] = "completed" \/ ~Active(r)'
    BY <1>2 DEF Active
<1>9. \A r \in Requests : ~Carries(h, r) => (Active(r)' <=> Active(r))
    BY <1>7 DEF Active
<1> HIDE DEF Active, Carries, Live
<1>10. \A r \in Requests : \A e \in DOMAIN outbox' :
          Carries(e, r)' => request'[r] # "none" /\ (Live(e)' => Active(r)')
  <2> SUFFICES ASSUME NEW r \in Requests, NEW e \in DOMAIN outbox, Carries(e, r)
               PROVE  request'[r] # "none" /\ (Live(e)' => Active(r)')
      BY <1>4
  <2>1. request'[r] # "none"
      BY <1>6 DEF RequestsFollowRows
  <2>2. CASE e = h
      BY <2>1, <2>2
  <2>3. CASE e # h
    <3>1. ~Carries(h, r)
        BY <1>1, <2>3 DEF RequestsFollowRows
    <3>2. Live(e)' => Active(r)
        BY <1>5, <2>3 DEF RequestsFollowRows
    <3> QED BY <1>9, <2>1, <3>1, <3>2
  <2> QED BY <2>2, <2>3
<1>11. \A r \in Requests :
          Active(r)' => \/ request'[r] = "completed"
                        \/ \E e \in DOMAIN outbox' : Carries(e, r)' /\ Live(e)'
  <2> SUFFICES ASSUME NEW r \in Requests, Active(r)', request'[r] # "completed"
               PROVE  \E e \in DOMAIN outbox : Carries(e, r)' /\ Live(e)'
      OBVIOUS
  <2>1. ~Carries(h, r)
      BY <1>8
  <2>2. Active(r) /\ request[r] # "completed"
      BY <1>6, <1>7, <2>1
  <2>3. PICK e \in DOMAIN outbox : Carries(e, r) /\ Live(e)
      BY <2>2 DEF RequestsFollowRows
  <2>4. e # h
      BY <2>1, <2>3
  <2> QED BY <1>4, <1>5, <2>3, <2>4
<1>12. \A q, r \in Requests : Active(q)' /\ Active(r)' => q = r
    BY <1>6 DEF RequestsFollowRows
<1>13. \A r \in Requests : request'[r] = "completed" => runStatus' = "submitted"
    BY <1>6 DEF RequestsFollowRows
<1>14. \A r \in Requests : \A e, f \in DOMAIN outbox' :
          Carries(e, r)' /\ Carries(f, r)' => e = f
    BY <1>4 DEF RequestsFollowRows
<1> QED BY <1>10, <1>11, <1>12, <1>13, <1>14 DEF RequestsFollowRows

LEMMA CompleteKeepsRequests ==
    ASSUME SubmissionTypeOK, RowsCarryRequests, QueueInv, RequestsFollowRows,
           DoneRequestIsCompleted, NEW w \in Workers, Complete(w)
    PROVE  RequestsFollowRows'
<1> DEFINE h == job[w]
<1>1. /\ pc[w] = "done" /\ outbox' = Completed(outbox, h)
      /\ UNCHANGED <<request, runStatus>>
    BY DEF Complete, CompleteEvent, KeepRows, rowVars
<1>2. h \in DOMAIN outbox /\ outbox \in Seq(Event)
    BY <1>1, HeldIsActive DEF SubmissionTypeOK, OutboxTypeOK
<1>3. /\ KeepsRows(outbox, outbox') /\ DOMAIN outbox' = DOMAIN outbox
      /\ outbox'[h].status = "completed"
      /\ \A e \in DOMAIN outbox : e # h => outbox'[e] = outbox[e]
    BY <1>1, <1>2, CompletedRow, CompletedRows DEF Updates
<1>4. h = job[w]
    OBVIOUS
<1>5. \A r \in Requests :
         \/ /\ Kind(w) = SubmissionKind /\ RequestOf(w) = r
            /\ \/ request'[r] = "dead_letter"
               \/ request[r] = "completed" /\ request'[r] = "completed"
         \/ /\ ~(Kind(w) = SubmissionKind /\ RequestOf(w) = r)
            /\ request'[r] = request[r]
    BY <1>1 DEF DoneRequestIsCompleted
<1>6. ASSUME NEW e, e = h
      PROVE  ~Live(e)'
    BY <1>3, <1>6 DEF Live
<1>7. PICK e : e = h
    OBVIOUS
<1> HIDE DEF h
<1>8. ~Live(e)' /\ e = job[w]
    BY <1>4, <1>6, <1>7
<1>9. \A f \in DOMAIN outbox : f # e => outbox'[f] = outbox[f]
    BY <1>3, <1>7
<1> QED BY <1>1, <1>3, <1>5, <1>8, <1>9, EndKeepsRequests
LEMMA FailKeepsRequests ==
    ASSUME SubmissionTypeOK, RowsCarryRequests, QueueInv, RequestsFollowRows,
           NEW w \in Workers, Fail(w)
    PROVE  RequestsFollowRows'
<1>0. PICK h : h = job[w]
    OBVIOUS
<1>1. /\ pc[w] # "idle" /\ outbox' = Failed(outbox, h)
      /\ UNCHANGED runStatus
    BY <1>0 DEF Fail, FailEvent
<1>2. h \in DOMAIN outbox /\ outbox \in Seq(Event)
    BY <1>0, <1>1, HeldIsActive DEF SubmissionTypeOK, OutboxTypeOK
<1>3. /\ KeepsRows(outbox, outbox') /\ DOMAIN outbox' = DOMAIN outbox
      /\ outbox'[h].status \in {"failed", "dead_letter"}
      /\ \A e \in DOMAIN outbox : e # h => outbox'[e] = outbox[e]
    BY <1>1, <1>2, FailedRow, FailedRows DEF Updates
<1> DEFINE r == RequestOf(w)
           old == request[r]
           terminal == outbox'[h].status = "dead_letter"
<1>4. request' = IF Kind(w) = SubmissionKind
                 THEN [request EXCEPT ![r] = StatusAfterFailure(old, terminal)]
                 ELSE request
    BY <1>0 DEF Fail
<1>5. request \in [Requests -> RequestStatus]
    BY DEF SubmissionTypeOK
<1>6. /\ Live(h)
      /\ Kind(w) = SubmissionKind =>
            r \in Requests /\ Carries(h, r) /\ Active(r)
    BY <1>0, <1>1, HeldIsActive
<1> HIDE DEF r
<1>7. CASE terminal
  <2>1. ~Live(h)'
      BY <1>7 DEF Live
  <2>2. \A q \in Requests :
           \/ /\ Kind(w) = SubmissionKind /\ r = q
              /\ request'[q] = "dead_letter"
           \/ /\ ~(Kind(w) = SubmissionKind /\ r = q)
              /\ request'[q] = request[q]
      BY <1>4, <1>5, <1>7 DEF StatusAfterFailure
  <2>3. \A q \in Requests :
           \/ /\ Kind(w) = SubmissionKind /\ RequestOf(w) = q
              /\ \/ request'[q] = "dead_letter"
                 \/ request[q] = "completed" /\ request'[q] = "completed"
           \/ /\ ~(Kind(w) = SubmissionKind /\ RequestOf(w) = q)
              /\ request'[q] = request[q]
      BY <2>2 DEF r
  <2> QED BY <1>0, <1>1, <1>3, <2>1, <2>3, EndKeepsRequests
<1>8. CASE ~terminal
  <2>1. RowsAlike
    <3>1. \A e \in DOMAIN outbox : Live(e)' <=> Live(e)
        BY <1>3, <1>6, <1>8 DEF Live
    <3> QED BY <1>3, <3>1 DEF RowsAlike, KeepsRows
  <2>2. StatusAfterFailure(old, terminal) \in {"activity_created", "failed"}
      BY <1>8 DEF StatusAfterFailure
  <2> DEFINE status == StatusAfterFailure(old, terminal)
  <2>3. \A q \in Requests :
           \/ request'[q] = request[q]
           \/ /\ Carries(h, q) /\ Active(q)
              /\ request'[q] \in {"activity_created", "failed"}
    <3> HIDE DEF status
    <3>1. request' = IF Kind(w) = SubmissionKind
                     THEN [request EXCEPT ![r] = status] ELSE request
        BY <1>4 DEF status
    <3> QED BY <1>5, <1>6, <2>2, <3>1 DEF status
  <2>4. \A q \in Requests :
           /\ request'[q] = "none" <=> request[q] = "none"
           /\ Active(q)' <=> Active(q)
           /\ request'[q] = "completed" => runStatus' = "submitted"
      BY <1>1, <2>3 DEF Active, RequestsFollowRows
  <2>5. \A q \in Requests :
           request[q] = "completed" /\ request'[q] # "completed" =>
                     \E e \in DOMAIN outbox : Carries(e, q) /\ Live(e)
      BY <1>2, <1>6, <2>3
  <2> QED BY <2>1, <2>4, <2>5, AlikeStep
<1> QED BY <1>7, <1>8

\* The only worker moves its own handler; nobody else touches a request that
\* is completed.
LEMMA DoneStep ==
    ASSUME OneWorker, SubmissionTypeOK, RowsCarryRequests, DoneRequestIsCompleted,
           [Next]_vars
    PROVE  DoneRequestIsCompleted'
<1> SUFFICES ASSUME NEW w \in Workers, pc'[w] = "done", Kind(w)' = SubmissionKind
             PROVE  request'[RequestOf(w)'] = "completed"
    BY DEF DoneRequestIsCompleted
<1> USE DEF Goto, KeepRows, rowVars, KeepQueue, outboxVars
<1>1. CASE UNCHANGED <<pc, job>> /\ pc[w] = "done"
  <2>1. job[w] \in DOMAIN outbox
      BY <1>1 DEF RowsCarryRequests, SubmissionTypeOK, OutboxTypeOK
  <2>2. Kind(w) = SubmissionKind /\ RequestOf(w)' = RequestOf(w)
      BY <1>1, <2>1, RowsStep DEF KeepsRows, Kind, RequestOf
  <2>3. request[RequestOf(w)] = "completed"
      BY <1>1, <2>2 DEF DoneRequestIsCompleted
  <2>4. CASE UNCHANGED request
      BY <2>2, <2>3, <2>4
  <2>5. ASSUME NEW r \in Requests, QueueSubmission(r)
        PROVE  request'[RequestOf(w)] = request[RequestOf(w)]
    <3>1. RequestOf(w) \in Requests /\ RequestOf(w) # r
        BY <2>1, <2>2, <2>3, <2>5
           DEF QueueSubmission, RowsCarryRequests, Kind, RequestOf
    <3> QED BY <2>5, <3>1 DEF QueueSubmission, SubmissionTypeOK
  <2>6. CASE \E v \in Workers : Claim(v) \/ Handle(v) \/ HandlerError(v) \/ Crash(v)
    <3>1. Claim(w) \/ Handle(w) \/ HandlerError(w) \/ Crash(w)
        BY <2>6 DEF OneWorker
    <3>2. pc'[w] # "done"
        BY <1>1, <3>1
           DEF Claim, Handle, DraftActivity, GetRequest, MarkProcessing,
               CreateActivity, RecordActivity, SetTicketStatus, CompleteRequest,
               FailRequest, HandlerError, Complete, Fail, Crash, SubmissionTypeOK
    <3> QED BY <3>2
  <2> QED BY <2>2, <2>3, <2>4, <2>5, <2>6
          DEF Next, Technician, BecomeReady, ReopenRun, AbortRun, SaveDraft,
              TimePasses, vars
<1>2. CASE Claim(w) \/ Handle(w) \/ HandlerError(w) \/ Crash(w)
  <2>1. \/ DraftActivity(w) \/ GetRequest(w) \/ CompleteRequest(w)
      BY <1>2 DEF Claim, Handle, MarkProcessing, CreateActivity, RecordActivity,
                  SetTicketStatus, FailRequest, HandlerError, Complete, Fail,
                  Crash, SubmissionTypeOK
  <2>2. /\ UNCHANGED <<outbox, job>>
        /\ pc[w] \in {"claimed", "completing"}
        /\ Kind(w)' = Kind(w) /\ RequestOf(w)' = RequestOf(w)
      BY <2>1 DEF DraftActivity, GetRequest, CompleteRequest, Kind, RequestOf
  <2>3. ~DraftActivity(w)
      BY <2>2 DEF DraftActivity, DraftKind, SubmissionKind
  <2>4. CASE GetRequest(w)
      BY <2>2, <2>4 DEF GetRequest, SubmissionTypeOK
  <2>5. CASE CompleteRequest(w)
    <3>1. RequestOf(w) \in Requests
        BY <2>5, HeldRequest DEF CompleteRequest, Submitting
    <3> QED BY <2>2, <2>5, <3>1 DEF CompleteRequest, SubmissionTypeOK
  <2> QED BY <2>1, <2>3, <2>4, <2>5
<1>3. \/ UNCHANGED <<pc, job>>
      \/ Claim(w) \/ Handle(w) \/ HandlerError(w) \/ Crash(w)
    BY DEF OneWorker, Next, Technician, BecomeReady, ReopenRun, AbortRun,
           SaveDraft, QueueSubmission, TimePasses, Age, vars
<1> QED BY <1>1, <1>2, <1>3
LEMMA RequestsStep ==
    ASSUME OneWorker, SubmissionTypeOK, RowsCarryRequests, QueueInv,
           RequestsFollowRows, DoneRequestIsCompleted, [Next]_vars
    PROVE  RequestsFollowRows'
<1>1. CASE BecomeReady
    BY <1>1, BecomeReadyKeepsRequests
<1>2. CASE ReopenRun \/ AbortRun \/ SaveDraft \/ TimePasses
    BY <1>2, TechnicianKeepsRequests
<1>3. ASSUME NEW r \in Requests, QueueSubmission(r)
      PROVE  RequestsFollowRows'
    BY <1>3, QueueSubmissionKeepsRequests
<1>4. ASSUME NEW w \in Workers,
             Claim(w) \/ Handle(w) \/ HandlerError(w) \/ Crash(w)
      PROVE  RequestsFollowRows'
    BY <1>4, HandlerKeepsRequests, CompleteKeepsRequests, FailKeepsRequests DEF Handle
<1>5. CASE UNCHANGED vars
  <2>1. UNCHANGED <<request, runStatus, outbox>>
      BY <1>5 DEF vars, rowVars, outboxVars
  <2>2. RowsAlike
      BY <2>1 DEF RowsAlike, Live
  <2> QED BY <2>1, <2>2, AlikeStep DEF RequestsFollowRows, Active
<1> QED BY <1>1, <1>2, <1>3, <1>4, <1>5 DEF Next, Technician

LEMMA RequestsInvariant ==
    OneWorker => (Spec => [](SubmissionTypeOK /\ RequestsFollowRows))
<1> SUFFICES ASSUME OneWorker
             PROVE  Spec => [](SubmissionTypeOK /\ RequestsFollowRows)
    OBVIOUS
<1> DEFINE Inv == SubmissionTypeOK /\ RowsCarryRequests
           Mine == RequestsFollowRows /\ DoneRequestIsCompleted
<1>1. Init => Inv /\ Mine
  <2> SUFFICES ASSUME Init
               PROVE  Inv /\ Mine
      OBVIOUS
  <2>1. RequestsFollowRows
      BY DEF Init, OutboxInit, RequestsFollowRows, Active
  <2>2. DoneRequestIsCompleted
      BY DEF Init, DoneRequestIsCompleted
  <2> QED BY <2>1, <2>2, InitSubmission
<1>2. Inv /\ [Next]_vars => Inv'
    BY SubmissionTypeStep, RowsCarryRequestsStep
<1>3. Inv /\ QueueInv /\ Mine /\ [Next]_vars => Mine'
    BY RequestsStep, DoneStep
<1>4. Spec => []QueueInv
    BY SubmissionImplementsOutbox, QueueInvCorrect, PTL
<1> QED BY <1>1, <1>2, <1>3, <1>4, PTL DEF Spec

(* With one worker process two submissions of a run are never in progress   *)
(* together: queue_activity_submission looks for an open request, and no    *)
(* crash, retry or dead letter opens one again behind its back.             *)
THEOREM AtMostOneOpenRequestCorrect == OneWorker => (Spec => []AtMostOneOpenRequest)
<1> SUFFICES ASSUME OneWorker
             PROVE  Spec => []AtMostOneOpenRequest
    OBVIOUS
<1>1. SubmissionTypeOK /\ RequestsFollowRows => AtMostOneOpenRequest
    BY DEF RequestsFollowRows, AtMostOneOpenRequest, Active, Open
<1> QED BY <1>1, RequestsInvariant, PTL

(* With one worker process an open request always has a row that is still   *)
(* worked on, so that it can neither be stranded nor block the next         *)
(* submission for ever.                                                     *)
THEOREM RequestFollowsRowCorrect == OneWorker => (Spec => []RequestFollowsRow)
<1> SUFFICES ASSUME OneWorker
             PROVE  Spec => []RequestFollowsRow
    OBVIOUS
<1>1. RequestsFollowRows => RequestFollowsRow
  <2> SUFFICES ASSUME RequestsFollowRows, NEW r \in Requests, Open(r)
               PROVE  \E e \in DOMAIN outbox : Carries(e, r) /\ Live(e)
      BY DEF RequestFollowsRow, Carries, Live
  <2>1. Active(r) /\ request[r] # "completed"
      BY DEF Open, Active
  <2> QED BY <2>1 DEF RequestsFollowRows
<1> QED BY <1>1, RequestsInvariant, PTL
-----------------------------------------------------------------------------
(* Activities created more than once.                                       *)

Faults == lost + crashes + errors

Recording(r) == \E w \in Workers : pc[w] = "recording" /\ RequestOf(w) = r

\* Every activity beyond the recorded one, or the one about to be recorded,
\* has a fault of its own.
ActivitiesAccounted ==
    /\ \A r \in Requests :
          /\ activities[r] <= 1 + Faults
          /\ ~recorded[r] /\ ~Recording(r) => activities[r] <= Faults
    /\ \A w \in Workers :
          pc[w] \in {"creating", "recording"} => ~recorded[RequestOf(w)]

LEMMA SumGrows ==
    ASSUME NEW a \in Nat, NEW b \in Nat, NEW c \in Nat,
           NEW d \in Nat, NEW e \in Nat, NEW f \in Nat
    PROVE  /\ a + b + c \in Nat
           /\ d >= a /\ e >= b /\ f >= c => d + e + f >= a + b + c
    OBVIOUS

\* Nothing is created or recorded, no recording is broken off without a fault.
LEMMA AccountedFrame ==
    ASSUME SubmissionTypeOK, SubmissionTypeOK', ActivitiesAccounted,
           UNCHANGED <<activities, recorded>>,
           lost' >= lost, crashes' >= crashes, errors' >= errors,
           \A r \in Requests : Recording(r) /\ ~Recording(r)' => Faults' > Faults,
           \A w \in Workers : pc'[w] \in {"creating", "recording"} =>
               ~recorded[RequestOf(w)']
    PROVE  ActivitiesAccounted'
<1>1. /\ lost \in Nat /\ crashes \in Nat /\ errors \in Nat
      /\ lost' \in Nat /\ crashes' \in Nat /\ errors' \in Nat
      /\ \A r \in Requests : activities[r] \in Nat
  <2>1. /\ OutboxTypeOK /\ OutboxTypeOK'
        /\ lost \in Nat /\ errors \in Nat /\ lost' \in Nat /\ errors' \in Nat
        /\ activities \in [Requests -> Nat]
      BY DEF SubmissionTypeOK
  <2>2. crashes \in Nat /\ crashes' \in Nat
      BY <2>1 DEF OutboxTypeOK
  <2> QED BY <2>1, <2>2
<1>2. Faults \in Nat /\ Faults' \in Nat /\ Faults' >= Faults
  <2>1. lost' >= lost /\ crashes' >= crashes /\ errors' >= errors
      OBVIOUS
  <2>2. lost' + crashes' + errors' >= lost + crashes + errors
      BY <1>1, <2>1, SumGrows
  <2>3. lost + crashes + errors \in Nat /\ lost' + crashes' + errors' \in Nat
      BY <1>1, SumGrows
  <2> QED BY <2>2, <2>3 DEF Faults
<1>3. ASSUME NEW r \in Requests
      PROVE  /\ activities'[r] <= 1 + Faults'
             /\ ~recorded'[r] /\ ~Recording(r)' => activities'[r] <= Faults'
  <2>1. activities[r] <= 1 + Faults
      BY DEF ActivitiesAccounted
  <2>2. CASE Recording(r) /\ ~Recording(r)'
      BY <1>1, <1>2, <2>1, <2>2
  <2>3. CASE ~(Recording(r) /\ ~Recording(r)')
    <3>1. ~recorded'[r] /\ ~Recording(r)' => activities[r] <= Faults
        BY <2>3 DEF ActivitiesAccounted
    <3> QED BY <1>1, <1>2, <2>1, <3>1
  <2> QED BY <2>2, <2>3
<1>4. \A w \in Workers : pc'[w] \in {"creating", "recording"} =>
               ~recorded'[RequestOf(w)']
    OBVIOUS
<1> HIDE DEF Faults, Recording
<1> QED BY <1>3, <1>4 DEF ActivitiesAccounted
LEMMA AccountedStep ==
    ASSUME OneWorker, SubmissionTypeOK, RowsCarryRequests, SubmissionTypeOK',
           ActivitiesAccounted, [Next]_vars
    PROVE  ActivitiesAccounted'
<1> USE DEF Goto, KeepRows, rowVars, KeepQueue, outboxVars, KeepPhoenix, phoenixVars
<1>0. /\ lost \in Nat /\ crashes \in Nat /\ errors \in Nat
      /\ pc \in [Workers -> Locations]
      /\ recorded \in [Requests -> BOOLEAN]
      /\ \A r \in Requests : activities[r] \in Nat
      /\ activities \in [Requests -> Nat]
    BY DEF SubmissionTypeOK, OutboxTypeOK
<1>1. CASE UNCHANGED <<pc, job, activities, recorded, lost, crashes, errors>>
  <2>1. \A v \in Workers : pc[v] \in {"creating", "recording"} =>
            RequestOf(v)' = RequestOf(v)
      BY <1>1, SameRequest
  <2>2. \A r \in Requests : Recording(r) => Recording(r)'
      BY <1>1, <2>1 DEF Recording
  <2>3. \A v \in Workers : pc'[v] \in {"creating", "recording"} =>
            ~recorded[RequestOf(v)']
      BY <1>1, <2>1 DEF ActivitiesAccounted
  <2> QED BY <1>0, <1>1, <2>2, <2>3, AccountedFrame
<1>2. ASSUME NEW w \in Workers,
             Claim(w) \/ Handle(w) \/ HandlerError(w) \/ Crash(w)
      PROVE  ActivitiesAccounted'
  <2>0. \A v \in Workers : v = w
      BY DEF OneWorker
  <2>1. \A r : Recording(r) <=> pc[w] = "recording" /\ RequestOf(w) = r
      BY <2>0 DEF Recording
  <2>2. \A r : Recording(r)' <=> pc'[w] = "recording" /\ RequestOf(w)' = r
      BY <2>0 DEF Recording
  <2>3. CASE \/ Claim(w) \/ DraftActivity(w) \/ GetRequest(w) \/ SetTicketStatus(w)
             \/ CompleteRequest(w) \/ FailRequest(w) \/ Complete(w) \/ Fail(w)
    <3>1. /\ pc[w] # "recording" /\ pc'[w] \notin {"creating", "recording"}
          /\ UNCHANGED <<activities, recorded, lost, crashes, errors>>
        BY <1>0, <2>3
           DEF Claim, ClaimEvent, DraftActivity, GetRequest, SetTicketStatus,
               CompleteRequest, FailRequest, Complete, CompleteEvent, Fail, FailEvent
    <3> QED BY <1>0, <2>0, <2>1, <3>1, AccountedFrame
  <2>4. CASE HandlerError(w) \/ Crash(w)
    <3>1. /\ pc'[w] \notin {"creating", "recording"}
          /\ UNCHANGED <<activities, recorded, lost>>
          /\ \/ crashes' = crashes /\ errors' = errors + 1
             \/ crashes' = crashes + 1 /\ errors' = errors
        BY <1>0, <2>4 DEF HandlerError, Crash, CrashWorker
    <3>2. Faults' > Faults /\ crashes' >= crashes /\ errors' >= errors
        BY <1>0, <3>1 DEF Faults
    <3> QED BY <1>0, <2>0, <3>1, <3>2, AccountedFrame
  <2>5. CASE MarkProcessing(w)
    <3>1. /\ pc[w] = "marking" /\ pc'[w] # "recording"
          /\ pc'[w] = "creating" => ~recorded[RequestOf(w)]
          /\ RequestOf(w)' = RequestOf(w)
          /\ UNCHANGED <<activities, recorded, lost, crashes, errors>>
        BY <1>0, <2>5 DEF MarkProcessing, RequestOf
    <3> QED BY <1>0, <2>0, <2>1, <3>1, AccountedFrame
  <2>6. CASE CreateActivity(w) \/ RecordActivity(w)
    <3> DEFINE h == RequestOf(w)
    <3>1. /\ pc[w] \in {"creating", "recording"} /\ ~recorded[h] /\ h \in Requests
          /\ RequestOf(w)' = h
      <4>1. pc[w] \in {"creating", "recording"} /\ UNCHANGED <<outbox, job>>
          BY <2>6 DEF CreateActivity, RecordActivity
      <4> QED BY <4>1, HeldRequest DEF ActivitiesAccounted, Submitting, RequestOf
    <3> HIDE DEF h
    <3>2. \A r \in Requests : /\ activities[r] <= 1 + Faults
                              /\ ~recorded[r] /\ r # h => activities[r] <= Faults
        BY <2>1 DEF ActivitiesAccounted, h
    <3>3. Faults \in Nat
        BY <1>0 DEF Faults
    <3>4. CASE RecordActivity(w)
      <4>1. /\ recorded' = [recorded EXCEPT ![h] = TRUE]
            /\ pc'[w] = "patching"
            /\ UNCHANGED <<activities, lost, crashes, errors>>
          BY <1>0, <3>4 DEF RecordActivity, h
      <4>2. Faults' = Faults
          BY <4>1 DEF Faults
      <4>3. \A r \in Requests : ~recorded'[r] => ~recorded[r] /\ r # h
          BY <1>0, <4>1
      <4>4. \A r \in Requests :
               /\ activities'[r] <= 1 + Faults'
               /\ ~recorded'[r] /\ ~Recording(r)' => activities'[r] <= Faults'
          BY <3>2, <4>1, <4>2, <4>3
      <4> QED BY <2>0, <4>1, <4>4 DEF ActivitiesAccounted
    <3>5. CASE CreateActivity(w)
      <4>1. /\ pc[w] = "creating" /\ UNCHANGED <<recorded, crashes, errors>>
            /\ \/ /\ activities' = [activities EXCEPT ![h] = @ + 1]
                  /\ pc'[w] = "recording" /\ lost' = lost
               \/ /\ activities' = activities
                  /\ pc'[w] = "raised" /\ lost' = lost
               \/ /\ activities' = [activities EXCEPT ![h] = @ + 1]
                  /\ pc'[w] = "raised" /\ lost' = lost + 1
          BY <1>0, <3>5 DEF CreateActivity, h
      <4>2. activities[h] <= Faults
          BY <2>1, <3>1, <4>1 DEF ActivitiesAccounted, h
      <4>3. CASE activities' = [activities EXCEPT ![h] = @ + 1] /\ lost' = lost
                   /\ pc'[w] = "recording"
        <5>1. Faults' = Faults
            BY <4>1, <4>3 DEF Faults
        <5>2. \A r \in Requests :
                 /\ activities'[r] <= 1 + Faults'
                 /\ ~recorded'[r] /\ ~Recording(r)' => activities'[r] <= Faults'
            BY <1>0, <2>2, <3>1, <3>2, <3>3, <4>1, <4>2, <4>3, <5>1
        <5> QED BY <2>0, <3>1, <4>1, <5>2 DEF ActivitiesAccounted
      <4>4. CASE activities' = activities /\ lost' = lost /\ pc'[w] = "raised"
          BY <1>0, <2>0, <2>1, <4>1, <4>4, AccountedFrame
      <4>5. CASE activities' = [activities EXCEPT ![h] = @ + 1] /\ lost' = lost + 1
                   /\ pc'[w] = "raised"
        <5>1. Faults' = Faults + 1
            BY <1>0, <4>1, <4>5 DEF Faults
        <5>2. \A r \in Requests :
                 /\ activities'[r] <= 1 + Faults'
                 /\ ~recorded'[r] /\ ~Recording(r)' => activities'[r] <= Faults'
            BY <1>0, <3>1, <3>2, <3>3, <4>1, <4>2, <4>5, <5>1
        <5> QED BY <2>0, <4>5, <5>2 DEF ActivitiesAccounted
      <4> QED BY <4>1, <4>3, <4>4, <4>5
    <3> QED BY <2>6, <3>4, <3>5
  <2> QED BY <1>2, <2>3, <2>4, <2>5, <2>6 DEF Handle
<1> QED BY <1>1, <1>2
        DEF Next, Technician, BecomeReady, ReopenRun, AbortRun, SaveDraft,
            QueueSubmission, TimePasses, Age, vars

(* With one worker process each further activity for a request is paid for  *)
(* by a lost answer of Phoenix, a crash or a database error: the retries    *)
(* alone, however many there are, create no second activity.                *)
THEOREM ExtraActivitiesAreExplainedCorrect ==
    OneWorker => (Spec => []ExtraActivitiesAreExplained)
<1> SUFFICES ASSUME OneWorker
             PROVE  Spec => []ExtraActivitiesAreExplained
    OBVIOUS
<1> DEFINE Inv == SubmissionTypeOK /\ RowsCarryRequests
<1>1. Init => Inv /\ ActivitiesAccounted
  <2> SUFFICES ASSUME Init
               PROVE  ActivitiesAccounted
      BY InitSubmission
  <2> QED BY DEF Init, OutboxInit, ActivitiesAccounted, Faults
<1>2. Inv /\ [Next]_vars => Inv'
    BY SubmissionTypeStep, RowsCarryRequestsStep
<1>3. Inv /\ Inv' /\ ActivitiesAccounted /\ [Next]_vars => ActivitiesAccounted'
    BY AccountedStep
<1>4. Inv /\ ActivitiesAccounted => ExtraActivitiesAreExplained
  <2> SUFFICES ASSUME Inv, ActivitiesAccounted, NEW r \in Requests
               PROVE  activities[r] <= 1 + lost + crashes + errors
      BY DEF ExtraActivitiesAreExplained
  <2>1. /\ lost \in Nat /\ crashes \in Nat /\ errors \in Nat
        /\ activities[r] \in Nat
      BY DEF SubmissionTypeOK, OutboxTypeOK
  <2>2. activities[r] <= 1 + (lost + crashes + errors)
      BY DEF ActivitiesAccounted, Faults
  <2> QED BY <2>1, <2>2
<1> QED BY <1>1, <1>2, <1>3, <1>4, PTL DEF Spec
=============================================================================
