------------------------- MODULE ActivitySubmission -------------------------
(***************************************************************************)
(* How the activity of a validated run reaches Phoenix: the technician      *)
(* queues a durable integration request, a worker takes its outbox row,     *)
(* creates the activity, sets the ticket to DONE and marks the run as       *)
(* submitted.  Phoenix is external: a call may fail, or take effect and     *)
(* lose its answer.                                                         *)
(*                                                                          *)
(* The queue is Outbox with integration requests as the ids events carry.   *)
(* The rest of the run is reduced to whether it is ready for its activity;  *)
(* "busy" stands for every status from which a validation may make it so    *)
(* again.                                                                   *)
(*                                                                          *)
(* pc[w] says where the handler of worker w is:                             *)
(*   claimed     the row is claimed, its request not read                   *)
(*   marking     the request was read and is not completed                  *)
(*   creating    the activity has to be created                             *)
(*   recording   Phoenix has created it, its id is not stored               *)
(*   patching    the id is stored, the ticket's status has to be set        *)
(*   completing  the ticket is DONE, the request is not completed           *)
(*   raised      the handler's try block has raised                         *)
(*   done        the handler returned, the row is not completed yet         *)
(*   failing     the handler raised, the row is not failed yet              *)
(***************************************************************************)
EXTENDS Outbox

CONSTANT MaxFaults  \* bound: database errors and lost answers of Phoenix

ASSUME SubmissionAssumption == MaxFaults \in Nat

\* The ids the rows of the queue carry here.
Requests == Steps
NoRequest == NoStep

VARIABLES
    runStatus,             \* runs.status
    drafted,               \* a complete draft is saved
    request,               \* integration_requests.status, "none" while unused
    recorded,              \* integration_requests.phoenix_activity_id is set
    pc,
    errors,
    activities,            \* Phoenix: activities created for a request
    ticketDone,            \* Phoenix: the ticket's status is DONE
    lost                   \* answers lost so far

rowVars == <<runStatus, drafted, request, recorded>>
phoenixVars == <<activities, ticketDone, lost>>
vars == <<outboxVars, rowVars, phoenixVars, pc, errors>>

RunStatus == {"ready_for_activity", "busy", "submitted", "aborted"}
RequestStatus == {"none", "pending", "processing", "activity_created",
                  "completed", "failed", "dead_letter"}
Locations == {"idle", "claimed", "marking", "creating", "recording",
              "patching", "completing", "raised", "done", "failing"}

\* Every variable has its type.
SubmissionTypeOK ==
    /\ OutboxTypeOK
    /\ runStatus \in RunStatus
    /\ drafted \in BOOLEAN
    /\ request \in [Requests -> RequestStatus]
    /\ recorded \in [Requests -> BOOLEAN]
    /\ pc \in [Workers -> Locations]
    /\ errors \in Nat
    /\ activities \in [Requests -> Nat]
    /\ ticketDone \in BOOLEAN
    /\ lost \in Nat

Init ==
    /\ OutboxInit
    /\ runStatus = "busy"
    /\ drafted = FALSE
    /\ request = [r \in Requests |-> "none"]
    /\ recorded = [r \in Requests |-> FALSE]
    /\ pc = [w \in Workers |-> "idle"]
    /\ errors = 0
    /\ activities = [r \in Requests |-> 0]
    /\ ticketDone = FALSE
    /\ lost = 0
-----------------------------------------------------------------------------
Goto(w, location) == pc' = [pc EXCEPT ![w] = location]
Kind(w) == outbox[job[w]].kind
RequestOf(w) == outbox[job[w]].step

KeepPhoenix == UNCHANGED phoenixVars
KeepRows == UNCHANGED rowVars
KeepQueue == UNCHANGED outboxVars

Open(r) == request[r] \in {"pending", "processing", "activity_created", "failed"}
-----------------------------------------------------------------------------
(* The run and the technician.                                              *)

\* A validation passes its suite: drafting is requested.
BecomeReady ==
    /\ runStatus = "busy"
    /\ Len(outbox) < MaxEvents
    /\ runStatus' = "ready_for_activity"
    /\ outbox' = Enqueued(outbox, DraftKind, NoRequest)
    /\ UNCHANGED <<job, crashes, drafted, request, recorded, pc, errors>>
    /\ KeepPhoenix

\* A retry or a new step takes the run back to work, requests are left alone.
ReopenRun ==
    /\ runStatus = "ready_for_activity"
    /\ runStatus' = "busy"
    /\ UNCHANGED <<drafted, request, recorded, pc, errors>>
    /\ KeepPhoenix /\ KeepQueue

AbortRun ==
    /\ runStatus \in {"ready_for_activity", "busy"}
    /\ runStatus' = "aborted"
    /\ UNCHANGED <<drafted, request, recorded, pc, errors>>
    /\ KeepPhoenix /\ KeepQueue

\* create_activity_draft or save_activity_draft, called by the technician.
SaveDraft ==
    /\ runStatus = "ready_for_activity"
    /\ drafted' = TRUE
    /\ UNCHANGED <<runStatus, request, recorded, pc, errors>>
    /\ KeepPhoenix /\ KeepQueue

\* Mutant: a failed request does not count as existing.
QueueSubmissionBesideFailed(r) ==
    /\ runStatus = "ready_for_activity"
    /\ drafted
    /\ \A q \in Requests : Open(q) => request[q] = "failed"
    /\ request[r] = "none"
    /\ Len(outbox) < MaxEvents
    /\ request' = [request EXCEPT ![r] = "pending"]
    /\ outbox' = Enqueued(Cancelled(outbox, DraftKind),
                                SubmissionKind, r)
    /\ UNCHANGED <<job, crashes, runStatus, drafted, recorded, pc, errors>>
    /\ KeepPhoenix

\* queue_activity_submission: while a request is open it is returned as it is.
QueueSubmission(r) ==
    /\ runStatus = "ready_for_activity"
    /\ drafted
    /\ \A q \in Requests : ~Open(q)
    /\ request[r] = "none"
    /\ Len(outbox) < MaxEvents
    /\ request' = [request EXCEPT ![r] = "pending"]
    /\ outbox' = Enqueued(Cancelled(outbox, DraftKind),
                                SubmissionKind, r)
    /\ UNCHANGED <<job, crashes, runStatus, drafted, recorded, pc, errors>>
    /\ KeepPhoenix
-----------------------------------------------------------------------------
(* The worker.                                                              *)

Claim(w) ==
    /\ pc[w] = "idle"
    /\ ClaimEvent(w)
    /\ Goto(w, "claimed")
    /\ UNCHANGED errors
    /\ KeepRows /\ KeepPhoenix

\* Drafting; it is refused also when the validation suite or the draft is
\* incomplete.
DraftActivity(w) ==
    /\ pc[w] = "claimed"
    /\ Kind(w) = DraftKind
    /\ \/ /\ runStatus = "ready_for_activity"
          /\ drafted' = TRUE
          /\ Goto(w, "done")
       \/ /\ Goto(w, "failing")
          /\ UNCHANGED drafted
    /\ UNCHANGED <<runStatus, request, recorded, errors>>
    /\ KeepPhoenix /\ KeepQueue

\* _process_activity_submission reads the request.
GetRequest(w) ==
    /\ pc[w] = "claimed"
    /\ Kind(w) = SubmissionKind
    /\ Goto(w, IF request[RequestOf(w)] = "completed" THEN "done" ELSE "marking")
    /\ UNCHANGED errors
    /\ KeepRows /\ KeepPhoenix /\ KeepQueue

\* Mutant: the activity id of an earlier attempt is not looked at.
MarkProcessingForgetsActivity(w) ==
    /\ pc[w] = "marking"
    /\ request' = [request EXCEPT ![RequestOf(w)] =
                      IF @ = "completed" THEN @ ELSE "processing"]
    /\ Goto(w, "creating")
    /\ UNCHANGED <<runStatus, drafted, recorded, errors>>
    /\ KeepPhoenix /\ KeepQueue

\* mark_integration_request_processing: whatever the status was, unless it has
\* become completed meanwhile.
MarkProcessing(w) ==
    /\ pc[w] = "marking"
    /\ request' = [request EXCEPT ![RequestOf(w)] =
                      IF @ = "completed" THEN @ ELSE "processing"]
    /\ Goto(w, IF recorded[RequestOf(w)] THEN "patching" ELSE "creating")
    /\ UNCHANGED <<runStatus, drafted, recorded, errors>>
    /\ KeepPhoenix /\ KeepQueue

\* Mutant: an answer without an activity id is not noticed.
CreateActivityUnchecked(w) ==
    /\ pc[w] = "creating"
    /\ \/ activities' = [activities EXCEPT ![RequestOf(w)] = @ + 1]
       \/ UNCHANGED activities
    /\ Goto(w, "recording")
    /\ UNCHANGED <<ticketDone, lost, errors>>
    /\ KeepRows /\ KeepQueue

\* PhoenixClient.create_activity: created; refused; or created with an answer
\* that times out, breaks off or does not validate.
CreateActivity(w) ==
    /\ pc[w] = "creating"
    /\ \/ /\ activities' = [activities EXCEPT ![RequestOf(w)] = @ + 1]
          /\ Goto(w, "recording")
          /\ UNCHANGED lost
       \/ /\ Goto(w, "raised")
          /\ UNCHANGED <<activities, lost>>
       \/ /\ errors + lost < MaxFaults
          /\ activities' = [activities EXCEPT ![RequestOf(w)] = @ + 1]
          /\ lost' = lost + 1
          /\ Goto(w, "raised")
    /\ UNCHANGED <<ticketDone, errors>>
    /\ KeepRows /\ KeepQueue

\* mark_integration_activity_created.
RecordActivity(w) ==
    /\ pc[w] = "recording"
    /\ request' = [request EXCEPT ![RequestOf(w)] = "activity_created"]
    /\ recorded' = [recorded EXCEPT ![RequestOf(w)] = TRUE]
    /\ Goto(w, "patching")
    /\ UNCHANGED <<runStatus, drafted, errors>>
    /\ KeepPhoenix /\ KeepQueue

\* _set_ticket_status_with_retry: the call is idempotent, its answer may be
\* lost as often as it likes.
SetTicketStatus(w) ==
    /\ pc[w] = "patching"
    /\ \/ /\ ticketDone' = TRUE
          /\ Goto(w, "completing")
       \/ /\ ticketDone' \in {ticketDone, TRUE}
          /\ Goto(w, "raised")
    /\ UNCHANGED <<activities, lost, errors>>
    /\ KeepRows /\ KeepQueue

\* mark_integration_request_completed: the run is submitted whatever it was.
CompleteRequest(w) ==
    /\ pc[w] = "completing"
    /\ request' = [request EXCEPT ![RequestOf(w)] = "completed"]
    /\ runStatus' = "submitted"
    /\ Goto(w, "done")
    /\ UNCHANGED <<drafted, recorded, errors>>
    /\ KeepPhoenix /\ KeepQueue

\* _fail_integration_request.
StatusAfterFailure(status, terminal) ==
    IF terminal THEN "dead_letter"
    ELSE IF status = "activity_created" THEN status ELSE "failed"

\* fail_integration_request in the handler's except clause.
FailRequest(w) ==
    /\ pc[w] = "raised"
    /\ request' = [request EXCEPT ![RequestOf(w)] = StatusAfterFailure(@, FALSE)]
    /\ Goto(w, "failing")
    /\ UNCHANGED <<runStatus, drafted, recorded, errors>>
    /\ KeepPhoenix /\ KeepQueue

\* A database error: inside the try block it is handled like Phoenix's.
HandlerError(w) ==
    /\ pc[w] \in {"claimed", "marking", "recording", "completing", "raised"}
    /\ errors + lost < MaxFaults
    /\ errors' = errors + 1
    /\ Goto(w, IF pc[w] \in {"recording", "completing"} THEN "raised" ELSE "failing")
    /\ KeepRows /\ KeepPhoenix /\ KeepQueue

Complete(w) ==
    /\ pc[w] = "done"
    /\ CompleteEvent(w)
    /\ Goto(w, "idle")
    /\ UNCHANGED errors
    /\ KeepRows /\ KeepPhoenix

\* Mutant: the dead letter does not reach the request.
FailNeverTerminal(w) ==
    /\ pc[w] = "failing"
    /\ FailEvent(w)
    /\ request' = IF Kind(w) = SubmissionKind
                  THEN [request EXCEPT ![RequestOf(w)] = StatusAfterFailure(@, FALSE)]
                  ELSE request
    /\ Goto(w, "idle")
    /\ UNCHANGED <<runStatus, drafted, recorded, errors>>
    /\ KeepPhoenix

\* fail_outbox_event: the request of a dead-lettered row is dead-lettered in
\* the same transaction.
Fail(w) ==
    /\ pc[w] = "failing"
    /\ FailEvent(w)
    /\ request' = IF Kind(w) = SubmissionKind
                  THEN [request EXCEPT ![RequestOf(w)] =
                           StatusAfterFailure(@, outbox'[job[w]].status = "dead_letter")]
                  ELSE request
    /\ Goto(w, "idle")
    /\ UNCHANGED <<runStatus, drafted, recorded, errors>>
    /\ KeepPhoenix

Crash(w) ==
    /\ pc[w] # "idle"
    /\ CrashWorker(w)
    /\ Goto(w, "idle")
    /\ UNCHANGED errors
    /\ KeepRows /\ KeepPhoenix
-----------------------------------------------------------------------------
Handle(w) ==
    \/ DraftActivity(w) \/ GetRequest(w) \/ MarkProcessing(w)
    \/ CreateActivity(w) \/ RecordActivity(w) \/ SetTicketStatus(w)
    \/ CompleteRequest(w) \/ FailRequest(w)
    \/ Complete(w) \/ Fail(w)

Technician ==
    \/ ReopenRun \/ AbortRun \/ SaveDraft
    \/ \E r \in Requests : QueueSubmission(r)

TimePasses ==
    /\ \E e \in DOMAIN outbox : Age(e)
    /\ UNCHANGED <<pc, errors>>
    /\ KeepRows /\ KeepPhoenix

Next ==
    \/ BecomeReady
    \/ Technician
    \/ \E w \in Workers : Claim(w) \/ Handle(w) \/ HandlerError(w) \/ Crash(w)
    \/ TimePasses

Spec == Init /\ [][Next]_vars
-----------------------------------------------------------------------------
(* A run shown as submitted has been: the ticket is DONE, and the activity  *)
(* whose id the request records exists in Phoenix.  Holds for any number of *)
(* workers, although the writes go to two systems with crashes between.     *)
SubmittedIsReal ==
    runStatus = "submitted" =>
        /\ ticketDone
        /\ \E r \in Requests : recorded[r] /\ activities[r] > 0

(* With one worker, an activity is created again for the same request only  *)
(* after an answer of Phoenix was lost or the step that would have stored   *)
(* its id was interrupted: the stored id guards every other retry.          *)
ExtraActivitiesAreExplained ==
    \A r \in Requests : activities[r] <= 1 + lost + crashes + errors

(* With one worker, a run never has two submissions in progress, however    *)
(* requests, retries, dead letters and crashes interleave: two of them      *)
(* would create two activities without any failure.                         *)
AtMostOneOpenRequest == \A q, r \in Requests : Open(q) /\ Open(r) => q = r

(* With one worker, a request and the outbox row that carries it end        *)
(* together: an open request has a row that is still worked on, and a       *)
(* dead-lettered row leaves no request that blocks the next submission.     *)
RequestFollowsRow ==
    \A r \in Requests : Open(r) =>
        \E e \in DOMAIN outbox :
            /\ outbox[e].kind = SubmissionKind
            /\ outbox[e].step = r
            /\ outbox[e].status \in {"pending", "processing", "failed"}
=============================================================================
