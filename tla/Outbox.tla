------------------------------- MODULE Outbox -------------------------------
(***************************************************************************)
(* The outbox_events table of PostgresRunStore and the claim / complete /   *)
(* fail / recover protocol by which worker processes take rows from it.     *)
(*                                                                          *)
(* A row is identified by its position in the sequence "outbox": ids come   *)
(* from an identity column, rows are never deleted.  Every operator that    *)
(* takes a queue q and returns a queue is one UPDATE or INSERT statement;   *)
(* the modules that extend this one combine them inside one transaction.    *)
(*                                                                          *)
(* Time is abstracted to one bit per row, "ripe": for a failed row its      *)
(* available_at has passed, for a processing row its claimed_at is more     *)
(* than 120 seconds ago.                                                    *)
(***************************************************************************)
EXTENDS Naturals, Sequences, FiniteSets

CONSTANTS
    Workers,      \* worker processes
    Steps,        \* ids an event may carry: proposed_steps rows, or the
                  \* integration_requests rows of ActivitySubmission
    NoStep,       \* "no step": the payload of an event that carries no step id
    MaxAttempts,  \* claims after which a failing row is dead-lettered
    MaxEvents,    \* bound: rows in outbox_events
    MaxCrashes    \* bound: crashes of worker processes

ASSUME OutboxAssumption ==
    /\ NoStep \notin Steps
    /\ MaxAttempts \in Nat \ {0}
    /\ MaxEvents \in Nat
    /\ MaxCrashes \in Nat

VARIABLES
    outbox,       \* the table
    job,          \* job[w]: the row worker w is processing, 0 when idle
    crashes       \* worker crashes so far

outboxVars == <<outbox, job, crashes>>

CommandKind == "command.execution_requested"
DraftKind == "agent.activity_draft_requested"
SubmissionKind == "integration.activity_submission_requested"
EventKinds == {"agent.plan_requested", CommandKind, DraftKind, SubmissionKind}
EventStatus == {"pending", "processing", "completed", "failed", "dead_letter"}
Event == [kind : EventKinds, step : Steps \cup {NoStep}, status : EventStatus,
          attempts : Nat, ripe : BOOLEAN]

OutboxTypeOK ==
    /\ outbox \in Seq(Event)
    /\ job \in [Workers -> Nat]
    /\ \A w \in Workers : job[w] \in DOMAIN outbox \cup {0}
    /\ crashes \in Nat
-----------------------------------------------------------------------------
(* Statements on the table.                                                 *)

Enqueued(q, kind, s) ==
    Append(q, [kind |-> kind, step |-> s, status |-> "pending",
               attempts |-> 0, ripe |-> FALSE])

WithStatus(event, status) == [event EXCEPT !.status = status, !.ripe = FALSE]

\* Mutant: the cancelling UPDATE loses its event_type condition.
CancelledWhateverKind(q, kind) ==
    [e \in DOMAIN q |-> IF q[e].status = "pending"
                        THEN WithStatus(q[e], "completed") ELSE q[e]]

\* Only rows nobody has claimed yet can be cancelled.
Cancelled(q, kind) ==
    [e \in DOMAIN q |-> IF q[e].kind = kind /\ q[e].status = "pending"
                        THEN WithStatus(q[e], "completed") ELSE q[e]]

\* retry_run closes the planner rows that failed or were given up.
Superseded(q) ==
    [e \in DOMAIN q |-> IF /\ q[e].kind = "agent.plan_requested"
                           /\ q[e].status \in {"failed", "dead_letter"}
                        THEN WithStatus(q[e], "completed") ELSE q[e]]

\* Mutant: no recovery at all.
NotRecovered(q) == q

\* Rows claimed too long ago are offered again; attempts are kept and not
\* compared with the limit.
Recovered(q) ==
    [e \in DOMAIN q |-> IF q[e].status = "processing" /\ q[e].ripe
                        THEN WithStatus(q[e], "pending") ELSE q[e]]

\* Mutant: every row that is not completed or being processed is offered.
ClaimableWithDeadLetters(q) ==
    {e \in DOMAIN q : \/ q[e].status \in {"pending", "dead_letter"}
                      \/ q[e].status = "failed" /\ q[e].ripe}

Claimable(q) ==
    {e \in DOMAIN q : \/ q[e].status = "pending"
                      \/ q[e].status = "failed" /\ q[e].ripe}

Claimed(q, e) ==
    [q EXCEPT ![e] = [WithStatus(q[e], "processing")
                         EXCEPT !.attempts = q[e].attempts + 1]]

Completed(q, e) == [q EXCEPT ![e] = WithStatus(@, "completed")]

\* Mutant: an attempt too many.
FailedOffByOne(q, e) ==
    [q EXCEPT ![e] = WithStatus(@, IF @.attempts > MaxAttempts
                                   THEN "dead_letter" ELSE "failed")]

Failed(q, e) ==
    [q EXCEPT ![e] = WithStatus(@, IF @.attempts >= MaxAttempts
                                   THEN "dead_letter" ELSE "failed")]

Aged(q, e) == [q EXCEPT ![e].ripe = TRUE]
-----------------------------------------------------------------------------
(* The worker's side of the protocol.                                       *)

\* claim_next_outbox_event: recovery of stale rows and the claim are one
\* transaction.  It takes the lowest claimable id that no other connection has
\* locked (FOR UPDATE SKIP LOCKED), which may be any of them.
ClaimEvent(w) ==
    /\ job[w] = 0
    /\ \E e \in DOMAIN outbox :
          /\ e \in Claimable(Recovered(outbox))
          /\ outbox' = Claimed(Recovered(outbox), e)
          /\ job' = [job EXCEPT ![w] = e]
    /\ UNCHANGED crashes

\* complete_outbox_event and fail_outbox_event address the row by id alone:
\* neither looks at its status or at who claimed it.
CompleteEvent(w) ==
    /\ job[w] # 0
    /\ outbox' = Completed(outbox, job[w])
    /\ job' = [job EXCEPT ![w] = 0]
    /\ UNCHANGED crashes

FailEvent(w) ==
    /\ job[w] # 0
    /\ outbox' = Failed(outbox, job[w])
    /\ job' = [job EXCEPT ![w] = 0]
    /\ UNCHANGED crashes

\* The process dies and is restarted; its row stays "processing".
CrashWorker(w) ==
    /\ job[w] # 0
    /\ crashes < MaxCrashes
    /\ job' = [job EXCEPT ![w] = 0]
    /\ crashes' = crashes + 1
    /\ UNCHANGED outbox

\* Time passes: the row's back-off ends, or its claim becomes stale.
Age(e) ==
    /\ outbox[e].status \in {"processing", "failed"}
    /\ ~outbox[e].ripe
    /\ outbox' = Aged(outbox, e)
    /\ UNCHANGED <<job, crashes>>
-----------------------------------------------------------------------------
(* The transactions that enqueue, cancel and supersede, as the queue sees   *)
(* them.                                                                    *)

EnqueueEvent(kind, s) ==
    /\ Len(outbox) < MaxEvents
    /\ outbox' = Enqueued(outbox, kind, s)
    /\ UNCHANGED <<job, crashes>>

CancelEvents(kind) ==
    /\ outbox' = Cancelled(outbox, kind)
    /\ UNCHANGED <<job, crashes>>

SupersedeAndEnqueue ==
    /\ Len(outbox) < MaxEvents
    /\ outbox' = Enqueued(Superseded(outbox), "agent.plan_requested", NoStep)
    /\ UNCHANGED <<job, crashes>>

CancelAndEnqueue(cancelled, kind, s) ==
    /\ Len(outbox) < MaxEvents
    /\ outbox' = Enqueued(Cancelled(outbox, cancelled), kind, s)
    /\ UNCHANGED <<job, crashes>>

OutboxInit ==
    /\ outbox = <<>>
    /\ job = [w \in Workers |-> 0]
    /\ crashes = 0

OutboxNext ==
    \/ \E kind \in EventKinds, s \in Steps \cup {NoStep} : EnqueueEvent(kind, s)
    \/ \E kind \in EventKinds : CancelEvents(kind)
    \/ SupersedeAndEnqueue
    \/ \E s \in Steps \cup {NoStep} : CancelAndEnqueue(DraftKind, SubmissionKind, s)
    \/ \E w \in Workers :
          ClaimEvent(w) \/ CompleteEvent(w) \/ FailEvent(w) \/ CrashWorker(w)
    \/ \E e \in DOMAIN outbox : Age(e)

OutboxSpec == OutboxInit /\ [][OutboxNext]_outboxVars

\* The loop of a worker never stops claiming and ends what it claimed, and
\* time passes; nobody is obliged to enqueue, cancel, retry or crash.
OutboxFairness ==
    /\ \A w \in Workers :
          /\ WF_outboxVars(ClaimEvent(w))
          /\ WF_outboxVars(CompleteEvent(w) \/ FailEvent(w))
    /\ \A e \in 1..MaxEvents : WF_outboxVars(e \in DOMAIN outbox /\ Age(e))

FairOutboxSpec == OutboxSpec /\ OutboxFairness
-----------------------------------------------------------------------------
(* The attempt limit of fail_outbox_event bounds the claims of a row by one *)
(* more for each crash: recovery gives a crashed row back without           *)
(* comparing its attempts with the limit, and nothing else exceeds it.      *)
AttemptsBoundedByCrashes ==
    \A e \in DOMAIN outbox : outbox[e].attempts <= MaxAttempts + crashes

(* With several workers a holder that was overtaken after a stale recovery  *)
(* still completes or fails the row by its id, and may give back a row that *)
(* another worker is processing or has completed.  This does not go on for  *)
(* ever: beyond the limit a row is claimed once more for each crash and for *)
(* each other worker that may hold it meanwhile, whoever ends it first.     *)
AttemptsBoundedByWorkers ==
    \A e \in DOMAIN outbox :
        outbox[e].attempts < MaxAttempts + crashes + Cardinality(Workers)

\* A row a technician's retry may still revive counts as given up, not done.
TaskOf(event) ==
    CASE event.status = "completed" -> "done"
      [] event.status = "dead_letter" -> "dead"
      [] OTHER -> "open"

Tasks == INSTANCE TaskQueue WITH
            MaxTasks <- MaxEvents,
            task <- [e \in DOMAIN outbox |-> TaskOf(outbox[e])]

(* With one worker process (the deployment of docker-compose.yml) the       *)
(* outbox implements TaskQueue: claims, failures with back-off, crashes and *)
(* stale recovery are invisible, and a row that was completed or            *)
(* dead-lettered is not worked on again.                                    *)
ImplementsTaskQueue == Tasks!TaskSpec
=============================================================================
