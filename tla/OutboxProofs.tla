---------------------------- MODULE OutboxProofs ----------------------------
(***************************************************************************)
(* What the statements of Outbox do to the table, for every table and every *)
(* value of the constants, and the type invariant of the queue protocol.    *)
(***************************************************************************)
EXTENDS Outbox, SequenceTheorems, FiniteSetTheorems, TLAPS

\* Rows are never deleted, and never change their kind or their step.
KeepsRows(q, r) ==
    /\ DOMAIN q \subseteq DOMAIN r
    /\ \A e \in DOMAIN q : r[e].kind = q[e].kind /\ r[e].step = q[e].step

\* No command row becomes completed.
KeepsCommandsOpen(q, r) ==
    \A e \in DOMAIN q :
        q[e].kind = CommandKind /\ q[e].status # "completed"
            => r[e].status # "completed"

\* A statement that updates rows in place.
Updates(q, r) ==
    /\ r \in Seq(Event)
    /\ DOMAIN r = DOMAIN q
    /\ KeepsRows(q, r)
-----------------------------------------------------------------------------
LEMMA MapIsSeq ==
    ASSUME NEW S, NEW q \in Seq(S), NEW f \in [DOMAIN q -> S]
    PROVE  /\ f \in Seq(S)
           /\ DOMAIN f = DOMAIN q
           /\ Len(f) = Len(q)
<1>1. Len(q) \in Nat /\ DOMAIN q = 1..Len(q)
    BY LenProperties
<1>2. f \in [1..Len(q) -> S]
    BY <1>1
<1>3. f \in Seq(S)
    BY <1>1, <1>2, SeqDef
<1>4. DOMAIN f = DOMAIN q
    BY <1>2, <1>1
<1>5. Len(f) = Len(q)
    BY <1>1, <1>3, <1>4, LenProperties
<1> QED BY <1>3, <1>4, <1>5

LEMMA WithStatusType ==
    ASSUME NEW event \in Event, NEW status \in EventStatus
    PROVE  /\ WithStatus(event, status) \in Event
           /\ WithStatus(event, status).kind = event.kind
           /\ WithStatus(event, status).step = event.step
           /\ WithStatus(event, status).status = status
           /\ WithStatus(event, status).attempts = event.attempts
    BY DEF WithStatus, Event

LEMMA EnqueuedRows ==
    ASSUME NEW q \in Seq(Event), NEW kind \in EventKinds,
           NEW s \in Steps \cup {NoStep}
    PROVE  LET r == Enqueued(q, kind, s) IN
           /\ r \in Seq(Event)
           /\ KeepsRows(q, r)
           /\ KeepsCommandsOpen(q, r)
           /\ DOMAIN r \ DOMAIN q # {}
           /\ \A e \in DOMAIN r \ DOMAIN q :
                 r[e].kind = kind /\ r[e].step = s /\ r[e].status = "pending"
<1> DEFINE new == [kind |-> kind, step |-> s, status |-> "pending",
                   attempts |-> 0, ripe |-> FALSE]
           r == Append(q, new)
<1>1. new \in Event
    BY DEF Event, EventStatus
<1>2. /\ r \in Seq(Event)
      /\ Len(r) = Len(q) + 1
      /\ \A i \in 1..Len(q) : r[i] = q[i]
      /\ r[Len(q) + 1] = new
    BY <1>1, AppendProperties
<1>3. /\ Len(q) \in Nat /\ DOMAIN q = 1..Len(q)
      /\ DOMAIN r = 1..Len(q) + 1
    BY <1>2, LenProperties
<1>4. Enqueued(q, kind, s) = r
    BY DEF Enqueued
<1> HIDE DEF r
<1>5. DOMAIN r \ DOMAIN q = {Len(q) + 1}
    BY <1>3
<1>6. KeepsRows(q, r) /\ KeepsCommandsOpen(q, r)
    BY <1>2, <1>3 DEF KeepsRows, KeepsCommandsOpen
<1> QED BY <1>2, <1>4, <1>5, <1>6

LEMMA CancelledRows ==
    ASSUME NEW q \in Seq(Event), NEW kind
    PROVE  LET r == Cancelled(q, kind) IN
           /\ Updates(q, r)
           /\ kind # CommandKind => KeepsCommandsOpen(q, r)
<1> DEFINE r == Cancelled(q, kind)
<1>1. \A e \in DOMAIN q : q[e] \in Event
    BY LenProperties
<1>2. \A e \in DOMAIN q : r[e] \in Event /\ r[e].kind = q[e].kind
                                          /\ r[e].step = q[e].step
    BY <1>1, WithStatusType DEF Cancelled, EventStatus
<1>3. r \in [DOMAIN q -> Event]
    BY <1>2 DEF Cancelled
<1>4. r \in Seq(Event) /\ DOMAIN r = DOMAIN q
    BY <1>3, MapIsSeq
<1>5. kind # CommandKind => KeepsCommandsOpen(q, r)
    BY <1>1 DEF KeepsCommandsOpen, Cancelled
<1> QED BY <1>2, <1>4, <1>5 DEF Updates, KeepsRows

LEMMA SupersededRows ==
    ASSUME NEW q \in Seq(Event)
    PROVE  LET r == Superseded(q) IN Updates(q, r) /\ KeepsCommandsOpen(q, r)
<1> DEFINE r == Superseded(q)
<1>1. \A e \in DOMAIN q : q[e] \in Event
    BY LenProperties
<1>2. \A e \in DOMAIN q : r[e] \in Event /\ r[e].kind = q[e].kind
                                          /\ r[e].step = q[e].step
    BY <1>1, WithStatusType DEF Superseded, EventStatus
<1>3. r \in [DOMAIN q -> Event]
    BY <1>2 DEF Superseded
<1>4. r \in Seq(Event) /\ DOMAIN r = DOMAIN q
    BY <1>3, MapIsSeq
<1>5. KeepsCommandsOpen(q, r)
    BY <1>1 DEF KeepsCommandsOpen, Superseded, CommandKind
<1> QED BY <1>2, <1>4, <1>5 DEF Updates, KeepsRows

LEMMA RecoveredRows ==
    ASSUME NEW q \in Seq(Event)
    PROVE  LET r == Recovered(q) IN Updates(q, r) /\ KeepsCommandsOpen(q, r)
<1> DEFINE r == Recovered(q)
<1>1. \A e \in DOMAIN q : q[e] \in Event
    BY LenProperties
<1>2. \A e \in DOMAIN q : r[e] \in Event /\ r[e].kind = q[e].kind
                                          /\ r[e].step = q[e].step
    BY <1>1, WithStatusType DEF Recovered, EventStatus
<1>3. r \in [DOMAIN q -> Event]
    BY <1>2 DEF Recovered
<1>4. r \in Seq(Event) /\ DOMAIN r = DOMAIN q
    BY <1>3, MapIsSeq
<1>5. KeepsCommandsOpen(q, r)
  <2> SUFFICES ASSUME NEW e \in DOMAIN q, q[e].status # "completed"
               PROVE  r[e].status # "completed"
      BY DEF KeepsCommandsOpen
  <2>1. WithStatus(q[e], "pending").status = "pending"
      BY <1>1, WithStatusType DEF EventStatus
  <2> QED BY <2>1 DEF Recovered
<1> QED BY <1>2, <1>4, <1>5 DEF Updates, KeepsRows

\* Every statement that updates the one row e.
LEMMA OneRowUpdate ==
    ASSUME NEW q \in Seq(Event), NEW e \in DOMAIN q, NEW r,
           r \in [DOMAIN q -> Event],
           r[e].kind = q[e].kind, r[e].step = q[e].step,
           \A f \in DOMAIN q : f # e => r[f] = q[f]
    PROVE  /\ Updates(q, r)
           /\ (q[e].status # "completed" => r[e].status # "completed")
                 => KeepsCommandsOpen(q, r)
<1>1. r \in Seq(Event) /\ DOMAIN r = DOMAIN q
    BY MapIsSeq
<1> QED BY <1>1 DEF Updates, KeepsRows, KeepsCommandsOpen

LEMMA ClaimedRows ==
    ASSUME NEW q \in Seq(Event), NEW e \in DOMAIN q
    PROVE  LET r == Claimed(q, e) IN Updates(q, r) /\ KeepsCommandsOpen(q, r)
<1> DEFINE event == [WithStatus(q[e], "processing")
                        EXCEPT !.attempts = q[e].attempts + 1]
           r == Claimed(q, e)
<1>1. q \in [DOMAIN q -> Event] /\ q[e] \in Event
    BY LenProperties
<1>2. q[e].attempts + 1 \in Nat /\ "processing" \in EventStatus
    BY <1>1 DEF Event, EventStatus
<1>3. WithStatus(q[e], "processing") \in Event
    BY <1>1, <1>2, WithStatusType
<1>4. /\ event \in Event
      /\ event.kind = q[e].kind /\ event.step = q[e].step
      /\ event.status = "processing"
  <2>1. event \in Event
      BY <1>2, <1>3 DEF Event
  <2> QED BY <2>1, <1>1, <1>2, <1>3, WithStatusType DEF Event
<1>5. /\ r \in [DOMAIN q -> Event]
      /\ r[e] = event
      /\ \A f \in DOMAIN q : f # e => r[f] = q[f]
    BY <1>1, <1>4 DEF Claimed
<1> HIDE DEF event, r
<1> QED BY <1>4, <1>5, OneRowUpdate DEF r

LEMMA CompletedRows ==
    ASSUME NEW q \in Seq(Event), NEW e \in DOMAIN q
    PROVE  LET r == Completed(q, e) IN
           /\ Updates(q, r)
           /\ \A f \in DOMAIN q : f # e => r[f] = q[f]
<1> DEFINE event == WithStatus(q[e], "completed")
           r == Completed(q, e)
<1>1. q \in [DOMAIN q -> Event] /\ q[e] \in Event
    BY LenProperties
<1>2. /\ event \in Event
      /\ event.kind = q[e].kind /\ event.step = q[e].step
    BY <1>1, WithStatusType DEF EventStatus
<1>3. /\ r \in [DOMAIN q -> Event]
      /\ r[e] = event
      /\ \A f \in DOMAIN q : f # e => r[f] = q[f]
    BY <1>1, <1>2 DEF Completed
<1> HIDE DEF event, r
<1> QED BY <1>2, <1>3, OneRowUpdate DEF r

LEMMA FailedRows ==
    ASSUME NEW q \in Seq(Event), NEW e \in DOMAIN q
    PROVE  LET r == Failed(q, e) IN Updates(q, r) /\ KeepsCommandsOpen(q, r)
<1> DEFINE status == IF q[e].attempts >= MaxAttempts
                     THEN "dead_letter" ELSE "failed"
           event == WithStatus(q[e], status)
           r == Failed(q, e)
<1>1. q \in [DOMAIN q -> Event] /\ q[e] \in Event
    BY LenProperties
<1>2. status \in EventStatus /\ status # "completed"
    BY DEF EventStatus
<1>3. r = [q EXCEPT ![e] = event]
    BY DEF Failed
<1> HIDE DEF status
<1>4. /\ event \in Event
      /\ event.kind = q[e].kind /\ event.step = q[e].step
      /\ event.status # "completed"
    BY <1>1, <1>2, WithStatusType
<1> HIDE DEF event
<1>5. /\ r \in [DOMAIN q -> Event]
      /\ r[e] = event
      /\ \A f \in DOMAIN q : f # e => r[f] = q[f]
    BY <1>1, <1>3, <1>4
<1> HIDE DEF r
<1> QED BY <1>4, <1>5, OneRowUpdate DEF r

LEMMA AgedRows ==
    ASSUME NEW q \in Seq(Event), NEW e \in DOMAIN q
    PROVE  LET r == Aged(q, e) IN Updates(q, r) /\ KeepsCommandsOpen(q, r)
<1> DEFINE event == [q[e] EXCEPT !.ripe = TRUE]
           r == Aged(q, e)
<1>1. q \in [DOMAIN q -> Event] /\ q[e] \in Event
    BY LenProperties
<1>2. /\ event \in Event
      /\ event.kind = q[e].kind /\ event.step = q[e].step
      /\ event.status = q[e].status
    BY <1>1 DEF Event
<1>3. r = [q EXCEPT ![e] = event]
    BY DEF Aged
<1> HIDE DEF event
<1>4. /\ r \in [DOMAIN q -> Event]
      /\ r[e] = event
      /\ \A f \in DOMAIN q : f # e => r[f] = q[f]
    BY <1>1, <1>2, <1>3
<1> HIDE DEF r
<1> QED BY <1>2, <1>4, OneRowUpdate DEF r
-----------------------------------------------------------------------------
(* The actions.                                                             *)

LEMMA ClaimEventRows ==
    ASSUME OutboxTypeOK, NEW w \in Workers, ClaimEvent(w)
    PROVE  /\ Updates(outbox, outbox')
           /\ KeepsCommandsOpen(outbox, outbox')
           /\ job'[w] \in DOMAIN outbox
           /\ job' = [job EXCEPT ![w] = job'[w]]
           /\ UNCHANGED crashes
<1> DEFINE q == Recovered(outbox)
<1>1. outbox \in Seq(Event) /\ job \in [Workers -> Nat]
    BY DEF OutboxTypeOK
<1>2. Updates(outbox, q) /\ KeepsCommandsOpen(outbox, q)
    BY <1>1, RecoveredRows
<1> HIDE DEF q
<1>3. PICK e \in DOMAIN outbox : /\ outbox' = Claimed(q, e)
                                 /\ job' = [job EXCEPT ![w] = e]
                                 /\ UNCHANGED crashes
    BY DEF ClaimEvent, q
<1>4. q \in Seq(Event) /\ e \in DOMAIN q
    BY <1>2 DEF Updates
<1>5. Updates(q, outbox') /\ KeepsCommandsOpen(q, outbox')
    BY <1>3, <1>4, ClaimedRows
<1>6. Updates(outbox, outbox') /\ KeepsCommandsOpen(outbox, outbox')
    BY <1>2, <1>5 DEF Updates, KeepsRows, KeepsCommandsOpen
<1>7. job'[w] = e
    BY <1>1, <1>3
<1> QED BY <1>3, <1>6, <1>7

LEMMA HeldRow ==
    ASSUME OutboxTypeOK, NEW w \in Workers, job[w] # 0
    PROVE  job[w] \in DOMAIN outbox
BY DEF OutboxTypeOK

LEMMA FreeRow ==
    ASSUME OutboxTypeOK
    PROVE  0 \notin DOMAIN outbox
BY LenProperties DEF OutboxTypeOK

\* Every action of Outbox leaves the table a sequence of events and keeps
\* every job a row of it.
LEMMA TypeFromRows ==
    ASSUME OutboxTypeOK,
           outbox' \in Seq(Event), KeepsRows(outbox, outbox'),
           job' \in [Workers -> Nat],
           \A w \in Workers : job'[w] \in DOMAIN outbox \cup {0, job[w]},
           crashes' \in Nat
    PROVE  OutboxTypeOK'
BY DEF OutboxTypeOK, KeepsRows

LEMMA SupersedeAndEnqueueRows ==
    ASSUME OutboxTypeOK,
           NEW r, r = Enqueued(Superseded(outbox), "agent.plan_requested", NoStep)
    PROVE  /\ r \in Seq(Event)
           /\ KeepsRows(outbox, r) /\ KeepsCommandsOpen(outbox, r)
           /\ \A e \in DOMAIN r \ DOMAIN outbox :
                 r[e].kind = "agent.plan_requested" /\ r[e].step = NoStep
<1> DEFINE q == Superseded(outbox)
<1>1. Updates(outbox, q) /\ KeepsCommandsOpen(outbox, q)
    BY SupersededRows DEF OutboxTypeOK
<1>2. q \in Seq(Event)
    BY <1>1 DEF Updates
<1>3. /\ r = Enqueued(q, "agent.plan_requested", NoStep)
      /\ "agent.plan_requested" \in EventKinds
    BY DEF EventKinds
<1> HIDE DEF q
<1>4. /\ r \in Seq(Event)
      /\ KeepsRows(q, r) /\ KeepsCommandsOpen(q, r)
      /\ \A e \in DOMAIN r \ DOMAIN q :
            r[e].kind = "agent.plan_requested" /\ r[e].step = NoStep
    BY <1>2, <1>3, EnqueuedRows
<1> QED BY <1>1, <1>4 DEF Updates, KeepsRows, KeepsCommandsOpen

LEMMA CancelAndEnqueueRows ==
    ASSUME OutboxTypeOK, NEW cancelled, NEW kind \in EventKinds,
           NEW s \in Steps \cup {NoStep},
           NEW r, r = Enqueued(Cancelled(outbox, cancelled), kind, s)
    PROVE  /\ r \in Seq(Event)
           /\ KeepsRows(outbox, r)
           /\ \A e \in DOMAIN r \ DOMAIN outbox :
                 r[e].kind = kind /\ r[e].step = s
<1> DEFINE q == Cancelled(outbox, cancelled)
<1>1. Updates(outbox, q)
    BY CancelledRows DEF OutboxTypeOK
<1>2. q \in Seq(Event)
    BY <1>1 DEF Updates
<1>3. r = Enqueued(q, kind, s)
    OBVIOUS
<1> HIDE DEF q
<1>4. /\ r \in Seq(Event)
      /\ KeepsRows(q, r)
      /\ \A e \in DOMAIN r \ DOMAIN q : r[e].kind = kind /\ r[e].step = s
    BY <1>2, <1>3, EnqueuedRows
<1> QED BY <1>1, <1>4 DEF Updates, KeepsRows

LEMMA OutboxTypeStep ==
    ASSUME OutboxTypeOK, [OutboxNext]_outboxVars
    PROVE  OutboxTypeOK'
<1> USE DEF OutboxTypeOK
<1>0. /\ outbox \in Seq(Event)
      /\ 0 \in Nat
      /\ DOMAIN outbox \subseteq Nat
    BY LenProperties
<1>1. ASSUME NEW kind \in EventKinds, NEW s \in Steps \cup {NoStep},
             EnqueueEvent(kind, s)
      PROVE  OutboxTypeOK'
    BY <1>0, <1>1, EnqueuedRows, TypeFromRows DEF EnqueueEvent
<1>2. ASSUME NEW kind \in EventKinds, CancelEvents(kind)
      PROVE  OutboxTypeOK'
    BY <1>0, <1>2, CancelledRows, TypeFromRows DEF CancelEvents, Updates
<1>3. CASE SupersedeAndEnqueue
    BY <1>3, SupersedeAndEnqueueRows, TypeFromRows DEF SupersedeAndEnqueue
<1>4. ASSUME NEW w \in Workers, ClaimEvent(w)
      PROVE  OutboxTypeOK'
    BY <1>0, <1>4, ClaimEventRows, TypeFromRows DEF Updates
<1>5. ASSUME NEW w \in Workers, CompleteEvent(w)
      PROVE  OutboxTypeOK'
    BY <1>0, <1>5, HeldRow, CompletedRows, TypeFromRows DEF CompleteEvent, Updates
<1>6. ASSUME NEW w \in Workers, FailEvent(w)
      PROVE  OutboxTypeOK'
    BY <1>0, <1>6, HeldRow, FailedRows, TypeFromRows DEF FailEvent, Updates
<1>7. ASSUME NEW w \in Workers, CrashWorker(w)
      PROVE  OutboxTypeOK'
    BY <1>7 DEF CrashWorker
<1>8. ASSUME NEW e \in DOMAIN outbox, Age(e)
      PROVE  OutboxTypeOK'
    BY <1>0, <1>8, AgedRows, TypeFromRows DEF Age, Updates
<1>9. CASE UNCHANGED outboxVars
    BY <1>9 DEF outboxVars
<1>10. ASSUME NEW s \in Steps \cup {NoStep},
              CancelAndEnqueue(DraftKind, SubmissionKind, s)
       PROVE  OutboxTypeOK'
    BY <1>0, <1>10, CancelAndEnqueueRows, TypeFromRows
       DEF CancelAndEnqueue, EventKinds
<1> QED BY <1>1, <1>2, <1>3, <1>4, <1>5, <1>6, <1>7, <1>8, <1>9, <1>10
        DEF OutboxNext

LEMMA OutboxNextKeepsRows ==
    ASSUME OutboxTypeOK, [OutboxNext]_outboxVars
    PROVE  KeepsRows(outbox, outbox')
<1>0. outbox \in Seq(Event)
    BY DEF OutboxTypeOK
<1>1. ASSUME NEW kind \in EventKinds, NEW s \in Steps \cup {NoStep},
             EnqueueEvent(kind, s)
      PROVE  KeepsRows(outbox, outbox')
    BY <1>0, <1>1, EnqueuedRows DEF EnqueueEvent
<1>2. ASSUME NEW kind \in EventKinds, CancelEvents(kind)
      PROVE  KeepsRows(outbox, outbox')
    BY <1>0, <1>2, CancelledRows DEF CancelEvents, Updates
<1>3. CASE SupersedeAndEnqueue
    BY <1>3, SupersedeAndEnqueueRows DEF SupersedeAndEnqueue
<1>9. ASSUME NEW s \in Steps \cup {NoStep},
             CancelAndEnqueue(DraftKind, SubmissionKind, s)
      PROVE  KeepsRows(outbox, outbox')
    BY <1>9, CancelAndEnqueueRows DEF CancelAndEnqueue, EventKinds
<1>4. ASSUME NEW w \in Workers, ClaimEvent(w)
      PROVE  KeepsRows(outbox, outbox')
    BY <1>4, ClaimEventRows DEF Updates
<1>5. ASSUME NEW w \in Workers, CompleteEvent(w)
      PROVE  KeepsRows(outbox, outbox')
    BY <1>0, <1>5, HeldRow, CompletedRows DEF CompleteEvent, Updates
<1>6. ASSUME NEW w \in Workers, FailEvent(w)
      PROVE  KeepsRows(outbox, outbox')
    BY <1>0, <1>6, HeldRow, FailedRows DEF FailEvent, Updates
<1>7. ASSUME NEW e \in DOMAIN outbox, Age(e)
      PROVE  KeepsRows(outbox, outbox')
    BY <1>0, <1>7, AgedRows DEF Age, Updates
<1>8. CASE UNCHANGED outbox
    BY <1>8 DEF KeepsRows
<1> QED BY <1>1, <1>2, <1>3, <1>4, <1>5, <1>6, <1>7, <1>8, <1>9
        DEF OutboxNext, CrashWorker, outboxVars

(* The table stays a table: every row keeps a status, a kind and a step of  *)
(* the schema, and every worker holds an existing row or none, whatever     *)
(* order the statements of PostgresRunStore run in.                         *)
THEOREM OutboxTypeCorrect == OutboxSpec => []OutboxTypeOK
<1>1. OutboxInit => OutboxTypeOK
    BY EmptySeq DEF OutboxInit, OutboxTypeOK
<1>2. OutboxTypeOK /\ [OutboxNext]_outboxVars => OutboxTypeOK'
    BY OutboxTypeStep
<1> QED BY <1>1, <1>2, PTL DEF OutboxSpec
-----------------------------------------------------------------------------
(* The rows a statement leaves.                                             *)

\* What each statement makes of a row, in the terms the attempts and the
\* abstract task of the row depend on.
LEMMA WithStatusFields ==
    ASSUME NEW event \in Event, NEW status
    PROVE  /\ WithStatus(event, status).status = status
           /\ WithStatus(event, status).attempts = event.attempts
    BY DEF WithStatus, Event

LEMMA RowType ==
    ASSUME NEW q \in Seq(Event), NEW e \in DOMAIN q
    PROVE  /\ q[e] \in Event
           /\ q[e].attempts \in Nat
           /\ q[e].status \in EventStatus
<1>1. q[e] \in Event
    BY LenProperties
<1> QED BY <1>1 DEF Event

LEMMA ClaimedRow ==
    ASSUME NEW q \in Seq(Event), NEW e \in DOMAIN q
    PROVE  /\ Claimed(q, e)[e].status = "processing"
           /\ Claimed(q, e)[e].attempts = q[e].attempts + 1
           /\ \A f \in DOMAIN q : f # e => Claimed(q, e)[f] = q[f]
<1> DEFINE event == [WithStatus(q[e], "processing")
                        EXCEPT !.attempts = q[e].attempts + 1]
<1>1. q \in [DOMAIN q -> Event] /\ q[e] \in Event
    BY LenProperties
<1>2. event.status = "processing" /\ event.attempts = q[e].attempts + 1
    BY <1>1 DEF WithStatus, Event
<1>3. Claimed(q, e) = [q EXCEPT ![e] = event]
    BY DEF Claimed
<1> HIDE DEF event
<1> QED BY <1>1, <1>2, <1>3

LEMMA CompletedRow ==
    ASSUME NEW q \in Seq(Event), NEW e \in DOMAIN q
    PROVE  /\ Completed(q, e)[e].status = "completed"
           /\ Completed(q, e)[e].attempts = q[e].attempts
           /\ \A f \in DOMAIN q : f # e => Completed(q, e)[f] = q[f]
<1>1. q \in [DOMAIN q -> Event] /\ q[e] \in Event
    BY LenProperties
<1>2. Completed(q, e) = [q EXCEPT ![e] = WithStatus(q[e], "completed")]
    BY DEF Completed
<1> QED BY <1>1, <1>2, WithStatusFields

LEMMA FailedRow ==
    ASSUME NEW q \in Seq(Event), NEW e \in DOMAIN q
    PROVE  /\ Failed(q, e)[e].status =
                  IF q[e].attempts >= MaxAttempts THEN "dead_letter" ELSE "failed"
           /\ Failed(q, e)[e].attempts = q[e].attempts
           /\ \A f \in DOMAIN q : f # e => Failed(q, e)[f] = q[f]
<1> DEFINE status == IF q[e].attempts >= MaxAttempts
                     THEN "dead_letter" ELSE "failed"
<1>1. q \in [DOMAIN q -> Event] /\ q[e] \in Event
    BY LenProperties
<1>2. Failed(q, e) = [q EXCEPT ![e] = WithStatus(q[e], status)]
    BY DEF Failed
<1> HIDE DEF status
<1>3. /\ Failed(q, e)[e].status = status
      /\ Failed(q, e)[e].attempts = q[e].attempts
      /\ \A f \in DOMAIN q : f # e => Failed(q, e)[f] = q[f]
    BY <1>1, <1>2, WithStatusFields
<1> QED BY <1>3 DEF status

LEMMA AgedRow ==
    ASSUME NEW q \in Seq(Event), NEW e \in DOMAIN q
    PROVE  /\ Aged(q, e)[e].status = q[e].status
           /\ Aged(q, e)[e].attempts = q[e].attempts
           /\ \A f \in DOMAIN q : f # e => Aged(q, e)[f] = q[f]
<1> DEFINE event == [q[e] EXCEPT !.ripe = TRUE]
<1>1. q \in [DOMAIN q -> Event] /\ q[e] \in Event
    BY LenProperties
<1>2. event.status = q[e].status /\ event.attempts = q[e].attempts
    BY <1>1 DEF Event
<1>3. Aged(q, e) = [q EXCEPT ![e] = event]
    BY DEF Aged
<1> HIDE DEF event
<1> QED BY <1>1, <1>2, <1>3

LEMMA EnqueuedRow ==
    ASSUME NEW q \in Seq(Event), NEW kind \in EventKinds,
           NEW s \in Steps \cup {NoStep}
    PROVE  LET r == Enqueued(q, kind, s) IN
           /\ \A e \in DOMAIN q : e \in DOMAIN r /\ r[e] = q[e]
           /\ \A e \in DOMAIN r \ DOMAIN q :
                 r[e].status = "pending" /\ r[e].attempts = 0
<1> DEFINE new == [kind |-> kind, step |-> s, status |-> "pending",
                   attempts |-> 0, ripe |-> FALSE]
           r == Append(q, new)
<1>1. new \in Event /\ new.status = "pending" /\ new.attempts = 0
    BY DEF Event, EventStatus
<1>2. Enqueued(q, kind, s) = r
    BY DEF Enqueued
<1> HIDE DEF new
<1>3. /\ r \in Seq(Event)
      /\ Len(r) = Len(q) + 1
      /\ \A i \in 1..Len(q) : r[i] = q[i]
      /\ r[Len(q) + 1] = new
    BY <1>1, AppendProperties
<1>4. /\ Len(q) \in Nat /\ DOMAIN q = 1..Len(q)
      /\ DOMAIN r = 1..Len(q) + 1
    BY <1>3, LenProperties
<1> HIDE DEF r
<1>5. DOMAIN r \ DOMAIN q = {Len(q) + 1}
    BY <1>4
<1> QED BY <1>1, <1>2, <1>3, <1>4, <1>5

LEMMA EnqueuedOne ==
    ASSUME NEW q \in Seq(Event), NEW kind \in EventKinds,
           NEW s \in Steps \cup {NoStep}
    PROVE  \A e, f \in DOMAIN Enqueued(q, kind, s) \ DOMAIN q : e = f
<1> DEFINE new == [kind |-> kind, step |-> s, status |-> "pending",
                   attempts |-> 0, ripe |-> FALSE]
           r == Append(q, new)
<1>1. new \in Event
    BY DEF Event, EventStatus
<1> HIDE DEF new
<1>2. r \in Seq(Event) /\ Len(r) = Len(q) + 1
    BY <1>1, AppendProperties
<1>3. /\ Len(q) \in Nat /\ DOMAIN q = 1..Len(q)
      /\ DOMAIN r = 1..Len(q) + 1
    BY <1>2, LenProperties
<1> HIDE DEF r
<1>4. DOMAIN r \ DOMAIN q = {Len(q) + 1}
    BY <1>3
<1> QED BY <1>4 DEF Enqueued, r, new

\* A row is either untouched by a statement on several rows or gets a new
\* status; its attempts stay.
LEMMA StatementRow ==
    ASSUME NEW q \in Seq(Event), NEW e \in DOMAIN q
    PROVE  /\ \A kind :
                 LET new == Cancelled(q, kind)[e] IN
                 /\ new.attempts = q[e].attempts
                 /\ new.status # q[e].status =>
                       q[e].status = "pending" /\ new.status = "completed"
           /\ LET new == Superseded(q)[e] IN
                 /\ new.attempts = q[e].attempts
                 /\ new.status # q[e].status =>
                       /\ q[e].status \in {"failed", "dead_letter"}
                       /\ new.status = "completed"
           /\ LET new == Recovered(q)[e] IN
                 /\ new.attempts = q[e].attempts
                 /\ new.status # q[e].status =>
                       q[e].status = "processing" /\ new.status = "pending"
<1>1. q[e] \in Event
    BY LenProperties
<1>2. \A status : /\ WithStatus(q[e], status).status = status
                  /\ WithStatus(q[e], status).attempts = q[e].attempts
    BY <1>1, WithStatusFields
<1>3. \A kind : LET new == Cancelled(q, kind)[e] IN
                 /\ new.attempts = q[e].attempts
                 /\ new.status # q[e].status =>
                       q[e].status = "pending" /\ new.status = "completed"
    BY <1>2 DEF Cancelled
<1>4. LET new == Superseded(q)[e] IN
                 /\ new.attempts = q[e].attempts
                 /\ new.status # q[e].status =>
                       /\ q[e].status \in {"failed", "dead_letter"}
                       /\ new.status = "completed"
    BY <1>2 DEF Superseded
<1>5. LET new == Recovered(q)[e] IN
                 /\ new.attempts = q[e].attempts
                 /\ new.status # q[e].status =>
                       q[e].status = "processing" /\ new.status = "pending"
    BY <1>2 DEF Recovered
<1> QED BY <1>3, <1>4, <1>5

\* The steps of the queue that are no worker's.
NoWorkerStep ==
    \/ \E kind \in EventKinds, s \in Steps \cup {NoStep} : EnqueueEvent(kind, s)
    \/ \E kind \in EventKinds : CancelEvents(kind)
    \/ SupersedeAndEnqueue
    \/ \E s \in Steps \cup {NoStep} : CancelAndEnqueue(DraftKind, SubmissionKind, s)
    \/ \E e \in DOMAIN outbox : Age(e)
    \/ UNCHANGED outboxVars

\* They move no worker; an old row keeps its attempts, and its status too
\* unless it was not being processed and becomes completed.
LEMMA NoWorkerRows ==
    ASSUME OutboxTypeOK, NoWorkerStep
    PROVE  /\ UNCHANGED <<job, crashes>>
           /\ \A e \in DOMAIN outbox :
                 /\ outbox'[e].attempts = outbox[e].attempts
                 /\ outbox'[e].status # outbox[e].status =>
                       outbox[e].status # "processing" /\ outbox'[e].status = "completed"
           /\ \A e \in DOMAIN outbox' \ DOMAIN outbox :
                 outbox'[e].status = "pending" /\ outbox'[e].attempts = 0
<1> DEFINE Rows(q, r) ==
        /\ \A e \in DOMAIN q :
              /\ r[e].attempts = q[e].attempts
              /\ r[e].status # q[e].status =>
                    q[e].status # "processing" /\ r[e].status = "completed"
        /\ \A e \in DOMAIN r \ DOMAIN q : r[e].status = "pending" /\ r[e].attempts = 0
<1>1. /\ outbox \in Seq(Event)
      /\ Superseded(outbox) \in Seq(Event)
      /\ DOMAIN Superseded(outbox) = DOMAIN outbox
      /\ \A kind : /\ Cancelled(outbox, kind) \in Seq(Event)
                   /\ DOMAIN Cancelled(outbox, kind) = DOMAIN outbox
    BY SupersededRows, CancelledRows DEF OutboxTypeOK, Updates
<1>2. Rows(outbox, Superseded(outbox)) /\ \A kind : Rows(outbox, Cancelled(outbox, kind))
    BY <1>1, StatementRow
<1>3. ASSUME NEW q \in Seq(Event), NEW kind \in EventKinds, NEW s \in Steps \cup {NoStep},
             DOMAIN q = DOMAIN outbox, Rows(outbox, q),
             outbox' = Enqueued(q, kind, s)
      PROVE  Rows(outbox, outbox')
  <2>1. /\ \A e \in DOMAIN q : e \in DOMAIN outbox' /\ outbox'[e] = q[e]
        /\ \A e \in DOMAIN outbox' \ DOMAIN q :
              outbox'[e].status = "pending" /\ outbox'[e].attempts = 0
      BY <1>3, EnqueuedRow
  <2> QED BY <1>3, <2>1
<1>4. ASSUME NEW kind \in EventKinds, NEW s \in Steps \cup {NoStep},
             EnqueueEvent(kind, s)
      PROVE  Rows(outbox, outbox') /\ UNCHANGED <<job, crashes>>
    BY <1>1, <1>3, <1>4 DEF EnqueueEvent
<1>5. ASSUME NEW kind \in EventKinds, CancelEvents(kind)
      PROVE  Rows(outbox, outbox') /\ UNCHANGED <<job, crashes>>
    BY <1>2, <1>5 DEF CancelEvents
<1>6. CASE SupersedeAndEnqueue
    BY <1>1, <1>2, <1>3, <1>6 DEF SupersedeAndEnqueue, EventKinds
<1>7. ASSUME NEW s \in Steps \cup {NoStep},
             CancelAndEnqueue(DraftKind, SubmissionKind, s)
      PROVE  Rows(outbox, outbox') /\ UNCHANGED <<job, crashes>>
    BY <1>1, <1>2, <1>3, <1>7 DEF CancelAndEnqueue, EventKinds
<1>8. ASSUME NEW e \in DOMAIN outbox, Age(e)
      PROVE  Rows(outbox, outbox') /\ UNCHANGED <<job, crashes>>
    BY <1>1, <1>8, AgedRow, AgedRows DEF Age, Updates
<1>9. CASE UNCHANGED outboxVars
    BY <1>9 DEF outboxVars
<1> QED BY <1>4, <1>5, <1>6, <1>7, <1>8, <1>9 DEF NoWorkerStep

\* Every other step is a worker's claim, or its release of the row it holds.
LEMMA ClaimRows ==
    ASSUME OutboxTypeOK, NEW w \in Workers, ClaimEvent(w)
    PROVE  /\ job[w] = 0 /\ UNCHANGED crashes
           /\ \E e \in DOMAIN outbox :
                 /\ job' = [job EXCEPT ![w] = e]
                 /\ outbox[e].status \in {"pending", "failed", "processing"}
                 /\ outbox'[e].status = "processing"
                 /\ outbox'[e].attempts = outbox[e].attempts + 1
                 /\ DOMAIN outbox' = DOMAIN outbox
                 /\ \A f \in DOMAIN outbox \ {e} :
                       /\ outbox'[f].attempts = outbox[f].attempts
                       /\ outbox'[f].status # outbox[f].status =>
                             /\ outbox[f].status = "processing"
                             /\ outbox'[f].status = "pending"
<1> DEFINE q == Recovered(outbox)
<1>1. PICK e \in DOMAIN outbox : /\ e \in Claimable(q)
                                 /\ outbox' = Claimed(q, e)
                                 /\ job' = [job EXCEPT ![w] = e]
    BY DEF ClaimEvent
<1>2. outbox \in Seq(Event) /\ q \in Seq(Event) /\ DOMAIN q = DOMAIN outbox
    BY RecoveredRows DEF OutboxTypeOK, Updates
<1>3. \A f \in DOMAIN outbox :
         /\ q[f].attempts = outbox[f].attempts
         /\ q[f].status # outbox[f].status =>
               outbox[f].status = "processing" /\ q[f].status = "pending"
    BY <1>2, StatementRow
<1>4. q[e].status \in {"pending", "failed"}
    BY <1>1 DEF Claimable
<1> HIDE DEF q
<1>5. /\ outbox'[e].status = "processing"
      /\ outbox'[e].attempts = q[e].attempts + 1
      /\ \A f \in DOMAIN outbox : f # e => outbox'[f] = q[f]
      /\ DOMAIN outbox' = DOMAIN outbox
    BY <1>1, <1>2, ClaimedRow, ClaimedRows DEF Updates
<1>6. outbox[e].status \in {"pending", "failed", "processing"}
    BY <1>3, <1>4
<1>7. outbox'[e].attempts = outbox[e].attempts + 1
    BY <1>3, <1>5
<1>8. \A f \in DOMAIN outbox \ {e} :
         /\ outbox'[f].attempts = outbox[f].attempts
         /\ outbox'[f].status # outbox[f].status =>
               outbox[f].status = "processing" /\ outbox'[f].status = "pending"
    BY <1>3, <1>5
<1> QED BY <1>1, <1>5, <1>6, <1>7, <1>8 DEF ClaimEvent

LEMMA ReleaseRows ==
    ASSUME OutboxTypeOK, NEW w \in Workers,
           CompleteEvent(w) \/ FailEvent(w) \/ CrashWorker(w)
    PROVE  /\ job[w] \in DOMAIN outbox
           /\ job' = [job EXCEPT ![w] = 0]
           /\ DOMAIN outbox' = DOMAIN outbox
           /\ \A f \in DOMAIN outbox :
                 /\ f # job[w] => outbox'[f] = outbox[f]
                 /\ outbox'[f].attempts = outbox[f].attempts
           /\ \/ crashes' = crashes + 1 /\ outbox' = outbox
              \/ /\ crashes' = crashes
                 /\ outbox'[job[w]].status \notin {"pending", "processing"}
                 /\ outbox'[job[w]].status = "failed"
                       => outbox[job[w]].attempts < MaxAttempts
<1>1. job[w] \in DOMAIN outbox /\ outbox \in Seq(Event)
    BY HeldRow DEF CompleteEvent, FailEvent, CrashWorker, OutboxTypeOK
<1>2. CASE CompleteEvent(w)
    BY <1>1, <1>2, CompletedRow, CompletedRows DEF CompleteEvent, Updates
<1>3. CASE FailEvent(w)
  <2>1. /\ DOMAIN outbox' = DOMAIN outbox
        /\ outbox'[job[w]].status =
              IF outbox[job[w]].attempts >= MaxAttempts THEN "dead_letter" ELSE "failed"
        /\ outbox'[job[w]].attempts = outbox[job[w]].attempts
        /\ \A f \in DOMAIN outbox : f # job[w] => outbox'[f] = outbox[f]
      BY <1>1, <1>3, FailedRow, FailedRows DEF FailEvent, Updates
  <2>2. /\ outbox'[job[w]].status \notin {"pending", "processing"}
        /\ outbox'[job[w]].status = "failed" => outbox[job[w]].attempts < MaxAttempts
    <3>1. outbox[job[w]].attempts \in Nat /\ MaxAttempts \in Nat
        BY <1>1, RowType, OutboxAssumption
    <3> QED BY <2>1, <3>1
  <2>3. crashes' = crashes /\ job' = [job EXCEPT ![w] = 0]
      BY <1>3 DEF FailEvent
  <2> QED BY <1>1, <2>1, <2>2, <2>3
<1>4. CASE CrashWorker(w)
    BY <1>1, <1>4 DEF CrashWorker
<1> QED BY <1>2, <1>3, <1>4
-----------------------------------------------------------------------------
(* The attempts of a row.                                                   *)

Holders(e) == {w \in Workers : job[w] = e}

\* Beyond the limit a row is only open while each further claim is accounted
\* for by a crash or by a worker that still holds it: the first holder that
\* ends the row closes it.
ClaimsLeft ==
    \A e \in DOMAIN outbox :
        /\ outbox[e].attempts < MaxAttempts + crashes + Cardinality(Workers)
        /\ outbox[e].status = "failed" => outbox[e].attempts < MaxAttempts
        /\ outbox[e].status \in {"pending", "processing"}
              => outbox[e].attempts < MaxAttempts + crashes + Cardinality(Holders(e))

ClaimInv == OutboxTypeOK /\ ClaimsLeft

LEMMA HoldersAreFinite ==
    ASSUME IsFiniteSet(Workers), NEW e
    PROVE  /\ IsFiniteSet(Holders(e))
           /\ Cardinality(Holders(e)) \in Nat /\ Cardinality(Workers) \in Nat
           /\ Cardinality(Holders(e)) <= Cardinality(Workers)
<1>1. Holders(e) \in SUBSET Workers
    BY DEF Holders
<1> QED BY <1>1, FS_Subset, FS_CardinalityType

LEMMA HoldersJoin ==
    ASSUME IsFiniteSet(Workers), job \in [Workers -> Nat], NEW w \in Workers,
           NEW e, job[w] # e, job'[w] = e, job' = [job EXCEPT ![w] = e]
    PROVE  Cardinality(Holders(e))' = Cardinality(Holders(e)) + 1
<1>1. w \notin Holders(e) /\ Holders(e)' = Holders(e) \cup {w}
    BY DEF Holders
<1> QED BY <1>1, HoldersAreFinite, FS_AddElement

LEMMA HoldersLeave ==
    ASSUME IsFiniteSet(Workers), job \in [Workers -> Nat], NEW w \in Workers,
           job[w] # 0, job' = [job EXCEPT ![w] = 0]
    PROVE  Cardinality(Holders(job[w])) =
               Cardinality({v \in Workers : job'[v] = job[w]}) + 1
<1> DEFINE e == job[w]
           Left == {v \in Workers : job'[v] = e}
<1>1. w \notin Left /\ Holders(e) = Left \cup {w}
    BY DEF Holders
<1>2. IsFiniteSet(Left)
    BY FS_Subset
<1> HIDE DEF Left, e
<1> QED BY <1>1, <1>2, FS_AddElement DEF Left, e

LEMMA ClaimInvNoWorker ==
    ASSUME IsFiniteSet(Workers), ClaimInv, OutboxTypeOK', NoWorkerStep
    PROVE  ClaimsLeft'
<1>1. /\ MaxAttempts \in Nat \ {0} /\ crashes \in Nat
      /\ \A e : Cardinality(Holders(e)) \in Nat /\ Cardinality(Workers) \in Nat
    BY OutboxAssumption, HoldersAreFinite DEF ClaimInv, OutboxTypeOK
<1>2. \A e : Holders(e)' = Holders(e)
    BY NoWorkerRows DEF Holders, ClaimInv
<1> SUFFICES ASSUME NEW e \in DOMAIN outbox'
             PROVE  /\ outbox'[e].attempts < MaxAttempts + crashes + Cardinality(Workers)
                    /\ outbox'[e].status = "failed" => outbox'[e].attempts < MaxAttempts
                    /\ outbox'[e].status \in {"pending", "processing"}
                          => outbox'[e].attempts
                                < MaxAttempts + crashes + Cardinality(Holders(e))
    BY <1>2, NoWorkerRows DEF ClaimsLeft, ClaimInv
<1>3. CASE e \in DOMAIN outbox
    BY <1>3, NoWorkerRows DEF ClaimInv, ClaimsLeft
<1>4. CASE e \notin DOMAIN outbox
    BY <1>1, <1>4, NoWorkerRows DEF ClaimInv
<1> QED BY <1>3, <1>4

LEMMA ClaimInvClaim ==
    ASSUME IsFiniteSet(Workers), ClaimInv, OutboxTypeOK', NEW w \in Workers, ClaimEvent(w)
    PROVE  ClaimsLeft'
<1>0. OutboxTypeOK /\ ClaimsLeft
    BY DEF ClaimInv
<1>1. /\ MaxAttempts \in Nat \ {0} /\ crashes \in Nat /\ job \in [Workers -> Nat]
      /\ outbox \in Seq(Event) /\ 0 \notin DOMAIN outbox
      /\ \A f \in DOMAIN outbox : outbox[f].attempts \in Nat
    BY <1>0, OutboxAssumption, FreeRow, RowType DEF OutboxTypeOK
<1>2. /\ job[w] = 0 /\ UNCHANGED crashes
      /\ \E e \in DOMAIN outbox :
            /\ job' = [job EXCEPT ![w] = e]
            /\ outbox[e].status \in {"pending", "failed", "processing"}
            /\ outbox'[e].status = "processing"
            /\ outbox'[e].attempts = outbox[e].attempts + 1
            /\ DOMAIN outbox' = DOMAIN outbox
            /\ \A f \in DOMAIN outbox \ {e} :
                  /\ outbox'[f].attempts = outbox[f].attempts
                  /\ outbox'[f].status # outbox[f].status =>
                        /\ outbox[f].status = "processing"
                        /\ outbox'[f].status = "pending"
    BY <1>0, ClaimRows
<1>3. PICK e \in DOMAIN outbox :
            /\ job' = [job EXCEPT ![w] = e]
            /\ outbox[e].status \in {"pending", "failed", "processing"}
            /\ outbox'[e].status = "processing"
            /\ outbox'[e].attempts = outbox[e].attempts + 1
            /\ DOMAIN outbox' = DOMAIN outbox
            /\ \A f \in DOMAIN outbox \ {e} :
                  /\ outbox'[f].attempts = outbox[f].attempts
                  /\ outbox'[f].status # outbox[f].status =>
                        /\ outbox[f].status = "processing"
                        /\ outbox'[f].status = "pending"
    BY <1>2
<1>4. job'[w] = e /\ job[w] # e
    BY <1>1, <1>2, <1>3
<1>5. /\ Cardinality(Holders(e))' = Cardinality(Holders(e)) + 1
      /\ Cardinality(Holders(e)) \in Nat /\ Cardinality(Workers) \in Nat
      /\ Cardinality(Holders(e))' <= Cardinality(Workers)
  <2>1. Cardinality(Holders(e))' = Cardinality(Holders(e)) + 1
      BY <1>1, <1>3, <1>4, HoldersJoin
  <2>2. Holders(e)' \in SUBSET Workers
      BY DEF Holders
  <2>3. Cardinality(Holders(e)') <= Cardinality(Workers)
      BY <2>2, FS_Subset
  <2> QED BY <2>1, <2>3, HoldersAreFinite
<1>6. outbox[e].attempts < MaxAttempts + crashes + Cardinality(Holders(e))
    BY <1>0, <1>1, <1>3, <1>5 DEF ClaimsLeft
<1> SUFFICES ASSUME NEW f \in DOMAIN outbox
             PROVE  /\ outbox'[f].attempts < MaxAttempts + crashes + Cardinality(Workers)
                    /\ outbox'[f].status = "failed" => outbox'[f].attempts < MaxAttempts
                    /\ outbox'[f].status \in {"pending", "processing"}
                          => outbox'[f].attempts
                                < MaxAttempts + crashes + Cardinality(Holders(f))'
    BY <1>2, <1>3 DEF ClaimsLeft
<1>7. CASE f = e
    BY <1>1, <1>3, <1>5, <1>6, <1>7
<1>8. CASE f # e
  <2>1. Holders(f)' = Holders(f)
      BY <1>1, <1>2, <1>3, <1>8 DEF Holders
  <2> QED BY <1>0, <1>3, <1>8, <2>1 DEF ClaimsLeft
<1> QED BY <1>7, <1>8

LEMMA ClaimInvRelease ==
    ASSUME IsFiniteSet(Workers), ClaimInv, OutboxTypeOK', NEW w \in Workers,
           CompleteEvent(w) \/ FailEvent(w) \/ CrashWorker(w)
    PROVE  ClaimsLeft'
<1> DEFINE e == job[w]
<1>0. OutboxTypeOK /\ ClaimsLeft
    BY DEF ClaimInv
<1>1. /\ MaxAttempts \in Nat \ {0} /\ crashes \in Nat /\ crashes' \in Nat
      /\ job \in [Workers -> Nat] /\ outbox \in Seq(Event) /\ 0 \notin DOMAIN outbox
      /\ \A f \in DOMAIN outbox : outbox[f].attempts \in Nat
    BY <1>0, OutboxAssumption, FreeRow, RowType DEF OutboxTypeOK
<1>2. /\ e \in DOMAIN outbox
      /\ job' = [job EXCEPT ![w] = 0]
      /\ DOMAIN outbox' = DOMAIN outbox
      /\ \A f \in DOMAIN outbox :
            /\ f # e => outbox'[f] = outbox[f]
            /\ outbox'[f].attempts = outbox[f].attempts
      /\ \/ crashes' = crashes + 1 /\ outbox' = outbox
         \/ /\ crashes' = crashes
            /\ outbox'[e].status \notin {"pending", "processing"}
            /\ outbox'[e].status = "failed" => outbox[e].attempts < MaxAttempts
    BY <1>0, ReleaseRows
<1>3. e # 0
    BY <1>1, <1>2
<1> SUFFICES ASSUME NEW f \in DOMAIN outbox
             PROVE  /\ outbox'[f].attempts < MaxAttempts + crashes' + Cardinality(Workers)
                    /\ outbox'[f].status = "failed" => outbox'[f].attempts < MaxAttempts
                    /\ outbox'[f].status \in {"pending", "processing"}
                          => outbox'[f].attempts
                                < MaxAttempts + crashes' + Cardinality(Holders(f)')
    BY <1>2 DEF ClaimsLeft
<1>4. /\ Cardinality(Holders(f)) \in Nat /\ Cardinality(Holders(f)') \in Nat
      /\ Cardinality(Workers) \in Nat
    BY HoldersAreFinite, FS_Subset, FS_CardinalityType DEF Holders
<1>5. CASE f = e
  <2>1. Cardinality(Holders(f)) = Cardinality(Holders(f)') + 1
      BY <1>1, <1>2, <1>3, <1>5, HoldersLeave DEF Holders
  <2> HIDE DEF e
  <2> QED BY <1>0, <1>1, <1>2, <1>4, <1>5, <2>1 DEF ClaimsLeft
<1>6. CASE f # e
  <2>1. Holders(f)' = Holders(f)
      BY <1>1, <1>2, <1>6 DEF Holders
  <2> HIDE DEF e
  <2> QED BY <1>0, <1>1, <1>2, <1>4, <1>6, <2>1 DEF ClaimsLeft
<1> QED BY <1>5, <1>6

LEMMA ClaimInvCorrect == IsFiniteSet(Workers) => (OutboxSpec => []ClaimInv)
<1> SUFFICES ASSUME IsFiniteSet(Workers)
             PROVE  OutboxSpec => []ClaimInv
    OBVIOUS
<1>1. OutboxInit => ClaimInv
    BY EmptySeq DEF OutboxInit, OutboxTypeOK, ClaimInv, ClaimsLeft
<1>2. ClaimInv /\ [OutboxNext]_outboxVars => ClaimInv'
  <2> SUFFICES ASSUME ClaimInv, [OutboxNext]_outboxVars
               PROVE  ClaimInv'
      OBVIOUS
  <2>1. OutboxTypeOK'
      BY OutboxTypeStep DEF ClaimInv
  <2>2. ClaimsLeft'
      BY <2>1, ClaimInvNoWorker, ClaimInvClaim, ClaimInvRelease DEF OutboxNext, NoWorkerStep
  <2> QED BY <2>1, <2>2 DEF ClaimInv
<1> QED BY <1>1, <1>2, PTL DEF OutboxSpec

(* With any number of worker processes, stale claims, overtaken holders and *)
(* crashes, a row is claimed fewer than MaxAttempts times plus the crashes  *)
(* and the workers: a holder that was overtaken gives the row back only     *)
(* below the limit, and beyond it the first one to end the row closes it.   *)
THEOREM AttemptsBoundedByWorkersCorrect ==
    IsFiniteSet(Workers) => (OutboxSpec => []AttemptsBoundedByWorkers)
<1> SUFFICES ASSUME IsFiniteSet(Workers)
             PROVE  OutboxSpec => []AttemptsBoundedByWorkers
    OBVIOUS
<1>1. ClaimInv => AttemptsBoundedByWorkers
    BY DEF ClaimInv, ClaimsLeft, AttemptsBoundedByWorkers
<1> QED BY <1>1, ClaimInvCorrect, PTL
-----------------------------------------------------------------------------
(* One worker process: the deployment of docker-compose.yml.                *)

OneWorker == \A v, w \in Workers : v = w

LEMMA OneWorkerIsFinite ==
    ASSUME OneWorker
    PROVE  IsFiniteSet(Workers) /\ Cardinality(Workers) \in {0, 1}
<1>1. CASE Workers = {}
    BY <1>1, FS_EmptySet
<1>2. CASE Workers # {}
  <2>1. PICK w \in Workers : Workers = {w}
      BY <1>2 DEF OneWorker
  <2> QED BY <2>1, FS_Singleton
<1> QED BY <1>1, <1>2

(* With one worker process a row is claimed at most MaxAttempts times, and  *)
(* once more for each crash.                                                *)
THEOREM AttemptsBoundedCorrect ==
    OneWorker => (OutboxSpec => []AttemptsBoundedByCrashes)
<1> SUFFICES ASSUME OneWorker
             PROVE  OutboxSpec => []AttemptsBoundedByCrashes
    OBVIOUS
<1>1. OutboxTypeOK /\ AttemptsBoundedByWorkers => AttemptsBoundedByCrashes
  <2> SUFFICES ASSUME OutboxTypeOK, AttemptsBoundedByWorkers, NEW e \in DOMAIN outbox
               PROVE  outbox[e].attempts <= MaxAttempts + crashes
      BY DEF AttemptsBoundedByCrashes
  <2>1. /\ outbox[e].attempts \in Nat /\ crashes \in Nat
        /\ MaxAttempts \in Nat /\ Cardinality(Workers) \in {0, 1}
      BY RowType, OutboxAssumption, OneWorkerIsFinite DEF OutboxTypeOK
  <2>2. outbox[e].attempts < MaxAttempts + crashes + Cardinality(Workers)
      BY DEF AttemptsBoundedByWorkers
  <2> QED BY <2>1, <2>2
<1>2. OutboxSpec => []AttemptsBoundedByWorkers
    BY OneWorkerIsFinite, AttemptsBoundedByWorkersCorrect
<1> QED BY <1>1, <1>2, OutboxTypeCorrect, PTL

\* The row a worker holds is being processed: nothing recovers it while its
\* worker is alive, because only an idle worker recovers rows.
HeldRowIsProcessing ==
    \A w \in Workers : job[w] # 0 => outbox[job[w]].status = "processing"

QueueInv == OutboxTypeOK /\ HeldRowIsProcessing

LEMMA HeldRowStep ==
    ASSUME OneWorker, QueueInv, [OutboxNext]_outboxVars
    PROVE  HeldRowIsProcessing'
<1>1. OutboxTypeOK /\ job \in [Workers -> Nat]
    BY DEF QueueInv, OutboxTypeOK
<1>2. CASE NoWorkerStep
  <2>1. \A v \in Workers : job[v] # 0 => job[v] \in DOMAIN outbox
      BY <1>1, HeldRow
  <2> QED BY <1>1, <1>2, <2>1, NoWorkerRows DEF QueueInv, HeldRowIsProcessing
<1>3. ASSUME NEW w \in Workers, ClaimEvent(w)
      PROVE  HeldRowIsProcessing'
  <2>1. PICK e : job' = [job EXCEPT ![w] = e] /\ outbox'[e].status = "processing"
      BY <1>1, <1>3, ClaimRows
  <2>2. \A v \in Workers : job'[v] = e
      BY <1>1, <2>1 DEF OneWorker
  <2> QED BY <2>1, <2>2 DEF HeldRowIsProcessing
<1>4. ASSUME NEW w \in Workers, CompleteEvent(w) \/ FailEvent(w) \/ CrashWorker(w)
      PROVE  HeldRowIsProcessing'
  <2>1. \A v \in Workers : job'[v] = 0
      BY <1>1, <1>4, ReleaseRows DEF OneWorker
  <2> QED BY <2>1 DEF HeldRowIsProcessing
<1> QED BY <1>2, <1>3, <1>4 DEF OutboxNext, NoWorkerStep

LEMMA QueueInvCorrect == OneWorker => (OutboxSpec => []QueueInv)
<1> SUFFICES ASSUME OneWorker
             PROVE  OutboxSpec => []QueueInv
    OBVIOUS
<1>1. OutboxInit => HeldRowIsProcessing
    BY DEF OutboxInit, HeldRowIsProcessing
<1>2. OutboxTypeOK /\ HeldRowIsProcessing /\ [OutboxNext]_outboxVars
          => HeldRowIsProcessing'
    BY HeldRowStep DEF QueueInv
<1> QED BY <1>1, <1>2, OutboxTypeCorrect, PTL DEF OutboxSpec, QueueInv
-----------------------------------------------------------------------------
(* The refinement of TaskQueue, for one worker process.                     *)

\* The tasks an observer of the table q sees.
View(q) == [e \in DOMAIN q |-> TaskOf(q[e])]

LEMMA ViewEnqueued ==
    ASSUME NEW q \in Seq(Event), NEW kind \in EventKinds,
           NEW s \in Steps \cup {NoStep}
    PROVE  /\ View(Enqueued(q, kind, s)) = Append(View(q), "open")
           /\ Len(View(q)) = Len(q)
           /\ DOMAIN View(q) = DOMAIN q
<1> DEFINE new == [kind |-> kind, step |-> s, status |-> "pending",
                   attempts |-> 0, ripe |-> FALSE]
           r == Append(q, new)
           Shown == {"done", "dead", "open"}
<1>1. new \in Event /\ TaskOf(new) = "open"
    BY DEF Event, EventStatus, TaskOf
<1>2. Enqueued(q, kind, s) = r
    BY DEF Enqueued
<1> HIDE DEF new
<1>3. /\ r \in Seq(Event)
      /\ Len(r) = Len(q) + 1
      /\ \A i \in 1..Len(q) : r[i] = q[i]
      /\ r[Len(q) + 1] = new
    BY <1>1, AppendProperties
<1>4. /\ Len(q) \in Nat /\ DOMAIN q = 1..Len(q)
      /\ DOMAIN r = 1..Len(q) + 1
    BY <1>3, LenProperties
<1>5. \A event : TaskOf(event) \in Shown
    BY DEF TaskOf
<1>6. View(q) \in [DOMAIN q -> Shown]
    BY <1>5 DEF View
<1> HIDE DEF r, Shown
<1>7. /\ View(q) \in Seq(Shown)
      /\ DOMAIN View(q) = DOMAIN q
      /\ Len(View(q)) = Len(q)
    BY <1>6, MapIsSeq
<1>8. "open" \in Shown
    BY DEF Shown
<1> DEFINE a == Append(View(q), "open")
<1>9. /\ a \in Seq(Shown)
      /\ Len(a) = Len(q) + 1
      /\ \A i \in 1..Len(q) : a[i] = View(q)[i]
      /\ a[Len(q) + 1] = "open"
    BY <1>7, <1>8, AppendProperties
<1>10. a \in [1..Len(q) + 1 -> Shown]
    BY <1>9, LenProperties
<1> HIDE DEF a
<1>11. \A i \in 1..Len(q) + 1 : View(r)[i] = a[i]
  <2> SUFFICES ASSUME NEW i \in 1..Len(q) + 1
               PROVE  TaskOf(r[i]) = a[i]
      BY <1>4 DEF View
  <2>1. CASE i \in 1..Len(q)
      BY <1>3, <1>4, <1>9, <2>1 DEF View
  <2>2. CASE i = Len(q) + 1
      BY <1>1, <1>3, <1>9, <2>2
  <2> QED BY <1>4, <2>1, <2>2
<1>12. View(r) = [i \in 1..Len(q) + 1 |-> View(r)[i]]
    BY <1>4 DEF View
<1>13. View(r) = a
    BY <1>10, <1>11, <1>12
<1> QED BY <1>2, <1>7, <1>13 DEF a

\* What a statement that gives some rows T a new status shows.
LEMMA ViewUpdated ==
    ASSUME NEW q, NEW r, DOMAIN r = DOMAIN q,
           NEW T \in SUBSET DOMAIN q,
           \A e \in T : r[e].status = "completed",
           \A e \in DOMAIN q \ T : TaskOf(r[e]) = TaskOf(q[e])
    PROVE  View(r) = [t \in DOMAIN View(q) |-> IF t \in T THEN "done" ELSE View(q)[t]]
BY DEF View, TaskOf

\* The statements on several rows finish some open rows, or close some that
\* failed or were given up.
LEMMA StatementView ==
    ASSUME NEW q \in Seq(Event), NEW r, DOMAIN r = DOMAIN q,
           \A e \in DOMAIN q :
               /\ r[e].status # q[e].status => r[e].status = "completed"
               /\ r[e].status # q[e].status => q[e].status # "completed"
    PROVE  \E T \in SUBSET DOMAIN q :
              /\ \A e \in T : q[e].status # "completed" /\ r[e].status # q[e].status
              /\ T = {} => View(r) = View(q)
              /\ View(r) = [t \in DOMAIN View(q) |->
                               IF t \in T THEN "done" ELSE View(q)[t]]
<1> DEFINE T == {e \in DOMAIN q : r[e].status # q[e].status}
<1>1. \A e \in DOMAIN q \ T : TaskOf(r[e]) = TaskOf(q[e])
    BY DEF TaskOf
<1>2. /\ T \in SUBSET DOMAIN q
      /\ \A e \in T : /\ q[e].status # "completed"
                      /\ r[e].status # q[e].status
                      /\ r[e].status = "completed"
    OBVIOUS
<1>3. T = {} => View(r) = View(q)
  <2> SUFFICES ASSUME T = {}
               PROVE  View(r) = View(q)
      OBVIOUS
  <2>1. \A e \in DOMAIN q : TaskOf(r[e]) = TaskOf(q[e])
      BY <1>1
  <2> QED BY <2>1 DEF View
<1> HIDE DEF T
<1>4. View(r) = [t \in DOMAIN View(q) |-> IF t \in T THEN "done" ELSE View(q)[t]]
    BY <1>1, <1>2, ViewUpdated
<1> QED BY <1>2, <1>3, <1>4

LEMMA TaskNames ==
    ASSUME NEW event
    PROVE  /\ event.status = "completed" <=> TaskOf(event) = "done"
           /\ event.status = "dead_letter" => TaskOf(event) = "dead"
           /\ event.status \in {"pending", "processing", "failed"}
                 => TaskOf(event) = "open"
BY DEF TaskOf

\* A claim and the recovery before it are invisible.
LEMMA ClaimTasks ==
    ASSUME OutboxTypeOK, NEW w \in Workers, ClaimEvent(w)
    PROVE  /\ DOMAIN outbox' = DOMAIN outbox
           /\ \A f \in DOMAIN outbox : TaskOf(outbox'[f]) = TaskOf(outbox[f])
<1>1. PICK e \in DOMAIN outbox :
          /\ outbox[e].status \in {"pending", "failed", "processing"}
          /\ outbox'[e].status = "processing"
          /\ DOMAIN outbox' = DOMAIN outbox
          /\ \A f \in DOMAIN outbox \ {e} :
                outbox'[f].status # outbox[f].status =>
                    outbox[f].status = "processing" /\ outbox'[f].status = "pending"
    BY ClaimRows
<1>2. \A f \in DOMAIN outbox :
          \/ outbox'[f].status = outbox[f].status
          \/ /\ outbox[f].status \in {"pending", "processing", "failed"}
             /\ outbox'[f].status \in {"pending", "processing", "failed"}
    BY <1>1
<1> QED BY <1>1, <1>2 DEF TaskOf

LEMMA TaskQueueStep ==
    ASSUME OneWorker, QueueInv, [OutboxNext]_outboxVars
    PROVE  [Tasks!TaskNext]_(View(outbox))
<1>1. /\ OutboxTypeOK
      /\ outbox \in Seq(Event)
      /\ Superseded(outbox) \in Seq(Event)
      /\ DOMAIN Superseded(outbox) = DOMAIN outbox
      /\ \A kind : /\ Cancelled(outbox, kind) \in Seq(Event)
                   /\ DOMAIN Cancelled(outbox, kind) = DOMAIN outbox
    BY SupersededRows, CancelledRows DEF QueueInv, OutboxTypeOK, Updates
<1>2. Len(View(outbox)) = Len(outbox) /\ DOMAIN View(outbox) = DOMAIN outbox
    BY <1>1, ViewEnqueued DEF EventKinds
<1>3. ASSUME NEW T \in SUBSET DOMAIN outbox, T # {},
             \A t \in T : View(outbox)[t] = "open",
             View(outbox)' = [t \in DOMAIN View(outbox) |->
                                 IF t \in T THEN "done" ELSE View(outbox)[t]]
      PROVE  Tasks!TaskNext
    BY <1>2, <1>3 DEF Tasks!TaskNext, Tasks!Finish, View
<1>4. ASSUME NEW T \in SUBSET DOMAIN outbox, Len(outbox) < MaxEvents,
             \A t \in T : View(outbox)[t] # "done",
             View(outbox)' = Append([t \in DOMAIN View(outbox) |->
                                 IF t \in T THEN "done" ELSE View(outbox)[t]], "open")
      PROVE  Tasks!TaskNext
    BY <1>2, <1>4 DEF Tasks!TaskNext, Tasks!Resubmit, View
<1>5. ASSUME NEW kind \in EventKinds, NEW s \in Steps \cup {NoStep},
             EnqueueEvent(kind, s)
      PROVE  Tasks!TaskNext
  <2>1. View(outbox)' = Append(View(outbox), "open")
      BY <1>1, <1>5, ViewEnqueued DEF EnqueueEvent
  <2> QED BY <1>2, <1>5, <2>1 DEF EnqueueEvent, Tasks!TaskNext, Tasks!Submit, View
<1>6. ASSUME NEW kind \in EventKinds, CancelEvents(kind)
      PROVE  Tasks!TaskNext \/ UNCHANGED View(outbox)
  <2>1. \A e \in DOMAIN outbox :
           outbox'[e].status # outbox[e].status =>
               outbox[e].status = "pending" /\ outbox'[e].status = "completed"
      BY <1>1, <1>6, StatementRow DEF CancelEvents
  <2>2. PICK T \in SUBSET DOMAIN outbox :
           /\ \A e \in T : /\ outbox[e].status # "completed"
                           /\ outbox'[e].status # outbox[e].status
           /\ T = {} => View(outbox') = View(outbox)
           /\ View(outbox') = [t \in DOMAIN View(outbox) |->
                                  IF t \in T THEN "done" ELSE View(outbox)[t]]
    <3> DEFINE r == outbox'
    <3>1. /\ DOMAIN r = DOMAIN outbox
          /\ \A e \in DOMAIN outbox :
                /\ r[e].status # outbox[e].status => r[e].status = "completed"
                /\ r[e].status # outbox[e].status => outbox[e].status # "completed"
        BY <1>1, <1>6, <2>1 DEF CancelEvents
    <3> HIDE DEF r
    <3>2. \E T \in SUBSET DOMAIN outbox :
           /\ \A e \in T : /\ outbox[e].status # "completed"
                           /\ r[e].status # outbox[e].status
           /\ T = {} => View(r) = View(outbox)
           /\ View(r) = [t \in DOMAIN View(outbox) |->
                                  IF t \in T THEN "done" ELSE View(outbox)[t]]
        BY <1>1, <3>1, StatementView
    <3> QED BY <3>2 DEF r
  <2>3. \A t \in T : View(outbox)[t] = "open"
      BY <2>1, <2>2, TaskNames DEF View
  <2> QED BY <1>3, <2>2, <2>3
<1>7. CASE SupersedeAndEnqueue
  <2> DEFINE q == Superseded(outbox)
  <2>1. \A e \in DOMAIN outbox :
           q[e].status # outbox[e].status =>
               /\ outbox[e].status \in {"failed", "dead_letter"}
               /\ q[e].status = "completed"
      BY <1>1, StatementRow
  <2>2. /\ DOMAIN q = DOMAIN outbox /\ q \in Seq(Event)
        /\ outbox' = Enqueued(q, "agent.plan_requested", NoStep)
      BY <1>1, <1>7 DEF SupersedeAndEnqueue
  <2> HIDE DEF q
  <2>3. PICK T \in SUBSET DOMAIN outbox :
           /\ \A e \in T : /\ outbox[e].status # "completed"
                           /\ q[e].status # outbox[e].status
           /\ T = {} => View(q) = View(outbox)
           /\ View(q) = [t \in DOMAIN View(outbox) |->
                            IF t \in T THEN "done" ELSE View(outbox)[t]]
    <3>1. \A e \in DOMAIN outbox :
             /\ q[e].status # outbox[e].status => q[e].status = "completed"
             /\ q[e].status # outbox[e].status => outbox[e].status # "completed"
        BY <2>1
    <3> QED BY <1>1, <2>2, <3>1, StatementView
  <2>4. \A t \in T : View(outbox)[t] # "done"
      BY <2>3, TaskNames DEF View
  <2>5. View(outbox)' = Append(View(q), "open")
      BY <2>2, ViewEnqueued DEF EventKinds
  <2> QED BY <1>4, <1>7, <2>3, <2>4, <2>5 DEF SupersedeAndEnqueue
<1>8. ASSUME NEW s \in Steps \cup {NoStep},
             CancelAndEnqueue(DraftKind, SubmissionKind, s)
      PROVE  Tasks!TaskNext
  <2> DEFINE q == Cancelled(outbox, DraftKind)
  <2>1. \A e \in DOMAIN outbox :
           q[e].status # outbox[e].status =>
               outbox[e].status = "pending" /\ q[e].status = "completed"
      BY <1>1, StatementRow
  <2>2. /\ DOMAIN q = DOMAIN outbox /\ q \in Seq(Event)
        /\ outbox' = Enqueued(q, SubmissionKind, s)
      BY <1>1, <1>8 DEF CancelAndEnqueue
  <2> HIDE DEF q
  <2>3. PICK T \in SUBSET DOMAIN outbox :
           /\ \A e \in T : /\ outbox[e].status # "completed"
                           /\ q[e].status # outbox[e].status
           /\ T = {} => View(q) = View(outbox)
           /\ View(q) = [t \in DOMAIN View(outbox) |->
                            IF t \in T THEN "done" ELSE View(outbox)[t]]
    <3>1. \A e \in DOMAIN outbox :
             /\ q[e].status # outbox[e].status => q[e].status = "completed"
             /\ q[e].status # outbox[e].status => outbox[e].status # "completed"
        BY <2>1
    <3> QED BY <1>1, <2>2, <3>1, StatementView
  <2>4. \A t \in T : View(outbox)[t] # "done"
      BY <2>3, TaskNames DEF View
  <2>5. View(outbox)' = Append(View(q), "open")
      BY <2>2, ViewEnqueued DEF EventKinds
  <2> QED BY <1>4, <1>8, <2>3, <2>4, <2>5 DEF CancelAndEnqueue
<1>9. ASSUME NEW w \in Workers, ClaimEvent(w)
      PROVE  UNCHANGED View(outbox)
    BY <1>1, <1>9, ClaimTasks DEF View
<1>10. ASSUME NEW w \in Workers, CompleteEvent(w)
       PROVE  Tasks!TaskNext
  <2>1. job[w] \in DOMAIN outbox /\ outbox[job[w]].status = "processing"
      BY <1>1, <1>10, HeldRow DEF CompleteEvent, QueueInv, HeldRowIsProcessing
  <2>2. /\ DOMAIN outbox' = DOMAIN outbox
        /\ outbox'[job[w]].status = "completed"
        /\ \A f \in DOMAIN outbox : f # job[w] => outbox'[f] = outbox[f]
      BY <1>1, <1>10, <2>1, CompletedRow, CompletedRows DEF CompleteEvent, Updates
  <2> DEFINE T == {job[w]}
  <2>3. View(outbox') = [t \in DOMAIN View(outbox) |->
                            IF t \in T THEN "done" ELSE View(outbox)[t]]
    <3> DEFINE r == outbox'
    <3>1. /\ T \in SUBSET DOMAIN outbox
          /\ DOMAIN r = DOMAIN outbox
          /\ \A e \in T : r[e].status = "completed"
          /\ \A e \in DOMAIN outbox \ T : TaskOf(r[e]) = TaskOf(outbox[e])
        BY <2>1, <2>2
    <3> HIDE DEF r, T
    <3>2. View(r) = [t \in DOMAIN View(outbox) |->
                        IF t \in T THEN "done" ELSE View(outbox)[t]]
        BY <3>1, ViewUpdated
    <3> QED BY <3>2 DEF r
  <2>4. T # {} /\ T \in SUBSET DOMAIN outbox /\ \A t \in T : View(outbox)[t] = "open"
      BY <2>1, TaskNames DEF View
  <2> HIDE DEF T
  <2> QED BY <1>3, <2>3, <2>4
<1>11. ASSUME NEW w \in Workers, FailEvent(w)
       PROVE  Tasks!TaskNext \/ UNCHANGED View(outbox)
  <2>1. job[w] \in DOMAIN outbox /\ outbox[job[w]].status = "processing"
      BY <1>1, <1>11, HeldRow DEF FailEvent, QueueInv, HeldRowIsProcessing
  <2>2. /\ DOMAIN outbox' = DOMAIN outbox
        /\ outbox'[job[w]].status \in {"failed", "dead_letter"}
        /\ \A f \in DOMAIN outbox : f # job[w] => outbox'[f] = outbox[f]
      BY <1>1, <1>11, <2>1, FailedRow, FailedRows DEF FailEvent, Updates
  <2>3. TaskOf(outbox[job[w]]) = "open"
      BY <2>1, TaskNames
  <2>4. CASE outbox'[job[w]].status = "failed"
    <3>1. TaskOf(outbox'[job[w]]) = "open"
        BY <2>4, TaskNames
    <3> QED BY <2>2, <2>3, <3>1 DEF View
  <2>5. CASE outbox'[job[w]].status = "dead_letter"
    <3>1. TaskOf(outbox'[job[w]]) = "dead"
        BY <2>5, TaskNames
    <3>2. View(outbox') = [View(outbox) EXCEPT ![job[w]] = "dead"]
        BY <2>1, <2>2, <3>1 DEF View
    <3>3. View(outbox)[job[w]] = "open" /\ job[w] \in DOMAIN View(outbox)
        BY <1>2, <2>1, <2>3 DEF View
    <3> QED BY <3>2, <3>3 DEF Tasks!TaskNext, Tasks!GiveUp, View
  <2> QED BY <2>2, <2>4, <2>5
<1>12. ASSUME NEW e \in DOMAIN outbox, Age(e)
       PROVE  UNCHANGED View(outbox)
  <2>1. /\ DOMAIN outbox' = DOMAIN outbox
        /\ \A f \in DOMAIN outbox : outbox'[f].status = outbox[f].status
      BY <1>1, <1>12, AgedRow, AgedRows DEF Age, Updates
  <2> QED BY <2>1 DEF View, TaskOf
<1>13. ASSUME UNCHANGED outbox
       PROVE  UNCHANGED View(outbox)
    BY <1>13 DEF View
<1> QED BY <1>5, <1>6, <1>7, <1>8, <1>9, <1>10, <1>11, <1>12, <1>13
        DEF OutboxNext, CrashWorker, outboxVars

(* The outbox of one worker process is the task queue its callers rely on:  *)
(* every step of the claim protocol is a step of TaskQueue or invisible, so *)
(* a completed row never opens again and a dead-lettered one is closed only *)
(* by retry_run.                                                            *)
THEOREM OutboxImplementsTaskQueue == OneWorker => (OutboxSpec => ImplementsTaskQueue)
<1> SUFFICES ASSUME OneWorker
             PROVE  OutboxSpec => ImplementsTaskQueue
    OBVIOUS
<1>1. OutboxInit => Tasks!TaskInit
    BY DEF OutboxInit, Tasks!TaskInit
<1>2. QueueInv /\ [OutboxNext]_outboxVars
          => [Tasks!TaskNext]_([e \in DOMAIN outbox |-> TaskOf(outbox[e])])
    BY TaskQueueStep DEF View
<1> QED BY <1>1, <1>2, QueueInvCorrect, PTL
        DEF OutboxSpec, ImplementsTaskQueue, Tasks!TaskSpec
=============================================================================
