----------------------------- MODULE LockOrder -----------------------------
(***************************************************************************)
(* The transactions of PostgresRunStore on one run, statement by statement: *)
(* which rows they read, lock and write, in which order, under READ         *)
(* COMMITTED.  It is what justifies that the other modules take a           *)
(* transaction for a single step, and shows which transactions are the      *)
(* exceptions.                                                              *)
(*                                                                          *)
(* Rows of the run that several transactions touch:                         *)
(*   run, step, exec   the rows of runs, proposed_steps, command_executions *)
(*   slot              the entry of proposed_steps_one_active_step_per_run  *)
(*   request, draft    integration_requests, activity_drafts                *)
(*   task              the outbox row a worker has claimed                  *)
(*   plan, draftTask   a pending planner row, a pending draft row           *)
(*   failedPlan        a planner row that has failed                        *)
(*   staleTask         a row whose claim is past the limit                  *)
(* Inserted rows that nobody else can see yet are left out, but for the     *)
(* lock their foreign key takes on the run.                                 *)
(***************************************************************************)
EXTENDS Naturals, Sequences

CONSTANTS Clients  \* connections of the API and of the workers

Rows == {"run", "step", "exec", "slot", "request", "draft", "task", "plan",
         "draftTask", "failedPlan", "staleTask"}

\* "read" is a plain SELECT, "lock" SELECT FOR UPDATE, "write" an UPDATE by id,
\* "checked" an UPDATE whose WHERE tests the row's status, "share" the lock
\* FOR KEY SHARE of an inserted row's foreign key.
Ops == {"read", "lock", "write", "checked", "share"}

Do(op, row) == [op |-> op, row |-> row]
-----------------------------------------------------------------------------
(* The transactions.                                                        *)

\* abort_run, approve_connection.
ChangeRun == <<Do("lock", "run"), Do("write", "run")>>

\* Mutant: the run is read without its lock.
DecideUnlocked == <<Do("read", "run"), Do("lock", "step"), Do("write", "step"),
                    Do("write", "run")>>

\* approve_step, edit_and_approve_step, reject_step: _locked_run_and_step.
Decide == <<Do("lock", "run"), Do("lock", "step"), Do("write", "step"),
            Do("write", "run")>>

\* _create_step for the planner and for a restore; the insert takes the slot.
CreateStep == <<Do("lock", "run"), Do("write", "slot"), Do("write", "run")>>

\* create_manual_step cancels the pending planning first.
CreateManualStep == <<Do("checked", "plan")>> \o CreateStep

\* Mutant: the rows are superseded before the run is locked.
RetryRunRowsFirst == <<Do("read", "failedPlan"), Do("write", "failedPlan"),
                       Do("lock", "step"), Do("lock", "run"), Do("write", "run")>>

\* retry_run selects the failed rows and updates them by id.
RetryRun == <<Do("lock", "run"), Do("read", "failedPlan"),
              Do("write", "failedPlan"), Do("write", "run")>>

\* start_command_execution locks an execution the step may have already.
StartCommand == <<Do("lock", "run"), Do("lock", "step"), Do("lock", "exec")>>

\* append_command_output_chunk: the chunk and the event refer to the run.
AppendChunk == <<Do("lock", "exec"), Do("share", "run"), Do("write", "exec")>>

\* complete_command_execution: a step that ends leaves the slot.
CompleteCommand == <<Do("lock", "exec"), Do("write", "exec"), Do("write", "step"),
                     Do("write", "slot"), Do("read", "run"), Do("share", "run"),
                     Do("write", "run")>>

\* save_activity_draft.
SaveDraft == <<Do("read", "run"), Do("write", "run"), Do("share", "run")>>

\* queue_activity_submission.
QueueSubmission == <<Do("lock", "run"), Do("read", "request"), Do("checked", "draftTask")>>

\* mark_integration_request_processing, _activity_created, _completed.
MarkProcessing == <<Do("checked", "request")>>
MarkCreated == <<Do("write", "request"), Do("share", "run")>>
MarkCompleted == <<Do("write", "request"), Do("write", "draft"),
                   Do("write", "run"), Do("share", "run")>>

\* fail_integration_request.
FailRequest == <<Do("lock", "request"), Do("write", "request"), Do("share", "run")>>

\* claim_next_outbox_event recovers stale rows; the claim itself skips what is
\* locked and waits for nothing.
Recover == <<Do("checked", "staleTask"), Do("share", "run")>>
ClaimFailed == <<Do("checked", "failedPlan")>>
ClaimPlan == <<Do("checked", "plan")>>
ClaimDraft == <<Do("checked", "draftTask")>>

\* complete_outbox_event, fail_outbox_event.
CompleteTask == <<Do("write", "task")>>
FailTask == <<Do("read", "task"), Do("write", "task")>> \o FailRequest

Transactions ==
    [change |-> ChangeRun, decide |-> Decide, create |-> CreateStep,
     manual |-> CreateManualStep, retry |-> RetryRun, start |-> StartCommand,
     append |-> AppendChunk, complete |-> CompleteCommand, save |-> SaveDraft,
     queue |-> QueueSubmission, processing |-> MarkProcessing,
     created |-> MarkCreated, completed |-> MarkCompleted,
     failRequest |-> FailRequest, recover |-> Recover,
     claimFailed |-> ClaimFailed, claimPlan |-> ClaimPlan,
     claimDraft |-> ClaimDraft, completeTask |-> CompleteTask,
     failTask |-> FailTask]

Names == DOMAIN Transactions
-----------------------------------------------------------------------------
VARIABLES
    running,  \* the transaction of a connection, or "none"
    done,     \* how many of its statements it has executed
    locks,    \* the locks it holds, as pairs of an op and a row
    known,    \* the rows whose present version it has read
    outdated, \* the rows another transaction has written since it read them
    lost      \* history: which transactions wrote over a version they had not
              \* read, and which row

vars == <<running, done, locks, known, outdated, lost>>

Statement(c) == Transactions[running[c]][done[c] + 1]

Pending(c) == running[c] # "none" /\ done[c] < Len(Transactions[running[c]])

\* Row locks of PostgreSQL: FOR KEY SHARE only excludes FOR UPDATE, an update
\* of no key excludes all but FOR KEY SHARE.  A read takes none.
Conflict(op1, op2) ==
    /\ op1 # "read" /\ op2 # "read"
    /\ op1 = "share" => op2 = "lock"
    /\ op2 = "share" => op1 = "lock"

WaitsFor(c, d) ==
    /\ c # d
    /\ Pending(c)
    /\ \E l \in locks[d] : l.row = Statement(c).row /\ Conflict(l.op, Statement(c).op)

Init ==
    /\ running = [c \in Clients |-> "none"]
    /\ done = [c \in Clients |-> 0]
    /\ locks = [c \in Clients |-> {}]
    /\ known = [c \in Clients |-> {}]
    /\ outdated = [c \in Clients |-> {}]
    /\ lost = {}

Begin(c, name) ==
    /\ running[c] = "none"
    /\ running' = [running EXCEPT ![c] = name]
    /\ UNCHANGED <<done, locks, known, outdated, lost>>

\* A statement that must lock sees the row as it is once it has the lock; an
\* update by id asks for no version.
Execute(c) ==
    LET op == Statement(c).op
        row == Statement(c).row
        reads == op \in {"read", "lock", "checked"}
        writes == op \in {"write", "checked"}
    IN  /\ Pending(c)
        /\ \A d \in Clients : ~WaitsFor(c, d)
        /\ done' = [done EXCEPT ![c] = done[c] + 1]
        /\ locks' = IF op = "read" THEN locks
                    ELSE [locks EXCEPT ![c] = locks[c] \cup {Do(op, row)}]
        /\ known' = IF reads THEN [known EXCEPT ![c] = known[c] \cup {row}] ELSE known
        /\ outdated' = IF reads THEN [outdated EXCEPT ![c] = outdated[c] \ {row}]
                       ELSE outdated
        /\ lost' = IF op = "write" /\ row \in outdated[c]
                   THEN lost \cup {<<running[c], row>>} ELSE lost
        /\ UNCHANGED running

Written(c) == {l.row : l \in {k \in locks[c] : k.op \in {"write", "checked"}}}

Ended(c) ==
    /\ running' = [running EXCEPT ![c] = "none"]
    /\ done' = [done EXCEPT ![c] = 0]
    /\ locks' = [locks EXCEPT ![c] = {}]
    /\ known' = [known EXCEPT ![c] = {}]

Commit(c) ==
    /\ running[c] # "none"
    /\ done[c] = Len(Transactions[running[c]])
    /\ Ended(c)
    /\ outdated' = [d \in Clients |->
                      IF d = c THEN {} ELSE outdated[d] \cup (known[d] \cap Written(c))]
    /\ UNCHANGED lost

RollBack(c) ==
    /\ Ended(c)
    /\ outdated' = [outdated EXCEPT ![c] = {}]
    /\ UNCHANGED lost

\* A check of the code refuses: it may, wherever a row was just read.
Refuse(c) ==
    /\ running[c] # "none"
    /\ done[c] > 0
    /\ Transactions[running[c]][done[c]].op \in {"read", "lock", "checked"}
    /\ RollBack(c)

\* Connections that wait for each other in a circle.
Stuck(S) ==
    S # {} /\ \A c \in S : \E d \in S : WaitsFor(c, d)

\* The database ends one of a circle, and it may be any.
Victim(c) ==
    /\ \E S \in SUBSET Clients : c \in S /\ Stuck(S) /\ ~Stuck(S \ {c})
    /\ RollBack(c)

Next ==
    \E c \in Clients :
        \/ \E name \in Names : Begin(c, name)
        \/ Execute(c)
        \/ Commit(c)
        \/ Refuse(c)
        \/ Victim(c)

Spec == Init /\ [][Next]_vars
-----------------------------------------------------------------------------
(* Properties.                                                              *)

\* Every variable keeps its type, a version can only be outdated if it was read,
\* and a connection without a transaction holds nothing.
TypeOK ==
    /\ running \in [Clients -> Names \cup {"none"}]
    /\ done \in [Clients -> Nat]
    /\ locks \in [Clients -> SUBSET [op : Ops, row : Rows]]
    /\ known \in [Clients -> SUBSET Rows]
    /\ outdated \in [Clients -> SUBSET Rows]
    /\ \A c \in Clients : outdated[c] \subseteq known[c]
    /\ \A c \in Clients : running[c] = "none" => done[c] = 0 /\ locks[c] = {}
    /\ lost \subseteq Names \X Rows

\* Whenever transactions wait for each other in a circle, one of them stores
\* what a command returned: the technician's and the planner's transactions,
\* the claims and the submission never block each other for good.
CirclesStoreResults ==
    \A S \in SUBSET Clients :
        Stuck(S) => \E c \in S : running[c] \in {"complete", "append"}

\* Only these decide on one version of a row and write over another: the
\* completion of a command and the saving of a draft on the run, a retry on
\* the planner rows it supersedes, a worker on the row it fails.  A write that
\* decides on no read is not counted, as that of submitted on the run.
OverwritesAreKnown ==
    lost \subseteq {<<"complete", "run">>, <<"save", "run">>,
                    <<"retry", "failedPlan">>, <<"failTask", "task">>}
=============================================================================
