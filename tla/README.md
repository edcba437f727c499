# A verification development for the AI service-desk autopilot

The repository is an assistant for a service-desk technician. A run collects
facts about a customer's system over SSH, proposes one command at a time, waits
for the technician to approve it, executes it, validates a fix and submits an
activity to the Phoenix ticket system. A web API, one or more worker processes
and a PostgreSQL database are involved; everything they tell each other goes
through the database.

This directory holds TLA+ modules translated from `src/backend/app`, TLC
configurations that check them on small instances, and theorems checked by
TLAPS. `PROJECT.json` is the index: components, runs, mutants, the source lines
each definition stands for, the hazards of the code and the theorems.

## 1. Inventory

| Component | State | Operations | Talks to |
|---|---|---|---|
| Outbox queue (`postgres_run_store.py`, `persistence_models.py`) | `outbox_events` rows: kind, status, attempts, `available_at`, `claimed_at` | enqueue, claim (with stale recovery), complete, fail (back-off, dead letter), cancel, supersede | called inside the run store's transactions and by the worker loop |
| Run store (`PostgresRunStore`) | `runs`, `proposed_steps`, `command_executions`, `backup_records`, `validation_*`, `run_events` | about 40 transactions: create, approve the connection, create / approve / edit / reject a step, retry, abort, start and complete a command, record evidence and backups | API, worker |
| Worker loop and command workflow (`worker.py`, `agent_graph.py`) | the row in hand and local variables | `process_next`, the four handlers | run store, SSH runner, Phoenix |
| Planner workflow (`agent_graph.py`) | the context read from the store | context, LLM, fallback, safety, approval checkpoint | run store, LLM |
| Planner decisions (`agent_orchestrator.py`) | none | next deterministic step, context building, parsing | planner workflow |
| Technician API (`routes/`) | none | one route per store operation | run store |
| Activity drafting and submission | `activity_drafts`, `integration_requests`; Phoenix | draft, save, queue, create activity, set ticket status, complete, fail | worker, Phoenix |
| Validation suite | `validation_expectations`, `validation_results` | expectations of a fix, matching of results, suite status | `complete_command_execution`, drafting |
| Event log and stream (`routes/events.py`) | `run_events`, the reader's cursor | append, list after an id, stream | every transaction, browser |
| Fix and backup policies, ledgers (`backup_service.py`) | `backup_records`, `inspected_sources` | requirement of a command, check at approval, record after a command | approval, completion |
| Safety layer | none | classification of a command, redaction of output | step creation, output chunks |
| SSH runner and output capture | channel, stored bytes | execute with a timeout, append a chunk under a limit | worker, run store |
| Phoenix client and cache | cached tickets, technicians | fetch, refresh, fall back to stale rows | API, worker |
| Evidence detector, activity generator | none | text in, text out | ledgers, drafting |
| In-memory run store | Python dictionaries | the same operations in one process | tests |
| Frontend (`App.tsx`) | query cache, event stream | polling, the buttons of the API | API |
| Shell: configuration, logging, database engine, health | settings, connection pool | start-up | all |

What makes each of them correct, and what is hard:

* **Outbox.** Nothing enqueued is lost or worked on for ever; with one worker
  what is over stays over. Hard: crashes between claim and completion, stale
  recovery against a slow worker that still ends the row by its id, the attempt
  limit against recoveries and overtaken holders.
* **Run store.** `runs.status`, `runs.pending_step`, the step rows and the
  execution rows are four views of one state machine, written by a dozen
  transactions of two programs. Hard: `complete_command_execution` reads the
  run without a lock; the planner proposes from an old read; a retry clears one
  view and leaves another; a submission writes the status by id and nothing else;
  approvals and rejections name a step, not the run's pending one.
* **Worker.** A command runs at most once and only when approved, its result is
  stored, planning goes on. Hard: crash or error between any two transactions,
  a second claim, an abort at any point.
* **Activity submission.** One Phoenix activity for a request, `submitted` only
  when it exists. Hard: lost responses, crashes between two remote calls.
* **Validation suite.** `ready_for_activity` only when the latest fix is fully
  validated. Hard: suites of earlier fixes, results after the suite has passed.
* **Event log.** A reader sees every event. Hard: ids drawn before commit, two
  readers (stream and poll) that write the same cache.
* **Policies.** A risky change is approved only with its backup and its evidence,
  and what a record says of a copy can be relied on. Hard: the command may be
  edited in the request that approves it; copies fail, are overwritten, and are
  restored by steps that are changes themselves.
* **Planner decisions.** Every proposal is a function of the ticket, the commands
  so far, their output and the expectations. Hard: that the loop of proposals,
  approvals and results goes forward and ends in a proved repair.
* **Output capture.** What is stored keeps the limit and is all that was read, or the
  row is marked; a completed command is read to its end. Hard: characters cut by slices and by the limit, the
  exit status overtaking output, silence and deadlines.

The hazards of the code are listed one by one in `PROJECT.json`.

## 2. Modules

| Module | Stands for |
|---|---|
| `TaskQueue` | the promise of the outbox: tasks are open, done or dead |
| `Outbox` | the `outbox_events` table, every statement on it, the claim protocol; its refinement of `TaskQueue` |
| `MCOutbox` | its instances and liveness |
| `RunStore` | the rows of one run; one action for each transaction of the technician's API and of the workers that writes them |
| `Worker` | worker processes, their handlers split at every transaction, beside the technician and time; the safety properties |
| `MCWorker` | its instances, liveness, and `AbortedIsFinal`, which the code does not keep |
| `ActivitySubmission` | drafting and submitting the activity of a ready run: requests, the submission handler split at every transaction and Phoenix call |
| `LockOrder` | all transactions statement by statement: what they read, lock and write, in which order |
| `Commands` | SSH commands as verbs and targets: what the safety layer, the backup service, the evidence detector and the matching of results say of each |
| `ValidationSuite` | a run as its fixes, their expectations and the results that decide them |
| `Policy` | the ledgers of backups and evidence, the assertions of an approval, and the files they speak of |
| `Planner` | the deterministic planner in a loop with technician, policies, suite and a host with one faulty unit |
| `EventFeed` | audit events from their insertion to the screen |
| `OutputCapture` | one command between the host and its execution row |
| `MCActivitySubmission`, `MCLockOrder`, `MCValidationSuite`, `MCPolicy`, `MCPlanner`, `MCEventFeed`, `MCOutputCapture` | instances |
| `OutboxProofs`, `WorkerProofs`, `SubmissionProofs`, `LockOrderProofs`, `PolicyProofs` (the suite's too), `PlannerProofs`, `EventFeedProofs`, `OutputCaptureProofs` | theorems |

How they are put together:

* `RunStore` extends `Outbox`: an action that enqueues or cancels applies
  `Outbox`'s operators to the table inside the same step, as the code does inside
  the same transaction. `Worker` extends `RunStore` and adds the control of the
  processes; `ActivitySubmission` extends `Outbox` too, with the ids its rows
  carry standing for integration requests instead of steps. The run before
  `ready_for_activity` is there the single status `busy`; `Worker` has the two
  transactions of a submission that matter to the run, its queueing and the one
  that writes `submitted`, and leaves requests and Phoenix to `ActivitySubmission`.
* `ValidationSuite` extends `Commands`, `Policy` extends `ValidationSuite` and
  `Planner` extends `Policy`. Each action of `Policy` is an action of the suite
  with what the same transaction does to the ledgers; `PolicySpec` implements
  `SuiteSpec`. Each action of `Planner` is an action of `Policy` with its choices
  resolved: the proposal by the planner, the outcome by the host.
* The two groups divide the run between them. `Worker` has every interleaving
  and nothing of a step but its phase and status; `ValidationSuite` and its
  extensions have what commands mean and take one step of the run at a time. That
  no two steps of a run are decided or run side by side is `OneActiveStep`,
  `OnlyPendingStepIsDecided` and `ExecutionMatchesStep` of the first group.
* `LockOrder` justifies that the other modules take a transaction for one step,
  and names the exceptions: `complete_command_execution` (split in `Worker`),
  `save_activity_draft`, the rows a retry supersedes, the row a worker fails.

### How state and actions correspond to the code

`Outbox`, `RunStore`, `Worker`, `ActivitySubmission`:

* One action is one committed transaction. The exception is
  `complete_command_execution`, which reads the run without a lock and writes it
  by id: it is two actions, `ReadRun` and `ApplyCompletion`, and anything may
  happen between them. A request that raises is rolled back and is no step.
* A worker's handler is a path of locations `pc[w]`: `Claim`, then for planning
  `PlanContext` and `ProposeAgentStep` or `ProposalRefused`; for a command
  `RequestCommand`, `StartCommand` or `StartRefused`, `RunCommand`, `ReadRun`,
  `ApplyCompletion`; for a draft `DraftActivity`; for a submission
  `SubmitActivity`; and last `Complete` or `Fail`.
  The planner's time for thinking lies between `PlanContext` and
  `ProposeAgentStep`: the step is created in the state the run has by then.
* `Crash` is the death of a process at any location and its restart: the row
  stays `processing`. An error that leaves `process_next`, for example a lost
  database connection in `complete_outbox_event`, ends the process too and is a
  `Crash`. `HandlerError` is any exception inside a handler, among them the
  victim of a database deadlock and a violated check: it leads to `Fail`.
* Time is one bit per row, `ripe`: the back-off of a failed row has ended, or a
  claim is older than 120 seconds. Nothing is assumed about how long a worker
  takes, so a claim may become stale while its worker is alive.
* The technician may call any operation at any time, with any verdict of the
  safety layer and any phase. Policies may refuse an approval; since a request is
  never obliged to happen, that needs no action there.
* Rows are for one run: no statement relates two runs, except that workers are
  shared. A claim may take any claimable row: the query wants the lowest id, but
  skips those another connection has locked (`FOR UPDATE SKIP LOCKED`).
* `SubmitActivity` is the submission handler as the run sees it: it ends with
  `mark_integration_request_completed`, which writes `submitted` by the run's id
  whatever the status is by then and leaves `pending_step`; or it fails; or it
  finds the request completed.
* A Phoenix call is one step: it takes effect or not, and its answer arrives or
  not. The submission handler's `try` block is the locations from `creating` to
  `completing`; what raises in it passes `raised`, where the request is failed,
  and then `failing`, where the row is. `activities` and `ticketDone` are
  Phoenix's state.
* `sshRuns` counts what the code cannot: how often a command reached SSH.

`LockOrder`: `Transactions` lists, for each store operation, its statements on
the rows that several transactions touch. A connection executes the next
statement when no other holds a conflicting lock (the conflict table of
PostgreSQL's row locks, with `FOR KEY SHARE` for foreign keys), commits at the
end, may be refused after any read, and one of a circle of waiting connections is
rolled back. `known`, `outdated` and `lost` are history: an update by id of a row
that another transaction has written since it was read is recorded in `lost`.

`Commands`, `ValidationSuite`, `Policy`:

* `Propose`, `Approve`, `Reject`, `RunCommand`, `RecordResult` are the life of one
  step, and `ProposeStep`, `ApproveStep`, `Execute`, `RecordStep` the same with the
  ledgers and the host. `RecordStep` is `complete_command_execution` with all its
  helpers: expectations of a completed fix, the two passes of the matching, the
  suite's verdict, the run's status, the ledgers. What a check constraint refuses
  (`Storable`) rolls the transaction back and leaves the step `finished`.
* An outcome is the execution's status and one sign, what the words in the output
  look like to the matching: good, bad or plain.
* `Policy` approves what `BackupSatisfied` and `FixPolicyAllows` accept, with the
  command that may have been edited in the same request; planned and detected
  records, waivers and the steps made of restore commands are as in
  `backup_service.py`. `content`, `copies`, `inlineCopies` are the host's files,
  each as it was before the run or changed.

`Planner`: `NextStep` is `deterministic_next_step` with the lists and phases it
consults, `HostAnswer` what each command answers on a host in a given state and
`UnitAfter` what it leaves of the unit. The environment file sets a port (`set`)
that the unit reads when it is started (`read`): the planner's `sed` sets the right
one, the technician's edit or restore any. Starting a unit that is up does nothing.
The planner's `enable` is `--now`; the technician's `enable` and `disable` are or are
not. `Plan` is a planning from the claim of its row to the proposal, `RetryIdle` and
`RejectRefused` what a technician does with a run that waits for him, `RetryAtWill`
a retry at any moment: a step that was open stays so, nobody can decide it any
more, and the planning that fails for it changes nothing.

`EventFeed`: `InsertEvent` draws the id, `ShareRun` gets the lock of the foreign
key, `Commit` makes the events readable. Transactions that lock the run's row do
so before they insert, and the other ones wait for it after. `SendEvents` is a
turn of the generator, `ReceiveEvent` the page's handler, `StartPoll`, `ReadAll`,
`ShowAnswer` a poll, whose answer replaces the cache.

`OutputCapture`: `Read` is one slice of `_drain_available` with its decoding and
its `append_command_output_chunk`; `SeeExit`, `Drained`, `TimeOutOrSleep` are the
turns of the loop in `execute`; `Complete` gives the execution its status.

### Abstractions

* A step of `Worker` is its phase, its status and its execution's status.
  `restore` and unknown phases behave as `diagnostic` in every function modelled
  and share its value. A planner's row is recognised by its kind.
* A command is a verb and a target, the verbs those that the code tells apart and
  itself proposes; shell syntax is left out. Files are those under `/etc`, and the
  ones whose path contains `.env` are secret. Metadata fields, hashes and the
  redaction ledger are left out, and evidence counts for the run, as in the code's
  fall-back, not by the ids a step cites.
* `Mentions` gives for a command the known unit whose name is in its text although
  the command does not act on it, a file under `/etc/nginx` say: the last fall-back
  of `_service_from_command_text`. The one on the step's purpose and the system's
  notes is `ticket.service`.
* The planner's texts are a `Situation`: which unit they name or hint at, which
  category of symptoms comes first. Proposals of the language model are not
  modelled: they pass the same transactions as any step, which `Worker` and
  `Policy` allow with any phase and command of their instances. The journal
  windows that widen without end are one command, `journal-wide`.
* A completion that hits `Unstorable` is not retried in `ValidationSuite`; the
  row that carries it is `Worker`'s subject.
* `EventFeed` does not say which events a transaction writes, `OutputCapture` has
  stdout and stderr in one stream; both share the limit in the code.

## 3. Runs

| Run | Instance | What it shows |
|---|---|---|
| `outbox_queue` | 1 worker, 3 rows, 2 attempts, 1 crash | refinement of `TaskQueue`; every row settles; attempts exceed the limit by crashes only |
| `worker_two_workers` | 2 workers, 2 steps, 3 rows, 2 attempts, phases diagnostic and fix, both verdicts | the safety properties when a row is held by two workers at once, at-most-once among them; the attempts stay bounded when an overtaken worker writes the row of another |
| `worker_one_worker` | 1 worker, 2 steps, 4 rows, 1 attempt, phases diagnostic and validation, both verdicts, 1 crash, 1 error | types; the pending step under crashes, errors, retries and submissions, and that no other is decided; a run that is over starts nothing; the use of the queue |
| `worker_liveness` | 1 worker, 2 steps, 3 rows, both verdicts | every row is handled; approved commands end |
| `worker_lost_abort` | 1 worker, 2 steps, 4 rows, phases diagnostic and validation | the code does not keep "aborted is final" (below) |
| `submission` | 1 worker, 2 requests, 3 rows, 1 crash, 2 errors or lost answers | a submitted run has its activity and a `DONE` ticket; a second activity for a request needs a failure; submissions do not overlap; request and row end together |
| `lock_order` | 3 connections, all 20 transactions | every circle of waiting transactions contains one that stores a command's output or result; of the updates that decide on what they read only four write over a later version |
| `validation_suite` | 2 units, 2 files, 2 fixes | a run is ready by the checks of its latest fix and no others; its draft is accepted; decided checks stay; a failed result never completes a suite; what cannot be stored involves a script |
| `policy` | 1 unit, 1 file, 1 fix | what is approved meets the policies; the first change of a file has its copy, unless a copy failed, a waiver was given or the record is of another kind; recorded restores can be approved; the policies only restrict the suite |
| `planner` | 2 units, 44 initial situations of the host, 4 fixes, 22 commands, 1 intervention | nothing is proposed twice between fixes; a ready host serves; what the planner can repair is repaired and proved |
| `event_feed` | 2 connections that lock, 1 that does not, 3 events, 2 disturbances | the stream never passes by a change made under the run's lock; the page ends up with exactly the log |
| `output_capture` | slices of 2 bytes, window 3, limit 5 | the row keeps its limit and says when it is cut; a completed command was read to its exit; a command that stops writing ends |

Type invariants are checked in `worker_one_worker` and `policy`; those of the other
modules are proved, alone or as the first conjunct of a proved invariant.

`worker_lost_abort` finds a statement of the documents violated. "Aborted is
final": the worker's completion has read the run, the technician aborts, the
completion commits; the run is investigating again and planning is queued.

### Other disagreements between code and documents

What follows was met while modelling. It is behaviour of the models, since they
do what the code does, and no run claims the opposite:

* "No SSH work begins before explicit connection approval"
  (`.agents/plans/techbold-final-spec.md:127`). A manual step is created, approved and executed
  on a run whose connection was never approved: no operation between creation and
  execution looks for it (`postgres_run_store.py:1185`).
* "Restart-safe" (`docs/architecture-spec.md:496`). The process dies after the execution
  row was inserted. The recovered row is refused until it is dead-lettered;
  execution and step stay `running` and `approved` and keep the step's place in the
  index (`postgres_run_store.py:616`).
* A retry asks "the worker/planner to propose a new next step" (`README.md:240` of the
  repository). It leaves the proposed step row as it is, the index rejects the new
  one, the planner row is dead-lettered; the old step can neither be approved nor
  rejected, since the run no longer awaits it (`postgres_run_store.py:448`).
* "Do not retry unsafe POST blindly" (`docs/architecture-spec.md:506`). Phoenix creates
  the activity, the answer times out, the row is retried and creates it again
  (`worker.py:149`). With every answer received: the activity is created, the ticket
  cannot be set until the request is dead-lettered, and the technician's next
  submission is a new request (`postgres_run_store.py:1014`).
* The completion of a submission writes `submitted` over whatever the run is by
  then (`postgres_run_store.py:1119`), an abort included ("Aborted --> [*]",
  `docs/architecture-spec.md:356`). It leaves `pending_step`: a manual step proposed
  between the queueing and the completion is shown as pending on a submitted run
  for ever and can be neither approved nor rejected, which is why
  `PendingStepIsProposed` admits `submitted`. With two workers the completion of a
  command may in turn overwrite `submitted` ("Submitted --> [*]", line 355). What
  holds through all of it is `AbandonedCommandNeverStarts`: a command that waited
  when the run was first over is never started.
* `complete_outbox_event` and `fail_outbox_event` do not look at who holds the row
  (`postgres_run_store.py:579`). With several workers one that was overtaken after a
  stale recovery completes, gives back or kills the row the other one is working on,
  or reopens one that is done. `AttemptsBoundedByWorkers` says how often such a row is
  claimed at most.
* A result of a check of another unit decides a pending check of the suite, in the
  second pass of the matching, which ignores the target (`run_store.py:2404`).
* `public_validation` expectations cannot be stored: the completion of the fix
  that inserts them is rolled back (`postgres_run_store.py:1769`; the in-memory
  store's `backend/tests/test_run_store.py:1307` expects them).
* Every copy of a file goes to the same path: a second copy after the change
  replaces the original (`backup_service.py:94`; `docs/backup-policy-spec.md:64`).
  A failing `cp` is recorded as a created backup. `FirstChangeIsCovered` therefore
  speaks of the first change and excepts failed copies.
* A restore of metadata holds `&&` and one of a secret file is refused by the
  safety layer: neither can be approved as recorded. The restore of an inline copy
  needs a waiver. `RestoreIsApprovable` is about the others.
* Persistence is proved by a restart that comes last and is judged by its exit code
  (`run_store.py:2303`; `docs/application-spec.md:178`): a unit that dies after it
  leaves a ready run. `ReadyHostServes` excepts exactly that host.
* A ready run's endpoint may also be down after what the technician did himself,
  each time through a step the code accepts, in any phase
  (`postgres_run_store.py:1185`): a `disable --now` after the customer's check had
  passed; an edit of the environment file to another port before the restart that
  is to prove persistence; a list of sockets as a validation, which the matching
  takes for the customer's check although it asks no endpoint (`run_store.py:2461`).
  `PlainInterventions` forbids these, and with them restores of the file and fixes
  other than a restart, of which the proof needs that there are none. The instance of
  `planner` has none of them; allowed one edit of the port or one list of sockets, or a
  `disable` and one more intervention, TLC finds a ready host that is down.
* The planner repeats a proposal that was refused or rejected, since only executed
  commands count as tried; forgets a wrong port when another command follows its
  discovery; and a check of another unit by the technician leads it astray. A retry
  while checks are pending sends it into ever wider journal windows.
  `RepairableIsRepaired` ends its promise at the first intervention.
* The timeout is looked at between two drains only: a host that never stops writing
  outlives it (`ssh_runner.py:188`; `docs/application-spec.md:211`). A chunk shorter
  than the ones before may be stored after the truncation
  (`docs/live-terminal-spec.md:173`). A lost answer to `exec_command` counts as a
  command that did not start.
* Audit events of refused approvals are rolled back with the refusal
  (`postgres_run_store.py:1352`). Eleven types of events the store writes are not in
  the page's `RUN_EVENT_TYPES` and arrive by the poll only, which pauses while the
  page is hidden. A poll that was answered before an event was streamed removes the
  event from the screen until the next one.

### Bounds

* `MaxAttempts`: 3 in the code; the runs use 2,
  the smallest value at which a row fails, is retried and dies, and 1 in
  `worker_one_worker`, where a row dies at its first failure and a crash alone gives
  it a second claim.
* `MaxEvents` of the outbox caps its rows: transactions that would enqueue
  beyond it are disabled, among them a worker's commit, and liveness names that
  case (`BoundReached`). Three rows allow an approved command between two
  plans, which every safety property needs; `worker_one_worker` has four, the first
  plan, a validation, its draft and the submission.
* `Steps`: with two steps, one can be active while another is created, and one
  can be executed while another is; the properties relate at most two.
* `Requests`: two, one that ends and one queued after it. `MaxFaults` caps
  database errors and lost answers of `create_activity`, each of which adds an
  activity; answers of `set_ticket_status` are lost freely. `submission` has one
  worker, because with two the overtaken one may reopen a request and create an
  activity that no failure explains; `SubmittedIsReal` is proved for any number.
  That every submission ends is `EveryEventSettles` and `RequestFollowsRow`
  together.
* `MaxCrashes`, `MaxErrors`: one of each is enough for a row to be claimed again
  after work was half done. With two workers both are 0, because a stale claim
  of a live worker gives more: the first one goes on working.
* `VIEW LiveState` leaves out of a state's identity what no later step reads:
  `seen` outside `applying` (and there all but whether it is `aborted`), the
  phase of a step that is neither proposed nor approved, and attempts above the
  limit, which are only compared with it. Symmetry is over workers, steps and
  connections, which the code does not order, and only in runs without liveness.
* `LockOrder`: three connections. A circle of two involves every pair of
  transactions; the third overtakes or closes a longer circle. The theorems cover
  any number.
* `MaxFixes`: two in the suite, one fix and one that replaces it, so that rows of
  an earlier suite are there when the later one is decided; one in `policy`, whose
  properties are about a first change and its restore; four in `planner`, whose
  runs need at most three. `MaxCommands` 22 exceeds what a repairable host needs
  with one intervention; a run that reaches it stops, and counts as not repaired.
* `planner`'s technician intervenes once: with a step of his own, a rejection or a
  retry at any moment. Answers that only another `Situation` gives are covered by
  enumerating situations.
* `event_feed`: three ids, so that an event may overtake and be overtaken. A
  disturbance is a broken stream, a reopened run, a failed or a repeated poll; two
  allow to open, break and no more, or to repeat a poll after opening.
* `output_capture`: a slice holds a wide character or cuts it, and the limit of
  five bytes falls inside one after two or three characters. The channel's window
  bounds what waits to be read, not what the host writes.

Deadlock is not checked: the technician may stop, and a run that is over stays
as it is.

### Fairness

* `Worker`, `Outbox`, `ActivitySubmission`: `main` loops until it is told to shut
  down and sleeps for a second when nothing is claimable, so `Claim` and `Handle`
  are weakly fair for each worker: the loop has no condition that could disable it
  for ever while work is claimable. Time passes. The technician, errors and
  crashes are not fair. SSH commands and LLM calls are assumed to return.
* `Planner`: `WF(Progress)`. The worker's loop as above, commands end, and the
  technician acts on a run that waits for him, one way or another: it is the
  assumption of the property, not a promise of the code.
* `EventFeed`: `WF(Poll)` alone, the interval of a query on a visible page. Nothing
  is asked of the stream.
* `OutputCapture`: `WF(Runner)`, a thread that runs, and `WF(DeadlinePasses)`, the
  clock. Nothing is asked of the host, and `QuietCommandEnds` is about hosts that
  at last stop writing.

## 4. Proofs

The theorems hold for every value of the constants that the assumptions allow:
`OutboxAssumption`, `RunStoreAssumption`, `WorkerAssumption`, `FeedAssumption`,
`CommandsAssumption`, `SuiteAssumption`, `PolicyAssumption`, `PlannerAssumption`,
`CaptureAssumption`, all evaluated by the runs; any number of workers, steps,
connections, units, files and fixes. Four hypotheses are stated where they are
needed, as the left side of an implication: that there are finitely many workers
(8), `OneWorker`, the deployment of `docker-compose.yml`, `PlainInterventions` (21)
and `EveryChoice` (22). The instances
of the runs that check the same properties meet them.

**Outbox and workers**

1. `OutboxTypeCorrect`. One lemma for each statement on the table says which
   rows it keeps and how it changes them (`EnqueuedRows`, `ClaimedRows`, ...).
2. `WorkerImplementsOutbox`. `Outbox`'s specification is implemented by the
   whole system under the identity mapping: a lemma for each side assigns each
   transaction the queue action it performs. Facts about rows, such as "a row
   never changes its kind or step", are proved once for `OutboxNext` and hold
   for every step of the system.
3. `TypeCorrect`, then the lemma `OneActiveStepCorrect`: the partial unique index
   guards the only transaction that makes a step active. It is no result by
   itself, but what 5 and 6 rest on.
4. `OneRunnerPerCommandCorrect`. The strengthening behind at-most-once: whoever
   is between start and commit of a command holds a command row, its execution
   is `running`, nobody else is there, and `sshRuns` is 0 until `RunCommand`.
   Without it `CommandRunsAtMostOnce` is not inductive: a worker at `executing`
   with `sshRuns` 1 would break it. `CommandRunsAtMostOnceCorrect` follows.
5. `ExecutionMatchesStepCorrect` from 4, then `PendingStepIsProposedCorrect`, for
   which a submission needs its own case: it is the one transaction that leaves a
   pending step on a run that awaits nothing. With 3, `OnlyPendingStepIsDecidedCorrect`:
   approvals and rejections need a run that awaits a decision, whose pending step is
   proposed and so the only one that is active.
6. `AbortSeenIsCurrentCorrect`. Between a read of `aborted` and its commit the
   run stays over, because beside a submission only a completion leaves `aborted`,
   and two completions at a time would be of two approved steps (3, 4, 5). With it,
   `BusyRunHasApprovedStepCorrect`, and `AbandonedCommandNeverStartsCorrect`: a
   completion that could take the run out of `aborted` or `submitted` would be of the
   one active step, which is running; but the abandoned one is active and was
   never started.
7. `DoneCommandIsSettledCorrect` and `ApprovedCommandKeepsItsRowCorrect`: a
   command row exists only for a step that was approved, a handler that is done
   has nothing left to do, so completing its row loses no approved command; and
   cancelling and superseding touch planner rows only.
8. `AttemptsBoundedByWorkersCorrect`, and through 2 `WorkerAttemptsBounded`. The
   bound is not inductive, since a row below it may be claimed at any time.
   `ClaimsLeft` counts holders instead: the attempts of a row that may be claimed, now
   or after a recovery, stay below the limit, the crashes and the workers that hold
   the row together, and those of a failed row below the limit. A claim adds an
   attempt and a holder; the first holder that ends a row beyond the limit closes it,
   whoever holds it besides; and a crash trades its holder for one of `crashes`. It
   needs finitely many workers.

**Submission**

9. `SubmissionImplementsOutbox`, `SubmissionTypeCorrect` and
   `SubmittedIsRealCorrect`. The strengthening is `Progress`: a handler at a
   location has done what leads there (its request's activity exists, is recorded,
   the ticket is `DONE`), recorded ids are of existing activities, and none of this
   is undone. It needs `RowsCarryRequests`, since a handler finds its request
   through the row it holds, which other workers and time may rewrite.

**Locks**

10. `OverwritesAreKnownCorrect` and `CirclesStoreResultsCorrect`, from `LockInv`:
    a connection holds a lock for each statement it has executed and no other,
    conflicting locks are never held together (`LocksExclude`), and a row that is
    locked is not outdated (`LockedIsCurrent`), so that a write over an unread
    version is one without a lock. For circles the rows are given ranks (planner
    and stale rows, claimed row, request, draft, run, then what hangs on the run,
    then the execution): every transaction but the two that store a command's
    output asks for a rank above all it holds (`WaitingGoesUp`), and in a
    circle of such waits the rank, which is bounded, would rise for ever.

**Suite and policies**

11. `SuiteInv` is typing with two facts: unless the run was aborted, the last row
    belongs to the latest completed fix, and there is none before the first
    (`LatestRowIsOfLastFix`); and a ready run passes the readiness check of the
    draft. `DecidedChecksStayCorrect`,
    `FailureCompletesNoSuiteCorrect` and `UnstorableNeedsScriptCorrect` follow from
    what one recording may change, `ReadyMeansLatestFixValidatedCorrect` from
    `LatestRowIsOfLastFix`: without it, passed rows of an earlier suite might make
    a run ready.
12. `PoliciesImplementSuite`: each step of `Policy` is a step of the suite. The
    theorems of 11 are thereby theorems of `PolicySpec`.
13. `PolicyInv` adds the ledgers' typing, `ApprovedStepMeetsPolicies` and
    `HostInv`, of which `OriginalSurvives` is the core: a file that is as it was,
    restored perhaps, and of which a changed copy exists, has one of the original
    too. `LedgerInv` says that a created record of a file has a copy, or a copying
    command that did not complete. With them `FirstChangeIsCoveredCorrect`.
    `RestoreIsApprovableCorrect` rests on the shape of the restore commands that
    records may hold.

**Events**

14. `LockedEventsAreStreamedCorrect`, from `FeedInv`: an id drawn under the run's
    lock is above every id that can be read and above the cursor as long as its
    transaction is open (`OpenEventIsNewest`), because no other transaction with
    events can commit meanwhile: they wait for the run's row. So the cursor has not
    passed the event when it is committed.

**One worker process**

15. `AttemptsBoundedCorrect` is 8 for one worker.
16. `OutboxImplementsTaskQueue`, from `QueueInv`, and through 2 and 9 `WorkerImplementsTaskQueue`
    and `SubmissionImplementsTaskQueue`: each statement on the table is a step of
    the abstract queue or leaves every task as it is. Completion and failure need
    `HeldRowIsProcessing` (with one worker a held row is `processing`), without which
    they could reopen a task that is done.
    Two workers do that, since a worker that was overtaken still writes the row by
    its id (`postgres_run_store.py:587`), so `OneWorker` cannot be dropped.
17. `AtMostOneOpenRequestCorrect` and `RequestFollowsRowCorrect`, from
    `RequestsFollowRows`: a request has one row, the row is live while the request
    is active and not completed, a live row has an active request, and there is one
    active request at most. A dead letter and the end of its request are one
    transaction; the completion of a request and of its row are two, with crashes
    and errors between, and `DoneRequestIsCompleted` says in which order. `ExtraActivitiesAreExplainedCorrect`
    counts (`ActivitiesAccounted`): while a request's activity is neither
    recorded nor about to be, there are at most as many as faults so far.

**Output**

18. `OutputCaptureTypeCorrect` and `RowIsAccountableCorrect`. `Size` and `Decoded` are
    recursive functions over a text, so their proofs are inductions. They are
    done without the library's induction theorem, which takes an operator:
    `SetInduction` says of a set that holds 0 and each successor that it holds
    `Nat`, from the well-foundedness of `<`, and is applied to the set of prefixes
    with the property. With it `SizeOfPrefixes` (the sums are natural numbers and
    grow), `FittingKeeps` (what is kept of a text fits the room that is left) and
    `DecodedType` (any bytes decode to characters). The row is within the limit
    with `stored <= Limit` as part of the invariant.
19. `CompletedIsWholeCorrect`, from `ResultInv`: an exit code known to the channel is
    of a host that has ended, the last drain comes after it, and a result with an
    exit code is made of an emptied channel.

**Planner**

20. `PlannerTypesCorrect` and `ProposesNothingTwiceCorrect`. What the planner
    proposes is shown to be a member of three sets of steps or the edit of a port
    (`PlannedSteps`, `EditsPort`), and by `NextStepIsNew` none that was attempted since
    the last completed fix, whatever the history; that nothing is attempted
    between planning and proposal is `Plan` being one step here and
    `BusyRunHasApprovedStep` in `Worker`.
21. `ReadyHostServesCorrect`. By `ReadyMeansLatestFixValidated` a ready run has passed the
    customer's check of its latest fix; to show is that what the check saw is
    still so. `ServesInv` follows it through the two steps in which it is known,
    the answer not yet stored (`AnswerIsTrue`) and the row (`RowsAreTrue`). A unit
    that comes up at each restart keeps serving because its file, once repaired,
    sets the right port whenever the unit reads it, and nothing stops it; one that
    never does is down from the first completed fix on, so no check can have passed;
    one that comes up once is excepted by the property. `PlainInterventions` is used
    exactly there: without edits and restores of the technician's the file stays
    repaired, without `disable` the unit stays up, with restarts as his only fixes a
    unit that never comes up has been restarted, and without lists of sockets the
    customer's check is an answer of the endpoint. It binds the steps of every phase,
    since a diagnostic step may change the host as well. The planner itself keeps to all
    of it (`PlainStep`); that its `enable` starts a unit only if it is down is why a
    fix of this kind is the planner's alone (`SaysDown`, `RestartsNow`: it proposes one
    for a unit that its latest answer shows down).
22. `PlannerImplementsPolicy`: each step of the loop is a step of `Policy` whose
    constants allow it (`EveryChoice`: what the planner may propose is proposable,
    any answer may come, anything may be waived). So the theorems of 11, 12 and 13
    hold of the loop; `PlannerMeetsPolicies` states two of them.

Only model-checked: liveness (`EveryEventSettles`, `EveryRowIsHandled`,
`ApprovedCommandEnds`, `RepairableIsRepaired`, `ScreenShowsTheLog`,
`QuietCommandEnds`), which is out of the prover's reach, and the run that finds
`AbortedIsFinal` violated. Every invariant and every action property that a passing
run checks is stated by a theorem.

## 5. What is not modelled

* **The in-memory run store**, a test double for one process. It shares the
  helpers of `run_store.py` that `ValidationSuite` and `Policy` translate and has no
  transactions to interleave.
* **Phoenix client and cache.** The calls of a submission are in
  `ActivitySubmission`; the cache answers reads and writes whole rows in
  transactions of one statement.
* **Activity generator, row mappers, schemas**: text and field-by-field copies.
* **Shell**: configuration, logging, engine, health; the size of the connection
  pool and the handler that takes a second connection
  (`postgres_run_store.py:1066`) are planned.
* **Redaction and shell parsing** in the safety layer, excerpts and findings of the
  evidence detector: text.
* **The language model, the remote hosts, Phoenix** are external: any answer is
  allowed where the code does not restrict it, and `Planner` has one kind of host.
* **Frontend** beyond the event list: other queries replace their data by the poll.

## 6. Plan

Every safety property of the runs is proved. Next:

1. The suite and the ledgers are proved for one step at a time, which `Worker`
   justifies (section 2). To state that link: an abstract life of a step (proposed, approved, started, ended) that
   `Worker` and `ValidationSuite` both implement.
2. What else two workers keep, in place of `OneWorker`: which tasks an overtaken
   worker can reopen.
3. `ConnectionPool`, `PhoenixCache`.
4. The audit trail: which events a transaction writes, and what the activity's
   draft reads of them.
