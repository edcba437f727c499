-------------------------- MODULE ValidationSuite --------------------------
(***************************************************************************)
(* The validation suite of a run: the checks a completed fix makes          *)
(* necessary, how the results of validation commands decide them, and when  *)
(* the run is ready for its activity.                                       *)
(*                                                                          *)
(* One step is alive at a time (RunStore proves it), so the module keeps a  *)
(* single one, from its proposal to the commit of its result; concurrency   *)
(* is Worker's subject.  Policies may refuse an approval: Policy adds them. *)
(***************************************************************************)
EXTENDS Commands

CONSTANTS
    Tickets,    \* what a ticket says: its service, whether customers notice,
                \* whether it demands the run of a script
    Proposals,  \* the steps a technician or the planner may propose, and
                \* the commands an approval may put in their place
    Restores,   \* the steps that backup records propose
    Answers,    \* the outcomes of commands to consider
    MaxFixes    \* bound on completed fixes

Phases == {"diagnostic", "fix", "validation"}

ASSUME SuiteAssumption ==
    /\ Tickets \subseteq [service : Services \cup {NoTarget},
                          customerFacing : BOOLEAN, script : BOOLEAN]
    /\ Proposals \subseteq [phase : Phases, cmd : Command]
    /\ Restores \subseteq [phase : {"diagnostic"}, cmd : Command]
    /\ Answers \subseteq Outcome
    /\ MaxFixes \in Nat

VARIABLES
    ticket,        \* the ticket snapshot of the run
    runStatus,     \* runs.status
    step,          \* the step in progress and how its command ended
    expectations,  \* validation_expectations, in the order of their ids
    fixes,         \* number of completed executions of fix steps
    validated      \* a validation_results row has passed

suiteVars == <<ticket, runStatus, step, expectations, fixes, validated>>

CheckTypes == StorableChecks \cup {"public_validation"}

\* An expectation belongs to the fix, counted from 1, whose completion
\* inserted it.
Expectation == [fix : Nat, type : CheckTypes, target : Services \cup {NoTarget},
                status : {"pending", "passed", "failed"}]

NoOutcome == [status |-> "unreached", sign |-> "plain"]

\* "finished": the host has answered, the result is not stored yet.  A step
\* that is rejected, blocked or stored is out of the way.
Step == [status : {"none", "proposed", "approved", "finished"},
         phase : Phases, cmd : Command, outcome : Outcome]

NoStepYet == [status |-> "none", phase |-> "diagnostic",
              cmd |-> Cmd("prose", NoTarget), outcome |-> NoOutcome]

SuiteInit ==
    /\ ticket \in Tickets
    /\ runStatus = "investigating"
    /\ step = NoStepYet
    /\ expectations = <<>>
    /\ fixes = 0
    /\ validated = FALSE
-----------------------------------------------------------------------------
(* The checks a fix makes necessary: _validation_expectation_specs.         *)

\* The unit the command acts on or asks about, else the known one its text
\* mentions, else the one that its purpose or the notes of the system name.
ServiceOf(c) ==
    CASE c.verb \in NamingVerbs -> c.target
      [] c.verb \notin NamingVerbs /\ Mentions[c] # NoTarget -> Mentions[c]
      [] OTHER -> ticket.service

Check(type, target, needed) ==
    IF needed THEN <<[type |-> type, target |-> target]>> ELSE <<>>

\* Mutant: the script is demanded of customer-facing tickets.
RequiredChecksWithScript(c) ==
    Check("service_health", ServiceOf(c), ServiceOf(c) # NoTarget)
      \o Check("public_validation", NoTarget, ticket.customerFacing)

\* A fix that is no restart must survive one before the customer's check.
RequiredChecks(c) ==
    LET service == ServiceOf(c)
        named == service # NoTarget
        lasting == RequiresPersistence(c)
    IN  Check("service_health", service, named)
          \o Check("persistence", service, lasting /\ ~RestartsService(c))
          \o Check("customer_benefit", NoTarget, ticket.customerFacing)
          \o Check("logs_clean", service, named)
          \o Check("persistence", service, lasting /\ RestartsService(c))
          \o Check("public_validation", NoTarget, ticket.script)

ExpectedChecks(c) ==
    IF RequiredChecks(c) = <<>> THEN Check("other", NoTarget, TRUE)
    ELSE RequiredChecks(c)

WithExpectations(rows, c) ==
    rows \o [i \in DOMAIN ExpectedChecks(c) |->
               [fix |-> fixes + 1, type |-> ExpectedChecks(c)[i].type,
                target |-> ExpectedChecks(c)[i].target, status |-> "pending"]]
-----------------------------------------------------------------------------
(* Results and the verdict of the suite.                                    *)

\* The rows of the fix that inserted the last one.
LatestRows(rows) == {i \in DOMAIN rows : rows[i].fix = rows[Len(rows)].fix}

TargetsMatch(expected, actual) ==
    expected = NoTarget \/ actual = NoTarget \/ expected = actual

\* Mutant: a row that failed may be decided anew.
UndecidedOrFailed(rows, c) ==
    {i \in LatestRows(rows) : rows[i].status # "passed" /\ rows[i].type = CheckType(c)}

\* The pending rows of the latest fix that a result of the command may decide.
Candidates(rows, c) ==
    {i \in LatestRows(rows) : rows[i].status = "pending" /\ rows[i].type = CheckType(c)}

\* One whose target fits, else any of the type.
Matches(rows, c) ==
    LET exact == {i \in Candidates(rows, c) : TargetsMatch(rows[i].target, CheckTarget(c))}
    IN  IF exact # {} THEN exact ELSE Candidates(rows, c)

\* Mutant: any result is taken for a success.
DecidedAsPassed(rows, c, passed) ==
    [i \in DOMAIN rows |->
       IF i \in Matches(rows, c) /\ \A j \in Matches(rows, c) : i <= j
       THEN [rows[i] EXCEPT !.status = "passed"] ELSE rows[i]]

Decided(rows, c, passed) ==
    [i \in DOMAIN rows |->
       IF i \in Matches(rows, c) /\ \A j \in Matches(rows, c) : i <= j
       THEN [rows[i] EXCEPT !.status = IF passed THEN "passed" ELSE "failed"]
       ELSE rows[i]]

\* Mutant: one passed row is enough.
SuiteStatusLenient(rows) ==
    IF \E i \in LatestRows(rows) : rows[i].status = "failed" THEN "failed"
    ELSE IF \E i \in LatestRows(rows) : rows[i].status = "passed" THEN "passed"
    ELSE "incomplete"

SuiteStatus(rows) ==
    IF \E i \in LatestRows(rows) : rows[i].status = "failed" THEN "failed"
    ELSE IF \A i \in LatestRows(rows) : rows[i].status = "passed" THEN "passed"
    ELSE "incomplete"

\* _assert_activity_ready, but for the run's status.
ActivityReady ==
    IF expectations = <<>> THEN fixes = 0 /\ validated
    ELSE SuiteStatus(expectations) = "passed"

\* Mutant: the result is taken for the suite's.
SuitePassesByResult(rows, passed) == passed

\* What a result makes of the suite.  Without any expectation the result
\* stands for the suite, unless a fix has been completed.
SuitePasses(rows, passed) ==
    IF rows = <<>> THEN fixes = 0 /\ passed ELSE SuiteStatus(rows) = "passed"
-----------------------------------------------------------------------------
(* The life of a step.                                                      *)

\* Mutant: the state diagram's Planning status, which no code writes.
IdleStatusPlanning == IF runStatus = "validating" THEN "validating" ELSE "planning"

IdleStatus == IF runStatus = "validating" THEN "validating" ELSE "investigating"

StatusForApproved ==
    CASE step.phase = "fix" -> "fixing"
      [] step.phase = "validation" -> "validating"
      [] OTHER -> "executing"

\* A blocked step is only recorded; the unique index refuses an allowed one
\* while another is proposed or approved.
Propose(p) ==
    /\ runStatus \notin {"aborted", "failed", "awaiting_step_approval"}
    /\ p.phase = "fix" => fixes < MaxFixes
    /\ IF Blocked(p.cmd)
       THEN /\ runStatus' = IdleStatus
            /\ UNCHANGED step
       ELSE /\ step.status = "none"
            /\ runStatus' = "awaiting_step_approval"
            /\ step' = [status |-> "proposed", phase |-> p.phase, cmd |-> p.cmd,
                        outcome |-> NoOutcome]
    /\ UNCHANGED <<ticket, expectations, fixes, validated>>

\* approve_step, and edit_and_approve_step with another command.
Approve(c) ==
    /\ runStatus = "awaiting_step_approval"
    /\ step.status = "proposed"
    /\ ~Blocked(c)
    /\ step' = [step EXCEPT !.status = "approved", !.cmd = c]
    /\ runStatus' = StatusForApproved
    /\ UNCHANGED <<ticket, expectations, fixes, validated>>

Reject ==
    /\ runStatus = "awaiting_step_approval"
    /\ step.status = "proposed"
    /\ step' = NoStepYet
    /\ runStatus' = IdleStatus
    /\ UNCHANGED <<ticket, expectations, fixes, validated>>

\* start_command_execution and the answer of the host.
RunCommand(outcome) ==
    /\ step.status = "approved"
    /\ runStatus = StatusForApproved
    /\ step' = [step EXCEPT !.status = "finished", !.outcome = outcome]
    /\ UNCHANGED <<ticket, runStatus, expectations, fixes, validated>>

FixCompleted == step.phase = "fix" /\ step.outcome.status = "completed"

\* The inserts of the completion violate no check of their tables.
Storable ==
    /\ FixCompleted =>
         \A i \in DOMAIN ExpectedChecks(step.cmd) :
            ExpectedChecks(step.cmd)[i].type \in StorableChecks
    /\ step.phase = "validation" => CheckType(step.cmd) \in StorableChecks

\* complete_command_execution: the execution ends, and unless the run was
\* aborted the result is applied to the suite and the run.
RecordResult ==
    LET passed == ValidationPassed(step.cmd, step.outcome)
        rows == Decided(expectations, step.cmd, passed)
    IN  /\ step.status = "finished"
        /\ runStatus = "aborted" \/ Storable
        /\ step' = NoStepYet
        /\ fixes' = IF FixCompleted THEN fixes + 1 ELSE fixes
        /\ CASE runStatus = "aborted" ->
                  UNCHANGED <<runStatus, expectations, validated>>
             [] runStatus # "aborted" /\ step.phase = "validation" ->
                  /\ expectations' = rows
                  /\ validated' = (validated \/ passed)
                  /\ runStatus' =
                       IF step.outcome.status = "completed" /\ SuitePasses(rows, passed)
                       THEN "ready_for_activity" ELSE "validating"
             [] runStatus # "aborted" /\ FixCompleted ->
                  /\ expectations' = WithExpectations(expectations, step.cmd)
                  /\ runStatus' = "validating"
                  /\ UNCHANGED validated
             [] OTHER ->
                  /\ runStatus' = IF step.outcome.status = "unreached" THEN "failed"
                                  ELSE "investigating"
                  /\ UNCHANGED <<expectations, validated>>
        /\ UNCHANGED ticket

RetryRun ==
    /\ runStatus # "aborted"
    /\ runStatus' = "investigating"
    /\ UNCHANGED <<ticket, step, expectations, fixes, validated>>

AbortRun ==
    /\ runStatus # "aborted"
    /\ runStatus' = "aborted"
    /\ UNCHANGED <<ticket, step, expectations, fixes, validated>>

SuiteNext ==
    \/ \E p \in Proposals \cup Restores : Propose(p)
    \/ \E c \in {step.cmd} \cup {p.cmd : p \in Proposals} : Approve(c)
    \/ Reject
    \/ \E outcome \in Answers : RunCommand(outcome)
    \/ RecordResult
    \/ RetryRun
    \/ AbortRun

SuiteSpec == SuiteInit /\ [][SuiteNext]_suiteVars
-----------------------------------------------------------------------------
(* Properties.                                                              *)

RunStatus == {"investigating", "awaiting_step_approval", "executing", "fixing",
              "validating", "ready_for_activity", "aborted", "failed"}

\* Every variable keeps its type.
SuiteTypeOK ==
    /\ ticket \in Tickets
    /\ runStatus \in RunStatus
    /\ step \in Step
    /\ expectations \in Seq(Expectation)
    /\ fixes \in Nat
    /\ validated \in BOOLEAN

\* A run that is ready for its activity has passed every check of its latest
\* completed fix, whatever commands followed in whatever phases; without a fix,
\* some validation has passed.
ReadyMeansLatestFixValidated ==
    runStatus = "ready_for_activity" =>
        IF fixes = 0 THEN expectations = <<>> /\ validated
        ELSE /\ \E i \in DOMAIN expectations : expectations[i].fix = fixes
             /\ \A i \in DOMAIN expectations :
                  expectations[i].fix = fixes => expectations[i].status = "passed"

\* The drafting of the activity, which judges the rows anew, refuses no run
\* that the completion of a command has declared ready.
ReadyIsDraftable == runStatus = "ready_for_activity" => ActivityReady

\* A check that was decided is never decided again, a check of an earlier fix
\* is never decided any more, and no check disappears: a failed suite can only
\* be left behind by a new fix.
DecidedChecksStay ==
    [][/\ Len(expectations') >= Len(expectations)
       /\ \A i \in DOMAIN expectations :
            \/ expectations'[i] = expectations[i]
            \/ /\ expectations[i].fix = fixes
               /\ expectations[i].status = "pending"]_suiteVars

\* A result that failed makes a run ready only if the suite had passed before:
\* no failing check completes a suite.
FailureCompletesNoSuite ==
    [][\/ runStatus' # "ready_for_activity"
       \/ ValidationPassed(step.cmd, step.outcome)
       \/ expectations # <<>> /\ ActivityReady]_suiteVars

\* A finished command whose result cannot be stored belongs to a ticket that
\* demands a script, or is itself a script: no other fix or validation is lost.
UnstorableNeedsScript ==
    step.status = "finished" /\ ~Storable =>
        ticket.script \/ CheckType(step.cmd) = "public_validation"

=============================================================================
