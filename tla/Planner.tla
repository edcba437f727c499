------------------------------ MODULE Planner ------------------------------
(***************************************************************************)
(* The deterministic planner in a closed loop with the technician's         *)
(* approvals, the policies, the validation suite and a host with one faulty *)
(* unit.  Each command of the loop is proposed by agent_orchestrator.py     *)
(* from the ticket, the commands run so far, what they printed and the      *)
(* expectations; its answer is what the host's state makes it.              *)
(*                                                                          *)
(* The actions are those of Policy with their choices resolved: the         *)
(* proposal by the planner, the outcome by the host.                        *)
(***************************************************************************)
EXTENDS Policy

CONSTANTS
    Situations,      \* the hosts and the tickets to consider
    CustomerStatus,  \* the unit the planner falls back to
    Nginx,           \* the unit validations fall back to
    EnvFile,         \* the EnvironmentFile of the faulty unit
    ManualSteps,     \* what the technician may enter
    WebServers,      \* units whose configuration has a test command
    MaxCommands,     \* bound on the commands of a run
    MaxInterventions \* bound on what the technician does of his own accord

Symptoms == {"disk", "memory", "port", "permission", "other"}

\* As the endpoint's URL has it or not.
Ports == {"unset", "right", "wrong"}

Situation == [
    app : Services,                        \* the unit behind the endpoint
    named : Services \cup {NoTarget},      \* the unit the ticket's texts name
    similar : Services \cup {NoTarget},    \* the unit whose name shares words with the ticket
    symptom : Symptoms,                    \* the first category of the texts
    url : BOOLEAN,                         \* the texts hold the endpoint's URL
    state : {"active", "inactive", "failed"}, enabled : BOOLEAN,
    port : Ports,                          \* what EnvFile sets PORT to
    restart : {"works", "fails", "dies", "once"}, \* what comes of restarting the unit
    journal : {"clean", "old", "recent"}]  \* the errors its journal keeps: none,
                                           \* some, some of the last five minutes

ASSUME PlannerAssumption ==
    /\ Situations \subseteq Situation
    /\ {CustomerStatus, Nginx} \subseteq Services
    /\ EnvFile \in Files
    /\ ManualSteps \subseteq Proposals
    /\ WebServers \subseteq Services
    /\ MaxCommands \in Nat /\ MaxInterventions \in Nat

VARIABLES
    situation,    \* fixed with the ticket, but for the unit and its EnvFile:
    unit,         \* the faulty unit, the port its EnvFile sets and the one it read
    commands,     \* the command executions, in the order of their ids
    planQueued,   \* an outbox row asks for planning
    interventions \* the technician's own steps, rejections and retries

loopVars == <<situation, unit, commands, planQueued, interventions>>
plannerVars == <<policyVars, loopVars>>

\* What a planner reads in an output besides its sign.
Words == {"disabled", "unit", "envfile", "otherport"}

\* A unit reads the file when it starts: "set" is in the file, "read" was.
Unit == [state : {"active", "inactive", "failed"}, enabled : BOOLEAN,
         set : Ports, read : Ports]

Execution == [cmd : Command, phase : Phases, outcome : Outcome, words : SUBSET Words]
-----------------------------------------------------------------------------
(* What the planner reads from the texts, the commands and their outputs.   *)

Or(a, b) == IF a # NoTarget THEN a ELSE b

Diagnose(verb, target) == [phase |-> "diagnostic", cmd |-> Cmd(verb, target)]
Validate(verb, target) == [phase |-> "validation", cmd |-> Cmd(verb, target)]
Repair(verb, target) == [phase |-> "fix", cmd |-> Cmd(verb, target)]

LooksRestartable(execution) == execution.outcome.sign = "bad"

\* A PORT line is no sign of health.
LooksHealthy(execution) ==
    execution.outcome.sign = "good" /\ execution.cmd.verb # "port"

Failed(execution) == execution.outcome.status # "completed"

ServiceOfCommand(c) == IF c.verb \in NamingVerbs THEN c.target ELSE NoTarget

\* The unit of the last command that names one.
ServiceOfHistory ==
    LET Names(i) == ServiceOfCommand(commands[i].cmd) # NoTarget
        last == CHOOSE i \in DOMAIN commands :
                    Names(i) /\ \A j \in i + 1 .. Len(commands) : ~Names(j)
    IN  IF \E i \in DOMAIN commands : Names(i)
        THEN ServiceOfCommand(commands[last].cmd) ELSE NoTarget

\* _ticket_relevant_installed_service: found in the list of the unit files.
DiscoveredService ==
    IF \E i \in DOMAIN commands : "unit" \in commands[i].words
    THEN situation.similar ELSE NoTarget

EnvironmentFileKnown ==
    \E i \in DOMAIN commands :
        commands[i].cmd.verb = "port" \/ "envfile" \in commands[i].words

Attempted == {commands[i].cmd : i \in DOMAIN commands}

\* Mutant: validations are compared with all commands of the run.
AttemptedEver == Attempted

AttemptedSinceLatestFix ==
    {commands[i].cmd : i \in
        {j \in DOMAIN commands : \A k \in j .. Len(commands) :
            commands[k].phase = "fix" => Failed(commands[k])}}
-----------------------------------------------------------------------------
(* The lists of diagnostics.                                                *)

\* The first that was not tried; the last resort is to look further and
\* further back into the journal, "journal-wide" standing for any such window.
FirstUntried(steps, attempted, service) ==
    LET Untried(i) == steps[i].cmd \notin attempted
        first == CHOOSE i \in DOMAIN steps :
                     Untried(i) /\ \A j \in 1 .. i - 1 : ~Untried(j)
    IN  IF \E i \in DOMAIN steps : Untried(i) THEN steps[first]
        ELSE Diagnose("journal-wide", service)

\* continuation_diagnostic_step.
Continuation(service) ==
    <<Diagnose("cat", service), Diagnose("show", service),
      Diagnose("list-dependencies", service), Diagnose("ss-owners", NoTarget),
      Diagnose("curl-body", NoTarget)>>

ServiceToExplore ==
    Or(ServiceOfHistory, Or(DiscoveredService, Or(situation.named, CustomerStatus)))

OfService(service) ==
    IF service = NoTarget THEN <<>>
    ELSE <<Diagnose("status", service), Diagnose("journal", service)>>

\* _next_untried_diagnostic.
NextUntriedDiagnostic ==
    LET service == Or(ServiceOfHistory, situation.named)
        discovered == IF DiscoveredService = NoTarget THEN <<>>
                      ELSE <<Diagnose("status", DiscoveredService)>>
    IN  FirstUntried(
          discovered \o OfService(service)
            \o <<Diagnose("list-units", NoTarget), Diagnose("ps", NoTarget),
                 Diagnose("list-sockets", NoTarget), Diagnose("list-unit-files", NoTarget)>>
            \o Continuation(ServiceToExplore),
          Attempted, ServiceToExplore)

\* _failed_validation_diagnostic.
FailedValidationDiagnostic(service) ==
    FirstUntried(
      OfService(service)
        \o <<Diagnose("list-units", NoTarget), Diagnose("ps", NoTarget)>>
        \o Continuation(ServiceToExplore),
      Attempted, ServiceToExplore)
-----------------------------------------------------------------------------
(* The phases.                                                              *)

\* system_context_planner.
FirstDiagnostic ==
    CASE situation.symptom = "disk" -> Diagnose("df", NoTarget)
      [] situation.symptom = "memory" -> Diagnose("free", NoTarget)
      [] situation.symptom = "port" -> Diagnose("ss", NoTarget)
      [] situation.symptom = "permission" -> Diagnose("stat", NoTarget)
      [] situation.symptom = "other" /\ situation.named # NoTarget ->
            Diagnose("status", situation.named)
      [] OTHER -> Diagnose("failed", NoTarget)

\* fix_planner: a unit that is down and disabled is enabled, any other
\* restarted.
FixPlan(latest, history) ==
    LET service == Or(ServiceOfCommand(latest.cmd),
                      Or(history, Or(situation.named, CustomerStatus)))
    IN  Repair(IF "disabled" \in latest.words /\ LooksRestartable(latest)
               THEN "enable" ELSE "restart", service)

\* _validation_step_for_expectations, for its first pending expectation.
ValidationOf(row) ==
    LET target == Or(row.target, Or(situation.named, Nginx))
    IN  CASE row.type = "service_health" -> Validate("is-active", target)
          [] row.type = "logs_clean" -> Validate("journal-recent", target)
          [] row.type = "persistence" -> Validate("restart", target)
          [] row.type = "public_validation" -> Validate("script", NoTarget)
          [] OTHER -> Validate("curl", NoTarget)

\* planner_phase_transition; a restore counts as a diagnosis.
NextPhase(latest) ==
    CASE latest.phase = "fix" -> IF Failed(latest) THEN "diagnostic" ELSE "validation"
      [] latest.phase = "validation" -> "validation"
      [] latest.phase = "diagnostic" /\ LooksRestartable(latest) -> "fix"
      [] latest.phase = "diagnostic" /\ ~LooksRestartable(latest) /\ LooksHealthy(latest) ->
            "validation"
      [] OTHER -> "diagnostic"

\* All expectations of the run, those of earlier fixes too.
Pending == {i \in DOMAIN expectations : expectations[i].status = "pending"}

Validating == runStatus = "validating" /\ expectations # <<>>

\* _deterministic_next_step_candidate.
Candidate ==
    LET latest == commands[Len(commands)]
        service == Or(ServiceOfCommand(latest.cmd), Or(ServiceOfHistory, situation.named))
        next == NextPhase(latest)
        portKnown == EnvironmentFileKnown /\ situation.url
    IN  CASE commands = <<>> -> FirstDiagnostic
          [] commands # <<>> /\ Validating
               /\ \E i \in DOMAIN expectations : expectations[i].status = "failed" ->
               FixPlan(latest, NoTarget)
          [] OTHER ->
               IF portKnown /\ Cmd("port", EnvFile) \notin Attempted
                 THEN Diagnose("port", EnvFile)
               ELSE IF portKnown /\ "otherport" \in latest.words THEN Repair("inline", EnvFile)
               ELSE IF next = "fix" THEN FixPlan(latest, ServiceOfHistory)
               ELSE IF next = "validation" /\ latest.phase = "fix"
                 THEN Validate("is-active", Or(service, Nginx))
               ELSE IF next = "validation" /\ latest.phase = "validation" /\ Failed(latest)
                 THEN FailedValidationDiagnostic(service)
               ELSE IF next = "validation" /\ latest.phase = "validation"
                 THEN Validate("curl", NoTarget)
               ELSE IF latest.cmd.verb = "status" THEN Diagnose("journal", service)
               ELSE IF latest.cmd.verb \in {"journal", "journal-recent", "journal-wide"}
                 THEN IF service \in WebServers THEN Diagnose("configtest", NoTarget)
                      ELSE Diagnose("cat", service)
               ELSE IF LooksHealthy(latest) THEN Validate("curl", NoTarget)
               ELSE IF service # NoTarget THEN Diagnose("journal", service)
               ELSE IF latest.cmd.verb \in {"ss", "ss-owners"} THEN Diagnose("failed", NoTarget)
               ELSE Diagnose("ss", NoTarget)

\* The least of the indices.
First(indices) == CHOOSE i \in indices : \A j \in indices : i <= j

\* _next_untried_validation; its diagnostics forget the commands' units.
NextUntriedValidation(attempted) ==
    LET untried == {i \in Pending : ValidationOf(expectations[i]).cmd \notin attempted}
        service == Or(situation.named, CustomerStatus)
    IN  IF untried = {} THEN FirstUntried(Continuation(service), attempted, service)
        ELSE ValidationOf(expectations[First(untried)])

\* Mutant: what was attempted is not looked at.
NextStepAgain ==
    IF Validating /\ Pending # {} THEN NextUntriedValidation(AttemptedSinceLatestFix)
    ELSE Candidate

\* deterministic_next_step.  The approval checkpoint asks it a second time
\* when the command was run before, and gets the same answer.
NextStep ==
    CASE Validating /\ Pending # {} -> NextUntriedValidation(AttemptedSinceLatestFix)
      [] ~(Validating /\ Pending # {}) /\ DiscoveredService # NoTarget
           /\ Cmd("status", DiscoveredService) \notin Attempted ->
            Diagnose("status", DiscoveredService)
      [] OTHER -> IF Candidate.cmd \notin Attempted THEN Candidate ELSE NextUntriedDiagnostic
-----------------------------------------------------------------------------
(* The host.                                                                *)

App == situation.app

\* The endpoint answers: the unit is up and listens on the port it should.
Serves == unit.state = "active" /\ unit.read # "wrong"

Up == unit.state = "active"

\* A step that the technician may have entered, in his own words.
Manual == [phase |-> step.phase, cmd |-> step.cmd] \in ManualSteps

\* To start a unit that is up does nothing.
Starts(c, now) == c.verb = "restart" \/ (c.verb = "enable" /\ now /\ ~Up)

Answer(status, sign, words) ==
    [outcome |-> [status |-> status, sign |-> sign], words |-> words]

\* What the command answers on the host.  Commands on other units than the
\* faulty one find none, other files set no port.  "now" tells whether an enable
\* or disable is --now.
HostAnswer(c, now) ==
    LET down == IF unit.enabled THEN {} ELSE {"disabled"}
    IN  CASE c.target \in Services \ {App} ->
                Answer(IF c.verb \in {"journal", "journal-recent", "journal-wide", "show"}
                       THEN "completed" ELSE "failed",
                       IF c.verb \in {"show", "is-active"} \cup ServiceChanges
                       THEN "bad" ELSE "plain", {})
          [] c.target = App /\ c.verb \in {"status", "show"} ->
                Answer(IF Up \/ c.verb = "show" THEN "completed" ELSE "failed",
                       IF Up THEN "good" ELSE "bad", down)
          [] c.target = App /\ c.verb = "is-active" ->
                Answer(IF Up THEN "completed" ELSE "failed", IF Up THEN "good" ELSE "bad", {})
          [] c.target = App /\ c.verb \in {"journal", "journal-wide"} ->
                Answer("completed", IF situation.journal = "clean" THEN "plain" ELSE "bad", {})
          [] c.target = App /\ c.verb = "journal-recent" ->
                Answer("completed", IF situation.journal = "recent" THEN "bad" ELSE "plain", {})
          [] c.verb = "configtest" ->
                IF App \in WebServers THEN Answer("completed", "good", {})
                ELSE Answer("failed", "plain", {})
          [] c.target = App /\ c.verb = "cat" ->
                Answer("completed", "plain",
                       IF situation.port = "unset" THEN {} ELSE {"envfile"})
          [] c.target = App /\ Starts(c, now) /\ situation.restart = "fails" ->
                Answer("failed", "bad", {})
          [] c.verb = "port" /\ (c.target # EnvFile \/ unit.set = "unset") ->
                Answer("failed", "plain", {})
          [] c.target = EnvFile /\ c.verb = "port" ->
                Answer("completed", "good", IF unit.set = "wrong" THEN {"otherport"} ELSE {})
          [] c.verb \in {"restore", "restore-inline"} /\ ~Possible(c) ->
                Answer("failed", "plain", {})
          [] c.verb \in {"curl", "curl-body"} ->
                IF Serves THEN Answer("completed", "good", {}) ELSE Answer("failed", "bad", {})
          [] c.verb = "failed" ->
                Answer("completed", IF unit.state = "failed" THEN "bad" ELSE "plain", {})
          [] c.verb = "list-units" -> Answer("completed", "good", {})
          [] c.verb = "list-unit-files" ->
                Answer("completed", "plain", IF situation.similar = NoTarget THEN {} ELSE {"unit"})
          [] OTHER -> Answer("completed", "plain", {})

\* A unit that dies does so after systemctl has returned; one that comes up
\* "once" does when it is restarted while it is up.
StateAfter(c, now) ==
    CASE Starts(c, now) ->
            IF situation.restart = "works" \/ (situation.restart = "once" /\ ~Up)
            THEN "active" ELSE "failed"
      [] c.verb = "disable" /\ now /\ Up -> "inactive"
      [] OTHER -> unit.state

UnitAfter(c, now) ==
    IF c.target # App THEN unit
    ELSE [unit EXCEPT
            !.state = StateAfter(c, now),
            !.enabled = c.verb = "enable" \/ (unit.enabled /\ c.verb # "disable"),
            !.read = IF Starts(c, now) THEN unit.set ELSE unit.read]

\* The planner's sed sets the endpoint's port, the technician's any; a copy that
\* was changed may be of any version of the file.
SettingsAfter(c) ==
    CASE \/ c.target # EnvFile
         \/ c.verb \notin {"edit", "inline", "restore", "restore-inline"}
         \/ ~Possible(c) -> {unit.set}
      [] c = Cmd("inline", EnvFile) /\ ~Manual -> {"right"}
      [] OTHER -> Ports
-----------------------------------------------------------------------------
PlannerInit ==
    /\ PolicyInit
    /\ situation \in Situations
    /\ situation.url => ticket.customerFacing
    /\ ticket.service = Or(situation.named, situation.similar)
    /\ unit = [state |-> situation.state, enabled |-> situation.enabled,
                set |-> situation.port, read |-> situation.port]
    /\ commands = <<>>
    /\ planQueued = TRUE
    /\ interventions = 0

\* The planning of a queued row, skipped when the run is over or has a step.
Plan ==
    /\ planQueued
    /\ Len(commands) < MaxCommands
    /\ planQueued' = FALSE
    /\ IF runStatus \in {"aborted", "ready_for_activity", "failed", "awaiting_step_approval"}
       THEN UNCHANGED policyVars
       ELSE \E p \in {NextStep} : ProposeStep(p)
    /\ UNCHANGED <<situation, unit, commands, interventions>>

Intervene ==
    /\ interventions < MaxInterventions
    /\ interventions' = interventions + 1
    /\ UNCHANGED <<situation, unit, commands>>

\* A step of the technician replaces the planning that waits.
ProposeManually(p) ==
    /\ Intervene
    /\ ProposeStep(p)
    /\ planQueued' = FALSE

RejectProposal ==
    /\ Intervene
    /\ Reject
    /\ UNCHANGED <<ledgers, host, planQueued>>

\* retry_run.  A step that was open stays so and can no more be decided; the
\* planning that fails for it, for ever, changes nothing.
Retry ==
    /\ RetryRun
    /\ planQueued' = TRUE
    /\ UNCHANGED <<ledgers, host>>

RetryAtWill == Intervene /\ Retry

\* The retry of a run that nobody works at.
RetryIdle ==
    /\ ~planQueued
    /\ step.status = "none"
    /\ runStatus \in {"investigating", "validating", "failed"}
    /\ Retry
    /\ UNCHANGED <<situation, unit, commands, interventions>>

ApproveProposal ==
    /\ ApproveStep(step.cmd)
    /\ UNCHANGED loopVars

\* The technician declares that the proposed step needs no backup.
Waive ==
    /\ step.status = "proposed"
    /\ ~BackupSatisfied(step.cmd)
    /\ WaiveBackup(step.cmd.target)
    /\ UNCHANGED loopVars

\* The rejection of a step that the fix policy refuses.
RejectRefused ==
    /\ ~FixPolicyAllows(step.cmd)
    /\ Reject
    /\ UNCHANGED <<ledgers, host, loopVars>>

\* The planner's enable is one --now; the technician's need not be.
ExecuteOnHost ==
    \E now \in {TRUE, ~Manual} :
        LET answer == HostAnswer(step.cmd, now)
        IN  /\ Execute(answer.outcome)
            /\ \E set \in SettingsAfter(step.cmd) :
                  /\ content'[EnvFile] = "original" => set = situation.port
                  /\ unit' = [UnitAfter(step.cmd, now) EXCEPT !.set = set]
            /\ commands' = Append(commands,
                 [cmd |-> step.cmd, phase |-> step.phase, outcome |-> answer.outcome,
                  words |-> answer.words])
            /\ UNCHANGED <<situation, planQueued, interventions>>

RecordAndReplan ==
    /\ RecordStep
    /\ planQueued' = (planQueued \/ runStatus' \in {"investigating", "validating"})
    /\ UNCHANGED <<situation, unit, commands, interventions>>

\* The worker's loop plans and records, the host answers, and the technician
\* sees to a run that waits for him.
Progress ==
    \/ Plan
    \/ ApproveProposal
    \/ Waive
    \/ RejectRefused
    \/ RetryIdle
    \/ ExecuteOnHost
    \/ RecordAndReplan

PlannerNext ==
    \/ Progress
    \/ \E p \in ManualSteps : ProposeManually(p)
    \/ RejectProposal
    \/ RetryAtWill

PlannerSpec == PlannerInit /\ [][PlannerNext]_plannerVars

FairPlannerSpec == PlannerSpec /\ WF_plannerVars(Progress)
-----------------------------------------------------------------------------
(* Properties.                                                              *)

\* The planner proposes nothing that has been run since the last completed fix.
\* (The wider and wider journal windows are one command here.)
ProposesNothingTwice ==
    [][step.status = "none" /\ step'.status = "proposed" /\ interventions' = interventions =>
         \/ step'.cmd.verb = "journal-wide"
         \/ \A i \in DOMAIN commands :
              commands[i].cmd = step'.cmd =>
                \E j \in i .. Len(commands) :
                   commands[j].phase = "fix" /\ commands[j].outcome.status = "completed"
      ]_plannerVars

\* A repaired run whose customers noticed is ready only when the endpoint
\* answers, unless the unit comes up only once: the restart that is to prove the
\* persistence of a restart comes last and is judged by its exit code.
ReadyHostServes ==
    runStatus = "ready_for_activity" /\ fixes > 0 /\ ticket.customerFacing =>
        Serves \/ situation.restart = "once"

\* What the technician's own steps have to keep to for that, beside MaxInterventions
\* of them.  In no phase one that could undo the repair a check has passed: no
\* disable, and neither an edit nor a restore of EnvFile.  No fix but a restart,
\* because only of a restart the planner's next check tells whether the unit
\* survives one.  And no list of sockets as a validation, which counts as the
\* customer's check and asks no endpoint.
PlainInterventions ==
    \A p \in ManualSteps :
        /\ p.cmd.verb # "disable"
        /\ p.cmd.target = EnvFile =>
             p.cmd.verb \notin {"edit", "inline", "restore", "restore-inline"}
        /\ p.phase = "fix" => p.cmd.verb = "restart"
        /\ p.phase = "validation" => p.cmd.verb \notin {"ss", "ss-owners"}

\* What the planner can repair: a unit that the ticket names, or that its words
\* point to and systemctl --failed does not list, with a journal that comes
\* clean, and that comes up when it is restarted.
Repairable ==
    /\ situation.url
    /\ situation.restart = "works"
    /\ situation.journal # "recent"
    /\ \/ situation.named = App
       \/ situation.named = NoTarget /\ situation.similar = App /\ situation.state # "failed"

\* The loop repairs what it can repair and proves it, when the technician only
\* approves.  (Any step, rejection or retry of his can lead it astray for good.)
RepairableIsRepaired ==
    Repairable => <>(runStatus = "ready_for_activity" \/ interventions > 0)
=============================================================================
