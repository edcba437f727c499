--------------------------- MODULE PlannerProofs ---------------------------
(***************************************************************************)
(* The planner's loop, for all hosts, tickets, units and bounds: it does    *)
(* not propose what was run since the last completed fix, and a repaired    *)
(* run is ready only when the customers' endpoint answers.                  *)
(***************************************************************************)
EXTENDS Planner, PolicyProofs, Integers, WellFoundedInduction
-----------------------------------------------------------------------------
(* Least and greatest indices.                                              *)

LEMMA LeastExists ==
    ASSUME NEW S \in SUBSET Nat, S # {}
    PROVE  \E x \in S : \A y \in S : x <= y
<1> DEFINE R == OpToRel(<, Nat)
<1>1. IsWellFoundedOn(R, Nat)
    BY NatLessThanWellFounded
<1>2. \E x \in S : \A y \in S : ~ (<<y, x>> \in R)
  <2> HIDE DEF R
  <2> QED BY <1>1, WFMin
<1>3. PICK x \in S : \A y \in S : ~ (<<y, x>> \in R)
    BY <1>2
<1>4. ASSUME NEW y \in S
      PROVE  x <= y
  <2>1. ~ (<<y, x>> \in R)
      BY <1>3
  <2>2. x \in Nat /\ y \in Nat
      OBVIOUS
  <2>3. ~ (y < x)
      BY <2>1, <2>2 DEF OpToRel
  <2> QED BY <2>2, <2>3
<1> QED BY <1>4

LEMMA GreatestExists ==
    ASSUME NEW n \in Nat, NEW S \in SUBSET (1 .. n), S # {}
    PROVE  \E x \in S : \A y \in S : y <= x
<1> DEFINE T == {n - i : i \in S}
<1>1. T \in SUBSET Nat /\ T # {}
  <2>1. \A i \in S : n - i \in Nat
      OBVIOUS
  <2>2. \A t \in T : t \in Nat
      BY <2>1
  <2>3. PICK i \in S : TRUE
      OBVIOUS
  <2>4. n - i \in T
      OBVIOUS
  <2> QED BY <2>2, <2>4
<1>2. \E t \in T : \A u \in T : t <= u
  <2> HIDE DEF T
  <2> QED BY <1>1, LeastExists
<1>3. PICK x \in S : \A u \in T : n - x <= u
    BY <1>2
<1>4. ASSUME NEW y \in S
      PROVE  y <= x
  <2>1. n - x <= n - y
      BY <1>3
  <2> QED BY <2>1
<1> QED BY <1>4

LEMMA FirstIsIn ==
    ASSUME NEW S \in SUBSET Nat, S # {}
    PROVE  First(S) \in S
BY LeastExists DEF First
-----------------------------------------------------------------------------
(* What the planner reads.                                                  *)

Units == Services \cup {NoTarget}

\* The types of what the planner decides on.
Readable ==
    /\ SuiteTypeOK
    /\ situation \in Situation
    /\ commands \in Seq(Execution)

LEMMA FallBackUnits ==
    /\ CustomerStatus \in Services /\ Nginx \in Services
    /\ EnvFile \in Files /\ EnvFile \in Paths
    /\ NoTarget \notin Services
BY PlannerAssumption, CommandsAssumption DEF Paths

LEMMA OrType ==
    ASSUME NEW a \in Units, NEW b
    PROVE  /\ b \in Units => Or(a, b) \in Units
           /\ b \in Services => Or(a, b) \in Services
           /\ a \in Services => Or(a, b) \in Services
BY FallBackUnits DEF Or, Units

LEMMA ServiceOfCommandType ==
    ASSUME NEW c \in Command
    PROVE  /\ ServiceOfCommand(c) \in Units
           /\ c.verb \in {"status", "is-active", "journal", "journal-recent",
                          "journal-wide"} => ServiceOfCommand(c) \in Services
BY VerbsDecideTargets DEF ServiceOfCommand, NamingVerbs, Units, ServiceReads, ServiceChanges

LEMMA CommandsType ==
    ASSUME Readable
    PROVE  /\ Len(commands) \in Nat /\ DOMAIN commands = 1 .. Len(commands)
           /\ \A i \in DOMAIN commands :
                 commands[i] \in Execution /\ commands[i].cmd \in Command
           /\ commands # <<>> => Len(commands) \in DOMAIN commands
<1>1. \A i \in DOMAIN commands : commands[i] \in Execution
    BY ElementOf DEF Readable
<1>2. \A i \in DOMAIN commands : commands[i].cmd \in Command
    BY <1>1 DEF Execution
<1> QED BY <1>1, <1>2 DEF Readable

LEMMA ServiceOfHistoryType ==
    ASSUME Readable
    PROVE  ServiceOfHistory \in Units
<1> DEFINE Names(i) == ServiceOfCommand(commands[i].cmd) # NoTarget
           naming == {i \in DOMAIN commands : Names(i)}
           IsLast(i) == Names(i) /\ \A j \in i + 1 .. Len(commands) : ~Names(j)
<1>1. CASE naming = {}
    BY <1>1 DEF ServiceOfHistory, Units
<1>2. CASE naming # {}
  <2>1. naming \in SUBSET (1 .. Len(commands)) /\ Len(commands) \in Nat
      BY CommandsType
  <2>2. \E i \in naming : \A j \in naming : j <= i
    <3> HIDE DEF naming
    <3> QED BY <1>2, <2>1, GreatestExists
  <2>3. PICK i \in naming : \A j \in naming : j <= i
      BY <2>2
  <2>4. IsLast(i) /\ DOMAIN commands = 1 .. Len(commands)
      BY <2>1, <2>3, CommandsType
  <2>5. PICK last \in DOMAIN commands : last = CHOOSE k \in DOMAIN commands : IsLast(k)
      BY <2>3, <2>4
  <2>6. ServiceOfHistory = ServiceOfCommand(commands[last].cmd)
      BY <1>2, <2>5 DEF ServiceOfHistory
  <2>7. commands[last].cmd \in Command
      BY CommandsType
  <2> QED BY <2>6, <2>7, ServiceOfCommandType
<1> QED BY <1>1, <1>2

LEMMA SituationUnits ==
    ASSUME Readable
    PROVE  /\ situation.app \in Services
           /\ situation.named \in Units /\ situation.similar \in Units
           /\ DiscoveredService \in Units
           /\ ServiceToExplore \in Services
<1>1. /\ situation.app \in Services
      /\ situation.named \in Units /\ situation.similar \in Units
    BY DEF Readable, Situation, Units
<1>2. DiscoveredService \in Units
    BY <1>1 DEF DiscoveredService, Units
<1>3. Or(situation.named, CustomerStatus) \in Services
    BY <1>1, OrType, FallBackUnits
<1>4. Or(DiscoveredService, Or(situation.named, CustomerStatus)) \in Services
    BY <1>2, <1>3, OrType
<1>5. ServiceToExplore \in Services
    BY <1>4, ServiceOfHistoryType, OrType DEF ServiceToExplore
<1> QED BY <1>1, <1>2, <1>5
-----------------------------------------------------------------------------
(* What the planner proposes.                                               *)

DiagnosticSteps ==
    [phase : {"diagnostic"},
     cmd : [verb : ServiceReads, target : Services]
             \cup [verb : {"port"}, target : {EnvFile}]
             \cup [verb : HostVerbs, target : {NoTarget}]]

ValidationSteps ==
    [phase : {"validation"},
     cmd : [verb : {"is-active", "journal-recent", "restart"}, target : Services]
             \cup [verb : {"script", "curl"}, target : {NoTarget}]]

RestartSteps ==
    [phase : {"fix"}, cmd : [verb : {"restart", "enable"}, target : Services]]

\* The output of a unit that is down and disabled.
SaysDown(execution) == "disabled" \in execution.words /\ LooksRestartable(execution)

\* Only of such a unit the planner proposes an enable.
RestartsNow ==
    {p \in RestartSteps : p.cmd.verb = "enable" =>
        commands # <<>> /\ SaysDown(commands[Len(commands)])}

LEMMA StepForms ==
    /\ \A verb \in ServiceReads, service \in Services :
          Diagnose(verb, service) \in DiagnosticSteps
    /\ Diagnose("port", EnvFile) \in DiagnosticSteps
    /\ \A verb \in HostVerbs : Diagnose(verb, NoTarget) \in DiagnosticSteps
    /\ \A verb \in {"is-active", "journal-recent", "restart"}, service \in Services :
          Validate(verb, service) \in ValidationSteps
    /\ \A verb \in {"script", "curl"} : Validate(verb, NoTarget) \in ValidationSteps
    /\ \A verb \in {"restart", "enable"}, service \in Services :
          Repair(verb, service) \in RestartSteps
BY DEF DiagnosticSteps, ValidationSteps, RestartSteps, Diagnose, Validate, Repair, Cmd

LEMMA FirstUntriedIs ==
    ASSUME NEW T, NEW steps \in Seq(T), NEW attempted, NEW service
    PROVE  \/ FirstUntried(steps, attempted, service) = Diagnose("journal-wide", service)
           \/ /\ FirstUntried(steps, attempted, service) \in T
              /\ FirstUntried(steps, attempted, service).cmd \notin attempted
<1> DEFINE Untried(i) == steps[i].cmd \notin attempted
           untried == {i \in DOMAIN steps : Untried(i)}
           IsFirst(i) == Untried(i) /\ \A j \in 1 .. i - 1 : ~Untried(j)
<1>1. CASE untried = {}
    BY <1>1 DEF FirstUntried
<1>2. CASE untried # {}
  <2>1. untried \in SUBSET Nat /\ DOMAIN steps = 1 .. Len(steps) /\ Len(steps) \in Nat
      OBVIOUS
  <2>2. PICK i \in untried : \A j \in untried : i <= j
    <3> HIDE DEF untried
    <3> QED BY <1>2, <2>1, LeastExists
  <2>3. IsFirst(i)
      BY <2>1, <2>2
  <2>4. PICK first \in DOMAIN steps :
           /\ first = CHOOSE k \in DOMAIN steps : IsFirst(k)
           /\ IsFirst(first)
      BY <2>2, <2>3
  <2>5. FirstUntried(steps, attempted, service) = steps[first]
      BY <1>2, <2>4 DEF FirstUntried
  <2> QED BY <2>4, <2>5, ElementOf
<1> QED BY <1>1, <1>2

LEMMA ListsType ==
    ASSUME NEW service \in Services, NEW found \in Units
    PROVE  /\ Continuation(service) \in Seq(DiagnosticSteps)
           /\ OfService(found) \in Seq(DiagnosticSteps)
<1>1. Continuation(service) \in Seq(DiagnosticSteps)
  <2>1. /\ Diagnose("cat", service) \in DiagnosticSteps
        /\ Diagnose("show", service) \in DiagnosticSteps
        /\ Diagnose("list-dependencies", service) \in DiagnosticSteps
        /\ Diagnose("ss-owners", NoTarget) \in DiagnosticSteps
        /\ Diagnose("curl-body", NoTarget) \in DiagnosticSteps
      BY StepForms DEF ServiceReads, HostVerbs
  <2> QED BY <2>1 DEF Continuation
<1>2. OfService(found) \in Seq(DiagnosticSteps)
  <2>1. CASE found = NoTarget
      BY <2>1 DEF OfService
  <2>2. CASE found \in Services
    <3>1. /\ Diagnose("status", found) \in DiagnosticSteps
          /\ Diagnose("journal", found) \in DiagnosticSteps
        BY <2>2, StepForms DEF ServiceReads
    <3> QED BY <2>2, <3>1, FallBackUnits DEF OfService
  <2> QED BY <2>1, <2>2 DEF Units
<1> QED BY <1>1, <1>2

LEMMA HostStepsType ==
    /\ <<Diagnose("list-units", NoTarget), Diagnose("ps", NoTarget),
         Diagnose("list-sockets", NoTarget), Diagnose("list-unit-files", NoTarget)>>
          \in Seq(DiagnosticSteps)
    /\ <<Diagnose("list-units", NoTarget), Diagnose("ps", NoTarget)>>
          \in Seq(DiagnosticSteps)
<1>1. /\ Diagnose("list-units", NoTarget) \in DiagnosticSteps
      /\ Diagnose("ps", NoTarget) \in DiagnosticSteps
      /\ Diagnose("list-sockets", NoTarget) \in DiagnosticSteps
      /\ Diagnose("list-unit-files", NoTarget) \in DiagnosticSteps
    BY StepForms DEF HostVerbs
<1> QED BY <1>1

\* A fresh step is none that was attempted, or a look at the whole journal.
Fresh(p, attempted) ==
    p \in DiagnosticSteps /\ (p.cmd.verb = "journal-wide" \/ p.cmd \notin attempted)

LEMMA FirstUntriedIsFresh ==
    ASSUME NEW steps \in Seq(DiagnosticSteps), NEW attempted, NEW service \in Services
    PROVE  Fresh(FirstUntried(steps, attempted, service), attempted)
<1>1. /\ Diagnose("journal-wide", service) \in DiagnosticSteps
      /\ Diagnose("journal-wide", service).cmd.verb = "journal-wide"
    BY StepForms DEF ServiceReads, Diagnose, Cmd
<1> QED BY <1>1, FirstUntriedIs DEF Fresh

LEMMA UntriedDiagnosticsAreFresh ==
    ASSUME Readable, NEW found \in Units
    PROVE  /\ Fresh(NextUntriedDiagnostic, Attempted)
           /\ Fresh(FailedValidationDiagnostic(found), Attempted)
<1> DEFINE host4 == <<Diagnose("list-units", NoTarget), Diagnose("ps", NoTarget),
                      Diagnose("list-sockets", NoTarget),
                      Diagnose("list-unit-files", NoTarget)>>
           host2 == <<Diagnose("list-units", NoTarget), Diagnose("ps", NoTarget)>>
           discovered == IF DiscoveredService = NoTarget THEN <<>>
                         ELSE <<Diagnose("status", DiscoveredService)>>
           service == Or(ServiceOfHistory, situation.named)
           further == Continuation(ServiceToExplore)
<1>1. service \in Units
    BY ServiceOfHistoryType, SituationUnits, OrType
<1>2. discovered \in Seq(DiagnosticSteps)
  <2>1. CASE DiscoveredService = NoTarget
      BY <2>1
  <2>2. CASE DiscoveredService # NoTarget
    <3>1. Diagnose("status", DiscoveredService) \in DiagnosticSteps
        BY <2>2, SituationUnits, StepForms DEF Units, ServiceReads
    <3> QED BY <2>2, <3>1
  <2> QED BY <2>1, <2>2
<1>3. /\ OfService(service) \in Seq(DiagnosticSteps)
      /\ OfService(found) \in Seq(DiagnosticSteps)
      /\ further \in Seq(DiagnosticSteps)
      /\ ServiceToExplore \in Services
    BY <1>1, SituationUnits, ListsType
<1>4. host4 \in Seq(DiagnosticSteps) /\ host2 \in Seq(DiagnosticSteps)
    BY HostStepsType
<1>5. NextUntriedDiagnostic =
         FirstUntried(discovered \o OfService(service) \o host4 \o further,
                      Attempted, ServiceToExplore)
    BY DEF NextUntriedDiagnostic
<1>6. FailedValidationDiagnostic(found) =
         FirstUntried(OfService(found) \o host2 \o further, Attempted, ServiceToExplore)
    BY DEF FailedValidationDiagnostic
<1> HIDE DEF host4, host2, discovered, service, further
<1>7. discovered \o OfService(service) \o host4 \o further \in Seq(DiagnosticSteps)
    BY <1>2, <1>3, <1>4, ConcatIsSeq
<1>8. OfService(found) \o host2 \o further \in Seq(DiagnosticSteps)
    BY <1>3, <1>4, ConcatIsSeq
<1> QED BY <1>3, <1>5, <1>6, <1>7, <1>8, FirstUntriedIsFresh
LEMMA ValidationOfType ==
    ASSUME Readable, NEW row \in Expectation
    PROVE  ValidationOf(row) \in ValidationSteps
<1> DEFINE target == Or(row.target, Or(situation.named, Nginx))
<1>1. target \in Services
  <2>1. Or(situation.named, Nginx) \in Services
      BY SituationUnits, FallBackUnits, OrType
  <2>2. row.target \in Units
      BY DEF Expectation, Units
  <2> QED BY <2>1, <2>2, OrType
<1> HIDE DEF target
<1>2. /\ Validate("is-active", target) \in ValidationSteps
      /\ Validate("journal-recent", target) \in ValidationSteps
      /\ Validate("restart", target) \in ValidationSteps
      /\ Validate("script", NoTarget) \in ValidationSteps
      /\ Validate("curl", NoTarget) \in ValidationSteps
    BY <1>1, StepForms
<1> QED BY <1>2 DEF ValidationOf, target

LEMMA UntriedValidationIs ==
    ASSUME Readable, NEW attempted
    PROVE  \/ Fresh(NextUntriedValidation(attempted), attempted)
           \/ /\ NextUntriedValidation(attempted) \in ValidationSteps
              /\ NextUntriedValidation(attempted).cmd \notin attempted
<1> DEFINE untried == {i \in Pending : ValidationOf(expectations[i]).cmd \notin attempted}
           service == Or(situation.named, CustomerStatus)
<1>1. CASE untried = {}
  <2>1. service \in Services
      BY SituationUnits, FallBackUnits, OrType
  <2>2. NextUntriedValidation(attempted) =
           FirstUntried(Continuation(service), attempted, service)
      BY <1>1 DEF NextUntriedValidation
  <2> HIDE DEF service
  <2>3. Continuation(service) \in Seq(DiagnosticSteps)
      BY <2>1, ListsType DEF Units
  <2> QED BY <2>1, <2>2, <2>3, FirstUntriedIsFresh
<1>2. CASE untried # {}
  <2>1. expectations \in Seq(Expectation)
      BY DEF Readable, SuiteTypeOK
  <2>2. untried \in SUBSET Nat
      BY <2>1 DEF Pending
  <2>3. First(untried) \in untried
    <3> HIDE DEF untried
    <3> QED BY <1>2, <2>2, FirstIsIn
  <2>4. NextUntriedValidation(attempted) = ValidationOf(expectations[First(untried)])
      BY <1>2 DEF NextUntriedValidation
  <2>5. expectations[First(untried)] \in Expectation
      BY <2>1, <2>3, ElementOf DEF Pending
  <2> QED BY <2>3, <2>4, <2>5, ValidationOfType
<1> QED BY <1>1, <1>2

\* The one proposal that edits a file: a port other than the endpoint's was
\* seen in the last output.
EditsPort(p) ==
    /\ p = Repair("inline", EnvFile)
    /\ commands # <<>> /\ "otherport" \in commands[Len(commands)].words

PlannedSteps == DiagnosticSteps \cup ValidationSteps \cup RestartsNow

LEMMA FixPlanType ==
    ASSUME Readable, commands # <<>>, NEW latest \in Execution,
           latest = commands[Len(commands)], NEW history \in Units
    PROVE  FixPlan(latest, history) \in RestartsNow
<1> DEFINE service == Or(ServiceOfCommand(latest.cmd),
                         Or(history, Or(situation.named, CustomerStatus)))
           verb == IF "disabled" \in latest.words /\ LooksRestartable(latest)
                   THEN "enable" ELSE "restart"
<1>1. ServiceOfCommand(latest.cmd) \in Units
    BY ServiceOfCommandType DEF Execution
<1>2. Or(situation.named, CustomerStatus) \in Services
    BY SituationUnits, FallBackUnits, OrType
<1>3. Or(history, Or(situation.named, CustomerStatus)) \in Services
    BY <1>2, OrType
<1>4. service \in Services
    BY <1>1, <1>3, OrType
<1>5. verb \in {"restart", "enable"}
    OBVIOUS
<1>6. FixPlan(latest, history) = Repair(verb, service)
    BY DEF FixPlan
<1>7. verb = "enable" => SaysDown(latest)
    BY DEF SaysDown
<1> HIDE DEF service, verb
<1>8. Repair(verb, service) \in RestartSteps /\ Repair(verb, service).cmd.verb = verb
    BY <1>4, <1>5, StepForms DEF Repair, Cmd
<1> QED BY <1>6, <1>7, <1>8 DEF RestartsNow

LEMMA FirstDiagnosticType ==
    ASSUME Readable
    PROVE  FirstDiagnostic \in DiagnosticSteps
<1>1. /\ Diagnose("df", NoTarget) \in DiagnosticSteps
      /\ Diagnose("free", NoTarget) \in DiagnosticSteps
      /\ Diagnose("ss", NoTarget) \in DiagnosticSteps
      /\ Diagnose("stat", NoTarget) \in DiagnosticSteps
      /\ Diagnose("failed", NoTarget) \in DiagnosticSteps
    BY StepForms DEF HostVerbs
<1>2. situation.named # NoTarget => Diagnose("status", situation.named) \in DiagnosticSteps
    BY SituationUnits, StepForms DEF Units, ServiceReads
<1>3. situation.symptom \in Symptoms
    BY DEF Readable, Situation
<1> QED BY <1>1, <1>2, <1>3 DEF FirstDiagnostic, Symptoms

LEMMA CandidateType ==
    ASSUME Readable
    PROVE  Candidate \in PlannedSteps \/ EditsPort(Candidate)
<1>1. CASE commands = <<>>
    BY <1>1, FirstDiagnosticType DEF Candidate, PlannedSteps
<1>2. CASE commands # <<>>
  <2> DEFINE latest == commands[Len(commands)]
             service == Or(ServiceOfCommand(latest.cmd),
                           Or(ServiceOfHistory, situation.named))
  <2>1. latest \in Execution /\ latest.cmd \in Command
      BY <1>2, CommandsType
  <2>2. Or(ServiceOfHistory, situation.named) \in Units
      BY ServiceOfHistoryType, SituationUnits, OrType
  <2>3. /\ service \in Units
        /\ latest.cmd.verb \in {"status", "journal", "journal-recent", "journal-wide"}
              => service \in Services
    <3>1. /\ ServiceOfCommand(latest.cmd) \in Units
          /\ latest.cmd.verb \in {"status", "journal", "journal-recent", "journal-wide"}
                => ServiceOfCommand(latest.cmd) \in Services
        BY <2>1, ServiceOfCommandType
    <3> QED BY <2>2, <3>1, OrType
  <2>4. Or(service, Nginx) \in Services
      BY <2>3, FallBackUnits, OrType
  <2>5. /\ FixPlan(latest, NoTarget) \in RestartsNow
        /\ FixPlan(latest, ServiceOfHistory) \in RestartsNow
      BY <1>2, <2>1, ServiceOfHistoryType, FixPlanType DEF Units
  <2>6. FailedValidationDiagnostic(service) \in DiagnosticSteps
      BY <2>3, UntriedDiagnosticsAreFresh DEF Fresh
  <2>7. Validate("is-active", Or(service, Nginx)) \in ValidationSteps
      BY <2>4, StepForms
  <2>8. Validate("curl", NoTarget) \in ValidationSteps
      BY StepForms
  <2>9. /\ Diagnose("port", EnvFile) \in DiagnosticSteps
        /\ Diagnose("configtest", NoTarget) \in DiagnosticSteps
        /\ Diagnose("failed", NoTarget) \in DiagnosticSteps
        /\ Diagnose("ss", NoTarget) \in DiagnosticSteps
      BY StepForms DEF HostVerbs
  <2>10. service \in Services =>
           /\ Diagnose("journal", service) \in DiagnosticSteps
           /\ Diagnose("cat", service) \in DiagnosticSteps
      BY StepForms DEF ServiceReads
  <2>11. "otherport" \in latest.words => EditsPort(Repair("inline", EnvFile))
      BY <1>2 DEF EditsPort
  <2>12. service # NoTarget => service \in Services
      BY <2>3 DEF Units
  <2> HIDE DEF latest, service
  <2> QED BY <1>2, <2>3, <2>5, <2>6, <2>7, <2>8, <2>9, <2>10, <2>11, <2>12, Zenon
          DEF Candidate, PlannedSteps, latest, service
<1> QED BY <1>1, <1>2
LEMMA NextStepType ==
    ASSUME Readable
    PROVE  NextStep \in PlannedSteps \/ EditsPort(NextStep)
<1>1. NextUntriedValidation(AttemptedSinceLatestFix) \in PlannedSteps
    BY UntriedValidationIs DEF Fresh, PlannedSteps
<1>2. DiscoveredService # NoTarget
         => Diagnose("status", DiscoveredService) \in PlannedSteps
    BY SituationUnits, StepForms DEF Units, ServiceReads, PlannedSteps
<1>3. NextUntriedDiagnostic \in PlannedSteps
  <2>1. NoTarget \in Units
      BY DEF Units
  <2> QED BY <2>1, UntriedDiagnosticsAreFresh DEF Fresh, PlannedSteps
<1>4. CASE Validating /\ Pending # {}
    BY <1>1, <1>4 DEF NextStep
<1>5. CASE /\ ~(Validating /\ Pending # {}) /\ DiscoveredService # NoTarget
           /\ Cmd("status", DiscoveredService) \notin Attempted
    BY <1>2, <1>5 DEF NextStep
<1>6. CASE /\ ~(Validating /\ Pending # {})
           /\ ~(/\ DiscoveredService # NoTarget
                /\ Cmd("status", DiscoveredService) \notin Attempted)
  <2>1. NextStep = IF Candidate.cmd \notin Attempted THEN Candidate ELSE NextUntriedDiagnostic
      BY <1>6 DEF NextStep
  <2> QED BY <1>3, <2>1, CandidateType
<1> QED BY <1>4, <1>5, <1>6

\* The heart of ProposesNothingTwice.
LEMMA NextStepIsNew ==
    ASSUME Readable
    PROVE  NextStep.cmd.verb = "journal-wide" \/ NextStep.cmd \notin AttemptedSinceLatestFix
<1>1. AttemptedSinceLatestFix \subseteq Attempted
    BY DEF AttemptedSinceLatestFix, Attempted
<1>2. CASE Validating /\ Pending # {}
  <2>1. NextStep = NextUntriedValidation(AttemptedSinceLatestFix)
      BY <1>2 DEF NextStep
  <2> QED BY <2>1, UntriedValidationIs DEF Fresh
<1>3. CASE /\ ~(Validating /\ Pending # {}) /\ DiscoveredService # NoTarget
           /\ Cmd("status", DiscoveredService) \notin Attempted
  <2>1. NextStep = Diagnose("status", DiscoveredService)
      BY <1>3 DEF NextStep
  <2>2. NextStep.cmd = Cmd("status", DiscoveredService)
      BY <2>1 DEF Diagnose
  <2> QED BY <1>1, <1>3, <2>2
<1>4. CASE /\ ~(Validating /\ Pending # {})
           /\ ~(/\ DiscoveredService # NoTarget
                /\ Cmd("status", DiscoveredService) \notin Attempted)
  <2>1. NextStep = IF Candidate.cmd \notin Attempted THEN Candidate ELSE NextUntriedDiagnostic
      BY <1>4 DEF NextStep
  <2>2. Fresh(NextUntriedDiagnostic, Attempted)
    <3>1. NoTarget \in Units
        BY DEF Units
    <3> QED BY <3>1, UntriedDiagnosticsAreFresh
  <2> QED BY <1>1, <2>1, <2>2 DEF Fresh
<1> QED BY <1>2, <1>3, <1>4
-----------------------------------------------------------------------------
(* The types.                                                               *)

PlannerTypes == SuiteInv /\ Readable /\ runStatus # "aborted"

LEMMA PlannedIsProposable ==
    ASSUME NEW p, p \in PlannedSteps \/ EditsPort(p) \/ p \in ManualSteps
    PROVE  p \in [phase : Phases, cmd : Command]
<1>1. CASE p \in PlannedSteps
    BY <1>1, FallBackUnits
       DEF PlannedSteps, DiagnosticSteps, ValidationSteps, RestartsNow, RestartSteps, Phases,
           Command, ServiceReads, ServiceChanges, FileReads, HostVerbs
<1>2. CASE EditsPort(p)
    BY <1>2, FallBackUnits DEF EditsPort, Repair, Cmd, Phases, Command, FileChanges
<1>3. CASE p \in ManualSteps
    BY <1>3, PlannerAssumption, SuiteAssumption
<1> QED BY <1>1, <1>2, <1>3

LEMMA HostAnswerType ==
    ASSUME Readable, NEW c \in Command, NEW now
    PROVE  /\ HostAnswer(c, now).outcome \in Outcome
           /\ HostAnswer(c, now).words \in SUBSET Words
BY DEF HostAnswer, Answer, Outcome, Signs, Words

\* ExecuteOnHost, for one choice of --now.
ExecuteNow(now) ==
    /\ now \/ Manual
    /\ Execute(HostAnswer(step.cmd, now).outcome)
    /\ \E set \in SettingsAfter(step.cmd) :
          unit' = [UnitAfter(step.cmd, now) EXCEPT !.set = set]
    /\ commands' = Append(commands,
         [cmd |-> step.cmd, phase |-> step.phase,
          outcome |-> HostAnswer(step.cmd, now).outcome,
          words |-> HostAnswer(step.cmd, now).words])
    /\ situation' = situation

LEMMA ExecuteOnHostPicks ==
    ASSUME ExecuteOnHost
    PROVE  \E now \in BOOLEAN : ExecuteNow(now)
<1>1. PICK now \in {TRUE, ~Manual} :
         /\ Execute(HostAnswer(step.cmd, now).outcome)
         /\ \E set \in SettingsAfter(step.cmd) :
               unit' = [UnitAfter(step.cmd, now) EXCEPT !.set = set]
         /\ commands' = Append(commands,
              [cmd |-> step.cmd, phase |-> step.phase,
               outcome |-> HostAnswer(step.cmd, now).outcome,
               words |-> HostAnswer(step.cmd, now).words])
         /\ situation' = situation
    BY DEF ExecuteOnHost
<1>2. now \in BOOLEAN /\ (now \/ Manual)
    BY DEF Manual
<1> QED BY <1>1, <1>2 DEF ExecuteNow

\* What a proposal of the planner or the technician may be.
Proposable(p) == p \in PlannedSteps \/ EditsPort(p) \/ p \in ManualSteps

\* What every step does but the host's answer and the storing of a result.
Waits ==
    /\ Quiet
    /\ runStatus' # "aborted"
    /\ UNCHANGED <<ticket, situation, unit, commands, content>>
    /\ \/ step' = step
       \/ step' = NoStepYet
       \/ step.status = "proposed" /\ step' = [step EXCEPT !.status = "approved"]
       \/ \E p : /\ Proposable(p)
                 /\ step' = [status |-> "proposed", phase |-> p.phase, cmd |-> p.cmd,
                             outcome |-> NoOutcome]

LEMMA ProposeStepWaits ==
    ASSUME PlannerTypes, NEW p, Proposable(p), ProposeStep(p),
           UNCHANGED <<situation, unit, commands>>
    PROVE  Waits
<1>1. p \in [phase : Phases, cmd : Command]
    BY PlannedIsProposable DEF Proposable
<1>2. Propose(p) /\ UNCHANGED <<ticket, content>>
    BY DEF ProposeStep, Propose, host
<1>3. Quiet
    BY <1>1, <1>2, ProposeIsQuiet DEF PlannerTypes, Readable
<1>4. runStatus' # "aborted"
    BY <1>2 DEF Propose, IdleStatus
<1>5. \/ step' = step
      \/ step' = [status |-> "proposed", phase |-> p.phase, cmd |-> p.cmd,
                  outcome |-> NoOutcome]
    BY <1>2 DEF Propose
<1> QED BY <1>2, <1>3, <1>4, <1>5 DEF Waits

LEMMA RejectOrRetryWaits ==
    ASSUME PlannerTypes, Reject \/ RetryRun \/ UNCHANGED suiteVars,
           UNCHANGED <<situation, unit, commands, content>>
    PROVE  Waits
<1>1. Quiet
    BY RejectOrRetryIsQuiet DEF PlannerTypes, Readable
<1>2. step' = step \/ step' = NoStepYet
    BY DEF Reject, RetryRun, suiteVars
<1>3. runStatus' # "aborted"
    BY DEF PlannerTypes, Reject, RetryRun, IdleStatus, suiteVars
<1>4. ticket' = ticket
    BY DEF Reject, RetryRun, suiteVars
<1> QED BY <1>1, <1>2, <1>3, <1>4 DEF Waits

LEMMA PlannerStepKinds ==
    ASSUME PlannerTypes, [PlannerNext]_plannerVars
    PROVE  Waits \/ ExecuteOnHost \/ RecordAndReplan
<1>1. CASE Plan
  <2>1. CASE UNCHANGED policyVars
      BY <1>1, <2>1, RejectOrRetryWaits DEF Plan, policyVars, host
  <2>2. CASE ProposeStep(NextStep)
      BY <1>1, <2>2, NextStepType, ProposeStepWaits DEF Plan, PlannerTypes, Proposable
  <2> QED BY <1>1, <2>1, <2>2 DEF Plan
<1>2. ASSUME NEW p \in ManualSteps, ProposeManually(p)
      PROVE  Waits
    BY <1>2, ProposeStepWaits DEF ProposeManually, Intervene, Proposable
<1>3. CASE ApproveProposal
  <2>1. step.cmd \in Command /\ step \in Step /\ SuiteTypeOK
      BY DEF PlannerTypes, Readable, SuiteTypeOK, Step
  <2>2. /\ Approve(step.cmd)
        /\ UNCHANGED <<ticket, situation, unit, commands, content>>
      BY <1>3 DEF ApproveProposal, ApproveStep, Approve, host, loopVars
  <2>3. Quiet
      BY <2>1, <2>2, ApproveIsQuiet
  <2>4. step' = [step EXCEPT !.status = "approved"] /\ step.status = "proposed"
      BY <2>1, <2>2 DEF Approve, Step
  <2>5. runStatus' # "aborted"
      BY <2>2 DEF Approve, StatusForApproved
  <2> QED BY <2>2, <2>3, <2>4, <2>5 DEF Waits
<1>4. CASE Waive
    BY <1>4, RejectOrRetryWaits DEF Waive, WaiveBackup, loopVars, host
<1>5. CASE RejectRefused \/ RejectProposal
    BY <1>5, RejectOrRetryWaits DEF RejectRefused, RejectProposal, Intervene, loopVars, host
<1>6. CASE RetryIdle \/ RetryAtWill
    BY <1>6, RejectOrRetryWaits DEF RetryIdle, RetryAtWill, Retry, Intervene, host
<1>7. CASE UNCHANGED plannerVars
    BY <1>7, RejectOrRetryWaits DEF plannerVars, policyVars, loopVars, host
<1> QED BY <1>1, <1>2, <1>3, <1>4, <1>5, <1>6, <1>7 DEF PlannerNext, Progress

LEMMA PlannerTypesInit == PlannerInit => PlannerTypes
<1> SUFFICES ASSUME PlannerInit
             PROVE  PlannerTypes
    OBVIOUS
<1>1. SuiteInit
    BY DEF PlannerInit, PolicyInit
<1>2. SuiteInv
    BY <1>1, InitSuiteInv
<1>3. commands \in Seq(Execution) /\ situation \in Situation
    BY PlannerAssumption DEF PlannerInit
<1>4. runStatus # "aborted"
    BY <1>1 DEF SuiteInit
<1> QED BY <1>2, <1>3, <1>4 DEF PlannerTypes, Readable, SuiteInv

LEMMA PlannerTypesStep ==
    ASSUME PlannerTypes, [PlannerNext]_plannerVars
    PROVE  PlannerTypes'
<1>1. CASE Waits
  <2>1. SuiteInv'
      BY <1>1, QuietKeepsInv DEF Waits, PlannerTypes
  <2> QED BY <1>1, <2>1 DEF Waits, PlannerTypes, Readable, SuiteInv
<1>2. CASE ExecuteOnHost
  <2>0. PICK now \in BOOLEAN : ExecuteNow(now)
      BY <1>2, ExecuteOnHostPicks
  <2> DEFINE answer == HostAnswer(step.cmd, now)
             execution == [cmd |-> step.cmd, phase |-> step.phase,
                           outcome |-> answer.outcome, words |-> answer.words]
  <2>1. SuiteTypeOK /\ step.cmd \in Command /\ step.phase \in Phases
      BY DEF PlannerTypes, Readable, SuiteTypeOK, Step
  <2>2. answer.outcome \in Outcome /\ answer.words \in SUBSET Words
      BY <2>1, HostAnswerType DEF PlannerTypes
  <2>3. /\ RunCommand(answer.outcome)
        /\ commands' = Append(commands, execution)
        /\ situation' = situation
      BY <2>0 DEF ExecuteNow, Execute
  <2> HIDE DEF answer
  <2>4. Quiet
      BY <2>1, <2>2, <2>3, RunCommandIsQuiet
  <2>5. SuiteInv'
      BY <2>4, QuietKeepsInv DEF PlannerTypes
  <2>6. execution \in Execution
      BY <2>1, <2>2 DEF Execution
  <2>7. commands' \in Seq(Execution)
      BY <2>3, <2>6 DEF PlannerTypes, Readable
  <2>8. runStatus' # "aborted"
      BY <2>3 DEF RunCommand, PlannerTypes
  <2> QED BY <2>3, <2>5, <2>7, <2>8 DEF PlannerTypes, Readable, SuiteInv
<1>3. CASE RecordAndReplan
  <2>1. RecordResult /\ UNCHANGED <<situation, commands>>
      BY <1>3 DEF RecordAndReplan, RecordStep
  <2>2. SuiteInv'
      BY <2>1, RecordResultStep DEF PlannerTypes
  <2>3. runStatus' # "aborted"
      BY <2>1, RecordResultCases DEF PlannerTypes
  <2> QED BY <2>1, <2>2, <2>3 DEF PlannerTypes, Readable, SuiteInv
<1> QED BY <1>1, <1>2, <1>3, PlannerStepKinds

\* The suite's invariant and the types of what the planner reads, whatever the
\* technician enters.
THEOREM PlannerTypesCorrect == PlannerSpec => []PlannerTypes
BY PlannerTypesInit, PlannerTypesStep, PTL DEF PlannerSpec

\* The planner proposes nothing that was run since the last completed fix, but
\* for a look at the whole journal.
THEOREM ProposesNothingTwiceCorrect == PlannerSpec => ProposesNothingTwice
<1>1. ASSUME PlannerTypes, interventions \in Nat, PlannerNext,
             step.status = "none", step'.status = "proposed",
             interventions' = interventions
      PROVE  \/ step'.cmd.verb = "journal-wide"
             \/ \A i \in DOMAIN commands :
                  commands[i].cmd = step'.cmd =>
                    \E j \in i .. Len(commands) :
                       commands[j].phase = "fix" /\ commands[j].outcome.status = "completed"
  <2>1. Plan
    <3>1. ~Intervene
        BY <1>1 DEF Intervene
    <3>2. ~ApproveProposal /\ ~ExecuteOnHost
        BY <1>1, ExecuteOnHostPicks
        DEF ApproveProposal, ApproveStep, Approve, ExecuteNow, Execute, RunCommand
    <3>3. step' # step /\ step' # NoStepYet
        BY <1>1 DEF NoStepYet
    <3> QED BY <1>1, <3>1, <3>2, <3>3
            DEF PlannerNext, Progress, ProposeManually, RejectProposal, RetryAtWill, Waive,
                WaiveBackup, RejectRefused, Reject, RetryIdle, Retry, RetryRun,
                RecordAndReplan, RecordStep, RecordResult, suiteVars
  <2>2. step'.cmd = NextStep.cmd
      BY <1>1, <2>1 DEF Plan, ProposeStep, Propose, policyVars, suiteVars
  <2>3. ASSUME NEW i \in DOMAIN commands, commands[i].cmd \notin AttemptedSinceLatestFix
        PROVE  \E j \in i .. Len(commands) :
                  commands[j].phase = "fix" /\ commands[j].outcome.status = "completed"
      BY <2>3 DEF AttemptedSinceLatestFix, Failed
  <2> QED BY <1>1, <2>2, <2>3, NextStepIsNew DEF PlannerTypes
<1>2. (PlannerTypes /\ interventions \in Nat) /\ [PlannerNext]_plannerVars =>
        [step.status = "none" /\ step'.status = "proposed" /\ interventions' = interventions =>
           \/ step'.cmd.verb = "journal-wide"
           \/ \A i \in DOMAIN commands :
                commands[i].cmd = step'.cmd =>
                  \E j \in i .. Len(commands) :
                     commands[j].phase = "fix" /\ commands[j].outcome.status = "completed"
        ]_plannerVars
    BY <1>1
<1>3. PlannerInit => interventions \in Nat
    BY DEF PlannerInit
<1>4. interventions \in Nat /\ [PlannerNext]_plannerVars => (interventions \in Nat)'
  <2>1. ExecuteOnHost => interventions' = interventions
      BY DEF ExecuteOnHost
  <2> QED BY <2>1 DEF PlannerNext, Progress, Plan, ApproveProposal, Waive, RejectRefused,
             RetryIdle, RecordAndReplan, ProposeManually, RejectProposal, RetryAtWill,
             Intervene, plannerVars, loopVars
<1> QED BY PlannerTypesCorrect, <1>2, <1>3, <1>4, PTL DEF PlannerSpec, ProposesNothingTwice
-----------------------------------------------------------------------------
(* The customer's check among the rows of a suite.                          *)

Benefits(rows) == \E i \in DOMAIN rows : rows[i].type = "customer_benefit"

LEMMA ConcatBenefits ==
    ASSUME NEW T, NEW s \in Seq(T), NEW t \in Seq(T), Benefits(s) \/ Benefits(t)
    PROVE  s \o t \in Seq(T) /\ Benefits(s \o t)
<1>1. s \o t \in Seq(T) /\ Len(s) \in Nat /\ Len(t) \in Nat
      /\ DOMAIN s = 1 .. Len(s) /\ DOMAIN t = 1 .. Len(t)
      /\ DOMAIN (s \o t) = 1 .. Len(s) + Len(t)
    OBVIOUS
<1>2. CASE Benefits(s)
  <2>1. PICK i \in 1 .. Len(s) : s[i].type = "customer_benefit"
      BY <1>1, <1>2 DEF Benefits
  <2>2. (s \o t)[i] = s[i] /\ i \in 1 .. Len(s) + Len(t)
      BY <1>1, ConcatIsSeq
  <2> QED BY <1>1, <2>1, <2>2 DEF Benefits
<1>3. CASE Benefits(t)
  <2>1. PICK i \in 1 .. Len(t) : t[i].type = "customer_benefit"
      BY <1>1, <1>3 DEF Benefits
  <2>2. (s \o t)[Len(s) + i] = t[i] /\ Len(s) + i \in 1 .. Len(s) + Len(t)
      BY <1>1, ConcatIsSeq
  <2> QED BY <1>1, <2>1, <2>2 DEF Benefits
<1> QED BY <1>1, <1>2, <1>3

LEMMA ExpectedChecksBenefit ==
    ASSUME SuiteTypeOK, NEW c \in Command, ticket.customerFacing
    PROVE  Benefits(ExpectedChecks(c))
<1> DEFINE T == CheckSpec(CheckTypes)
           health == Check("service_health", ServiceOf(c), ServiceOf(c) # NoTarget)
           before == Check("persistence", ServiceOf(c),
                           RequiresPersistence(c) /\ ~RestartsService(c))
           benefit == Check("customer_benefit", NoTarget, ticket.customerFacing)
           logs == Check("logs_clean", ServiceOf(c), ServiceOf(c) # NoTarget)
           after == Check("persistence", ServiceOf(c),
                          RequiresPersistence(c) /\ RestartsService(c))
           public == Check("public_validation", NoTarget, ticket.script)
<1>1. ServiceOf(c) \in Services \cup {NoTarget} /\ NoTarget \in Services \cup {NoTarget}
    BY ServiceOfType
<1>2. ticket.customerFacing \in BOOLEAN /\ ticket.script \in BOOLEAN
    BY SuiteAssumption DEF SuiteTypeOK
<1>3. {"service_health", "persistence", "customer_benefit", "logs_clean",
       "public_validation"} \subseteq CheckTypes
    BY DEF CheckTypes, StorableChecks
<1>4. /\ health \in Seq(T) /\ before \in Seq(T) /\ benefit \in Seq(T)
      /\ logs \in Seq(T) /\ after \in Seq(T) /\ public \in Seq(T)
    BY <1>1, <1>2, <1>3, CheckIsSeq
<1>5. Benefits(benefit)
  <2>1. benefit = <<[type |-> "customer_benefit", target |-> NoTarget]>>
      BY DEF Check
  <2> HIDE DEF benefit
  <2>2. 1 \in DOMAIN benefit /\ benefit[1].type = "customer_benefit"
    <3>1. benefit[1] = [type |-> "customer_benefit", target |-> NoTarget]
          /\ DOMAIN benefit = 1 .. 1
        BY <2>1
    <3> QED BY <3>1
  <2> QED BY <2>2 DEF Benefits
<1>6. RequiredChecks(c) = health \o before \o benefit \o logs \o after \o public
    BY DEF RequiredChecks
<1> HIDE DEF T, health, before, benefit, logs, after, public
<1>7. Benefits(health \o before \o benefit \o logs \o after \o public)
  <2>1. health \o before \in Seq(T)
      BY <1>4, ConcatIsSeq
  <2>2. health \o before \o benefit \in Seq(T) /\ Benefits(health \o before \o benefit)
      BY <1>4, <1>5, <2>1, ConcatBenefits
  <2>3. /\ health \o before \o benefit \o logs \in Seq(T)
        /\ Benefits(health \o before \o benefit \o logs)
      BY <1>4, <2>2, ConcatBenefits
  <2>4. /\ health \o before \o benefit \o logs \o after \in Seq(T)
        /\ Benefits(health \o before \o benefit \o logs \o after)
      BY <1>4, <2>3, ConcatBenefits
  <2> QED BY <1>4, <2>4, ConcatBenefits
<1>8. RequiredChecks(c) # <<>>
    BY <1>6, <1>7 DEF Benefits
<1> QED BY <1>6, <1>7, <1>8 DEF ExpectedChecks

\* A completed fix adds pending rows of its own, the customer's among them.
LEMMA WithExpectationsAdds ==
    ASSUME SuiteTypeOK, NEW c \in Command,
           NEW rows, rows = WithExpectations(expectations, c)
    PROVE  /\ \A i \in DOMAIN rows :
                 i \in DOMAIN expectations \/ rows[i].status = "pending"
           /\ ticket.customerFacing =>
                 \E i \in DOMAIN rows :
                    rows[i].fix = fixes + 1 /\ rows[i].type = "customer_benefit"
<1> DEFINE checks == ExpectedChecks(c)
           added == [i \in DOMAIN checks |->
                       [fix |-> fixes + 1, type |-> checks[i].type,
                        target |-> checks[i].target, status |-> "pending"]]
<1>1. checks \in Seq(CheckSpec(CheckTypes))
    BY ExpectedChecksType DEF CheckTypes
<1>2. ticket.customerFacing => Benefits(checks)
    BY ExpectedChecksBenefit
<1>3. rows = expectations \o added
    BY DEF WithExpectations
<1> HIDE DEF checks
<1>4. DOMAIN checks = 1 .. Len(checks) /\ Len(checks) \in Nat
    BY <1>1
<1>5. \A i \in 1 .. Len(checks) : added[i] \in Expectation
  <2> TAKE i \in 1 .. Len(checks)
  <2>1. checks[i] \in CheckSpec(CheckTypes)
      BY <1>1, <1>4, ElementOf
  <2>2. fixes + 1 \in Nat
      BY DEF SuiteTypeOK
  <2> QED BY <1>4, <2>1, <2>2 DEF CheckSpec, Expectation
<1>6. added \in Seq(Expectation) /\ Len(added) = Len(checks)
    BY <1>4, <1>5
<1>7. \A i \in 1 .. Len(checks) :
        /\ added[i].fix = fixes + 1 /\ added[i].status = "pending"
        /\ added[i].type = checks[i].type
    BY <1>4
<1> HIDE DEF added
<1>8. expectations \in Seq(Expectation) /\ Len(expectations) \in Nat
      /\ DOMAIN expectations = 1 .. Len(expectations)
    BY DEF SuiteTypeOK
<1>9. /\ rows \in Seq(Expectation)
      /\ DOMAIN rows = 1 .. Len(expectations) + Len(checks)
      /\ \A i \in 1 .. Len(checks) : rows[Len(expectations) + i] = added[i]
  <2>1. PICK t \in Seq(Expectation) : t = added
      BY <1>6
  <2>2. PICK s \in Seq(Expectation) : s = expectations
      BY <1>8
  <2>3. /\ s \o t \in Seq(Expectation)
        /\ Len(s \o t) = Len(s) + Len(t)
        /\ \A i \in 1 .. Len(t) : (s \o t)[Len(s) + i] = t[i]
      BY ConcatIsSeq
  <2>4. /\ rows \in Seq(Expectation)
        /\ Len(rows) = Len(expectations) + Len(checks)
        /\ \A i \in 1 .. Len(checks) : rows[Len(expectations) + i] = added[i]
      BY <1>3, <1>6, <2>1, <2>2, <2>3
  <2> QED BY <1>4, <1>8, <2>4
<1>10. ASSUME NEW i \in DOMAIN rows, i \notin DOMAIN expectations
       PROVE  rows[i].status = "pending"
  <2>1. PICK k \in 1 .. Len(checks) : i = Len(expectations) + k
    <3>1. i \in Nat /\ i > Len(expectations) /\ i <= Len(expectations) + Len(checks)
        BY <1>4, <1>8, <1>9, <1>10
    <3>2. i - Len(expectations) \in 1 .. Len(checks)
          /\ i = Len(expectations) + (i - Len(expectations))
        BY <1>4, <1>8, <3>1
    <3> QED BY <3>2
  <2> QED BY <1>7, <1>9, <2>1
<1>11. ASSUME ticket.customerFacing
       PROVE  \E i \in DOMAIN rows :
                 rows[i].fix = fixes + 1 /\ rows[i].type = "customer_benefit"
  <2>1. PICK k \in 1 .. Len(checks) : checks[k].type = "customer_benefit"
      BY <1>2, <1>4, <1>11 DEF Benefits
  <2>2. Len(expectations) + k \in DOMAIN rows
      BY <1>4, <1>8, <1>9
  <2>3. rows[Len(expectations) + k] = added[k]
      BY <1>9
  <2> QED BY <1>7, <2>1, <2>2, <2>3
<1> QED BY <1>10, <1>11

\* A result passes rows of its own type only.
LEMMA DecidedPasses ==
    ASSUME SuiteTypeOK, NEW c, NEW passed \in BOOLEAN,
           NEW rows, rows = Decided(expectations, c, passed)
    PROVE  /\ rows \in Seq(Expectation) /\ DOMAIN rows = DOMAIN expectations
           /\ \A i \in DOMAIN expectations :
                /\ rows[i].fix = expectations[i].fix
                /\ rows[i].type = expectations[i].type
                /\ rows[i].status = "passed" =>
                     \/ expectations[i].status = "passed"
                     \/ passed /\ expectations[i].type = CheckType(c)
<1>1. /\ rows \in Seq(Expectation) /\ Len(rows) = Len(expectations)
    BY DecidedType
<1>2. expectations \in Seq(Expectation)
    BY DEF SuiteTypeOK
<1>3. ASSUME NEW i \in DOMAIN expectations
      PROVE  /\ rows[i].fix = expectations[i].fix
             /\ rows[i].type = expectations[i].type
             /\ rows[i].status = "passed" =>
                  \/ expectations[i].status = "passed"
                  \/ passed /\ expectations[i].type = CheckType(c)
  <2>1. expectations[i] \in Expectation
      BY <1>2, ElementOf
  <2>2. CASE i \in Matches(expectations, c) /\ \A j \in Matches(expectations, c) : i <= j
    <3>1. rows[i] = [expectations[i] EXCEPT !.status = IF passed THEN "passed" ELSE "failed"]
        BY <2>2 DEF Decided
    <3>2. expectations[i].type = CheckType(c)
        BY <2>2 DEF Matches, Candidates
    <3> QED BY <2>1, <3>1, <3>2 DEF Expectation
  <2>3. CASE ~(i \in Matches(expectations, c) /\ \A j \in Matches(expectations, c) : i <= j)
    <3>1. rows[i] = expectations[i]
        BY <2>3 DEF Decided
    <3> QED BY <3>1
  <2> QED BY <2>2, <2>3
<1> QED BY <1>1, <1>2, <1>3
-----------------------------------------------------------------------------
(* The host and what the checks have proved of it.                          *)

\* No restart of the unit brings it up.
NeverComesUp == situation.restart \in {"dies", "fails"}

Proven == Serves \/ situation.restart = "once"

\* The file is only ever set right, the unit reads it when it is started, and
\* what looks down in the last output is still down.
HostInvariant ==
    /\ unit \in Unit
    /\ unit.set = "wrong" => situation.port = "wrong"
    /\ unit.read # "wrong" => unit.set # "wrong"
    /\ NeverComesUp /\ situation.port = "wrong" => unit.read = "wrong" \/ ~Up
    /\ commands # <<>> /\ SaysDown(commands[Len(commands)]) => ~Up
    /\ \A i \in DOMAIN commands :
          "otherport" \in commands[i].words => situation.port = "wrong"

\* What is proposed, and so what is run, keeps to PlainInterventions; an enable
\* that is a fix finds its unit down.
PlainStep ==
    /\ step.cmd.verb # "disable"
    /\ step.cmd.target = EnvFile =>
         step.cmd.verb \notin {"edit", "restore", "restore-inline"}
    /\ step.phase = "validation" => step.cmd.verb \notin {"ss", "ss-owners"}
    /\ step.phase = "fix" =>
         \/ step.cmd.verb = "restart"
         \/ step.cmd.verb = "enable" /\ (step.status \in {"proposed", "approved"} => ~Up)
         \/ step.cmd.verb = "inline" /\ situation.port = "wrong"

\* What the answer that is not stored yet says of the host.
AnswerIsTrue ==
    step.status = "finished" =>
        /\ FixCompleted /\ NeverComesUp => ~Serves
        /\ /\ step.phase = "validation"
           /\ CheckType(step.cmd) = "customer_benefit"
           /\ ValidationPassed(step.cmd, step.outcome)
           => Proven

\* What the rows say of it: a unit that never comes up does not serve after a
\* fix, for the fixes have restarted it or its port was wrong from the start.
RowsAreTrue ==
    /\ NeverComesUp /\ fixes > 0 => ~Serves
    /\ \A i \in DOMAIN expectations :
          expectations[i].type = "customer_benefit" /\ expectations[i].status = "passed"
             => Proven
    /\ ticket.customerFacing /\ fixes > 0 =>
          \E i \in DOMAIN expectations :
             expectations[i].fix = fixes /\ expectations[i].type = "customer_benefit"

ServesInv == PlannerTypes /\ HostInvariant /\ PlainStep /\ AnswerIsTrue /\ RowsAreTrue

LEMMA ServesInit == PlannerInit => ServesInv
<1> SUFFICES ASSUME PlannerInit
             PROVE  ServesInv
    OBVIOUS
<1>1. PlannerTypes
    BY PlannerTypesInit
<1>2. SuiteInit /\ commands = <<>>
      /\ unit = [state |-> situation.state, enabled |-> situation.enabled,
                 set |-> situation.port, read |-> situation.port]
    BY DEF PlannerInit, PolicyInit
<1>3. HostInvariant
    BY <1>1, <1>2 DEF HostInvariant, PlannerTypes, Readable, Situation, Unit
<1>4. PlainStep /\ AnswerIsTrue
    BY <1>2, FallBackUnits DEF SuiteInit, NoStepYet, PlainStep, AnswerIsTrue, Cmd
<1>5. RowsAreTrue
    BY <1>2 DEF SuiteInit, RowsAreTrue
<1> QED BY <1>1, <1>3, <1>4, <1>5 DEF ServesInv

LEMMA WaitsServes ==
    ASSUME ServesInv, Waits, PlainInterventions
    PROVE  HostInvariant' /\ PlainStep' /\ AnswerIsTrue' /\ RowsAreTrue'
<1>1. UNCHANGED <<ticket, situation, unit, commands, expectations, fixes>>
    BY DEF Waits, Quiet
<1>2. HostInvariant'
    BY <1>1 DEF ServesInv, HostInvariant, NeverComesUp, Up, SaysDown, LooksRestartable
<1>3. PlainStep'
  <2>1. CASE step' = step
      BY <1>1, <2>1 DEF ServesInv, PlainStep, Up
  <2>2. CASE step' = NoStepYet
      BY <2>2, FallBackUnits DEF PlainStep, NoStepYet, Cmd
  <2>3. CASE step.status = "proposed" /\ step' = [step EXCEPT !.status = "approved"]
    <3>1. step \in Step
        BY DEF ServesInv, PlannerTypes, Readable, SuiteTypeOK
    <3>2. step'.cmd = step.cmd /\ step'.phase = step.phase
        BY <2>3, <3>1 DEF Step
    <3> QED BY <1>1, <2>3, <3>2 DEF ServesInv, PlainStep, Up
  <2>4. ASSUME NEW p, Proposable(p), step'.phase = p.phase, step'.cmd = p.cmd
        PROVE  PlainStep'
    <3>1. CASE p \in DiagnosticSteps \cup ValidationSteps
        BY <2>4, <3>1, FallBackUnits DEF PlainStep, DiagnosticSteps, ValidationSteps,
               ServiceReads, HostVerbs
    <3>2. CASE p \in RestartsNow
      <4>1. p.cmd.verb = "enable" => ~Up
          BY <3>2 DEF RestartsNow, ServesInv, HostInvariant
      <4> QED BY <1>1, <2>4, <3>2, <4>1 DEF PlainStep, RestartsNow, RestartSteps, Up
    <3>3. CASE EditsPort(p)
      <4>1. situation.port = "wrong"
        <5>1. Len(commands) \in DOMAIN commands
            BY <3>3, CommandsType DEF ServesInv, PlannerTypes, EditsPort
        <5> QED BY <3>3, <5>1 DEF ServesInv, HostInvariant, EditsPort
      <4> QED BY <1>1, <2>4, <3>3, <4>1 DEF PlainStep, EditsPort, Repair, Cmd
    <3>4. CASE p \in ManualSteps
        BY <2>4, <3>4 DEF PlainStep, PlainInterventions
    <3> QED BY <2>4, <3>1, <3>2, <3>3, <3>4 DEF Proposable, PlannedSteps
  <2>5. CASE \E p : /\ Proposable(p)
                    /\ step' = [status |-> "proposed", phase |-> p.phase,
                                cmd |-> p.cmd, outcome |-> NoOutcome]
      BY <2>4, <2>5
  <2> QED BY <2>1, <2>2, <2>3, <2>5 DEF Waits
<1>4. AnswerIsTrue'
  <2>1. CASE step' = step
      BY <1>1, <2>1 DEF ServesInv, AnswerIsTrue, FixCompleted, NeverComesUp, Serves, Up, Proven
  <2>2. CASE step' # step
    <3>1. step \in Step
        BY DEF ServesInv, PlannerTypes, Readable, SuiteTypeOK
    <3>2. step'.status # "finished"
        BY <2>2, <3>1 DEF Waits, NoStepYet, Step
    <3> QED BY <3>2 DEF AnswerIsTrue
  <2> QED BY <2>1, <2>2
<1>5. RowsAreTrue'
    BY <1>1 DEF ServesInv, RowsAreTrue, NeverComesUp, Serves, Up, Proven
<1> QED BY <1>2, <1>3, <1>4, <1>5
\* What the host's answer changes: the port is only ever set right.
LEMMA ExecuteOnHostKeeps ==
    ASSUME ServesInv, PlainInterventions, ExecuteOnHost
    PROVE  /\ step.status = "approved" /\ step.cmd \in Command
           /\ step'.status = "finished" /\ step'.cmd = step.cmd
           /\ step'.phase = step.phase
           /\ UNCHANGED <<ticket, situation, expectations, fixes>>
           /\ \E now \in BOOLEAN, set \in {unit.set, "right"} :
                 /\ now \/ Manual
                 /\ step'.outcome = HostAnswer(step.cmd, now).outcome
                 /\ unit' = [UnitAfter(step.cmd, now) EXCEPT !.set = set]
                 /\ commands' = Append(commands,
                      [cmd |-> step.cmd, phase |-> step.phase,
                       outcome |-> HostAnswer(step.cmd, now).outcome,
                       words |-> HostAnswer(step.cmd, now).words])
<1>1. step \in Step /\ step.cmd \in Command
    BY DEF ServesInv, PlannerTypes, Readable, SuiteTypeOK, Step
<1>2. PICK now \in BOOLEAN : ExecuteNow(now)
    BY ExecuteOnHostPicks
<1>3. PICK outcome : outcome = HostAnswer(step.cmd, now).outcome
    OBVIOUS
<1>4. RunCommand(outcome) /\ situation' = situation
    BY <1>2, <1>3 DEF ExecuteNow, Execute
<1>5. /\ step.status = "approved"
      /\ step' = [step EXCEPT !.status = "finished", !.outcome = outcome]
      /\ UNCHANGED <<ticket, expectations, fixes>>
    BY <1>4 DEF RunCommand
<1>6. /\ step'.status = "finished" /\ step'.cmd = step.cmd
      /\ step'.phase = step.phase /\ step'.outcome = outcome
    BY <1>1, <1>5 DEF Step
<1>7. SettingsAfter(step.cmd) \subseteq {unit.set, "right"}
  <2>1. step.cmd.target = EnvFile /\ Manual => step.cmd.verb # "inline"
      BY DEF Manual, PlainInterventions
  <2>2. step.cmd.target = EnvFile =>
           step.cmd.verb \notin {"edit", "restore", "restore-inline"}
      BY DEF ServesInv, PlainStep
  <2>3. step.cmd.target = EnvFile /\ step.cmd.verb = "inline" =>
           step.cmd = Cmd("inline", EnvFile)
      BY <1>1 DEF Command, Cmd
  <2> QED BY <2>1, <2>2, <2>3 DEF SettingsAfter
<1>8. PICK set \in {unit.set, "right"} :
         unit' = [UnitAfter(step.cmd, now) EXCEPT !.set = set]
    BY <1>2, <1>7 DEF ExecuteNow
<1>9. /\ now \/ Manual
      /\ commands' = Append(commands,
           [cmd |-> step.cmd, phase |-> step.phase,
            outcome |-> HostAnswer(step.cmd, now).outcome,
            words |-> HostAnswer(step.cmd, now).words])
    BY <1>2 DEF ExecuteNow
<1> QED BY <1>1, <1>3, <1>4, <1>5, <1>6, <1>8, <1>9

\* A start reads the file, nothing else does; nothing stops a unit that is up.
LEMMA UnitMoves ==
    ASSUME ServesInv, NEW now \in BOOLEAN, NEW set \in {unit.set, "right"},
           NEW after, after = [UnitAfter(step.cmd, now) EXCEPT !.set = set]
    PROVE  /\ after \in Unit /\ after.set = set
           /\ \/ after.state = unit.state /\ after.read = unit.read
              \/ /\ step.cmd.target = App /\ step.cmd.verb \in {"restart", "enable"}
                 /\ after.read = unit.set
                 /\ situation.restart = "works" => after.state = "active"
                 /\ NeverComesUp => after.state = "failed"
           /\ step.cmd.target = App /\ Starts(step.cmd, now) /\ NeverComesUp =>
                 after.state = "failed"
<1>1. /\ unit \in Unit /\ set \in Ports /\ situation.restart \in {"works", "fails", "dies", "once"}
      /\ step.cmd.verb # "disable"
    BY DEF ServesInv, HostInvariant, Ports, Unit, PlainStep, PlannerTypes, Readable, Situation
<1>2. CASE step.cmd.target # App
    BY <1>1, <1>2 DEF UnitAfter, Unit
<1>3. CASE step.cmd.target = App /\ Starts(step.cmd, now)
  <2>1. StateAfter(step.cmd, now) =
           IF situation.restart = "works" \/ (situation.restart = "once" /\ ~Up)
           THEN "active" ELSE "failed"
      BY <1>1, <1>3, Zenon DEF StateAfter
  <2>2. step.cmd.verb \in {"restart", "enable"}
      BY <1>3 DEF Starts
  <2> QED BY <1>1, <1>3, <2>1, <2>2 DEF UnitAfter, Unit, NeverComesUp
<1>4. CASE step.cmd.target = App /\ ~Starts(step.cmd, now)
  <2>1. StateAfter(step.cmd, now) = unit.state
      BY <1>1, <1>4 DEF StateAfter
  <2> QED BY <1>1, <1>4, <2>1 DEF UnitAfter, Unit
<1> QED BY <1>2, <1>3, <1>4

LEMMA ExecuteOnHostUnit ==
    ASSUME ServesInv, PlainInterventions, ExecuteOnHost
    PROVE  HostInvariant'
<1>1. PICK now \in BOOLEAN, set \in {unit.set, "right"} :
         /\ unit' = [UnitAfter(step.cmd, now) EXCEPT !.set = set]
         /\ commands' = Append(commands,
              [cmd |-> step.cmd, phase |-> step.phase,
               outcome |-> HostAnswer(step.cmd, now).outcome,
               words |-> HostAnswer(step.cmd, now).words])
    BY ExecuteOnHostKeeps
<1>2. situation' = situation /\ NeverComesUp' = NeverComesUp
    BY ExecuteOnHostKeeps DEF NeverComesUp
<1>3. HostInvariant
    BY DEF ServesInv
<1>4. /\ unit' \in Unit /\ unit'.set = set
      /\ \/ unit'.state = unit.state /\ unit'.read = unit.read
         \/ /\ step.cmd.target = App /\ step.cmd.verb \in {"restart", "enable"}
            /\ unit'.read = unit.set
            /\ NeverComesUp => unit'.state = "failed"
    BY <1>1, UnitMoves
<1>5. /\ unit'.set = "wrong" => situation.port = "wrong"
      /\ unit'.read # "wrong" => unit'.set # "wrong"
      /\ NeverComesUp /\ situation.port = "wrong" => unit'.read = "wrong" \/ ~Up'
    BY <1>3, <1>4 DEF HostInvariant, Up
<1> DEFINE answer == HostAnswer(step.cmd, now)
           execution == [cmd |-> step.cmd, phase |-> step.phase,
                         outcome |-> answer.outcome, words |-> answer.words]
<1>6. "otherport" \in execution.words => situation.port = "wrong"
    BY <1>3 DEF HostAnswer, Answer, HostInvariant
<1>7. SaysDown(execution) => ~Up'
  <2>1. SaysDown(execution) => step.cmd.verb \in {"status", "show"} /\ ~Up
      BY DEF SaysDown, LooksRestartable, HostAnswer, Answer
  <2> QED BY <1>4, <2>1 DEF Up
<1>8. commands' = Append(commands, execution)
    BY <1>1
<1> HIDE DEF answer, execution
<1>9. /\ commands \in Seq(Execution) /\ Len(commands) \in Nat
      /\ DOMAIN commands = 1 .. Len(commands)
    BY CommandsType DEF ServesInv, PlannerTypes, Readable
<1>10. \A i \in DOMAIN commands' :
          \/ i \in DOMAIN commands /\ commands'[i] = commands[i]
          \/ commands'[i] = execution
    BY <1>8, <1>9
<1>11. commands'[Len(commands')] = execution
    BY <1>8, <1>9
<1>12. \A i \in DOMAIN commands' :
          "otherport" \in commands'[i].words => situation'.port = "wrong"
    BY <1>2, <1>3, <1>6, <1>10 DEF HostInvariant
<1>13. SaysDown(commands[Len(commands)])' => ~Up'
    BY <1>7, <1>11 DEF SaysDown, LooksRestartable
<1> QED BY <1>2, <1>4, <1>5, <1>12, <1>13 DEF HostInvariant

\* An endpoint that is up stays up, and a unit that never comes up stays down.
LEMMA ExecuteOnHostServes ==
    ASSUME ServesInv, PlainInterventions, ExecuteOnHost
    PROVE  /\ NeverComesUp \/ situation.restart \in {"works", "once"}
           /\ situation.restart = "works" /\ Serves => Serves'
           /\ NeverComesUp /\ ~Serves => ~Serves'
<1>1. PICK now \in BOOLEAN, set \in {unit.set, "right"} :
         unit' = [UnitAfter(step.cmd, now) EXCEPT !.set = set]
    BY ExecuteOnHostKeeps
<1>2. unit.read # "wrong" => unit.set # "wrong"
    BY DEF ServesInv, HostInvariant
<1>3. NeverComesUp \/ situation.restart \in {"works", "once"}
    BY DEF ServesInv, PlannerTypes, Readable, Situation, NeverComesUp
<1>4. \/ unit'.state = unit.state /\ unit'.read = unit.read
      \/ /\ unit'.read = unit.set
         /\ situation.restart = "works" => unit'.state = "active"
         /\ NeverComesUp => unit'.state = "failed"
    BY <1>1, UnitMoves
<1> QED BY <1>2, <1>3, <1>4 DEF Serves

LEMMA ExecuteOnHostAnswers ==
    ASSUME ServesInv, PlainInterventions, ExecuteOnHost
    PROVE  AnswerIsTrue'
<1>1. /\ step.cmd \in Command /\ step.status = "approved"
      /\ step'.cmd = step.cmd /\ step'.phase = step.phase
      /\ situation' = situation
    BY ExecuteOnHostKeeps
<1>2. PICK now \in BOOLEAN, set \in {unit.set, "right"} :
         /\ now \/ Manual
         /\ step'.outcome = HostAnswer(step.cmd, now).outcome
         /\ unit' = [UnitAfter(step.cmd, now) EXCEPT !.set = set]
    BY ExecuteOnHostKeeps
<1>3. /\ situation.app \in Services /\ NoTarget \notin Services
    BY SituationUnits, FallBackUnits DEF ServesInv, PlannerTypes
<1>4. ASSUME FixCompleted', NeverComesUp
      PROVE  ~Serves'
  <2>1. /\ step.phase = "fix" /\ HostAnswer(step.cmd, now).outcome.status = "completed"
      BY <1>1, <1>2, <1>4 DEF FixCompleted
  <2>2. CASE step.cmd.verb = "inline" /\ situation.port = "wrong"
    <3>1. unit'.read = "wrong" \/ ~Up'
        BY <1>1, <1>4, <2>2, ExecuteOnHostUnit DEF HostInvariant, NeverComesUp
    <3> QED BY <3>1 DEF Serves, Up
  <2>3. CASE step.cmd.verb = "restart" \/ (step.cmd.verb = "enable" /\ ~Up)
    <3>1. step.cmd.target \in Services
        BY <1>1, <2>3, VerbsDecideTargets DEF ServiceChanges
    <3>2. step.cmd.target = App
        BY <2>1, <2>3, <3>1 DEF HostAnswer, Answer, ServiceChanges
    <3>3. now \/ step.cmd.verb = "restart"
        BY <1>2, <2>1 DEF Manual, PlainInterventions
    <3>4. Starts(step.cmd, now)
        BY <2>3, <3>3 DEF Starts
    <3>5. unit'.state = "failed"
        BY <1>2, <1>4, <3>2, <3>4, UnitMoves
    <3> QED BY <3>5 DEF Serves
  <2> QED BY <1>1, <2>1, <2>2, <2>3 DEF ServesInv, PlainStep
<1>5. ASSUME step.phase = "validation", CheckType(step.cmd) = "customer_benefit",
             ValidationPassed(step.cmd, HostAnswer(step.cmd, now).outcome)
      PROVE  Serves'
  <2>1. step.cmd.verb \in {"curl", "curl-body"}
      BY <1>5 DEF ServesInv, PlainStep, CheckType
  <2>2. step.cmd.target = NoTarget
      BY <1>1, <2>1, VerbsDecideTargets DEF HostVerbs
  <2>3. HostAnswer(step.cmd, now).outcome.status = "completed"
      BY <1>5 DEF ValidationPassed
  <2>4. HostAnswer(step.cmd, now) = IF Serves THEN Answer("completed", "good", {})
                                    ELSE Answer("failed", "bad", {})
      BY <1>3, <2>1, <2>2 DEF HostAnswer
  <2>5. Serves
      BY <2>3, <2>4 DEF Answer
  <2>6. unit'.state = unit.state /\ unit'.read = unit.read
      BY <1>2, <2>1, UnitMoves
  <2> QED BY <2>5, <2>6 DEF Serves
<1>6. NeverComesUp' = NeverComesUp
    BY <1>1 DEF NeverComesUp
<1> QED BY <1>1, <1>2, <1>4, <1>5, <1>6 DEF AnswerIsTrue, Proven

\* While the run is alive it has rows only after a fix.
LEMMA RowsComeFromFixes ==
    ASSUME PlannerTypes, expectations # <<>>
    PROVE  fixes > 0
BY DEF PlannerTypes, SuiteInv, LatestRowIsOfLastFix, SuiteTypeOK

LEMMA ExecuteOnHostRows ==
    ASSUME ServesInv, PlainInterventions, ExecuteOnHost
    PROVE  PlainStep' /\ RowsAreTrue'
<1>1. /\ step'.cmd = step.cmd /\ step'.phase = step.phase /\ step'.status = "finished"
      /\ UNCHANGED <<ticket, situation, expectations, fixes>>
    BY ExecuteOnHostKeeps
<1>2. PlainStep'
    BY <1>1 DEF ServesInv, PlainStep
<1>3. /\ NeverComesUp \/ situation.restart \in {"works", "once"}
      /\ situation.restart = "works" /\ Serves => Serves'
      /\ NeverComesUp /\ ~Serves => ~Serves'
    BY ExecuteOnHostServes
<1>4. ASSUME NEW i \in DOMAIN expectations,
             expectations[i].type = "customer_benefit",
             expectations[i].status = "passed"
      PROVE  Proven'
  <2>1. Proven
      BY <1>4 DEF ServesInv, RowsAreTrue
  <2>2. NeverComesUp => ~Serves
    <3>1. expectations # <<>>
        BY <1>4 DEF ServesInv, PlannerTypes, Readable, SuiteTypeOK
    <3>2. fixes > 0
        BY <3>1, RowsComeFromFixes DEF ServesInv
    <3> QED BY <3>2 DEF ServesInv, RowsAreTrue
  <2> QED BY <1>1, <1>3, <2>1, <2>2 DEF Proven, NeverComesUp
<1>5. NeverComesUp' = NeverComesUp
    BY <1>1 DEF NeverComesUp
<1> QED BY <1>1, <1>2, <1>3, <1>4, <1>5 DEF ServesInv, RowsAreTrue

LEMMA RecordServes ==
    ASSUME ServesInv, RecordAndReplan
    PROVE  HostInvariant' /\ PlainStep' /\ AnswerIsTrue' /\ RowsAreTrue'
<1> DEFINE passed == ValidationPassed(step.cmd, step.outcome)
<1>1. /\ RecordResult
      /\ UNCHANGED <<situation, unit, commands>>
    BY DEF RecordAndReplan, RecordStep
<1>2. /\ step.status = "finished" /\ step' = NoStepYet /\ ticket' = ticket
      /\ fixes' = IF FixCompleted THEN fixes + 1 ELSE fixes
      /\ \/ UNCHANGED expectations /\ ~FixCompleted
         \/ /\ step.phase = "validation" /\ ~FixCompleted
            /\ expectations' = Decided(expectations, step.cmd, passed)
         \/ /\ FixCompleted
            /\ expectations' = WithExpectations(expectations, step.cmd)
  <2>1. runStatus # "aborted"
      BY DEF ServesInv, PlannerTypes
  <2> QED BY <1>1, <2>1, RecordResultCases DEF FixCompleted
<1> HIDE DEF passed
<1>3. HostInvariant'
    BY <1>1 DEF ServesInv, HostInvariant, NeverComesUp, Up, SaysDown, LooksRestartable
<1>4. PlainStep' /\ AnswerIsTrue'
    BY <1>2, FallBackUnits DEF NoStepYet, Cmd, PlainStep, AnswerIsTrue
<1>5. Serves' = Serves /\ Proven' = Proven /\ NeverComesUp' = NeverComesUp
    BY <1>1 DEF Serves, Proven, NeverComesUp
<1>6. /\ SuiteTypeOK /\ step.cmd \in Command /\ fixes \in Nat
      /\ passed \in BOOLEAN /\ RowsAreTrue /\ AnswerIsTrue
    BY DEF ServesInv, PlannerTypes, Readable, SuiteTypeOK, Step, passed, ValidationPassed
<1>7. NeverComesUp /\ fixes' > 0 => ~Serves
    BY <1>2, <1>6 DEF RowsAreTrue, AnswerIsTrue
<1>8. CASE UNCHANGED expectations /\ ~FixCompleted
    BY <1>2, <1>3, <1>4, <1>5, <1>6, <1>7, <1>8 DEF RowsAreTrue
<1>9. CASE /\ step.phase = "validation" /\ ~FixCompleted
           /\ expectations' = Decided(expectations, step.cmd, passed)
  <2>1. /\ DOMAIN expectations' = DOMAIN expectations
        /\ \A i \in DOMAIN expectations :
              /\ expectations'[i].fix = expectations[i].fix
              /\ expectations'[i].type = expectations[i].type
              /\ expectations'[i].status = "passed" =>
                   \/ expectations[i].status = "passed"
                   \/ passed /\ expectations[i].type = CheckType(step.cmd)
      BY <1>6, <1>9, DecidedPasses
  <2>2. passed /\ CheckType(step.cmd) = "customer_benefit" => Proven
      BY <1>2, <1>6, <1>9 DEF AnswerIsTrue, passed
  <2>3. \A i \in DOMAIN expectations' :
           expectations'[i].type = "customer_benefit" /\ expectations'[i].status = "passed"
              => Proven
      BY <1>6, <2>1, <2>2 DEF RowsAreTrue
  <2>4. fixes' = fixes
      BY <1>2, <1>9
  <2>5. ticket.customerFacing /\ fixes > 0 =>
           \E i \in DOMAIN expectations' :
              expectations'[i].fix = fixes /\ expectations'[i].type = "customer_benefit"
      BY <1>6, <2>1 DEF RowsAreTrue
  <2> QED BY <1>2, <1>3, <1>4, <1>5, <1>7, <2>3, <2>4, <2>5 DEF RowsAreTrue
<1>10. CASE FixCompleted /\ expectations' = WithExpectations(expectations, step.cmd)
  <2>1. \A i \in DOMAIN expectations : expectations'[i] = expectations[i]
      BY <1>6, <1>10, WithExpectationsType
  <2>2. /\ \A i \in DOMAIN expectations' :
              i \in DOMAIN expectations \/ expectations'[i].status = "pending"
        /\ ticket.customerFacing =>
              \E i \in DOMAIN expectations' :
                 expectations'[i].fix = fixes + 1
                   /\ expectations'[i].type = "customer_benefit"
      BY <1>6, <1>10, WithExpectationsAdds
  <2>3. \A i \in DOMAIN expectations' :
           expectations'[i].type = "customer_benefit" /\ expectations'[i].status = "passed"
              => Proven
      BY <1>6, <2>1, <2>2 DEF RowsAreTrue
  <2>4. fixes' = fixes + 1
      BY <1>2, <1>10
  <2> QED BY <1>2, <1>3, <1>4, <1>5, <1>7, <2>2, <2>3, <2>4 DEF RowsAreTrue
<1> QED BY <1>2, <1>8, <1>9, <1>10

\* What the customers' check has proved of the host stays true of it.
THEOREM ServesInvCorrect == PlainInterventions => (PlannerSpec => []ServesInv)
<1> SUFFICES ASSUME PlainInterventions
             PROVE  PlannerSpec => []ServesInv
    OBVIOUS
<1>1. ServesInv /\ [PlannerNext]_plannerVars => ServesInv'
  <2> SUFFICES ASSUME ServesInv, [PlannerNext]_plannerVars
               PROVE  ServesInv'
      OBVIOUS
  <2>1. PlannerTypes /\ PlannerTypes'
      BY PlannerTypesStep DEF ServesInv
  <2>2. CASE Waits
      BY <2>1, <2>2, WaitsServes DEF ServesInv
  <2>3. CASE ExecuteOnHost
      BY <2>1, <2>3, ExecuteOnHostUnit, ExecuteOnHostAnswers, ExecuteOnHostRows DEF ServesInv
  <2>4. CASE RecordAndReplan
      BY <2>1, <2>4, RecordServes DEF ServesInv
  <2> QED BY <2>1, <2>2, <2>3, <2>4, PlannerStepKinds
<1> QED BY ServesInit, <1>1, PTL DEF PlannerSpec

\* A repaired run whose customers noticed is ready only when the endpoint
\* answers: if the technician's own steps are plain, and unless the unit comes
\* up only once.
THEOREM ReadyHostServesCorrect == PlainInterventions => (PlannerSpec => []ReadyHostServes)
<1>1. ServesInv => ReadyHostServes
  <2> SUFFICES ASSUME ServesInv, runStatus = "ready_for_activity", fixes > 0,
                      ticket.customerFacing
               PROVE  Proven
      BY DEF ReadyHostServes, Proven
  <2>1. fixes # 0
      BY DEF ServesInv, PlannerTypes, Readable, SuiteTypeOK
  <2>2. \A i \in DOMAIN expectations :
           expectations[i].fix = fixes => expectations[i].status = "passed"
      BY <2>1, ReadyIsValidated DEF ServesInv, PlannerTypes, ReadyMeansLatestFixValidated
  <2> QED BY <2>2 DEF ServesInv, RowsAreTrue
<1> QED BY ServesInvCorrect, <1>1, PTL
-----------------------------------------------------------------------------
(* The planner's loop as one of the runs that Policy allows.                *)

\* Policy with every choice the loop may make.
EveryChoice ==
    /\ DiagnosticSteps \cup ValidationSteps \cup RestartSteps \subseteq Proposals
    /\ Repair("inline", EnvFile) \in Proposals
    /\ Answers = Outcome
    /\ Paths \cup Services \subseteq Waivers

LEMMA PlannerStepIsPolicyStep ==
    ASSUME EveryChoice, PlannerTypes, [PlannerNext]_plannerVars
    PROVE  [PolicyNext]_policyVars
<1>1. CASE Plan
  <2>1. CASE ProposeStep(NextStep)
    <3>1. NextStep \in Proposals
        BY NextStepType DEF PlannerTypes, EveryChoice, EditsPort, PlannedSteps, RestartsNow
    <3> QED BY <2>1, <3>1 DEF PolicyNext
  <2> QED BY <1>1, <2>1 DEF Plan
<1>2. ASSUME NEW p \in ManualSteps, ProposeManually(p)
      PROVE  PolicyNext
    BY <1>2, PlannerAssumption DEF ProposeManually, PolicyNext
<1>3. CASE RejectProposal \/ RejectRefused
    BY <1>3 DEF RejectProposal, RejectRefused, PolicyNext
<1>4. CASE RetryAtWill \/ RetryIdle
    BY <1>4 DEF RetryAtWill, RetryIdle, Retry, PolicyNext
<1>5. CASE ApproveProposal
    BY <1>5 DEF ApproveProposal, PolicyNext
<1>6. CASE Waive
  <2>1. step.cmd \in Command
      BY DEF PlannerTypes, Readable, SuiteTypeOK, Step
  <2>2. Requirements(step.cmd) # {}
      BY <1>6 DEF Waive, BackupSatisfied
  <2>3. step.cmd.target \in Paths \cup Services
      BY <2>1, <2>2 DEF Requirements, RestartsService, Command, ServiceReads, ServiceChanges,
                         FileReads, FileChanges, HostVerbs
  <2> QED BY <1>6, <2>3 DEF Waive, PolicyNext, EveryChoice
<1>7. CASE ExecuteOnHost
  <2>1. step.cmd \in Command
      BY DEF PlannerTypes, Readable, SuiteTypeOK, Step
  <2>2. PICK now \in BOOLEAN : ExecuteNow(now)
      BY <1>7, ExecuteOnHostPicks
  <2>3. HostAnswer(step.cmd, now).outcome \in Answers
      BY <2>1, HostAnswerType DEF PlannerTypes, EveryChoice
  <2> QED BY <2>2, <2>3 DEF ExecuteNow, PolicyNext
<1>8. CASE RecordAndReplan
    BY <1>8 DEF RecordAndReplan, PolicyNext
<1>9. CASE UNCHANGED plannerVars
    BY <1>9 DEF plannerVars
<1> QED BY <1>1, <1>2, <1>3, <1>4, <1>5, <1>6, <1>7, <1>8, <1>9 DEF PlannerNext, Progress

\* Each step of the loop is one that the policies allow: what holds of them
\* for every proposal and every answer holds of the planner's.
THEOREM PlannerImplementsPolicy == EveryChoice => (PlannerSpec => PolicySpec)
<1> SUFFICES ASSUME EveryChoice
             PROVE  PlannerSpec => PolicySpec
    OBVIOUS
<1>1. PlannerInit => PolicyInit
    BY DEF PlannerInit
<1>2. PlannerTypes /\ [PlannerNext]_plannerVars => [PolicyNext]_policyVars
    BY PlannerStepIsPolicyStep
<1> QED BY <1>1, <1>2, PlannerTypesCorrect, PTL DEF PlannerSpec, PolicySpec

\* What the planner has approved and run met the policies, and the first change
\* of a file left its original to be restored, with the exceptions that
\* FirstChangeIsCovered lists.
THEOREM PlannerMeetsPolicies ==
    EveryChoice => (PlannerSpec => []ApprovedStepMeetsPolicies /\ FirstChangeIsCovered)
BY PlannerImplementsPolicy, ApprovedStepMeetsPoliciesCorrect, FirstChangeIsCoveredCorrect
=============================================================================
