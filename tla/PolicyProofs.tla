---------------------------- MODULE PolicyProofs ----------------------------
(***************************************************************************)
(* The verdict of the validation suite, for all tickets, proposals, answers *)
(* and any number of fixes: a run becomes ready only with its latest fix    *)
(* validated, and what a check has decided stays decided.                   *)
(*                                                                          *)
(* What the policies add to it, for every file and unit: no step reaches    *)
(* the host against them, a file's original survives its first change       *)
(* unless the ledger says why not, and the ledgers add nothing to what      *)
(* ValidationSuite allows.                                                  *)
(***************************************************************************)
EXTENDS Policy, TLAPS

\* While the run is alive, the last expectation belongs to the last fix.
LatestRowIsOfLastFix ==
    runStatus # "aborted" =>
        IF fixes = 0 THEN expectations = <<>>
        ELSE expectations # <<>> /\ expectations[Len(expectations)].fix = fixes

SuiteInv == SuiteTypeOK /\ LatestRowIsOfLastFix /\ ReadyIsDraftable
-----------------------------------------------------------------------------
(* Sequences.                                                               *)

LEMMA ElementOf ==
    ASSUME NEW S, NEW s \in Seq(S), NEW i \in DOMAIN s
    PROVE  s[i] \in S
OBVIOUS

LEMMA SingletonIsSeq ==
    ASSUME NEW T, NEW x \in T
    PROVE  <<x>> \in Seq(T) /\ <<>> \in Seq(T)
OBVIOUS

LEMMA ConcatIsSeq ==
    ASSUME NEW T, NEW s \in Seq(T), NEW t \in Seq(T)
    PROVE  /\ s \o t \in Seq(T)
           /\ Len(s \o t) = Len(s) + Len(t)
           /\ \A i \in 1 .. Len(s) : (s \o t)[i] = s[i]
           /\ \A i \in 1 .. Len(t) : (s \o t)[Len(s) + i] = t[i]
OBVIOUS
-----------------------------------------------------------------------------
(* What the rows of a suite turn into.                                      *)

CheckSpec(types) == [type : types, target : Services \cup {NoTarget}]

LEMMA ServiceOfType ==
    ASSUME SuiteTypeOK, NEW c \in Command
    PROVE  ServiceOf(c) \in Services \cup {NoTarget}
<1>1. ticket.service \in Services \cup {NoTarget}
    BY SuiteAssumption DEF SuiteTypeOK
<1>2. Mentions[c] \in Services \cup {NoTarget}
    BY MentionsAssumption
<1>3. c.verb \in NamingVerbs => c.target \in Services
    BY DEF Command, NamingVerbs, ServiceChanges, ServiceReads, FileReads, FileChanges,
           HostVerbs
<1> QED BY <1>1, <1>2, <1>3, Zenon DEF ServiceOf

LEMMA CheckIsSeq ==
    ASSUME NEW types, NEW type, NEW target \in Services \cup {NoTarget},
           NEW needed \in BOOLEAN, needed => type \in types
    PROVE  Check(type, target, needed) \in Seq(CheckSpec(types))
<1>1. CASE needed
  <2>1. [type |-> type, target |-> target] \in CheckSpec(types)
      BY <1>1 DEF CheckSpec
  <2>2. <<[type |-> type, target |-> target]>> \in Seq(CheckSpec(types))
      BY <2>1, SingletonIsSeq
  <2> QED BY <1>1, <2>2 DEF Check
<1>2. CASE ~needed
  <2>1. <<>> \in Seq(CheckSpec(types))
      OBVIOUS
  <2> QED BY <1>2, <2>1 DEF Check
<1> QED BY <1>1, <1>2

\* The types of the checks are storable unless the ticket demands a script.
LEMMA ExpectedChecksType ==
    ASSUME SuiteTypeOK, NEW c \in Command, NEW types, StorableChecks \subseteq types,
           ticket.script => "public_validation" \in types
    PROVE  ExpectedChecks(c) \in Seq(CheckSpec(types)) /\ ExpectedChecks(c) # <<>>
<1>1. ServiceOf(c) \in Services \cup {NoTarget} /\ NoTarget \in Services \cup {NoTarget}
    BY ServiceOfType
<1>2. {"service_health", "persistence", "customer_benefit", "logs_clean", "other"}
        \subseteq types
    BY DEF StorableChecks
<1>3. ticket.customerFacing \in BOOLEAN /\ ticket.script \in BOOLEAN
    BY SuiteAssumption DEF SuiteTypeOK
<1>4. /\ Check("service_health", ServiceOf(c), ServiceOf(c) # NoTarget)
            \in Seq(CheckSpec(types))
      /\ Check("persistence", ServiceOf(c), RequiresPersistence(c) /\ ~RestartsService(c))
            \in Seq(CheckSpec(types))
      /\ Check("customer_benefit", NoTarget, ticket.customerFacing)
            \in Seq(CheckSpec(types))
      /\ Check("logs_clean", ServiceOf(c), ServiceOf(c) # NoTarget)
            \in Seq(CheckSpec(types))
      /\ Check("persistence", ServiceOf(c), RequiresPersistence(c) /\ RestartsService(c))
            \in Seq(CheckSpec(types))
      /\ Check("public_validation", NoTarget, ticket.script)
            \in Seq(CheckSpec(types))
    BY <1>1, <1>2, <1>3, CheckIsSeq
<1>5. RequiredChecks(c) \in Seq(CheckSpec(types))
    BY <1>4, ConcatIsSeq DEF RequiredChecks
<1>6. Check("other", NoTarget, TRUE) \in Seq(CheckSpec(types))
    BY <1>1, <1>2, CheckIsSeq
<1>7. Check("other", NoTarget, TRUE) # <<>>
    BY DEF Check
<1> QED BY <1>5, <1>6, <1>7 DEF ExpectedChecks

\* A completed fix appends its own rows, at least one.
LEMMA WithExpectationsType ==
    ASSUME SuiteTypeOK, NEW c \in Command
    PROVE  LET rows == WithExpectations(expectations, c)
           IN  /\ rows \in Seq(Expectation)
               /\ Len(rows) > Len(expectations)
               /\ \A i \in DOMAIN expectations : rows[i] = expectations[i]
               /\ rows[Len(rows)].fix = fixes + 1
<1> DEFINE checks == ExpectedChecks(c)
           added == [i \in DOMAIN checks |->
                       [fix |-> fixes + 1, type |-> checks[i].type,
                        target |-> checks[i].target, status |-> "pending"]]
<1>1. checks \in Seq(CheckSpec(CheckTypes)) /\ checks # <<>>
    BY ExpectedChecksType DEF CheckTypes
<1> HIDE DEF checks
<1>2. DOMAIN checks = 1 .. Len(checks) /\ Len(checks) \in Nat /\ Len(checks) > 0
    BY <1>1
<1>3. \A i \in DOMAIN checks : added[i] \in Expectation /\ added[i].fix = fixes + 1
  <2> TAKE i \in DOMAIN checks
  <2>1. checks[i] \in CheckSpec(CheckTypes)
      BY <1>1, ElementOf
  <2>2. fixes + 1 \in Nat
      BY DEF SuiteTypeOK
  <2> QED BY <2>1, <2>2 DEF CheckSpec, Expectation
<1>4. added \in Seq(Expectation) /\ Len(added) = Len(checks)
    BY <1>2, <1>3
<1>5. expectations \in Seq(Expectation)
    BY DEF SuiteTypeOK
<1>6. WithExpectations(expectations, c) = expectations \o added
    BY DEF WithExpectations, checks
<1> HIDE DEF added
<1> QED BY <1>2, <1>3, <1>4, <1>5, <1>6, ConcatIsSeq

\* A result leaves each row where it is, and decides pending rows of the latest
\* fix alone.
LEMMA DecidedType ==
    ASSUME SuiteTypeOK, NEW c, NEW passed \in BOOLEAN
    PROVE  LET rows == Decided(expectations, c, passed)
           IN  /\ rows \in Seq(Expectation)
               /\ Len(rows) = Len(expectations)
               /\ \A i \in DOMAIN expectations :
                    /\ rows[i].fix = expectations[i].fix
                    /\ \/ rows[i] = expectations[i]
                       \/ /\ i \in LatestRows(expectations)
                          /\ expectations[i].status = "pending"
                          /\ rows[i].status = IF passed THEN "passed" ELSE "failed"
<1> DEFINE rows == Decided(expectations, c, passed)
<1>1. expectations \in Seq(Expectation) /\ Len(expectations) \in Nat
      /\ DOMAIN expectations = 1 .. Len(expectations)
    BY DEF SuiteTypeOK
<1>2. Matches(expectations, c) \subseteq
        {i \in LatestRows(expectations) : expectations[i].status = "pending"}
    BY DEF Matches, Candidates
<1>3. \A i \in DOMAIN expectations : expectations[i] \in Expectation
    BY <1>1, ElementOf
<1>4. ASSUME NEW i \in DOMAIN expectations
      PROVE  /\ rows[i] \in Expectation
             /\ rows[i].fix = expectations[i].fix
             /\ \/ rows[i] = expectations[i]
                \/ /\ i \in LatestRows(expectations)
                   /\ expectations[i].status = "pending"
                   /\ rows[i].status = IF passed THEN "passed" ELSE "failed"
  <2>1. CASE i \in Matches(expectations, c) /\ \A j \in Matches(expectations, c) : i <= j
    <3>1. rows[i] = [expectations[i] EXCEPT !.status = IF passed THEN "passed" ELSE "failed"]
        BY <2>1 DEF Decided
    <3> QED BY <1>2, <1>3, <2>1, <3>1 DEF Expectation
  <2>2. CASE ~(i \in Matches(expectations, c) /\ \A j \in Matches(expectations, c) : i <= j)
    <3>1. rows[i] = expectations[i]
        BY <2>2 DEF Decided
    <3> QED BY <1>3, <3>1
  <2> QED BY <2>1, <2>2
<1>5. rows = [i \in 1 .. Len(expectations) |-> rows[i]]
    BY <1>1 DEF Decided
<1> HIDE DEF rows
<1>6. rows \in Seq(Expectation) /\ Len(rows) = Len(expectations)
    BY <1>1, <1>4, <1>5
<1> QED BY <1>4, <1>6 DEF rows
-----------------------------------------------------------------------------
(* The steps.                                                               *)

LEMMA NoStepYetType == NoStepYet \in Step
BY DEF Step, NoStepYet, NoOutcome, Outcome, Signs, Cmd, Command, HostVerbs, Phases

LEMMA InitSuiteInv == SuiteInit => SuiteInv
<1> SUFFICES ASSUME SuiteInit PROVE SuiteInv
    OBVIOUS
<1>1. SuiteTypeOK
  <2>1. step \in Step
      BY NoStepYetType DEF SuiteInit
  <2>2. expectations \in Seq(Expectation)
      BY DEF SuiteInit
  <2> QED BY <2>1, <2>2 DEF SuiteInit, SuiteTypeOK, RunStatus
<1>2. LatestRowIsOfLastFix /\ ReadyIsDraftable
    BY DEF SuiteInit, LatestRowIsOfLastFix, ReadyIsDraftable
<1> QED BY <1>1, <1>2 DEF SuiteInv

\* What every step but the storing of a result does.
Quiet ==
    /\ ticket' \in Tickets /\ runStatus' \in RunStatus /\ step' \in Step
    /\ UNCHANGED <<expectations, fixes, validated>>
    /\ runStatus' = "ready_for_activity" => runStatus = "ready_for_activity"
    /\ runStatus = "aborted" => runStatus' = "aborted"

LEMMA ProposeIsQuiet ==
    ASSUME SuiteTypeOK, NEW p \in [phase : Phases, cmd : Command], Propose(p)
    PROVE  Quiet
<1> USE DEF SuiteTypeOK, RunStatus, Quiet
<1>1. p.phase \in Phases /\ p.cmd \in Command
    OBVIOUS
<1>2. NoOutcome \in Outcome
    BY DEF NoOutcome, Outcome
<1>3. step' \in Step
    BY <1>1, <1>2 DEF Propose, Step
<1>4. UNCHANGED <<ticket, expectations, fixes, validated>>
    BY DEF Propose
<1> QED BY <1>3, <1>4 DEF Propose, IdleStatus

LEMMA ApproveIsQuiet ==
    ASSUME SuiteTypeOK, NEW c \in Command, Approve(c)
    PROVE  Quiet
<1> USE DEF SuiteTypeOK, RunStatus, Quiet
<1>1. step' \in Step
    BY DEF Approve, Step
<1> QED BY <1>1 DEF Approve, StatusForApproved

LEMMA RunCommandIsQuiet ==
    ASSUME SuiteTypeOK, NEW outcome \in Outcome, RunCommand(outcome)
    PROVE  Quiet
<1> USE DEF SuiteTypeOK, RunStatus, Quiet
<1>1. step' \in Step
    BY DEF RunCommand, Step
<1> QED BY <1>1 DEF RunCommand

LEMMA RejectOrRetryIsQuiet ==
    ASSUME SuiteTypeOK, Reject \/ RetryRun \/ AbortRun \/ UNCHANGED suiteVars
    PROVE  Quiet
<1> USE DEF SuiteTypeOK, RunStatus, Quiet
<1>1. CASE Reject
    BY <1>1, NoStepYetType DEF Reject, IdleStatus
<1>2. CASE RetryRun \/ AbortRun \/ UNCHANGED suiteVars
    BY <1>2 DEF RetryRun, AbortRun, suiteVars
<1> QED BY <1>1, <1>2

LEMMA QuietStep ==
    ASSUME SuiteTypeOK, SuiteNext \/ UNCHANGED suiteVars
    PROVE  RecordResult \/ Quiet
<1>1. ASSUME NEW p \in Proposals \cup Restores, Propose(p)
      PROVE  Quiet
  <2>1. p \in [phase : Phases, cmd : Command]
      BY SuiteAssumption DEF Phases
  <2> QED BY <1>1, <2>1, ProposeIsQuiet
<1>2. ASSUME NEW c \in {step.cmd} \cup {p.cmd : p \in Proposals}, Approve(c)
      PROVE  Quiet
  <2>1. c \in Command
      BY SuiteAssumption DEF SuiteTypeOK, Step
  <2> QED BY <1>2, <2>1, ApproveIsQuiet
<1>3. ASSUME NEW outcome \in Answers, RunCommand(outcome)
      PROVE  Quiet
  <2>1. outcome \in Outcome
      BY SuiteAssumption
  <2> QED BY <1>3, <2>1, RunCommandIsQuiet
<1> QED BY <1>1, <1>2, <1>3, RejectOrRetryIsQuiet DEF SuiteNext

LEMMA QuietKeepsInv ==
    ASSUME SuiteInv, Quiet
    PROVE  SuiteInv'
BY DEF SuiteInv, SuiteTypeOK, LatestRowIsOfLastFix, ReadyIsDraftable, ActivityReady,
       SuiteStatus, LatestRows, Quiet

\* The storing of a result: after an abort only the count of fixes grows; a
\* validation decides rows, a fix appends them, any other phase does neither.
LEMMA RecordResultCases ==
    ASSUME RecordResult
    PROVE  /\ step.status = "finished" /\ step' = NoStepYet /\ ticket' = ticket
           /\ fixes' = IF FixCompleted THEN fixes + 1 ELSE fixes
           /\ \/ /\ runStatus = "aborted"
                 /\ UNCHANGED <<runStatus, expectations, validated>>
              \/ LET passed == ValidationPassed(step.cmd, step.outcome)
                     rows == Decided(expectations, step.cmd, passed)
                 IN  /\ runStatus # "aborted" /\ step.phase = "validation"
                     /\ expectations' = rows
                     /\ validated' = (validated \/ passed)
                     /\ runStatus' =
                          IF step.outcome.status = "completed" /\ SuitePasses(rows, passed)
                          THEN "ready_for_activity" ELSE "validating"
              \/ /\ runStatus # "aborted" /\ FixCompleted
                 /\ expectations' = WithExpectations(expectations, step.cmd)
                 /\ runStatus' = "validating"
                 /\ validated' = validated
              \/ /\ runStatus # "aborted" /\ step.phase # "validation" /\ ~FixCompleted
                 /\ runStatus' \in {"failed", "investigating"}
                 /\ UNCHANGED <<expectations, validated>>
BY DEF RecordResult, FixCompleted

LEMMA RecordResultStep ==
    ASSUME SuiteInv, RecordResult
    PROVE  SuiteInv'
<1> DEFINE passed == ValidationPassed(step.cmd, step.outcome)
           rows == Decided(expectations, step.cmd, passed)
           more == WithExpectations(expectations, step.cmd)
<1>1. /\ SuiteTypeOK /\ LatestRowIsOfLastFix
      /\ step.cmd \in Command /\ passed \in BOOLEAN
      /\ expectations \in Seq(Expectation) /\ fixes \in Nat
    BY DEF SuiteInv, SuiteTypeOK, Step, ValidationPassed
<1>2. /\ ticket' \in Tickets /\ step' \in Step /\ fixes' \in Nat
    BY <1>1, RecordResultCases, NoStepYetType DEF SuiteTypeOK
<1>3. CASE runStatus = "aborted"
  <2>1. UNCHANGED <<runStatus, expectations, validated>>
      BY <1>3, RecordResultCases
  <2> QED BY <1>1, <1>2, <1>3, <2>1
          DEF SuiteInv, SuiteTypeOK, LatestRowIsOfLastFix, ReadyIsDraftable
<1>4. CASE runStatus # "aborted" /\ step.phase = "validation"
  <2>1. /\ expectations' = rows /\ validated' = (validated \/ passed) /\ fixes' = fixes
        /\ runStatus' = IF step.outcome.status = "completed" /\ SuitePasses(rows, passed)
                        THEN "ready_for_activity" ELSE "validating"
      BY <1>4, RecordResultCases DEF FixCompleted
  <2>2. /\ rows \in Seq(Expectation) /\ Len(rows) = Len(expectations)
        /\ \A i \in DOMAIN expectations : rows[i].fix = expectations[i].fix
      BY <1>1, DecidedType
  <2>3. validated' \in BOOLEAN /\ runStatus' \in RunStatus
      BY <1>1, <2>1 DEF SuiteTypeOK, RunStatus
  <2>4. SuiteTypeOK'
      BY <1>2, <2>1, <2>2, <2>3 DEF SuiteTypeOK
  <2> HIDE DEF passed, rows
  <2>5. LatestRowIsOfLastFix'
    <3>1. IF fixes = 0 THEN expectations = <<>>
          ELSE expectations # <<>> /\ expectations[Len(expectations)].fix = fixes
        BY <1>1, <1>4 DEF LatestRowIsOfLastFix
    <3>2. CASE fixes = 0
        BY <1>1, <2>1, <2>2, <3>1, <3>2 DEF LatestRowIsOfLastFix
    <3>3. CASE fixes # 0
      <4>1. Len(expectations) \in DOMAIN expectations
          BY <1>1, <3>1, <3>3
      <4>2. rows # <<>> /\ rows[Len(rows)].fix = fixes
          BY <1>1, <2>2, <3>1, <3>3, <4>1
      <4> QED BY <2>1, <3>3, <4>2 DEF LatestRowIsOfLastFix
    <3> QED BY <3>2, <3>3
  <2>6. ReadyIsDraftable'
    <3> SUFFICES ASSUME runStatus' = "ready_for_activity"
                 PROVE  ActivityReady'
        BY DEF ReadyIsDraftable
    <3>1. SuitePasses(rows, passed)
        BY <2>1
    <3>2. CASE rows = <<>>
        BY <2>1, <3>1, <3>2 DEF SuitePasses, ActivityReady
    <3>3. CASE rows # <<>>
        BY <2>1, <3>1, <3>3 DEF SuitePasses, ActivityReady, SuiteStatus, LatestRows
    <3> QED BY <3>2, <3>3
  <2> QED BY <2>4, <2>5, <2>6 DEF SuiteInv
<1>5. CASE runStatus # "aborted" /\ FixCompleted
  <2>1. /\ expectations' = more /\ validated' = validated /\ fixes' = fixes + 1
        /\ runStatus' = "validating"
      BY <1>5, RecordResultCases DEF FixCompleted
  <2>2. more \in Seq(Expectation) /\ Len(more) > Len(expectations)
        /\ more[Len(more)].fix = fixes + 1
      BY <1>1, WithExpectationsType
  <2> HIDE DEF more
  <2>3. more # <<>> /\ fixes + 1 # 0
      BY <1>1, <2>2
  <2>4. SuiteTypeOK'
      BY <1>1, <1>2, <2>1, <2>2 DEF SuiteTypeOK, RunStatus
  <2> QED BY <2>1, <2>2, <2>3, <2>4 DEF SuiteInv, LatestRowIsOfLastFix, ReadyIsDraftable
<1>6. CASE runStatus # "aborted" /\ step.phase # "validation" /\ ~FixCompleted
  <2>1. /\ UNCHANGED <<expectations, validated, fixes>>
        /\ runStatus' \in {"failed", "investigating"}
      BY <1>6, RecordResultCases
  <2> QED BY <1>1, <1>2, <1>6, <2>1
          DEF SuiteInv, SuiteTypeOK, RunStatus, LatestRowIsOfLastFix, ReadyIsDraftable
<1> QED BY <1>3, <1>4, <1>5, <1>6
-----------------------------------------------------------------------------
LEMMA SuiteStep ==
    ASSUME SuiteInv, SuiteNext \/ UNCHANGED suiteVars
    PROVE  SuiteInv'
BY QuietStep, QuietKeepsInv, RecordResultStep DEF SuiteInv

\* Types, the rows of the last fix, and: a run that is declared ready is one
\* whose activity can be drafted.
THEOREM SuiteInvCorrect == SuiteSpec => []SuiteInv
<1>1. SuiteInv /\ [SuiteNext]_suiteVars => SuiteInv'
    BY SuiteStep
<1> QED BY InitSuiteInv, <1>1, PTL DEF SuiteSpec

\* The drafting of the activity refuses no run that was declared ready.
THEOREM ReadyIsDraftableCorrect == SuiteSpec => []ReadyIsDraftable
BY SuiteInvCorrect, PTL DEF SuiteInv

LEMMA ReadyIsValidated ==
    ASSUME SuiteInv
    PROVE  ReadyMeansLatestFixValidated
<1> SUFFICES ASSUME runStatus = "ready_for_activity"
             PROVE  IF fixes = 0 THEN expectations = <<>> /\ validated
                    ELSE /\ \E i \in DOMAIN expectations : expectations[i].fix = fixes
                         /\ \A i \in DOMAIN expectations :
                              expectations[i].fix = fixes => expectations[i].status = "passed"
    BY DEF ReadyMeansLatestFixValidated
<1>1. ActivityReady /\ SuiteTypeOK
    BY DEF SuiteInv, ReadyIsDraftable
<1>2. IF fixes = 0 THEN expectations = <<>>
      ELSE expectations # <<>> /\ expectations[Len(expectations)].fix = fixes
    BY DEF SuiteInv, LatestRowIsOfLastFix
<1>3. CASE fixes = 0
    BY <1>1, <1>2, <1>3 DEF ActivityReady
<1>4. CASE fixes # 0
  <2>1. Len(expectations) \in DOMAIN expectations
      BY <1>1, <1>2, <1>4 DEF SuiteTypeOK
  <2>2. SuiteStatus(expectations) = "passed"
      BY <1>1, <1>2, <1>4 DEF ActivityReady
  <2> QED BY <1>2, <1>4, <2>1, <2>2 DEF SuiteStatus, LatestRows
<1> QED BY <1>3, <1>4

\* A run that is ready has passed every check of its latest completed fix.
THEOREM ReadyMeansLatestFixValidatedCorrect == SuiteSpec => []ReadyMeansLatestFixValidated
BY SuiteInvCorrect, ReadyIsValidated, PTL

\* A check that was decided, or belongs to an earlier fix, is never decided
\* again, and none disappears.
THEOREM DecidedChecksStayCorrect == SuiteSpec => DecidedChecksStay
<1> DEFINE Stays(i) ==
        \/ expectations'[i] = expectations[i]
        \/ expectations[i].fix = fixes /\ expectations[i].status = "pending"
<1>1. ASSUME SuiteInv, SuiteNext
      PROVE  /\ Len(expectations') >= Len(expectations)
             /\ \A i \in DOMAIN expectations : Stays(i)
  <2>1. SuiteTypeOK /\ expectations \in Seq(Expectation) /\ Len(expectations) \in Nat
      BY <1>1 DEF SuiteInv, SuiteTypeOK
  <2>2. CASE expectations' = expectations
      BY <2>1, <2>2
  <2>3. CASE RecordResult /\ expectations' # expectations /\ step.phase = "validation"
    <3> DEFINE passed == ValidationPassed(step.cmd, step.outcome)
    <3>1. expectations' = Decided(expectations, step.cmd, passed) /\ runStatus # "aborted"
        BY <2>3, RecordResultCases DEF FixCompleted
    <3>2. passed \in BOOLEAN
        BY DEF ValidationPassed
    <3>3. /\ Len(expectations') = Len(expectations)
          /\ \A i \in DOMAIN expectations :
                \/ expectations'[i] = expectations[i]
                \/ i \in LatestRows(expectations) /\ expectations[i].status = "pending"
        BY <2>1, <3>1, <3>2, DecidedType
    <3>4. \A i \in LatestRows(expectations) : expectations[i].fix = fixes
        BY <1>1, <2>1, <3>1 DEF SuiteInv, LatestRowIsOfLastFix, LatestRows
    <3> QED BY <2>1, <3>3, <3>4
  <2>4. CASE RecordResult /\ expectations' # expectations /\ step.phase # "validation"
    <3>1. expectations' = WithExpectations(expectations, step.cmd)
        BY <2>4, RecordResultCases
    <3>2. step.cmd \in Command
        BY <2>1 DEF SuiteTypeOK, Step
    <3>3. /\ Len(expectations') > Len(expectations)
          /\ \A i \in DOMAIN expectations : expectations'[i] = expectations[i]
        BY <2>1, <3>1, <3>2, WithExpectationsType
    <3>4. expectations' \in Seq(Expectation)
        BY <2>1, <3>1, <3>2, WithExpectationsType
    <3> QED BY <2>1, <3>3, <3>4
  <2> QED BY <1>1, <2>1, <2>2, <2>3, <2>4, QuietStep DEF Quiet
<1>2. SuiteInv /\ [SuiteNext]_suiteVars =>
        [/\ Len(expectations') >= Len(expectations)
         /\ \A i \in DOMAIN expectations :
              \/ expectations'[i] = expectations[i]
              \/ /\ expectations[i].fix = fixes
                 /\ expectations[i].status = "pending"]_suiteVars
    BY <1>1
<1> QED BY SuiteInvCorrect, <1>2, PTL DEF SuiteSpec, DecidedChecksStay

LEMMA OnlyResultsMakeReady ==
    ASSUME SuiteNext, runStatus' = "ready_for_activity"
    PROVE  RecordResult
BY DEF SuiteNext, Propose, Approve, Reject, RunCommand, RetryRun, AbortRun,
       IdleStatus, StatusForApproved

\* No failing check completes a suite.
THEOREM FailureCompletesNoSuiteCorrect == SuiteSpec => FailureCompletesNoSuite
<1>1. ASSUME SuiteInv, SuiteNext, runStatus' = "ready_for_activity",
             ~ValidationPassed(step.cmd, step.outcome)
      PROVE  expectations # <<>> /\ ActivityReady
  <2> DEFINE rows == Decided(expectations, step.cmd, FALSE)
  <2>1. SuiteTypeOK /\ expectations \in Seq(Expectation)
      BY <1>1 DEF SuiteInv, SuiteTypeOK
  <2>2. SuitePasses(rows, FALSE)
    <3>1. ValidationPassed(step.cmd, step.outcome) = FALSE
        BY <1>1 DEF ValidationPassed
    <3>2. RecordResult
        BY <1>1, OnlyResultsMakeReady
    <3> QED BY <1>1, <3>1, <3>2, RecordResultCases
  <2>3. /\ Len(rows) = Len(expectations) /\ rows \in Seq(Expectation)
        /\ \A i \in DOMAIN expectations :
             /\ rows[i].fix = expectations[i].fix
             /\ rows[i] = expectations[i]
                  \/ (i \in LatestRows(expectations) /\ rows[i].status = "failed")
      BY <2>1, DecidedType
  <2> HIDE DEF rows
  <2>4. rows # <<>> /\ expectations # <<>>
      BY <2>1, <2>2, <2>3 DEF SuitePasses
  <2>5. SuiteStatus(rows) = "passed"
      BY <2>2, <2>4 DEF SuitePasses
  <2>6. Len(expectations) \in DOMAIN expectations /\ DOMAIN rows = DOMAIN expectations
      BY <2>1, <2>3, <2>4
  <2>7. LatestRows(rows) = LatestRows(expectations)
      BY <2>3, <2>6 DEF LatestRows
  <2>8. \A i \in DOMAIN expectations : rows[i] = expectations[i]
      BY <2>3, <2>5, <2>7 DEF SuiteStatus
  <2>9. SuiteStatus(expectations) = "passed"
      BY <2>5, <2>7, <2>8 DEF SuiteStatus, LatestRows
  <2> QED BY <2>4, <2>9 DEF ActivityReady
<1>2. SuiteInv /\ [SuiteNext]_suiteVars =>
        [\/ runStatus' # "ready_for_activity"
         \/ ValidationPassed(step.cmd, step.outcome)
         \/ expectations # <<>> /\ ActivityReady]_suiteVars
    BY <1>1
<1> QED BY SuiteInvCorrect, <1>2, PTL DEF SuiteSpec, FailureCompletesNoSuite

\* A result that cannot be stored is a script's, or a fix's of a ticket that
\* demands one.
THEOREM UnstorableNeedsScriptCorrect == SuiteSpec => []UnstorableNeedsScript
<1>1. SuiteTypeOK => UnstorableNeedsScript
  <2> SUFFICES ASSUME SuiteTypeOK, ~Storable, ~ticket.script
               PROVE  CheckType(step.cmd) = "public_validation"
      BY DEF UnstorableNeedsScript
  <2>1. step.cmd \in Command
      BY DEF SuiteTypeOK, Step
  <2>2. \A i \in DOMAIN ExpectedChecks(step.cmd) :
          ExpectedChecks(step.cmd)[i].type \in StorableChecks
    <3>1. ExpectedChecks(step.cmd) \in Seq(CheckSpec(StorableChecks))
        BY <2>1, ExpectedChecksType
    <3> TAKE i \in DOMAIN ExpectedChecks(step.cmd)
    <3>2. ExpectedChecks(step.cmd)[i] \in CheckSpec(StorableChecks)
        BY <3>1, ElementOf
    <3> QED BY <3>2 DEF CheckSpec
  <2>3. CheckType(step.cmd) \notin StorableChecks
      BY <2>2 DEF Storable
  <2> QED BY <2>3 DEF CheckType, StorableChecks
<1> QED BY SuiteInvCorrect, <1>1, PTL DEF SuiteInv
-----------------------------------------------------------------------------
(* The policies and the ledgers.                                            *)

\* Verbs whose target is looked up among the files of the host.
FileVerbs == {"edit", "inline", "backup", "restore-inline"}

NamesFile(c) == c.verb \in FileVerbs => c.target \in Files

\* A command was to copy the file: it did, or it is known that it failed.
CopyTried(f) ==
    f \in failedCopies \/ copies[f] # "none" \/ inlineCopies[f] # "none"

RestoreIsKnown(record) ==
    /\ \/ record.restore = NoRestore
       \/ [phase |-> "diagnostic", cmd |-> record.restore] \in Restores
    /\ NamesFile(record.restore)

\* What a record called created is worth, by its kind.
RecordIsFounded(record) ==
    record.created =>
        /\ record.restore.verb = "restore" =>
              record.restore.target = record.source /\ ~IsSecret(record.source)
        /\ record.kind = "service_state" => record.source \in Services
        /\ record.kind = "file_copy" /\ record.source \in Files => CopyTried(record.source)

LedgerInv ==
    /\ backups \subseteq BackupRecord /\ evidence \subseteq Evidence
    /\ \A record \in backups : RestoreIsKnown(record) /\ RecordIsFounded(record)

StepInv ==
    /\ step.status # "none" => \E p \in Proposals \cup Restores : step.cmd = p.cmd
    /\ NamesFile(step.cmd)
    /\ step.status = "finished" =>
         /\ step.outcome \in Answers
         /\ step.cmd.verb \in {"inline", "backup"} => CopyTried(step.cmd.target)

\* The core: a file that is as before the run can have a copy of a later state
\* only beside a copy of the original, from which it was restored.
OriginalSurvives ==
    \A f \in Files :
        content[f] = "original" /\ "changed" \in {copies[f], inlineCopies[f]} =>
            "original" \in {copies[f], inlineCopies[f]}

HostInv ==
    /\ content \in [Files -> {"original", "changed"}]
    /\ copies \in [Files -> {"none", "original", "changed"}]
    /\ inlineCopies \in [Files -> {"none", "original", "changed"}]
    /\ failedCopies \subseteq Files
    /\ OriginalSurvives

PolicyInv ==
    SuiteInv /\ LedgerInv /\ StepInv /\ ApprovedStepMeetsPolicies /\ HostInv
-----------------------------------------------------------------------------
(* What a command adds to the ledgers.                                      *)

LEMMA VerbsDecideTargets ==
    ASSUME NEW c \in Command
    PROVE  /\ c.verb \in ServiceReads \cup ServiceChanges => c.target \in Services
           /\ c.verb \in FileReads \cup FileChanges \cup {"backup"} => c.target \in Paths
           /\ c.verb \in HostVerbs => c.target = NoTarget
           /\ c.verb \in ServiceReads \cup ServiceChanges \cup FileReads \cup FileChanges
                           \cup {"backup"} \cup HostVerbs
BY DEF Command, ServiceReads, ServiceChanges, FileReads, FileChanges, HostVerbs

LEMMA CommandForms ==
    /\ \A path \in Paths, verb \in FileReads \cup FileChanges \cup {"backup"} :
          Cmd(verb, path) \in Command
    /\ \A unit \in Services, verb \in ServiceReads \cup ServiceChanges :
          Cmd(verb, unit) \in Command
    /\ Cmd("prose", NoTarget) \in Command
BY DEF Cmd, Command, HostVerbs

LEMMA PlansType ==
    ASSUME NEW c \in Command, NamesFile(c), NEW record \in Plans(c)
    PROVE  /\ record \in BackupRecord /\ ~record.created
           /\ NamesFile(record.restore)
<1>1. PICK need \in Requirements(c) :
        record = Record(need.source, need.kind, FALSE, PlannedRestore(need))
    BY DEF Plans
<1>2. /\ need.source \in Paths \cup Services /\ need.kind \in BackupKinds
      /\ need.kind = "file_copy" => need.source \in Paths
  <2>1. CASE RestartsService(c)
    <3>1. need = [source |-> c.target, kind |-> "service_state"]
        BY <1>1, <2>1 DEF Requirements, RestartsService, ServiceChanges
    <3>2. c.target \in Services
        BY <2>1, VerbsDecideTargets DEF RestartsService
    <3> QED BY <3>1, <3>2 DEF BackupKinds
  <2>2. CASE ~RestartsService(c) /\ c.verb \in {"edit", "restore", "chmod"}
      BY <1>1, <2>2, VerbsDecideTargets DEF Requirements, BackupKinds, FileChanges
  <2>3. CASE ~RestartsService(c) /\ c.verb = "restore-inline"
      BY <1>1, <2>3 DEF Requirements, BackupKinds, NamesFile, FileVerbs, Paths
  <2>4. CASE ~RestartsService(c) /\ c.verb \notin {"edit", "restore", "chmod", "restore-inline"}
      BY <1>1, <2>4 DEF Requirements
  <2> QED BY <2>1, <2>2, <2>3, <2>4
<1>3. PlannedRestore(need) \in Command /\ NamesFile(PlannedRestore(need))
    BY <1>2, CommandForms DEF PlannedRestore, FileChanges, NamesFile, FileVerbs, Cmd
<1> QED BY <1>1, <1>2, <1>3 DEF Record, BackupRecord

LEMMA DetectedType ==
    ASSUME NEW c \in Command, NamesFile(c), NEW outcome,
           NEW record \in DetectedBackups(c, outcome)
    PROVE  /\ record \in BackupRecord
           /\ NamesFile(record.restore)
           /\ record.restore.verb = "restore" =>
                record.restore.target = record.source /\ ~IsSecret(record.source)
           /\ record.kind = "service_state" => record.source \in Services
           /\ record.kind = "file_copy" =>
                c.verb \in {"inline", "backup"} /\ record.source = c.target
<1> USE DEF BackupKinds, NamesFile, FileVerbs
<1>1. CASE c.verb = "inline"
  <2>1. record = Record(c.target, "file_copy", TRUE, Cmd("restore-inline", c.target))
      BY <1>1 DEF DetectedBackups
  <2>2. c.target \in Paths /\ Cmd("restore-inline", c.target) \in Command
      BY <1>1, VerbsDecideTargets, CommandForms DEF FileChanges
  <2> QED BY <1>1, <2>1, <2>2 DEF Cmd, Record, BackupRecord
<1>2. CASE c.verb = "backup" /\ ~IsSecret(c.target)
  <2>1. record = Record(c.target, "file_copy", TRUE, Cmd("restore", c.target))
      BY <1>2 DEF DetectedBackups
  <2>2. c.target \in Paths /\ Cmd("restore", c.target) \in Command
      BY <1>2, VerbsDecideTargets, CommandForms DEF FileChanges
  <2> QED BY <1>2, <2>1, <2>2 DEF Cmd, Record, BackupRecord
<1>3. CASE c.verb \in {"status", "show"}
  <2>1. PICK verb \in {"enable", "disable"} :
          record = Record(c.target, "service_state", TRUE, Cmd(verb, c.target))
      BY <1>3 DEF DetectedBackups
  <2>2. c.target \in Services /\ Cmd(verb, c.target) \in Command
      BY <1>3, VerbsDecideTargets, CommandForms DEF ServiceReads, ServiceChanges
  <2>3. /\ record.restore = Cmd(verb, c.target) /\ record.restore.verb = verb
        /\ record.source = c.target /\ record.kind = "service_state"
      BY <2>1 DEF Cmd, Record
  <2>4. record \in BackupRecord
      BY <2>1, <2>2 DEF Record, BackupRecord
  <2> QED BY <2>2, <2>3, <2>4
<1>4. CASE c.verb = "diff" /\ ~IsSecret(c.target)
  <2>1. record = Record(c.target, "config_dump", TRUE, Cmd("restore", c.target))
      BY <1>4 DEF DetectedBackups
  <2>2. c.target \in Paths /\ Cmd("restore", c.target) \in Command
      BY <1>4, VerbsDecideTargets, CommandForms DEF FileChanges, FileReads
  <2> QED BY <1>4, <2>1, <2>2 DEF Cmd, Record, BackupRecord
<1>5. CASE c.verb = "snapshot"
  <2>1. record = Record(c.target, "metadata_snapshot", TRUE, Cmd("restore-metadata", c.target))
      BY <1>5 DEF DetectedBackups
  <2>2. c.target \in Paths /\ Cmd("restore-metadata", c.target) \in Command
      BY <1>5, VerbsDecideTargets, CommandForms DEF FileChanges, FileReads
  <2> QED BY <1>5, <2>1, <2>2 DEF Cmd, Record, BackupRecord
<1>6. CASE /\ c.verb \notin {"inline", "status", "show", "snapshot"}
           /\ c.verb \in {"backup", "diff"} => IsSecret(c.target)
    BY <1>6 DEF DetectedBackups
<1> QED BY <1>1, <1>2, <1>3, <1>4, <1>5, <1>6

LEMMA EvidenceType ==
    ASSUME NEW c \in Command, NEW outcome, NEW phase
    PROVE  DetectedEvidence(c, outcome, phase) \subseteq Evidence
<1>1. SourceNames(c) \subseteq Services \cup Paths \cup HostVerbs
    BY VerbsDecideTargets DEF SourceNames, ServiceReads, FileReads, HostVerbs
<1>2. SupportOf(c, outcome, phase) \in Supports
    BY DEF SupportOf, Supports
<1> QED BY <1>1, <1>2 DEF DetectedEvidence, Evidence
-----------------------------------------------------------------------------
(* The steps, first as steps of the suite.                                  *)

\* A restore that is proposed is one of Restores.
LEMMA RestoreIsProposable ==
    ASSUME LedgerInv, NEW record \in backups, record.restore # NoRestore
    PROVE  /\ [phase |-> "diagnostic", cmd |-> record.restore] \in Restores
           /\ NamesFile(record.restore)
BY DEF LedgerInv, RestoreIsKnown

LEMMA StepImplements ==
    ASSUME LedgerInv, PolicyNext \/ UNCHANGED policyVars
    PROVE  SuiteNext \/ UNCHANGED suiteVars
<1>1. ASSUME NEW p \in Proposals, ProposeStep(p)
      PROVE  SuiteNext
    BY <1>1 DEF ProposeStep, SuiteNext
<1>2. ASSUME NEW c \in {step.cmd} \cup {p.cmd : p \in Proposals}, ApproveStep(c)
      PROVE  SuiteNext
    BY <1>2 DEF ApproveStep, SuiteNext
<1>3. ASSUME NEW record \in backups, ProposeRestore(record)
      PROVE  SuiteNext
    BY <1>3, RestoreIsProposable DEF ProposeRestore, ProposeStep, SuiteNext
<1>4. ASSUME NEW source \in Waivers, WaiveBackup(source)
      PROVE  UNCHANGED suiteVars
    BY <1>4 DEF WaiveBackup
<1>5. ASSUME NEW outcome \in Answers, Execute(outcome)
      PROVE  SuiteNext
    BY <1>5 DEF Execute, SuiteNext
<1>6. RecordStep \/ Reject \/ RetryRun \/ AbortRun => SuiteNext
    BY DEF RecordStep, SuiteNext
<1>7. UNCHANGED policyVars => UNCHANGED suiteVars
    BY DEF policyVars
<1> QED BY <1>1, <1>2, <1>3, <1>4, <1>5, <1>6, <1>7 DEF PolicyNext

LEMMA InitPolicyInv == PolicyInit => PolicyInv
<1> SUFFICES ASSUME PolicyInit PROVE PolicyInv
    OBVIOUS
<1>1. SuiteInv
    BY InitSuiteInv DEF PolicyInit
<1>2. step = NoStepYet
    BY DEF PolicyInit, SuiteInit
<1>3. StepInv /\ ApprovedStepMeetsPolicies
    BY <1>2 DEF StepInv, ApprovedStepMeetsPolicies, NoStepYet, NamesFile, FileVerbs, Cmd
<1>4. LedgerInv
    BY DEF PolicyInit, LedgerInv
<1>5. HostInv
    BY DEF PolicyInit, HostInv, OriginalSurvives
<1> QED BY <1>1, <1>3, <1>4, <1>5 DEF PolicyInv

\* The ledgers grow, the host stays: what was approved stays covered.
LEMMA GrowingLedgers ==
    ASSUME PolicyInv, UNCHANGED host, backups \subseteq backups', evidence \subseteq evidence'
    PROVE  /\ HostInv'
           /\ \A f : CopyTried(f)' <=> CopyTried(f)
           /\ UNCHANGED step => StepInv' /\ ApprovedStepMeetsPolicies'
           /\ step' = NoStepYet => StepInv' /\ ApprovedStepMeetsPolicies'
<1>1. UNCHANGED <<content, copies, inlineCopies, failedCopies>>
    BY DEF host
<1>2. HostInv' /\ \A f : CopyTried(f)' <=> CopyTried(f)
    BY <1>1 DEF PolicyInv, HostInv, OriginalSurvives, CopyTried
<1>3. UNCHANGED step => StepInv' /\ ApprovedStepMeetsPolicies'
    BY <1>2 DEF PolicyInv, StepInv, NamesFile, ApprovedStepMeetsPolicies
<1>4. step' = NoStepYet => StepInv' /\ ApprovedStepMeetsPolicies'
    BY DEF StepInv, ApprovedStepMeetsPolicies, NoStepYet, NamesFile, FileVerbs, Cmd
<1> QED BY <1>2, <1>3, <1>4

\* The records that are kept stay as founded as they were.
LEMMA KeptRecords ==
    ASSUME PolicyInv, UNCHANGED host, NEW record \in backups
    PROVE  record \in BackupRecord /\ RestoreIsKnown(record) /\ RecordIsFounded(record)'
BY DEF PolicyInv, LedgerInv, host, RecordIsFounded, CopyTried

LEMMA ProposeStepKeeps ==
    ASSUME PolicyInv, NEW p \in Proposals \cup Restores, NamesFile(p.cmd), ProposeStep(p)
    PROVE  LedgerInv' /\ StepInv' /\ ApprovedStepMeetsPolicies' /\ HostInv'
<1>1. p.cmd \in Command
    BY SuiteAssumption
<1>2. backups' = backups \cup Plans(p.cmd) /\ evidence' = evidence /\ UNCHANGED host
    BY DEF ProposeStep, host
<1>3. \A record \in Plans(p.cmd) :
        record \in BackupRecord /\ RestoreIsKnown(record) /\ RecordIsFounded(record)'
    BY <1>1, PlansType, PolicyAssumption DEF RestoreIsKnown, RecordIsFounded
<1>4. LedgerInv'
    BY <1>2, <1>3, KeptRecords DEF LedgerInv, RestoreIsKnown, PolicyInv
<1>5. HostInv'
    BY <1>2, GrowingLedgers
<1>6. CASE Blocked(p.cmd)
  <2>1. UNCHANGED step
      BY <1>6 DEF ProposeStep, Propose
  <2> QED BY <1>2, <1>4, <1>5, <2>1, GrowingLedgers
<1>7. CASE ~Blocked(p.cmd)
  <2>1. step' = [status |-> "proposed", phase |-> p.phase, cmd |-> p.cmd, outcome |-> NoOutcome]
      BY <1>7 DEF ProposeStep, Propose
  <2>2. StepInv' /\ ApprovedStepMeetsPolicies'
      BY <2>1 DEF StepInv, ApprovedStepMeetsPolicies, NamesFile
  <2> QED BY <1>4, <1>5, <2>2
<1> QED BY <1>6, <1>7

LEMMA WaiveBackupKeeps ==
    ASSUME PolicyInv, NEW source \in Waivers, WaiveBackup(source)
    PROVE  LedgerInv' /\ StepInv' /\ ApprovedStepMeetsPolicies' /\ HostInv'
<1> DEFINE waiver == Record(source, "not_applicable", FALSE, NoRestore)
<1>1. backups' = backups \cup {waiver} /\ UNCHANGED <<evidence, step>> /\ UNCHANGED host
    BY DEF WaiveBackup, suiteVars
<1>2. waiver \in BackupRecord
    BY PolicyAssumption DEF Record, BackupRecord, BackupKinds
<1>3. RestoreIsKnown(waiver) /\ RecordIsFounded(waiver)'
    BY DEF RestoreIsKnown, RecordIsFounded, Record, NoRestore, Cmd, NamesFile, FileVerbs
<1> HIDE DEF waiver
<1>4. LedgerInv'
    BY <1>1, <1>2, <1>3, KeptRecords DEF LedgerInv, RestoreIsKnown, PolicyInv
<1> QED BY <1>1, <1>4, GrowingLedgers

\* The result adds what the command and its answer tell; a copy that is filed
\* was tried.
LEMMA RecordStepKeeps ==
    ASSUME PolicyInv, RecordStep
    PROVE  LedgerInv' /\ StepInv' /\ ApprovedStepMeetsPolicies' /\ HostInv'
<1> DEFINE found == DetectedBackups(step.cmd, step.outcome)
<1>1. step.status = "finished" /\ step' = NoStepYet /\ UNCHANGED host
    BY DEF RecordStep, RecordResult
<1>2. /\ backups' = backups \/ backups' = backups \cup found
      /\ \/ evidence' = evidence
         \/ evidence' = evidence \cup DetectedEvidence(step.cmd, step.outcome, step.phase)
    BY DEF RecordStep, ledgers
<1>3. step.cmd \in Command /\ NamesFile(step.cmd) /\ step.outcome \in Answers
    BY <1>1 DEF PolicyInv, SuiteInv, SuiteTypeOK, Step, StepInv
<1>4. PICK p \in Proposals \cup Restores : step.cmd = p.cmd
    BY <1>1 DEF PolicyInv, StepInv
<1>5. ASSUME NEW record \in found
      PROVE  record \in BackupRecord /\ RestoreIsKnown(record) /\ RecordIsFounded(record)'
  <2>1. /\ record \in BackupRecord
        /\ NamesFile(record.restore)
        /\ record.restore.verb = "restore" =>
             record.restore.target = record.source /\ ~IsSecret(record.source)
        /\ record.kind = "service_state" => record.source \in Services
        /\ record.kind = "file_copy" =>
             step.cmd.verb \in {"inline", "backup"} /\ record.source = step.cmd.target
      BY <1>3, DetectedType
  <2>2. [phase |-> "diagnostic", cmd |-> record.restore] \in Restores
      BY <1>3, <1>4, PolicyAssumption
  <2>3. record.kind = "file_copy" => CopyTried(record.source)'
      BY <1>1, <2>1, GrowingLedgers, <1>2 DEF PolicyInv, StepInv
  <2> QED BY <2>1, <2>2, <2>3 DEF RestoreIsKnown, RecordIsFounded
<1> HIDE DEF found
<1>6. LedgerInv'
    BY <1>1, <1>2, <1>3, <1>5, KeptRecords, EvidenceType DEF LedgerInv, RestoreIsKnown, PolicyInv
<1> QED BY <1>1, <1>2, <1>6, GrowingLedgers

\* The approval reads the ledgers the policies are about.
LEMMA ApproveStepKeeps ==
    ASSUME PolicyInv, NEW c \in {step.cmd} \cup {p.cmd : p \in Proposals}, ApproveStep(c)
    PROVE  LedgerInv' /\ StepInv' /\ ApprovedStepMeetsPolicies' /\ HostInv'
<1>1. /\ UNCHANGED ledgers /\ UNCHANGED host
      /\ step.status = "proposed" /\ step' = [step EXCEPT !.status = "approved", !.cmd = c]
      /\ ~Blocked(c) /\ FixPolicyAllows(c) /\ BackupSatisfied(c)
    BY DEF ApproveStep, Approve
<1>2. backups' = backups /\ evidence' = evidence
    BY <1>1 DEF ledgers
<1>3. LedgerInv' /\ HostInv'
    BY <1>1, <1>2, KeptRecords, GrowingLedgers DEF LedgerInv, RestoreIsKnown, PolicyInv
<1>4. /\ step'.status = "approved" /\ step'.cmd = c /\ step'.phase = step.phase
      /\ step.cmd \in Command
    BY <1>1 DEF PolicyInv, SuiteInv, SuiteTypeOK, Step
<1>5. /\ c \in Command /\ NamesFile(c)
      /\ \E p \in Proposals \cup Restores : c = p.cmd
  <2>1. CASE c = step.cmd
      BY <1>1, <1>4, <2>1 DEF PolicyInv, StepInv
  <2>2. CASE c # step.cmd
    <3>1. PICK p \in Proposals : c = p.cmd
        BY <2>2
    <3>2. c \in Command
        BY <3>1, SuiteAssumption
    <3>3. NamesFile(c)
        BY <3>1, <3>2, PolicyAssumption, VerbsDecideTargets
        DEF NamesFile, FileVerbs, FileChanges
    <3> QED BY <3>1, <3>2, <3>3
  <2> QED BY <2>1, <2>2
<1>6. StepInv'
    BY <1>4, <1>5 DEF StepInv, NamesFile
<1>7. IsSecret(c.target) => c.verb \notin {"edit", "backup", "restore"}
    BY <1>1 DEF Blocked
<1> DEFINE Changes == c.verb \in {"edit", "chmod"} \cup ServiceChanges
<1>8. ASSUME Changes
      PROVE  RiskClass(c) \notin {"READ_ONLY", "BLOCKED"} /\ ~IsTargetedBackup(c)
    BY <1>1, <1>8 DEF RiskClass, ReadOnlyVerbs, IsTargetedBackup, ServiceChanges
<1>9. ASSUME Changes, step.phase = "fix"
      PROVE  \E e \in evidence : e.supports \in {"root_cause", "fix_choice"}
    BY <1>1, <1>8, <1>9 DEF FixPolicyAllows, Causes
<1>10. ASSUME Changes
       PROVE  \E record \in backups :
                /\ record.source = c.target
                /\ record.created \/ record.kind = "not_applicable"
  <2>1. \E need \in Requirements(c) : need.source = c.target
    <3>1. CASE RestartsService(c)
        BY <3>1 DEF Requirements, RestartsService, ServiceChanges
    <3>2. CASE ~RestartsService(c)
      <4>1. c.verb \in {"edit", "chmod"}
          BY <1>10, <3>2 DEF RestartsService
      <4>2. RiskClass(c) = "MEDIUM_RISK"
          BY <1>1, <4>1 DEF RiskClass, ReadOnlyVerbs, LowRiskVerbs
      <4> QED BY <3>2, <4>1, <4>2 DEF Requirements
    <3> QED BY <3>1, <3>2
  <2> QED BY <1>1, <2>1 DEF BackupSatisfied, Satisfies
<1>11. ApprovedStepMeetsPolicies'
    BY <1>2, <1>4, <1>7, <1>9, <1>10 DEF ApprovedStepMeetsPolicies
<1> QED BY <1>3, <1>6, <1>11

\* What running a command does to the copies and the files.
LEMMA HostStep ==
    ASSUME HostInv, NEW c, NamesFile(c), NEW outcome, HostRuns(c, outcome)
    PROVE  /\ HostInv'
           /\ \A f \in Files : CopyTried(f) => CopyTried(f)'
           /\ c.verb \in {"inline", "backup"} => CopyTried(c.target)'
           /\ \A f \in Files :
                content[f] = "original" /\ content'[f] = "changed" =>
                    \/ "original" \in {copies'[f], inlineCopies'[f]}
                    \/ c.verb = "edit" /\ c.target = f
<1> USE DEF HostInv, OriginalSurvives, CopyTried, NamesFile, FileVerbs
<1>1. failedCopies' = IF outcome.status # "completed" /\ c.verb \in {"backup", "inline"}
                      THEN failedCopies \cup {c.target} ELSE failedCopies
    BY DEF HostRuns
<1>2. failedCopies \subseteq failedCopies' /\ failedCopies' \subseteq Files
    BY <1>1
<1>3. CASE UNCHANGED <<content, copies, inlineCopies>> /\ outcome.status # "completed"
    BY <1>1, <1>2, <1>3
<1>4. CASE Possible(c) /\ Effect(c)
  <2>1. CASE c.verb = "edit"
    <3>1. /\ content' = [content EXCEPT ![c.target] = "changed"] /\ c.target \in Files
          /\ copies' = copies /\ inlineCopies' = inlineCopies
        BY <1>4, <2>1 DEF Effect
    <3> QED BY <1>2, <2>1, <3>1
  <2>2. CASE c.verb = "inline"
    <3>1. /\ content' = [content EXCEPT ![c.target] = "changed"] /\ c.target \in Files
          /\ copies' = copies
          /\ inlineCopies' = [inlineCopies EXCEPT ![c.target] = content[c.target]]
        BY <1>4, <2>2 DEF Effect
    <3> QED BY <1>2, <2>2, <3>1
  <2>3. CASE c.verb = "backup"
    <3>1. /\ copies' = [copies EXCEPT ![c.target] = content[c.target]] /\ c.target \in Files
          /\ content' = content /\ inlineCopies' = inlineCopies
        BY <1>4, <2>3 DEF Effect
    <3> QED BY <1>2, <2>3, <3>1
  <2>4. CASE c.verb = "restore"
    <3>1. /\ content' = [content EXCEPT ![c.target] = copies[c.target]]
          /\ c.target \in Files /\ copies[c.target] # "none"
          /\ copies' = copies /\ inlineCopies' = inlineCopies
        BY <1>4, <2>4 DEF Effect, Possible
    <3> QED BY <1>2, <2>4, <3>1
  <2>5. CASE c.verb = "restore-inline"
    <3>1. /\ content' = [content EXCEPT ![c.target] = inlineCopies[c.target]]
          /\ c.target \in Files /\ inlineCopies[c.target] # "none"
          /\ copies' = copies /\ inlineCopies' = inlineCopies
        BY <1>4, <2>5 DEF Effect, Possible
    <3> QED BY <1>2, <2>5, <3>1
  <2>6. CASE c.verb \notin {"edit", "inline", "backup", "restore", "restore-inline"}
    <3>1. UNCHANGED <<content, copies, inlineCopies>>
        BY <1>4, <2>6 DEF Effect
    <3> QED BY <1>2, <2>6, <3>1
  <2> QED BY <2>1, <2>2, <2>3, <2>4, <2>5, <2>6
<1> QED BY <1>3, <1>4 DEF HostRuns

LEMMA ExecuteKeeps ==
    ASSUME PolicyInv, NEW outcome \in Answers, Execute(outcome)
    PROVE  LedgerInv' /\ StepInv' /\ ApprovedStepMeetsPolicies' /\ HostInv'
<1>1. /\ step.status = "approved" /\ UNCHANGED ledgers /\ HostRuns(step.cmd, outcome)
      /\ step' = [step EXCEPT !.status = "finished", !.outcome = outcome]
    BY DEF Execute, RunCommand
<1>2. backups' = backups /\ evidence' = evidence
    BY <1>1 DEF ledgers
<1>3. /\ step'.status = "finished" /\ step'.cmd = step.cmd /\ step'.phase = step.phase
      /\ step'.outcome = outcome
    BY <1>1 DEF PolicyInv, SuiteInv, SuiteTypeOK, Step
<1>4. HostInv /\ NamesFile(step.cmd)
    BY DEF PolicyInv, StepInv
<1>5. /\ HostInv'
      /\ \A f \in Files : CopyTried(f) => CopyTried(f)'
      /\ step.cmd.verb \in {"inline", "backup"} => CopyTried(step.cmd.target)'
    BY <1>1, <1>4, HostStep
<1>6. LedgerInv'
    BY <1>2, <1>5 DEF PolicyInv, LedgerInv, RestoreIsKnown, RecordIsFounded
<1>7. StepInv'
    BY <1>1, <1>3, <1>5 DEF PolicyInv, StepInv, NamesFile
<1>8. ApprovedStepMeetsPolicies'
    BY <1>1, <1>2, <1>3 DEF PolicyInv, ApprovedStepMeetsPolicies
<1> QED BY <1>5, <1>6, <1>7, <1>8

\* Rejecting, retrying and aborting leave the ledgers and the host alone.
LEMMA QuietPolicyStep ==
    ASSUME PolicyInv, UNCHANGED ledgers, UNCHANGED host,
           Reject \/ RetryRun \/ AbortRun \/ UNCHANGED suiteVars
    PROVE  LedgerInv' /\ StepInv' /\ ApprovedStepMeetsPolicies' /\ HostInv'
<1>1. step' = step \/ step' = NoStepYet
    BY DEF Reject, RetryRun, AbortRun, suiteVars
<1>2. backups' = backups /\ evidence' = evidence
    BY DEF ledgers
<1>3. LedgerInv'
    BY <1>2, KeptRecords DEF LedgerInv, RestoreIsKnown, PolicyInv
<1> QED BY <1>1, <1>2, <1>3, GrowingLedgers
-----------------------------------------------------------------------------
\* The inductive invariant of the policies, their ledgers and the host.
THEOREM PolicyInvCorrect == PolicySpec => []PolicyInv
<1>1. PolicyInv /\ [PolicyNext]_policyVars => PolicyInv'
  <2> SUFFICES ASSUME PolicyInv, [PolicyNext]_policyVars PROVE PolicyInv'
      OBVIOUS
  <2>1. SuiteInv'
      BY StepImplements, SuiteStep DEF PolicyInv
  <2>2. LedgerInv' /\ StepInv' /\ ApprovedStepMeetsPolicies' /\ HostInv'
    <3>1. ASSUME NEW p \in Proposals, ProposeStep(p)
          PROVE  LedgerInv' /\ StepInv' /\ ApprovedStepMeetsPolicies' /\ HostInv'
      <4>1. NamesFile(p.cmd)
          BY SuiteAssumption, PolicyAssumption, VerbsDecideTargets
          DEF NamesFile, FileVerbs, FileChanges
      <4> QED BY <3>1, <4>1, ProposeStepKeeps
    <3>2. ASSUME NEW record \in backups, ProposeRestore(record)
          PROVE  LedgerInv' /\ StepInv' /\ ApprovedStepMeetsPolicies' /\ HostInv'
      <4> DEFINE restore == [phase |-> "diagnostic", cmd |-> record.restore]
      <4>1. restore \in Restores /\ NamesFile(restore.cmd) /\ ProposeStep(restore)
          BY <3>2, RestoreIsProposable DEF ProposeRestore, PolicyInv
      <4> HIDE DEF restore
      <4> QED BY <4>1, ProposeStepKeeps
    <3>3. CASE UNCHANGED policyVars
        BY <3>3, QuietPolicyStep DEF policyVars
    <3> QED BY <3>1, <3>2, <3>3, ApproveStepKeeps, WaiveBackupKeeps, ExecuteKeeps,
               RecordStepKeeps, QuietPolicyStep DEF PolicyNext
  <2> QED BY <2>1, <2>2 DEF PolicyInv
<1> QED BY InitPolicyInv, <1>1, PTL DEF PolicySpec

\* What reaches the host met the policies when it was approved, and does still.
THEOREM ApprovedStepMeetsPoliciesCorrect == PolicySpec => []ApprovedStepMeetsPolicies
BY PolicyInvCorrect, PTL DEF PolicyInv

\* The ledgers and the policies only restrict the suite: whatever is proved of
\* SuiteSpec holds with them.
THEOREM PoliciesImplementSuite == PolicySpec => SuiteSpec
<1>1. PolicyInit => SuiteInit
    BY DEF PolicyInit
<1>2. PolicyInv /\ [PolicyNext]_policyVars => [SuiteNext]_suiteVars
    BY StepImplements DEF PolicyInv
<1> QED BY PolicyInvCorrect, <1>1, <1>2, PTL DEF PolicySpec, SuiteSpec

\* Every variable keeps its type.
THEOREM PolicyTypeCorrect == PolicySpec => []PolicyTypeOK
<1>1. PolicyInv => PolicyTypeOK
    BY DEF PolicyInv, SuiteInv, LedgerInv, HostInv, PolicyTypeOK
<1> QED BY PolicyInvCorrect, <1>1, PTL

\* A backup under /var/backups can be restored: the restore passes the safety
\* layer, and its own record is the one the approval asks for.
THEOREM RestoreIsApprovableCorrect == PolicySpec => []RestoreIsApprovable
<1>1. LedgerInv => RestoreIsApprovable
  <2> SUFFICES ASSUME LedgerInv, NEW record \in backups,
                      record.created, record.restore.verb = "restore"
               PROVE  ~Blocked(record.restore) /\ BackupSatisfied(record.restore)
      BY DEF RestoreIsApprovable
  <2>1. record.restore.target = record.source /\ ~IsSecret(record.source)
      BY DEF LedgerInv, RecordIsFounded
  <2>2. ~Blocked(record.restore)
      BY <2>1 DEF Blocked
  <2>3. Requirements(record.restore)
          \subseteq {[source |-> record.source, kind |-> "file_copy"]}
      BY <2>1 DEF Requirements, RestartsService, ServiceChanges
  <2> QED BY <2>2, <2>3 DEF BackupSatisfied, Satisfies
<1> QED BY PolicyInvCorrect, <1>1, PTL DEF PolicyInv

\* When a file changes for the first time its original exists as a copy, unless
\* the ledger or the failed copy says why not.
THEOREM FirstChangeIsCoveredCorrect == PolicySpec => FirstChangeIsCovered
<1> DEFINE Covered(f) ==
        \/ "original" \in {copies'[f], inlineCopies'[f]}
        \/ f \in failedCopies'
        \/ \E record \in backups :
              /\ record.source = f
              /\ record.kind \in {"not_applicable", "metadata_snapshot", "config_dump"}
<1>1. ASSUME PolicyInv, PolicyNext, NEW f \in Files,
             content[f] = "original", content'[f] = "changed"
      PROVE  Covered(f)
  <2>1. PICK outcome \in Answers : Execute(outcome)
      BY <1>1 DEF PolicyNext, ProposeStep, ApproveStep, ProposeRestore, WaiveBackup,
                  RecordStep, host
  <2>2. /\ step.status = "approved" /\ HostRuns(step.cmd, outcome)
        /\ HostInv /\ NamesFile(step.cmd)
      BY <1>1, <2>1 DEF Execute, RunCommand, PolicyInv, StepInv
  <2>3. \/ "original" \in {copies'[f], inlineCopies'[f]}
        \/ step.cmd.verb = "edit" /\ step.cmd.target = f
      BY <1>1, <2>2, HostStep
  <2>4. CASE step.cmd.verb = "edit" /\ step.cmd.target = f
    <3>1. PICK record \in backups :
            record.source = f /\ (record.created \/ record.kind = "not_applicable")
        BY <1>1, <2>2, <2>4 DEF PolicyInv, ApprovedStepMeetsPolicies
    <3>2. record.kind \in BackupKinds /\ RecordIsFounded(record)
        BY <1>1 DEF PolicyInv, LedgerInv, BackupRecord
    <3>3. f \notin Services
        BY CommandsAssumption
    <3>4. CASE record.created /\ record.kind = "file_copy"
      <4>1. CopyTried(f)
          BY <3>1, <3>2, <3>4 DEF RecordIsFounded
      <4>2. /\ copies[f] \in {"none", "original", "changed"}
            /\ inlineCopies[f] \in {"none", "original", "changed"}
            /\ "changed" \in {copies[f], inlineCopies[f]} =>
                 "original" \in {copies[f], inlineCopies[f]}
          BY <1>1, <2>2 DEF HostInv, OriginalSurvives
      <4>3. f \in failedCopies \/ "original" \in {copies[f], inlineCopies[f]}
          BY <4>1, <4>2 DEF CopyTried
      <4>4. /\ failedCopies \subseteq failedCopies'
            /\ copies' = copies /\ inlineCopies' = inlineCopies
          BY <2>2, <2>4 DEF HostRuns, Effect
      <4> QED BY <4>3, <4>4
    <3> QED BY <3>1, <3>2, <3>3, <3>4 DEF BackupKinds, RecordIsFounded
  <2> QED BY <2>3, <2>4
<1>2. PolicyInv /\ [PolicyNext]_policyVars =>
        [\A f \in Files :
           content[f] = "original" /\ content'[f] = "changed" =>
              \/ "original" \in {copies'[f], inlineCopies'[f]}
              \/ f \in failedCopies'
              \/ \E record \in backups :
                   /\ record.source = f
                   /\ record.kind \in {"not_applicable", "metadata_snapshot", "config_dump"}
        ]_policyVars
    BY <1>1
<1> QED BY PolicyInvCorrect, <1>2, PTL DEF PolicySpec, FirstChangeIsCovered
=============================================================================
