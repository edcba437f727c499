------------------------------- MODULE Policy -------------------------------
(***************************************************************************)
(* The policies an approval must satisfy and the ledgers they read: the     *)
(* evidence that earlier commands have left (inspected_sources) and the     *)
(* backup records, beside the files of the host the records speak of.       *)
(*                                                                          *)
(* Policy adds to each action of ValidationSuite what the same transaction  *)
(* does to the ledgers, so that PolicySpec implements SuiteSpec.            *)
(***************************************************************************)
EXTENDS ValidationSuite

CONSTANT Waivers  \* what a technician may declare to need no backup

VARIABLES
    backups,      \* backup_records
    evidence,     \* inspected_sources
    content,      \* the host's files: is each known to be what it was before the
                  \* run?  Whether a change repairs or spoils is not told apart.
    copies,       \* the copies under /var/backups/techbold-autopilot
    inlineCopies, \* the copies sed left beside the files
    failedCopies  \* history: files whose copying command did not complete

ledgers == <<backups, evidence>>
host == <<content, copies, inlineCopies, failedCopies>>
policyVars == <<suiteVars, ledgers, host>>

BackupKinds == {"file_copy", "metadata_snapshot", "service_state",
                "config_dump", "not_applicable"}

NoRestore == Cmd("none", NoTarget)

\* "created" is backup_created, FALSE in a plan and in a waiver.
BackupRecord == [source : Paths \cup Services, kind : BackupKinds,
                 created : BOOLEAN, restore : Command \cup {NoRestore}]

Record(source, kind, created, restore) ==
    [source |-> source, kind |-> kind, created |-> created, restore |-> restore]

Supports == {"validation", "root_cause", "fix_choice", "hypothesis"}

\* A source is named by a unit, a path or, for the whole host, by its verb.
Evidence == [name : Services \cup Paths \cup HostVerbs, supports : Supports]
-----------------------------------------------------------------------------
(* backup_service.py.                                                       *)

\* backup_requirement_for_command: what a command needs a backup of, and of
\* which kind.  Copies, "inline" and whatever changes nothing need none.  The
\* source of a cp is its first path outside the backup directories.
Requirements(c) ==
    CASE RestartsService(c) ->
            {[source |-> c.target, kind |-> "service_state"]}
      [] RiskClass(c) = "MEDIUM_RISK" /\ c.verb \in {"edit", "restore"} ->
            {[source |-> c.target, kind |-> "file_copy"]}
      [] RiskClass(c) = "MEDIUM_RISK" /\ c.verb = "restore-inline" ->
            {[source |-> InlineCopy(c.target), kind |-> "file_copy"]}
      [] RiskClass(c) = "MEDIUM_RISK" /\ c.verb = "chmod" ->
            {[source |-> c.target, kind |-> "metadata_snapshot"]}
      [] OTHER -> {}

\* backup_plan_for_requirement: only for a file is the planned restore a
\* command, for a unit and for metadata it is a sentence.
PlannedRestore(need) ==
    IF need.kind = "file_copy" THEN Cmd("restore", need.source)
    ELSE Cmd("prose", NoTarget)

Plans(c) ==
    {Record(need.source, need.kind, FALSE, PlannedRestore(need)) :
       need \in Requirements(c)}

\* Mutant: a copy is filed under the path of the copy.
DetectedByCopyPath(c, outcome) ==
    IF c.verb = "backup"
    THEN {Record(InlineCopy(c.target), "file_copy", TRUE, Cmd("restore", c.target))}
    ELSE {}

\* detect_backup_record: what a command and its output say of a backup.  The
\* exit code is not looked at.  The snapshots need the lines they parse.
DetectedBackups(c, outcome) ==
    CASE c.verb = "inline" ->
            {Record(c.target, "file_copy", TRUE, Cmd("restore-inline", c.target))}
      [] c.verb = "backup" /\ ~IsSecret(c.target) ->
            {Record(c.target, "file_copy", TRUE, Cmd("restore", c.target))}
      [] c.verb \in {"status", "show"} /\ outcome.sign # "plain" ->
            {Record(c.target, "service_state", TRUE,
                    Cmd(IF outcome.sign = "good" THEN "enable" ELSE "disable", c.target))}
      [] c.verb = "diff" /\ ~IsSecret(c.target) /\ outcome.sign # "plain" ->
            {Record(c.target, "config_dump", TRUE, Cmd("restore", c.target))}
      [] c.verb = "snapshot" /\ outcome.sign = "good" ->
            {Record(c.target, "metadata_snapshot", TRUE, Cmd("restore-metadata", c.target))}
      [] OTHER -> {}

\* backup_record_satisfies does not compare the kinds.
Satisfies(record, need) ==
    record.source = need.source /\ (record.kind = "not_applicable" \/ record.created)

IsTargetedBackup(c) == c.verb \in {"inline", "backup"} /\ ~(c.verb = "backup" /\ IsSecret(c.target))

\* Mutant: the requirement of the command before the edit counts.
BackupSatisfiedBeforeEdit(c) ==
    \A need \in Requirements(step.cmd) : \E record \in backups : Satisfies(record, need)

\* _assert_backup_requirement_satisfied.
BackupSatisfied(c) ==
    \A need \in Requirements(c) : \E record \in backups : Satisfies(record, need)

\* The technician's own commands name files, not their copies; Restores holds
\* what the records of all commands can propose.
ASSUME PolicyAssumption ==
    /\ Waivers \subseteq Paths \cup Services
    /\ \A p \in Proposals : p.cmd.target \in Paths => p.cmd.target \in Files
    /\ \A p \in Proposals \cup Restores :
         \A record \in Plans(p.cmd)
                       \cup UNION {DetectedBackups(p.cmd, outcome) : outcome \in Answers} :
            [phase |-> "diagnostic", cmd |-> record.restore] \in Restores
-----------------------------------------------------------------------------
(* evidence_detector.py.  Changes are run with sudo -n, which the detector  *)
(* does not unwrap: they leave no evidence.                                 *)

SourceNames(c) ==
    CASE c.verb \in {"status", "is-active", "journal", "journal-recent", "journal-wide"}
           \cup {"port", "snapshot"} -> {c.target}
      [] c.verb \in {"curl", "curl-body", "configtest", "failed", "df", "free",
                     "ss", "ss-owners", "ps", "stat"} -> {c.verb}
      [] OTHER -> {}

SupportOf(c, outcome, phase) ==
    CASE c.verb = "port" /\ outcome.sign = "good" -> "fix_choice"
      [] phase = "validation" \/ c.verb \in {"is-active", "curl", "curl-body"} -> "validation"
      [] outcome.sign = "bad" -> "root_cause"
      [] phase = "fix" -> "fix_choice"
      [] OTHER -> "hypothesis"

DetectedEvidence(c, outcome, phase) ==
    {[name |-> name, supports |-> SupportOf(c, outcome, phase)] : name \in SourceNames(c)}

\* Mutant: evidence of any kind will do.
CausesFromAny == evidence

Causes == {e \in evidence : e.supports \in {"root_cause", "fix_choice"}}

\* The names of the evidence and the unit the ticket speaks of.
RelatedServices ==
    {e.name : e \in Causes} \cup ({ticket.service} \ {NoTarget})

\* _assert_fix_policy: a change in phase "fix" rests on evidence of the cause,
\* and a unit it acts on belongs to that evidence.
FixPolicyAllows(c) ==
    \/ step.phase # "fix"
    \/ RiskClass(c) = "READ_ONLY"
    \/ IsTargetedBackup(c)
    \/ Causes # {} /\ (RestartsService(c) => c.target \in RelatedServices)
-----------------------------------------------------------------------------
(* The host.  A command that completes has its effect, one that does not    *)
(* may have had it.                                                         *)

\* Nothing copies a copy, so none can be restored.
Possible(c) ==
    /\ c.verb = "restore" => c.target \in Files /\ copies[c.target] # "none"
    /\ c.verb = "restore-inline" => inlineCopies[c.target] # "none"

\* What becomes of the files; of the units no policy and no ledger knows.
Effect(c) ==
    /\ content' =
         CASE c.verb \in {"edit", "inline"} -> [content EXCEPT ![c.target] = "changed"]
           [] c.verb = "restore" -> [content EXCEPT ![c.target] = copies[c.target]]
           [] c.verb = "restore-inline" -> [content EXCEPT ![c.target] = inlineCopies[c.target]]
           [] OTHER -> content
    /\ copies' = IF c.verb = "backup"
                 THEN [copies EXCEPT ![c.target] = content[c.target]] ELSE copies
    /\ inlineCopies' = IF c.verb = "inline"
                       THEN [inlineCopies EXCEPT ![c.target] = content[c.target]]
                       ELSE inlineCopies

HostRuns(c, outcome) ==
    /\ \/ Possible(c) /\ Effect(c)
       \/ outcome.status # "completed" /\ UNCHANGED <<content, copies, inlineCopies>>
    /\ failedCopies' = IF outcome.status # "completed" /\ c.verb \in {"backup", "inline"}
                       THEN failedCopies \cup {c.target} ELSE failedCopies
-----------------------------------------------------------------------------
PolicyInit ==
    /\ SuiteInit
    /\ backups = {}
    /\ evidence = {}
    /\ content = [f \in Files |-> "original"]
    /\ copies = [f \in Files |-> "none"]
    /\ inlineCopies = [f \in Files |-> "none"]
    /\ failedCopies = {}

\* _create_step records the plan of the backup its command will need.
ProposeStep(p) ==
    /\ Propose(p)
    /\ backups' = backups \cup Plans(p.cmd)
    /\ UNCHANGED <<evidence, host>>

\* Mutant: a restore needs no approval.
ProposeRestoreApproved(record) ==
    /\ record.restore # NoRestore
    /\ step.status = "none"
    /\ runStatus' = "executing"
    /\ step' = [status |-> "approved", phase |-> "diagnostic",
                cmd |-> record.restore, outcome |-> NoOutcome]
    /\ UNCHANGED <<ticket, expectations, fixes, validated, ledgers, host>>

\* propose_restore_command, from a plan too; its phase "restore" is treated
\* like a diagnosis everywhere.
ProposeRestore(record) ==
    /\ record.restore # NoRestore
    /\ ProposeStep([phase |-> "diagnostic", cmd |-> record.restore])

ApproveStep(c) ==
    /\ FixPolicyAllows(c)
    /\ BackupSatisfied(c)
    /\ Approve(c)
    /\ UNCHANGED <<ledgers, host>>

\* record_backup_not_applicable, in any state of the run.
WaiveBackup(source) ==
    /\ backups' = backups \cup {Record(source, "not_applicable", FALSE, NoRestore)}
    /\ UNCHANGED <<suiteVars, evidence, host>>

Execute(outcome) ==
    /\ RunCommand(outcome)
    /\ HostRuns(step.cmd, outcome)
    /\ UNCHANGED ledgers

\* The ledgers are written for an aborted run too, if the host has answered.
RecordStep ==
    /\ RecordResult
    /\ IF RemoteStarted(step.outcome)
       THEN /\ backups' = backups \cup DetectedBackups(step.cmd, step.outcome)
            /\ evidence' = evidence \cup
                 DetectedEvidence(step.cmd, step.outcome, step.phase)
       ELSE UNCHANGED ledgers
    /\ UNCHANGED host

PolicyNext ==
    \/ \E p \in Proposals : ProposeStep(p)
    \/ \E c \in {step.cmd} \cup {p.cmd : p \in Proposals} : ApproveStep(c)
    \/ \E record \in backups : ProposeRestore(record)
    \/ \E source \in Waivers : WaiveBackup(source)
    \/ Reject /\ UNCHANGED <<ledgers, host>>
    \/ \E outcome \in Answers : Execute(outcome)
    \/ RecordStep
    \/ RetryRun /\ UNCHANGED <<ledgers, host>>
    \/ AbortRun /\ UNCHANGED <<ledgers, host>>

PolicySpec == PolicyInit /\ [][PolicyNext]_policyVars
-----------------------------------------------------------------------------
(* Properties.                                                              *)

\* Every variable keeps its type.
PolicyTypeOK ==
    /\ SuiteTypeOK
    /\ backups \subseteq BackupRecord
    /\ evidence \subseteq Evidence
    /\ content \in [Files -> {"original", "changed"}]
    /\ copies \in [Files -> {"none", "original", "changed"}]
    /\ inlineCopies \in [Files -> {"none", "original", "changed"}]
    /\ failedCopies \subseteq Files

\* What reaches the host, edited before its approval or not: secret files are
\* neither edited nor copied, a fix that changes something rests on evidence of
\* the cause, and what it changes has a record or a waiver in the ledger.
ApprovedStepMeetsPolicies ==
    step.status \in {"approved", "finished"} =>
        /\ IsSecret(step.cmd.target) => step.cmd.verb \notin {"edit", "backup", "restore"}
        /\ \/ step.phase # "fix"
           \/ step.cmd.verb \notin {"edit", "chmod"} \cup ServiceChanges
           \/ \E e \in evidence : e.supports \in {"root_cause", "fix_choice"}
        /\ \/ step.cmd.verb \notin {"edit", "chmod"} \cup ServiceChanges
           \/ \E record \in backups :
                 /\ record.source = step.cmd.target
                 /\ record.created \/ record.kind = "not_applicable"

\* When a file changes for the first time its original exists as a copy,
\* unless the technician waived the backup, the record is of another kind, or
\* the command that was to copy it did not complete: that is all that a record
\* called created is worth.
FirstChangeIsCovered ==
    [][\A f \in Files :
         content[f] = "original" /\ content'[f] = "changed" =>
            \/ "original" \in {copies'[f], inlineCopies'[f]}
            \/ f \in failedCopies'
            \/ \E record \in backups :
                 /\ record.source = f
                 /\ record.kind \in {"not_applicable", "metadata_snapshot", "config_dump"}
      ]_policyVars

\* A backup under /var/backups can be restored: the safety layer lets the
\* restore through, and its own record is the one the approval asks for.
RestoreIsApprovable ==
    \A record \in backups :
        record.created /\ record.restore.verb = "restore" =>
            /\ ~Blocked(record.restore)
            /\ BackupSatisfied(record.restore)
=============================================================================
