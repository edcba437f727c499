------------------------------ MODULE Commands ------------------------------
(***************************************************************************)
(* The SSH commands of a run, as the back end tells them apart: what the    *)
(* safety layer, the backup service, the evidence detector and the checks   *)
(* of the validation suite derive from the text of a command.               *)
(*                                                                          *)
(* A command is a verb and a target.  The verbs stand for command lines:    *)
(*   service    "cat" = systemctl cat, "journal" = journalctl -u,           *)
(*              the others = systemctl <verb> [--now], sudo -n or not       *)
(*   file       "edit" = sed -i, "inline" = sed -i.techbold-prechange,      *)
(*              "port" = grep -E '^PORT=[0-9]+$', "snapshot" = stat -c with *)
(*              owner=.. group=.. mode=.. size=.. mtime=.., "backup" =      *)
(*              cp -a FILE /var/backups/techbold-autopilot/..,              *)
(*              "restore" = the reverse, "restore-inline" = cp -a of the    *)
(*              copy an "inline" left beside the file, "restore-metadata" = *)
(*              chown .. && chmod ..                                        *)
(*   host       "curl", "script" = /path/check.sh, "prose" = a sentence in  *)
(*              place of a command, and diagnostics of the whole host       *)
(***************************************************************************)
EXTENDS Naturals, Sequences, FiniteSets

CONSTANTS
    Services,     \* systemd units
    Files,        \* paths under /etc
    SecretFiles,  \* those whose path contains ".env"
    NoTarget,     \* no unit and no path
    Mentions      \* of a command: the known unit whose name is in its text,
                  \* in a path of /etc/nginx say

ASSUME CommandsAssumption ==
    /\ SecretFiles \subseteq Files
    /\ Services \cap Files = {}
    /\ NoTarget \notin Services \cup Files

\* The copy that sed -i.techbold-prechange leaves beside the file.
InlineCopy(f) == <<"inline", f>>
Paths == Files \cup {InlineCopy(f) : f \in Files}

ServiceReads == {"status", "show", "is-active", "journal", "journal-recent",
                 "journal-wide", "cat", "list-dependencies"}
ServiceChanges == {"restart", "enable", "disable"}
FileReads == {"port", "diff", "snapshot"}
FileChanges == {"edit", "inline", "chmod", "restore", "restore-inline",
                "restore-metadata"}
HostVerbs == {"curl", "curl-body", "script", "prose", "df", "free", "ss",
              "ss-owners", "stat", "failed", "list-units", "list-sockets",
              "list-unit-files", "ps", "configtest"}

Command ==
    [verb : ServiceReads \cup ServiceChanges, target : Services]
        \cup [verb : FileReads \cup FileChanges \cup {"backup"}, target : Paths]
        \cup [verb : HostVerbs, target : {NoTarget}]

Cmd(verb, target) == [verb |-> verb, target |-> target]

ASSUME MentionsAssumption == Mentions \in [Command -> Services \cup {NoTarget}]

\* The commands in which a unit is recognised, known or not.
NamingVerbs ==
    {"status", "is-active", "journal", "journal-recent", "journal-wide"} \cup ServiceChanges
-----------------------------------------------------------------------------
(* safety_layer.py: classify_command.                                       *)

IsSecret(path) == path \in SecretFiles \/ \E f \in SecretFiles : path = InlineCopy(f)

\* The hard blocks: secret material read or archived, and "&&".  The one
\* narrow exception for PORT settings covers "port" and "inline".
Blocked(c) ==
    \/ c.verb = "edit" /\ IsSecret(c.target)
    \/ c.verb \in {"backup", "restore", "restore-inline"} /\ IsSecret(c.target)
    \/ c.verb = "restore-metadata"

ReadOnlyVerbs == {"status", "show", "is-active", "journal", "journal-recent",
                  "journal-wide", "port", "snapshot", "curl", "curl-body",
                  "df", "free", "ss", "ss-owners", "stat", "failed",
                  "list-units", "configtest"}

\* Restarts are low risk by name; other systemctl verbs are "bounded but need
\* review"; whatever no pattern names is of medium risk.
LowRiskVerbs == {"restart", "cat", "list-dependencies", "list-sockets",
                 "list-unit-files"}

RiskClass(c) ==
    CASE Blocked(c) -> "BLOCKED"
      [] ~Blocked(c) /\ c.verb \in ReadOnlyVerbs -> "READ_ONLY"
      [] ~Blocked(c) /\ c.verb \in LowRiskVerbs -> "LOW_RISK"
      [] OTHER -> "MEDIUM_RISK"
-----------------------------------------------------------------------------
(* What a command can answer.  The sign abstracts the output: "good" says   *)
(* active, 200 OK or syntax is ok, "bad" says failed, inactive, dead,       *)
(* refused or error, "plain" neither.                                       *)

Signs == {"good", "bad", "plain"}

\* "unreached": the runner failed before the host produced an exit code or
\* output; then there is no output either.
Outcome ==
    [status : {"completed", "failed", "timed_out"}, sign : Signs]
        \cup [status : {"unreached"}, sign : {"plain"}]

RemoteStarted(outcome) == outcome.status # "unreached"
-----------------------------------------------------------------------------
(* run_store.py: the checks a command can count as.                         *)

CheckType(c) ==
    CASE c.verb = "script" -> "public_validation"
      [] c.verb \in {"is-active", "status"} -> "service_health"
      [] c.verb \in {"curl", "curl-body", "ss", "ss-owners"} -> "customer_benefit"
      [] c.verb \in {"journal", "journal-recent", "journal-wide"} -> "logs_clean"
      [] c.verb \in {"restart", "show"} -> "persistence"
      [] OTHER -> "other"

\* The check constraints of validation_results and validation_expectations.
StorableChecks == {"service_health", "customer_benefit", "logs_clean",
                   "persistence", "reboot", "other"}

\* "show" asks for the property Restart=, and names its unit where no check
\* looks for it; only "restart" names a target for persistence.
CheckTarget(c) ==
    IF c.target \in Services /\ c.verb # "show" THEN c.target ELSE NoTarget

ValidationPassed(c, outcome) ==
    /\ outcome.status = "completed"
    /\ CheckType(c) = "service_health" => outcome.sign = "good"
    /\ CheckType(c) \in {"customer_benefit", "logs_clean"} => outcome.sign # "bad"

RestartsService(c) == c.verb \in ServiceChanges

RequiresPersistence(c) ==
    RestartsService(c) \/ c.verb \in FileChanges \cup {"backup"}
=============================================================================
