----------------------------- MODULE MCPlanner -----------------------------
(* Instances of Planner: the two units the planner falls back to, one of them *)
(* faulty, and tickets that name it, hint at it or do neither.                *)
EXTENDS Planner

CONSTANTS nginx, customer_status, env

\* The units are known ones, the path of the file has no unit's name.
MCMentions == [c \in Command |-> IF c.target \in Services THEN c.target ELSE NoTarget]

MCTickets ==
    [service : {NoTarget, nginx, customer_status}, customerFacing : {TRUE}, script : {FALSE}]

Host(app, named, similar, symptom, state, enabled, port, restart, journal) ==
    [app |-> app, named |-> named, similar |-> similar, symptom |-> symptom,
     url |-> TRUE, state |-> state, enabled |-> enabled, port |-> port,
     restart |-> restart, journal |-> journal]

\* A port that is wrong goes with a unit that is up or disabled, an old error
\* or a failing restart with one that is down.
MCSituations ==
    {s \in {Host(app, named, similar, symptom, state, enabled, port, restart, journal) :
              app \in Services, named \in {NoTarget, nginx},
              similar \in {NoTarget, customer_status},
              symptom \in {"port", "other"},
              state \in {"active", "inactive", "failed"}, enabled \in BOOLEAN,
              port \in {"unset", "wrong"}, restart \in {"works", "dies", "once"},
              journal \in {"clean", "old"}} :
        /\ s.named # NoTarget => s.app = s.named /\ s.similar = NoTarget
        /\ s.similar # NoTarget => s.app = s.similar
        /\ s.similar = s.named => s.symptom = "other" /\ s.journal = "clean"
        /\ s.state = "active" => s.port = "wrong" /\ s.enabled /\ s.restart = "works"
        /\ s.state = "failed" => s.enabled /\ s.port = "unset"
        /\ s.state = "inactive" => ~s.enabled
        /\ s.journal = "old" => s.symptom = "other" /\ s.state # "inactive"
        /\ s.restart # "works" => s.symptom = "other" /\ s.journal = "clean" /\ s.port = "unset"}

MCProposals ==
    [phase : Phases,
     cmd : {c \in Command : c.target \in Files \cup Services \cup {NoTarget}}]

MCRestores ==
    [phase : {"diagnostic"},
     cmd : {c \in Command :
              \/ c.verb \in {"restore-inline", "restore-metadata", "enable", "disable", "prose"}
                   /\ c.target \in Files \cup Services \cup {NoTarget}
              \/ c.verb = "restore"}]

\* Policy with every choice that the loop may make.
MCAnswers == Outcome

MCWaivers == Paths \cup Services

MCManualSteps == {[phase |-> "validation", cmd |-> Cmd("curl", NoTarget)],
                  [phase |-> "diagnostic", cmd |-> Cmd("enable", customer_status)],
                  [phase |-> "fix", cmd |-> Cmd("restart", nginx)]}
=============================================================================
