----------------------------- MODULE MCPolicy -----------------------------
(* Instances of Policy: one unit and one file, commands that copy, change,    *)
(* restore and inspect them.                                                  *)
EXTENDS Policy

CONSTANTS web, f

\* The unit is a known one, the path of the file has no unit's name.
MCMentions == [c \in Command |-> IF c.target \in Services THEN c.target ELSE NoTarget]

MCTickets == {[service |-> NoTarget, customerFacing |-> FALSE, script |-> FALSE]}

Proposal(phase, verb, target) == [phase |-> phase, cmd |-> Cmd(verb, target)]

MCProposals ==
    {Proposal("fix", "edit", f), Proposal("diagnostic", "edit", f),
     Proposal("diagnostic", "backup", f), Proposal("fix", "inline", f),
     Proposal("diagnostic", "status", web), Proposal("fix", "restart", web)}

MCRestores ==
    {Proposal("diagnostic", "restore", f),
     Proposal("diagnostic", "restore", InlineCopy(f)),
     Proposal("diagnostic", "restore-inline", f),
     Proposal("diagnostic", "enable", web), Proposal("diagnostic", "disable", web),
     Proposal("diagnostic", "prose", NoTarget)}

MCAnswers == {[status |-> "completed", sign |-> "good"],
              [status |-> "failed", sign |-> "bad"]}

=============================================================================
