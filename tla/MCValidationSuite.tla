------------------------- MODULE MCValidationSuite -------------------------
(* Instances of ValidationSuite.  web is a unit the tickets name, db one      *)
(* they do not; f is a plain file of /etc, e one named ".env".                *)
EXTENDS ValidationSuite

CONSTANTS web, db, f, e

\* The units are known ones, and the path of f has the name of db.
MCMentions ==
    [c \in Command |-> IF c.target \in Services THEN c.target
                       ELSE IF c.target = f THEN db ELSE NoTarget]

TicketOf(service, customerFacing, script) ==
    [service |-> service, customerFacing |-> customerFacing, script |-> script]

MCTickets == {TicketOf(web, FALSE, FALSE), TicketOf(web, FALSE, TRUE),
              TicketOf(NoTarget, TRUE, FALSE)}

Proposal(phase, verb, target) == [phase |-> phase, cmd |-> Cmd(verb, target)]

MCProposals ==
    {Proposal("fix", "restart", web), Proposal("fix", "edit", f),
     Proposal("diagnostic", "edit", e),
     Proposal("validation", "is-active", web),
     Proposal("validation", "journal", db),
     Proposal("validation", "curl", NoTarget),
     Proposal("validation", "restart", web),
     Proposal("validation", "script", NoTarget)}

MCAnswers == {[status |-> "completed", sign |-> "good"],
              [status |-> "completed", sign |-> "bad"],
              [status |-> "failed", sign |-> "plain"],
              [status |-> "unreached", sign |-> "plain"]}

=============================================================================
