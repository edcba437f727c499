SPECIFICATION PolicySpec
CONSTANTS
    web = web
    f = f
    Services = {web}
    Files = {f}
    SecretFiles = {}
    NoTarget = NoTarget
    Mentions <- MCMentions
    Tickets <- MCTickets
    Proposals <- MCProposals
    Restores <- MCRestores
    Answers <- MCAnswers
    Waivers = {f}
    MaxFixes = 1
INVARIANTS
    PolicyTypeOK
    
    RestoreIsApprovable
PROPERTIES
    FirstChangeIsCovered
    SuiteSpec
CHECK_DEADLOCK FALSE
