SPECIFICATION SuiteSpec
CONSTANTS
    web = web
    db = db
    f = f
    e = e
    Services = {web, db}
    Files = {f, e}
    SecretFiles = {e}
    NoTarget = NoTarget
    Mentions <- MCMentions
    Tickets <- MCTickets
    Proposals <- MCProposals
    Restores = {}
    Answers <- MCAnswers
    MaxFixes = 2
INVARIANTS
    ReadyMeansLatestFixValidated
    ReadyIsDraftable
    UnstorableNeedsScript
PROPERTIES
    DecidedChecksStay
    FailureCompletesNoSuite
CHECK_DEADLOCK FALSE
