SPECIFICATION FairPlannerSpec
CONSTANTS
    nginx = nginx
    customer_status = customer_status
    env = env
    Services = {nginx, customer_status}
    CustomerStatus = customer_status
    Nginx = nginx
    Files = {env}
    SecretFiles = {env}
    EnvFile = env
    WebServers = {nginx}
    NoTarget = NoTarget
    Mentions <- MCMentions
    Tickets <- MCTickets
    Situations <- MCSituations
    Proposals <- MCProposals
    ManualSteps <- MCManualSteps
    Restores <- MCRestores
    Answers <- MCAnswers
    Waivers <- MCWaivers
    MaxFixes = 4
    MaxCommands = 22
    MaxInterventions = 1
INVARIANTS
    ReadyHostServes
PROPERTIES
    ProposesNothingTwice
    RepairableIsRepaired
CHECK_DEADLOCK FALSE
