CONSTANTS
    Topics = {status, result}
    Requests = {r1}
    BrokerGiven = TRUE
    MaxLosses = 2
SPECIFICATION ServerFairSpec
INVARIANTS
    DrainedBeforeClose
    ReportsFindDatabase
    FlagFollows
PROPERTIES
    ShutdownEnds
    SubscribedAgain
CHECK_DEADLOCK FALSE
