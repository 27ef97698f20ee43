CONSTANTS
    MaxTurns = 2
    MaxCalls = 2
    Recognised = {"speech", "blank", "nothing"}
SPECIFICATION FairSpec
INVARIANTS
    InTurnOrder
    RepliesCounted
    TruthfulHistory
PROPERTY TurnsAnswered
\* Once the turns are over nothing is left to do.
CHECK_DEADLOCK FALSE
