CONSTANTS
    MaxFrames = 2
    MaxTurns = 1
    MaxCommands = 1
    MaxReplies = 1
SPECIFICATION FairSpec
INVARIANTS
    TypeOK
    RelayedInOrder
    AnsweredOnce
    RecordsTellTheTruth
    HangsOffUserMessage
PROPERTY SessionEnds
\* A session that is over makes no further step.
CHECK_DEADLOCK FALSE
