CONSTANTS
    QueueSize = 1
    MinSpeech = 2
    MinSilence = 1
    Lookback = 2
    Chunk = 2
    MaxFrames = 7
    MaxReplies = 1
SPECIFICATION FairSpec
INVARIANTS
    TypeOK
    HeardIsSpoken
    FirstWordKept
    InCaptureOrder
    EveryResumeIsEarned
    EverySegmentEnded
PROPERTIES
    ConversationGoesOn
\* A session that is over makes no further step.
CHECK_DEADLOCK FALSE
