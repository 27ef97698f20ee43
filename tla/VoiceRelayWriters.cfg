CONSTANTS
    MaxFrames = 1
    MaxTurns = 2
    MaxCommands = 2
    MaxReplies = 1
SPECIFICATION Spec
INVARIANT NoConcurrentWorkerWrite
CHECK_DEADLOCK FALSE
