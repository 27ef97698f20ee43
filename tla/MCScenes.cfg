CONSTANTS
    Users = {u1, u2}
    Handlers = {h1, h2}
    d1 = d1
    d2 = d2
    on = on
    off = off
    Devices = {d1, d2}
    Values = {on, off}
    Lists <- MCLists
    NotAList = NotAList
    MaxScenes = 2
SPECIFICATION FairSpec
INVARIANTS
    WritesHitOwnScene
    LeftAsAsked
PROPERTIES
    EveryCommandTried
    TriggersEnd
CHECK_DEADLOCK FALSE
