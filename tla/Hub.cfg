CONSTANTS
    Users = {u1, u2}
    Nobody = Nobody
    Clients = {c1, c2}
    Callers = {rest, voice}
    Detached = {voice}
    MaxEvents = 2
    SendBuffer = 1
SPECIFICATION FairSpec
INVARIANTS
    TypeOK
    RoutedInOrder
    OnlyTheSlowLose
PROPERTIES
    LostIsForgotten
\* The process may crash, and the broadcasts are bounded.
CHECK_DEADLOCK FALSE
