CONSTANTS
    Users = {u1, u2}
    Nobody = Nobody
    Clients = {c1, c2}
    Callers = {rest, voice}
    Detached = {voice}
    MaxEvents = 3
    SendBuffer = 1
SPECIFICATION Spec
INVARIANT NeverSendsOnClosed
