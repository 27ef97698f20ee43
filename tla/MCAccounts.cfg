CONSTANTS
    Phones = {p1}
    Emails = {e1}
    Blank = Blank
    Passwords = {w1, w2}
    Handlers = {h1, h2}
    TTL = 1
    MaxUsers = 2
    MaxTime = 1
SPECIFICATION Spec
SYMMETRY Symmetry
INVARIANTS
    OneAccountPerContact
PROPERTIES
    LogoutHolds
    DeletedStaysDeleted
CHECK_DEADLOCK FALSE
