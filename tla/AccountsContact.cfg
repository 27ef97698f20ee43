CONSTANTS
    Phones = {p1, p2}
    Emails = {e1}
    Blank = Blank
    Passwords = {w1}
    Handlers = {h1}
    TTL = 1
    MaxUsers = 2
    MaxTime = 1
SPECIFICATION Spec
PROPERTY OneContactIsEnough
CHECK_DEADLOCK FALSE
