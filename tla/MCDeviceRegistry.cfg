CONSTANTS
    Users = {u1, u2}
    Devices = {d1, d2}
    Names = {n1, n2}
    Handlers = {h1, h2}
    NoUser = NoUser
    NoName = NoName
    Pool = Pool
    Orphan = Orphan
    Gone = Gone
SPECIFICATION Spec
SYMMETRY Symmetry
INVARIANTS
    UnbindHitsOwnDevice
    ListedCanBeBound
PROPERTY OwnershipLifecycle
\* Once every device and account is gone no request can change anything.
CHECK_DEADLOCK FALSE
