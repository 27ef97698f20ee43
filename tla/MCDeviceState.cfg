CONSTANTS
    Users = {u1}
    Devices = {d1}
    Pool = Pool
    Orphan = Orphan
    Gone = Gone
    Puts = {p1}
    Voices = {v1, v2}
    Levels = {0, 100}
    None = None
    Edits <- OneEdit
    Commands <- MCCommands
    Kinds = {"curtain"}
    MaxCmds = 2
    MaxStatuses = 1
SPECIFICATION Spec
SYMMETRY Symmetry
INVARIANTS
    TypeOK
    QuietMeansAgreement
    WritesInTheOwnersName
