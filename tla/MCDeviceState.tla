--------------------------- MODULE MCDeviceState ---------------------------
EXTENDS DeviceState, TLC

\* A body that gives the level alone is the smallest that a whole-row write of
\* someone else can undo.
OneEdit == { [power |-> None, level |-> 0] }

\* A curtain answers turn_on with a level the server does not expect, and does
\* not know the command of another kind of device at all.
MCCommands == { [action |-> "turn_on",   level |-> None],
                [action |-> "set_other", level |-> None] }

Symmetry == Permutations(Voices)
=============================================================================
