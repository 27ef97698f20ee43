------------------------------ MODULE MCScenes ------------------------------
EXTENDS Scenes

CONSTANTS d1, d2, on, off

\* Arriving switches two devices on; leaving switches one of them, and back.
MCLists == { << [dev |-> d1, val |-> on], [dev |-> d2, val |-> on] >>,
             << [dev |-> d1, val |-> on], [dev |-> d1, val |-> off] >> }
=============================================================================
