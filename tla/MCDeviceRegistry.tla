-------------------------- MODULE MCDeviceRegistry --------------------------
EXTENDS DeviceRegistry, TLC

\* Users, labels and handlers are interchangeable; only safety is checked.
Symmetry == Permutations(Users) \union Permutations(Names) \union Permutations(Handlers)
=============================================================================
