----------------------------- MODULE MCAccounts -----------------------------
EXTENDS Accounts, TLC

\* Phones, passwords and handlers are interchangeable; only safety is checked.
Symmetry == Permutations(Phones) \union Permutations(Passwords) \union Permutations(Handlers)
=============================================================================
