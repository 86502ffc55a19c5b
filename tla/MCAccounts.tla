----------------------------- MODULE MCAccounts -----------------------------
\* Values of the constants of Accounts for TLC.
EXTENDS Accounts, TLC

MCSymmetry == Permutations(Requests) \cup Permutations(Workers) \cup Permutations(Editors)

=============================================================================
