----------------------------- MODULE MCAccounts -----------------------------
EXTENDS Accounts, TLC

CONSTANTS p1, p2

MCPhones == {p1, p2}
Symmetry == Permutations(MCPhones)
=============================================================================
