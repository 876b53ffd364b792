------------------------------ MODULE MCVoices ------------------------------
EXTENDS Voices, TLC

CONSTANTS u1, u2, p1, p2

MCUsers   == {u1, u2}
MCPersons == {p1, p2}
Symmetry  == Permutations(MCUsers) \cup Permutations(MCPersons)
=============================================================================
