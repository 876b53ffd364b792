------------------------------ MODULE MCAccess ------------------------------
(* A small instance of Access: two people and one device, so that they     *)
(* contend for it as owners and guests of each other.                      *)
EXTENDS Access, TLC

Symmetry == Permutations(Users) \cup Permutations(Clients)
=============================================================================
