----------------------------- MODULE MCProfiles ------------------------------
(* Profiles with up to three servers and two ways to fill one in.             *)
EXTENDS Profiles, TLC

Symmetry == Permutations(Ids) \cup Permutations(Says)
=============================================================================
