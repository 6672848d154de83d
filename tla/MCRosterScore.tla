---------------------------- MODULE MCRosterScore ----------------------------
(* Small problems for RosterScore. *)
EXTENDS RosterScore, TLC

Symmetry == Permutations(Users) \cup Permutations(Slots)
=============================================================================
