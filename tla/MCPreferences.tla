---------------------------- MODULE MCPreferences ----------------------------
(* Small instances of Preferences for TLC. *)
EXTENDS Preferences, TLC

\* Time slots and answers carry numbers, which the PUT mixes up.
Symmetry == Permutations(Patient) \cup Permutations(Users \ Patient) \cup Permutations(Threads)
=============================================================================
