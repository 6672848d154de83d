---------------------------- MODULE MCWebSession ----------------------------
(* Small instances of WebSession for TLC. *)
EXTENDS WebSession, TLC

Symmetry == Permutations(Calls) \cup Permutations(Emails) \cup Permutations(Passwords)
=============================================================================
