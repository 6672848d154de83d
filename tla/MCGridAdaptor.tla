---------------------------- MODULE MCGridAdaptor ----------------------------
(* Small instances of GridAdaptor for TLC. *)
EXTENDS GridAdaptor, TLC

Symmetry == Permutations(Users)
=============================================================================
