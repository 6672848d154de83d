----------------------------- MODULE MCRankPage -----------------------------
(* Small instances of RankPage for TLC. *)
EXTENDS RankPage

=============================================================================
