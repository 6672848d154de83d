-------------------------- MODULE MCRosterPipeline --------------------------
(* Small instances of RosterPipeline for TLC. *)
EXTENDS RosterPipeline, TLC

\* Users, slots, copies and invitation rows are interchangeable, and so are
\* pairs of counts; the ranks are numbers.  Used by the runs that check safety only.
Symmetry == Permutations(Users) \cup Permutations(Slots)
              \cup Permutations(Copies) \cup Permutations(Rows)
              \cup Permutations(Counts)
=============================================================================
