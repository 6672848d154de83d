--------------------------- MODULE MCMeetingPages ---------------------------
(* Small instances of MeetingPages for TLC. *)
EXTENDS MeetingPages, TLC

Symmetry ==
  Permutations(Meetings) \cup Permutations(Counts) \cup Permutations(Calls)
=============================================================================
