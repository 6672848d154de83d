\* Every event: a task comes to its result or fails, and does not hang.
SPECIFICATION FairSpec
CONSTANTS
  Meetings = {m1}
  Copies = {c1}
  Users = {u1}
  Slots = {s1}
  Rows = {r1, r2}
  Ranks = {1}
  Counts = {k1, k2}
  NoPlan = NoPlan
  Events = {"crash", "abort", "slowCommit", "earlyStop", "reinvite"}
  MaxEdits = 2
  MaxCrashes = 1
PROPERTIES
  TasksEnd
  SolvedOrBroken
  StaysSolved
CHECK_DEADLOCK FALSE
