\* A crash leaves a copy that nothing will solve.
SPECIFICATION FairSpec
CONSTANTS
  Meetings = {m1}
  Copies = {c1}
  Users = {u1}
  Slots = {s1}
  Rows = {r1, r2}
  Ranks = {1}
  Counts = {k1}
  NoPlan = NoPlan
  Events = {"crash"}
  MaxEdits = 0
  MaxCrashes = 1
PROPERTIES
  Generated
CHECK_DEADLOCK FALSE
