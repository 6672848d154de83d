\* A user answers or configures the copy while it is being solved.
SPECIFICATION Spec
CONSTANTS
  Meetings = {m1}
  Copies = {c1}
  Users = {u1}
  Slots = {s1}
  Rows = {r1, r2}
  Ranks = {1, 2}
  Counts = {k1}
  NoPlan = NoPlan
  Events = {}
  MaxEdits = 1
  MaxCrashes = 1
PROPERTIES
  EditsKept
CHECK_DEADLOCK FALSE
