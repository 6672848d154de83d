\* One copy, two users, and every event the environment may cause.
SPECIFICATION Spec
CONSTANTS
  Meetings = {m1}
  Copies = {c1}
  Users = {u1, u2}
  Slots = {s1}
  Rows = {r1, r2}
  Ranks = {1}
  Counts = {k1, k2}
  NoPlan = NoPlan
  Events = {"crash", "abort", "slowCommit", "earlyStop", "reinvite"}
  MaxEdits = 2
  MaxCrashes = 1
SYMMETRY Symmetry
INVARIANTS
  TypeOK
  SolvedPicksAreLocked
  SolvedIsPersisted
PROPERTIES
  SourceKept
  RevertsOnlyBy
  DeliversAtOnce
CHECK_DEADLOCK FALSE
