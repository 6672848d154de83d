\* Two users, two slots: every problem, every schedule.
SPECIFICATION Spec
CONSTANTS
  Users = {u1, u2}
  Slots = {s1, s2}
  Ranks = {1, NoRank}
  NoRank = NoRank
  MaxCount = 2
SYMMETRY Symmetry
INVARIANTS
  TypeOK
  HardIsFeasible
PROPERTIES
  SoftIsByRank
CHECK_DEADLOCK FALSE
