\* Two copies of one meeting, generated and published around each other.
SPECIFICATION Spec
CONSTANTS
  Meetings = {m1}
  Copies = {c1, c2}
  Users = {u1}
  Slots = {s1}
  Rows = {r1, r2}
  Ranks = {1}
  Counts = {k1}
  NoPlan = NoPlan
  Events = {"crash", "abort", "slowCommit", "earlyStop", "reinvite"}
  MaxEdits = 2
  MaxCrashes = 1
SYMMETRY Symmetry
INVARIANTS
  PickedIsAvailable
  AllocatedAreInvited
  DeliveryInv
CHECK_DEADLOCK FALSE
