\* One user waits for replies, one may have two requests on the way; pages POST and PUT.
SPECIFICATION Spec
CONSTANTS
  Threads = {t1, t2}
  Users = {u1, u2}
  Patient = {u1}
  MaxSlots = 3
  Ranks = {1, 2}
  NoThread = NoThread
  Methods = {"POST", "PUT"}
  MaxRows = 3
  MaxRequests = 3
SYMMETRY Symmetry
INVARIANTS
  TypeOK
  Unique
  OnlyOwnerGranted
PROPERTIES
  OwnersKept
  PostsSaved
  PatientAreServed
CHECK_DEADLOCK FALSE
