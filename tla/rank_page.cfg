\* Two respondents and an owner who publishes; the page of one of them.
SPECIFICATION Spec
CONSTANTS
  Users = {u1, u2}
  Self = u1
  Ranks = {0, 2, 4}
  NoRank = NoRank
  NoEditor = NoEditor
  NoCall = NoCall
  MaxId = 4
  MaxPuts = 2
INVARIANTS
  TypeOK
  PageAgrees
PROPERTIES
  UntouchedKeepsRank
  PicksKept
CHECK_DEADLOCK FALSE
