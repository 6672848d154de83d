\* Two users whose grids show the same tables.
SPECIFICATION Spec
CONSTANTS
  Users = {u1, u2}
  NoOne = NoOne
  Values = {1}
  Grids = {"events", "pending", "invitations", "solutions", "schedule"}
  Events = {"expire", "batch"}
  MaxRows = 2
  MaxActs = 2
SYMMETRY Symmetry
INVARIANTS
  TypeOK
  SavedIsDone
  OwnEditsShown
PROPERTIES
  PlansKept
CHECK_DEADLOCK FALSE
