\* Two meetings and a copy in one tab, with overlapping requests and failures.
SPECIFICATION Spec
CONSTANTS
  Meetings = {m1, m2}
  Copies = {c1}
  NoPlan = NoPlan
  Titles = {t1, Todo}
  Todo = Todo
  Counts = {few, many}
  Calls = {i1, i2}
  NoCall = NoCall
  NoData = NoData
  NoForm = NoForm
  MaxSends = 3
SYMMETRY Symmetry
INVARIANTS
  TypeOK
  TitleSettled
  CountsSettled
  SpinnerWaits
PROPERTIES
  TitleBelongs
CHECK_DEADLOCK FALSE
