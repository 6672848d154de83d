\* A browser with two requests on the way, and every event.
SPECIFICATION FairSpec
CONSTANTS
  Emails = {e1, e2}
  Passwords = {p1}
  Calls = {i1, i2}
  NoOne = NoOne
  Blank = Blank
  Absent = Absent
  Invited = Invited
  Dead = Dead
  NoCall = NoCall
  Events = {"overlap", "lost", "expire", "reload"}
  MaxRequests = 3
INVARIANTS
  TypeOK
  NobodyElse
  SignedInIsShown
  DashboardPrompts
PROPERTIES
  PasswordKept
  LogoutClears
