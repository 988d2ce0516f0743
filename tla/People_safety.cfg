SPECIFICATION MCSpec
CONSTANTS
  People = {u1, u2}
  Standing = {u1, u2}
  Emails = {e1, e2}
  Subjects = {s1, s2}
  Roles = {"staff"}
  Visits = {v1, v2}
  Requests = {r1, r2}
  Setups = {f1, f2}
  Attempts = {a1}
  Writers = {w1}
  MaxPasswords = 2
  MaxFailures = 1
  MaxNames = 2
  Firms = {c1, c2}
  Marks = {x1}
  Holders = {h1}
  Doings = {d1, d2}
  Glances = {g1}
  MaxTries = 2
  MaxConnections = 2
  MaxLosses = 1
INVARIANTS
  PeopleAreSafe
  SettingsTakeEffect
  HoldingsAreKept
PROPERTIES
  SomebodyCanSignInUndisturbed
CHECK_DEADLOCK FALSE
