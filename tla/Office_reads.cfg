SPECIFICATION ListsSpec
CONSTANTS
  Changers = {a1}
  Secrets = {s1}
  Calls = {c1}
  MaxKeys = 2
  MaxLapses = 1
  Plugins = {p1}
  MaxDelay = 1
  MaxExits = 1
  MaxFaults = 1
  Asks = {q1}
  Lookups = {"read", "propose"}
  Proposing = {"propose"}
  RunawayCap = 2
  RepeatLimit = 2
  MaxTurns = 2
  MaxSwitches = 1
  LastNumber = 3
  PageSize = 2
  MaxRead = 4
  MaxRows = 3
  Readers = {r1}
  Requests <- MCRequests
  MaxEdits = 1
  MaxGaps = 1
  Handsets = {e1, e2}
  Layings = {o1}
  Layouts <- MCLayouts
  MaxHands = 1
  MaxStumbles = 1
  Files <- MCFiles
  MaxDIDs = 4
  Base = 3
  Tenants = {t1}
  Systems = {y1, y2}
  Rings = {g1, g2}
  Conditions <- MCConditions
  TokenLife = 3
  Margin = 2
  MaxTicks = 4
  MaxMoves = 1
  MaxSilences = 1
PROPERTY
  ReadsEnd
CHECK_DEADLOCK FALSE
