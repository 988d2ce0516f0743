SPECIFICATION MCSpec
CONSTANTS
  Numbers = {n1}
  Technicians = {u1, u2}
  Forms <- MCForms
  MaxMishaps = 1
  Trunks = {tr1}
  Dids = {d1, d2}
  Desks = {a, b}
  Spots = {p}
  Importers = {u1, u2}
  Files <- MCFiles
  MaxTroubles = 1
  Planners = {u1, u2}
  Names = {nm1, nm2}
  YearLength = 2
  LastYear = 2
  MaxHitches = 1
  TopNumber = 4
  Uploads <- MCUploads
  Picks <- MCPicks
  Starts <- MCStarts
  MaxMeddling = 1
  Clients = {u1, u2}
  Addresses = {ad1}
  Takings = {k1}
  Inquiries = {q1}
  Handlings = {h1}
  DefaultLife = 1
  MaxLife = 2
  MaxTime = 3
  MaxSlips = 1
INVARIANTS
  FormsKeepTheirWord
  TrunksKeepTheirWord
  ClosuresAreKept
  SheetsKeepTheirWord
  CapturesStay
PROPERTIES
  OnlyAsked
  NumbersMoveAsShown
  UndoTouchesOnlyTheSheet
CHECK_DEADLOCK FALSE
