SPECIFICATION MCSpec
CONSTANTS
  Entries = {e1}
  Readers = {b1, b2}
  Browsers = {b1, b2}
  Topics = {"ticket", "recall"}
  Watched = {"ticket"}
  Writers = {w1}
  MaxChanges = 1
  MaxFaults = 1
  QueueLimit = 1
  MaxDrops = 0
  Deliveries = {}
  Askers = {a1, a2, a3}
  Tickets = {t1, t2}
  Backfills = {k1, k2}
  PageSize = 1
  RecentSize = 1
  MaxMoves = 1
  MaxMishaps = 1
  Orders = {o1, o2}
  Tokens = {n1, n2}
  Resources = {"tickets"}
  MaxRetries = 1
  AccessLife = 1
  HealthLife = 1
  MaxMinutes = 1
  MaxSaves = 1
  MaxOutages = 2
  PerPage = 2
  MaxScan = 2
  Threads <- MCThreads
  Books <- MCBooks
  MaxWork = 2
  MaxHour = 4
INVARIANTS
  ScreensAreTrue
  RecallIsKept
  PostedOnceUndisturbed
  TokensAreKept
  HistoriesAreKept
CHECK_DEADLOCK FALSE
