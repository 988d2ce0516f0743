SPECIFICATION MCSpec
CONSTANTS
  Entries = {e1}
  Readers = {b1}
  Browsers = {b1}
  Topics = {"ticket", "recall"}
  Watched = {"ticket"}
  Writers = {}
  MaxChanges = 2
  MaxFaults = 1
  QueueLimit = 1
  MaxDrops = 1
  Deliveries = {d1, d2}
  Askers = {}
PROPERTY ScreensCatchUp
CHECK_DEADLOCK FALSE
