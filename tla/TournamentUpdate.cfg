SPECIFICATION FairSpec
CONSTANTS
  None = None
  Users = {u1}
  Guests = {}
  Reqs = {r1, r2}
  Tournaments = {t1}
  MaxEntries = 1
  Keys = {k1}
  PaymentsEnabled = FALSE
  Settings <- Prices
  Positions = {}
  Openings = {0}
  Levels = {1}
  Workload = {"register", "update"}
PROPERTIES
  SettingLockedByEntries
CHECK_DEADLOCK FALSE
