SPECIFICATION Spec
CONSTANTS
  None = None
  Users = {u1, u2, g1}
  Guests = {g1}
  Reqs = {r1, r2}
  Tournaments = {t1}
  MaxEntries = 3
  Keys = {k1, k2, k3}
  PaymentsEnabled = FALSE
  Settings <- Knockout
  Positions = {}
  Openings = {0}
  Levels = {1}
  Workload = {"register", "registerGuest", "eliminate", "redraw", "finish"}
INVARIANTS
  PrizesComeFromThePot
  PlacesCountDown
  SeatsFollowEntries
PROPERTIES
  FinishedIsFinal
SYMMETRY Slots
CONSTRAINT FinishOverlaps
CHECK_DEADLOCK FALSE
