SPECIFICATION FairSpec
CONSTANTS
  None = None
  Users = {1, 2}
  Guests = {}
  Reqs = {r1, r2}
  Tournaments = {1, 2}
  MaxEntries = 4
  Keys = {1, 2, 3, 4}
  PaymentsEnabled = FALSE
  Settings <- PayableOrEdited
  Positions = {}
  Openings = {0}
  Levels = {1}
  Workload = {"register", "unregister", "eliminate", "redraw", "update", "finish"}
PROPERTIES
  EveryRequestEnds
CONSTRAINT EditsOrTwoTournaments
CHECK_DEADLOCK FALSE
