SPECIFICATION DisplaySpec
CONSTANTS
  None = None
  Reqs = {r1, r2}
  Grids <- Levels
  Durations = {1, 2}
  MaxTime = 3
  MaxVersion = 3
  Workload = {"start", "pause", "resume", "next", "previous", "edit", "register", "update"}
  DeviceStarts <- Devices
  Strides = {0, 1, 2}
INVARIANTS
  TypeOK
  DisplayTracksServer
PROPERTIES
  ImplementsLiveClock
  WritesFollowTheRow
CONSTRAINT Plans
SYMMETRY Slots
CHECK_DEADLOCK FALSE
