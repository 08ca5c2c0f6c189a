SPECIFICATION FlightsSpec
CONSTANTS
  Unknown = Unknown
  Tolerance = 1
  DuplicateWindow = 1
  Autopilots = {"px4", "ardupilot"}
  Contents <- FullLogs
  MaxUploads = 3
  MaxTicks = 8
  MaxLogs = 2
INVARIANT CountedOnce
INVARIANT UnloggedIsUncovered
CHECK_DEADLOCK FALSE
