\* Predictions every two ticks, at most one tick late.
SPECIFICATION PartSpec
CONSTANTS
  Full = 2
  Period = 2
  Params <- LimiterParams
  Timeout = 2
  DisableTimeout = 1
  WatchdogInterval = 2
  Delays = {0, 2}
  AllowEmpty = FALSE
  Late = 1
  JoyTimeout = 2
  MuxPeriod = 1
  MuxLate = 1
  LastTime = 6
  Offsets = {0, 1}
  Heights = {3}
  MaxPos = 1
  Messages <- MCMessages
  Speeds = {1, 2}
  Steps = {1, 2}
  Acc = 1
  MaxDt = 1
  Look = 1
  SearchRange = 2
  StopTol = 1
  GoalTol = 1
  DStop = 2
  MinTrack = 0
  NoPosCntl = 0
  Backward = TRUE
  OdomTimeout = 1
  OdomLate = 0
  Nodes <- TrackerNodes
  Places <- TrackerPlaces
CHECK_DEADLOCK FALSE
INVARIANTS
  LimitHolds
  DataLossStops
  StaleCloudStops
  OdometryLossStops
  MuxFallsBack
  WholeWay
PROPERTIES
  GoalMeansWalked
  InputWaitsForJoystick
