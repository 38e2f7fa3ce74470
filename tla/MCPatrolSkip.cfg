\* Paths arrive at any time.
SPECIFICATION PatrolSpec
CONSTANTS
  MaxPaths = 2
  MaxLen = 2
CHECK_DEADLOCK FALSE
PROPERTIES OneGoalAtATime
