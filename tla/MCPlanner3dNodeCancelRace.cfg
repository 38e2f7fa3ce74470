SPECIFICATION NodeSpec
CONSTANTS
  Cells <- MCCells
  NoCell = NoCell
  Origin = 0
  Dist <- MCDist
  Extents <- OneExtent
  Obstacles <- RockOrFree
  Goals <- OneGoal
  Tolerances <- OneTolerance
  Worlds <- NodeWorlds
  TolRange = 0
  EscRange = 0
  EscRangeMin = 1
  GoalTol = 0
  ActionTol = 1
  EscTol = 0
  MaxRetry = 0
  TemporaryEscape = FALSE
  CrowdMode = FALSE
  FastMapUpdate = FALSE
  KeepPath = FALSE
  SwWait = FALSE
  FindBest = FALSE
  RetainLastError = TRUE
  Watchdog = TRUE
  PlanModes <- CostmapOnly
PROPERTIES CancelledIsCanceled
