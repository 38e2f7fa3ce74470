SPECIFICATION Spec
CONSTANTS
  Cells <- MCCells
  NoCell = NoCell
  Origin = 0
  Dist <- MCDist
  Extents <- TwoExtents
  Obstacles <- MCObstacles
  Goals <- TwoGoals
  Tolerances <- NoTolerance
  Worlds <- PlainWorlds
  TolRange = 0
  EscRange = 2
  EscRangeMin = 2
  GoalTol = 0
  ActionTol = 1
  EscTol = 0
  MaxRetry = 1
  TemporaryEscape = TRUE
  CrowdMode = FALSE
  FastMapUpdate = TRUE
  KeepPath = FALSE
  SwWait = FALSE
  FindBest = FALSE
  RetainLastError = TRUE
  Watchdog = TRUE
INVARIANTS PlansOnCurrentCache
