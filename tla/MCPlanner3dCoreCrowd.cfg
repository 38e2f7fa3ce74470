SPECIFICATION Spec
CONSTANTS
  Cells <- MCCells
  NoCell = NoCell
  Origin = 0
  Dist <- MCDist
  Extents <- TwoExtents
  Obstacles <- MCObstacles
  Goals <- TwoGoals
  Tolerances <- MCTolerances
  Worlds <- CrowdWorlds
  TolRange = 1
  EscRange = 2
  EscRangeMin = 1
  GoalTol = 0
  ActionTol = 1
  EscTol = 0
  MaxRetry = 0
  TemporaryEscape = TRUE
  CrowdMode = TRUE
  FastMapUpdate = TRUE
  KeepPath = FALSE
  SwWait = TRUE
  FindBest = TRUE
  RetainLastError = FALSE
  Watchdog = TRUE
INVARIANTS TypeOK PursuesGivenGoal GoalIsActive FinishesAtGivenGoal UpdateHealsCache GoingWellMeansMoving
PROPERTIES ImplementsPursuit
