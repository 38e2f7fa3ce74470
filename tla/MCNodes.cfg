\* Each node by itself; joints and targets are all around, in the first and second turn.
SPECIFICATION PartSpec
CONSTANTS
  Resolution = 12
  Fine = 3
  Collides <- MCCollides
  Expand = 2
  Coef <- MCCoef
  WeightCost = 4
  SearchRange = 2
  Vias <- MCVias
  ReplanInterval = 1
  Angles <- MCAngles
  Targets <- MCTargets
  Durations = {0, 1}
  MaxPaths = 2
  MaxLen = 2
  Line = {0, 2}
  DistInterval = 1
  Kept = 1
  MaxPoses = 2
  MaxActs = 1
  Layers <- OneLayer
  RootRange = 1
  BaseMaps <- RowMaps
  LocalMaps <- OneOverlay
  MaxBuffer = 1
  unknown_cost = 100
  FloorCells <- MapCells
  Clouds <- MCClouds
  Floors = {0, 1}
  Rows = 2
  points_thresh_rate = 50
  robot_height = 3
  floor_height = 0
  floor_tolerance = 1
  min_floor_area = 3
  floor_area_thresh_rate = 60
  fill_width = 2
  LargeMaps <- MCLargeMaps
  Settings <- MCSettings
  Positions <- MCPositions
  Nodes = {"laserscan_to_map", "pointcloud2_to_map"}
  AccumDuration = 2
  Interval = 1
  Delays = {0, 1}
  MaxTime = 5
  MaxClouds = 4
CHECK_DEADLOCK FALSE
INVARIANTS
  PlansAreSound
  ServesRecordedPaths
  LayersAreCurrent
  CmIsBaseAndLatest
  PlannerIsCurrent
  TransformFitsMap
  CropMatches
PROPERTIES
  OneGoalAtATimeUncut
  PatrolFinishesUnlessCanceled
  SavedMapsReturn
  ForgetsExpired
