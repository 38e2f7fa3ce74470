\* Distance map, graph search, start prediction and remembered costs, each by itself.
SPECIFICATION PartSpec
CONSTANTS
  MapWidth = 5
  MapHeight = 4
  Half = 1
  Weight = 1
  Overshoot = 4
  TaskNum = 5
  Diffs <- MCDiffs
  Terrains <- MCTerrains
  Changes <- MCChanges
  Rects <- MCRects
  Starts <- MCStarts
  Goals <- MCGoals
  Nodes <- MCNodes
  Goal = "t"
  Problems <- MCProblems
  Threads = 2
  Inf = 1000
  Width = 4
  Height = 2
  Top = 3
  Hit = 2
  Miss = 1
  CostAt <- MCCostAt
  IgnoreRange = 1
  IgnoreRangeMax = 2
  Robots <- MCRobots
  Messages <- MCUpdates
CHECK_DEADLOCK FALSE
INVARIANTS
  DistancesHold
  FailsOnlyWithoutWay
  ReturnsShortestWalk
  JoinsAhead
  CostsFollowOdds
PROPERTIES
  ChangesOnlySeen
