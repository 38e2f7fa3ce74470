\* Two layers whose local maps cover different regions.
SPECIFICATION PipelineSpec
CONSTANTS
  Layers <- TwoLayers
  RootRange = 1
  BaseMaps <- RowMaps
  LocalMaps <- TwoOverlays
  MaxBuffer = 1
  unknown_cost = 100
INVARIANTS PlannerIsCurrent
