\* Joints and targets all around, in the first and in the second turn; the documented promise.
SPECIFICATION Spec
CONSTANTS
  Resolution = 12
  Fine = 3
  Collides <- MCCollides
  Expand = 2
  Coef <- MCCoef
  WeightCost = 4
  SearchRange = 2
  Vias <- MCVias
  ReplanInterval = 1
  Angles <- MCAngles
  Targets <- MCTargets
  Durations = {0, 1}
CHECK_DEADLOCK FALSE
INVARIANTS AvoidsCollisions
