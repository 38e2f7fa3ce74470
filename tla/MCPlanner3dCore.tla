--------------------------- MODULE MCPlanner3dCore ---------------------------
(* A corridor of three cells for Planner3dCore. *)
EXTENDS Planner3dCore

MCCells  == 0..2
MCDist   == [p \in MCCells |-> [q \in MCCells |-> IF p < q THEN q - p ELSE p - q]]

TwoExtents   == {MCCells, {0, 1}}
MCObstacles  == {{}, {2}, {1, 2}}
OneGoal      == {2}
TwoGoals     == {1, 2}
Unlimited    == -1
NoTolerance  == {"none"}
MCTolerances == {"none", "continuous"}

World(arrivable, te, improve, reachable, yes) ==
  [arrivable |-> arrivable, te |-> te, improve |-> improve,
   reachable |-> reachable, found |-> yes, switch |-> yes,
   aligned |-> yes, predicted |-> yes, atSwitch |-> yes]

\* One field at a time is varied where the code asks one question at a time.
PlainWorlds ==
  {World({}, 0, FALSE, reachable, yes) : reachable, yes \in BOOLEAN}

AllWell == {World({}, 0, FALSE, TRUE, TRUE)}

CrowdWorlds ==
  {World(MCCells, te, improve, FALSE, improve) :
     te \in {0, 2}, improve \in BOOLEAN}
  \cup {World({}, 0, FALSE, TRUE, yes) : yes \in BOOLEAN}
=============================================================================
