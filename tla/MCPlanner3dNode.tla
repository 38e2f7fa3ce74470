--------------------------- MODULE MCPlanner3dNode ---------------------------
(* A corridor of two cells with one goal for Planner3dNode. *)
EXTENDS Planner3dNode

MCCells == 0..1
MCDist  == [p \in MCCells |-> [q \in MCCells |-> IF p < q THEN q - p ELSE p - q]]

OneExtent     == {MCCells}
RockOrFree    == {{}, {1}}
Free          == {{}}
OneGoal       == {1}
OneTolerance  == {"continuous"}
TimerOnly     == {"timer"}
CostmapOnly   == {"costmap"}

\* One answer serves for all the questions of a search.
World(yes) ==
  [arrivable |-> {}, te |-> 0, improve |-> FALSE, reachable |-> yes,
   found |-> yes, switch |-> FALSE, aligned |-> yes, predicted |-> yes,
   atSwitch |-> yes]

NodeWorlds == {World(yes) : yes \in BOOLEAN}
AllWell    == {World(TRUE)}
=============================================================================
