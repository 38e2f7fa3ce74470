--------------------------- MODULE MCPlanner3dRos1 ----------------------------
(* A corridor of two cells with one goal for Planner3dRos1. *)
EXTENDS Planner3dRos1

MCCells == 0..1
MCDist  == [p \in MCCells |-> [q \in MCCells |-> IF p < q THEN q - p ELSE p - q]]

OneExtent    == {MCCells}
RockOrFree   == {{}, {1}}
OneGoal      == {1}
OneTolerance == {"continuous"}

AllWell ==
  {[arrivable |-> {}, te |-> 0, improve |-> FALSE, reachable |-> TRUE,
    found |-> TRUE, switch |-> FALSE, aligned |-> TRUE, predicted |-> TRUE,
    atSwitch |-> TRUE]}

\* Bounds: in one behaviour obstacles only come to be, once there is a map, and
\* every update lies inside the map.
SimpleUpdates == ~retained' /\ (core.hasMap => core.occ \subseteq core'.occ)

MCSpec == Ros1Init /\ [][Ros1Next /\ SimpleUpdates]_ros1 /\ Ros1Fairness
=============================================================================
