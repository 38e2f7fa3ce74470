-------------------------------- MODULE MCNodes --------------------------------
(***************************************************************************)
(* Nodes of their own: the planner of the joints, patrol with its action    *)
(* server, the path files, the costmap layers with the planner's costmap    *)
(* behind them, the nodes of map_organizer, largemap_to_map, and            *)
(* laserscan_to_map and pointcloud2_to_map.  part is the one that a         *)
(* behaviour is about, the others stay in one initial state.                *)
(***************************************************************************)
EXTENDS MCPlanner2dof, Patrol, TrajectoryStore, CostmapPipeline, MCCostmapRows,
        MapOrganizer, LargemapToMap, LocalMap

VARIABLE part

organizer  == <<maps, selector, files, saved>>
cropper    == <<settings, hides, large, local>>
all        == <<part, vars, patrolVars, storeVars, pipelineVars, organizer, cropper, localMapVars>>

-----------------------------------------------------------------------------
\* Two floors and a table; a floor, a ramp above it and a wall; no points.
MapCells == (0..2) \X (0..1)
Plane(z) == [c : MapCells, z : {z}]
Point(x, y, z) == [c |-> <<x, y>>, z |-> z]
MCClouds ==
  {Plane(0) \cup Plane(4) \cup {Point(0, 0, 6)},
   Plane(0) \cup (Plane(1) \ {Point(0, 0, 1), Point(0, 1, 1)}) \cup {Point(2, 0, 3)},
   {}}

\* Large maps whose cells can be told apart, but for a few obstacles.
Large(o, w, h) ==
  [origin |-> o, width |-> w, height |-> h,
   data |-> [a \in 0..(w * h - 1) |-> IF a % 5 = 3 THEN 100 ELSE a] @@ <<>>]
MCSettings ==
  [width : {5, 6}, round : BOOLEAN, occlusion : BOOLEAN, surrounded : BOOLEAN]

MCLargeMaps == {Large(<<0, 0>>, 7, 6), Large(<<-3, 1>>, 9, 4)}
MCPositions == {-3, 0, 5} \X {-1, 3, 6}

-----------------------------------------------------------------------------
AnyPart ==
  /\ part \in {"joints", "patrol", "paths", "costmaps", "organizer", "cropper", "aggregator"}
  /\ settings \in MCSettings
  /\ part # "cropper" => settings = [width |-> 5, round |-> FALSE, occlusion |-> FALSE,
                                     surrounded |-> FALSE]
  /\ Init /\ PatrolInit /\ StoreInit
  /\ PipelineInit /\ OrganizerInit /\ CropperInit /\ LocalMapInit
  /\ part \in {"costmaps", "aggregator"} => ros = 1
  /\ part # "paths" => robot = 0
  /\ part # "aggregator" => node = "laserscan_to_map"

JointsStep ==
  /\ part = "joints" /\ Next
  /\ UNCHANGED <<part, patrolVars, storeVars, pipelineVars, organizer, cropper, localMapVars>>
Patrolling(A) ==
  /\ part = "patrol" /\ A
  /\ UNCHANGED <<part, vars, storeVars, pipelineVars, organizer, cropper, localMapVars>>
PatrolStep == Patrolling(PatrolNext)
PathsStep ==
  /\ part = "paths" /\ StoreNext
  /\ UNCHANGED <<part, vars, patrolVars, pipelineVars, organizer, cropper, localMapVars>>
CostmapStep ==
  /\ part = "costmaps" /\ PipelineNext
  /\ UNCHANGED <<part, vars, patrolVars, storeVars, organizer, cropper, localMapVars>>
OrganizerStep ==
  /\ part = "organizer" /\ OrganizerNext
  /\ UNCHANGED <<part, vars, patrolVars, storeVars, pipelineVars, cropper, localMapVars>>
CropperStep ==
  /\ part = "cropper" /\ CropperNext
  /\ UNCHANGED <<part, vars, patrolVars, storeVars, pipelineVars, organizer, localMapVars>>
AggregatorStep ==
  /\ part = "aggregator" /\ LocalMapNext
  /\ UNCHANGED <<part, vars, patrolVars, storeVars, pipelineVars, organizer, cropper>>

PartNext ==
  \/ JointsStep \/ PatrolStep \/ PathsStep \/ CostmapStep
  \/ OrganizerStep \/ CropperStep \/ AggregatorStep

\* The fairness of Patrol.
PartSpec ==
  /\ AnyPart /\ [][PartNext]_all
  /\ WF_all(Patrolling(cbTimer)) /\ WF_all(Patrolling(ResultCallback))
  /\ WF_all(Patrolling(ServerStarts)) /\ WF_all(Patrolling(Accept))
  /\ WF_all(Patrolling(CancelAll)) /\ WF_all(Patrolling(Finish))
================================================================================
