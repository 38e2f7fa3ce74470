-------------------------- MODULE MCCostmapPipeline --------------------------
(* The costmap layers and the planner's costmap on small rows of cells. *)
EXTENDS CostmapPipeline, MCCostmapRows
=============================================================================
