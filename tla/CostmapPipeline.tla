--------------------------- MODULE CostmapPipeline ---------------------------
(***************************************************************************)
(* The costmap of planner_3d, fed by the costmap_3d node over two topics.   *)
(* The costmap and its updates travel on topics of their own that keep only *)
(* the last message, so they may be lost and may overtake each other.       *)
(* Stamps are not modelled: whether a retained update is older than a       *)
(* costmap is left open.                                                    *)
(***************************************************************************)
EXTENDS CostmapLayers

CONSTANT unknown_cost   \* cost of cells that are unknown in the costmap

VARIABLE planner

pipelineVars == <<chain, buffer, costmap, costmap_update, planner>>

\* base is cm_base_, cm is cm_, lo and hi are prev_map_update_*_; applied is
\* history: the update applied last since the costmap came.
PipelineInit ==
  /\ ChainInit
  /\ planner = [hasMap |-> FALSE, base |-> [c \in {} |-> 0], cm |-> [c \in {} |-> 0],
                lo |-> 0, hi |-> 0, retained |-> None, applied |-> None]

Known(data) == [c \in DOMAIN data |-> IF data[c] < 0 THEN unknown_cost ELSE data[c]]

setMap(p, msg) ==
  [p EXCEPT !.hasMap = TRUE, !.base = Known(msg.data), !.cm = Known(msg.data),
            !.lo = Width(msg.data), !.hi = 0, !.applied = None]

\* An empty update covers its first cell all the same.
\* Mutant: the cells of the update before are not taken from the base again.
RestoredNot(p) == p.cm
Restored(p) == [c \in DOMAIN p.cm |-> IF c \in p.lo .. p.hi THEN p.base[c] ELSE p.cm[c]]

Combine(data, update) ==
  [c \in DOMAIN data |->
    IF c \in CellsOf(update) THEN Greater(data[c], update.data[c]) ELSE data[c]]

applyCostmapUpdate(p, msg) ==
  LET last == Greater(msg.x + msg.w - 1, 0)
  IN  IF last >= Width(p.cm)
      THEN [p EXCEPT !.retained = msg]
      ELSE [p EXCEPT !.cm = Combine(Restored(p), msg),
                     !.lo = msg.x, !.hi = last,
                     !.retained = None, !.applied = msg]

\* cbMap: an update that did not fit is tried again.
DeliverMap ==
  /\ costmap # None
  /\ LET p == setMap(planner, costmap)
     IN  planner' \in
           {[q EXCEPT !.retained = None] :
              q \in {p} \cup (IF p.retained = None THEN {}
                              ELSE {applyCostmapUpdate(p, p.retained)})}
  /\ costmap' = None
  /\ UNCHANGED <<chain, buffer, costmap_update>>

\* cbMapUpdate: updates that come before the costmap are dropped.
DeliverUpdate ==
  /\ costmap_update # None
  /\ planner' = IF planner.hasMap THEN applyCostmapUpdate(planner, costmap_update) ELSE planner
  /\ costmap_update' = None
  /\ UNCHANGED <<chain, buffer, costmap>>

PipelineNext ==
  \/ ChainNext /\ UNCHANGED planner
  \/ DeliverMap
  \/ DeliverUpdate

PipelineSpec == PipelineInit /\ [][PipelineNext]_pipelineVars

-----------------------------------------------------------------------------
(* Properties *)

\* Whatever is lost or overtaken, the planner's costmap is the costmap as
\* received with the last update drawn into it: no older update remains.
CmIsBaseAndLatest ==
  planner.cm = IF planner.applied = None THEN planner.base
               ELSE Combine(planner.base, planner.applied)

\* With nothing under way and an update published and applied after the costmap,
\* the planner knows every obstacle of the local maps, and no other.
PlannerIsCurrent ==
  costmap = None /\ costmap_update = None /\ chain.fresh /\ planner.applied # None =>
    \A c \in DOMAIN planner.cm :
      planner.cm[c] = Greater(planner.base[c], DrawnAnew(chain)[N][c])
=============================================================================
