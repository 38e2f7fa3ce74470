------------------------------ MODULE DistanceMap ------------------------------
(***************************************************************************)
(* The distance map that guides the 3-D search (class DistanceMap): the     *)
(* cost of the cheapest way from every cell to the goal, created from the  *)
(* goal and afterwards kept up to date by erasing and refilling what a      *)
(* change of the costmap can have touched.                                  *)
(*                                                                          *)
(* A cell is a pair of coordinates.  Costs are integers: a straight step    *)
(* costs Unit, the -0.5 * euclid_cost the goal starts from is -Half, and a  *)
(* segment pays Weight per unit of cost of the cells it leaves.             *)
(* fillCostmap takes one action per batch of num_cost_estim_task_ cells.    *)
(***************************************************************************)
EXTENDS Integers, FiniteSets, FiniteSetsExt, TLC

CONSTANTS
  MapWidth, MapHeight,  \* size of the map
  Diffs,                \* search_diffs_: vectors with their segments and length
  Half,                 \* half of the cost of a step
  Weight,               \* weight_linear * weight_costmap_
  Overshoot,            \* range_overshoot
  TaskNum,              \* num_cost_estim_task_
  Terrains,             \* the costmaps the map starts with
  Changes,              \* what a costmap update may bring: sets of <<cell, cost>>
  Rects,                \* the areas of costmap updates: <<min, max>>
  Starts, Goals         \* poses of the robot and of the goal

VARIABLES
  cm,       \* cm_rough_
  dist,     \* g_
  goal,     \* goal_
  start,    \* s_rough of the last call
  pq_open,  \* pq_open_: <<p_, v_>>, p_raw_ is p_
  edges,    \* edges_buf_
  filling   \* "idle", or the function that is filling the map

distanceVars == <<cm, dist, goal, start, pq_open, edges, filling>>

Infinite == 1000000
MapCells == (0..(MapWidth - 1)) \X (0..(MapHeight - 1))
NoCell   == <<-1, -1>>

Plus(p, d) == <<p[1] + d[1], p[2] + d[2]>>
InRect(p, r) == /\ r[1][1] <= p[1] /\ p[1] <= r[2][1]
                /\ r[1][2] <= p[2] /\ p[2] <= r[2][2]

-----------------------------------------------------------------------------
(* fillCostmap *)

\* search_diffs_ applied to every cell: the segments inside the map.
Links ==
  {[from |-> x[1], to |-> Plus(x[1], x[2].d), len |-> x[2].len,
    over |-> {Plus(x[1], q) : q \in x[2].pos}] :
      x \in {y \in MapCells \X Diffs : Plus(y[1], y[2].d) \in MapCells}}

\* @@ <<>> has TLC tabulate a function.
From == [p \in MapCells |-> {k \in Links : k.from = p}] @@ <<>>
To   == [p \in MapCells |-> {k \in Links : k.to = p}] @@ <<>>

\* A segment that leaves or crosses a cell with cost 100 cannot be used.
Blocked(k) == \E q \in k.over : cm[q] > 99

SegmentCost(k) == k.len + Weight * MapThenSumSet(LAMBDA q : cm[q], k.over)

\* The segments worth a look: their far end may be improved.
Promising(c) == {k \in From[c[2]] : dist[k.to] > dist[c[2]] + k.len}

\* An entry that the map has meanwhile improved on is stale.
Fresh(c) == c[1] <= dist[c[2]]

\* Cells too far behind the robot are left for a later fill.
Beyond(c) == c[1] - Overshoot > dist[start]

NoEarlier(c, S) == \A o \in S : c[1] <= o[1]

Todo == {c \in pq_open : Fresh(c) /\ ~Beyond(c)}

\* The next TaskNum entries to expand; ties are broken arbitrarily.
Batches ==
  IF Cardinality(Todo) <= TaskNum THEN {Todo}
  ELSE {B \in kSubset(TaskNum, Todo) : \A c \in B : NoEarlier(c, Todo \ B)}

\* Cells next to an obstacle: an obstacle that goes away is noticed there.
SeesObstacle(c) == \E k \in Promising(c) : Blocked(k)

Offers(B) ==
  UNION {{<<c[1] + SegmentCost(k), k.to>> : k \in {x \in Promising(c) : ~Blocked(x)}} :
           c \in B}

\* Improvements of a batch are compared with g_ only after all were computed.
\* A batch that is not full has popped every entry.
Fill ==
  /\ filling # "idle"
  /\ \E B \in Batches :
       LET offers  == {o \in Offers(B) : o[1] < dist[o[2]]}
           best(v) == Min({o[1] : o \in {x \in offers : x[2] = v}})
           better  == {o[2] : o \in offers}
           all     == Cardinality(Todo) < TaskNum
           cut     == IF all THEN {c \in pq_open : Fresh(c) /\ Beyond(c)} ELSE {}
       IN  /\ dist' = [v \in MapCells |->
                      IF v \in better THEN best(v)
                      ELSE IF B = {} /\ filling = "create" /\ v = goal THEN 0
                      ELSE dist[v]]
           /\ pq_open' = (IF all THEN {} ELSE pq_open \ B)
                        \cup {<<best(v), v>> : v \in better}
           /\ edges' = edges \cup {c[2] : c \in cut \cup {x \in B : SeesObstacle(x)}}
           /\ filling' = IF B = {} THEN "idle" ELSE filling
  /\ UNCHANGED <<cm, goal, start>>

-----------------------------------------------------------------------------
(* init, create and update *)

\* The goal is recorded before the poses are checked against the map.
CreateFrom(s, e) ==
  /\ goal' = e
  /\ IF s \notin MapCells \/ e \notin MapCells
     THEN UNCHANGED <<dist, start, pq_open, edges, filling>>
     ELSE /\ start' = s
          /\ dist' = [v \in MapCells |-> IF v = e THEN -Half ELSE Infinite]
          /\ pq_open' = {<<-Half, e>>}
          /\ edges' = {}
          /\ filling' = "create"

Neighbours ==
  [p \in MapCells |->
     {Plus(p, d) : d \in {<<1, 0>>, <<-1, 0>>, <<0, 1>>, <<0, -1>>}} \cap MapCells] @@ <<>>

\* What is reached from the seeds over cells no cheaper than least.
RECURSIVE Flood(_, _, _)
Flood(erased, seeds, least) ==
  LET next == {q \in UNION {Neighbours[p] : p \in seeds} :
                 q \notin erased /\ least <= dist[q] /\ dist[q] < Infinite}
  IN  IF next = {} THEN erased ELSE Flood(erased \cup next, next, least)

Area(r) == {p \in MapCells : InRect(p, r)}

\* cost_min and a p_cost_min: an area without cells erases nothing.
Cheapest(r) ==
  IF Area(r) = {} THEN {<<Infinite, NoCell>>}
  ELSE {<<dist[p], p>> : p \in {q \in Area(r) : \A v \in Area(r) : dist[q] <= dist[v]}}

\* Mutant: the robot's side of an obstacle is not erased.
SeedsOfRectOnly(s, c) == IF c[1] = Infinite THEN {} ELSE {c[2]}

Seeds(s, c) ==
  (IF c[1] = Infinite THEN {} ELSE {c[2]})
    \cup (IF c[1] < dist[s] /\ dist[s] < Infinite THEN {s} ELSE {})

\* The seeds that keep their mark in edges: the one that is erased first does, the
\* other may lose it on the way.
Marked(s, c) ==
  LET both == Seeds(s, c)
  IN  {both} \cup (IF both = {s, c[2]} /\ s \in Flood({c[2]}, {c[2]}, c[1])
                   THEN {{s}, {c[2]}} ELSE {})

\* The costs around the hole and the edges that were not erased are refilled.
Erase(s, c) ==
  \E marked \in Marked(s, c) :
  LET erased == Flood(Seeds(s, c), Seeds(s, c), c[1])
      border == {q \in UNION {Neighbours[v] : v \in erased} : dist[q] < c[1]}
      keep   == edges \ (erased \ marked)
      h      == [v \in MapCells |-> IF v \in erased THEN Infinite ELSE dist[v]]
      refill == {<<h[q], q>> : q \in border \cup keep}
  IN  /\ dist' = h
      /\ pq_open' = IF refill = {} THEN {<<-Half, goal>>} ELSE refill
      /\ edges' = {}
      /\ start' = s
      /\ filling' = "update"
      /\ UNCHANGED goal

UpdateFrom(s, e, r) ==
  IF e # goal \/ \E p \in Area(r) : dist[p] = 0 THEN CreateFrom(s, e)
  ELSE IF {s, e} \subseteq MapCells THEN \E c \in Cheapest(r) : Erase(s, c)
  ELSE UNCHANGED <<dist, goal, start, pq_open, edges, filling>>

Changed(change) ==
  [p \in MapCells |-> IF \E c \in change : c[1] = p
                   THEN (CHOOSE c \in change : c[1] = p)[2] ELSE cm[p]]

RECURSIVE Reached(_)
Reached(S) ==
  LET next == {q \in UNION {Neighbours[p] : p \in S} : cm[q] < 100}
  IN  IF next \subseteq S THEN S ELSE Reached(S \cup next)

\* Where the robot may be since the last call: anywhere it can drive to.
Drives ==
  IF start = NoCell THEN Starts
  ELSE Starts \cap (IF cm[start] < 100 THEN Reached({start}) ELSE {start})

Create ==
  /\ filling = "idle"
  /\ \E s \in Drives, e \in Goals : CreateFrom(s, e)
  /\ UNCHANGED cm

\* A costmap update changes cells of its area and the map is updated for it.
Update ==
  /\ filling = "idle"
  /\ \E s \in Drives, e \in Goals, r \in Rects :
       /\ UpdateFrom(s, e, r)
       /\ \E change \in {x \in Changes : \A c \in x : InRect(c[1], r)} :
            cm' = Changed(change)

DistanceInit ==
  /\ cm \in Terrains
  /\ dist = [v \in MapCells |-> 0]
  /\ goal = NoCell /\ start = NoCell
  /\ pq_open = {} /\ edges = {} /\ filling = "idle"

DistanceNext == Create \/ Update \/ Fill

DistanceSpec == DistanceInit /\ [][DistanceNext]_distanceVars

-----------------------------------------------------------------------------
(* Properties *)

RECURSIVE Relax(_, _)
Relax(f, to) ==
  LET h == [v \in MapCells |->
              LET open == {k \in to[v] : f[k.from] < Infinite /\ ~Blocked(k)}
              IN  Min({f[v]} \cup {f[k.from] + SegmentCost(k) : k \in open})] @@ <<>>
  IN  IF h = f THEN f ELSE Relax(h, to)

\* The cost of the cheapest way to the goal over the given segments.
Shortest(to) == Relax([v \in MapCells |-> IF v = goal THEN -Half ELSE Infinite], to)

\* The segments from one cell to the next beside, above or below it.
StepsTo == [v \in MapCells |-> {k \in To[v] : k.from \in Neighbours[v]}] @@ <<>>

Settled == filling = "idle" /\ goal \in MapCells /\ start \in MapCells

\* An update refills what it has erased from the four neighbours only.  So the map
\* may charge more than the cheapest way, but by no more than half a step more
\* than the cheapest way of single steps that cuts no corner, for every cell that
\* the robot is no farther behind than the overshoot: where there is such a way,
\* none is ever reported missing.
NoWorseThanSteps(ways, steps) ==
  \A v \in MapCells \ {goal} :
    steps[v] - Overshoot <= ways[start] => dist[v] <= steps[v] + Half

\* At the robot, which is not moved through obstacles, the map is not too low
\* either: a way that is gone is noticed, although an update erases only what is
\* connected to the changed area or to the robot.
BoundedAtRobot(ways, steps) ==
  start # goal => ways[start] <= dist[start] /\ dist[start] <= steps[start] + Half

\* Both, after any sequence of costmaps, areas and goals, while the robot drives.
DistancesHold ==
  Settled => LET ways  == Shortest(To)
                 steps == Shortest(StepsTo)
             IN  NoWorseThanSteps(ways, steps) /\ BoundedAtRobot(ways, steps)
=============================================================================
