------------------------------ MODULE Planner2dof ------------------------------
(***************************************************************************)
(* The node planner_2dof_serial_joints, for one group of two joints that    *)
(* may hit each other: it plans from the angles of the joints to those of   *)
(* the last command, at once and then every replan_interval_.  Messages are *)
(* handled by every group in turn, and groups share nothing.                *)
(*                                                                          *)
(* An angle is a number of 1/Fine of the size of a cell, so that the cell   *)
(* of an angle is its rounding (Fine is odd).  A turn is Resolution cells;  *)
(* the grid has two turns for each joint.  GridAstar says how the search    *)
(* finds its path.  Its estimate here does not go around the circle as the  *)
(* costs do, so the path need not be a cheapest one: it is the cheapest, or *)
(* the cheapest that comes by one of Vias.                                  *)
(***************************************************************************)
EXTENDS RosVersion, Integers, Sequences, SequencesExt

CONSTANTS
  Resolution,      \* resolution_
  Fine,            \* angles per cell
  Collides,        \* LinkBody::isCollide, on the cells of one turn
  Expand,          \* cc.expand_, in cells
  Coef,            \* euclid_cost_coef_
  WeightCost,      \* weight_cost_
  SearchRange,     \* range
  Vias,            \* cells that the paths of the search come by
  ReplanInterval,  \* replan_interval_
  Angles,          \* angles the joints may have
  Targets,         \* angles in commands
  Durations        \* time_from_start of commands

VARIABLES
  joints,  \* current_th_, or NoJoints before has_joint_states
  named,   \* id[0] and id[1] were found in the last trajectory_in
  prev,    \* cmd_prev: <<time_from_start, angles>>
  target,  \* the first point of traj_prev, or NoTarget
  age,     \* the time since replan_prev, or Never when it is zero
  speed,   \* avg_vel_: "unset", "zero" or "positive"
  out,     \* the last trajectory
  error,   \* status_.error
  alive    \* the node has not read beyond the end of a vector

vars == <<ros, joints, named, prev, target, age, speed, out, error, alive>>

NoJoints     == <<>>
NoTarget     == <<>>
Never        == -1
NoTrajectory == [from |-> <<>>, points |-> <<>>, timed |-> TRUE]

Init ==
  /\ ros \in {1, 2}
  /\ joints = NoJoints /\ named = FALSE
  /\ prev = <<0, <<0, 0>>>> /\ target = NoTarget
  /\ age = Never /\ speed = "unset"
  /\ out = NoTrajectory /\ error = "GOING_WELL"
  /\ alive = TRUE

-----------------------------------------------------------------------------
(* The grid and the model of the search *)

GridSize == 2 * Resolution
Cells    == (0..(GridSize - 1)) \X (0..(GridSize - 1))

Abs(a) == IF a < 0 THEN -a ELSE a
Larger(a, b) == IF a > b THEN a ELSE b

\* lround(n / d)
Round(n, d) ==
  IF n >= 0 THEN (2 * n + d) \div (2 * d) ELSE -((-2 * n + d) \div (2 * d))

metric2Grid(a) == <<Round(a[1], Fine) + Resolution, Round(a[2], Fine) + Resolution>>
grid2Metric(p) == <<(p[1] - Resolution) * Fine, (p[2] - Resolution) * Fine>>

\* A difference of cells, taken the short way around the circle.
Cycle(d) ==
  LET cycle(a) == ((a + Resolution \div 2) % Resolution) - (Resolution \div 2)
  IN  <<cycle(d[1]), cycle(d[2])>>

OneTurn(p) == <<p[1] % Resolution, p[2] % Resolution>>

\* cm_: colliding cells, and costs that fall off around them.
CostAround(q, p) ==
  (100 * (Expand - Larger(Abs(q[1] - p[1]), Abs(q[2] - p[2])))) \div Expand

cm ==
  LET hit     == {p \in Cells : OneTurn(p) \in Collides}
      near(p) == {CostAround(q, p) : q \in hit} \cup {0}
  IN  [p \in hit |-> 100]
        @@ [p \in Cells \ hit |-> CHOOSE c \in near(p) : \A b \in near(p) : b <= c]

euclidCost(d) == Coef[1] * Abs(d[1]) + Coef[2] * Abs(d[2])

\* The length of a difference, rounded down.
Length ==
  [d \in ((-GridSize)..GridSize) \X ((-GridSize)..GridSize) |->
     CHOOSE k \in 0..(2 * GridSize) :
       /\ k * k <= d[1] * d[1] + d[2] * d[2]
       /\ d[1] * d[1] + d[2] * d[2] < (k + 1) * (k + 1)] @@ <<>>

\* Mutant: the loop does not advance.
WayAtStart(cur, d, i) == OneTurn(cur)

\* The cell that cost looks at after i of the steps of a difference.
WayAt(cur, d, i) ==
  OneTurn(<<Round(cur[1] * Length[d] + i * d[1], Length[d]),
            Round(cur[2] * Length[d] + i * d[2], Length[d])>>)

RECURSIVE SumFrom(_, _, _)
SumFrom(cur, d, i) ==
  IF i = Length[d] THEN 0 ELSE cm[WayAt(cur, d, i)] + SumFrom(cur, d, i + 1)

\* The cost of a straight way, -1 when it meets a collision; the last cell is
\* not looked at.
Cost(cur, next) ==
  LET d == Cycle(<<next[1] - cur[1], next[2] - cur[2]>>)
  IN  IF next \notin Cells \/ \E i \in 0..(Length[d] - 1) : cm[WayAt(cur, d, i)] > 99 THEN -1
      ELSE euclidCost(d) + ((SumFrom(cur, d, 0) * WeightCost) \div 100)

searchGrids == ((-SearchRange)..SearchRange) \X ((-SearchRange)..SearchRange)

\* The search continues around both turns of the grid.
Next2(p, d) == <<(p[1] + d[1]) % GridSize, (p[2] + d[2]) % GridSize>>

\* The ways on from a cell.  Here and below, @@ <<>> has TLC tabulate a function.
Hops ==
  [p \in Cells |->
     {<<q, Cost(p, q)>> : q \in {x \in {Next2(p, d) : d \in searchGrids} :
                                   x # p /\ Cost(p, x) >= 0}}] @@ <<>>

Far == 100000

\* The cheapest cost from every cell to one of Ends.
RECURSIVE Relax(_)
Relax(f) ==
  LET h == [p \in Cells |->
              LET costs == {f[p]} \cup {f[x[1]] + x[2] : x \in Hops[p]}
              IN  CHOOSE c \in costs : \A b \in costs : c <= b]
  IN  IF h = f THEN f ELSE Relax(h)

Ends   == {metric2Grid(t) : t \in Targets} \cup Vias
CostTo == [e \in Ends |-> Relax([p \in Cells |-> IF p = e THEN 0 ELSE Far])] @@ <<>>

RECURSIVE Descend(_, _)
Descend(p, e) ==
  IF p = e THEN <<e>>
  ELSE LET q == CHOOSE x \in Hops[p] : CostTo[e][x[1]] + x[2] = CostTo[e][p]
       IN  <<p>> \o Descend(q[1], e)

\* Paths the search may find; it visits no cell twice.
Found(s, e) ==
  LET by == {v \in Vias \cup {e} : CostTo[v][s] < Far /\ CostTo[e][v] < Far}
  IN  {trail \in {Descend(s, v) \o Tail(Descend(v, e)) : v \in by} : IsInjective(trail)}

-----------------------------------------------------------------------------
(* makePlan *)

\* The path of the search as angles: every cell is taken next to the one before,
\* and what the target differs from its cell is added to the last one.
Unwrapped(p, s) ==
  FoldLeft(LAMBDA trail, n :
             LET last == Last(trail)
                 d    == Cycle(<<n[1] - last[1], n[2] - last[2]>>)
             IN  Append(trail, <<last[1] + d[1], last[2] + d[2]>>),
           <<s>>, Tail(p))

InAngles(trail, sg, eg) ==
  LET e    == grid2Metric(metric2Grid(eg))
      last == Len(trail)
  IN  [i \in 1..last |->
         IF i = 1 THEN sg
         ELSE LET a == grid2Metric(trail[i])
              IN  IF i < last THEN a ELSE <<a[1] + eg[1] - e[1], a[2] + eg[2] - e[2]>>]

Unblocked(p) == cm[p] < 100

Direct(s, e) == Cost(s, e) >= euclidCost(Cycle(<<e[1] - s[1], e[2] - s[2]>>))

\* Paths of a plan; none when it fails.  A search fails too when it takes longer
\* than the replan interval.
Plans ==
  [sg \in Angles, eg \in Targets |->
     LET s == metric2Grid(sg)
         e == metric2Grid(eg)
     IN  IF ~Unblocked(s) \/ ~Unblocked(e) THEN {<<>>}
         ELSE IF Direct(s, e) THEN {<<sg, eg>>}
         ELSE {<<>>} \cup {InAngles(Unwrapped(trail, s), sg, eg) : trail \in Found(s, e)}] @@ <<>>

Moves(trail) == \E i \in 1..(Len(trail) - 1) : trail[i] # trail[i + 1]

\* The average velocity of the first plan for a command is kept.
Speed(v, trail, duration) ==
  IF v # "unset" THEN v
  ELSE IF duration > 0 /\ ~Moves(trail) THEN "zero"
  ELSE "positive"

\* From the angles th to the command goal: the trajectory and the status are
\* published, and in the target's cell the timer is reset.
Replanned(th, goal, v) ==
  \E trail \in Plans[th, goal[2]] :
    /\ error' = IF trail = <<>> THEN "PATH_NOT_FOUND" ELSE "GOING_WELL"
    /\ speed' = IF trail = <<>> THEN v ELSE Speed(v, trail, goal[1])
    /\ out' = [from   |-> th,
               points |-> IF trail = <<>> THEN <<th>> ELSE Tail(trail),
               timed  |-> trail = <<>> \/ speed' = "positive"]
    /\ age' = IF trail # <<>> /\ metric2Grid(th) = metric2Grid(goal[2]) THEN Never ELSE 0

-----------------------------------------------------------------------------
(* Messages *)

\* Reading the first point of a trajectory that was never stored ends the node.
ReplanJoints(th) ==
  IF ~named THEN age' = 0 /\ UNCHANGED <<speed, out, error, alive>>
  ELSE IF target = NoTarget THEN alive' = FALSE /\ UNCHANGED <<age, speed, out, error>>
  ELSE Replanned(th, target, speed) /\ UNCHANGED alive

\* Joint states that lack a joint of the group are ignored.
cbJoint ==
  /\ alive
  /\ \E th \in Angles :
       /\ joints' = th
       /\ IF ReplanInterval > 0 /\ (age = Never \/ age > ReplanInterval)
          THEN ReplanJoints(th)
          ELSE UNCHANGED <<age, speed, out, error, alive>>
  /\ UNCHANGED <<ros, named, prev, target>>

\* A trajectory for another group: this one is not planned for any more.
cbTrajectoryOther ==
  /\ alive
  /\ named' = FALSE
  /\ UNCHANGED <<ros, joints, prev, target, age, speed, out, error, alive>>

\* A repeated command is ignored; so are zeros, which prev starts with.
cbTrajectory ==
  /\ alive
  /\ named' = TRUE
  /\ \E cmd \in Durations \X Targets :
       IF cmd = prev THEN UNCHANGED <<prev, target, age, speed, out, error>>
       ELSE /\ prev' = cmd
            /\ target' = cmd
            /\ IF joints = NoJoints
               THEN speed' = "unset" /\ UNCHANGED <<age, out, error>>
               ELSE Replanned(joints, cmd, "unset")
  /\ UNCHANGED <<ros, joints, alive>>

Tick ==
  /\ alive /\ age \in 0..ReplanInterval
  /\ age' = age + 1
  /\ UNCHANGED <<ros, joints, named, prev, target, speed, out, error, alive>>

Messages == cbJoint \/ cbTrajectoryOther \/ cbTrajectory

\* The ROS 2 node has all groups, the ROS 1 node an object for each of them.
Planner2dofSerialJointsNode     == ros = 2 /\ Messages
Planner2dofSerialJointsNodeRos1 == ros = 1 /\ Messages

Next == Planner2dofSerialJointsNode \/ Planner2dofSerialJointsNodeRos1 \/ Tick

Spec == Init /\ [][Next]_vars

-----------------------------------------------------------------------------
(* Properties *)

\* Cells on the straight way between two angles, one for every cell of the joint
\* that turns further.
Crossed(a, b) ==
  LET p == metric2Grid(a)
      q == metric2Grid(b)
      n == Larger(1, Larger(Abs(q[1] - p[1]), Abs(q[2] - p[2])))
  IN  {<<Round(p[1] * n + i * (q[1] - p[1]), n), Round(p[2] * n + i * (q[2] - p[2]), n)>> :
         i \in 0..n}

\* A cell and those on both sides of the way.
Beside(p, a, b) ==
  IF Abs(b[1] - a[1]) >= Abs(b[2] - a[2]) THEN {<<p[1], p[2] + i>> : i \in {-1, 0, 1}}
  ELSE {<<p[1] + i, p[2]>> : i \in {-1, 0, 1}}

Hits(p) == OneTurn(p) \in Collides

\* The way leads into a collision by more than a cell that it passes at its side.
GoesThrough(a, b) ==
  \E p \in Crossed(a, b) : \A q \in Beside(p, metric2Grid(a), metric2Grid(b)) : Hits(q)

Stops == <<out.from>> \o out.points

\* Less than half a turn of each joint.
Short(a, b) ==
  LET p == metric2Grid(a)
      q == metric2Grid(b)
      d == <<q[1] - p[1], q[2] - p[2]>>
  IN  Cycle(d) = d

\* A plan stops at no collision, and moves the joints straight from one point to
\* the next without going through one, where no joint turns by half a turn or more
\* between two points: the angles are rounded, the costs are computed around the
\* circle, and the search continues over the end of the grid.  A single cell may be
\* touched: the code looks at the way in steps of its length rounded down, so that
\* from (0, 0) to (5, 4) it looks at (2, 1) and at (3, 2), and not at (2, 2).
PathsAvoidCollisions ==
  out.points # <<>> /\ error = "GOING_WELL" =>
    /\ \A i \in 1..Len(Stops) : ~Hits(metric2Grid(Stops[i]))
    /\ \A i \in 1..(Len(Stops) - 1) :
         Short(Stops[i], Stops[i + 1]) => ~GoesThrough(Stops[i], Stops[i + 1])

\* The documented promise of the node, without that restriction: the code checks
\* the short way around the circle and publishes the target as it was given, to
\* which the joints turn the long way, in the middle of a collision.
AvoidsCollisions ==
  out.points # <<>> /\ error = "GOING_WELL" =>
    \A i \in 1..(Len(Stops) - 1) : ~GoesThrough(Stops[i], Stops[i + 1])

\* A plan that was found ends at the angles of the last command, up to turns of
\* the joints, whatever messages for other groups came in between; the node only
\* ends when zeros were commanded before anything else.
EndsAtTarget ==
  /\ out.points # <<>> /\ error = "GOING_WELL" =>
       \A j \in {1, 2} :
         (Last(out.points)[j] - target[2][j]) % (Resolution * Fine) = 0
  /\ ~alive => target = NoTarget /\ <<0, <<0, 0>>>> \in Durations \X Targets

\* Both of them: what is found is safe to drive and leads to the command.
PlansAreSound == PathsAvoidCollisions /\ EndsAtTarget
=============================================================================
