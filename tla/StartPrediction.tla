--------------------------- MODULE StartPrediction ---------------------------
(***************************************************************************)
(* The start pose predictor of planner_3d (keep_a_part_of_previous_path):   *)
(* the robot goes on along the previous path while the next one is planned, *)
(* so the plan starts from a pose it cannot have passed by then, and the    *)
(* poses before are kept.                                                   *)
(*                                                                          *)
(* The path is on a line: a pose is its place x, its yaw in units of the    *)
(* circle of 2 * HalfTurn, and whether it is the centre of a grid cell.     *)
(* The robot drives and turns by at most a unit per tick.                   *)
(***************************************************************************)
EXTENDS Integers, FiniteSetsExt, Sequences, SequencesExt

CONSTANTS
  Paths,       \* previous paths, as fromMsg leaves them
  HalfTurn,    \* half a turn, in units of yaw
  DistStop,    \* dist_stop_
  Prediction,  \* prediction_sec_
  SwitchBack,  \* switch_back_prediction_sec_
  Obstacles    \* the sets of places that may have cost 100

VARIABLES
  path,     \* the previous path
  robot,    \* [x, yaw], where the robot is
  next,     \* history: the pose of the path that it drives to
  blocked,  \* places with cost 100
  left,     \* the time until the new path is there, or NotPlanning
  start,    \* the pose of the path from which it is planned, or Refused
  kept      \* the indices of the preserved poses

vars == <<path, robot, next, blocked, left, start, kept>>

NotPlanning == -1
Refused     == 0

Abs(i) == IF i < 0 THEN -i ELSE i
Increment(i) == path[i].x - path[i - 1].x
Turn(a, b) == LET d == Abs(a - b) IN IF d > HalfTurn THEN 2 * HalfTurn - d ELSE d

-----------------------------------------------------------------------------
(* Path2D *)

\* The signed distance from a line strip: negative if x is behind its start.
StripDistance(i, x) ==
  IF Increment(i) * (x - path[i - 1].x) <= 0 THEN -Abs(x - path[i - 1].x)
  ELSE IF Increment(i) * (path[i].x - x) <= 0 THEN Abs(x - path[i].x)
  ELSE 0

\* findNearestWithDistance: the end of the nearest strip, and its distance in
\* quarters; epsilon is one of them.
Nearest(x) ==
  FoldLeft(LAMBDA near, i :
             LET d == 4 * StripDistance(i, x)
             IN  IF \/ (IF d > 0 THEN d ELSE -d - 1) <= near[2]
                    \/ i = Len(path) /\ Abs(d) <= near[2] + 1
                 THEN <<i, Abs(d)>> ELSE near,
           <<1, 4 * Abs(path[1].x - x) + 1>>, [k \in 1..(Len(path) - 1) |-> k + 1])

\* Mutant: poses behind the robot are kept.
FirstAlways(near, x) == 1

\* removeAlreadyPassed: the first pose that is kept; before the path nothing has
\* been passed.
First(near, x) ==
  IF Len(path) = 1 \/ (near[1] = 2 /\ 4 * Abs(x - path[1].x) = near[2]) THEN 1 ELSE near[1]

getInitialETA(first) ==
  Max({Turn(path[first].yaw, robot.yaw), Abs(path[first].x - robot.x)})

\* getEstimatedTimeOfArrivals, for the poses from the first one on.
etas(first) ==
  FoldLeft(LAMBDA e, i :
             Append(e, Last(e) + IF Increment(i) # 0 THEN Abs(Increment(i))
                                 ELSE Turn(path[i - 1].yaw, path[i].yaw)),
           <<getInitialETA(first)>>, [k \in 1..(Len(path) - first) |-> first + k])

Direction(i) ==
  IF 2 * Turn(path[i].yaw, 0) <= HalfTurn THEN Increment(i) ELSE -Increment(i)

\* enumerateLocalGoals: the poses before the path switches back.  A turn in place
\* is none; behind one found the search begins anew, without a direction, so that
\* the next pose is not looked at.
LocalGoals(first) ==
  FoldLeft(LAMBDA goals, i :
             IF i - 1 \notin goals /\ Direction(i) * Direction(i + 1) < 0 THEN goals \cup {i} ELSE goals,
           {}, [k \in 1..(Len(path) - 1 - first) |-> first + k])

-----------------------------------------------------------------------------
(* process *)

\* The switch back that is reached after the prediction, but soon, or else the
\* first pose that is not reached before; both on a grid centre.  In the end
\* there is the last pose.
Expected(first) ==
  LET eta(i) == etas(first)[i - first + 1]
      back == {i \in LocalGoals(first) :
                 path[i].centre /\ Prediction < eta(i) /\ eta(i) < SwitchBack}
      ahead == {i \in first..(Len(path) - 1) : path[i].centre /\ eta(i) > Prediction}
  IN  IF back # {} THEN Min(back) ELSE Min(ahead \cup {Len(path)})

\* The start itself is not looked at.
isPathColliding(first, last) == \E i \in first..(last - 1) : path[i].x \in blocked

process ==
  LET near  == Nearest(robot.x)
      first == First(near, robot.x)
  IN  IF path = <<>> \/ near[2] > 4 * DistStop THEN start' = Refused /\ kept' = {}
      ELSE LET expected == Expected(first)
           IN  IF isPathColliding(first, expected) THEN start' = Refused /\ kept' = {}
               ELSE start' = expected /\ kept' = first..(expected - 1)

\* A plan of the core starts; the one before must have ended.
Plan ==
  /\ left = NotPlanning
  /\ process
  /\ left' = IF start' = Refused THEN NotPlanning ELSE Prediction
  /\ path' = IF start' = Refused THEN <<>> ELSE path
  /\ UNCHANGED <<robot, next, blocked>>

\* Without a previous path the plan starts from the robot.
PlanAfresh ==
  /\ left = NotPlanning /\ path = <<>>
  /\ \E p \in Paths :
       /\ path' = p
       /\ robot' = [x |-> p[1].x, yaw |-> p[1].yaw]
  /\ next' = 1 /\ start' = Refused /\ kept' = {}
  /\ UNCHANGED <<blocked, left>>

\* The path from the start on is planned anew; here it is found again.
Publish ==
  /\ left # NotPlanning
  /\ left' = NotPlanning
  /\ path' = SubSeq(path, Min(kept \cup {start}), Len(path))
  /\ next' = Max({1, next + 1 - Min(kept \cup {start})})
  /\ start' = Refused /\ kept' = {}
  /\ UNCHANGED <<robot, blocked>>

\* The robot may be slower, and waits at the end of the path.
Towards(a, b) == IF a < b THEN a + 1 ELSE IF a > b THEN a - 1 ELSE a

Arrived == robot = [x |-> path[next].x, yaw |-> path[next].yaw]

Follow ==
  /\ path # <<>>
  /\ next' = IF Arrived /\ next < Len(path) THEN next + 1 ELSE next
  /\ robot' = [x |-> Towards(robot.x, path[next'].x), yaw |-> Towards(robot.yaw, path[next'].yaw)]

Drive ==
  /\ left # 0
  /\ left' = IF left = NotPlanning THEN left ELSE left - 1
  /\ Follow \/ UNCHANGED <<robot, next>>
  /\ UNCHANGED <<path, blocked, start, kept>>

cbMapOverlay ==
  /\ blocked' \in Obstacles
  /\ UNCHANGED <<path, robot, next, left, start, kept>>

Init ==
  /\ path = <<>> /\ robot = [x |-> 0, yaw |-> 0] /\ next = 1
  /\ blocked \in Obstacles
  /\ left = NotPlanning /\ start = Refused /\ kept = {}

Next == Plan \/ PlanAfresh \/ Publish \/ Drive \/ cbMapOverlay

Spec == Init /\ [][Next]_vars

-----------------------------------------------------------------------------
(* Properties *)

\* The path leaves the robot's place and comes by it again, no farther from it than
\* the strip that the robot is on.
Returns ==
  LET own == Max({2, next})
      near(i) == Abs(StripDistance(i, robot.x))
  IN  \E i \in (own + 1)..Len(path) :
        near(i) <= near(own) /\ \E j \in own..(i - 1) : path[j].x # robot.x

\* However fast the robot follows the previous path during the planning, it has
\* not left the pose the new plan starts from, and what is kept joins on to what
\* it drives along: of the poses ahead none but those within dist_stop_ of the
\* robot is left out, unless the path comes by the robot's place again (the
\* nearest strip is then the latest, and the way there and back is left out).
JoinsAhead ==
  start # Refused =>
    /\ next <= start
    /\ left = Prediction /\ ~Returns =>
         \A i \in next..(Min(kept \cup {start}) - 1) : Abs(path[i].x - robot.x) <= DistStop
=============================================================================
