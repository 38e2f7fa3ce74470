--------------------------- MODULE TrajectoryTracker ---------------------------
(***************************************************************************)
(* trajectory_tracker: the controller that follows a path (class            *)
(* TrackerController) and the nodes around it, TrackerNode of ROS 2 and of  *)
(* ROS 1, which differ in their odometry timeout.                           *)
(*                                                                          *)
(* The path lies on a line and the robot moves along it: a pose is its      *)
(* place x and its direction dir, 1 or -1, so that following, switching     *)
(* back, turning in place and overshooting are all there.  What is beside   *)
(* the line is abstract: the robot may have strayed too far, or not.  The   *)
(* reference velocity towards the goal is any with the right sign, the      *)
(* limiter is the code's; the angular velocity, treated the same, is left   *)
(* out.                                                                     *)
(***************************************************************************)
EXTENDS Integers, FiniteSetsExt, SequencesExt

CONSTANTS
  Messages,     \* [frame, poses, velocity] on the topics path and path_velocity
  Speeds,       \* values of max_vel and of the topic speed
  Steps,        \* values of path_step
  Acc,          \* max_acc, in velocity per unit of time
  MaxDt,        \* max_dt
  Look,         \* look_forward
  SearchRange,  \* the search range of 1.0 m
  StopTol,      \* stop_tolerance_dist
  GoalTol,      \* goal_tolerance_dist
  DStop,        \* dist_stop
  MinTrack,     \* min_tracking_path
  NoPosCntl,    \* no_position_control_dist
  Backward,     \* allow_backward
  OdomTimeout,  \* odom_timeout_sec; 0 turns it off
  OdomLate,     \* how late a timer may be served
  Nodes,        \* the nodes: [ros, odom], the version and use_odom
  Places        \* where the robot may be: <<first, last>>

\* Times are counted in whole units.
ASSUME TrackerAssumption ==
  /\ OdomTimeout \in Nat /\ OdomLate \in Nat
  /\ \A n \in Nodes : n.odom \in BOOLEAN

VARIABLES
  path,      \* path_header_ and path_
  updated,   \* is_path_updated_
  done,      \* path_step_done_
  vel,       \* vel_[0]
  step,      \* path_step_
  v,         \* v_lim_
  cmd,       \* the linear velocity of the last cmd_vel
  status,    \* the last status
  robot,     \* the pose of the robot
  node,      \* which node it is
  started,   \* prev_odom_stamp_ is set
  odomTimer, \* time since odom_timeout_timer_ was armed, or Off
  odomAge,   \* time since the last odometry
  visited    \* history: the local goals of the path that the robot has come to

controller == <<path, updated, done, v>>
trackerVars == <<path, updated, done, vel, step, v, cmd, status, robot, node,
                 started, odomTimer, odomAge, visited>>

Off   == -1
Anywhere == 1000  \* no limit of the search range
Unset == 0   \* the velocity of a pose that has none: NaN

Abs(i)  == IF i < 0 THEN -i ELSE i
Sign(i) == IF i < 0 THEN -1 ELSE IF i > 0 THEN 1 ELSE 0

-----------------------------------------------------------------------------
(* Path2D *)

\* Poses at one place are reduced to the first and the last of them.
fromMsg(poses) ==
  LET Amid(i) == /\ 1 < i /\ i < Len(poses)
                 /\ poses[i - 1].x = poses[i].x /\ poses[i + 1].x = poses[i].x
      kept    == SelectSeq([i \in 1..Len(poses) |-> i], LAMBDA i : ~Amid(i))
  IN  [k \in 1..Len(kept) |-> poses[kept[k]]]

\* Every step-th pose.
Thinned(p, n) == [i \in 1..((Len(p) + n - 1) \div n) |-> p[(i - 1) * n + 1]] @@ <<>>

\* The path the controller works on; path_step does not change in the model, so
\* the path is thinned when it arrives.
lpath == path.poses
End   == Len(lpath) + 1

Increment(i) == lpath[i].x - lpath[i - 1].x
DriveOf(i)   == Sign(Increment(i)) * lpath[i].dir

\* Mutant: switching back is not noticed.
findLocalGoalStraight(b) == Min({i \in (b + 1)..(End - 1) : Increment(i) = 0} \cup {End})

\* The first pose after b that turns in place or switches back.
findLocalGoal(b) ==
  Min({i \in (b + 1)..(End - 1) :
         \/ Increment(i) = 0
         \/ Backward /\ i > b + 1 /\ DriveOf(i - 1) * DriveOf(i) < 0} \cup {End})

\* The way along p to each of its poses, and from pose a of the path to pose b.
Along(p) ==
  LET sum[i \in 0..Len(p)] ==
        IF i <= 1 THEN 0 ELSE sum[i - 1] + Abs(p[i].x - p[i - 1].x)
  IN  [i \in 1..Len(p) |-> sum[i]] @@ <<>>

Length(a, b) == IF b <= a THEN 0 ELSE path.along[b] - path.along[a]

\* The signed distance from a line strip: negative if x is behind its start.
StripDistance(i, x) ==
  IF Increment(i) * (x - lpath[i - 1].x) <= 0 THEN -Abs(x - lpath[i - 1].x)
  ELSE IF Increment(i) * (lpath[i].x - x) <= 0 THEN Abs(x - lpath[i].x)
  ELSE 0

\* The end of the nearest strip of those from b on that are within the range, and its
\* distance in quarters; epsilon is one of them.
findNearest(b, lg, x, range) ==
  LET Nearer(best, i) ==
        LET d == 4 * StripDistance(i, x)
        IN  IF \/ (IF d > 0 THEN d ELSE -d - 1) <= best.dist
               \/ i = lg - 1 /\ Abs(d) <= best.dist + 1
            THEN [at |-> i, dist |-> Abs(d)] ELSE best
      within == SelectSeq([k \in 1..(lg - 1 - b) |-> b + k], LAMBDA i : Length(b, i) <= range)
  IN  FoldLeft(Nearer, [at |-> b, dist |-> 4 * Abs(lpath[b].x - x) + 1], within).at

\* Negative after the end was overshot.
remainedDistance(i, end, x) ==
  IF i + 1 < end THEN Abs(lpath[i].x - x) + Length(i, end - 1)
  ELSE IF end < 3 THEN 0
  ELSE IF Increment(end - 1) * (lpath[end - 1].x - x) >= 0 THEN Abs(lpath[i].x - x)
  ELSE -Abs(lpath[i].x - x)

-----------------------------------------------------------------------------
(* TrackerController *)

clip(x, max) == IF x > max THEN max ELSE IF x < -max THEN -max ELSE x

\* VelAccLimitter::set: the velocity is limited, then its change.
Limited(x, max, dt) ==
  LET c == clip(x, max)
  IN  IF c > v + dt * Acc THEN v + dt * Acc
      ELSE IF c < v - dt * Acc THEN v - dt * Acc ELSE c

setPath(m) ==
  /\ LET p == IF m.velocity < 0 THEN <<>> ELSE fromMsg(m.poses)
         t == Thinned(p, step)
     IN  path' = [frame |-> m.frame, size |-> Len(p), poses |-> t, along |-> Along(t),
                  velocity |-> m.velocity]
  /\ updated' = TRUE
  /\ done' = 0

NoResult(s) == [status |-> s, done |-> 0, turning |-> FALSE, speed |-> 0,
                remain |-> 0, away |-> 0, angle |-> FALSE, stopped |-> FALSE]

\* The predicted place of the robot.
PredictedAt(r) == r.x + r.dir * v * Look

\* The local goal is reached, or there is nothing to go.
Arrives(remain, in_place) ==
  Abs(remain) < StopTol \/ Length(1, Len(lpath)) < MinTrack \/ in_place

\* What the line does not show: the robot is too far beside the path, or its
\* measured velocity is above the goal tolerance, or path and odometry have no
\* common frame.
Circumstances == {"still", "moving", "strayed", "no transform"}

\* The errors on the way to pose i, with the local goal lg; raw is the offset of
\* the prediction.
Track(d, r, raw, env, i, lg) ==
  LET vec      == IF i = 1 THEN 0 ELSE Increment(i)
      in_place == vec = 0
      origin   == PredictedAt(r)
      orient   == Length(1, Len(lpath)) < NoPosCntl
      remain(end, x) == IF orient \/ in_place THEN 0 ELSE remainedDistance(i, end, x)
      local    == remain(lg, origin)
      heading  == IF Backward THEN lpath[i].dir ELSE Sign(vec)
      large    == ~in_place /\ r.dir # heading
      arrives  == Arrives(local, in_place)
      turning  == large \/ arrives
      nowhere  == in_place \/ Length(1, Len(lpath)) < StopTol
      far      == ~turning /\ (IF i >= path.size
                               THEN Abs(lpath[i].x - origin) > DStop
                               ELSE env = "strayed")
      angle    == IF arrives THEN r.dir # lpath[lg - 1].dir ELSE large
      dist(x)  == IF turning /\ nowhere THEN 0 ELSE Abs(remain(End, x))
      goal     == /\ ~far /\ lg = End /\ env # "moving" /\ ~angle
                  /\ dist(origin) < GoalTol /\ dist(r.x + raw) < GoalTol
  IN  IF far THEN NoResult("FAR_FROM_PATH")
      ELSE [status  |-> IF goal THEN "GOAL" ELSE "FOLLOWING",
            done    |-> IF arrives /\ lg # End THEN lg - 1 ELSE Max({d, i - 2}),
            turning |-> turning,
            speed   |-> IF path.velocity = Unset THEN vel ELSE path.velocity,
            remain  |-> IF Backward THEN local * Sign(vec) * lpath[i].dir ELSE local,
            angle   |-> angle,
            stopped |-> /\ dist(origin) < StopTol /\ dist(r.x + raw) < StopTol
                        /\ ~angle]

\* The local goal after the poses that are done, and the pose nearest to the robot's
\* prediction; without a path neither is looked at.
Located(d, r) ==
  LET lg == findLocalGoal(d + 1)
      range == IF d > 0 THEN SearchRange ELSE Anywhere
  IN  IF path.poses = <<>> THEN [goal |-> End, nearest |-> End]
      ELSE [goal |-> lg, nearest |-> findNearest(d + 1, lg, PredictedAt(r), range)]

getTrackingResult(d, r, raw, env, at) ==
  IF ~path.frame \/ path.poses = <<>> \/ env = "no transform" THEN NoResult("NO_PATH")
  ELSE Track(d, r, raw, env, at.nearest, at.goal)

\* The velocities for a result; without a path the limiters are cleared.
Velocities(t, dt) ==
  IF t.status \in {"NO_PATH", "FAR_FROM_PATH"} \/ t.stopped THEN {0}
  ELSE LET towards == {k * Sign(t.remain) : k \in 0..Max(Speeds)}
       IN  {Limited(x, t.speed, dt) : x \in IF t.turning THEN {0} ELSE towards}

Switches(k) ==
  Backward /\ k > 2 /\ Increment(k - 1) # 0 /\ DriveOf(k - 1) * DriveOf(k) < 0

\* Where the path turns in place or switches back; a pose that switches back again
\* directly after another is passed over, as the search starts from that one.
Cusps == {k \in 2..Len(lpath) : Increment(k) = 0 \/ (Switches(k) /\ ~Switches(k - 1))}

\* history: the robot is as near as the tolerance and the way it looks ahead.  A turn
\* at the very start is where the robot is, wherever that is.
Visits(r) ==
  {k \in Cusps : \/ k = 2 /\ Increment(2) = 0
                 \/ Abs(r.x - lpath[k - 1].x) < StopTol + Abs(v) * Look}

\* A new path is tracked twice, the first time for path_step_done_ only.
control(r, raws, dts) ==
  /\ visited' = visited \cup (IF path.frame /\ path.poses # <<>> THEN Visits(r) ELSE {})
  /\ updated' = FALSE
  /\ UNCHANGED <<path, vel, step>>
  /\ \E first \in {Located(done, r)}, raw \in raws, env \in Circumstances :
     \E before \in {IF updated THEN getTrackingResult(done, r, raw, env, first).done ELSE done} :
     \E at \in {IF before = done THEN first ELSE Located(before, r)} :
     \E t \in {getTrackingResult(before, r, raw, env, at)} :
       /\ \E dt \in dts : \E c \in Velocities(t, dt) : v' = c /\ cmd' = c
       /\ done' = IF t.status \in {"NO_PATH", "FAR_FROM_PATH"} THEN before ELSE t.done
       /\ status' = t.status

-----------------------------------------------------------------------------
(* The nodes *)

NoPath == [frame |-> FALSE, size |-> 0, poses |-> <<>>, along |-> <<>>,
           velocity |-> Unset]

TrackerInit ==
  /\ path = NoPath /\ updated = FALSE /\ done = 0
  /\ vel \in Speeds /\ step \in Steps
  /\ v = 0 /\ cmd = 0 /\ status = "NONE"
  /\ robot = [x |-> 0, dir |-> 1]
  /\ node \in Nodes
  /\ started = FALSE /\ odomTimer = Off /\ odomAge = 0
  /\ visited = {}

cbPath ==
  /\ \E m \in Messages : setPath(m)
  /\ visited' = {}
  /\ UNCHANGED <<vel, step, v, cmd, status, robot, node, started, odomTimer, odomAge>>

\* Of the parameters max_vel is the one that changes here: it takes the place of
\* a speed received on the topic.
setParameters ==
  /\ vel' \in Speeds
  /\ UNCHANGED <<controller, step, cmd, status, robot, node, started, odomTimer, odomAge, visited>>

updateParameters == node.ros = 2 /\ setParameters
cbParameterRos1  == node.ros = 1 /\ setParameters

cbSpeed ==
  /\ vel' \in Speeds
  /\ UNCHANGED <<controller, step, cmd, status, robot, node, started, odomTimer, odomAge, visited>>

\* Where the robot is when the next odometry or transform is read.
Moved ==
  [x : {robot.x - 1, robot.x, robot.x + 1} \cap Places[1]..Places[2], dir : {1, -1}]

\* The first odometry only leaves its stamp.
Odometry ==
  /\ started' = TRUE /\ odomAge' = 0
  /\ \E r \in Moved :
       /\ robot' = r
       /\ IF started THEN control(r, {0, r.dir}, 1..MaxDt)
          ELSE UNCHANGED <<controller, vel, step, cmd, status, visited>>
  /\ UNCHANGED node

\* Mutant: only the first odometry arms it.
ArmedAtStart == IF OdomTimeout = 0 \/ started THEN odomTimer ELSE 0

\* The timer is armed anew for every odometry.
Armed == IF OdomTimeout = 0 THEN odomTimer ELSE 0

\* A new timer replaces the one that runs.
cbOdometry ==
  /\ node.ros = 2 /\ node.odom
  /\ odomTimer' = Armed
  /\ Odometry

\* The period of the timer is set anew.
cbOdometryRos1 ==
  /\ node.ros = 1 /\ node.odom
  /\ odomTimer' = Armed
  /\ Odometry

Stop == v' = 0 /\ cmd' = 0 /\ status' = "NO_PATH"

OdomTimedOut == odomTimer # Off /\ odomTimer >= OdomTimeout

cbOdomTimeout ==
  /\ node.ros = 2 /\ OdomTimedOut
  /\ Stop
  /\ odomTimer' = 0
  /\ UNCHANGED <<path, updated, done, vel, step, robot, node, started, odomAge, visited>>

\* On ROS 1 the timer fires once.
cbOdomTimeoutRos1 ==
  /\ node.ros = 1 /\ OdomTimedOut
  /\ Stop
  /\ odomTimer' = Off
  /\ UNCHANGED <<path, updated, done, vel, step, robot, node, started, odomAge, visited>>

\* Without the transform of the robot only the status is published.
TimerStep ==
  /\ \/ \E r \in Moved : robot' = r /\ control(r, {0}, {1})
     \/ /\ status' = "NO_PATH"
        /\ robot' \in Moved
        /\ UNCHANGED <<controller, vel, step, cmd, visited>>
  /\ UNCHANGED <<node, started, odomTimer, odomAge>>

cbTrackerTimer     == node.ros = 2 /\ ~node.odom /\ TimerStep
cbTrackerTimerRos1 == node.ros = 1 /\ ~node.odom /\ TimerStep

TrackerTick ==
  /\ node.odom /\ started /\ odomAge <= OdomTimeout + OdomLate
  /\ odomTimer < OdomTimeout + OdomLate
  /\ odomAge' = odomAge + 1
  /\ odomTimer' = IF odomTimer = Off THEN Off ELSE odomTimer + 1
  /\ UNCHANGED <<controller, vel, step, cmd, status, robot, node, started, visited>>

TrackerNext ==
  \/ cbPath \/ cbSpeed \/ updateParameters \/ cbParameterRos1
  \/ cbOdometry \/ cbOdometryRos1 \/ cbOdomTimeout \/ cbOdomTimeoutRos1
  \/ cbTrackerTimer \/ cbTrackerTimerRos1
  \/ TrackerTick

TrackerSpec == TrackerInit /\ [][TrackerNext]_trackerVars

-----------------------------------------------------------------------------
(* Properties *)

TrackerTypeOK ==
  /\ done \in 0..Len(lpath)
  /\ v \in Int
  /\ status \in {"NONE", "NO_PATH", "FAR_FROM_PATH", "FOLLOWING", "GOAL"}
  /\ odomTimer \in Off..(OdomTimeout + OdomLate)

\* The goal is reported only after the robot came, up to the stop tolerance and the
\* way it looks ahead, to every place where the path that path_step leaves switches
\* back or turns (but for a pose that switches back directly after another), in spite
\* of a path that comes by the same places again, and, unless that path ends with a
\* turn, at its last pose.
GoalMeansWalked ==
  [][status' = "GOAL" /\ ~updated' =>
       LET last == Len(lpath)
       IN  /\ Cusps' \subseteq visited'
           /\ last > 1 /\ Increment(last) # 0
                => Abs(robot'.x - lpath[last].x) <= GoalTol]_trackerVars

\* The robot is told to stop when no odometry came for longer than the timeout.
OdometryLossStops ==
  OdomTimeout > 0 /\ odomAge > OdomTimeout + OdomLate => cmd = 0
=============================================================================
