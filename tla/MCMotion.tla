------------------------------- MODULE MCMotion -------------------------------
(***************************************************************************)
(* The nodes on the way of a velocity to the motors, the tracker, the       *)
(* joystick nodes and the safety limiter, and the odometry that comes back. *)
(* part is the one that a behaviour is about, the others stay in one        *)
(* initial state.                                                           *)
(***************************************************************************)
EXTENDS SafetyLimiter, Joystick, TrackOdometry, TrajectoryTracker

VARIABLE part

joysticks == <<sim, now, interrupt, mux, relayed, timer>>
odometry  == <<without, overwrite, offset, raw, filter, first, height>>
all       == <<part, ros, vars, trackerVars, joysticks, odometry>>

-----------------------------------------------------------------------------
(* Paths that come back by the same places, turn in place, switch back, or    *)
(* start with a turn, and one with a negative velocity                       *)

Pose(x, dir) == [x |-> x, dir |-> dir]
Msg(poses, velocity) == [frame |-> TRUE, poses |-> poses, velocity |-> velocity]

\* Poses in one direction, at the places xs.
Line(xs, dir) == [i \in 1..Len(xs) |-> Pose(xs[i], dir)]

MCMessages ==
  {Msg(Line(<<0, 1, 2, 3, 2, 1, 0>>, 1), 0),
   Msg(Line(<<0, 1, 2, 3>>, 1) \o Line(<<3, 3, 2, 1>>, -1), 1),
   Msg(<<Pose(0, -1)>> \o Line(<<0, 1, 2>>, 1) \o <<Pose(2, -1)>>, 0),
   Msg(Line(<<0, 1>>, 1), -1)}

\* The defaults, a hold time beyond the timers' delay, and a higher freq.
LimiterParams == {[hold |-> 0, period |-> 2], [hold |-> 3, period |-> 2], [hold |-> 0, period |-> 1]}

TrackerNodes == [ros : {1, 2}, odom : BOOLEAN]
TrackerPlaces == <<0, 3>>

-----------------------------------------------------------------------------
AnyPart ==
  /\ part \in {"limiter", "tracker", "joystick", "odometry"}
  /\ Init /\ TrackerInit /\ JoystickInit /\ OdometryInit
  /\ part # "limiter" => \A p \in Params : p.period = Period => holdTime <= HoldOf(p)
  /\ part # "tracker" => vel = 1 /\ node = [ros |-> 1, odom |-> FALSE]
  /\ part \notin {"joystick", "odometry"} => ros = 1
  /\ part # "joystick" => ~sim
  /\ part # "odometry" => ~without /\ ~overwrite /\ offset = 0

LimiterStep ==
  part = "limiter" /\ Next /\ UNCHANGED <<part, ros, trackerVars, joysticks, odometry>>
TrackerStep ==
  part = "tracker" /\ TrackerNext /\ UNCHANGED <<part, ros, vars, joysticks, odometry>>
JoystickStep ==
  part = "joystick" /\ JoystickNext /\ UNCHANGED <<part, vars, trackerVars, odometry>>
OdometryStep ==
  part = "odometry" /\ OdometryNext /\ UNCHANGED <<part, vars, trackerVars, joysticks>>

PartNext == LimiterStep \/ TrackerStep \/ JoystickStep \/ OdometryStep

PartSpec == AnyPart /\ [][PartNext]_all
=============================================================================
