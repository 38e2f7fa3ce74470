----------------------------- MODULE TrackOdometry -----------------------------
(***************************************************************************)
(* The node track_odometry: it replaces the orientation of the odometry by  *)
(* that of the IMU and adds up the way that the raw odometry drives.        *)
(*                                                                          *)
(* Poses are [x, y, z, yaw] on a grid, with the yaw in quarters of a turn.  *)
(* The IMU's yaw differs from that of the odometry by a constant.  Both     *)
(* turn at the same speed, so that the estimated slip is zero: the Kalman   *)
(* filter of the slip is not modelled, nor is the filter of heights, which  *)
(* z_filter_timeconst turns on and which takes z back towards zero.         *)
(***************************************************************************)
EXTENDS Integers, RosVersion

CONSTANTS
  Offsets,  \* yaw of the IMU minus yaw of the raw odometry
  Heights,  \* heights on the topic reset_odometry_z
  MaxPos    \* bound: the robot's coordinates

\* Yaws are whole quarters, heights whole cells.
ASSUME OdometryAssumption ==
  /\ Offsets \subseteq Int /\ Heights \subseteq Int /\ MaxPos \in Nat

VARIABLES
  without,    \* without_odom_: poses are not received
  overwrite,  \* base_link_id_overwrite is given
  offset,     \* the IMU's offset
  raw,        \* the pose by the raw odometry
  baseKnown,  \* base_link_id_ is not empty
  hasImu,     \* has_imu_
  imu,        \* yaw of imu_
  hasOdom,    \* has_odom_
  rawPrev,    \* odomraw_prev_
  prev,       \* odom_prev_: after the first message also what is published
  first,      \* history: the first raw pose
  height      \* history: the height after the first pose or the last reset

settings     == <<ros, without, overwrite, offset>>
filter       == <<baseKnown, hasImu, imu, hasOdom, rawPrev, prev>>
odometryVars == <<settings, raw, filter, first, height>>

Origin == [x |-> 0, y |-> 0, z |-> 0, yaw |-> 0]
NoPose == [x |-> 0, y |-> 0, z |-> 0, yaw |-> -1]

OdometryInit ==
  /\ ros \in {1, 2}
  /\ without \in BOOLEAN /\ overwrite \in BOOLEAN /\ offset \in Offsets
  /\ raw = Origin
  /\ baseKnown = (without \/ overwrite)
  /\ hasImu = FALSE /\ imu = 0
  /\ hasOdom = FALSE /\ rawPrev = Origin /\ prev = Origin
  /\ first = NoPose /\ height = 0

\* A vector turned by quarters of a turn.
Turned(v, quarters) ==
  CASE quarters % 4 = 0 -> v
    [] quarters % 4 = 1 -> <<-v[2], v[1]>>
    [] quarters % 4 = 2 -> <<-v[1], -v[2]>>
    [] OTHER            -> <<v[2], -v[1]>>

-----------------------------------------------------------------------------
(* class TrackOdometry *)

\* Without a base link, or without its transform, the IMU's data is not used.
processImu(ok) ==
  /\ hasImu' = (ok /\ baseKnown)
  /\ imu' = IF hasImu' THEN (raw.yaw + offset) % 4 ELSE imu

\* Mutant: messages without IMU data are remembered.
KeptAnyway(msg) == rawPrev' = msg /\ UNCHANGED <<prev, hasOdom>>

\* The messages before keep their place: the next one adds the way since then.
KeptWithoutImu(msg) == UNCHANGED <<rawPrev, prev, hasOdom>>

Fused(msg) ==
  LET v == Turned(<<msg.x - rawPrev.x, msg.y - rawPrev.y>>, imu' - msg.yaw)
  IN  [x |-> prev.x + v[1], y |-> prev.y + v[2], z |-> prev.z + msg.z - rawPrev.z,
       yaw |-> imu']

\* The first message is taken as it is, and not published.
processOdom(msg) ==
  /\ baseKnown' = (baseKnown \/ hasOdom)
  /\ IF ~hasOdom
     THEN /\ rawPrev' = msg /\ prev' = msg /\ hasOdom' = TRUE
          /\ first' = msg /\ height' = msg.z
     ELSE /\ UNCHANGED <<first, height>>
          /\ IF ~hasImu' THEN KeptWithoutImu(msg)
             ELSE /\ rawPrev' = msg /\ prev' = Fused(msg)
                  /\ UNCHANGED hasOdom

-----------------------------------------------------------------------------
(* The node *)

\* A reset before the first message is overwritten by it.
cbResetZ ==
  /\ \E z \in Heights :
       /\ prev' = [prev EXCEPT !.z = z]
       /\ height' = IF hasOdom THEN z ELSE height
  /\ UNCHANGED <<settings, raw, baseKnown, hasImu, imu, hasOdom, rawPrev, first>>

\* Synchronized messages; either may be lost, and the transform may fail.
cbOdomImu ==
  /\ ~without
  /\ \E ok \in BOOLEAN : processImu(ok)
  /\ processOdom(raw)
  /\ UNCHANGED <<settings, raw>>

cbImu ==
  /\ without
  /\ \E ok \in BOOLEAN : processImu(ok)
  /\ UNCHANGED <<settings, raw, baseKnown, hasOdom, rawPrev, prev, first, height>>

\* Without odometry only the orientation is published.
cbTimer ==
  /\ without
  /\ UNCHANGED <<settings, raw, hasImu, imu>>
  /\ processOdom(Origin)

Callbacks == cbResetZ \/ cbOdomImu \/ cbImu \/ cbTimer

TrackOdometryNode     == ros = 2 /\ Callbacks
TrackOdometryNodeRos1 == ros = 1 /\ Callbacks

\* The robot drives ahead or turns on the spot.
Drive ==
  /\ LET v == Turned(<<1, 0>>, raw.yaw)
     IN  raw' \in {[raw EXCEPT !.x = @ + v[1], !.y = @ + v[2]],
                   [raw EXCEPT !.yaw = (@ + 1) % 4]}
  /\ {raw'.x, raw'.y} \subseteq 0..MaxPos
  /\ UNCHANGED <<settings, filter, first, height>>

OdometryNext == TrackOdometryNode \/ TrackOdometryNodeRos1 \/ Drive

OdometrySpec == OdometryInit /\ [][OdometryNext]_odometryVars

-----------------------------------------------------------------------------
(* Properties *)

\* Whatever messages were lost or came without the IMU's transform, the position
\* is where the whole way of the raw odometry leads, turned by what the IMU
\* differs from it, and the height is that of the last reset: no part of the way
\* is lost or counted twice.
WholeWay ==
  hasOdom =>
    LET v == Turned(<<rawPrev.x - first.x, rawPrev.y - first.y>>, offset)
    IN  /\ <<prev.x, prev.y>> = <<first.x + v[1], first.y + v[2]>>
        /\ prev.z = height
=============================================================================
