------------------------------ MODULE MotionProofs ------------------------------
(***************************************************************************)
(* Four nodes on the way between the navigation and the motors.            *)
(*                                                                          *)
(* The joystick nodes, for every timeout, every period of the timer, every  *)
(* delay of it and a clock without a bound.  What joystick_interrupt        *)
(* decides by, last_joy_msg_, is the last message with the button held as   *)
(* long as there is one.  That joystick_mux returns to its first input in   *)
(* time follows from when its timer is due: never later than one period     *)
(* from now, and while the second input is selected never later than one    *)
(* period after the timeout.                                                *)
(*                                                                          *)
(* The odometry leads the whole way, for every offset of the IMU, every     *)
(* height a reset may ask for and a way of every length.  A turn by         *)
(* quarters is linear and depends on the quarters modulo 4 only.  The       *)
(* quarters that a fused message is turned by, the IMU's yaw minus its own, *)
(* are the offset modulo 4; that needs the IMU and the odometry of one      *)
(* moment (cbOdomImu).  Messages of the timer carry no yaw of their own:    *)
(* there the way is zero.                                                   *)
(*                                                                          *)
(* The tracker stops without odometry, for every path, every robot, every   *)
(* timeout and every delay of the timer; safety_limiter keeps to its        *)
(* limits, for every resolution of the ratio, every period, timeout and     *)
(* delay of the timers.                                                     *)
(***************************************************************************)
EXTENDS SafetyLimiter, Joystick, TrackOdometry, TrajectoryTracker, TLAPS

-----------------------------------------------------------------------------
(* The joystick nodes *)

\* While the button is held joystick_interrupt knows since when.
HeldIsJoy == held # None => joy = held

\* When the timer of joystick_mux is due: it is served in time and set one period
\* ahead, and no later than what selects the first input again needs.
TimerInTime ==
  /\ now <= timer + MuxLate
  /\ timer <= now + MuxPeriod
  /\ mux.selected # 0 => timer <= mux.joy + JoyTimeout + MuxPeriod

JoystickInv == JoystickTypeOK /\ HeldIsJoy /\ TimerInTime

-----------------------------------------------------------------------------

\* The invariant holds at the start.
LEMMA InitJoystick ==
  ASSUME JoystickInit
  PROVE  JoystickInv
<1>1. now \in Nat /\ MuxPeriod \in Nat /\ MuxLate \in Nat /\ JoyTimeout \in Nat
  BY JoystickAssumption DEF JoystickInit
<1>2. /\ joy = NoJoy /\ held = None /\ timer = now + MuxPeriod
      /\ mux.joy = now /\ mux.selected = 0
  BY DEF JoystickInit
<1>3. HeldIsJoy /\ TimerInTime
  BY <1>1, <1>2 DEF HeldIsJoy, TimerInTime, NoJoy, None
<1>4. JoystickTypeOK
  BY <1>1 DEF JoystickInit, JoystickTypeOK, NoJoy, None, Inputs
<1>5. QED
  BY <1>3, <1>4 DEF JoystickInv

\* The callbacks of joystick_interrupt keep what it knows of the button.
LEMMA InterruptKeeps ==
  ASSUME JoystickInv, cbJoy \/ cbTwist, UNCHANGED <<now, mux, relayed, timer>>
  PROVE  JoystickInv'
<1>1. /\ joy' \in Nat /\ held' \in Int /\ HeldIsJoy'
      /\ input' \in Int /\ twist' \in {"none", "joy", "input"} \X Int
  BY DEF JoystickInv, JoystickTypeOK, HeldIsJoy, cbJoy, cbTwist, JoyInvalid, JoyReleased,
         JoyHeld, NoJoy, None
<1>2. QED
  BY <1>1 DEF JoystickInv, JoystickTypeOK, TimerInTime

\* A message of the joystick restarts the time of the selection.
LEMMA MuxJoyKeeps ==
  ASSUME JoystickInv, muxJoy, UNCHANGED <<now, interrupt>>
  PROVE  JoystickInv'
<1>1. PICK button \in Inputs : mux' = [mux EXCEPT !.joy = now, !.selected = button]
  BY DEF muxJoy
<1>2. UNCHANGED <<now, joy, held, timer, input, twist, relayed>>
  BY DEF muxJoy, interrupt
<1>3. mux'.joy = now /\ mux'.selected = button /\ JoystickTypeOK'
  BY <1>1, <1>2 DEF JoystickInv, JoystickTypeOK
<1>4. JoyTimeout \in Nat /\ MuxPeriod \in Nat /\ now \in Nat /\ timer \in Int
  BY JoystickAssumption DEF JoystickInv, JoystickTypeOK
<1>5. TimerInTime'
  BY <1>2, <1>3, <1>4 DEF JoystickInv, TimerInTime
<1>6. QED
  BY <1>2, <1>3, <1>5 DEF JoystickInv, HeldIsJoy

\* A message on a topic of the multiplexer changes neither its selection nor its times.
LEMMA MuxTopicKeeps ==
  ASSUME JoystickInv, muxTopic, UNCHANGED <<now, interrupt>>
  PROVE  JoystickInv'
<1>1. /\ mux' = mux \/ mux' = [mux EXCEPT !.advertised = TRUE]
      /\ relayed' = relayed \/ relayed' \in mux.subscribed
  BY DEF muxTopic
<1>2. UNCHANGED <<now, joy, held, timer, input, twist>>
  BY DEF muxTopic, interrupt
<1>3. mux'.joy = mux.joy /\ mux'.selected = mux.selected /\ JoystickTypeOK'
  BY <1>1, <1>2 DEF JoystickInv, JoystickTypeOK
<1>4. QED
  BY <1>2, <1>3 DEF JoystickInv, HeldIsJoy, TimerInTime

\* The timer keeps the second input only if the timeout has not passed, so that
\* it is due again in time.
LEMMA MuxTimerKeeps ==
  ASSUME JoystickInv, muxTimer \/ muxTimerRos1, UNCHANGED <<now, interrupt>>
  PROVE  JoystickInv'
<1>1. \/ mux' = [mux EXCEPT !.selected = Selected]
      \/ \E found \in SUBSET (Inputs \ mux.subscribed) :
           mux' = [mux EXCEPT !.selected = Selected, !.subscribed = @ \cup found]
  BY DEF muxTimer, muxTimerRos1
<1>2. /\ UNCHANGED <<now, joy, held, input, twist, relayed>>
      /\ now >= timer /\ timer' = timer + MuxPeriod
  BY DEF muxTimer, muxTimerRos1, interrupt
<1>3. /\ JoyTimeout \in Nat /\ MuxPeriod \in Nat /\ MuxLate \in Nat
      /\ now \in Nat /\ timer \in Int /\ mux.joy \in Nat
  BY JoystickAssumption DEF JoystickInv, JoystickTypeOK
<1>4. Selected \in Inputs /\ (Selected # 0 => now - mux.joy <= JoyTimeout)
  BY <1>3 DEF Selected, Inputs, JoystickInv, JoystickTypeOK
<1>5. mux'.joy = mux.joy /\ mux'.selected = Selected
  BY <1>1 DEF JoystickInv, JoystickTypeOK
<1>6. mux' \in [joy : Nat, selected : Inputs, advertised : BOOLEAN, subscribed : SUBSET Inputs]
  BY <1>1, <1>4 DEF JoystickInv, JoystickTypeOK
<1>7. JoystickTypeOK'
  BY <1>2, <1>3, <1>6 DEF JoystickInv, JoystickTypeOK
<1>8. TimerInTime'
  BY <1>2, <1>3, <1>4, <1>5 DEF JoystickInv, TimerInTime
<1>9. QED
  BY <1>2, <1>7, <1>8 DEF JoystickInv, HeldIsJoy

\* Time goes on only until the timer is as late as it may be.
LEMMA TickKeeps ==
  ASSUME JoystickInv, JoyTick
  PROVE  JoystickInv'
<1>1. /\ UNCHANGED <<joy, held, mux, timer, input, twist, relayed>>
      /\ now < timer + MuxLate /\ now' = now + 1
  BY DEF JoyTick, interrupt
<1>2. MuxLate \in Nat /\ MuxPeriod \in Nat /\ now \in Nat /\ timer \in Int
  BY JoystickAssumption DEF JoystickInv, JoystickTypeOK
<1>3. QED
  BY <1>1, <1>2 DEF JoystickInv, JoystickTypeOK, HeldIsJoy, TimerInTime

\* Every step keeps the invariant.
LEMMA StepKeepsJoystick ==
  ASSUME JoystickInv, [JoystickNext]_joystickVars
  PROVE  JoystickInv'
<1>1. CASE (JoystickInterrupt \/ JoystickInterruptRos1) /\ UNCHANGED <<now, mux, relayed, timer>>
  BY <1>1, InterruptKeeps DEF JoystickInterrupt, JoystickInterruptRos1
<1>2. CASE (JoystickMux \/ JoystickMuxRos1) /\ UNCHANGED <<now, interrupt>>
  BY <1>2, MuxJoyKeeps, MuxTopicKeeps, MuxTimerKeeps DEF JoystickMux, JoystickMuxRos1
<1>3. CASE JoyTick
  BY <1>3, TickKeeps
<1>4. CASE UNCHANGED joystickVars
  BY <1>4 DEF joystickVars, JoystickInv, JoystickTypeOK, HeldIsJoy, TimerInTime
<1>5. QED
  BY <1>1, <1>2, <1>3, <1>4 DEF JoystickNext

\* The invariant holds at all times.
LEMMA JoystickInvariant ==
  JoystickSpec => []JoystickInv
<1>1. JoystickInit => JoystickInv
  BY InitJoystick
<1>2. JoystickInv /\ [JoystickNext]_joystickVars => JoystickInv'
  BY StepKeepsJoystick
<1>3. QED
  BY <1>1, <1>2, PTL DEF JoystickSpec

-----------------------------------------------------------------------------

\* While the button is held, cbTwist passes no velocity of the navigation on, in
\* either version of joystick_interrupt: the joystick was silent for longer than
\* the timeout, or cbJoy has seen the button released.
THEOREM NavigationWaits ==
  JoystickSpec => InputWaitsForJoystick
<1>1. JoystickInv /\ [JoystickNext]_joystickVars
        => [twist' # twist /\ twist'[1] = "input"
              => held' = None \/ held = 0 \/ now - held > JoyTimeout]_joystickVars
  <2> SUFFICES ASSUME JoystickInv, JoystickNext, twist' # twist, twist'[1] = "input"
               PROVE  held' = None \/ held = 0 \/ now - held > JoyTimeout
    BY DEF joystickVars
  <2>1. ASSUME cbJoy
        PROVE  held' = None
    BY <2>1 DEF cbJoy, JoyInvalid, JoyReleased, JoyHeld
  <2>2. ASSUME cbTwist
        PROVE  held' = None \/ held = 0 \/ now - held > JoyTimeout
    <3>1. TimedOut /\ held' = held
      BY <2>2 DEF cbTwist
    <3>2. held = None \/ joy = held
      BY DEF JoystickInv, HeldIsJoy
    <3>3. QED
      BY <3>1, <3>2 DEF TimedOut, NoJoy
  <2>3. ~(JoystickMux \/ JoystickMuxRos1) \/ ~UNCHANGED <<now, interrupt>>
    BY DEF interrupt
  <2>4. ~JoyTick
    BY DEF JoyTick, interrupt
  <2>5. QED
    BY <2>1, <2>2, <2>3, <2>4 DEF JoystickNext, JoystickInterrupt, JoystickInterruptRos1
<1>2. QED
  BY <1>1, JoystickInvariant, PTL DEF JoystickSpec, InputWaitsForJoystick

\* The multiplexer never stays on its second input for longer than the timeout,
\* one period of its timer and what the timer is late, after the last message of
\* the joystick.
THEOREM SelectionFallsBack ==
  JoystickSpec => []MuxFallsBack
<1>1. JoystickInv => MuxFallsBack
  BY JoystickAssumption DEF JoystickInv, JoystickTypeOK, TimerInTime, MuxFallsBack
<1>2. QED
  BY <1>1, JoystickInvariant, PTL

-----------------------------------------------------------------------------
(* The odometry *)

Poses == [x : Int, y : Int, z : Int, yaw : Int]

\* What the node keeps are poses, the robot stays on its plane and the yaw of the
\* raw odometry is one of the quarters.
Typed ==
  /\ offset \in Int
  /\ raw \in Poses /\ raw.z = 0 /\ raw.yaw \in 0..3
  /\ rawPrev \in Poses /\ rawPrev.z = 0
  /\ prev \in Poses /\ first \in Poses /\ height \in Int /\ imu \in Int

\* Without odometry there is only one raw pose.
Stays == without => rawPrev = Origin /\ (hasOdom => first = Origin)

WayInv == Typed /\ Stays /\ WholeWay

-----------------------------------------------------------------------------
(* Turns *)

\* A turn by quarters stays on the grid.
LEMMA TurnStays ==
  ASSUME NEW a \in Int, NEW b \in Int, NEW q \in Int
  PROVE  Turned(<<a, b>>, q)[1] \in Int /\ Turned(<<a, b>>, q)[2] \in Int
<1>1. q % 4 = 0 \/ q % 4 = 1 \/ q % 4 = 2 \/ q % 4 = 3
  OBVIOUS
<1>2. QED
  BY <1>1 DEF Turned

\* A turn by quarters takes sums to sums.
LEMMA TurnAdds ==
  ASSUME NEW a \in Int, NEW b \in Int, NEW c \in Int, NEW d \in Int, NEW q \in Int,
         NEW e, e = a + c, NEW f, f = b + d
  PROVE  /\ Turned(<<e, f>>, q)[1] = Turned(<<a, b>>, q)[1] + Turned(<<c, d>>, q)[1]
         /\ Turned(<<e, f>>, q)[2] = Turned(<<a, b>>, q)[2] + Turned(<<c, d>>, q)[2]
<1>1. q % 4 = 0 \/ q % 4 = 1 \/ q % 4 = 2 \/ q % 4 = 3
  OBVIOUS
<1>2. ASSUME q % 4 = 0
      PROVE  \A u : Turned(u, q) = u
  BY <1>2 DEF Turned
<1>3. ASSUME q % 4 = 1
      PROVE  \A u : Turned(u, q) = <<-u[2], u[1]>>
  BY <1>3 DEF Turned
<1>4. ASSUME q % 4 = 2
      PROVE  \A u : Turned(u, q) = <<-u[1], -u[2]>>
  BY <1>4 DEF Turned
<1>5. ASSUME q % 4 = 3
      PROVE  \A u : Turned(u, q) = <<u[2], -u[1]>>
  BY <1>5 DEF Turned
<1>6. QED
  BY <1>1, <1>2, <1>3, <1>4, <1>5

\* Turns by equally many quarters modulo a whole turn are the same, and what
\* stays where it is stays there after a turn.
LEMMA TurnModulo ==
  ASSUME NEW q \in Int, NEW r \in Int, q % 4 = r % 4, NEW u
  PROVE  Turned(u, q) = Turned(u, r)
BY DEF Turned

\* To turn nothing gives nothing.
LEMMA TurnOfNothing ==
  ASSUME NEW q \in Int
  PROVE  Turned(<<0, 0>>, q) = <<0, 0>>
<1>1. q % 4 = 0 \/ q % 4 = 1 \/ q % 4 = 2 \/ q % 4 = 3
  OBVIOUS
<1>2. QED
  BY <1>1 DEF Turned

\* The IMU and the odometry of one moment differ by the offset.
LEMMA QuartersOfOffset ==
  ASSUME NEW a \in 0..3, NEW o \in Int
  PROVE  (((a + o) % 4) - a) % 4 = o % 4
OBVIOUS

-----------------------------------------------------------------------------
(* The callbacks *)

\* A message of the raw odometry that is fused leads as far as the raw pose went.
LEMMA FusedLeads ==
  ASSUME WayInv, hasOdom, NEW msg \in Poses, msg.z = 0, imu' \in Int,
         \/ (imu' - msg.yaw) % 4 = offset % 4
         \/ msg = rawPrev
  PROVE  /\ Fused(msg) \in Poses
         /\ Fused(msg).z = height
         /\ LET u == Turned(<<msg.x - first.x, msg.y - first.y>>, offset)
            IN  <<Fused(msg).x, Fused(msg).y>> = <<first.x + u[1], first.y + u[2]>>
<1> DEFINE q == imu' - msg.yaw
           way == <<msg.x - rawPrev.x, msg.y - rawPrev.y>>
           old == <<rawPrev.x - first.x, rawPrev.y - first.y>>
           all == <<msg.x - first.x, msg.y - first.y>>
<1>1. /\ offset \in Int /\ q \in Int /\ msg.yaw \in Int
      /\ msg.x \in Int /\ msg.y \in Int /\ first.x \in Int /\ first.y \in Int
      /\ rawPrev.x \in Int /\ rawPrev.y \in Int /\ rawPrev.z = 0
      /\ prev.x \in Int /\ prev.y \in Int /\ prev.z \in Int
  BY DEF WayInv, Typed, Poses
<1>2. Turned(way, q) = Turned(way, offset)
  <2>1. CASE q % 4 = offset % 4
    BY <1>1, <2>1, TurnModulo
  <2>2. CASE msg = rawPrev
    <3>1. way = <<0, 0>>
      BY <1>1, <2>2
    <3>2. QED
      BY <1>1, <3>1, TurnOfNothing
  <2>3. QED
    BY <2>1, <2>2
<1>3. /\ Fused(msg).x = prev.x + Turned(way, offset)[1]
      /\ Fused(msg).y = prev.y + Turned(way, offset)[2]
      /\ Fused(msg).z = prev.z
      /\ Fused(msg) = [x |-> prev.x + Turned(way, offset)[1],
                       y |-> prev.y + Turned(way, offset)[2],
                       z |-> prev.z + msg.z - rawPrev.z, yaw |-> imu']
  BY <1>1, <1>2 DEF Fused
<1>4. /\ prev.x = first.x + Turned(old, offset)[1]
      /\ prev.y = first.y + Turned(old, offset)[2]
      /\ prev.z = height
  BY DEF WayInv, WholeWay
<1>5. /\ rawPrev.x - first.x \in Int /\ rawPrev.y - first.y \in Int
      /\ msg.x - rawPrev.x \in Int /\ msg.y - rawPrev.y \in Int
  BY <1>1
<1>6. /\ Turned(way, offset)[1] \in Int /\ Turned(way, offset)[2] \in Int
      /\ Turned(old, offset)[1] \in Int /\ Turned(old, offset)[2] \in Int
  <2>1. Turned(way, offset)[1] \in Int /\ Turned(way, offset)[2] \in Int
    BY <1>1, <1>5, TurnStays
  <2>2. Turned(old, offset)[1] \in Int /\ Turned(old, offset)[2] \in Int
    BY <1>1, <1>5, TurnStays
  <2>3. QED
    BY <2>1, <2>2
<1>7. /\ Turned(all, offset)[1] = Turned(old, offset)[1] + Turned(way, offset)[1]
      /\ Turned(all, offset)[2] = Turned(old, offset)[2] + Turned(way, offset)[2]
  <2>1. ASSUME NEW a, NEW b, NEW c, NEW d, NEW e, NEW f,
               a = rawPrev.x - first.x, b = rawPrev.y - first.y,
               c = msg.x - rawPrev.x, d = msg.y - rawPrev.y,
               e = msg.x - first.x, f = msg.y - first.y
        PROVE  /\ Turned(<<e, f>>, offset)[1]
                    = Turned(<<a, b>>, offset)[1] + Turned(<<c, d>>, offset)[1]
               /\ Turned(<<e, f>>, offset)[2]
                    = Turned(<<a, b>>, offset)[2] + Turned(<<c, d>>, offset)[2]
    <3>1. a \in Int /\ b \in Int /\ c \in Int /\ d \in Int /\ e = a + c /\ f = b + d
      BY <1>1, <2>1
    <3>2. QED
      BY <1>1, <3>1, TurnAdds
  <2>2. QED
    BY <2>1
<1>8. Fused(msg) \in Poses
  BY <1>1, <1>3, <1>6 DEF Poses
<1>9. <<Fused(msg).x, Fused(msg).y>>
        = <<first.x + Turned(all, offset)[1], first.y + Turned(all, offset)[2]>>
  <2> HIDE DEF q, way, old, all
  <2>1. QED
    BY <1>1, <1>3, <1>4, <1>6, <1>7
<1>10. QED
  BY <1>3, <1>4, <1>8, <1>9

\* processOdom keeps the invariant's parts about what it changes.
LEMMA OdomLeads ==
  ASSUME WayInv, NEW msg \in Poses, msg.z = 0, imu' \in Int, processOdom(msg),
         UNCHANGED offset,
         hasImu' => \/ (imu' - msg.yaw) % 4 = offset % 4
                    \/ msg = rawPrev
  PROVE  /\ rawPrev' \in Poses /\ rawPrev'.z = 0 /\ rawPrev' \in {rawPrev, msg}
         /\ first' \in Poses /\ first' \in {first, msg} /\ (~hasOdom => first' = msg)
         /\ prev' \in Poses /\ height' \in Int
         /\ WholeWay'
<1>1. CASE ~hasOdom
  <2>1. rawPrev' = msg /\ prev' = msg /\ first' = msg /\ height' = msg.z
    BY <1>1 DEF processOdom
  <2>2. msg.x \in Int /\ msg.y \in Int /\ msg.z \in Int /\ offset' \in Int
    BY DEF Poses, WayInv, Typed
  <2>3. <<rawPrev'.x - first'.x, rawPrev'.y - first'.y>> = <<0, 0>>
    BY <2>1, <2>2
  <2>4. Turned(<<rawPrev'.x - first'.x, rawPrev'.y - first'.y>>, offset') = <<0, 0>>
    BY <2>2, <2>3, TurnOfNothing
  <2>5. WholeWay'
    BY <2>1, <2>2, <2>4 DEF WholeWay
  <2>6. QED
    BY <1>1, <2>1, <2>2, <2>5
<1>2. CASE hasOdom /\ ~hasImu'
  <2>1. UNCHANGED <<rawPrev, prev, first, height, hasOdom>>
    BY <1>2 DEF processOdom, KeptWithoutImu
  <2>2. QED
    BY <1>2, <2>1 DEF WayInv, Typed, WholeWay
<1>3. CASE hasOdom /\ hasImu'
  <2>1. /\ rawPrev' = msg /\ prev' = Fused(msg)
        /\ UNCHANGED <<first, height, hasOdom>>
    BY <1>3 DEF processOdom
  <2>2. /\ Fused(msg) \in Poses
        /\ Fused(msg).z = height
        /\ LET u == Turned(<<msg.x - first.x, msg.y - first.y>>, offset)
           IN  <<Fused(msg).x, Fused(msg).y>> = <<first.x + u[1], first.y + u[2]>>
    BY <1>3, FusedLeads
  <2>3. WholeWay'
    BY <2>1, <2>2 DEF WholeWay
  <2>4. QED
    BY <1>3, <2>1, <2>2, <2>3 DEF WayInv, Typed
<1>4. QED
  BY <1>1, <1>2, <1>3

\* A step keeps the invariant.
LEMMA StepKeepsWay ==
  ASSUME WayInv, [OdometryNext]_odometryVars
  PROVE  WayInv'
<1> USE DEF settings, filter
<1>1. ASSUME cbResetZ
      PROVE  WayInv'
  <2>1. PICK z \in Heights : /\ prev' = [prev EXCEPT !.z = z]
                             /\ height' = IF hasOdom THEN z ELSE height
    BY <1>1 DEF cbResetZ
  <2>2. UNCHANGED <<offset, without, raw, imu, hasOdom, rawPrev, first>>
    BY <1>1 DEF cbResetZ
  <2>3. z \in Int /\ prev \in Poses /\ height \in Int
    BY OdometryAssumption DEF WayInv, Typed
  <2>4. /\ prev' \in Poses /\ prev'.x = prev.x /\ prev'.y = prev.y /\ prev'.z = z
        /\ height' \in Int /\ (hasOdom => height' = z)
    BY <2>1, <2>3 DEF Poses
  <2>5. WholeWay'
    BY <2>2, <2>4 DEF WayInv, WholeWay
  <2>6. QED
    BY <2>2, <2>4, <2>5 DEF WayInv, Typed, Stays
<1>2. ASSUME cbOdomImu
      PROVE  WayInv'
  <2>1. /\ ~without /\ processOdom(raw)
        /\ UNCHANGED <<offset, without, raw>>
    BY <1>2 DEF cbOdomImu
  <2>2. /\ raw \in Poses /\ raw.z = 0 /\ raw.yaw \in 0..3 /\ offset \in Int /\ imu \in Int
    BY DEF WayInv, Typed
  <2>3. PICK ok \in BOOLEAN : processImu(ok)
    BY <1>2 DEF cbOdomImu
  <2>4. /\ imu' \in Int
        /\ hasImu' => imu' = (raw.yaw + offset) % 4
    <3>1. (raw.yaw + offset) % 4 \in Int
      BY <2>2
    <3>2. QED
      BY <2>2, <2>3, <3>1 DEF processImu
  <2>5. hasImu' => (imu' - raw.yaw) % 4 = offset % 4
    BY <2>2, <2>4, QuartersOfOffset
  <2>6. /\ rawPrev' \in Poses /\ rawPrev'.z = 0
        /\ first' \in Poses /\ prev' \in Poses /\ height' \in Int
        /\ WholeWay'
    BY <2>1, <2>2, <2>4, <2>5, OdomLeads
  <2>7. QED
    BY <2>1, <2>2, <2>4, <2>6 DEF WayInv, Typed, Stays
<1>3. ASSUME cbImu
      PROVE  WayInv'
  <2>1. UNCHANGED <<offset, without, raw, hasOdom, rawPrev, prev, first, height>>
    BY <1>3 DEF cbImu
  <2>2. PICK ok \in BOOLEAN : processImu(ok)
    BY <1>3 DEF cbImu
  <2>3. imu' \in Int
    <3>1. imu \in Int /\ (raw.yaw + offset) % 4 \in Int
      BY DEF WayInv, Typed
    <3>2. QED
      BY <2>2, <3>1 DEF processImu
  <2>4. QED
    BY <2>1, <2>3 DEF WayInv, Typed, Stays, WholeWay
<1>4. ASSUME cbTimer
      PROVE  WayInv'
  <2>1. /\ without /\ processOdom(Origin)
        /\ UNCHANGED <<offset, without, raw, imu>>
    BY <1>4 DEF cbTimer
  <2>2. Origin \in Poses /\ Origin.z = 0 /\ rawPrev = Origin
    BY <2>1 DEF Origin, Poses, WayInv, Stays
  <2>3. imu' \in Int
    BY <2>1 DEF WayInv, Typed
  <2>4. /\ rawPrev' \in Poses /\ rawPrev'.z = 0 /\ rawPrev' \in {rawPrev, Origin}
        /\ first' \in Poses /\ first' \in {first, Origin} /\ (~hasOdom => first' = Origin)
        /\ prev' \in Poses /\ height' \in Int
        /\ WholeWay'
    BY <2>1, <2>2, <2>3, OdomLeads
  <2>5. Stays'
    BY <2>1, <2>2, <2>4 DEF WayInv, Stays
  <2>6. QED
    BY <2>1, <2>3, <2>4, <2>5 DEF WayInv, Typed
<1>5. ASSUME Drive
      PROVE  WayInv'
  <2>1. UNCHANGED <<offset, without, imu, hasOdom, rawPrev, prev, first, height>>
    BY <1>5 DEF Drive
  <2>2. raw' \in Poses /\ raw'.z = 0 /\ raw'.yaw \in 0..3
    <3> DEFINE u == Turned(<<1, 0>>, raw.yaw)
    <3>1. /\ raw \in Poses /\ raw.z = 0 /\ raw.yaw \in 0..3 /\ raw.yaw \in Int
      BY DEF WayInv, Typed
    <3>2. u[1] \in Int /\ u[2] \in Int
      BY <3>1, TurnStays
    <3>3. \/ raw' = [raw EXCEPT !.x = @ + u[1], !.y = @ + u[2]]
          \/ raw' = [raw EXCEPT !.yaw = (@ + 1) % 4]
      BY <1>5 DEF Drive
    <3> HIDE DEF u
    <3>4. (raw.yaw + 1) % 4 \in 0..3
      BY <3>1
    <3>5. ASSUME raw' = [raw EXCEPT !.x = @ + u[1], !.y = @ + u[2]]
          PROVE  raw' \in Poses /\ raw'.z = 0 /\ raw'.yaw \in 0..3
      <4>1. raw.x + u[1] \in Int /\ raw.y + u[2] \in Int
        BY <3>1, <3>2 DEF Poses
      <4>2. QED
        BY <3>1, <3>5, <4>1 DEF Poses
    <3>6. ASSUME raw' = [raw EXCEPT !.yaw = (@ + 1) % 4]
          PROVE  raw' \in Poses /\ raw'.z = 0 /\ raw'.yaw \in 0..3
      BY <3>1, <3>4, <3>6 DEF Poses
    <3>7. QED
      BY <3>3, <3>5, <3>6
  <2>3. QED
    BY <2>1, <2>2 DEF WayInv, Typed, Stays, WholeWay
<1>6. ASSUME UNCHANGED odometryVars
      PROVE  WayInv'
  BY <1>6 DEF odometryVars, WayInv, Typed, Stays, WholeWay
<1>7. QED
  BY <1>1, <1>2, <1>3, <1>4, <1>5, <1>6
     DEF OdometryNext, TrackOdometryNode, TrackOdometryNodeRos1, Callbacks

-----------------------------------------------------------------------------

\* Whatever messages are lost or come without the IMU's transform, whenever the
\* height is reset, in both versions of the node and with or without odometry:
\* processOdom publishes the position that the whole way leads to, turned by the
\* IMU's offset.
THEOREM LeadsTheWholeWay ==
  OdometrySpec => []WholeWay
<1>1. OdometryInit => WayInv
  BY OdometryAssumption DEF OdometryInit, WayInv, Typed, Stays, WholeWay, Poses, Origin, NoPose,
     settings, filter
<1>2. WayInv /\ [OdometryNext]_odometryVars => WayInv'
  BY StepKeepsWay
<1>3. WayInv => WholeWay
  BY DEF WayInv
<1>4. QED
  BY <1>1, <1>2, <1>3, PTL DEF OdometrySpec
-----------------------------------------------------------------------------
(* The odometry timeout of the tracker *)

\* The robot is only driven while the timer counts the time since the odometry
\* that drove it; without use_odom nothing counts.
DrivenInTime ==
  /\ node \in Nodes /\ odomAge \in Nat
  /\ ~node.odom => odomAge = 0
  /\ OdomTimeout > 0 /\ node.odom /\ cmd # 0
       => odomTimer = odomAge /\ odomAge <= OdomTimeout + OdomLate

\* Messages, parameters and the timer of a robot without odometry leave the timeout alone.
LEMMA OthersKeepDriven ==
  ASSUME DrivenInTime,
         UNCHANGED <<node, odomTimer, odomAge>>,
         UNCHANGED cmd \/ ~node.odom
  PROVE  DrivenInTime'
BY DEF DrivenInTime

\* With every odometry the timer starts anew, the first one included.
LEMMA OdometryKeepsDriven ==
  ASSUME DrivenInTime, cbOdometry \/ cbOdometryRos1
  PROVE  DrivenInTime'
<1>1. odomTimer' = Armed /\ odomAge' = 0 /\ UNCHANGED node
  BY DEF cbOdometry, cbOdometryRos1, Odometry
<1>2. OdomTimeout \in Nat /\ OdomLate \in Nat
  BY TrackerAssumption
<1>3. QED
  BY <1>1, <1>2 DEF DrivenInTime, Armed

\* The timeout stops the robot, whether its timer goes on or not.
LEMMA TimeoutKeepsDriven ==
  ASSUME DrivenInTime, cbOdomTimeout \/ cbOdomTimeoutRos1
  PROVE  DrivenInTime'
<1>1. cmd' = 0 /\ UNCHANGED <<node, odomAge>>
  BY DEF cbOdomTimeout, cbOdomTimeoutRos1, Stop
<1>2. QED
  BY <1>1 DEF DrivenInTime

\* Time goes on only until the timer is as late as it may be.
LEMMA TrackerTickKeepsDriven ==
  ASSUME DrivenInTime, TrackerTick
  PROVE  DrivenInTime'
<1>1. /\ node.odom /\ odomTimer < OdomTimeout + OdomLate
      /\ odomAge' = odomAge + 1
      /\ odomTimer' = IF odomTimer = Off THEN Off ELSE odomTimer + 1
      /\ UNCHANGED <<node, cmd>>
  BY DEF TrackerTick
<1>2. OdomTimeout \in Nat /\ OdomLate \in Nat
  BY TrackerAssumption
<1>3. QED
  BY <1>1, <1>2 DEF DrivenInTime, Off

\* When no odometry came for longer than the timeout and what its timer is late, the
\* last velocity sent is zero: cbOdomTimeout was served after the last odometry
\* that drove the robot, on ROS 1, where it fires once, as on ROS 2.
THEOREM OdometryLossIsNoticed ==
  TrackerSpec => []OdometryLossStops
<1>1. TrackerInit => DrivenInTime
  BY DEF TrackerInit, DrivenInTime
<1>2. DrivenInTime /\ [TrackerNext]_trackerVars => DrivenInTime'
  <2> SUFFICES ASSUME DrivenInTime, [TrackerNext]_trackerVars
               PROVE  DrivenInTime'
    OBVIOUS
  <2>1. CASE cbPath \/ cbSpeed \/ updateParameters \/ cbParameterRos1
    BY <2>1, OthersKeepDriven DEF cbPath, cbSpeed, updateParameters, cbParameterRos1, setParameters
  <2>2. CASE cbOdometry \/ cbOdometryRos1
    BY <2>2, OdometryKeepsDriven
  <2>3. CASE cbOdomTimeout \/ cbOdomTimeoutRos1
    BY <2>3, TimeoutKeepsDriven
  <2>4. CASE cbTrackerTimer \/ cbTrackerTimerRos1
    BY <2>4, OthersKeepDriven DEF cbTrackerTimer, cbTrackerTimerRos1, TimerStep
  <2>5. CASE TrackerTick
    BY <2>5, TrackerTickKeepsDriven
  <2>6. CASE UNCHANGED trackerVars
    BY <2>6, OthersKeepDriven DEF trackerVars
  <2>7. QED
    BY <2>1, <2>2, <2>3, <2>4, <2>5, <2>6 DEF TrackerNext
<1>3. DrivenInTime => OdometryLossStops
  BY TrackerAssumption DEF DrivenInTime, OdometryLossStops
<1>4. QED
  BY <1>1, <1>2, <1>3, PTL DEF TrackerSpec


-----------------------------------------------------------------------------
(* The safety limiter: types *)

\* What the proofs use of the constants.
LEMMA ConstantTypes ==
  /\ Full \in Nat /\ Full > 0
  /\ Period \in Nat /\ Late \in Nat /\ Late < Period
  /\ Params \subseteq [hold : Nat, period : Nat \ {0}] /\ Delays \subseteq Nat
  /\ Timeout \in Nat /\ DisableTimeout \in Nat /\ WatchdogInterval \in Nat
  /\ MaxAge \in Nat /\ MaxAge = Timeout + Period + Late + 1
  BY LimiterAssumption DEF LimiterAssumption, MaxAge

\* What the node publishes is a ratio and a mark.
LEMMA CommandType ==
  \A ratio \in Ratios, m \in Modes :
    Command(ratio, m) \in [ratio : Ratios, mode : Modes]
  BY DEF Command

\* A hold time is a time, and no shorter than a period of freq.
LEMMA HoldTypes ==
  \A p \in Params :
    p.period \in Nat /\ HoldOf(p) \in Nat /\ HoldOf(p) >= p.period
  BY ConstantTypes DEF HoldOf, GreaterOf

\* Whatever the parameters, the hold time is the longer of the two.
HoldTyped == period \in Nat /\ holdTime \in Nat /\ holdTime >= period

\* The command to stop is one of them.
LEMMA StopType == StopCommand \in [ratio : Ratios, mode : Modes]
  BY ConstantTypes, CommandType DEF StopCommand, Modes, Ratios

\* The variables keep their types, whatever the order of the callbacks.
THEOREM TypeCorrect == Spec => []TypeOK
<1>1. Init => TypeOK
  <2> SUFFICES ASSUME Init PROVE TypeOK
    OBVIOUS
  <2>1. hasCloud \in BOOLEAN /\ clear \in BOOLEAN /\ stop \in BOOLEAN /\ forgotten \in BOOLEAN
    BY DEF Init
  <2>2. \E p \in Params : period = p.period /\ holdTime = HoldOf(p)
    BY DEF Init
  <2> QED
    BY <2>1, <2>2, ConstantTypes, StopType DEF Init, TypeOK, Ratios
<1>2. TypeOK /\ [Next]_vars => TypeOK'
  <2> SUFFICES ASSUME TypeOK, [Next]_vars PROVE TypeOK'
    OBVIOUS
  <2>0. HoldTyped
    BY HoldTypes DEF TypeOK, HoldTyped
  <2> USE ConstantTypes DEF TypeOK, Ratios, Frames
  <2>1. CASE Tick
    BY <2>1 DEF Tick, Left
  <2>2. CASE PredictTimer
    <3>0. /\ phase' \in 0..(Period + Late)
          /\ UNCHANGED <<period, holdTime, age, stop, disabled, watchdog>>
      BY <2>2 DEF PredictTimer, PredictDue
    <3>1. CASE hasCloud /\ PredictTimeout
      <4>1. hasCloud' \in BOOLEAN /\ forgotten' \in BOOLEAN
        BY <3>1 DEF PredictTimeout
      <4> QED
        BY <3>0, <3>1, <4>1, StopType DEF PredictTimeout
    <3>2. CASE hasCloud /\ Predict
      <4>1. PICK ratio \in Ratios :
              /\ rlim' = SmallerOf(ratio, rlim)
              /\ hold' = IF ratio < Full THEN holdTime + 1 ELSE hold
              /\ demand' = ratio /\ since' = 0 /\ forgotten' = FALSE
              /\ \/ cloud' = {"base"}
                 \/ UNCHANGED <<cloud>>
        BY <3>2 DEF Predict, Predicted
      <4>2. rlim' \in Ratios /\ hold' \in Nat /\ demand' \in Ratios
        BY <2>0, <4>1 DEF SmallerOf, HoldTyped
      <4>3. cloud' \subseteq Frames /\ since' \in Nat /\ forgotten' \in BOOLEAN
        BY <4>1
      <4> QED
        BY <3>0, <3>2, <4>2, <4>3 DEF Predict
    <3>3. CASE UNCHANGED <<out, cloud, hasCloud, rlim, hold, clear, history>>
      BY <3>0, <3>3 DEF history
    <3> QED
      BY <2>2, <3>1, <3>2, <3>3 DEF PredictTimer
  <2>3. CASE WatchdogTimer
    BY <2>3, StopType DEF WatchdogTimer, WatchdogDue, history
  <2>4. CASE Twist
    <3>1. out' \in [ratio : Ratios, mode : Modes]
      BY <2>4, StopType, CommandType DEF Twist, Modes
    <3>2. rlim' \in Ratios
      BY <2>4 DEF Twist
    <3> QED
      BY <2>4, <3>1, <3>2 DEF Twist, history
  <2>5. CASE Disable
    BY <2>5 DEF Disable, history
  <2>6. CASE Cloud
    <3>1. hasCloud' \in BOOLEAN /\ clear' \in BOOLEAN
      BY <2>6 DEF Cloud
    <3>2. cloud' \subseteq Frames
      BY <2>6 DEF Cloud, Accumulated
    <3>3. age' \in 0..MaxAge
      BY <2>6 DEF Cloud, SmallerOf
    <3> QED
      BY <2>6, <3>1, <3>2, <3>3 DEF Cloud, history
  <2>7. CASE WatchdogReset
    <3>1. stop' \in BOOLEAN
      BY <2>7 DEF WatchdogReset
    <3> QED
      BY <2>7, <3>1 DEF WatchdogReset, history
  <2>8. CASE UpdateParameters
    <3>1. rlim' \in Ratios /\ forgotten' \in BOOLEAN
      BY <2>8 DEF UpdateParameters
    <3>2. \E p \in Params : period' = p.period /\ holdTime' = HoldOf(p)
      BY <2>8 DEF UpdateParameters
    <3> QED
      BY <2>8, <3>1, <3>2 DEF UpdateParameters
  <2>9. CASE UNCHANGED vars
    BY <2>9 DEF vars, history
  <2> QED
    BY <2>1, <2>2, <2>3, <2>4, <2>5, <2>6, <2>7, <2>8, <2>9 DEF Next
<1> QED
  BY <1>1, <1>2, PTL DEF Spec

-----------------------------------------------------------------------------
(* The limit *)

\* LimitHolds is not inductive: it needs that hold_off_ is the hold time ahead of
\* the prediction, and that the hold time covers a period of freq.
LimitInv ==
  demand < Full /\ ~forgotten /\ since <= holdTime
    => rlim <= demand /\ hold + since >= holdTime + 1

\* Every command within the hold time of a prediction, and within a period of
\* freq, respects the ratio that the prediction demands, whatever the parameters
\* are: cbTwist relaxes it only later, and updateParameters takes the longer of
\* the two times for the hold time.
THEOREM LimitIsHeld == Spec => []LimitHolds
<1>1. Init => LimitInv
  BY ConstantTypes DEF Init, LimitInv
<1>2. TypeOK /\ LimitInv /\ [Next]_vars => LimitInv'
  <2> SUFFICES ASSUME TypeOK, LimitInv, [Next]_vars PROVE LimitInv'
    OBVIOUS
  <2>0. /\ holdTime \in Nat /\ hold \in Nat /\ since \in Nat /\ Full \in Nat
        /\ rlim \in 0..Full /\ demand \in 0..Full
    BY ConstantTypes, HoldTypes DEF TypeOK, Ratios
  <2>1. CASE Tick
    <3>1. /\ UNCHANGED <<rlim, holdTime, demand, forgotten>>
          /\ hold' = Left(hold)
          /\ since' = IF demand < Full THEN since + 1 ELSE since
      BY <2>1 DEF Tick
    <3> QED
      BY <2>0, <3>1 DEF LimitInv, Left
  <2>2. CASE PredictTimer
    <3>1. CASE hasCloud /\ PredictTimeout
      BY <2>0, <3>1 DEF PredictTimeout, LimitInv
    <3>2. CASE hasCloud /\ Predict
      <4>1. PICK ratio \in Ratios :
              /\ rlim' = SmallerOf(ratio, rlim)
              /\ hold' = IF ratio < Full THEN holdTime + 1 ELSE hold
              /\ demand' = ratio /\ since' = 0
        BY <3>2, ConstantTypes DEF Predict, Predicted, Ratios
      <4>2. holdTime' = holdTime
        BY <2>2 DEF PredictTimer
      <4>3. rlim' <= demand'
        BY <2>0, <4>1 DEF SmallerOf, Ratios
      <4>4. demand' < Full => hold' + since' >= holdTime' + 1
        BY <2>0, <4>1, <4>2
      <4> QED
        BY <4>3, <4>4 DEF LimitInv
    <3>3. CASE UNCHANGED <<out, cloud, hasCloud, rlim, hold, clear, history>>
      BY <2>2, <3>3 DEF PredictTimer, history, LimitInv
    <3> QED
      BY <2>2, <3>1, <3>2, <3>3 DEF PredictTimer
  <2>3. CASE WatchdogTimer
    BY <2>0, <2>3 DEF WatchdogTimer, history, LimitInv
  <2>4. CASE Twist
    <3>1. UNCHANGED <<hold, holdTime, demand, since, forgotten>>
      BY <2>4 DEF Twist, history
    <3>2. UNCHANGED rlim \/ hold = 0
      BY <2>4 DEF Twist, HoldPassed
    <3> QED
      BY <2>0, <3>1, <3>2 DEF LimitInv
  <2>5. CASE Disable
    BY <2>5 DEF Disable, history, LimitInv
  <2>6. CASE Cloud
    BY <2>6 DEF Cloud, history, LimitInv
  <2>7. CASE WatchdogReset
    BY <2>7 DEF WatchdogReset, history, LimitInv
  <2>8. CASE UpdateParameters
    BY <2>8 DEF UpdateParameters, LimitInv
  <2>9. CASE UNCHANGED vars
    BY <2>9 DEF vars, history, LimitInv
  <2> QED
    BY <2>1, <2>2, <2>3, <2>4, <2>5, <2>6, <2>7, <2>8, <2>9 DEF Next
<1>3. TypeOK /\ LimitInv => LimitHolds
  <2> SUFFICES ASSUME TypeOK, LimitInv PROVE LimitHolds
    OBVIOUS
  <2>1. period \in Nat /\ holdTime \in Nat /\ holdTime >= period
    BY HoldTypes DEF TypeOK
  <2>2. GreaterOf(holdTime, period) = holdTime
    BY <2>1 DEF GreaterOf
  <2> QED
    BY <2>2 DEF LimitInv, LimitHolds
<1> QED
  BY <1>1, <1>2, <1>3, TypeCorrect, PTL DEF Spec

-----------------------------------------------------------------------------
(* Loss of data *)

\* With no cloud or no watchdog reset the robot has been told to stop, unless
\* the safety function is disabled; every callback keeps it so.
THEOREM LossIsStopped == Spec => []DataLossStops
<1>1. Init => DataLossStops
  BY DEF Init, DataLossStops, StopCommand, Command
<1>2. DataLossStops /\ [Next]_vars => DataLossStops'
  <2> SUFFICES ASSUME DataLossStops, [Next]_vars PROVE DataLossStops'
    OBVIOUS
  <2> USE DEF DataLossStops
  <2>1. CASE Tick
    BY <2>1 DEF Tick
  <2>2. CASE PredictTimer
    BY <2>2 DEF PredictTimer, PredictTimeout, Predict, StopCommand, Command
  <2>3. CASE WatchdogTimer
    BY <2>3 DEF WatchdogTimer, StopCommand, Command
  <2>4. CASE Twist
    <3>1. CASE disabled > 0 /\ out' = Command(Full, "unguarded")
      BY <3>1 DEF Command
    <3>2. CASE ~MayDrive /\ out' = StopCommand
      BY <3>2 DEF StopCommand, Command
    <3>3. CASE MayDrive /\ UNCHANGED <<hasCloud, stop>>
      BY <3>3 DEF MayDrive
    <3> QED
      BY <2>4, <3>1, <3>2, <3>3 DEF Twist
  <2>5. CASE Disable
    BY <2>5 DEF Disable
  <2>6. CASE Cloud
    BY <2>6 DEF Cloud
  <2>7. CASE WatchdogReset
    BY <2>7 DEF WatchdogReset
  <2>8. CASE UpdateParameters
    BY <2>8 DEF UpdateParameters
  <2>9. CASE UNCHANGED vars
    BY <2>9 DEF vars
  <2> QED
    BY <2>1, <2>2, <2>3, <2>4, <2>5, <2>6, <2>7, <2>8, <2>9 DEF Next
<1> QED
  BY <1>1, <1>2, PTL DEF Spec

\* The newest cloud is older than the timeout by no more than the time since the
\* prediction timer last looked at it.
AgeInv == hasCloud => age <= Timeout + phase

\* No cloud arrives with a stamp that is older than the timeout.
FreshStamps == \A d \in Delays : d <= Timeout

\* If the stamps are fresh on arrival, the robot is told to stop within a period
\* of the prediction after the timeout of its newest cloud (cbPredictTimer).
THEOREM StaleCloudIsStopped == ASSUME FreshStamps PROVE Spec => []StaleCloudStops
<1>1. Init => AgeInv
  BY DEF Init, AgeInv
<1>2. TypeOK /\ AgeInv /\ [Next]_vars => AgeInv'
  <2> SUFFICES ASSUME TypeOK, AgeInv, [Next]_vars PROVE AgeInv'
    OBVIOUS
  <2> USE ConstantTypes DEF TypeOK, AgeInv
  <2>1. CASE Tick
    BY <2>1 DEF Tick
  <2>2. CASE PredictTimer
    <3>0. phase' \in Nat /\ age' = age
      BY <2>2 DEF PredictTimer, PredictDue
    <3>1. CASE hasCloud /\ PredictTimeout
      BY <3>1 DEF PredictTimeout
    <3>2. CASE hasCloud /\ Predict
      <4>1. age <= Timeout
        BY <3>2 DEF Predict, CloudTimedOut
      <4>2. age' <= Timeout + phase'
        <5>1. age' \in Int /\ Timeout \in Int /\ phase' \in Int
          BY <3>0
        <5>2. age' <= Timeout /\ 0 <= phase'
          BY <3>0, <4>1
        <5>3. \A a, t, p \in Int : a <= t /\ 0 <= p => a <= t + p
          OBVIOUS
        <5> QED
          BY <5>1, <5>2, <5>3
      <4> QED
        BY <4>2
    <3>3. CASE ~hasCloud /\ UNCHANGED hasCloud
      BY <3>3
    <3> QED
      BY <2>2, <3>1, <3>2, <3>3 DEF PredictTimer
  <2>3. CASE WatchdogTimer
    BY <2>3 DEF WatchdogTimer
  <2>4. CASE Twist
    BY <2>4 DEF Twist
  <2>5. CASE Disable
    BY <2>5 DEF Disable
  <2>6. CASE Cloud
    <3>1. PICK d \in Delays : age' = SmallerOf(d, MaxAge)
      BY <2>6 DEF Cloud
    <3>2. d \in Nat /\ d <= Timeout
      BY <3>1, FreshStamps DEF FreshStamps
    <3>3. phase' = phase
      BY <2>6 DEF Cloud
    <3> QED
      BY <3>1, <3>2, <3>3 DEF SmallerOf
  <2>7. CASE WatchdogReset
    BY <2>7 DEF WatchdogReset
  <2>8. CASE UpdateParameters
    BY <2>8 DEF UpdateParameters
  <2>9. CASE UNCHANGED vars
    BY <2>9 DEF vars
  <2> QED
    BY <2>1, <2>2, <2>3, <2>4, <2>5, <2>6, <2>7, <2>8, <2>9 DEF Next
<1>3. TypeOK /\ AgeInv /\ DataLossStops => StaleCloudStops
  <2> SUFFICES ASSUME TypeOK, AgeInv, DataLossStops,
                      out.ratio > 0, out.mode = "guarded"
               PROVE  age <= Timeout + Period + Late
    BY DEF StaleCloudStops
  <2>1. hasCloud
    BY DEF DataLossStops
  <2>2. phase \in Nat /\ age \in Nat /\ phase <= Period + Late
    BY ConstantTypes DEF TypeOK
  <2> QED
    BY <2>1, <2>2, ConstantTypes DEF AgeInv
<1> QED
  BY <1>1, <1>2, <1>3, TypeCorrect, LossIsStopped, PTL DEF Spec

\* A prediction on transformed points is always followed by a fresh cloud.
THEOREM CloudIsNotMixed == Spec => []CloudNotMixed
<1>1. Init => CloudNotMixed
  BY DEF Init, CloudNotMixed
<1>2. CloudNotMixed /\ [Next]_vars => CloudNotMixed'
  BY DEF CloudNotMixed, Next, vars, Tick, PredictTimer, PredictTimeout, Predict,
         WatchdogTimer, Twist, Disable, Cloud, Accumulated, WatchdogReset,
         UpdateParameters
<1> QED
  BY <1>1, <1>2, PTL DEF Spec
=============================================================================
