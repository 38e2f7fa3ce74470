-------------------------------- MODULE Joystick --------------------------------
(***************************************************************************)
(* joystick_interrupt and joystick_mux beside each other on one joystick:   *)
(* the first passes the velocities of the navigation on, unless the         *)
(* joystick's button is held, the second relays one of two topics.          *)
(*                                                                          *)
(* Times are those of the node's clock, bounded by LastTime; a clock that   *)
(* is simulated starts at 0, which is also the value of a last_joy_msg_     *)
(* that is not set.  A velocity is the time it was received at.             *)
(***************************************************************************)
EXTENDS Integers, RosVersion

CONSTANTS
  JoyTimeout,  \* timeout of both nodes
  MuxPeriod,   \* of the timer of joystick_mux
  MuxLate,     \* how late its timer may be served
  LastTime     \* bound of the clock

\* Times and durations are not negative.
ASSUME JoystickAssumption ==
  /\ JoyTimeout \in Nat /\ MuxPeriod \in Nat /\ MuxLate \in Nat /\ LastTime \in Nat

VARIABLES
  sim,      \* use_sim_time_
  now,      \* the clock
  joy,      \* joystick_interrupt's last_joy_msg_
  input,    \* last_input_twist_
  twist,    \* the last cmd_vel: <<source, when the source sent it>>
  passes,   \* the last interrupt_status
  mux,      \* joystick_mux's [joy, selected, advertised, subscribed]
  relayed,  \* the input that it relayed last, or None
  timer,    \* when its timer is due
  held      \* history: the last message with the button down, if it was not
            \* released since; None otherwise

interrupt    == <<joy, input, twist, passes, held>>
joystickVars == <<ros, sim, now, joy, input, twist, passes, mux, relayed, timer, held>>

None   == -1
NoJoy  == 0      \* Time(0)
Inputs == {0, 1}

JoystickTypeOK ==
  /\ now \in Nat /\ timer \in Int
  /\ joy \in Nat /\ held \in Int
  /\ input \in Int /\ twist \in {"none", "joy", "input"} \X Int
  /\ mux \in [joy : Nat, selected : Inputs, advertised : BOOLEAN, subscribed : SUBSET Inputs]
  /\ relayed \in {None} \cup Inputs

\* A wall clock is past every timeout when the nodes start.
JoystickInit ==
  /\ ros \in {1, 2} /\ sim \in BOOLEAN
  /\ now = IF sim THEN 0 ELSE JoyTimeout + 1
  /\ joy = NoJoy /\ input = None /\ twist = <<"none", None>> /\ passes = FALSE
  /\ mux = [joy |-> now, selected |-> 0, advertised |-> FALSE,
            subscribed |-> IF ros = 1 THEN Inputs ELSE {}]
  /\ relayed = None
  /\ timer = now + MuxPeriod
  /\ held = None

-----------------------------------------------------------------------------
(* joystick_interrupt *)

\* A message with too few buttons is worth a released one, without the replay.
JoyInvalid ==
  /\ joy' = NoJoy /\ held' = None
  /\ UNCHANGED <<input, twist, passes>>

\* The last input is published again, however old it is.
JoyReleased ==
  /\ twist' = IF joy # NoJoy THEN <<"input", input>> ELSE twist
  /\ joy' = NoJoy /\ held' = None
  /\ UNCHANGED <<input, passes>>

JoyHeld ==
  /\ joy' = now /\ held' = now
  /\ twist' = <<"joy", now>>
  /\ UNCHANGED <<input, passes>>

cbJoy == JoyInvalid \/ JoyReleased \/ JoyHeld

\* Mutant: the bound of the timeout counts as timed out.
TimedOutAtBound == now - joy >= JoyTimeout \/ (sim /\ joy = NoJoy)

TimedOut == now - joy > JoyTimeout \/ (sim /\ joy = NoJoy)

cbTwist ==
  /\ input' = now
  /\ twist' = IF TimedOut THEN <<"input", now>> ELSE twist
  /\ passes' = TimedOut
  /\ UNCHANGED <<joy, held>>

-----------------------------------------------------------------------------
(* joystick_mux *)

muxJoy ==
  /\ \E button \in Inputs : mux' = [mux EXCEPT !.joy = now, !.selected = button]
  /\ UNCHANGED <<relayed, timer>>

\* A message of one of the topics; before the node has found the topic's type it
\* is lost.
muxTopic ==
  /\ \E id \in mux.subscribed :
       IF mux.selected = id
       THEN mux' = [mux EXCEPT !.advertised = TRUE] /\ relayed' = id
       ELSE UNCHANGED <<mux, relayed>>
  /\ UNCHANGED timer

\* Mutant: the selection is never taken back.
SelectedForever == mux.selected

\* Without the joystick the first input is selected.
Selected == IF now - mux.joy > JoyTimeout THEN 0 ELSE mux.selected

\* Any of the topics that are not subscribed may have a publisher by now.
muxTimer ==
  /\ ros = 2 /\ now >= timer
  /\ \E found \in SUBSET (Inputs \ mux.subscribed) :
       mux' = [mux EXCEPT !.selected = Selected, !.subscribed = @ \cup found]
  /\ timer' = timer + MuxPeriod
  /\ UNCHANGED relayed

muxTimerRos1 ==
  /\ ros = 1 /\ now >= timer
  /\ mux' = [mux EXCEPT !.selected = Selected]
  /\ timer' = timer + MuxPeriod
  /\ UNCHANGED relayed

-----------------------------------------------------------------------------
(* The nodes; those of ROS 1 have the same callbacks, but for the timer *)

JoystickInterrupt     == ros = 2 /\ (cbJoy \/ cbTwist)
JoystickInterruptRos1 == ros = 1 /\ (cbJoy \/ cbTwist)
JoystickMux           == ros = 2 /\ (muxJoy \/ muxTopic \/ muxTimer)
JoystickMuxRos1       == ros = 1 /\ (muxJoy \/ muxTopic \/ muxTimerRos1)

JoyTick ==
  /\ now < LastTime /\ now < timer + MuxLate
  /\ now' = now + 1
  /\ UNCHANGED <<interrupt, mux, relayed, timer>>

JoystickNext ==
  /\ \/ (JoystickInterrupt \/ JoystickInterruptRos1) /\ UNCHANGED <<now, mux, relayed, timer>>
     \/ (JoystickMux \/ JoystickMuxRos1) /\ UNCHANGED <<now, interrupt>>
     \/ JoyTick
  /\ UNCHANGED <<ros, sim>>

JoystickSpec == JoystickInit /\ [][JoystickNext]_joystickVars

-----------------------------------------------------------------------------
(* Properties *)

\* While the button is held no velocity of the navigation reaches the robot: it
\* has to be released, or the joystick to be silent for longer than the timeout.
\* (The button of a simulated time 0 is not seen.)
InputWaitsForJoystick ==
  [][twist' # twist /\ twist'[1] = "input"
       => held' = None \/ held = 0 \/ now - held > JoyTimeout]_joystickVars

\* The second input is selected for a bounded time after the last message of
\* the joystick.
MuxFallsBack == now > mux.joy + JoyTimeout + MuxPeriod + MuxLate => mux.selected = 0
=============================================================================
