---------------------------- MODULE SafetyLimiter ----------------------------
(***************************************************************************)
(* The node safety_limiter, whose callbacks are the same in ROS 1 and       *)
(* ROS 2: it scales every velocity command by the ratio that a periodic     *)
(* collision prediction on the accumulated point cloud demands, and stops   *)
(* the robot when the cloud or the watchdog reset message stays away.       *)
(*                                                                          *)
(* The callbacks run one after the other.  What can go wrong is their order *)
(* in time: two timers, a hold time and three timeouts decide how long a    *)
(* result counts.  Time is a number of ticks; a timer may run up to Late    *)
(* ticks after it is due.  A command is represented by the ratio of the     *)
(* published to the received velocity.                                      *)
(***************************************************************************)
EXTENDS Integers

CONSTANTS
  Full,              \* the ratio 1.0 of r_lim_, in steps
  Period,            \* the period of predict_timer_, 1 / hz_ at the start
  Params,            \* [hold, period]: the parameters hold and 1 / freq
  Timeout,           \* timeout_
  DisableTimeout,    \* disable_timeout_
  WatchdogInterval,  \* watchdog_interval_d_, 0 if there is no watchdog timer
  Delays,            \* now() minus the stamp of a cloud, on arrival
  AllowEmpty,        \* params_.allow_empty_cloud
  Late               \* bound: how late a timer may run

ASSUME LimiterAssumption ==
  /\ Full \in Nat \ {0}
  /\ Period \in Nat \ {0}
  /\ Params \subseteq [hold : Nat, period : Nat \ {0}]
  /\ \E p \in Params : p.period = Period
  /\ Timeout \in Nat
  /\ DisableTimeout \in Nat
  /\ WatchdogInterval \in Nat
  /\ Delays \subseteq Nat
  /\ AllowEmpty \in BOOLEAN
  /\ Late \in 0..(Period - 1)

VARIABLES
  rlim,       \* r_lim_
  hold,       \* ticks until now() > hold_off_
  period,     \* 1 / hz_
  holdTime,   \* hold_
  cloud,      \* frames the points of cloud_accum_ are in
  hasCloud,   \* has_cloud_
  clear,      \* cloud_clear_
  age,        \* now() - last_cloud_stamp_, up to MaxAge
  stop,       \* watchdog_stop_
  disabled,   \* ticks until disable_timeout_ has passed
  phase,      \* ticks since predict_timer_ was last due
  watchdog,   \* ticks since watchdog_timer_ was started, reset or due
  out,        \* the last published command
  demand,     \* history: what the last prediction demands
  since,      \* history: ticks since it demanded a limit
  forgotten   \* history: the parameters have changed since then

history == <<demand, since, forgotten>>
vars == <<rlim, hold, period, holdTime, cloud, hasCloud, clear, age, stop, disabled,
          phase, watchdog, out, history>>

Ratios == 0..Full
Frames == {"fixed", "base"}
MaxAge == Timeout + Period + Late + 1   \* older clouds are told apart no more

SmallerOf(a, b) == IF a < b THEN a ELSE b
GreaterOf(a, b) == IF a > b THEN a ELSE b

\* Mutant: the hold time may be shorter than a period.
HoldAsGiven(p) == p.hold
HoldOf(p) == GreaterOf(p.hold, p.period)

Modes == {"guarded", "unguarded"}       \* safety not disabled, or disabled
Command(ratio, mode) == [ratio |-> ratio, mode |-> mode]
StopCommand == Command(0, "guarded")

TypeOK ==
  /\ rlim \in Ratios
  /\ hold \in Nat
  /\ \E p \in Params : period = p.period /\ holdTime = HoldOf(p)
  /\ cloud \subseteq Frames
  /\ hasCloud \in BOOLEAN
  /\ clear \in BOOLEAN
  /\ age \in 0..MaxAge
  /\ stop \in BOOLEAN
  /\ disabled \in 0..DisableTimeout
  /\ phase \in 0..(Period + Late)
  /\ watchdog \in 0..(WatchdogInterval + Late)
  /\ out \in [ratio : Ratios, mode : Modes]
  /\ demand \in Ratios
  /\ since \in Nat
  /\ forgotten \in BOOLEAN

Init ==
  /\ rlim = Full
  /\ hold = 0
  /\ period = Period
  /\ \E p \in Params : p.period = Period /\ holdTime = HoldOf(p)
  /\ cloud = {}
  /\ hasCloud = FALSE
  /\ clear = FALSE
  /\ age = MaxAge
  /\ stop = FALSE
  /\ disabled = 0
  /\ phase = 0
  /\ watchdog = 0
  /\ out = StopCommand
  /\ demand = Full /\ since = 0 /\ forgotten = FALSE

-----------------------------------------------------------------------------
(* Time *)

PredictDue == phase >= Period

WatchdogDue == WatchdogInterval > 0 /\ watchdog >= WatchdogInterval

Left(n) == IF n > 0 THEN n - 1 ELSE 0

Tick ==
  /\ phase < Period + Late
  /\ WatchdogInterval > 0 => watchdog < WatchdogInterval + Late
  /\ phase' = phase + 1
  /\ watchdog' = IF WatchdogInterval > 0 THEN watchdog + 1 ELSE watchdog
  /\ age' = IF age < MaxAge THEN age + 1 ELSE age
  /\ hold' = Left(hold)
  /\ disabled' = Left(disabled)
  /\ since' = IF demand < Full THEN since + 1 ELSE since
  /\ UNCHANGED <<rlim, period, holdTime, cloud, hasCloud, clear, stop, out, demand, forgotten>>

-----------------------------------------------------------------------------
(* The prediction *)

\* What predict() may return.  Without points the parameters decide; it
\* returns 0 if the transform fails; the points may lead to any ratio.
Predicted ==
  IF cloud = {} THEN {IF AllowEmpty THEN Full ELSE 0} ELSE Ratios

\* Mutant: the timeout of the cloud is not looked at.
NeverTimedOut == FALSE
CloudTimedOut == age > Timeout

PredictTimeout ==
  /\ CloudTimedOut
  /\ out' = StopCommand
  /\ cloud' = {}
  /\ hasCloud' = FALSE
  /\ rlim' = 0
  /\ demand' = Full /\ since' = 0 /\ forgotten' = FALSE
  /\ UNCHANGED <<hold, clear>>

\* cloud is transformed in place, unless there is no transform.
Predict ==
  /\ ~CloudTimedOut
  /\ \E ratio \in Predicted :
       /\ rlim' = SmallerOf(ratio, rlim)
       /\ hold' = IF ratio < Full THEN holdTime + 1 ELSE hold
       /\ demand' = ratio /\ since' = 0 /\ forgotten' = FALSE
       /\ \/ cloud # {} /\ cloud' = {"base"}
          \/ (cloud = {} \/ ratio = 0) /\ UNCHANGED <<cloud>>
  /\ clear' = TRUE
  /\ UNCHANGED <<hasCloud, out>>

PredictTimer ==
  /\ PredictDue
  /\ phase' = phase - Period
  /\ \/ hasCloud /\ (PredictTimeout \/ Predict)
     \/ ~hasCloud /\ UNCHANGED <<out, cloud, hasCloud, rlim, hold, clear, history>>
  /\ UNCHANGED <<period, holdTime, age, stop, disabled, watchdog>>

-----------------------------------------------------------------------------
(* Commands *)

HoldPassed == hold = 0

\* Mutant: the watchdog is forgotten.
DrivesWithCloud == hasCloud
MayDrive == hasCloud /\ ~stop

\* cbTwist: the limit is relaxed after the command has been published.
Twist ==
  /\ \/ disabled > 0 /\ out' = Command(Full, "unguarded") /\ UNCHANGED rlim
     \/ disabled = 0 /\ ~MayDrive /\ out' = StopCommand /\ UNCHANGED rlim
     \/ /\ disabled = 0 /\ MayDrive
        /\ out' = Command(rlim, "guarded")
        /\ rlim' = IF HoldPassed THEN Full ELSE rlim
  /\ UNCHANGED <<hold, period, holdTime, cloud, hasCloud, clear, age, stop, disabled,
                 phase, watchdog, history>>

Disable ==
  /\ disabled' = DisableTimeout
  /\ UNCHANGED <<rlim, hold, period, holdTime, cloud, hasCloud, clear, age, stop, phase,
                 watchdog, out, history>>

-----------------------------------------------------------------------------
(* Data *)

Accumulated == IF clear THEN {} ELSE cloud

\* A cloud with or without points; one that cannot be transformed is ignored.
Cloud ==
  /\ \E points \in {{}, {"fixed"}} : cloud' = Accumulated \cup points
  /\ \E d \in Delays : age' = SmallerOf(d, MaxAge)
  /\ clear' = FALSE
  /\ hasCloud' = TRUE
  /\ UNCHANGED <<rlim, hold, period, holdTime, stop, disabled, phase, watchdog, out,
                 history>>

WatchdogTimer ==
  /\ WatchdogDue
  /\ watchdog' = watchdog - WatchdogInterval
  /\ stop' = TRUE
  /\ rlim' = 0
  /\ out' = StopCommand
  /\ UNCHANGED <<hold, period, holdTime, cloud, hasCloud, clear, age, disabled, phase,
                 history>>

WatchdogReset ==
  /\ watchdog' = 0
  /\ stop' = FALSE
  /\ UNCHANGED <<rlim, hold, period, holdTime, cloud, hasCloud, clear, age, disabled,
                 phase, out, history>>

\* updateParameters: predict_timer_ keeps its period, and no limit is left.
UpdateParameters ==
  /\ \E p \in Params : period' = p.period /\ holdTime' = HoldOf(p)
  /\ rlim' = Full
  /\ forgotten' = TRUE
  /\ UNCHANGED <<hold, cloud, hasCloud, clear, age, stop, disabled, phase,
                 watchdog, out, demand, since>>

Next ==
  \/ Tick \/ PredictTimer \/ WatchdogTimer
  \/ Twist \/ Disable \/ Cloud \/ WatchdogReset \/ UpdateParameters

Spec == Init /\ [][Next]_vars

-----------------------------------------------------------------------------
(* Properties *)

\* What a prediction demands limits every command for the hold time and for a
\* period of freq, whichever is longer, although commands relax the limit (cbTwist),
\* the watchdog replaces it and the next prediction may be late: until the next
\* prediction, or a change of the parameters, which drops the limit at once.
\* (If freq is raised, that may be before predict_timer_ is due.)
LimitHolds ==
  demand < Full /\ ~forgotten /\ since <= GreaterOf(holdTime, period) => rlim <= demand

\* While the clouds or the watchdog resets stay away, the last command is to
\* stop, unless the safety function was disabled (cbTwist, the two timers).
DataLossStops == ~hasCloud \/ stop => out.mode = "unguarded" \/ out.ratio = 0

\* The robot is told to stop a bounded time after its newest data.
StaleCloudStops ==
  out.ratio > 0 /\ out.mode = "guarded" => age <= Timeout + Period + Late

\* Points that were transformed by a prediction are never merged with new ones.
CloudNotMixed == "base" \in cloud => clear
=============================================================================
