---------------------------- MODULE Planner3dNode ----------------------------
(***************************************************************************)
(* The ROS 2 interface node of planner_3d (class Planner3dNode): two action *)
(* servers, a goal topic, the costmap topics, TF and the planning timers    *)
(* around the object of Planner3dCore.                                      *)
(*                                                                          *)
(* All callbacks run in one callback group, so each is one action.  What    *)
(* interleaves is their order: a cancel request is accepted in one callback *)
(* and carried out by the spin timer in a later one, goals supersede each   *)
(* other, costmaps arrive, age and disappear.                               *)
(***************************************************************************)
EXTENDS Planner3dCore

CONSTANT PlanModes   \* what parameter changes may make trigger planning

\* trigger_plan_by_costmap_update_: the spin timer plans, or costmap updates do.
Triggers == {"timer", "costmap"}

ASSUME NodeAssumption == PlanModes \subseteq Triggers

VARIABLES
  srv,          \* the action servers and what triggers planning
  costmapOld,   \* now() - last_costmap_ exceeds costmap_watchdog_
  retained,     \* an update outside the map is kept (map_update_retained_)
  timer         \* no_map_update_timer_: "none" or "armed"

vars == <<core, srv, costmapOld, retained, timer>>

-----------------------------------------------------------------------------
(* The action servers *)

Handles == {"none", "executing", "canceling"}

\* The status texts tell how a goal ended.
SucceededTexts == {"reached", "passed", "cleared"}
AbortedTexts   == {"in rock", "preempted", "invalid"}
CanceledTexts  == {"canceled"}
Results == {"none"} \cup SucceededTexts \cup AbortedTexts \cup CanceledTexts

SrvType ==
  [mb : Handles,            \* gh_move_base_, "none" if not active
   tol : Handles,           \* gh_tolerant_
   mode : Tols,             \* goal_tolerant_, "none" if null
   cancelMb : BOOLEAN,      \* cancel_requested_move_base_
   cancelTol : BOOLEAN,     \* cancel_requested_tolerant_
   trigger : Triggers,      \* trigger_plan_by_costmap_update_
   mbResult : Results,      \* how the last goal ended, if it was this server's
   tolResult : Results]

finishMoveBase(s, text) ==
  IF s.mb = "none" THEN s ELSE [s EXCEPT !.mb = "none", !.mbResult = text]

finishTolerant(s, text) ==
  IF s.tol = "none" THEN s
  ELSE [s EXCEPT !.tol = "none", !.tolResult = text, !.mode = "none"]

finishBoth(s, text) == finishTolerant(finishMoveBase(s, text), text)

updateGoalTolerance(c, s) ==
  setGoalTolerance(c, IF s.tol # "none" THEN s.mode ELSE "none")

accept(s, server, mode) ==
  [s EXCEPT ![server] = "executing", !.mode = mode,
            !.mbResult = "none", !.tolResult = "none"]

\* preemptCurrentGoals, called when the server has an active goal.
preempt(s) == finishBoth(s, "preempted")
preemptedCore(c, s) == clearGoal(updateGoalTolerance(c, preempt(s)))

\* Mutant: the flag alone decides, also when it was raised for an earlier goal.
CancelByFlag(s) ==
  LET s1 == IF s.cancelMb THEN finishMoveBase(s, "canceled") ELSE s
      s2 == IF s.cancelTol THEN finishTolerant(s1, "canceled") ELSE s1
  IN  [s2 EXCEPT !.cancelMb = FALSE, !.cancelTol = FALSE]

\* Both flags are handled one after the other; a flag whose goal has ended some
\* other way is dropped, one that meets a newer goal stays.
processCancelRequests(s) ==
  LET mb  == s.cancelMb /\ s.mb = "canceling"
      tol == s.cancelTol /\ s.tol = "canceling"
      s1  == IF mb THEN finishMoveBase(s, "canceled") ELSE s
      s2  == IF tol THEN finishTolerant(s1, "canceled") ELSE s1
  IN  [s2 EXCEPT !.cancelMb = @ /\ s.mb = "executing",
                 !.cancelTol = @ /\ s.tol = "executing"]

Cancels(s) == \/ s.cancelMb /\ s.mb = "canceling"
              \/ s.cancelTol /\ s.tol = "canceling"

-----------------------------------------------------------------------------
(* Helpers that several callbacks share; they return the new core and srv *)

\* setGoal: s is the servers with the new goal's handle already in place.
SetGoalStep(c, s, g, same, normal, w, server) ==
  LET t == updateGoalTolerance(c, s)
      n == setGoal(t, g, same, normal, w)
      r == setGoalResult(t, g, same, normal)
      cleared == finishBoth(s, "cleared")
  IN  CASE r = "ACCEPTED" -> [c |-> n, s |-> s]
        [] r = "CLEARED"  -> [c |-> updateGoalTolerance(n, cleared),
                              s |-> cleared]
        [] r = "REJECTED" ->
             [c |-> n,
              s |-> CASE server = "mb"    -> finishMoveBase(s, "invalid")
                      [] server = "tol"   -> finishTolerant(s, "invalid")
                      [] server = "topic" -> s]

\* planPath with the prepared core p.  The status it publishes is not modelled.
PlanPrepared(p, s, old, w) ==
  LET r == runPlanCycle(p, w)
      result  == planCycleResult(p, w)
      reached == finishBoth(s, "reached")
      aborted == finishBoth(s, "in rock")
      passes  == p.status # "FINISHING" /\ p.cacheCreated /\ PassesGoal(p, w)
  IN  IF ~CycleRuns(p, old)
      THEN [c |-> IF p.hasGoal THEN p ELSE handleNoGoal(p), s |-> s]
      ELSE CASE result = "GOAL_REACHED" ->
                  [c |-> updateGoalTolerance(r, reached), s |-> reached]
             [] result = "ABORT_MAX_RETRY" ->
                  [c |-> updateGoalTolerance(r, aborted), s |-> aborted]
             [] result = "NONE" ->
                  [c |-> r,
                   s |-> IF passes THEN finishTolerant(s, "passed") ELSE s]

PlanStep(c, s, old, w) ==
  PlanPrepared(preparePlanCycle(updateGoalTolerance(c, s), old, w), s, old, w)

Become(r) == core' = r.c /\ srv' = r.s

\* What updateStart may do: TF gives a pose or fails.
Starts(c) == {setStart(c, s) : s \in Cells} \cup {clearStart(c)}

-----------------------------------------------------------------------------
(* Goals *)

\* cbMoveBaseGoal rejects while the other server is active; a goal that is let
\* in is accepted at once (cbMoveBaseAccepted).
MoveBaseGoal ==
  /\ srv.tol = "none"
  /\ \E g \in Goals, same, normal \in BOOLEAN, w \in Worlds :
       LET busy == srv.mb # "none"
           s == IF busy THEN preempt(srv) ELSE srv
           c == IF busy THEN preemptedCore(core, srv) ELSE core
       IN  Become(SetGoalStep(c, accept(s, "mb", "none"),
                              g, same, normal, w, "mb"))
  /\ UNCHANGED <<costmapOld, retained, timer>>

TolerantGoal ==
  /\ srv.mb = "none"
  /\ \E g \in Goals, mode \in Tolerances \ {"none"}, same, normal \in BOOLEAN,
        w \in Worlds :
       LET busy == srv.tol # "none"
           s == IF busy THEN preempt(srv) ELSE srv
           c == IF busy THEN preemptedCore(core, srv) ELSE core
       IN  Become(SetGoalStep(c, accept(s, "tol", mode),
                              g, same, normal, w, "tol"))
  /\ UNCHANGED <<costmapOld, retained, timer>>

\* cbGoal: the topic is ignored while an action runs.
TopicGoal ==
  /\ srv.mb = "none" /\ srv.tol = "none"
  /\ \E g \in Goals, same, normal \in BOOLEAN, w \in Worlds :
       Become(SetGoalStep(core, srv, g, same, normal, w, "topic"))
  /\ UNCHANGED <<costmapOld, retained, timer>>

\* The handle becomes CANCELING when the cancel callback has returned.
\* Mutant: the request is accepted but not recorded.
CancelUnrecorded ==
  /\ srv.mb = "executing"
  /\ srv' = [srv EXCEPT !.mb = "canceling"]
  /\ UNCHANGED <<core, costmapOld, retained, timer>>

CancelMoveBase ==
  /\ srv.mb = "executing"
  /\ srv' = [srv EXCEPT !.mb = "canceling", !.cancelMb = TRUE]
  /\ UNCHANGED <<core, costmapOld, retained, timer>>

CancelTolerant ==
  /\ srv.tol = "executing"
  /\ srv' = [srv EXCEPT !.tol = "canceling", !.cancelTol = TRUE]
  /\ UNCHANGED <<core, costmapOld, retained, timer>>

-----------------------------------------------------------------------------
(* Costmaps *)

ArmTimer == IF Watchdog THEN "armed" ELSE timer

\* applyMapUpdate on core c.  In the trigger mode it plans with the stamp of
\* the last costmap as the time, and re-arms the watchdog timer.
ApplyMapUpdate(c, o, inRange) ==
  IF srv.trigger = "costmap"
  THEN /\ \E d \in Starts(updateGoalTolerance(c, srv)), w \in Worlds :
            Become(PlanStep(applyCostmapUpdate(d, inRange, o, w), srv, FALSE, w))
       /\ timer' = ArmTimer
  ELSE /\ \E w \in Worlds :
            core' = applyCostmapUpdate(updateGoalTolerance(c, srv), inRange, o, w)
       /\ UNCHANGED <<srv, timer>>

MapUpdate ==
  /\ core.hasMap
  /\ \E o \in Obstacles, inRange \in BOOLEAN :
       /\ ApplyMapUpdate(core, o, inRange)
       /\ retained' = ~inRange
       /\ costmapOld' = (costmapOld /\ ~inRange)

\* cbMap applies the retained update if it is at least as new as the map, and
\* forgets it in any case.
Map ==
  /\ \E e \in Extents, o \in Obstacles, newer, inRange \in BOOLEAN, w \in Worlds :
       LET c == setMap(updateGoalTolerance(core, srv), e, o, w)
           reapply == retained /\ newer
       IN  IF reapply
           THEN /\ \E u \in Obstacles : ApplyMapUpdate(c, u, inRange)
                /\ costmapOld' = (costmapOld /\ ~inRange)
           ELSE /\ core' = c
                /\ UNCHANGED <<srv, timer, costmapOld>>
  /\ retained' = FALSE

\* Time passes without a costmap update.
CostmapAges ==
  /\ Watchdog
  /\ costmapOld' = TRUE
  /\ UNCHANGED <<core, srv, retained, timer>>

-----------------------------------------------------------------------------
(* Timers and the other callbacks *)

\* Mutant: a cycle that plans leaves the cancel requests for the next one.
SpinForgetsCancel(due) ==
  \E c1 \in IF core.hasMap THEN Starts(core) ELSE {core}, w \in Worlds :
    IF due THEN Become(PlanStep(c1, srv, costmapOld, w))
    ELSE core' = c1 /\ srv' = srv

\* cbSpinTimer.  Time is not modelled, so a cycle that a jump of the robot pose
\* or an obstacle on the path brings forward is a SpinPlans that comes early.
Spin(due) ==
  LET s == processCancelRequests(srv)
      c0 == IF Cancels(srv) THEN clearGoal(updateGoalTolerance(core, s)) ELSE core
  IN  \E c1 \in IF c0.hasMap THEN Starts(c0) ELSE {c0}, w \in Worlds :
        LET arrives == c1.hasMap /\ c1.switchback /\ w.atSwitch
            c2 == IF arrives THEN checkSwitchbackArrival(c1, w) ELSE c1
        IN  IF due \/ arrives THEN Become(PlanStep(c2, s, costmapOld, w))
            ELSE core' = c2 /\ srv' = s

SpinWaits ==
  /\ srv.trigger = "timer"
  /\ Spin(FALSE)
  /\ UNCHANGED <<costmapOld, retained, timer>>

SpinPlans ==
  /\ srv.trigger = "timer"
  /\ Spin(TRUE)
  /\ UNCHANGED <<costmapOld, retained, timer>>

\* In the trigger mode the spin timer only handles the cancel requests.
SpinCancels ==
  /\ srv.trigger = "costmap"
  /\ srv' = processCancelRequests(srv)
  /\ core' = IF Cancels(srv) THEN clearGoal(updateGoalTolerance(core, srv')) ELSE core
  /\ UNCHANGED <<costmapOld, retained, timer>>

\* cbNoMapUpdateTimer: the timer is periodic, and its period has passed since
\* the last costmap.
NoMapUpdateTimer ==
  /\ timer = "armed" /\ costmapOld
  /\ \E w \in Worlds : Become(PlanStep(core, srv, costmapOld, w))
  /\ UNCHANGED <<costmapOld, retained, timer>>

TemporaryEscapeTrigger ==
  /\ \E w \in Worlds :
       core' = triggerTemporaryEscape(updateGoalTolerance(core, srv), w)
  /\ UNCHANGED <<srv, costmapOld, retained, timer>>

UpdateParameters ==
  /\ core' = setParameters(core)
  /\ \E t \in PlanModes : srv' = [srv EXCEPT !.trigger = t]
  /\ timer' = "none"
  /\ UNCHANGED <<costmapOld, retained>>

-----------------------------------------------------------------------------

NodeInit ==
  /\ core = CoreInit
  /\ \E t \in PlanModes :
       srv = [mb |-> "none", tol |-> "none", mode |-> "none",
              cancelMb |-> FALSE, cancelTol |-> FALSE, trigger |-> t,
              mbResult |-> "none", tolResult |-> "none"]
  /\ costmapOld = TRUE /\ retained = FALSE
  /\ timer = "none"

NodeNext ==
  \/ MoveBaseGoal \/ TolerantGoal \/ TopicGoal
  \/ CancelMoveBase \/ CancelTolerant
  \/ MapUpdate \/ Map \/ CostmapAges
  \/ SpinWaits \/ SpinPlans \/ SpinCancels \/ NoMapUpdateTimer
  \/ TemporaryEscapeTrigger \/ UpdateParameters

NodeSpec == NodeInit /\ [][NodeNext]_vars

\* The 100 Hz spin timer and the watchdog timer keep firing, and
\* next_replan_time_ is always at most 1 / freq or sw_wait away.
Fairness ==
  /\ WF_vars(SpinPlans \/ SpinCancels)
  /\ WF_vars(NoMapUpdateTimer)

FairNodeSpec == NodeSpec /\ Fairness

-----------------------------------------------------------------------------
(* Properties *)

NodeTypeOK ==
  /\ core \in CoreType
  /\ srv \in SrvType
  /\ srv.tol = "none" <=> srv.mode = "none"
  /\ {costmapOld, retained} \subseteq BOOLEAN
  /\ timer \in {"none", "armed"}

\* The two action servers never run at once, and the one that runs has its goal
\* in the core: no callback forgets to finish the handle of a goal it drops, so
\* a client never waits for a goal that nothing pursues.
ActionHasGoal ==
  /\ srv.mb = "none" \/ srv.tol = "none"
  /\ srv.mb # "none" \/ srv.tol # "none" => core.hasGoal

\* Both goal handles are used as rclcpp_action allows.
MoveBaseHandle == INSTANCE ActionGoal WITH
  handle <- srv.mb, result <- srv.mbResult,
  Succeeded <- {"reached", "passed"}, Aborted <- {"in rock", "preempted"},
  Canceled <- CanceledTexts, Refused <- {"cleared", "invalid"}

TolerantHandle == INSTANCE ActionGoal WITH
  handle <- srv.tol, result <- srv.tolResult,
  Succeeded <- {"reached", "passed"}, Aborted <- {"in rock", "preempted"},
  Canceled <- CanceledTexts, Refused <- {"cleared", "invalid"}

HandlesUsedLegally == MoveBaseHandle!Spec /\ TolerantHandle!Spec

\* "An explicitly cancelled goal is terminated with canceled()" (README.md),
\* unless a new goal or the clearing of the goal comes before the spin timer.
CancelledIsCanceled ==
  [][srv.mb = "canceling" /\ srv'.mb = "none" /\ core.hasGoal
       => srv'.mbResult \in {"canceled", "invalid", "cleared"}]_vars

\* The same while the spin timer plans: it handles the request before it plans,
\* so neither the end of the path nor the retry limit comes before it.
TimerCancels ==
  [][srv.trigger = "timer" /\ srv.mb = "canceling" /\ srv'.mb = "none"
     /\ core.hasGoal
       => srv'.mbResult \in {"canceled", "invalid", "cleared"}]_vars

\* The costmap watchdog: a path is withdrawn when its costmap has become too old
\* ("stops the robot if the costmap is too old", planner_3d_core.h), by the spin
\* timer if that plans and by the watchdog timer as long as it is armed.
OnOldCostmap == /\ costmapOld /\ core.path # "empty"
                /\ srv.trigger = "timer" \/ timer = "armed"

OldCostmapStops == OnOldCostmap ~> ~OnOldCostmap

\* The robot is stopped when nothing is pursued any more, whichever way the goal
\* ended (handleNoGoal), by the spin timer if that plans.
Aimless == ~core.hasGoal /\ core.path # "empty" /\ srv.trigger = "timer"

IdleStops == Aimless ~> ~Aimless

\* Every goal whose cancellation was accepted ends.
CancelPending == "canceling" \in {srv.mb, srv.tol}

CancelEnds == CancelPending ~> ~CancelPending
=============================================================================
