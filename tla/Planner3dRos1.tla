---------------------------- MODULE Planner3dRos1 -----------------------------
(***************************************************************************)
(* The ROS 1 interface node of planner_3d.  The planning cycle, the costmap *)
(* callbacks and the goals of the two actions are those of Planner3dNode.   *)
(* What differs: a cancel request ends the goal in its callback, so no goal *)
(* is ever canceling; a goal that comes while the other action runs stays   *)
(* pending at actionlib and changes nothing here; and the planning loop is  *)
(* the main thread, which stays in waitUntil until it has planned, even     *)
(* when a parameter change meanwhile leaves the planning to the costmaps.   *)
(* The callbacks only run in ros::spinOnce, one at a time.                  *)
(***************************************************************************)
EXTENDS Planner3dNode

VARIABLE waiting   \* the main thread is in waitUntil

ros1 == <<vars, waiting>>

-----------------------------------------------------------------------------
(* Callbacks *)

\* actionlib calls cbPreempt before the goal callback if a goal is active, which
\* ends and clears what MoveBaseGoal and TolerantGoal end and clear.
cbAction         == MoveBaseGoal /\ UNCHANGED waiting
cbTolerantAction == TolerantGoal /\ UNCHANGED waiting
cbGoal           == TopicGoal /\ UNCHANGED waiting

\* Mutant: only the goal of move_base is set to preempted.
PreemptMoveBaseOnly ==
  /\ srv.mb # "none" \/ srv.tol # "none"
  /\ srv' = finishMoveBase(srv, "preempted")
  /\ core' = clearGoal(updateGoalTolerance(core, srv'))
  /\ UNCHANGED <<costmapOld, retained, timer, waiting>>

\* A client cancels the active goal.
cbPreempt ==
  /\ srv.mb # "none" \/ srv.tol # "none"
  /\ srv' = preempt(srv)
  /\ core' = preemptedCore(core, srv)
  /\ UNCHANGED <<costmapOld, retained, timer, waiting>>

cbMapUpdate        == MapUpdate /\ UNCHANGED waiting
cbMap              == Map /\ UNCHANGED waiting
cbTemporaryEscape  == TemporaryEscapeTrigger /\ UNCHANGED waiting
cbParameter        == UpdateParameters /\ UNCHANGED waiting

\* A timer of one shot that its callback creates anew.
cbNoMapUpdateTimer == NoMapUpdateTimer /\ UNCHANGED waiting

CostmapWaits == CostmapAges /\ UNCHANGED waiting

-----------------------------------------------------------------------------
(* The main thread *)

\* A turn of the loop finds trigger_plan_by_costmap_update_ unset.
spin ==
  /\ ~waiting /\ srv.trigger = "timer"
  /\ waiting' = TRUE
  /\ UNCHANGED vars

\* Mutant: waitUntil does not return in the mode that leaves planning to costmaps.
TurnWithoutReturn(due) ==
  /\ waiting
  /\ \E c \in IF core.hasMap THEN Starts(core) ELSE {core}, w \in Worlds :
       IF due /\ srv.trigger = "timer"
       THEN Become(PlanStep(c, srv, costmapOld, w))
       ELSE core' = c /\ UNCHANGED srv
  /\ UNCHANGED <<costmapOld, retained, timer, waiting>>

\* A turn of waitUntil: it returns when the time is due, at a jump of the pose,
\* an obstacle on the path (both taken for due) or the end of a switchback wait,
\* and then there is a planning cycle, whatever the parameters are now.
Turn(due) ==
  /\ waiting
  /\ \E c \in IF core.hasMap THEN Starts(core) ELSE {core}, w \in Worlds :
       LET arrives == c.hasMap /\ c.switchback /\ w.atSwitch
           d == IF arrives THEN checkSwitchbackArrival(c, w) ELSE c
       IN  IF due \/ arrives
           THEN /\ Become(PlanStep(d, srv, costmapOld, w))
                /\ waiting' = (srv.trigger = "timer")
           ELSE core' = d /\ UNCHANGED <<srv, waiting>>
  /\ UNCHANGED <<costmapOld, retained, timer>>

waitUntil == Turn(FALSE)
planPathWhenDue == Turn(TRUE)

-----------------------------------------------------------------------------

Ros1Init == NodeInit /\ waiting = (srv.trigger = "timer")

Ros1Next ==
  \/ cbAction \/ cbTolerantAction \/ cbGoal \/ cbPreempt
  \/ cbMapUpdate \/ cbMap \/ cbTemporaryEscape \/ cbParameter \/ cbNoMapUpdateTimer
  \/ spin \/ waitUntil \/ planPathWhenDue \/ CostmapWaits

Ros1Spec == Ros1Init /\ [][Ros1Next]_ros1

\* The main thread goes on and next_replan_time comes.
Ros1Fairness ==
  /\ WF_ros1(spin) /\ WF_ros1(planPathWhenDue) /\ WF_ros1(cbNoMapUpdateTimer)

FairRos1Spec == Ros1Spec /\ Ros1Fairness

-----------------------------------------------------------------------------
(* Properties *)

\* A path whose costmap has become too old is withdrawn, also when a parameter
\* change in the middle of a wait stops the watchdog timer.
OnOldPath == /\ costmapOld /\ core.path # "empty"
             /\ srv.trigger = "timer" \/ waiting \/ timer = "armed"

OldPathWithdrawn == OnOldPath ~> ~OnOldPath

\* A goal that was found in rock, and stays there while the main thread plans on
\* a current costmap, is given up, unless the client keeps replacing it.  (An
\* update without a robot pose leaves the distance map as it was: the goal is
\* found in rock by the next update.)
FoundInRock ==
  /\ GoalInRock(core) /\ core.status = "DOING" /\ ~core.cacheCreated
  /\ waiting /\ ~costmapOld

GivesUpWhileMapped == []<>~FoundInRock \/ []<><<core'.stuck < core.stuck>>_core
=============================================================================
