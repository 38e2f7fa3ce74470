-------------------------------- MODULE Patrol --------------------------------
(***************************************************************************)
(* The node patrol, on ROS 1 and ROS 2, and the action server it drives: it *)
(* sends the poses of the last received path one after the other as action  *)
(* goals and learns from results that they have ended.                      *)
(*                                                                          *)
(* Goals, cancel requests and results travel on different topics or         *)
(* services, so none of them is ordered with respect to the others.  On     *)
(* ROS 2 the result callback does not know whose result it brings; on ROS 1 *)
(* the action client follows the last goal only, but what is sent before    *)
(* the server is there is lost.                                             *)
(***************************************************************************)
EXTENDS Integers, RosVersion

CONSTANTS
  MaxPaths,  \* bound: how many paths are received
  MaxLen     \* bound: poses in a path

ASSUME PatrolAssumption == MaxPaths \in Nat /\ MaxLen \in Nat

VARIABLES
  gen,      \* number of paths received
  len,      \* path_.poses.size()
  pos,      \* pos_
  state,    \* state_
  ready,    \* action_server_is_ready()
  cancels,  \* cancel-all requests under way
  goal,     \* goal[g][w]: the goal for the w-th pose of the g-th path
  cut       \* history: a path was replaced before it was walked

patrolVars == <<ros, gen, len, pos, state, ready, cancels, goal, cut>>

Results    == {"SUCCEEDED", "ABORTED", "CANCELED"}
GoalStates == {"NONE", "RUNNING"} \cup Results

\* Not sent; sent; never received; on the server; with its result under way;
\* result received.
OnServer == {"executing", "canceling"}
Progress == {"none", "sent", "lost", "over"} \cup OnServer \cup Results

PatrolTypeOK ==
  /\ ros \in {1, 2}
  /\ gen \in 0..MaxPaths
  /\ len \in 0..MaxLen
  /\ pos \in 0..MaxLen
  /\ state \in GoalStates
  /\ ready \in BOOLEAN
  /\ cancels \in Nat
  /\ goal \in [1..MaxPaths -> [1..MaxLen -> Progress]]
  /\ cut \in BOOLEAN

PatrolInit ==
  /\ ros \in {1, 2}
  /\ gen = 0
  /\ len = 0
  /\ pos = 0
  /\ state = "NONE"
  /\ ready = FALSE
  /\ cancels = 0
  /\ goal = [g \in 1..MaxPaths |-> [w \in 1..MaxLen |-> "none"]]
  /\ cut = FALSE

-----------------------------------------------------------------------------
(* The node *)

\* A path that is being followed is cancelled, its goals stay unaccounted for.  On
\* ROS 1 getState() is not called before the next goal is sent.
cbPath ==
  /\ gen < MaxPaths
  /\ gen' = gen + 1
  /\ cancels' = IF len > 0 /\ (ros = 2 \/ ready) THEN cancels + 1 ELSE cancels
  /\ len' \in 0..MaxLen
  /\ pos' = 0
  /\ state' = "NONE"
  /\ cut' = (cut \/ len > 0)
  /\ UNCHANGED <<ros, ready, goal>>

PathWalked == pos >= len

sendNextGoal ==
  \/ /\ PathWalked
     /\ len' = 0
     /\ UNCHANGED <<pos, state, goal>>
  \/ /\ ~PathWalked
     /\ goal' = [goal EXCEPT ![gen][pos + 1] = IF ready THEN "sent" ELSE "lost"]
     /\ state' = "RUNNING"
     /\ pos' = pos + 1
     /\ UNCHANGED len

\* Mutant: an aborted goal is not skipped.
EndedWell == state = "SUCCEEDED"
Ended     == state \in {"SUCCEEDED", "ABORTED"}

\* On ROS 1 this is a turn of spin(), which does not ask for the server.
cbTimer ==
  /\ len > 0
  /\ ros = 2 => ready
  /\ pos = 0 \/ Ended
  /\ sendNextGoal
  /\ UNCHANGED <<ros, gen, ready, cancels, cut>>

\* Mutant: the result of any goal counts.
AnyGoal(g, w) == TRUE

\* getState() of the ROS 1 client is about the last goal that was sent.
Followed(g, w) == ros = 2 \/ (g = gen /\ w = pos)

ResultCallback ==
  \E g \in 1..MaxPaths, w \in 1..MaxLen :
    /\ goal[g][w] \in Results
    /\ state' = IF Followed(g, w) THEN goal[g][w] ELSE state
    /\ goal' = [goal EXCEPT ![g][w] = "over"]
    /\ UNCHANGED <<ros, gen, len, pos, ready, cancels, cut>>

-----------------------------------------------------------------------------
(* The action server of planner_3d *)

ServerStarts ==
  /\ ~ready
  /\ ready' = TRUE
  /\ UNCHANGED <<ros, gen, len, pos, state, cancels, goal, cut>>

\* A goal that arrives aborts the goal it supersedes, on ROS 1 it preempts it.  A
\* topic of ROS 1 delivers the goals in their order.
Superseded == IF ros = 1 THEN "CANCELED" ELSE "ABORTED"

Overtakes(g, w) ==
  \E h \in 1..g, v \in 1..MaxLen : goal[h][v] = "sent" /\ (h < g \/ v < w)

Accept ==
  \E g \in 1..MaxPaths, w \in 1..MaxLen :
    /\ goal[g][w] = "sent"
    /\ ros = 1 => ~Overtakes(g, w)
    /\ goal' = [h \in 1..MaxPaths |-> [v \in 1..MaxLen |->
                 IF h = g /\ v = w THEN "executing"
                 ELSE IF goal[h][v] \in OnServer THEN Superseded
                 ELSE goal[h][v]]]
    /\ UNCHANGED <<ros, gen, len, pos, state, ready, cancels, cut>>

Cancelled == IF ros = 1 THEN "CANCELED" ELSE "canceling"

\* planner_3d of ROS 1 ends the goal in the callback.
CancelAll ==
  /\ cancels > 0
  /\ cancels' = cancels - 1
  /\ goal' = [h \in 1..MaxPaths |-> [v \in 1..MaxLen |->
               IF goal[h][v] = "executing" THEN Cancelled ELSE goal[h][v]]]
  /\ UNCHANGED <<ros, gen, len, pos, state, ready, cut>>

Finish ==
  \E g \in 1..MaxPaths, w \in 1..MaxLen :
    /\ goal[g][w] \in OnServer
    /\ \E r \in {"SUCCEEDED", "ABORTED"} \cup
                (IF goal[g][w] = "canceling" THEN {"CANCELED"} ELSE {}) :
         goal' = [goal EXCEPT ![g][w] = r]
    /\ UNCHANGED <<ros, gen, len, pos, state, ready, cancels, cut>>

PatrolNext ==
  \/ cbPath \/ cbTimer \/ ResultCallback
  \/ ServerStarts \/ Accept \/ CancelAll \/ Finish

PatrolSpec == PatrolInit /\ [][PatrolNext]_patrolVars

\* The timer and the callbacks are executed by the node's executor; the server
\* starts, receives what is sent and ends its goals.
Fairness ==
  /\ WF_patrolVars(cbTimer) /\ WF_patrolVars(ResultCallback)
  /\ WF_patrolVars(ServerStarts) /\ WF_patrolVars(Accept) /\ WF_patrolVars(CancelAll)
  /\ WF_patrolVars(Finish)

PatrolFairSpec == PatrolSpec /\ Fairness

-----------------------------------------------------------------------------
(* Properties *)

\* "sending one action goal at a time": the next pose of a path is sent after
\* the results of all poses before it have come.
OneGoalAtATime ==
  [][\A w \in 1..MaxLen :
       pos' = w /\ pos # w =>
         \A v \in 1..(w - 1) : goal[gen][v] = "over"]_patrolVars

\* That holds on ROS 1, and on ROS 2 as long as no path has replaced another:
\* then every result that comes is the one the timer waits for.
OneGoalAtATimeUncut ==
  [][\A w \in 1..MaxLen :
       (ros = 1 \/ ~cut) /\ pos' = w /\ pos # w =>
         \A v \in 1..(w - 1) : goal[gen][v] = "over"]_patrolVars

\* The walk through "the poses of the last received path" comes to an end, unless
\* it meets a cancelled goal, of its own or of the path before, or a goal that was
\* sent before the server was there.
PatrolFinishesUnlessCanceled ==
  len > 0 ~> \/ len = 0 \/ state = "CANCELED"
              \/ \E g \in 1..MaxPaths, w \in 1..MaxLen : goal[g][w] = "lost"
=============================================================================
