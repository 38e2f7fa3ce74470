----------------------------- MODULE GoalPursuit -----------------------------
(***************************************************************************)
(* What the planner promises about a goal, whatever the maps and the        *)
(* searches say: it may make detours to temporary goals, but it finishes    *)
(* (turns in place at the end of the path) only for the goal it was given,  *)
(* and once finishing it drives on only for a detour or for another goal.   *)
(***************************************************************************)
CONSTANTS Goals, NoGoal

VARIABLES
  target,   \* the goal asked for, NoGoal when there is none
  phase,    \* "idle", "moving" or "finishing"
  detour    \* the planner is heading for a temporary goal

vars == <<target, phase, detour>>

Init == target = NoGoal /\ phase = "idle" /\ detour = FALSE

\* A goal may need a detour from the start.
Accept ==
  /\ target' \in Goals
  /\ phase' = "moving"
  /\ detour' \in BOOLEAN

\* Reached, given up, cancelled or replaced by a goal that is refused.
Drop == target' = NoGoal /\ phase' = "idle" /\ detour' = FALSE

Detour ==
  /\ phase # "idle"
  /\ phase' = "moving" /\ detour' = TRUE
  /\ UNCHANGED target

Resume ==
  /\ detour
  /\ detour' = FALSE
  /\ UNCHANGED <<target, phase>>

Finish ==
  /\ phase = "moving" /\ ~detour
  /\ phase' = "finishing"
  /\ UNCHANGED <<target, detour>>

Next == Accept \/ Drop \/ Detour \/ Resume \/ Finish

Spec == Init /\ [][Next]_vars
=============================================================================
