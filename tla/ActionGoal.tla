----------------------------- MODULE ActionGoal ------------------------------
(***************************************************************************)
(* The life of the goal handle an action server holds, as rclcpp_action     *)
(* allows it: canceled() is legal only after a cancel request was accepted, *)
(* and a handle ends once.  A new goal may take the place of the old one,   *)
(* which then has been aborted.                                             *)
(***************************************************************************)
CONSTANTS
  Succeeded, Aborted, Canceled,   \* the results that end a goal so
  Refused   \* the results of a goal that ends in the callback that accepts it

VARIABLES
  handle,   \* "none", "executing" or "canceling"
  result    \* how the last goal ended, "none" while one is active

vars == <<handle, result>>

Init == handle = "none" /\ result = "none"

Accept == handle' = "executing" /\ result' = "none"

Cancel ==
  /\ handle = "executing"
  /\ handle' = "canceling"
  /\ UNCHANGED result

\* Succeed and abort are legal while the goal is canceling, too.
Succeed == handle # "none" /\ handle' = "none" /\ result' \in Succeeded
Abort   == handle # "none" /\ handle' = "none" /\ result' \in Aborted

\* The result is kept until it has been fetched.
Forget == result' = "none" /\ UNCHANGED handle

Refuse == handle' = "none" /\ result' \in Refused

TerminateCanceled ==
  /\ handle = "canceling"
  /\ handle' = "none"
  /\ result' \in Canceled

Next == Accept \/ Cancel \/ Succeed \/ Abort \/ TerminateCanceled \/ Refuse \/ Forget

Spec == Init /\ [][Next]_vars
=============================================================================
