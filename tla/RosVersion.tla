------------------------------ MODULE RosVersion ------------------------------
(* The nodes exist for two versions of ROS, with the same names. *)
VARIABLE ros   \* 1 or 2: the version that the nodes are of
=============================================================================
