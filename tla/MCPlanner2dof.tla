----------------------------- MODULE MCPlanner2dof -----------------------------
(***************************************************************************)
(* Two joints of twelve cells per turn that hit each other in some of them: *)
(* in a block of nine, in a row of three, and in single cells, one of them  *)
(* on the way from (0, 0) to (5, 4).                                        *)
(***************************************************************************)
EXTENDS Planner2dof

MCCollides == ((9..11) \X (9..11)) \cup ((7..9) \X {6}) \cup {<<2, 2>>, <<6, 3>>, <<0, 8>>}
MCVias     == {<<12, 18>>, <<4, 10>>}
MCAngles   == {<<5, 14>>, <<25, -22>>, <<-18, 8>>, <<0, 0>>, <<14, 10>>}
MCTargets  == {<<0, 0>>, <<20, 10>>, <<8, 14>>, <<-16, -14>>, <<15, 12>>}
MCCoef     == <<2, 3>>
=============================================================================
