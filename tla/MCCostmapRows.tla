---------------------------- MODULE MCCostmapRows ----------------------------
(* Rows of five and three cells with local maps of two or three cells. *)
EXTENDS Integers, TLC

RowMsg(x, cells, sameFrame) == [x |-> x, cells |-> cells, sameFrame |-> sameFrame]
Footprint(mode) ==
  [kind |-> "footprint", mode |-> mode, range |-> 1, keepUnknown |-> TRUE]

OneLayer ==
  << [kind |-> "unknown", cost |-> 0], [kind |-> "static"],
     Footprint("overwrite"), [kind |-> "update"] >>

TwoLayers ==
  << [kind |-> "static"], Footprint("max"), Footprint("max"), [kind |-> "update"] >>

RowMaps == {RowMsg(0, <<0, 0, 0, 0, 100>>, TRUE), RowMsg(1, <<-1, 0, 0>>, TRUE)}

Views == {<<0, 100, 0>>, <<100, -1, 0>>}
Overlays(xs) ==
  {RowMsg(x, view, TRUE) : x \in xs, view \in Views} \cup {RowMsg(0, <<0, 0, 0>>, FALSE)}

TwoOverlays ==
  LET at == {RowMsg(x, <<0, 100>>, TRUE) : x \in {0, 3}} IN 2 :> at @@ 3 :> at
OneOverlay == 3 :> Overlays({-1, 1, 3, 6})
=============================================================================
