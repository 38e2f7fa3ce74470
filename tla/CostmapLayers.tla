---------------------------- MODULE CostmapLayers ----------------------------
(***************************************************************************)
(* The chain of costmap layers of costmap_3d (class Costmap3dHandler and    *)
(* its Costmap3dLayer classes).  The root layer turns the map into a        *)
(* configuration space, each layer draws its last local map over the layer  *)
(* before it, the static output publishes the costmap and the update output *)
(* the region that has changed.                                             *)
(*                                                                          *)
(* Maps are rows of cells: x, y and yaw are treated alike, and one of them  *)
(* is enough to be inside, at the edge and outside.  A footprint is the     *)
(* number of cells around an obstacle that it makes occupied.  Maps have    *)
(* the same resolution.                                                     *)
(***************************************************************************)
EXTENDS Integers, Sequences, SequencesExt

CONSTANTS
  Layers,     \* the layers behind the root, outputs included
  RootRange,  \* range_max_ of the root layer
  BaseMaps,   \* the maps received
  LocalMaps,  \* LocalMaps[i]: the local maps received by layer i
  MaxBuffer   \* bound: local maps that arrive before the map

None == [none |-> TRUE]
N == Len(Layers)

\* A layer: its class, and for a footprint layer overlay_mode_, range_max_ and
\* keep_unknown_, for an unknown handler unknown_cost_.
\* The chain of Costmap3dHandler has one static output, and the update output last.
ASSUME LayersAssumption ==
  /\ N \in Nat \ {0}
  /\ \A i \in 1..N :
       /\ Layers[i].kind \in {"footprint", "unknown", "stop", "static", "update"}
       /\ Layers[i].kind = "update" <=> i = N
       /\ Layers[i].kind = "unknown" => Layers[i].cost \in Int
  /\ \E s \in 1..N : \A i \in 1..N : Layers[i].kind = "static" <=> i = s

\* A map, its left edge, its cells and whether its frame is that of the costmap.
Grids == [x : Int, cells : Seq(Int), sameFrame : BOOLEAN]

ASSUME MapsAssumption ==
  /\ BaseMaps \subseteq {map \in Grids : map.cells # <<>>}
  /\ DOMAIN LocalMaps \subseteq 1..N
  /\ \A i \in DOMAIN LocalMaps : LocalMaps[i] \subseteq Grids

VARIABLES
  chain,    \* the layers' members
  buffer,   \* map_buffer_
  costmap,         \* the costmap on its way to the planner, if any
  costmap_update   \* the update on its way

chainVars == <<chain, buffer, costmap, costmap_update>>

-----------------------------------------------------------------------------
(* UpdatedRegion *)

Lesser(a, b) == IF a < b THEN a ELSE b
Greater(a, b) == IF a > b THEN a ELSE b

Nowhere == [x |-> 0, w |-> 0]
CellsOf(r) == r.x .. (r.x + r.w - 1)

merge(r, s) ==
  IF s.w = 0 THEN r
  ELSE IF r.w = 0 THEN s
  ELSE LET x == Lesser(r.x, s.x)
       IN  [x |-> x, w |-> Greater(r.x + r.w, s.x + s.w) - x]

\* A region beyond the end of the map keeps its x.
normalize(r, full) ==
  LET x == Greater(r.x, 0)
      w == IF r.x < 0 THEN r.w + r.x ELSE r.w
  IN  [x |-> x, w |-> Greater(0, IF x + w > full THEN full - x ELSE w)]

Width(data) == Cardinality(DOMAIN data)

bitblt(r, dest, src) ==
  LET cells == CellsOf(normalize(r, Width(src)))
  IN  [c \in DOMAIN src |-> IF c \in cells THEN src[c] ELSE dest[c]]

-----------------------------------------------------------------------------
(* Costmap3dLayerFootprint *)

\* The cells of a local map msg are numbered from 0; At is the cell of the map the i-th one is on.
Size(msg) == Len(msg.cells)
Val(msg, i) == msg.cells[i + 1]
At(msg, origin, i) == msg.x - origin + i

\* getMaskedRange: a cell spreads only to the sides on which its neighbour is lower.
Spread(range, msg, i) ==
  (IF i = 0 \/ Val(msg, i - 1) >= Val(msg, i) THEN 0 ELSE -range) ..
  (IF i = Size(msg) - 1 \/ Val(msg, i + 1) >= Val(msg, i) THEN 0 ELSE range)

clearTravelableArea(l, data, msg, origin) ==
  [c \in DOMAIN data |->
    IF /\ l.mode = "overwrite"
       /\ \E i \in l.range .. (Size(msg) - l.range - 1) :
            At(msg, origin, i) = c /\ Val(msg, i) >= 0
    THEN -1 ELSE data[c]]

DrawOn(l, data, msg, origin) ==
  LET Shown(i, c) == i \in 0..(Size(msg) - 1) /\ At(msg, origin, i) = c
      hits == {i \in 0..(Size(msg) - 1) :
                 Val(msg, i) > 0 /\ At(msg, origin, i) \in DOMAIN data}
  IN  [c \in DOMAIN data |->
        LET i == c - At(msg, origin, 0)
        IN  IF l.keepUnknown /\ Shown(i, c) /\ Val(msg, i) < 0 /\ data[c] < 0 THEN -1
            ELSE IF \E h \in hits : c - At(msg, origin, h) \in Spread(l.range, msg, h) THEN 100
            ELSE IF Shown(i, c) /\ Val(msg, i) = 0 /\ data[c] < 0 THEN 0
            ELSE data[c]]

generateCSpace(l, data, msg, origin) ==
  DrawOn(l, clearTravelableArea(l, data, msg, origin), msg, origin)

\* setBaseMap: cells that are unknown in the map are unknown in the costmap.
RootLayer == [kind |-> "footprint", mode |-> "max", range |-> RootRange, keepUnknown |-> FALSE]
RootCSpace(map) ==
  LET data == DrawOn(RootLayer, [c \in 0..(Size(map) - 1) |-> -1], map, map.x)
  IN  [c \in DOMAIN data |-> IF Val(map, c) < 0 THEN -1 ELSE data[c]]

-----------------------------------------------------------------------------
(* The chain.  c.over[i] is map_overlay_ of layer i, which is map_ of layer  *)
(* i + 1, with layer 0 the root; passed, output, maps and updates only live  *)
(* while a change runs through the chain; fresh is history: an update has    *)
(* been published since the last costmap.                                    *)

generateUpdateMsg(c) ==
  LET full   == Width(c.over[N - 1])
      region == normalize(c.region[N], full)
      merged == normalize(merge(region, c.outPrev), full)
  IN  [x |-> merged.x, w |-> IF region.w = 0 THEN 0 ELSE merged.w,
       data |-> c.over[N - 1], origin |-> c.origin]

updateChain(c, i) ==
  LET kind == Layers[i].kind
      full == [x |-> 0, w |-> Width(c.over[i])]
  IN  CASE kind = "footprint" -> c
        [] kind = "unknown" ->
             [c EXCEPT !.over[i] = [d \in DOMAIN @ |->
                IF d \in CellsOf(c.region[i]) /\ @[d] < 0 THEN Layers[i].cost ELSE @[d]]]
        [] kind = "stop" ->
             [c EXCEPT !.region[i] = full, !.over[i] = [d \in DOMAIN @ |-> -1]]
        [] kind = "static" ->
             IF c.output
             THEN [c EXCEPT !.output = FALSE,
                            !.maps = Append(@, [data |-> c.over[i - 1], origin |-> c.origin])]
             ELSE c
        [] kind = "update" ->
             [c EXCEPT !.outPrev = normalize(c.region[i], Width(c.over[i])),
                       !.region[i] = Nowhere,
                       !.updates = IF c.output THEN Append(@, generateUpdateMsg(c)) ELSE @]

\* What a layer takes over from the layer before it: its region and the last one.
\* Mutant: only its region.
RestoreOnlyNew(c, i, r) == bitblt(r, c.over[i], c.over[i - 1])
Restore(c, i, r) == bitblt(merge(r, c.prev[i]), c.over[i], c.over[i - 1])

Draw(c, i, data) ==
  IF Layers[i].kind = "footprint" /\ c.updated[i] # None /\ c.updated[i].sameFrame
  THEN generateCSpace(Layers[i], data, c.updated[i], c.origin)
  ELSE data

\* updateChainEntry of layer i, up to the call of its child.
updateChainEntry(c, i) ==
  LET r == normalize(merge(c.region[i], c.passed), Width(c.over[i]))
      drawn == Draw(c, i, Restore(c, i, r))
      d == updateChain([c EXCEPT !.region[i] = r, !.prev[i] = r, !.over[i] = drawn], i)
  IN  [d EXCEPT !.passed = d.region[i]]

\* The members as they are behind each layer, from the one before from on.
Behind(c, from) ==
  LET run[i \in (from - 1)..N] == IF i < from THEN c ELSE updateChainEntry(run[i - 1], i)
  IN  run

RunChain(c, from, region) ==
  Behind([c EXCEPT !.passed = region, !.output = TRUE], from)[N]

\* Costmap3dLayerBase::setBaseMap and setBaseMapChain
SetBaseMap(c, map) ==
  LET root == RootCSpace(map)
      copied == [c EXCEPT !.origin = map.x, !.over = [i \in 0..N |-> root]]
  IN  RunChain(copied, 1, [x |-> 0, w |-> Size(map)])

\* Costmap3dLayerBase::processMapOverlay
\* Mutant: the origin of the map is forgotten in the region.
OverlayAtItsOrigin(c, i, msg) ==
  LET region == [x |-> msg.x, w |-> Size(msg)]
  IN  RunChain([c EXCEPT !.updated[i] = msg, !.region[i] = region], i, region)
ProcessMapOverlay(c, i, msg) ==
  LET region == [x |-> At(msg, c.origin, 0), w |-> Size(msg)]
  IN  RunChain([c EXCEPT !.updated[i] = msg, !.region[i] = region], i, region)

HasMap(c) == DOMAIN c.over[0] # {}

\* The last message of each topic is kept, whether the one before was read or not.
Publish(c) ==
  /\ chain' = [c EXCEPT !.maps = <<>>, !.updates = <<>>, !.passed = Nowhere, !.output = FALSE,
                         !.fresh = c.updates # <<>>]
  /\ costmap' = IF c.maps = <<>> THEN costmap ELSE Last(c.maps)
  /\ costmap_update' = IF c.updates = <<>> THEN costmap_update ELSE Last(c.updates)

-----------------------------------------------------------------------------
(* Costmap3dHandler *)

ChainInit ==
  /\ chain = [origin |-> 0,
              over |-> [i \in 0..N |-> [c \in {} |-> -1]],
              region |-> [i \in 1..N |-> Nowhere],
              prev |-> [i \in 1..N |-> Nowhere],
              outPrev |-> Nowhere,
              updated |-> [i \in 1..N |-> None],
              passed |-> Nowhere, output |-> FALSE,
              maps |-> <<>>, updates |-> <<>>,
              fresh |-> FALSE]
  /\ buffer = <<>>
  /\ costmap = None
  /\ costmap_update = None

\* Local maps that came before the map are drawn one after the other.
DrawBuffered(c, bs) ==
  LET drawn[k \in 0..Len(bs)] ==
        IF k = 0 THEN c ELSE ProcessMapOverlay(drawn[k - 1], bs[k].layer, bs[k].msg)
  IN  drawn[Len(bs)]

cbMap ==
  /\ \E map \in BaseMaps : Publish(DrawBuffered(SetBaseMap(chain, map), buffer))
  /\ buffer' = <<>>

\* Local map for a layer, kept until there is a map.
cbMapOverlay ==
  \E i \in DOMAIN LocalMaps : \E msg \in LocalMaps[i] :
    \/ /\ HasMap(chain)
       /\ Publish(ProcessMapOverlay(chain, i, msg))
       /\ UNCHANGED buffer
    \/ /\ ~HasMap(chain)
       /\ Len(buffer) < MaxBuffer
       /\ buffer' = Append(buffer, [layer |-> i, msg |-> msg])
       /\ UNCHANGED <<chain, costmap, costmap_update>>

ChainNext == cbMap \/ cbMapOverlay

-----------------------------------------------------------------------------
(* Properties *)

\* A layer drawn anew and as a whole over the layer before it.
LayerAnew(c, i, parent) ==
  CASE Layers[i].kind = "unknown" ->
         [d \in DOMAIN parent |-> IF parent[d] < 0 THEN Layers[i].cost ELSE parent[d]]
    [] Layers[i].kind = "stop" -> [d \in DOMAIN parent |-> -1]
    [] OTHER -> Draw(c, i, parent)

DrawnAnew(c) ==
  LET over[i \in 0..N] == IF i = 0 THEN c.over[0] ELSE LayerAnew(c, i, over[i - 1])
  IN  over

\* Although only regions are redrawn, nothing of the former positions of a
\* local map remains in any layer (the test CSpaceOverlayMove, for any sequence
\* of maps and local maps).  One layer has local maps, and no footprint reaches over
\* more than one cell: a region is not widened by range_max_, and the local map of a
\* layer replaces what the layers before it have passed on to it.
OverlayIsLatest == chain.over = DrawnAnew(chain)

\* What is on its way to the planner is part of the costmap as it is now, and
\* inside of it (the assertion of generateUpdateMsg).
PublishedIsCurrent ==
  costmap_update # None /\ chain.fresh =>
      /\ costmap_update.x + costmap_update.w <= Width(chain.over[N])
      /\ \A d \in CellsOf(costmap_update) :
           costmap_update.data[d] = DrawnAnew(chain)[N][d]

\* Redrawing regions gives the layers as if all was drawn anew, and an update shows
\* the planner what they are now.
LayersAreCurrent == OverlayIsLatest /\ PublishedIsCurrent
=============================================================================
