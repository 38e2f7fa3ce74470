----------------------------- MODULE LargemapToMap -----------------------------
(***************************************************************************)
(* The node largemap_to_map: it cuts the neighbourhood of the robot out of  *)
(* a large map, as a simulated sensor sees it.                              *)
(*                                                                          *)
(* Positions are in half cells, so that the origin of a local map of odd    *)
(* width can be written down.                                               *)
(***************************************************************************)
EXTENDS RosVersion, Integers

CONSTANTS
  LargeMaps,  \* [origin, width, height, data], data by address
  Settings,   \* [width, round, occlusion, surrounded]: the parameters
  Positions   \* where the transform may place the robot

ASSUME CropperAssumption ==
  /\ \A m \in LargeMaps : /\ m.width \in Nat /\ m.height \in Nat
                         /\ m.origin \in [1..2 -> Int]
                         /\ DOMAIN m.data = 0..(m.width * m.height - 1)
  /\ \A s \in Settings : s.width \in Nat
  /\ Positions \subseteq Int \X Int

VARIABLES
  settings,  \* width_, round_local_map_, ...
  hides,     \* occlusion_table_: the cells that each cell hides
  large,     \* large_map_, or NoGrid
  local      \* the latched local map with its origin and, as a history, the
             \* map it was cut out of, or NoGrid

cropperVars == <<ros, settings, hides, large, local>>

NoGrid    == [width |-> 0]
Unseen    == -1
Obstacle  == 100

Grid(w) == (0..(w - 1)) \X (0..(w - 1))

\* Twice the distance of a cell of the local map from its middle, squared.
RSq(c, w) == (2 * c[1] - w) * (2 * c[1] - w) + (2 * c[2] - w) * (2 * c[2] - w)

-----------------------------------------------------------------------------
(* occlusion_table_ *)

Signed(a) == IF a >= 0 THEN a * a ELSE -(a * a)

\* The coordinate of the cell that is r half cells along the ray to cell c.
Along(a, c, r, w) ==
  CHOOSE k \in 0..w :
    /\ Signed(2 * k - w) * RSq(c, w) <= Signed((2 * a - w) * r)
    /\ Signed(2 * k + 2 - w) * RSq(c, w) > Signed((2 * a - w) * r)

\* Half cells r, from two on, that are more than a cell before cell c.
Before(c, w) == {r \in 2..(2 * w) : (r + 2) * (r + 2) < RSq(c, w)}

RayOf(c, w) == {<<Along(c[1], c, r, w), Along(c[2], c, r, w)>> : r \in Before(c, w)}

\* A cell with each cell of the ray to it.
Rays(w) == UNION {{<<o, c>> : o \in RayOf(c, w)} : c \in Grid(w)}

\* Mutant: the cells of the ray to an obstacle are hidden, not those behind it.
TableOfRays(w) ==
  LET rays == Rays(w)
  IN  [o \in Grid(w) |-> {c \in Grid(w) : <<c, o>> \in rays} \ {o}]

Table(w) ==
  LET rays == Rays(w)
  IN  [o \in Grid(w) |-> {c \in Grid(w) : <<o, c>> \in rays} \ {o}]

CropperInit ==
  /\ ros \in {1, 2}
  /\ settings \in Settings
  /\ hides = Table(settings.width)
  /\ large = NoGrid /\ local = NoGrid

\* Obstacles hide what is behind them, one after the other; those that are hidden
\* themselves hide nothing.
Occlude(data, w) ==
  LET shown[a \in 0..(w * w)] ==
        IF a = 0 THEN data
        ELSE LET before == shown[a - 1]
                 c      == <<(a - 1) % w, (a - 1) \div w>>
             IN  IF before[c] # Obstacle THEN before
                 ELSE [d \in Grid(w) |-> IF d \in hides[c] THEN Unseen ELSE before[d]]
  IN  shown[w * w]

-----------------------------------------------------------------------------
(* publishMap *)

\* A conversion to int drops the fraction, lround rounds halves away from zero.
Truncated(a) == IF a >= 0 THEN a \div 2 ELSE -((-a) \div 2)
Rounded(a)   == IF a >= 0 THEN (a + 1) \div 2 ELSE -((1 - a) \div 2)

Cell(p) == large.data[p[2] * large.width + p[1]]

Inside(p) == /\ 0 <= p[1] /\ p[1] < large.width
             /\ 0 <= p[2] /\ p[2] < large.height

\* The ring of obstacles of simulate_surrounded_.
Surrounding(c) ==
  LET w == settings.width
  IN  /\ settings.surrounded
      /\ RSq(c, w) <= w * w /\ (w - 4) * (w - 4) <= RSq(c, w)

Seen(c, p) ==
  IF Surrounding(c) THEN Obstacle
  ELSE IF settings.round /\ RSq(c, settings.width) > settings.width * settings.width
       THEN Unseen
  ELSE IF ~Inside(p) THEN Unseen
  ELSE Cell(p)

publishMap(pos) ==
  LET w      == settings.width
      origin == [i \in {1, 2} |-> 2 * Truncated(pos[i]) - w]
      at     == [i \in {1, 2} |-> Rounded(origin[i] - large.origin[i])]
      data   == [c \in Grid(w) |-> Seen(c, <<at[1] + c[1], at[2] + c[2]>>)]
  IN  local' = [origin |-> origin, of |-> large,
                data |-> IF settings.occlusion THEN Occlude(data, w) ELSE data]

cbLargeMap ==
  /\ large' \in LargeMaps
  /\ UNCHANGED <<ros, settings, hides, local>>

\* Nothing is published before the first map, or when the transform fails.
cbCropTimer ==
  /\ large # NoGrid
  /\ \E pos \in Positions : publishMap(pos)
  /\ UNCHANGED <<ros, settings, hides, large>>

LargemapToMapNode     == ros = 2 /\ (cbLargeMap \/ cbCropTimer)
LargemapToMapNodeRos1 == ros = 1 /\ (cbLargeMap \/ cbCropTimer)

CropperNext == LargemapToMapNode \/ LargemapToMapNodeRos1

CropperSpec == CropperInit /\ [][CropperNext]_cropperVars

-----------------------------------------------------------------------------
(* Properties *)

\* The corner of a cell of a local map, relative to the large map.
Corner(c, map) == [i \in {1, 2} |-> map.origin[i] + 2 * c[i] - map.of.origin[i]]

\* The cells of the large map, of n along a coordinate, within half a cell of at.
Near(at, n) == {x \in 0..(n - 1) : 2 * x - at \in -1..1}

\* What the simulated sensor may find at a cell, if nothing is in front of it.
MayBe(c, map) ==
  LET w  == settings.width
      at == Corner(c, map)
      of == map.of
  IN  IF Surrounding(c) THEN {Obstacle}
      ELSE IF settings.round /\ RSq(c, w) > w * w THEN {Unseen}
      ELSE {u \in {Unseen} : \/ at[1] < 0 \/ at[1] + 2 > 2 * of.width
                            \/ at[2] < 0 \/ at[2] + 2 > 2 * of.height}
           \cup {of.data[y * of.width + x] : x \in Near(at[1], of.width), y \in Near(at[2], of.height)}

\* The straight way from the middle of the local map to the corner of cell c meets
\* cell o: their extents overlap, and the way leaves no corner of o on its other side.
Meets(o, c, w) ==
  LET v == [i \in {1, 2} |-> 2 * c[i] - w]
      u == [i \in {1, 2} |-> 2 * o[i] - w]
      side(x, y) == v[1] * y - v[2] * x
  IN  /\ \A i \in {1, 2} : /\ 0 <= u[i] + 2 \/ v[i] <= u[i] + 2
                           /\ u[i] <= 0 \/ u[i] <= v[i]
      /\ \E x \in {u[1], u[1] + 2}, y \in {u[2], u[2] + 2} : side(x, y) >= 0
      /\ \E x \in {u[1], u[1] + 2}, y \in {u[2], u[2] + 2} : side(x, y) <= 0

\* What a local map shows was in the large map, at the same place up to half a
\* cell, however the origins are rounded: truncated for the robot, to the next
\* integer for the large map.  A cell is only left out where it is not within the
\* large map, where the local map is cut round, or where there is an obstacle on
\* the straight way to it; and all are that an obstacle hides which is shown.
CropMatches ==
  local # NoGrid =>
    \A c \in Grid(settings.width) :
      /\ \/ local.data[c] \in MayBe(c, local)
         \/ /\ settings.occlusion /\ local.data[c] = Unseen
            /\ \E o \in Grid(settings.width) \ {c} :
                 Meets(o, c, settings.width) /\ Obstacle \in MayBe(o, local)
      /\ settings.occlusion /\ local.data[c] = Obstacle
           => \A d \in hides[c] : local.data[d] = Unseen
=============================================================================
