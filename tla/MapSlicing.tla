------------------------------ MODULE MapSlicing ------------------------------
(***************************************************************************)
(* PointcloudToMaps::generateMaps: a point cloud is sliced into a map for   *)
(* every floor it shows.  Lengths are in cells of the grid and areas in     *)
(* numbers of cells, rates in percent; a point is a voxel of the grid, and  *)
(* the box of the maps is FloorCells.                                       *)
(***************************************************************************)
EXTENDS Integers, FiniteSets, FiniteSetsExt, Sequences, SequencesExt

CONSTANTS
  FloorCells,       \* the cells of the maps: <<x, y>>
  points_thresh_rate, robot_height, floor_height, floor_tolerance,
  min_floor_area, floor_area_thresh_rate,
  fill_width       \* the width around a cell that is filled

Unknown == -1
Free    == 0
Blocked == 100

\* A map: its height and the values of its cells.
IsMap(m) == m.height \in Int /\ m.data \in [FloorCells -> {Unknown, Free, Blocked}]

Heights(cloud) == {p.z : p \in cloud}
hist(cloud, h) == Cardinality({p \in cloud : p.z = h})

\* Layers with enough points, compared with the busiest one.
Busy(cloud, i) ==
  hist(cloud, i) > (Max({hist(cloud, h) : h \in Heights(cloud)}) * points_thresh_rate) \div 100

\* A point that the robot would run into, on the floor i.
Blocks(i, z) == i + floor_height + floor_tolerance < z /\ z <= i + robot_height

\* The cells of the layer i: a point on the floor, and none in the robot's way.
floor(cloud, i) ==
  [c \in FloorCells |->
     IF \E p \in cloud : p.c = c /\ Blocks(i, p.z) THEN Blocked
     ELSE IF \E p \in cloud : p.c = c /\ p.z - i \in (-floor_height)..floor_height THEN Free
     ELSE Unknown]

Area(data) == Cardinality({c \in FloorCells : data[c] = Free})

runnable(cloud, i) ==
  IF i \in Heights(cloud) /\ Busy(cloud, i) THEN Area(floor(cloud, i)) ELSE 0

\* Layers that show more floor than the next ones and enough of it.
Candidates(cloud) ==
  {i \in {h \in Heights(cloud) : Busy(cloud, h)} :
     /\ runnable(cloud, i - 1) <= runnable(cloud, i)
     /\ runnable(cloud, i + 1) <= runnable(cloud, i)
     /\ 100 * runnable(cloud, i)
          > floor_area_thresh_rate * Max({runnable(cloud, h) : h \in Heights(cloud)})}

\* From the top down, the free cells of a floor right above another become the
\* lower one's: those of the floors that follow each other without a gap end in
\* the lowest of them.
MergeSlopes(cloud, h) ==
  LET floors == Candidates(cloud)
      above  == {g \in floors : g >= h /\ h..g \subseteq floors}
  IN  [c \in FloorCells |->
         IF \E g \in above : floor(cloud, g)[c] = Free
         THEN IF h - 1 \in floors THEN Unknown ELSE Free
         ELSE floor(cloud, h)[c]]

Distance2(a, b) == (a[1] - b[1]) * (a[1] - b[1]) + (a[2] - b[2]) * (a[2] - b[2])

\* The whole part of the square root.
Root(n) == Max({k \in 0..fill_width : k * k <= n})

\* How far around a free cell the map is filled: less far than the next obstacle.
FillRadius(data, c) ==
  Root(Min({Distance2(c, o) : o \in {x \in FloorCells : data[x] = Blocked}}
             \cup {fill_width * fill_width})) - 1

Filled(data) ==
  [c \in FloorCells |->
     IF /\ data[c] # Blocked
        /\ \E f \in FloorCells : /\ data[f] = Free
                            /\ Distance2(f, c) <= FillRadius(data, f) * FillRadius(data, f)
     THEN Free ELSE data[c]]

\* The floors with enough area left.
Accepted(cloud) == {h \in Candidates(cloud) : Area(MergeSlopes(cloud, h)) >= min_floor_area}

\* One map per accepted floor, in ascending height order.
generateMaps(cloud) ==
  LET kept      == Accepted(cloud)
      height(k) == CHOOSE h \in kept : Cardinality({g \in kept : g < h}) = k - 1
  IN  [k \in 1..Cardinality(kept) |->
         [height |-> height(k), data |-> Filled(MergeSlopes(cloud, height(k)))]]
=============================================================================
