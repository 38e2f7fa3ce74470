---------------------------- MODULE RememberedCosts ----------------------------
(***************************************************************************)
(* The remembered costmap of planner_3d (class CostmapBBFImpl) and the      *)
(* costmap updates that feed it: obstacles that local maps have shown       *)
(* around the robot are kept as odds, and from the odds as costs that the   *)
(* distance map adds to its own.                                            *)
(*                                                                          *)
(* The costs are refreshed only where the odds may have changed, and the    *)
(* distance map is updated only where the costmap update was.               *)
(*                                                                          *)
(* Odds are levels on a logarithmic scale between MIN_ODDS, which is 0, and *)
(* MAX_ODDS, which is Top.                                                  *)
(***************************************************************************)
EXTENDS Integers

CONSTANTS
  Width, Height,   \* map_info_.width, map_info_.height
  Top,             \* the level of MAX_ODDS
  Hit, Miss,       \* what remember_hit_odds_ adds and remember_miss_odds_ takes
  CostAt,          \* CostAt[o]: the normalized probability at level o, in percent
  IgnoreRange,     \* hist_ignore_range_
  IgnoreRangeMax,  \* hist_ignore_range_max_
  Robots,          \* the cells where the robot may be, on and off the map
  Messages         \* updates: [min, size, cost], cost[p] is the least over the angles

\* Widths, ranges and the corners of an update are unsigned, a cost is a char of
\* at most 100, and the odds of MIN_ODDS are those of a free cell.
ASSUME MemoryAssumption ==
  /\ {Width, Height, Top, Hit, Miss, IgnoreRange, IgnoreRangeMax} \subseteq Nat
  /\ CostAt[0] = 0
  /\ Robots \subseteq Int \X Int
  /\ \A m \in Messages :
       /\ m.min \in Nat \X Nat /\ m.size \in Nat \X Nat
       /\ m.cost \in [(0..(Width - 1)) \X (0..(Height - 1)) -> -1..100]

VARIABLES
  updates,  \* cm_updates_
  area,     \* prev_map_update_*: the corners of the last update
  odds,     \* cm_hist_bbf_
  hist,     \* cm_hist_
  box       \* updated_min_ and updated_max_

memoryVars == <<updates, area, odds, hist, box>>

Cells == (0..(Width - 1)) \X (0..(Height - 1))

Least(a, b)    == IF a < b THEN a ELSE b
Greatest(a, b) == IF a > b THEN a ELSE b

InBox(p, b) == \A i \in 1..2 : b[1][i] <= p[i] /\ p[i] <= b[2][i]

Nowhere   == <<<<Width, Height>>, <<0, 0>>>>
Refreshed == <<<<Width, Height>>, <<-1, -1>>>>
WholeMap  == <<<<0, 0>>, <<Width - 1, Height - 1>>>>

-----------------------------------------------------------------------------
(* CostmapBBFImpl *)

Updated(o, by) == Greatest(0, Least(Top, o + by))

\* The radius is in cells, the robot's own surroundings count only as free.
Remembered(seen, c) ==
  [p \in Cells |->
     LET sq == (p[1] - c[1]) * (p[1] - c[1]) + (p[2] - c[2]) * (p[2] - c[2])
     IN  IF sq > IgnoreRangeMax * IgnoreRangeMax \/ seen[p] < 0 THEN odds[p]
         ELSE IF seen[p] < 100 THEN Updated(odds[p], 0 - Miss)
         ELSE IF sq < IgnoreRange * IgnoreRange THEN odds[p]
         ELSE Updated(odds[p], Hit)]

\* Mutant: a box that is one cell too small.
TouchedShort(c) ==
  <<[i \in 1..2 |-> Least(box[1][i], Greatest(0, c[i] - IgnoreRangeMax))],
    [i \in 1..2 |-> Greatest(box[2][i], Least(WholeMap[2][i], c[i] + IgnoreRangeMax - 1))]>>

\* The box around what remember() may touch, and what was not refreshed before.
Touched(c) ==
  <<[i \in 1..2 |-> Least(box[1][i], Greatest(0, c[i] - IgnoreRangeMax))],
    [i \in 1..2 |-> Greatest(box[2][i], Least(WholeMap[2][i], c[i] + IgnoreRangeMax))]>>

Refresh(o, b) == [p \in Cells |-> IF InBox(p, b) THEN CostAt[o[p]] ELSE hist[p]]

remember(seen, c) ==
  /\ odds' = Remembered(seen, c)
  /\ hist' = Refresh(odds', Touched(c))
  /\ box' = Refreshed

clear ==
  /\ odds' = [p \in Cells |-> 0]
  /\ hist' = [p \in Cells |-> 0]
  /\ box' = WholeMap

-----------------------------------------------------------------------------
(* The planner *)

setMap ==
  /\ updates' = [p \in Cells |-> 0]
  /\ area' = Nowhere
  /\ clear

\* The corners of an update; one without a size has those of a single cell.
AreaOf(m) ==
  <<m.min, [i \in 1..2 |-> Greatest(m.min[i] + m.size[i] - 1, 0)]>>

CellsOf(m) ==
  {p \in Cells : \A i \in 1..2 : m.min[i] <= p[i] /\ p[i] < m.min[i] + m.size[i]}

\* Mutant: what the last update showed is still seen.
SeenSinceMap(m) ==
  [p \in Cells |-> IF p \in CellsOf(m) THEN m.cost[p] ELSE updates[p]]

\* What neither this update nor the one before covers stays as it was: unknown if
\* an earlier update covered it, free since the map came if none did.
Seen(m) ==
  [p \in Cells |-> IF p \in CellsOf(m) THEN m.cost[p]
                   ELSE IF InBox(p, area) THEN -1 ELSE updates[p]]

\* remember_updates_ is a parameter; without a start pose nothing is remembered.
applyCostmapUpdate(m) ==
  IF AreaOf(m)[2] \notin Cells
  THEN UNCHANGED memoryVars
  ELSE /\ updates' = Seen(m)
       /\ area' = AreaOf(m)
       /\ \/ \E c \in Robots : remember(updates', c)
          \/ UNCHANGED <<odds, hist, box>>

CostmapUpdate == \E m \in Messages : applyCostmapUpdate(m)

\* forgetRememberedCostmap, and clearRememberedCostmap when the robot jumps.
Forget == clear /\ UNCHANGED <<updates, area>>

MemoryInit ==
  /\ updates = [p \in Cells |-> 0]
  /\ area = Nowhere
  /\ odds = [p \in Cells |-> 0]
  /\ hist = [p \in Cells |-> 0]
  /\ box = WholeMap

MemoryNext == setMap \/ CostmapUpdate \/ Forget

MemorySpec == MemoryInit /\ [][MemoryNext]_memoryVars

-----------------------------------------------------------------------------
(* Properties *)

\* The costs are those of the odds everywhere, although only a box around the
\* robot is computed anew, wherever on or off the map the robot was.
CostsFollowOdds ==
  \A p \in Cells : odds[p] \in 0..Top /\ hist[p] = CostAt[odds[p]]

\* An update changes remembered costs only where it has been looking: neither is
\* anything forgotten that was not seen to be free, nor counted again, and the
\* distance map, which is updated around the corners of the last two updates only,
\* misses no change.  Cells that no update covered since the map came count as
\* free, which is harmless because nothing is remembered there.
ChangesOnlySeen ==
  [][box' = Refreshed
       => \A p \in Cells : hist'[p] # hist[p] => InBox(p, area')]_memoryVars
=============================================================================
