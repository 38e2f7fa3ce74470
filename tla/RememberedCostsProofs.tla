----------------------- MODULE RememberedCostsProofs ------------------------
(***************************************************************************)
(* Proofs about RememberedCosts, for maps of every size, every robot pose   *)
(* on or off the map, and every sequence of maps, updates and resets.       *)
(*                                                                          *)
(* The costs are computed anew only in a box.  Current says that they are   *)
(* those of the odds everywhere, which needs that what remember() changes   *)
(* lies in that box; Unseen says what an earlier update may have left       *)
(* outside the corners of the last one, which is nothing to remember.       *)
(***************************************************************************)
EXTENDS RememberedCosts, TLAPS

\* Outside the last update a cell is unknown, or free with nothing remembered.
Unseen == \A p \in Cells :
            ~InBox(p, area) => updates[p] = -1 \/ (updates[p] = 0 /\ odds[p] = 0)

Current == \A p \in Cells : hist[p] = CostAt[odds[p]]

Corner == Int \X Int

MemoryInv ==
  /\ updates \in [Cells -> -1..100]
  /\ odds \in [Cells -> 0..Top]
  /\ hist = [p \in Cells |-> hist[p]]
  /\ area \in Corner \X Corner /\ box \in Corner \X Corner
  /\ Current
  /\ Unseen

\* A cell farther away than a range on one axis is outside the circle of that
\* range, which is compared by squares.
LEMMA FarOnOneAxis ==
  ASSUME NEW r \in Nat, NEW a \in Int, NEW b \in Int, a > r \/ a < -r
  PROVE  a * a + b * b > r * r
<1>1. b * b >= 0
  OBVIOUS
<1>2. a * a > r * r
  OBVIOUS
<1> QED BY <1>1, <1>2

\* The odds stay on their scale, and those of a cell without any stay 0.
LEMMA OddsBounded ==
  ASSUME NEW o \in 0..Top, NEW by \in Int
  PROVE  /\ Updated(o, by) \in 0..Top
         /\ by <= 0 => Updated(0, by) = 0
BY MemoryAssumption DEF Updated, Greatest, Least

\* What remember() leaves as it was, and what it does to a free cell.
LEMMA RememberedResult ==
  ASSUME odds \in [Cells -> 0..Top], NEW seen \in [Cells -> -1..100],
         NEW c \in Corner
  PROVE  /\ Remembered(seen, c) \in [Cells -> 0..Top]
         /\ \A p \in Cells :
              /\ seen[p] < 0 => Remembered(seen, c)[p] = odds[p]
              /\ seen[p] = 0 /\ odds[p] = 0 => Remembered(seen, c)[p] = 0
              /\ (\E i \in 1..2 : p[i] - c[i] > IgnoreRangeMax
                                  \/ p[i] - c[i] < -IgnoreRangeMax)
                   => Remembered(seen, c)[p] = odds[p]
<1>1. SUFFICES ASSUME NEW p \in Cells
               PROVE  /\ Remembered(seen, c)[p] \in 0..Top
                      /\ seen[p] < 0 => Remembered(seen, c)[p] = odds[p]
                      /\ seen[p] = 0 /\ odds[p] = 0 => Remembered(seen, c)[p] = 0
                      /\ (\E i \in 1..2 : p[i] - c[i] > IgnoreRangeMax
                                          \/ p[i] - c[i] < -IgnoreRangeMax)
                           => Remembered(seen, c)[p] = odds[p]
  <2>1. Remembered(seen, c) = [p \in Cells |-> Remembered(seen, c)[p]]
    BY DEF Remembered
  <2> HIDE DEF Cells
  <2> QED BY <2>1
<1> DEFINE a == p[1] - c[1]
           b == p[2] - c[2]
           sq == a * a + b * b
           rr == IgnoreRangeMax * IgnoreRangeMax
           ii == IgnoreRange * IgnoreRange
<1>2. /\ a \in Int /\ b \in Int /\ IgnoreRangeMax \in Nat /\ Hit \in Nat /\ Miss \in Nat
      /\ seen[p] \in -1..100 /\ odds[p] \in 0..Top
  BY MemoryAssumption DEF Cells, Corner
<1>3. sq \in Int /\ rr \in Int
  BY <1>2
<1>4. (\E i \in 1..2 : p[i] - c[i] > IgnoreRangeMax \/ p[i] - c[i] < -IgnoreRangeMax)
        => sq > rr
  <2>1. a > IgnoreRangeMax \/ a < -IgnoreRangeMax => sq > rr
    BY <1>2, FarOnOneAxis
  <2>2. b > IgnoreRangeMax \/ b < -IgnoreRangeMax => b * b + a * a > rr
    BY <1>2, FarOnOneAxis
  <2>3. b * b + a * a = sq
    BY <1>2
  <2>4. \A i \in 1..2 : i = 1 \/ i = 2
    OBVIOUS
  <2> HIDE DEF sq, rr
  <2> QED BY <2>1, <2>2, <2>3, <2>4
<1>5. Remembered(seen, c)[p] =
        IF sq > rr \/ seen[p] < 0 THEN odds[p]
        ELSE IF seen[p] < 100 THEN Updated(odds[p], 0 - Miss)
        ELSE IF sq < ii THEN odds[p] ELSE Updated(odds[p], Hit)
  BY DEF Remembered
<1>6. /\ Updated(odds[p], 0 - Miss) \in 0..Top /\ Updated(odds[p], Hit) \in 0..Top
      /\ odds[p] = 0 => Updated(odds[p], 0 - Miss) = 0
  <2>1. 0 - Miss \in Int /\ 0 - Miss <= 0 /\ Hit \in Int
    BY <1>2
  <2>2. \A o \in 0..Top, by \in Int : Updated(o, by) \in 0..Top
    BY OddsBounded
  <2>3. \A by \in Int : by <= 0 => Updated(0, by) = 0
    <3>1. 0 \in 0..Top
      BY MemoryAssumption
    <3> QED BY <3>1, OddsBounded
  <2> QED BY <1>2, <2>1, <2>2, <2>3
<1> HIDE DEF sq, rr, ii, a, b
<1> QED BY <1>2, <1>3, <1>4, <1>5, <1>6

\* The box around the robot covers every cell of the map within the range.
LEMMA TouchedCovers ==
  ASSUME box \in Corner \X Corner, NEW c \in Corner, NEW p \in Cells,
         ~InBox(p, Touched(c))
  PROVE  \E i \in 1..2 : p[i] - c[i] > IgnoreRangeMax \/ p[i] - c[i] < -IgnoreRangeMax
<1>1. PICK i \in 1..2 : ~(Touched(c)[1][i] <= p[i] /\ p[i] <= Touched(c)[2][i])
  BY DEF InBox
<1>2. /\ Touched(c)[1][i] = Least(box[1][i], Greatest(0, c[i] - IgnoreRangeMax))
      /\ Touched(c)[2][i] = Greatest(box[2][i], Least(WholeMap[2][i], c[i] + IgnoreRangeMax))
  BY DEF Touched
<1>3. /\ p[i] \in Int /\ 0 <= p[i] /\ p[i] <= WholeMap[2][i] /\ WholeMap[2][i] \in Int
      /\ c[i] \in Int /\ box[1][i] \in Int /\ box[2][i] \in Int /\ IgnoreRangeMax \in Nat
  BY MemoryAssumption DEF Cells, Corner, WholeMap
<1> HIDE DEF Touched, WholeMap, Cells
<1> QED BY <1>1, <1>2, <1>3 DEF Least, Greatest

\* remember() keeps the costs current, and changes nothing of what was not seen.
LEMMA RememberKeeps ==
  ASSUME MemoryInv, NEW seen \in [Cells -> -1..100], NEW c \in Corner,
         remember(seen, c)
  PROVE  /\ odds' \in [Cells -> 0..Top] /\ hist' = [p \in Cells |-> hist'[p]]
         /\ box' \in Corner \X Corner /\ Current'
         /\ \A p \in Cells :
              /\ seen[p] < 0 \/ (seen[p] = 0 /\ odds[p] = 0) => odds'[p] = odds[p]
              /\ odds'[p] = odds[p] => hist'[p] = hist[p]
<1>1. odds' = Remembered(seen, c) /\ hist' = Refresh(odds', Touched(c)) /\ box' = Refreshed
  BY DEF remember
<1>2. odds' \in [Cells -> 0..Top]
  BY <1>1, RememberedResult DEF MemoryInv
<1>3. ASSUME NEW p \in Cells
      PROVE  /\ seen[p] < 0 \/ (seen[p] = 0 /\ odds[p] = 0) => odds'[p] = odds[p]
             /\ hist'[p] = CostAt[odds'[p]]
             /\ hist[p] = CostAt[odds[p]]
  <2>1. /\ seen[p] < 0 => odds'[p] = odds[p]
        /\ seen[p] = 0 /\ odds[p] = 0 => odds'[p] = 0
        /\ ~InBox(p, Touched(c)) => odds'[p] = odds[p]
    BY <1>1, RememberedResult, TouchedCovers DEF MemoryInv
  <2>2. hist[p] = CostAt[odds[p]]
    BY DEF MemoryInv, Current
  <2>3. hist'[p] = IF InBox(p, Touched(c)) THEN CostAt[odds'[p]] ELSE hist[p]
    BY <1>1 DEF Refresh
  <2> QED BY <2>1, <2>2, <2>3
<1>4. hist' = [p \in Cells |-> hist'[p]]
  BY <1>1 DEF Refresh
<1>5. box' \in Corner \X Corner
  BY MemoryAssumption, <1>1 DEF Refreshed, Corner
<1> HIDE DEF Cells
<1> QED BY <1>2, <1>3, <1>4, <1>5 DEF Current

\* What an update shows: inside its corners its costs, outside nothing new.
LEMMA SeenResult ==
  ASSUME MemoryInv, NEW m \in Messages
  PROVE  /\ Seen(m) \in [Cells -> -1..100] /\ AreaOf(m) \in Corner \X Corner
         /\ \A p \in Cells : ~InBox(p, AreaOf(m)) =>
              Seen(m)[p] = -1 \/ (Seen(m)[p] = 0 /\ odds[p] = 0)
<1>1. m.min \in Nat \X Nat /\ m.size \in Nat \X Nat /\ m.cost \in [Cells -> -1..100]
  BY MemoryAssumption DEF Cells
<1>2. AreaOf(m) \in Corner \X Corner
  BY <1>1 DEF AreaOf, Corner, Greatest
<1>3. ASSUME NEW p \in Cells
      PROVE  /\ Seen(m)[p] \in -1..100
             /\ ~InBox(p, AreaOf(m)) =>
                  Seen(m)[p] = -1 \/ (Seen(m)[p] = 0 /\ odds[p] = 0)
  <2>1. Seen(m)[p] = IF p \in CellsOf(m) THEN m.cost[p]
                     ELSE IF InBox(p, area) THEN -1 ELSE updates[p]
    BY DEF Seen
  <2>2. p \in CellsOf(m) => InBox(p, AreaOf(m))
    <3> SUFFICES ASSUME p \in CellsOf(m), NEW i \in 1..2
                 PROVE  AreaOf(m)[1][i] <= p[i] /\ p[i] <= AreaOf(m)[2][i]
      BY DEF InBox
    <3>1. AreaOf(m)[1][i] = m.min[i]
          /\ AreaOf(m)[2][i] = Greatest(m.min[i] + m.size[i] - 1, 0)
      BY DEF AreaOf
    <3>2. m.min[i] \in Nat /\ m.size[i] \in Nat /\ p[i] \in Int
          /\ m.min[i] <= p[i] /\ p[i] < m.min[i] + m.size[i]
      BY <1>1 DEF CellsOf, Cells
    <3> HIDE DEF AreaOf, CellsOf, Cells
    <3> QED BY <3>1, <3>2 DEF Greatest
  <2>3. updates[p] \in -1..100 /\ m.cost[p] \in -1..100
    BY <1>1 DEF MemoryInv
  <2>4. ~InBox(p, area) => updates[p] = -1 \/ (updates[p] = 0 /\ odds[p] = 0)
    BY DEF MemoryInv, Unseen
  <2> QED BY <2>1, <2>2, <2>3, <2>4
<1>4. Seen(m) = [p \in Cells |-> Seen(m)[p]]
  BY DEF Seen
<1> HIDE DEF Cells
<1> QED BY <1>2, <1>3, <1>4

\* A costmap update keeps the invariant and changes only what it shows.
LEMMA UpdateKeepsMemory ==
  ASSUME MemoryInv, NEW m \in Messages, applyCostmapUpdate(m)
  PROVE  /\ MemoryInv'
         /\ \A p \in Cells : hist'[p] # hist[p] => InBox(p, area')
<1>1. CASE AreaOf(m)[2] \notin Cells
  BY <1>1 DEF applyCostmapUpdate, memoryVars, MemoryInv, Current, Unseen
<1>2. CASE AreaOf(m)[2] \in Cells
  <2>1. /\ updates' = Seen(m) /\ area' = AreaOf(m)
        /\ \/ \E c \in Robots : remember(updates', c)
           \/ UNCHANGED <<odds, hist, box>>
    BY <1>2 DEF applyCostmapUpdate
  <2>2. /\ updates' \in [Cells -> -1..100] /\ area' \in Corner \X Corner
        /\ \A p \in Cells : ~InBox(p, area') =>
             updates'[p] = -1 \/ (updates'[p] = 0 /\ odds[p] = 0)
    BY <2>1, SeenResult
  <2>3. /\ odds' \in [Cells -> 0..Top] /\ hist' = [p \in Cells |-> hist'[p]]
        /\ box' \in Corner \X Corner /\ Current'
        /\ \A p \in Cells :
             /\ updates'[p] < 0 \/ (updates'[p] = 0 /\ odds[p] = 0) => odds'[p] = odds[p]
             /\ odds'[p] = odds[p] => hist'[p] = hist[p]
    <3>1. CASE UNCHANGED <<odds, hist, box>>
      BY <3>1 DEF MemoryInv, Current
    <3>2. CASE \E c \in Robots : remember(updates', c)
      <4>1. PICK c \in Corner : remember(updates', c)
        BY MemoryAssumption, <3>2 DEF Corner
      <4> DEFINE seen == Seen(m)
      <4>2. seen \in [Cells -> -1..100] /\ remember(seen, c) /\ updates' = seen
        BY <2>1, <4>1, SeenResult
      <4> HIDE DEF seen
      <4> QED BY <4>2, RememberKeeps
    <3> QED BY <2>1, <3>1, <3>2
  <2>4. ASSUME NEW p \in Cells, ~InBox(p, area')
        PROVE  /\ odds'[p] = odds[p] /\ hist'[p] = hist[p]
               /\ updates'[p] = -1 \/ (updates'[p] = 0 /\ odds'[p] = 0)
    BY <2>2, <2>3, <2>4
  <2>5. Unseen'
    BY <2>4 DEF Unseen
  <2> QED BY <2>2, <2>3, <2>4, <2>5 DEF MemoryInv
<1> QED BY <1>1, <1>2

\* A new map, a reset and every costmap update keep the invariant; a step that
\* leaves the box of a refreshed map changes costs only where it was shown.
LEMMA NextKeepsMemory ==
  ASSUME MemoryInv, [MemoryNext]_memoryVars
  PROVE  /\ MemoryInv'
         /\ box' = Refreshed => \A p \in Cells : hist'[p] # hist[p] => InBox(p, area')
<1>1. ASSUME clear,
             \/ updates' = [p \in Cells |-> 0] /\ area' = Nowhere
             \/ UNCHANGED <<updates, area>>
      PROVE  /\ MemoryInv'
             /\ box' = Refreshed => Cells = {}
  <2>1. /\ odds' \in [Cells -> 0..Top] /\ hist' = [p \in Cells |-> hist'[p]]
        /\ box' \in Corner \X Corner /\ Current'
    BY MemoryAssumption, <1>1 DEF clear, WholeMap, Corner, Current
  <2>2. updates' \in [Cells -> -1..100] /\ area' \in Corner \X Corner
    BY MemoryAssumption, <1>1 DEF MemoryInv, Nowhere, Corner
  <2>3. Unseen'
    <3> SUFFICES ASSUME NEW p \in Cells, ~InBox(p, area')
                 PROVE  updates'[p] = -1 \/ (updates'[p] = 0 /\ odds'[p] = 0)
      BY DEF Unseen
    <3>1. odds'[p] = 0
      BY <1>1 DEF clear
    <3>2. updates'[p] = -1 \/ updates'[p] = 0
      BY <1>1 DEF MemoryInv, Unseen
    <3> QED BY <3>1, <3>2
  <2>4. box' = Refreshed => Cells = {}
    BY MemoryAssumption, <1>1 DEF clear, WholeMap, Refreshed, Cells
  <2> QED BY <2>1, <2>2, <2>3, <2>4 DEF MemoryInv
<1>2. CASE setMap \/ Forget
  BY <1>1, <1>2 DEF setMap, Forget
<1>3. CASE CostmapUpdate
  BY <1>3, UpdateKeepsMemory DEF CostmapUpdate
<1>4. CASE UNCHANGED memoryVars
  BY <1>4 DEF memoryVars, MemoryInv, Current, Unseen
<1> QED BY <1>2, <1>3, <1>4 DEF MemoryNext

\* At first nothing is remembered.
LEMMA InitMemory == ASSUME MemoryInit PROVE MemoryInv
<1>1. /\ odds \in [Cells -> 0..Top] /\ hist = [p \in Cells |-> hist[p]]
      /\ box \in Corner \X Corner /\ Current
  BY MemoryAssumption DEF MemoryInit, WholeMap, Corner, Current
<1>2. updates \in [Cells -> -1..100] /\ area \in Corner \X Corner /\ Unseen
  BY MemoryAssumption DEF MemoryInit, Nowhere, Corner, Unseen
<1> QED BY <1>1, <1>2 DEF MemoryInv

\* The remembered costs are those of the odds on the whole map, although only a
\* box around the robot is computed anew, wherever the robot is.
THEOREM CostsAreCurrent ==
  MemorySpec => []CostsFollowOdds
<1>1. MemoryInit => MemoryInv
  BY InitMemory
<1>2. MemoryInv /\ [MemoryNext]_memoryVars => MemoryInv'
  BY NextKeepsMemory
<1>3. MemoryInv => CostsFollowOdds
  BY DEF MemoryInv, Current, CostsFollowOdds
<1> QED BY <1>1, <1>2, <1>3, PTL DEF MemorySpec

\* An update changes remembered costs only inside its own corners, which is where
\* the distance map looks for changes.
THEOREM OnlySeenChanges ==
  MemorySpec => ChangesOnlySeen
<1>1. MemoryInit => MemoryInv
  BY InitMemory
<1>2. MemoryInv /\ [MemoryNext]_memoryVars =>
        /\ MemoryInv'
        /\ box' = Refreshed => \A p \in Cells : hist'[p] # hist[p] => InBox(p, area')
  BY NextKeepsMemory
<1> QED BY <1>1, <1>2, PTL DEF MemorySpec, ChangesOnlySeen
=============================================================================
