----------------------------- MODULE CostmapProofs -----------------------------
(***************************************************************************)
(* Proofs about the costmap layers and the planner's costmap.               *)
(*                                                                          *)
(* A change runs through the layers one behind the other; RunSoFar says     *)
(* what holds behind each of them, and the lemmas up to RunEnds that a      *)
(* layer keeps it: because the region that is passed on only grows, and     *)
(* what a layer restores holds its last region too, all cells outside are   *)
(* already as if drawn anew.  DrawnFrom is what holds between two changes.  *)
(***************************************************************************)
EXTENDS CostmapPipeline, Induction, FiniteSetTheorems, TLAPS

-----------------------------------------------------------------------------
(* Regions *)

Regions == [x : Int, w : Nat]

\* The cells of r that are in the row are cells of s.
Within(r, s, w) == \A d \in 0..(w - 1) : d \in CellsOf(r) => d \in CellsOf(s)

\* A region inside of a row.
Proper(r, full) == r.x >= 0 /\ r.x + r.w <= full

\* Normalizing cuts a region to the row.
LEMMA NormalizeCuts ==
  ASSUME NEW r \in Regions, NEW full \in Nat
  PROVE  /\ normalize(r, full) \in Regions
         /\ \A d \in Int : d \in CellsOf(normalize(r, full)) <=>
                             d \in CellsOf(r) /\ d \in 0..(full - 1)
         /\ normalize(r, full).w = 0 \/ Proper(normalize(r, full), full)
         /\ normalize(r, full).x >= 0
BY DEF Regions, normalize, CellsOf, Proper, Greater

\* A merged region holds both.
LEMMA MergeHolds ==
  ASSUME NEW r \in Regions, NEW s \in Regions
  PROVE  /\ merge(r, s) \in Regions
         /\ \A d \in Int : d \in CellsOf(r) \/ d \in CellsOf(s) => d \in CellsOf(merge(r, s))
BY DEF Regions, merge, CellsOf, Greater, Lesser

\* Merging a region that is inside already adds nothing.
LEMMA MergeInside ==
  ASSUME NEW r \in Regions, NEW s \in Regions,
         \A d \in Int : d \in CellsOf(s) => d \in CellsOf(r)
  PROVE  \A d \in Int : d \in CellsOf(merge(r, s)) => d \in CellsOf(r)
<1>1. CASE s.w = 0
  BY <1>1 DEF merge
<1>2. CASE s.w # 0
  <2>1. s.x \in CellsOf(s) /\ s.x + s.w - 1 \in CellsOf(s) /\ s.x \in Int /\ s.w \in Nat
    BY <1>2 DEF Regions, CellsOf
  <2>2. s.x \in CellsOf(r) /\ s.x + s.w - 1 \in CellsOf(r)
    BY <2>1
  <2>3. QED
    BY <1>2, <2>1, <2>2 DEF Regions, merge, CellsOf, Greater, Lesser
<1>3. QED
  BY <1>1, <1>2

\* The static output of the chain.
StaticOutput == CHOOSE s \in 1..N : \A i \in 1..N : Layers[i].kind = "static" <=> i = s

\* There is one, and it is before the update output.
LEMMA OneStaticOutput ==
  /\ StaticOutput \in 1..(N - 1)
  /\ \A i \in 1..N : Layers[i].kind = "static" <=> i = StaticOutput
<1>1. \E s \in 1..N : \A i \in 1..N : Layers[i].kind = "static" <=> i = s
  BY LayersAssumption
<1>2. StaticOutput \in 1..N /\ \A i \in 1..N : Layers[i].kind = "static" <=> i = StaticOutput
  BY <1>1 DEF StaticOutput
<1>3. StaticOutput # N
  BY <1>2, LayersAssumption
<1>4. QED
  BY <1>2, <1>3, LayersAssumption

\* What is published fits into the row.
LEMMA UpdateFits ==
  ASSUME NEW r \in Regions, NEW o \in Regions, NEW full \in Nat,
         Proper(r, full), r.w > 0 \/ Proper(o, full)
  PROVE  LET merged == normalize(merge(r, o), full)
         IN  /\ merged.x <= full /\ merged.x + merged.w <= full
             /\ merged \in Regions
<1> DEFINE s == merge(r, o)
<1>1. s \in Regions /\ s.x <= full
  <2>1. r.x \in Int /\ r.w \in Nat /\ o.x \in Int /\ o.w \in Nat
    BY DEF Regions
  <2>2. CASE o.w = 0
    BY <2>1, <2>2 DEF merge, Proper
  <2>3. CASE o.w # 0 /\ r.w = 0
    BY <2>1, <2>3 DEF merge, Proper
  <2>4. CASE o.w # 0 /\ r.w # 0
    <3>1. s.x = Lesser(r.x, o.x)
      BY <2>4 DEF merge
    <3>2. s \in Regions
      BY MergeHolds
    <3>3. QED
      BY <2>1, <3>1, <3>2 DEF Proper, Lesser
  <2>5. QED
    BY <2>2, <2>3, <2>4
<1> DEFINE n == normalize(s, full)
<1> HIDE DEF s
<1>2. n.x <= full
  BY <1>1 DEF Regions, normalize, Greater
<1>3. n \in Regions /\ (n.w = 0 \/ Proper(n, full))
  BY <1>1, NormalizeCuts
<1>4. n.x + n.w <= full
  BY <1>2, <1>3 DEF Regions, Proper
<1>5. QED
  BY <1>2, <1>3, <1>4 DEF s

-----------------------------------------------------------------------------
(* Rows and layers *)

Rows(w) == [0..(w - 1) -> Int]

\* The width of a row.
LEMMA WidthOfRow ==
  ASSUME NEW w \in Nat, NEW row \in Rows(w)
  PROVE  Width(row) = w
<1>1. Cardinality(0..(w - 1)) = w
  BY FS_Interval
<1>2. QED
  BY <1>1 DEF Width, Rows

\* A drawn row is a row.
LEMMA DrawnIsRow ==
  ASSUME NEW w \in Nat, NEW data \in Rows(w), NEW l, NEW msg, NEW origin
  PROVE  /\ DrawOn(l, data, msg, origin) \in Rows(w)
         /\ generateCSpace(l, data, msg, origin) \in Rows(w)
<1>1. ASSUME NEW row \in Rows(w)
      PROVE  DrawOn(l, row, msg, origin) \in Rows(w)
  BY <1>1 DEF Rows, DrawOn
<1>2. clearTravelableArea(l, data, msg, origin) \in Rows(w)
  BY DEF Rows, clearTravelableArea
<1>3. QED
  BY <1>1, <1>2 DEF generateCSpace

\* A footprint of at most one cell draws inside of the local map: it spreads only to
\* sides on which the local map has a lower neighbour.
LEMMA DrawsInside ==
  ASSUME NEW w \in Nat, NEW data \in Rows(w), NEW l, l.range \in 0..1,
         NEW msg \in Grids, NEW origin \in Int, NEW d \in 0..(w - 1),
         d \notin CellsOf([x |-> At(msg, origin, 0), w |-> Size(msg)])
  PROVE  generateCSpace(l, data, msg, origin)[d] = data[d]
<1>1. msg.x \in Int /\ Size(msg) \in Nat
  BY DEF Grids, Size
<1>2. ~(d >= msg.x - origin /\ d <= msg.x - origin + Size(msg) - 1)
  BY <1>1 DEF CellsOf, At
<1>3. \A i \in 0..(Size(msg) - 1) : At(msg, origin, i) # d
  BY <1>1, <1>2 DEF At
<1> DEFINE cleared == clearTravelableArea(l, data, msg, origin)
<1>4. cleared \in Rows(w) /\ cleared[d] = data[d]
  BY <1>1, <1>3 DEF clearTravelableArea, Rows
<1>5. ASSUME NEW h \in 0..(Size(msg) - 1)
      PROVE  d - At(msg, origin, h) \notin Spread(l.range, msg, h)
  BY <1>1, <1>2 DEF At, Spread
<1> HIDE DEF cleared
<1>6. DrawOn(l, cleared, msg, origin)[d] = cleared[d]
  BY <1>3, <1>4, <1>5 DEF DrawOn, Rows
<1>7. QED
  BY <1>4, <1>6 DEF generateCSpace, cleared

-----------------------------------------------------------------------------
(* Runs through the chain *)

\* The layers are run through one behind the other.
LEMMA RunsOneByOne ==
  ASSUME NEW c, NEW from \in 1..N
  PROVE  LET run == Behind(c, from)
         IN  /\ run[from - 1] = c
             /\ \A i \in from..N : run[i] = updateChainEntry(run[i - 1], i)
<1> DEFINE Runs(g, n) == g = [i \in (from - 1)..n |->
                               IF i < from THEN c ELSE updateChainEntry(g[i - 1], i)]
           S == {k \in Nat : \E g : Runs(g, from - 1 + k)}
<1>1. 0 \in S
  <2>1. Runs([i \in (from - 1)..(from - 1) |-> c], from - 1)
    OBVIOUS
  <2>2. from - 1 + 0 = from - 1
    OBVIOUS
  <2>3. QED
    BY <2>1, <2>2
<1>2. ASSUME NEW k \in 0..(N - from), k \in S
      PROVE  k + 1 \in S
  <2> DEFINE n == from - 1 + k
  <2>1. PICK g : Runs(g, n)
    BY <1>2
  <2> DEFINE h == [i \in (from - 1)..(n + 1) |->
                    IF i <= n THEN g[i] ELSE updateChainEntry(g[n], n + 1)]
  <2>2. ASSUME NEW i \in (from - 1)..(n + 1)
        PROVE  h[i] = IF i < from THEN c ELSE updateChainEntry(h[i - 1], i)
    <3>1. CASE i <= n
      BY <2>1, <3>1
    <3>2. CASE i = n + 1
      BY <2>1, <3>2
    <3>3. QED
      BY <3>1, <3>2
  <2>3. Runs(h, n + 1)
    BY <2>2
  <2>4. from - 1 + (k + 1) = n + 1 /\ k + 1 \in Nat
    OBVIOUS
  <2> HIDE DEF h
  <2>5. QED
    BY <2>3, <2>4
<1>3. N - from + 1 \in S
  <2>1. N - from + 1 \in Nat /\ (N - from + 1) - 1 = N - from
    BY LayersAssumption
  <2> HIDE DEF S
  <2>2. 0..(N - from + 1) \subseteq S
    BY <1>1, <1>2, <2>1, UpTo
  <2>3. QED
    BY <2>1, <2>2
<1>4. \E g : Runs(g, N)
  <2>1. from - 1 + (N - from + 1) = N
    BY LayersAssumption
  <2>2. QED
    BY <1>3, <2>1
<1> DEFINE run == Behind(c, from)
<1>5. Runs(run, N)
  BY <1>4 DEF Behind
<1> HIDE DEF run
<1>6. run[from - 1] = c
  BY <1>5, LayersAssumption
<1>7. ASSUME NEW i \in from..N
      PROVE  run[i] = updateChainEntry(run[i - 1], i)
  BY <1>5, LayersAssumption
<1>8. QED
  BY <1>6, <1>7 DEF run

-----------------------------------------------------------------------------
(* One layer of a run *)

AnyRow == UNION {Rows(w) : w \in Nat}
Costmaps == [data : AnyRow, origin : Int]
Updates == [x : Int, w : Int, data : AnyRow, origin : Int]

\* The members of the layers over a row of w cells.
Chains(w) ==
  [origin : Int, over : [0..N -> Rows(w)],
   region : [1..N -> Regions], prev : [1..N -> Regions], outPrev : Regions,
   updated : [1..N -> {None} \cup Grids],
   passed : Regions, output : BOOLEAN, maps : Seq(Costmaps), updates : Seq(Updates),
   fresh : BOOLEAN]

\* Copied are the cells of the region, the others remain.
LEMMA BitbltCopies ==
  ASSUME NEW w \in Nat, NEW q \in Regions, NEW dest \in Rows(w), NEW src \in Rows(w)
  PROVE  /\ bitblt(q, dest, src) \in Rows(w)
         /\ \A d \in 0..(w - 1) :
              bitblt(q, dest, src)[d] = IF d \in CellsOf(q) THEN src[d] ELSE dest[d]
<1>1. Width(src) = w
  BY WidthOfRow
<1>2. \A d \in 0..(w - 1) : d \in CellsOf(normalize(q, w)) <=> d \in CellsOf(q)
  BY NormalizeCuts
<1>3. QED
  BY <1>1, <1>2 DEF bitblt, Rows

\* What a layer does to its own members before its output.
Entering(c, i, r) ==
  [c EXCEPT !.region[i] = r, !.prev[i] = r, !.over[i] = Draw(c, i, Restore(c, i, r))]

\* A layer changes nothing of the other layers.
Enters(a, c, i, r, w) ==
  /\ a \in Chains(w)
  /\ a.over[i] = Draw(c, i, Restore(c, i, r))
  /\ \A k \in 0..N : k # i => a.over[k] = c.over[k]
  /\ a.prev = [c.prev EXCEPT ![i] = r]
  /\ a.region = [c.region EXCEPT ![i] = r]
  /\ a.origin = c.origin /\ a.updated = c.updated /\ a.fresh = c.fresh
  /\ a.outPrev = c.outPrev /\ a.passed = c.passed /\ a.output = c.output
  /\ a.maps = c.maps /\ a.updates = c.updates

\* What a layer does to its own members follows Enters.
LEMMA EntersOne ==
  ASSUME NEW w \in Nat, NEW c \in Chains(w), NEW i \in 1..N, NEW r \in Regions
  PROVE  Enters(Entering(c, i, r), c, i, r, w)
<1>1. i \in 0..N /\ i - 1 \in 0..N
  BY LayersAssumption
<1>2. c.over[i] \in Rows(w) /\ c.over[i - 1] \in Rows(w) /\ c.prev[i] \in Regions
  BY <1>1 DEF Chains
<1>3. Restore(c, i, r) \in Rows(w)
  BY <1>2, MergeHolds, BitbltCopies DEF Restore
<1>4. Draw(c, i, Restore(c, i, r)) \in Rows(w)
  BY <1>3, DrawnIsRow DEF Draw
<1> DEFINE drawn == Draw(c, i, Restore(c, i, r))
<1> HIDE DEF drawn
<1>5. Entering(c, i, r) = [c EXCEPT !.region[i] = r, !.prev[i] = r, !.over[i] = drawn]
  BY DEF Entering, drawn
<1>6. drawn \in Rows(w)
  BY <1>4 DEF drawn
<1> DEFINE over2 == [c.over EXCEPT ![i] = drawn]
           region2 == [c.region EXCEPT ![i] = r]
           prev2 == [c.prev EXCEPT ![i] = r]
<1>7. over2 \in [0..N -> Rows(w)] /\ region2 \in [1..N -> Regions] /\ prev2 \in [1..N -> Regions]
  BY <1>1, <1>6 DEF Chains
<1>8. over2[i] = drawn /\ \A k \in 0..N : k # i => over2[k] = c.over[k]
  BY <1>1, <1>6 DEF Chains
<1> HIDE DEF over2, region2, prev2
<1>9. Entering(c, i, r) = [c EXCEPT !.region = region2, !.prev = prev2, !.over = over2]
  BY <1>5 DEF over2, region2, prev2, Chains
<1> DEFINE a == Entering(c, i, r)
<1> HIDE DEF a
<1>10. a.over = over2 /\ a.region = region2 /\ a.prev = prev2
  BY <1>9 DEF Chains, a
<1>11. /\ a.origin = c.origin /\ a.updated = c.updated /\ a.fresh = c.fresh
       /\ a.outPrev = c.outPrev /\ a.passed = c.passed /\ a.output = c.output
       /\ a.maps = c.maps /\ a.updates = c.updates
  BY <1>9 DEF Chains, a
<1>12. a \in Chains(w)
  BY <1>7, <1>9 DEF Chains, a
<1>13. QED
  BY <1>8, <1>10, <1>11, <1>12 DEF Enters, a, drawn, region2, prev2

\* An update shows a region of the last costmap, with all that has been changed.
LEMMA UpdateShowsRegion ==
  ASSUME NEW w \in Nat, NEW c \in Chains(w)
  PROVE  /\ generateUpdateMsg(c) \in Updates
         /\ generateUpdateMsg(c).data = c.over[N - 1]
         /\ Within(c.region[N], generateUpdateMsg(c), w)
         /\ Proper(c.region[N], w) /\ (c.region[N].w > 0 \/ Proper(c.outPrev, w)) =>
              generateUpdateMsg(c).x + generateUpdateMsg(c).w <= w
<1>1. N \in 1..N /\ N - 1 \in 0..N
  BY LayersAssumption
<1>2. c.over[N - 1] \in Rows(w) /\ c.region[N] \in Regions /\ c.outPrev \in Regions
  BY <1>1 DEF Chains
<1>3. Width(c.over[N - 1]) = w
  BY <1>2, WidthOfRow
<1> DEFINE region == normalize(c.region[N], w)
           merged == normalize(merge(region, c.outPrev), w)
<1>4. region \in Regions
  BY <1>2, NormalizeCuts
<1>5. merge(region, c.outPrev) \in Regions
  BY <1>2, <1>4, MergeHolds
<1>6. merged \in Regions
  BY <1>5, NormalizeCuts
<1>7. ASSUME Proper(c.region[N], w), c.region[N].w > 0 \/ Proper(c.outPrev, w)
      PROVE  merged.x <= w /\ merged.x + merged.w <= w
  <2>1. region = c.region[N]
    BY <1>2, <1>7 DEF normalize, Proper, Regions, Greater
  <2> HIDE DEF region
  <2>2. QED
    BY <1>2, <1>4, <1>7, <2>1, UpdateFits
<1>8. generateUpdateMsg(c) = [x |-> merged.x, w |-> IF region.w = 0 THEN 0 ELSE merged.w,
                              data |-> c.over[N - 1], origin |-> c.origin]
  BY <1>3 DEF generateUpdateMsg
<1>9. c.over[N - 1] \in AnyRow /\ c.origin \in Int
  BY <1>2 DEF AnyRow, Chains
<1> HIDE DEF region, merged
<1>10. generateUpdateMsg(c) \in Updates
  BY <1>6, <1>8, <1>9 DEF Updates, Regions
<1>11. ASSUME NEW d \in 0..(w - 1), d \in CellsOf(c.region[N])
       PROVE  d \in CellsOf(generateUpdateMsg(c))
  <2>1. d \in CellsOf(region)
    BY <1>2, <1>11, NormalizeCuts DEF region
  <2>2. region.w # 0
    BY <1>4, <2>1 DEF CellsOf, Regions
  <2>3. d \in CellsOf(merge(region, c.outPrev))
    BY <1>2, <1>4, <2>1, MergeHolds
  <2>4. d \in CellsOf(merged)
    BY <1>5, <2>3, NormalizeCuts DEF merged
  <2>5. QED
    BY <1>8, <2>2, <2>4 DEF CellsOf
<1>12. QED
  BY <1>6, <1>7, <1>8, <1>10, <1>11 DEF Regions, Within

\* What the output of a layer changes in its members, from a to b.
Outputs(b, a, i, w) ==
  /\ b \in Chains(w)
  /\ b.origin = a.origin /\ b.updated = a.updated /\ b.fresh = a.fresh
  /\ b.prev = a.prev
  /\ b.maps = IF Layers[i].kind = "static" /\ a.output
              THEN Append(a.maps, [data |-> a.over[i - 1], origin |-> a.origin]) ELSE a.maps
  /\ \A k \in 0..N : k # i => b.over[k] = a.over[k]
  /\ \A k \in 1..N : k # i => b.region[k] = a.region[k]
  /\ b.output = (a.output /\ Layers[i].kind # "static")
  /\ Layers[i].kind # "update" => b.outPrev = a.outPrev /\ b.updates = a.updates
  /\ Layers[i].kind \notin {"stop", "update"} => b.region[i] = a.region[i]
  /\ Layers[i].kind \notin {"stop", "unknown"} => b.over[i] = a.over[i]
  /\ Layers[i].kind = "unknown" =>
       \A d \in 0..(w - 1) :
         b.over[i][d] = IF d \in CellsOf(a.region[i]) /\ a.over[i][d] < 0
                        THEN Layers[i].cost ELSE a.over[i][d]
  /\ Layers[i].kind = "stop" =>
       b.region[i] = [x |-> 0, w |-> w] /\ b.over[i] = [d \in 0..(w - 1) |-> -1]
  /\ Layers[i].kind = "update" =>
       /\ b.region[i] = Nowhere
       /\ b.outPrev = normalize(a.region[i], w)
       /\ b.updates = IF a.output THEN Append(a.updates, generateUpdateMsg(a)) ELSE a.updates

\* The output of a layer follows Outputs.
LEMMA OutputOfLayer ==
  ASSUME NEW w \in Nat, NEW a \in Chains(w), NEW i \in 1..N
  PROVE  Outputs(updateChain(a, i), a, i, w)
<1> DEFINE b == updateChain(a, i)
<1>1. i \in 0..N /\ i - 1 \in 0..N
  BY LayersAssumption
<1>2. a.over[i] \in Rows(w) /\ a.over[i - 1] \in Rows(w) /\ a.region[i] \in Regions
  BY <1>1 DEF Chains
<1>3. Width(a.over[i]) = w
  BY <1>2, WidthOfRow
<1>4. CASE Layers[i].kind = "footprint"
  <2>1. b = a
    BY <1>4 DEF updateChain
  <2>2. a.output \in BOOLEAN
    BY DEF Chains
  <2> HIDE DEF b
  <2>3. QED
    BY <1>4, <2>1, <2>2 DEF Outputs, b
<1>5. CASE Layers[i].kind = "unknown"
  <2> DEFINE row == [d \in 0..(w - 1) |->
                      IF d \in CellsOf(a.region[i]) /\ a.over[i][d] < 0
                      THEN Layers[i].cost ELSE a.over[i][d]]
             over2 == [a.over EXCEPT ![i] = row]
  <2>1. row \in Rows(w)
    BY <1>2, <1>5, LayersAssumption DEF Rows
  <2>2. DOMAIN a.over[i] = 0..(w - 1)
    BY <1>2 DEF Rows
  <2>3. b = [a EXCEPT !.over[i] = row]
    BY <1>1, <1>5, <2>2 DEF updateChain, Chains
  <2>4. \A d \in 0..(w - 1) : row[d] =
           IF d \in CellsOf(a.region[i]) /\ a.over[i][d] < 0
           THEN Layers[i].cost ELSE a.over[i][d]
    OBVIOUS
  <2> HIDE DEF row
  <2>5. over2 \in [0..N -> Rows(w)]
    BY <1>1, <2>1 DEF Chains
  <2>6. over2[i] = row /\ \A k \in 0..N : k # i => over2[k] = a.over[k]
    BY <1>1 DEF Chains
  <2>7. b = [a EXCEPT !.over = over2]
    BY <2>3 DEF Chains
  <2> HIDE DEF b, over2
  <2>8. /\ b.over = over2 /\ b.region = a.region
        /\ b.origin = a.origin /\ b.updated = a.updated /\ b.fresh = a.fresh
        /\ b.prev = a.prev /\ b.output = a.output
        /\ b.outPrev = a.outPrev /\ b.updates = a.updates /\ b.maps = a.maps
    BY <2>7 DEF Chains
  <2>9. b \in Chains(w)
    BY <2>5, <2>7 DEF Chains
  <2>10. a.output \in BOOLEAN
    BY DEF Chains
  <2>11. QED
    BY <1>5, <2>4, <2>6, <2>8, <2>9, <2>10 DEF Outputs, b
<1>6. CASE Layers[i].kind = "stop"
  <2> DEFINE row == [d \in 0..(w - 1) |-> -1]
             full == [x |-> 0, w |-> w]
             over2 == [a.over EXCEPT ![i] = row]
             region2 == [a.region EXCEPT ![i] = full]
  <2>1. row \in Rows(w) /\ full \in Regions
    BY DEF Rows, Regions
  <2>2. DOMAIN a.over[i] = 0..(w - 1)
    BY <1>2 DEF Rows
  <2>3. b = [a EXCEPT !.region[i] = full, !.over[i] = row]
    BY <1>1, <1>3, <1>6, <2>2 DEF updateChain, Chains
  <2> HIDE DEF row, full
  <2>5. over2 \in [0..N -> Rows(w)] /\ region2 \in [1..N -> Regions]
    BY <1>1, <2>1 DEF Chains
  <2>6. /\ over2[i] = row /\ \A k \in 0..N : k # i => over2[k] = a.over[k]
        /\ region2[i] = full /\ \A k \in 1..N : k # i => region2[k] = a.region[k]
    BY <1>1 DEF Chains
  <2>7. b = [a EXCEPT !.region = region2, !.over = over2]
    BY <2>3 DEF Chains
  <2> HIDE DEF b, over2, region2
  <2>8. /\ b.over = over2 /\ b.region = region2
        /\ b.origin = a.origin /\ b.updated = a.updated /\ b.fresh = a.fresh
        /\ b.prev = a.prev /\ b.output = a.output
        /\ b.outPrev = a.outPrev /\ b.updates = a.updates /\ b.maps = a.maps
    BY <2>7 DEF Chains
  <2>9. b \in Chains(w)
    BY <2>5, <2>7 DEF Chains
  <2>10. a.output \in BOOLEAN
    BY DEF Chains
  <2>11. QED
    BY <1>6, <2>6, <2>8, <2>9, <2>10 DEF Outputs, b, row, full
<1>7. CASE Layers[i].kind = "static"
  <2> DEFINE maps2 == Append(a.maps, [data |-> a.over[i - 1], origin |-> a.origin])
  <2>1. [data |-> a.over[i - 1], origin |-> a.origin] \in Costmaps /\ a.maps \in Seq(Costmaps)
    BY <1>2 DEF Costmaps, AnyRow, Chains
  <2>2. maps2 \in Seq(Costmaps)
    BY <2>1
  <2>3. b = IF a.output THEN [a EXCEPT !.output = FALSE, !.maps = maps2] ELSE a
    BY <1>7 DEF updateChain, Chains
  <2> HIDE DEF b, maps2
  <2>4. CASE a.output
    <3>1. b = [a EXCEPT !.output = FALSE, !.maps = maps2]
      BY <2>3, <2>4
    <3>2. b \in Chains(w)
      BY <2>2, <3>1 DEF Chains
    <3>3. /\ b.over = a.over /\ b.region = a.region
          /\ b.origin = a.origin /\ b.updated = a.updated /\ b.fresh = a.fresh
          /\ b.prev = a.prev /\ b.output = FALSE
          /\ b.outPrev = a.outPrev /\ b.updates = a.updates /\ b.maps = maps2
      BY <3>1 DEF Chains
    <3>4. QED
      BY <1>7, <2>4, <3>2, <3>3 DEF Outputs, b, maps2
  <2>5. CASE ~a.output
    <3>1. b = a
      BY <2>3, <2>5
    <3>2. a.output \in BOOLEAN
      BY DEF Chains
    <3>3. a.output = FALSE
      BY <2>5, <3>2
    <3>4. QED
      BY <1>7, <2>5, <3>1, <3>3 DEF Outputs, b
  <2>6. QED
    BY <2>4, <2>5
<1>8. CASE Layers[i].kind = "update"
  <2> DEFINE region2 == [a.region EXCEPT ![i] = Nowhere]
             updates2 == IF a.output THEN Append(a.updates, generateUpdateMsg(a))
                         ELSE a.updates
             cut == normalize(a.region[i], w)
  <2>1. cut \in Regions /\ Nowhere \in Regions
    <3>1. cut \in Regions
      BY <1>2, NormalizeCuts
    <3>2. Nowhere \in Regions
      BY DEF Nowhere, Regions
    <3>3. QED
      BY <3>1, <3>2
  <2>2. updates2 \in Seq(Updates)
    <3>1. a.updates \in Seq(Updates)
      BY DEF Chains
    <3>2. QED
      BY <3>1, UpdateShowsRegion
  <2>3. b = [a EXCEPT !.outPrev = cut, !.region[i] = Nowhere, !.updates = updates2]
    BY <1>1, <1>3, <1>8 DEF updateChain, Chains
  <2> HIDE DEF cut, updates2
  <2>4. region2 \in [1..N -> Regions]
    BY <1>1, <2>1 DEF Chains
  <2>5. region2[i] = Nowhere /\ \A k \in 1..N : k # i => region2[k] = a.region[k]
    BY <1>1 DEF Chains
  <2>6. b = [a EXCEPT !.outPrev = cut, !.region = region2, !.updates = updates2]
    BY <2>3 DEF Chains
  <2> HIDE DEF b, region2
  <2>7. /\ b.over = a.over /\ b.region = region2
        /\ b.origin = a.origin /\ b.updated = a.updated /\ b.fresh = a.fresh
        /\ b.prev = a.prev /\ b.output = a.output
        /\ b.outPrev = cut /\ b.updates = updates2 /\ b.maps = a.maps
    BY <2>6 DEF Chains
  <2>8. b \in Chains(w)
    BY <2>1, <2>2, <2>4, <2>6 DEF Chains
  <2>9. a.output \in BOOLEAN
    BY DEF Chains
  <2>10. QED
    BY <1>8, <2>5, <2>7, <2>8, <2>9 DEF Outputs, b, cut, updates2
<1>9. QED
  BY <1>4, <1>5, <1>6, <1>7, <1>8, LayersAssumption

\* The region of a layer in a run.
Reached(c, i, w) == normalize(merge(c.region[i], c.passed), w)

\* An update within the row that shows the costmap as it is in c, with all that the
\* last layer has redrawn.
Shows(u, c, w) ==
  /\ u \in Updates /\ u.data = c.over[N - 1] /\ u.x + u.w <= w
  /\ Within(c.prev[N], u, w)

\* What a layer changes in a run, from c to e.
Changes(e, c, i, w) ==
  LET r == Reached(c, i, w)
  IN  /\ e \in Chains(w)
      /\ e.origin = c.origin /\ e.updated = c.updated /\ e.fresh = c.fresh
      /\ \A k \in 0..N : k # i => e.over[k] = c.over[k]
      /\ \A k \in 1..N : k # i => e.region[k] = c.region[k] /\ e.prev[k] = c.prev[k]
      /\ e.prev[i] = r /\ e.passed = e.region[i]
      /\ e.output = (c.output /\ Layers[i].kind # "static")
      /\ e.maps = IF Layers[i].kind = "static" /\ c.output
                  THEN Append(c.maps, [data |-> c.over[i - 1], origin |-> c.origin])
                  ELSE c.maps
      /\ Layers[i].kind # "update" => e.outPrev = c.outPrev /\ e.updates = c.updates
      /\ Layers[i].kind \notin {"stop", "update"} => e.region[i] = r
      /\ Layers[i].kind = "stop" => e.region[i] = [x |-> 0, w |-> w]
      /\ Layers[i].kind = "update" =>
           /\ e.region[i] = Nowhere
           /\ e.outPrev = normalize(r, w)
           /\ ~c.output => e.updates = c.updates
           /\ c.output =>
                \E u \in Updates :
                  /\ e.updates = Append(c.updates, u)
                  /\ Proper(r, w) /\ (r.w > 0 \/ Proper(c.outPrev, w)) => Shows(u, e, w)

\* A layer in a run follows Changes.
LEMMA LayerInRun ==
  ASSUME NEW w \in Nat, NEW c \in Chains(w), NEW i \in 1..N
  PROVE  Changes(updateChainEntry(c, i), c, i, w)
<1> DEFINE r == Reached(c, i, w)
           a == Entering(c, i, r)
           b == updateChain(a, i)
           e == [b EXCEPT !.passed = b.region[i]]
<1>1. i \in 0..N /\ i - 1 \in 0..N /\ i - 1 # i
  BY LayersAssumption
<1>2. c.over[i] \in Rows(w) /\ c.region[i] \in Regions /\ c.passed \in Regions
  BY <1>1 DEF Chains
<1>3. Width(c.over[i]) = w
  BY <1>2, WidthOfRow
<1>4. r \in Regions
  BY <1>2, MergeHolds, NormalizeCuts DEF Reached
<1>5. updateChainEntry(c, i) = e
  BY <1>3 DEF updateChainEntry, Entering, Reached
<1> HIDE DEF r
<1>6. Enters(a, c, i, r, w)
  BY <1>4, EntersOne
<1>7. /\ a.prev[i] = r /\ \A k \in 1..N : k # i => a.prev[k] = c.prev[k]
      /\ a.region[i] = r /\ \A k \in 1..N : k # i => a.region[k] = c.region[k]
  BY <1>6 DEF Chains, Enters
<1> HIDE DEF a
<1>8. a \in Chains(w)
  BY <1>6 DEF Enters
<1>9. Outputs(b, a, i, w)
  BY <1>8, OutputOfLayer
<1> HIDE DEF b
<1>10. b \in Chains(w) /\ b.region[i] \in Regions
  BY <1>9 DEF Chains, Outputs
<1>11. /\ e \in Chains(w)
       /\ e.origin = b.origin /\ e.updated = b.updated /\ e.fresh = b.fresh
       /\ e.prev = b.prev /\ e.over = b.over /\ e.region = b.region
       /\ e.output = b.output /\ e.outPrev = b.outPrev /\ e.updates = b.updates
       /\ e.passed = b.region[i] /\ e.maps = b.maps
  BY <1>10 DEF Chains
<1> HIDE DEF e
<1>12. ASSUME Layers[i].kind = "update", c.output
       PROVE  \E u \in Updates :
                /\ e.updates = Append(c.updates, u)
                /\ Proper(r, w) /\ (r.w > 0 \/ Proper(c.outPrev, w)) => Shows(u, e, w)
  <2>1. i = N /\ N - 1 \in 0..N /\ N - 1 # N
    BY <1>1, <1>12, LayersAssumption
  <2> DEFINE u == generateUpdateMsg(a)
  <2>2. /\ u \in Updates /\ u.data = a.over[N - 1] /\ Within(a.region[N], u, w)
        /\ Proper(a.region[N], w) /\ (a.region[N].w > 0 \/ Proper(a.outPrev, w)) =>
             u.x + u.w <= w
    BY <1>8, UpdateShowsRegion
  <2> HIDE DEF u
  <2>3. e.updates = Append(c.updates, u)
    BY <1>6, <1>9, <1>11, <1>12 DEF u, Enters, Outputs
  <2>4. u.data = e.over[N - 1]
    BY <1>9, <1>11, <2>1, <2>2 DEF Outputs
  <2>5. a.region[N] = r /\ a.outPrev = c.outPrev
    BY <1>6, <1>7, <2>1 DEF Enters
  <2>6. Proper(r, w) /\ (r.w > 0 \/ Proper(c.outPrev, w)) => Shows(u, e, w)
    <3>1. e.prev[N] = r
      BY <1>7, <1>9, <1>11, <2>1 DEF Outputs
    <3>2. QED
      BY <2>2, <2>4, <2>5, <3>1 DEF Shows
  <2>7. QED
    BY <2>2, <2>3, <2>6
<1>13. e.updates = c.updates \/ Layers[i].kind # "update" \/ c.output
  BY <1>6, <1>9, <1>11 DEF Enters, Outputs
<1>14. /\ \A k \in 0..N : k # i => e.over[k] = c.over[k]
       /\ \A k \in 1..N : k # i => e.region[k] = c.region[k] /\ e.prev[k] = c.prev[k]
       /\ e.prev[i] = r /\ e.passed = e.region[i]
  BY <1>6, <1>7, <1>9, <1>11 DEF Enters, Outputs
<1>15. /\ e.origin = c.origin /\ e.updated = c.updated /\ e.fresh = c.fresh
       /\ e.output = (c.output /\ Layers[i].kind # "static")
       /\ Layers[i].kind # "update" => e.outPrev = c.outPrev /\ e.updates = c.updates
  BY <1>6, <1>9, <1>11 DEF Enters, Outputs
<1>16. e.maps = IF Layers[i].kind = "static" /\ c.output
                THEN Append(c.maps, [data |-> c.over[i - 1], origin |-> c.origin])
                ELSE c.maps
  <2>1. /\ a.over[i - 1] = c.over[i - 1] /\ a.maps = c.maps
        /\ a.output = c.output /\ a.origin = c.origin
    BY <1>1, <1>6 DEF Enters
  <2>2. QED
    BY <1>9, <1>11, <2>1 DEF Outputs
<1>17. /\ Layers[i].kind \notin {"stop", "update"} => e.region[i] = r
       /\ Layers[i].kind = "stop" => e.region[i] = [x |-> 0, w |-> w]
       /\ Layers[i].kind = "update" =>
             e.region[i] = Nowhere /\ e.outPrev = normalize(r, w)
  BY <1>7, <1>9, <1>11 DEF Outputs
<1>18. QED
  BY <1>5, <1>11, <1>12, <1>13, <1>14, <1>15, <1>16, <1>17 DEF Changes, r

\* The costmap of a layer in a run is as if drawn anew when the cells that are not
\* taken over from the layer before it are already.
LEMMA LayerRedrawn ==
  ASSUME NEW w \in Nat, NEW c \in Chains(w), NEW i \in 1..N,
         Layers[i].kind \notin {"unknown", "stop"} =>
           \A d \in 0..(w - 1) : d \notin CellsOf(merge(Reached(c, i, w), c.prev[i])) =>
             c.over[i][d] = c.over[i - 1][d],
         Layers[i].kind = "unknown" =>
           \A d \in 0..(w - 1) : d \notin CellsOf(Reached(c, i, w)) =>
             /\ d \notin CellsOf(merge(Reached(c, i, w), c.prev[i]))
             /\ c.over[i][d] = IF c.over[i - 1][d] < 0 THEN Layers[i].cost
                               ELSE c.over[i - 1][d]
  PROVE  updateChainEntry(c, i).over[i] = LayerAnew(c, i, c.over[i - 1])
<1> DEFINE r == Reached(c, i, w)
           data == Restore(c, i, r)
           a == Entering(c, i, r)
           b == updateChain(a, i)
           e == [b EXCEPT !.passed = b.region[i]]
           old == c.over[i - 1]
<1>1. i \in 0..N /\ i - 1 \in 0..N /\ i - 1 # i
  BY LayersAssumption
<1>2. /\ c.over[i] \in Rows(w) /\ old \in Rows(w)
      /\ c.region[i] \in Regions /\ c.passed \in Regions /\ c.prev[i] \in Regions
  BY <1>1 DEF Chains
<1>3. Width(c.over[i]) = w
  BY <1>2, WidthOfRow
<1>4. r \in Regions
  BY <1>2, MergeHolds, NormalizeCuts DEF Reached
<1>5. updateChainEntry(c, i) = e
  BY <1>3 DEF updateChainEntry, Entering, Reached
<1> HIDE DEF r
<1>6. /\ data \in Rows(w)
      /\ \A d \in 0..(w - 1) :
           data[d] = IF d \in CellsOf(merge(r, c.prev[i])) THEN old[d] ELSE c.over[i][d]
  BY <1>2, <1>4, MergeHolds, BitbltCopies DEF Restore
<1> HIDE DEF data
<1>7. a \in Chains(w) /\ a.over[i] = Draw(c, i, data) /\ a.region[i] = r
  <2>1. Enters(a, c, i, r, w)
    BY <1>4, EntersOne
  <2>2. QED
    BY <2>1 DEF Chains, Enters, data
<1> HIDE DEF a
<1>8. Outputs(b, a, i, w)
  BY <1>7, OutputOfLayer
<1> HIDE DEF b
<1>9. e.over[i] = b.over[i] /\ b.over[i] \in Rows(w)
  BY <1>1, <1>8 DEF Chains, Outputs
<1> HIDE DEF e, old
<1>10. DOMAIN old = 0..(w - 1) /\ DOMAIN data = 0..(w - 1)
  BY <1>2, <1>6 DEF Rows
<1>11. CASE Layers[i].kind \notin {"unknown", "stop"}
  <2>1. \A d \in 0..(w - 1) : data[d] = old[d]
    BY <1>6, <1>11 DEF old, r
  <2>2. data = old
    BY <1>2, <1>6, <2>1 DEF Rows
  <2>3. QED
    BY <1>5, <1>7, <1>8, <1>9, <1>11, <2>2 DEF LayerAnew, Outputs, old
<1>12. CASE Layers[i].kind = "unknown"
  <2> DEFINE anew == [d \in DOMAIN old |-> IF old[d] < 0 THEN Layers[i].cost ELSE old[d]]
  <2>1. Draw(c, i, data) = data
    BY <1>12 DEF Draw
  <2>2. \A d \in 0..(w - 1) : d \in CellsOf(r) => data[d] = old[d]
    BY <1>2, <1>4, <1>6, MergeHolds
  <2>3. \A d \in 0..(w - 1) : d \notin CellsOf(r) =>
           data[d] = IF old[d] < 0 THEN Layers[i].cost ELSE old[d]
    BY <1>6, <1>12 DEF r, old
  <2>4. \A d \in 0..(w - 1) : b.over[i][d] =
           IF d \in CellsOf(r) /\ data[d] < 0 THEN Layers[i].cost ELSE data[d]
    BY <1>7, <1>8, <1>12, <2>1 DEF Outputs
  <2>5. \A d \in 0..(w - 1) : b.over[i][d] = anew[d]
    BY <1>10, <2>2, <2>3, <2>4
  <2>6. b.over[i] = anew
    BY <1>9, <1>10, <2>5 DEF Rows
  <2>7. LayerAnew(c, i, old) = anew
    BY <1>12 DEF LayerAnew
  <2>8. QED
    BY <1>5, <1>9, <2>6, <2>7 DEF old
<1>13. CASE Layers[i].kind = "stop"
  <2>1. LayerAnew(c, i, old) = [d \in 0..(w - 1) |-> -1]
    BY <1>10, <1>13 DEF LayerAnew
  <2>2. QED
    BY <1>5, <1>8, <1>9, <1>13, <2>1 DEF Outputs, old
<1>14. QED
  BY <1>11, <1>12, <1>13

-----------------------------------------------------------------------------
(* A whole run *)

Inside(r, s) == \A d \in Int : d \in CellsOf(r) => d \in CellsOf(s)
InRow(r, w) == \A d \in Int : d \in CellsOf(r) => d \in 0..(w - 1)

\* A run that redraws everything.
Renews(c, w) == w > 0 /\ \A d \in 0..(w - 1) : d \in CellsOf(c.passed)

\* A run from the layer that has got a local map, over layers that are as drawn anew:
\* what has been drawn last reaches as far as that layer's last region, and the
\* layers behind it have no local map of their own.
Moves(c, from, w) ==
  /\ from \in 1..(N - 1)
  /\ Layers[from].kind = "footprint" /\ Layers[from].range \in 0..1
  /\ c.updated[from] \in Grids
  /\ c.passed = [x |-> At(c.updated[from], c.origin, 0), w |-> Size(c.updated[from])]
  /\ c.region[from] = c.passed
  /\ \A d \in 0..(w - 1) :
       d \notin CellsOf(c.prev[from]) => c.over[from][d] = c.over[from - 1][d]
  /\ \A k \in (from + 1)..N :
       /\ c.updated[k] = None
       /\ c.over[k] = LayerAnew(c, k, c.over[k - 1])
       /\ Within(c.prev[from], c.prev[k], w) /\ InRow(c.prev[k], w)
       /\ k < N => Inside(c.prev[k], c.region[k])

RunStart(c, from, w) ==
  /\ c \in Chains(w) /\ from \in 1..N
  /\ c.output /\ c.region[N] = Nowhere
  /\ Renews(c, w) \/ (Moves(c, from, w) /\ Proper(c.outPrev, w))
  /\ from = N => c.passed.w = 0 \/ Proper(c.passed, w)

\* The update of a run from c, unless a static output has been on its way.
Announces(s, c, from, w) ==
  /\ (\A k \in from..N : Layers[k].kind # "static") =>
       \E u \in Updates : s.updates = Append(c.updates, u) /\ Shows(u, s, w)
  /\ (\E k \in from..N : Layers[k].kind = "static") => s.updates = c.updates

\* The costmap that the static output of a run from c has published.
Sends(s, c, from, i) ==
  /\ StaticOutput \notin from..i => s.maps = c.maps
  /\ StaticOutput \in from..i =>
       s.maps # <<>> /\ Last(s.maps).data = s.over[StaticOutput - 1]

\* The members s in a run from c, behind layer i.
RunSoFar(s, i, c, from, w) ==
  /\ s \in Chains(w) /\ s.origin = c.origin /\ s.updated = c.updated
  /\ i = from - 1 => s = c
  /\ \A k \in 0..N : k \notin from..i => s.over[k] = c.over[k]
  /\ \A k \in 1..N : k \notin from..i => s.prev[k] = c.prev[k] /\ s.region[k] = c.region[k]
  /\ \A k \in from..i :
       /\ s.over[k] = LayerAnew(c, k, s.over[k - 1])
       /\ Within(c.passed, s.prev[k], w) /\ InRow(s.prev[k], w)
       /\ k < N => Inside(s.prev[k], s.region[k])
  /\ i >= from => s.prev[from] = Reached(c, from, w)
  /\ i < N => /\ Within(c.passed, s.passed, w)
              /\ s.updates = c.updates /\ s.outPrev = c.outPrev
  /\ i = N - 1 => s.passed.w = 0 \/ Proper(s.passed, w)
  /\ Moves(c, from, w) =>
       \A d \in 0..(w - 1) :
         d \notin CellsOf(c.passed) /\ d \notin CellsOf(c.prev[from]) =>
           s.over[i][d] = c.over[i][d]
  /\ s.output <=> \A k \in from..i : Layers[k].kind # "static"
  /\ Sends(s, c, from, i)
  /\ i = N => /\ s.region[N] = Nowhere /\ Proper(s.outPrev, w)
              /\ Announces(s, c, from, w)

\* A layer anew depends on the local map of the layer and the origin of the map only.
LEMMA AnewAlike ==
  ASSUME NEW c, NEW s, NEW i, NEW parent,
         s.origin = c.origin, s.updated[i] = c.updated[i]
  PROVE  LayerAnew(s, i, parent) = LayerAnew(c, i, parent)
BY DEF LayerAnew, Draw

\* What a layer anew without a local map shows in a cell.
LEMMA AnewCell ==
  ASSUME NEW w \in Nat, NEW c, NEW i \in 1..N, NEW parent \in Rows(w), NEW d \in 0..(w - 1),
         c.updated[i] = None
  PROVE  LayerAnew(c, i, parent)[d] =
           IF Layers[i].kind = "stop" THEN -1
           ELSE IF Layers[i].kind = "unknown"
                THEN IF parent[d] < 0 THEN Layers[i].cost ELSE parent[d]
                ELSE parent[d]
<1>1. CASE Layers[i].kind = "stop"
  BY <1>1 DEF LayerAnew, Rows
<1>2. CASE Layers[i].kind = "unknown"
  BY <1>2 DEF LayerAnew, Rows
<1>3. CASE Layers[i].kind \notin {"stop", "unknown"}
  <2>1. LayerAnew(c, i, parent) = parent
    BY <1>3 DEF LayerAnew, Draw
  <2>2. QED
    BY <1>3, <2>1
<1>4. QED
  BY <1>1, <1>2, <1>3

\* The start of a run.
LEMMA RunBegins ==
  ASSUME NEW w \in Nat, NEW c, NEW from, RunStart(c, from, w)
  PROVE  RunSoFar(c, from - 1, c, from, w)
<1>1. from \in 1..N /\ N \in Nat
  BY LayersAssumption DEF RunStart
<1>2. \A k : k \notin from..(from - 1)
  BY <1>1
<1>3. from - 1 # N /\ ~(from - 1 >= from) /\ (from - 1 = N - 1 => from = N)
  BY <1>1
<1>4. Sends(c, c, from, from - 1)
  BY <1>2 DEF Sends
<1>5. QED
  BY <1>2, <1>3, <1>4 DEF RunSoFar, RunStart, Within

\* The region of the next layer holds what is passed on, and lies in the row.
LEMMA ReachesOn ==
  ASSUME NEW w \in Nat, NEW s \in Chains(w), NEW j \in 1..N
  PROVE  /\ Reached(s, j, w) \in Regions
         /\ Within(s.passed, Reached(s, j, w), w)
         /\ Within(s.region[j], Reached(s, j, w), w)
         /\ InRow(Reached(s, j, w), w)
         /\ Reached(s, j, w).w = 0 \/ Proper(Reached(s, j, w), w)
<1>1. s.region[j] \in Regions /\ s.passed \in Regions
  BY DEF Chains
<1> DEFINE m == merge(s.region[j], s.passed)
<1>2. /\ m \in Regions
      /\ \A d \in Int : d \in CellsOf(s.region[j]) \/ d \in CellsOf(s.passed) => d \in CellsOf(m)
  BY <1>1, MergeHolds
<1> HIDE DEF m
<1>3. /\ normalize(m, w) \in Regions
      /\ \A d \in Int : d \in CellsOf(normalize(m, w)) <=>
                          d \in CellsOf(m) /\ d \in 0..(w - 1)
      /\ normalize(m, w).w = 0 \/ Proper(normalize(m, w), w)
  BY <1>2, NormalizeCuts
<1>4. Reached(s, j, w) = normalize(m, w)
  BY DEF Reached, m
<1>5. QED
  BY <1>2, <1>3, <1>4 DEF Within, InRow

\* Every layer of a run is drawn as if anew.
LEMMA DrawnInRun ==
  ASSUME NEW w \in Nat, NEW c, NEW from, RunStart(c, from, w),
         NEW i \in (from - 1)..(N - 1), NEW s, RunSoFar(s, i, c, from, w)
  PROVE  updateChainEntry(s, i + 1).over[i + 1] = LayerAnew(c, i + 1, s.over[i])
<1> DEFINE j == i + 1
           r == Reached(s, j, w)
<1>1. /\ j \in 1..N /\ i \in 0..N /\ j - 1 = i /\ from \in 1..N /\ N \in Nat
      /\ j \in from..N /\ j \notin from..i /\ i < N
  BY LayersAssumption DEF RunStart
<1>2. s \in Chains(w) /\ c \in Chains(w)
  BY DEF RunSoFar, RunStart
<1>3. s.over[j] = c.over[j] /\ s.prev[j] = c.prev[j] /\ s.region[j] = c.region[j]
  BY <1>1 DEF RunSoFar
<1>4. Within(s.passed, r, w) /\ Within(s.region[j], r, w) /\ r \in Regions
  BY <1>1, <1>2, ReachesOn
<1>5. Within(c.passed, s.passed, w)
  BY <1>1 DEF RunSoFar
<1>6. Within(c.passed, r, w)
  BY <1>4, <1>5 DEF Within
<1>7. s.prev[j] \in Regions
  BY <1>1, <1>2 DEF Chains
<1> HIDE DEF r
<1>8. \A d \in 0..(w - 1) : d \notin CellsOf(merge(r, s.prev[j])) =>
         d \notin CellsOf(r) /\ d \notin CellsOf(c.prev[j])
  BY <1>3, <1>4, <1>7, MergeHolds
<1>9. c.over[i] \in Rows(w)
  BY <1>1, <1>2 DEF Chains
<1>10. ASSUME Moves(c, from, w), i >= from, NEW d \in 0..(w - 1),
              d \notin CellsOf(r), d \notin CellsOf(c.prev[j])
       PROVE  /\ Layers[j].kind \notin {"stop", "unknown"} => s.over[j][d] = s.over[i][d]
              /\ Layers[j].kind = "unknown" =>
                   s.over[j][d] = IF s.over[i][d] < 0 THEN Layers[j].cost ELSE s.over[i][d]
  <2>1. /\ j \in (from + 1)..N /\ c.updated[j] = None
        /\ c.over[j] = LayerAnew(c, j, c.over[i])
        /\ Within(c.prev[from], c.prev[j], w)
    BY <1>1, <1>10 DEF Moves
  <2>2. d \notin CellsOf(c.passed) /\ d \notin CellsOf(c.prev[from])
    BY <1>6, <1>10, <2>1 DEF Within
  <2>3. s.over[i][d] = c.over[i][d]
    BY <1>10, <2>2 DEF RunSoFar
  <2>4. c.over[j][d] =
           IF Layers[j].kind = "stop" THEN -1
           ELSE IF Layers[j].kind = "unknown"
                THEN IF c.over[i][d] < 0 THEN Layers[j].cost ELSE c.over[i][d]
                ELSE c.over[i][d]
    BY <1>1, <1>9, <2>1, AnewCell
  <2>5. QED
    BY <1>3, <2>3, <2>4
<1>11. ASSUME Layers[j].kind \notin {"unknown", "stop"}, NEW d \in 0..(w - 1),
              d \notin CellsOf(merge(r, s.prev[j]))
       PROVE  s.over[j][d] = s.over[i][d]
  <2>1. d \notin CellsOf(r) /\ d \notin CellsOf(c.prev[j])
    BY <1>8, <1>11
  <2>2. Moves(c, from, w)
    BY <1>6, <2>1 DEF RunStart, Renews, Within
  <2>3. CASE i >= from
    BY <1>10, <1>11, <2>1, <2>2, <2>3
  <2>4. CASE i = from - 1
    BY <1>1, <2>1, <2>2, <2>4 DEF Moves, RunSoFar
  <2>5. QED
    BY <1>1, <2>3, <2>4
<1>12. ASSUME Layers[j].kind = "unknown", NEW d \in 0..(w - 1), d \notin CellsOf(r)
       PROVE  /\ d \notin CellsOf(merge(r, s.prev[j]))
              /\ s.over[j][d] = IF s.over[i][d] < 0 THEN Layers[j].cost ELSE s.over[i][d]
  <2>1. Moves(c, from, w)
    BY <1>6, <1>12 DEF RunStart, Renews, Within
  <2>2. j # from /\ j # N
    BY <1>1, <1>12, <2>1, LayersAssumption DEF Moves
  <2>3. j \in (from + 1)..N /\ j < N /\ i >= from
    BY <1>1, <2>2
  <2>4. InRow(c.prev[j], w) /\ Inside(c.prev[j], c.region[j])
    BY <2>1, <2>3 DEF Moves
  <2>5. \A x \in Int : x \in CellsOf(s.prev[j]) => x \in CellsOf(r)
    BY <1>3, <1>4, <2>4 DEF Within, InRow, Inside
  <2>6. d \notin CellsOf(merge(r, s.prev[j]))
    BY <1>4, <1>7, <1>12, <2>5, MergeInside
  <2>7. d \notin CellsOf(c.prev[j])
    BY <1>8, <2>6
  <2>8. QED
    BY <1>10, <1>12, <2>1, <2>3, <2>6, <2>7
<1>13. updateChainEntry(s, j).over[j] = LayerAnew(s, j, s.over[j - 1])
  BY <1>1, <1>2, <1>11, <1>12, LayerRedrawn DEF r
<1>14. LayerAnew(s, j, s.over[i]) = LayerAnew(c, j, s.over[i])
  BY AnewAlike DEF RunSoFar
<1>15. QED
  BY <1>1, <1>13, <1>14

\* What has been published stays as it is in the layers behind the static output.
LEMMA SendsOn ==
  ASSUME NEW w \in Nat, NEW c, NEW from \in 1..N, NEW i \in (from - 1)..(N - 1),
         NEW s \in Chains(w), NEW e, Changes(e, s, i + 1, w), Sends(s, c, from, i),
         s.output <=> \A k \in from..i : Layers[k].kind # "static"
  PROVE  Sends(e, c, from, i + 1)
<1> DEFINE j == i + 1
           st == StaticOutput
<1>1. /\ j \in 1..N /\ i \in 0..N /\ j - 1 = i /\ i # j /\ N \in Nat
      /\ st \in 1..N /\ st - 1 \in 0..N /\ (Layers[j].kind = "static" <=> j = st)
      /\ \A k : k \in from..j <=> k \in from..i \/ k = j
      /\ j \notin from..i
  BY LayersAssumption, OneStaticOutput
<1>2. e.maps = IF Layers[j].kind = "static" /\ s.output
               THEN Append(s.maps, [data |-> s.over[j - 1], origin |-> s.origin])
               ELSE s.maps
  BY DEF Changes
<1>3. \A k \in 0..N : k # j => e.over[k] = s.over[k]
  BY DEF Changes
<1> HIDE DEF j, st
<1>4. CASE j = st
  <2>1. s.output
    <3>1. \A k \in from..i : k \in 1..N /\ k # st
      BY <1>1, <1>4 DEF j
    <3>2. \A k \in from..i : Layers[k].kind # "static"
      BY <3>1, OneStaticOutput DEF st
    <3>3. QED
      BY <3>2
  <2> DEFINE map == [data |-> s.over[j - 1], origin |-> s.origin]
  <2>2. e.maps = Append(s.maps, map)
    BY <1>1, <1>2, <1>4, <2>1
  <2>3. s.maps \in Seq(Costmaps)
    BY DEF Chains
  <2>4. map.data = s.over[j - 1]
    OBVIOUS
  <2> HIDE DEF map
  <2>5. e.maps # <<>> /\ Last(e.maps) = map
    BY <2>2, <2>3 DEF Last
  <2>6. e.over[st - 1] = s.over[j - 1]
    BY <1>1, <1>3, <1>4
  <2>7. st \in from..j
    BY <1>1, <1>4
  <2>8. QED
    BY <2>4, <2>5, <2>6, <2>7 DEF Sends, st, j
<1>5. CASE j # st
  <2>1. e.maps = s.maps /\ (st \in from..j <=> st \in from..i)
    BY <1>1, <1>2, <1>5
  <2>2. CASE st \in from..i
    <3>1. st - 1 # j
      BY <1>1, <2>2 DEF j
    <3>2. e.over[st - 1] = s.over[st - 1]
      BY <1>1, <1>3, <3>1
    <3>3. QED
      BY <2>1, <2>2, <3>2 DEF Sends, st, j
  <2>3. CASE st \notin from..i
    BY <2>1, <2>3 DEF Sends, st, j
  <2>4. QED
    BY <2>2, <2>3
<1>6. QED
  BY <1>4, <1>5

\* Behind every layer, a run is as RunSoFar says.
LEMMA RunGoesOn ==
  ASSUME NEW w \in Nat, NEW c, NEW from, RunStart(c, from, w),
         NEW i \in (from - 1)..(N - 1), NEW s, RunSoFar(s, i, c, from, w)
  PROVE  RunSoFar(updateChainEntry(s, i + 1), i + 1, c, from, w)
<1> DEFINE j == i + 1
           r == Reached(s, j, w)
           e == updateChainEntry(s, j)
<1>1. /\ j \in 1..N /\ i \in 0..N /\ j - 1 = i /\ from \in 1..N /\ N \in Nat
      /\ j \in from..N /\ j \notin from..i /\ i < N /\ i # j
  BY LayersAssumption DEF RunStart
<1>2. s \in Chains(w) /\ c \in Chains(w)
  BY DEF RunSoFar, RunStart
<1>3. Changes(e, s, j, w)
  BY <1>1, <1>2, LayerInRun
<1>4. e.over[j] = LayerAnew(c, j, s.over[i])
  BY DrawnInRun
<1>5. /\ r \in Regions /\ Within(s.passed, r, w) /\ InRow(r, w)
      /\ r.w = 0 \/ Proper(r, w)
  BY <1>1, <1>2, ReachesOn
<1> HIDE DEF e
<1>6. e.prev[j] = r /\ e.passed = e.region[j]
  BY <1>3 DEF Changes
<1>7. Within(c.passed, r, w)
  BY <1>1, <1>5 DEF RunSoFar, Within
<1>8. j < N => /\ Layers[j].kind # "update"
               /\ e.region[j] = r \/ e.region[j] = [x |-> 0, w |-> w]
  BY <1>1, <1>3, LayersAssumption DEF Changes
<1>9. \A d \in Int : d \in CellsOf([x |-> 0, w |-> w]) <=> d \in 0..(w - 1)
  BY DEF CellsOf
<1>10. j < N => Inside(r, e.region[j]) /\ Within(r, e.region[j], w)
  BY <1>5, <1>8, <1>9 DEF Inside, Within, InRow
<1>11. j < N => e.region[j].w = 0 \/ Proper(e.region[j], w)
  BY <1>5, <1>8 DEF Proper
<1> HIDE DEF r
<1>12. e \in Chains(w) /\ e.origin = c.origin /\ e.updated = c.updated
  BY <1>3 DEF RunSoFar, Changes
<1>13. /\ \A k \in 0..N : k \notin from..j => e.over[k] = c.over[k]
       /\ \A k \in 1..N : k \notin from..j => e.prev[k] = c.prev[k] /\ e.region[k] = c.region[k]
  <2>1. \A k : k \notin from..j => k # j /\ k \notin from..i
    BY <1>1
  <2>2. QED
    BY <1>3, <2>1 DEF RunSoFar, Changes
<1>14. ASSUME NEW k \in from..j
       PROVE  /\ e.over[k] = LayerAnew(c, k, e.over[k - 1])
              /\ Within(c.passed, e.prev[k], w) /\ InRow(e.prev[k], w)
              /\ k < N => Inside(e.prev[k], e.region[k])
  <2>1. CASE k = j
    <3>1. e.over[i] = s.over[i]
      BY <1>1, <1>3 DEF Changes
    <3>2. QED
      BY <1>1, <1>4, <1>5, <1>6, <1>7, <1>10, <2>1, <3>1
  <2>2. CASE k # j
    <3>1. k \in from..i /\ k \in 0..N /\ k \in 1..N /\ k - 1 \in 0..N /\ k - 1 # j
      BY <1>1, <2>2
    <3>2. /\ e.over[k] = s.over[k] /\ e.over[k - 1] = s.over[k - 1]
          /\ e.prev[k] = s.prev[k] /\ e.region[k] = s.region[k]
      BY <1>3, <2>2, <3>1 DEF Changes
    <3>3. QED
      BY <3>1, <3>2 DEF RunSoFar
  <2>3. QED
    BY <2>1, <2>2
<1>15. e.prev[from] = Reached(c, from, w)
  <2>1. CASE i = from - 1
    <3>1. s = c /\ j = from
      BY <1>1, <2>1 DEF RunSoFar
    <3>2. QED
      BY <1>6, <3>1 DEF r
  <2>2. CASE i >= from
    <3>1. s.prev[from] = Reached(c, from, w)
      BY <2>2 DEF RunSoFar
    <3>2. QED
      BY <1>1, <1>3, <2>2, <3>1 DEF Changes
  <2>3. QED
    BY <1>1, <2>1, <2>2
<1>16. j < N => /\ Within(c.passed, e.passed, w)
                /\ e.updates = c.updates /\ e.outPrev = c.outPrev
  BY <1>1, <1>3, <1>6, <1>7, <1>8, <1>10 DEF RunSoFar, Changes, Within
<1>17. j = N - 1 => e.passed.w = 0 \/ Proper(e.passed, w)
  BY <1>1, <1>6, <1>11
<1>18. ASSUME Moves(c, from, w), NEW d \in 0..(w - 1),
              d \notin CellsOf(c.passed), d \notin CellsOf(c.prev[from])
       PROVE  e.over[j][d] = c.over[j][d]
  <2>1. s.over[i] \in Rows(w) /\ c.over[i] \in Rows(w) /\ s.over[i][d] = c.over[i][d]
    BY <1>1, <1>2, <1>18 DEF RunSoFar, Chains
  <2>2. CASE i = from - 1
    <3>1. s = c /\ j = from
      BY <1>1, <2>2 DEF RunSoFar
    <3>2. c.updated[from] \in Grids /\ Layers[from].range \in 0..1 /\ c.origin \in Int
      BY <1>2, <1>18 DEF Moves, Chains
    <3>3. generateCSpace(Layers[from], c.over[i], c.updated[from], c.origin)[d] = c.over[i][d]
      BY <1>18, <2>1, <3>2, DrawsInside DEF Moves
    <3>4. Layers[from].kind = "footprint"
      BY <1>18 DEF Moves
    <3>5. LayerAnew(c, from, c.over[i])[d] = c.over[i][d]
      BY <3>3, <3>4 DEF LayerAnew, Draw
    <3>6. c.over[from][d] = c.over[from - 1][d]
      BY <1>18 DEF Moves
    <3>7. QED
      BY <1>4, <2>2, <3>1, <3>5, <3>6
  <2>3. CASE i >= from
    <3>1. c.updated[j] = None /\ c.over[j] = LayerAnew(c, j, c.over[i])
      BY <1>1, <1>18, <2>3 DEF Moves
    <3>2. LayerAnew(c, j, s.over[i])[d] = LayerAnew(c, j, c.over[i])[d]
      BY <1>1, <2>1, <3>1, AnewCell
    <3>3. QED
      BY <1>4, <3>1, <3>2
  <2>4. QED
    BY <1>1, <2>2, <2>3
<1>19. e.output <=> \A k \in from..j : Layers[k].kind # "static"
  <2>1. s.output <=> \A k \in from..i : Layers[k].kind # "static"
    BY DEF RunSoFar
  <2>2. e.output = (s.output /\ Layers[j].kind # "static")
    BY <1>3 DEF Changes
  <2>3. \A k : k \in from..j <=> k \in from..i \/ k = j
    BY <1>1
  <2>4. e.output \in BOOLEAN
    BY <1>12 DEF Chains
  <2>5. QED
    BY <2>1, <2>2, <2>3, <2>4, Zenon
<1>20. ASSUME j = N
       PROVE  e.region[N] = Nowhere /\ Proper(e.outPrev, w) /\ Announces(e, c, from, w)
  <2>1. Layers[j].kind = "update" /\ s.updates = c.updates /\ s.outPrev = c.outPrev
    BY <1>1, <1>20, LayersAssumption DEF RunSoFar
  <2>2. s.passed.w = 0 \/ Proper(s.passed, w)
    BY <1>20 DEF RunSoFar
  <2>3. s.region[N] = Nowhere
    BY <1>1, <1>20 DEF RunSoFar, RunStart
  <2>4. s.passed \in Regions
    BY <1>2 DEF Chains
  <2>5. Proper(r, w)
    <3>1. r = normalize(IF s.passed.w = 0 THEN Nowhere ELSE s.passed, w)
      BY <1>20, <2>3 DEF r, Reached, merge, Nowhere
    <3>2. Proper(Nowhere, w) /\ Nowhere \in Regions
      BY DEF Nowhere, Proper, Regions
    <3>3. PICK p \in Regions : r = normalize(p, w) /\ Proper(p, w)
      BY <2>2, <2>4, <3>1, <3>2
    <3>4. QED
      BY <3>3 DEF normalize, Proper, Regions, Greater
  <2>6. e.region[N] = Nowhere /\ e.outPrev = normalize(r, w)
    BY <1>3, <1>20, <2>1 DEF Changes, r
  <2>7. Proper(normalize(r, w), w)
    BY <1>5, <2>5 DEF normalize, Proper, Regions, Greater
  <2>8. r.w > 0 \/ Proper(s.outPrev, w)
    <3>1. CASE Renews(c, w)
      <4>1. 0 \in CellsOf(r)
        BY <1>7, <3>1 DEF Renews, Within
      <4>2. QED
        BY <1>5, <4>1 DEF CellsOf, Regions
    <3>2. CASE Proper(c.outPrev, w)
      BY <2>1, <3>2
    <3>3. QED
      BY <3>1, <3>2 DEF RunStart
  <2>9. ~s.output => e.updates = c.updates
    BY <1>3, <2>1 DEF Changes
  <2>10. s.output => \E u \in Updates : e.updates = Append(c.updates, u) /\ Shows(u, e, w)
    BY <1>3, <2>1, <2>5, <2>8 DEF Changes, r
  <2>11. s.output <=> \A k \in from..N : Layers[k].kind # "static"
    <3>1. s.output <=> \A k \in from..i : Layers[k].kind # "static"
      BY DEF RunSoFar
    <3>2. \A k : k \in from..N <=> k \in from..i \/ k = N
      BY <1>1, <1>20
    <3>3. Layers[N].kind # "static"
      BY <1>20, <2>1
    <3>4. QED
      BY <3>1, <3>2, <3>3
  <2>12. QED
    BY <2>6, <2>7, <2>9, <2>10, <2>11 DEF Announces
<1>21. j # from - 1 /\ j >= from
  BY <1>1
<1>22. Sends(e, c, from, j)
  BY <1>1, <1>2, <1>3, SendsOn DEF RunSoFar
<1>23. RunSoFar(e, j, c, from, w)
  BY <1>12, <1>13, <1>14, <1>15, <1>16, <1>17, <1>18, <1>19, <1>20, <1>21, <1>22 DEF RunSoFar
<1>24. QED
  BY <1>23 DEF e

\* A run ends as RunSoFar says.
LEMMA RunEnds ==
  ASSUME NEW w \in Nat, NEW c, NEW from, RunStart(c, from, w)
  PROVE  RunSoFar(Behind(c, from)[N], N, c, from, w)
<1> DEFINE run == Behind(c, from)
           S == {k \in Nat : RunSoFar(run[from - 1 + k], from - 1 + k, c, from, w)}
<1>1. from \in 1..N /\ N \in Nat
  BY LayersAssumption DEF RunStart
<1>2. run[from - 1] = c /\ \A i \in from..N : run[i] = updateChainEntry(run[i - 1], i)
  BY <1>1, RunsOneByOne
<1> HIDE DEF run
<1>3. 0 \in S
  <2>1. from - 1 + 0 = from - 1
    BY <1>1
  <2>2. RunSoFar(run[from - 1], from - 1, c, from, w)
    BY <1>2, RunBegins
  <2>3. QED
    BY <2>1, <2>2
<1>4. ASSUME NEW k \in 0..(N - from), k \in S
      PROVE  k + 1 \in S
  <2> DEFINE i == from - 1 + k
  <2>1. i \in (from - 1)..(N - 1) /\ i + 1 \in from..N /\ (i + 1) - 1 = i
    BY <1>1
  <2>2. RunSoFar(run[i], i, c, from, w)
    BY <1>4
  <2>3. from - 1 + (k + 1) = i + 1 /\ k + 1 \in Nat
    BY <1>1
  <2> HIDE DEF i
  <2>4. RunSoFar(updateChainEntry(run[i], i + 1), i + 1, c, from, w)
    BY <2>1, <2>2, RunGoesOn
  <2>5. run[i + 1] = updateChainEntry(run[i], i + 1)
    BY <1>2, <2>1
  <2>6. QED
    BY <2>3, <2>4, <2>5
<1>5. N - from + 1 \in S
  <2>1. N - from + 1 \in Nat /\ (N - from + 1) - 1 = N - from
    BY <1>1
  <2> HIDE DEF S
  <2>2. 0..(N - from + 1) \subseteq S
    BY <1>3, <1>4, <2>1, UpTo
  <2>3. QED
    BY <2>1, <2>2
<1>6. from - 1 + (N - from + 1) = N
  BY <1>1
<1>7. QED
  BY <1>5, <1>6 DEF run

\* A run keeps the types, wherever it starts.
LEMMA RunKeepsType ==
  ASSUME NEW w \in Nat, NEW c \in Chains(w), NEW from \in 1..N, NEW region \in Regions
  PROVE  RunChain(c, from, region) \in Chains(w)
<1> DEFINE c1 == [c EXCEPT !.passed = region, !.output = TRUE]
           run == Behind(c1, from)
           S == {k \in Nat : run[from - 1 + k] \in Chains(w)}
<1>1. c1 \in Chains(w)
  BY DEF Chains
<1>2. N \in Nat
  BY LayersAssumption
<1> HIDE DEF c1
<1>3. run[from - 1] = c1 /\ \A i \in from..N : run[i] = updateChainEntry(run[i - 1], i)
  BY RunsOneByOne
<1> HIDE DEF run
<1>4. 0 \in S
  <2>1. from - 1 + 0 = from - 1
    OBVIOUS
  <2>2. QED
    BY <1>1, <1>3, <2>1
<1>5. ASSUME NEW k \in 0..(N - from), k \in S
      PROVE  k + 1 \in S
  <2> DEFINE i == from + k
  <2>1. i \in from..N /\ i \in 1..N /\ from - 1 + (k + 1) = i /\ from - 1 + k = i - 1 /\ k + 1 \in Nat
    BY <1>2
  <2>2. run[i - 1] \in Chains(w)
    BY <1>5, <2>1
  <2> HIDE DEF i
  <2>3. Changes(updateChainEntry(run[i - 1], i), run[i - 1], i, w)
    BY <2>1, <2>2, LayerInRun
  <2>4. run[i] \in Chains(w)
    BY <1>3, <2>1, <2>3 DEF Changes
  <2>5. QED
    BY <2>1, <2>4
<1>6. N - from + 1 \in S
  <2>1. N - from + 1 \in Nat /\ (N - from + 1) - 1 = N - from
    BY <1>2
  <2> HIDE DEF S
  <2>2. 0..(N - from + 1) \subseteq S
    BY <1>4, <1>5, <2>1, UpTo
  <2>3. QED
    BY <2>1, <2>2
<1>7. from - 1 + (N - from + 1) = N
  BY <1>2
<1>8. QED
  BY <1>6, <1>7 DEF RunChain, run, c1

-----------------------------------------------------------------------------
(* Maps and local maps *)

Waiting == [layer : DOMAIN LocalMaps, msg : Grids]

\* The root layer is a row as wide as the map.
LEMMA RootIsRow ==
  ASSUME NEW map \in Grids
  PROVE  Size(map) \in Nat /\ RootCSpace(map) \in Rows(Size(map))
<1> DEFINE w == Size(map)
           blank == [c \in 0..(w - 1) |-> -1]
           data == DrawOn(RootLayer, blank, map, map.x)
<1>1. w \in Nat
  BY DEF Grids, Size
<1>2. blank \in Rows(w)
  BY DEF Rows
<1> HIDE DEF blank, w
<1>3. data \in Rows(w)
  BY <1>1, <1>2, DrawnIsRow
<1> HIDE DEF data
<1>4. RootCSpace(map) = [c \in DOMAIN data |-> IF Val(map, c) < 0 THEN -1 ELSE data[c]]
  BY DEF RootCSpace, data, blank, w
<1>5. RootCSpace(map) \in Rows(w)
  BY <1>3, <1>4 DEF Rows
<1>6. QED
  BY <1>1, <1>5 DEF w

\* A map has cells.
LEMMA MapHasCells ==
  ASSUME NEW map \in BaseMaps
  PROVE  Size(map) \in Nat \ {0}
<1>1. map.cells \in Seq(Int) /\ map.cells # <<>>
  BY MapsAssumption DEF Grids
<1>2. QED
  BY <1>1 DEF Size

\* A map gives every layer a row of its width.
LEMMA MapKeepsType ==
  ASSUME NEW w \in Nat, NEW c \in Chains(w), NEW map \in Grids
  PROVE  SetBaseMap(c, map) \in Chains(Size(map))
<1> DEFINE root == RootCSpace(map)
           copied == [c EXCEPT !.origin = map.x, !.over = [i \in 0..N |-> root]]
<1>1. Size(map) \in Nat /\ root \in Rows(Size(map)) /\ map.x \in Int
  BY RootIsRow DEF Grids
<1> HIDE DEF root
<1>2. copied \in Chains(Size(map))
  BY <1>1 DEF Chains
<1>3. [x |-> 0, w |-> Size(map)] \in Regions /\ 1 \in 1..N
  BY <1>1, LayersAssumption DEF Regions
<1> HIDE DEF copied
<1>4. RunChain(copied, 1, [x |-> 0, w |-> Size(map)]) \in Chains(Size(map))
  BY <1>1, <1>2, <1>3, RunKeepsType
<1>5. QED
  BY <1>4 DEF SetBaseMap, copied, root

\* What a local map sets before the run.
Received(c, i, msg) ==
  LET region == [x |-> At(msg, c.origin, 0), w |-> Size(msg)]
  IN  [c EXCEPT !.updated[i] = msg, !.region[i] = region]

\* A local map is received by its layer alone.
LEMMA ReceivedByOne ==
  ASSUME NEW w \in Nat, NEW c \in Chains(w), NEW i \in 1..N, NEW msg \in Grids
  PROVE  LET a == Received(c, i, msg)
             region == [x |-> At(msg, c.origin, 0), w |-> Size(msg)]
         IN  /\ a \in Chains(w) /\ region \in Regions
             /\ a.updated[i] = msg /\ \A k \in 1..N : k # i => a.updated[k] = c.updated[k]
             /\ a.region[i] = region /\ \A k \in 1..N : k # i => a.region[k] = c.region[k]
             /\ a.over = c.over /\ a.prev = c.prev /\ a.origin = c.origin
             /\ a.outPrev = c.outPrev /\ a.updates = c.updates /\ a.maps = c.maps
<1> DEFINE a == Received(c, i, msg)
           region == [x |-> At(msg, c.origin, 0), w |-> Size(msg)]
           updated2 == [c.updated EXCEPT ![i] = msg]
           region2 == [c.region EXCEPT ![i] = region]
<1>1. region \in Regions
  BY DEF Regions, Chains, Grids, At, Size
<1>2. a = [c EXCEPT !.updated[i] = msg, !.region[i] = region]
  BY DEF Received
<1> HIDE DEF a, region
<1>3. updated2 \in [1..N -> {None} \cup Grids] /\ region2 \in [1..N -> Regions]
  BY <1>1 DEF Chains
<1>4. /\ updated2[i] = msg /\ \A k \in 1..N : k # i => updated2[k] = c.updated[k]
      /\ region2[i] = region /\ \A k \in 1..N : k # i => region2[k] = c.region[k]
  BY DEF Chains
<1>5. a = [c EXCEPT !.updated = updated2, !.region = region2]
  BY <1>2 DEF Chains
<1> HIDE DEF updated2, region2
<1>6. a \in Chains(w)
  BY <1>3, <1>5 DEF Chains
<1>7. /\ a.updated = updated2 /\ a.region = region2
      /\ a.over = c.over /\ a.prev = c.prev /\ a.origin = c.origin
      /\ a.outPrev = c.outPrev /\ a.updates = c.updates /\ a.maps = c.maps
  BY <1>5 DEF Chains
<1>8. QED
  BY <1>1, <1>4, <1>6, <1>7 DEF a, region

\* A local map keeps the types.
LEMMA OverlayKeepsType ==
  ASSUME NEW w \in Nat, NEW c \in Chains(w), NEW i \in 1..N, NEW msg \in Grids
  PROVE  ProcessMapOverlay(c, i, msg) \in Chains(w)
<1> DEFINE a == Received(c, i, msg)
           region == [x |-> At(msg, c.origin, 0), w |-> Size(msg)]
<1>1. a \in Chains(w) /\ region \in Regions
  BY ReceivedByOne
<1>2. ProcessMapOverlay(c, i, msg) = RunChain(a, i, region)
  BY DEF ProcessMapOverlay, Received
<1> HIDE DEF a, region
<1>3. QED
  BY <1>1, <1>2, RunKeepsType

\* The local maps of the buffer are drawn one after the other.
LEMMA BufferedOneByOne ==
  ASSUME NEW c, NEW bs \in Seq(Waiting)
  PROVE  \E drawn :
           /\ drawn[0] = c /\ DrawBuffered(c, bs) = drawn[Len(bs)]
           /\ \A k \in 1..Len(bs) :
                drawn[k] = ProcessMapOverlay(drawn[k - 1], bs[k].layer, bs[k].msg)
<1> DEFINE Draws(g, n) == g = [k \in 0..n |->
             IF k = 0 THEN c ELSE ProcessMapOverlay(g[k - 1], bs[k].layer, bs[k].msg)]
           S == {n \in Nat : \E g : Draws(g, n)}
<1>1. Len(bs) \in Nat
  OBVIOUS
<1>2. 0 \in S
  <2>1. Draws([k \in 0..0 |-> c], 0)
    OBVIOUS
  <2>2. QED
    BY <2>1
<1>3. ASSUME NEW n \in 0..(Len(bs) - 1), n \in S
      PROVE  n + 1 \in S
  <2>1. PICK g : Draws(g, n)
    BY <1>3
  <2> DEFINE h == [k \in 0..(n + 1) |->
                    IF k <= n THEN g[k]
                    ELSE ProcessMapOverlay(g[n], bs[n + 1].layer, bs[n + 1].msg)]
  <2>2. ASSUME NEW k \in 0..(n + 1)
        PROVE  h[k] = IF k = 0 THEN c
                      ELSE ProcessMapOverlay(h[k - 1], bs[k].layer, bs[k].msg)
    <3>1. CASE k <= n
      BY <2>1, <3>1
    <3>2. CASE k = n + 1
      BY <2>1, <3>2
    <3>3. QED
      BY <3>1, <3>2
  <2>3. Draws(h, n + 1)
    BY <2>2
  <2> HIDE DEF h
  <2>4. QED
    BY <2>3
<1>4. \E g : Draws(g, Len(bs))
  <2> HIDE DEF S
  <2>1. 0..Len(bs) \subseteq S
    BY <1>1, <1>2, <1>3, UpTo
  <2>2. Len(bs) \in S
    BY <1>1, <2>1
  <2>3. QED
    BY <2>2 DEF S
<1> DEFINE drawn == CHOOSE g : Draws(g, Len(bs))
<1>5. Draws(drawn, Len(bs))
  BY <1>4
<1>6. DrawBuffered(c, bs) = drawn[Len(bs)]
  BY DEF DrawBuffered
<1> HIDE DEF drawn
<1>7. drawn[0] = c
  BY <1>1, <1>5
<1>8. ASSUME NEW k \in 1..Len(bs)
      PROVE  drawn[k] = ProcessMapOverlay(drawn[k - 1], bs[k].layer, bs[k].msg)
  BY <1>1, <1>5
<1>9. QED
  BY <1>6, <1>7, <1>8

\* Drawing the buffer keeps the types.
LEMMA BufferKeepsType ==
  ASSUME NEW w \in Nat, NEW c \in Chains(w), NEW bs \in Seq(Waiting)
  PROVE  DrawBuffered(c, bs) \in Chains(w)
<1>1. PICK drawn : /\ drawn[0] = c /\ DrawBuffered(c, bs) = drawn[Len(bs)]
                   /\ \A k \in 1..Len(bs) : drawn[k] =
                        ProcessMapOverlay(drawn[k - 1], bs[k].layer, bs[k].msg)
  BY BufferedOneByOne
<1> DEFINE S == {k \in Nat : drawn[k] \in Chains(w)}
<1>2. Len(bs) \in Nat /\ 0 \in S
  BY <1>1
<1>3. ASSUME NEW k \in 0..(Len(bs) - 1), k \in S
      PROVE  k + 1 \in S
  <2>1. k + 1 \in 1..Len(bs) /\ k + 1 \in Nat /\ (k + 1) - 1 = k
    BY <1>2
  <2>2. bs[k + 1] \in Waiting
    BY <2>1
  <2>3. bs[k + 1].layer \in 1..N /\ bs[k + 1].msg \in Grids
    BY <2>2, MapsAssumption DEF Waiting
  <2>4. ProcessMapOverlay(drawn[k], bs[k + 1].layer, bs[k + 1].msg) \in Chains(w)
    BY <1>3, <2>3, OverlayKeepsType
  <2>5. QED
    BY <1>1, <2>1, <2>4
<1>4. Len(bs) \in S
  <2> HIDE DEF S
  <2>1. 0..Len(bs) \subseteq S
    BY <1>2, <1>3, UpTo
  <2>2. QED
    BY <1>2, <2>1
<1>5. QED
  BY <1>1, <1>4

-----------------------------------------------------------------------------
(* The planner's costmap *)

\* The layers are rows of one width, and what is on its way is an update.
ChainTypeOK ==
  /\ \E w \in Nat : chain \in Chains(w)
  /\ buffer \in Seq(Waiting)
  /\ costmap_update \in {None} \cup Updates

\* What a change publishes has the types.
LEMMA PublishKeepsType ==
  ASSUME NEW w \in Nat, NEW c \in Chains(w), Publish(c),
         costmap_update \in {None} \cup Updates
  PROVE  /\ chain' \in Chains(w) /\ chain'.updates = <<>>
         /\ costmap_update' \in {None} \cup Updates
<1>1. /\ chain' = [c EXCEPT !.maps = <<>>, !.updates = <<>>, !.passed = Nowhere,
                            !.output = FALSE, !.fresh = c.updates # <<>>]
      /\ costmap_update' = IF c.updates = <<>> THEN costmap_update ELSE Last(c.updates)
  BY DEF Publish
<1>2. Nowhere \in Regions /\ (c.updates # <<>>) \in BOOLEAN
  BY DEF Nowhere, Regions
<1>3. chain' \in Chains(w) /\ chain'.updates = <<>>
  <2> DEFINE fresh2 == c.updates # <<>>
             blank == <<>>
  <2>1. blank \in Seq(Costmaps) /\ blank \in Seq(Updates) /\ fresh2 \in BOOLEAN
    OBVIOUS
  <2>2. chain' = [c EXCEPT !.maps = blank, !.updates = blank, !.passed = Nowhere,
                           !.output = FALSE, !.fresh = fresh2]
    BY <1>1
  <2> HIDE DEF fresh2, blank
  <2>3. chain' \in Chains(w) /\ chain'.updates = blank
    BY <1>2, <2>1, <2>2 DEF Chains
  <2>4. QED
    BY <2>3 DEF blank
<1>4. c.updates # <<>> => Last(c.updates) \in Updates
  BY DEF Chains, Last
<1>5. QED
  BY <1>1, <1>3, <1>4

\* The layers keep their types.
LEMMA ChainKeepsType ==
  ASSUME ChainTypeOK, ChainNext
  PROVE  ChainTypeOK'
<1>1. PICK w \in Nat : chain \in Chains(w)
  BY DEF ChainTypeOK
<1>2. CASE cbMap
  <2>1. PICK map \in BaseMaps : Publish(DrawBuffered(SetBaseMap(chain, map), buffer))
    BY <1>2 DEF cbMap
  <2>2. map \in Grids
    BY <2>1, MapsAssumption
  <2>3. SetBaseMap(chain, map) \in Chains(Size(map)) /\ Size(map) \in Nat
    BY <1>1, <2>2, MapKeepsType, RootIsRow
  <2>4. DrawBuffered(SetBaseMap(chain, map), buffer) \in Chains(Size(map))
    BY <2>3, BufferKeepsType DEF ChainTypeOK
  <2>5. chain' \in Chains(Size(map)) /\ costmap_update' \in {None} \cup Updates
    BY <2>1, <2>3, <2>4, PublishKeepsType DEF ChainTypeOK
  <2>6. buffer' \in Seq(Waiting)
    BY <1>2 DEF cbMap
  <2>7. QED
    BY <2>3, <2>5, <2>6 DEF ChainTypeOK
<1>3. CASE cbMapOverlay
  <2>1. PICK i \in DOMAIN LocalMaps : \E msg \in LocalMaps[i] :
           \/ Publish(ProcessMapOverlay(chain, i, msg)) /\ UNCHANGED buffer
           \/ /\ buffer' = Append(buffer, [layer |-> i, msg |-> msg])
              /\ UNCHANGED <<chain, costmap, costmap_update>>
    BY <1>3 DEF cbMapOverlay
  <2> PICK msg \in LocalMaps[i] :
         \/ Publish(ProcessMapOverlay(chain, i, msg)) /\ UNCHANGED buffer
         \/ /\ buffer' = Append(buffer, [layer |-> i, msg |-> msg])
            /\ UNCHANGED <<chain, costmap, costmap_update>>
    BY <2>1
  <2>2. i \in 1..N /\ msg \in Grids
    BY <2>1, MapsAssumption
  <2>3. CASE Publish(ProcessMapOverlay(chain, i, msg)) /\ UNCHANGED buffer
    <3>1. ProcessMapOverlay(chain, i, msg) \in Chains(w)
      BY <1>1, <2>2, OverlayKeepsType
    <3>2. chain' \in Chains(w) /\ costmap_update' \in {None} \cup Updates
      BY <2>3, <3>1, PublishKeepsType DEF ChainTypeOK
    <3>3. QED
      BY <2>3, <3>2 DEF ChainTypeOK
  <2>4. CASE /\ buffer' = Append(buffer, [layer |-> i, msg |-> msg])
             /\ UNCHANGED <<chain, costmap, costmap_update>>
    <3>1. [layer |-> i, msg |-> msg] \in Waiting
      BY <2>2 DEF Waiting
    <3>2. QED
      BY <2>4, <3>1 DEF ChainTypeOK
  <2>5. QED
    BY <2>1, <2>3, <2>4
<1>4. QED
  BY <1>2, <1>3 DEF ChainNext

\* Where the planner's costmap differs from its base is the region of the update
\* applied last, which the next one restores.
PlannerOK(p) ==
  /\ p = [hasMap |-> p.hasMap, base |-> p.base, cm |-> p.cm, lo |-> p.lo, hi |-> p.hi,
          retained |-> p.retained, applied |-> p.applied]
  /\ p.base = [c \in DOMAIN p.base |-> p.base[c]]
  /\ p.retained \in {None} \cup Updates
  /\ p.applied \in {None} \cup Updates
  /\ p.applied # None =>
       p.lo = p.applied.x /\ p.hi = Greater(p.applied.x + p.applied.w - 1, 0)
  /\ p.cm = IF p.applied = None THEN p.base ELSE Combine(p.base, p.applied)

\* What the update before has drawn is restored.
LEMMA BaseIsRestored ==
  ASSUME NEW p, PlannerOK(p)
  PROVE  Restored(p) = p.base
<1>1. CASE p.applied = None
  BY <1>1 DEF PlannerOK, Restored
<1>2. CASE p.applied # None
  <2>1. p.cm = [c \in DOMAIN p.base |->
           IF c \in CellsOf(p.applied) THEN Greater(p.base[c], p.applied.data[c]) ELSE p.base[c]]
    BY <1>2 DEF PlannerOK, Combine
  <2>2. p.applied.x \in Int /\ p.applied.w \in Int
    BY <1>2 DEF PlannerOK, Updates
  <2>3. \A c : c \in CellsOf(p.applied) => c \in p.lo .. p.hi
    BY <1>2, <2>2 DEF PlannerOK, CellsOf, Greater
  <2>4. QED
    BY <2>1, <2>3 DEF PlannerOK, Restored
<1>3. QED
  BY <1>1, <1>2

\* An update keeps the planner's costmap as described.
LEMMA UpdateKeepsPlanner ==
  ASSUME NEW p, PlannerOK(p), NEW msg \in Updates
  PROVE  PlannerOK(applyCostmapUpdate(p, msg))
<1> DEFINE last == Greater(msg.x + msg.w - 1, 0)
           q == applyCostmapUpdate(p, msg)
<1>1. CASE last >= Width(p.cm)
  <2>1. q = [p EXCEPT !.retained = msg]
    BY <1>1 DEF applyCostmapUpdate
  <2>2. q = [hasMap |-> p.hasMap, base |-> p.base, cm |-> p.cm, lo |-> p.lo, hi |-> p.hi,
             retained |-> msg, applied |-> p.applied]
    BY <2>1 DEF PlannerOK
  <2> HIDE DEF q, last
  <2>3. QED
    BY <2>2 DEF PlannerOK, q
<1>2. CASE ~(last >= Width(p.cm))
  <2>1. q = [p EXCEPT !.cm = Combine(Restored(p), msg), !.lo = msg.x, !.hi = last,
                      !.retained = None, !.applied = msg]
    BY <1>2 DEF applyCostmapUpdate
  <2>2. q = [hasMap |-> p.hasMap, base |-> p.base, cm |-> Combine(p.base, msg),
             lo |-> msg.x, hi |-> last, retained |-> None, applied |-> msg]
    <3>1. p = [hasMap |-> p.hasMap, base |-> p.base, cm |-> p.cm, lo |-> p.lo, hi |-> p.hi,
               retained |-> p.retained, applied |-> p.applied]
      BY DEF PlannerOK
    <3>2. Restored(p) = p.base
      BY BaseIsRestored
    <3> HIDE DEF q, last
    <3>3. QED
      BY <2>1, <3>1, <3>2
  <2>3. msg # None
    BY DEF Updates, None
  <2> HIDE DEF q
  <2>4. QED
    BY <2>2, <2>3 DEF PlannerOK, q
<1>3. QED
  BY <1>1, <1>2

\* A costmap as received keeps the planner's costmap as described.
LEMMA MapKeepsPlanner ==
  ASSUME NEW p, PlannerOK(p), NEW msg
  PROVE  PlannerOK(setMap(p, msg))
<1> DEFINE q == setMap(p, msg)
<1>1. q = [hasMap |-> TRUE, base |-> Known(msg.data), cm |-> Known(msg.data),
           lo |-> Width(msg.data), hi |-> 0, retained |-> p.retained, applied |-> None]
  <2>1. p = [hasMap |-> p.hasMap, base |-> p.base, cm |-> p.cm, lo |-> p.lo, hi |-> p.hi,
             retained |-> p.retained, applied |-> p.applied]
    BY DEF PlannerOK
  <2>2. q = [p EXCEPT !.hasMap = TRUE, !.base = Known(msg.data), !.cm = Known(msg.data),
                      !.lo = Width(msg.data), !.hi = 0, !.applied = None]
    BY DEF setMap
  <2> HIDE DEF q
  <2>3. QED
    BY <2>1, <2>2
<1>2. Known(msg.data) = [c \in DOMAIN Known(msg.data) |-> Known(msg.data)[c]]
  BY DEF Known
<1> HIDE DEF q
<1>3. QED
  BY <1>1, <1>2 DEF PlannerOK, q

\* At the start there is nothing.
LEMMA InitPlanner ==
  ASSUME PipelineInit
  PROVE  ChainTypeOK /\ PlannerOK(planner)
<1>1. chain \in Chains(0)
  <2>1. [c \in {} |-> -1] \in Rows(0) /\ Nowhere \in Regions
    BY DEF Rows, Nowhere, Regions
  <2>2. QED
    BY <2>1 DEF PipelineInit, ChainInit, Chains
<1>2. ChainTypeOK
  BY <1>1 DEF PipelineInit, ChainInit, ChainTypeOK
<1>3. PlannerOK(planner)
  BY DEF PipelineInit, PlannerOK
<1>4. QED
  BY <1>2, <1>3

\* Every step keeps the types and what differs from the base.
LEMMA StepKeepsPlanner ==
  ASSUME ChainTypeOK, PlannerOK(planner), [PipelineNext]_pipelineVars
  PROVE  ChainTypeOK' /\ PlannerOK(planner)'
<1>1. CASE ChainNext /\ UNCHANGED planner
  BY <1>1, ChainKeepsType
<1>2. CASE DeliverMap
  <2>1. ChainTypeOK'
    BY <1>2 DEF DeliverMap, ChainTypeOK
  <2> DEFINE p == setMap(planner, costmap)
  <2>2. PlannerOK(p)
    BY MapKeepsPlanner
  <2>3. PICK q : /\ planner' = [q EXCEPT !.retained = None]
                 /\ q = p \/ (p.retained # None /\ q = applyCostmapUpdate(p, p.retained))
    BY <1>2 DEF DeliverMap
  <2> HIDE DEF p
  <2>4. PlannerOK(q)
    BY <2>2, <2>3, UpdateKeepsPlanner DEF PlannerOK
  <2>5. planner' = [hasMap |-> q.hasMap, base |-> q.base, cm |-> q.cm, lo |-> q.lo,
                    hi |-> q.hi, retained |-> None, applied |-> q.applied]
    BY <2>3, <2>4 DEF PlannerOK
  <2>6. PlannerOK(planner')
    BY <2>4, <2>5 DEF PlannerOK
  <2>7. QED
    BY <2>1, <2>6
<1>3. CASE DeliverUpdate
  <2>1. ChainTypeOK'
    BY <1>3 DEF DeliverUpdate, ChainTypeOK
  <2>2. costmap_update \in Updates
    BY <1>3 DEF DeliverUpdate, ChainTypeOK
  <2>3. PlannerOK(planner')
    BY <1>3, <2>2, UpdateKeepsPlanner DEF DeliverUpdate
  <2>4. QED
    BY <2>1, <2>3
<1>4. CASE UNCHANGED pipelineVars
  BY <1>4 DEF pipelineVars, ChainTypeOK
<1>5. QED
  BY <1>1, <1>2, <1>3, <1>4 DEF PipelineNext

\* However costmaps and updates are lost or overtake each other, the planner's costmap
\* is the costmap as received with the update applied last drawn into it: the region
\* restored is the one that was drawn into, whatever its position (applyCostmapUpdate).
THEOREM OnlyLatestUpdateRemains == PipelineSpec => []CmIsBaseAndLatest
<1> DEFINE Inv == ChainTypeOK /\ PlannerOK(planner)
<1>1. PipelineInit => Inv
  BY InitPlanner
<1>2. Inv /\ [PipelineNext]_pipelineVars => Inv'
  BY StepKeepsPlanner
<1>3. Inv => CmIsBaseAndLatest
  BY DEF PlannerOK, CmIsBaseAndLatest
<1>4. QED
  BY <1>1, <1>2, <1>3, PTL DEF PipelineSpec

-----------------------------------------------------------------------------
(* The layers as if drawn anew *)

\* Local maps come for layer m only, and its footprint reaches over one cell at most.
OverlayLayer(m) ==
  /\ m \in 1..N
  /\ Layers[m].kind = "footprint" /\ Layers[m].range \in 0..1
  /\ DOMAIN LocalMaps \subseteq {m}
OneOverlayLayer == \E m \in 1..N : OverlayLayer(m)

\* Every layer is as if drawn anew over the one before.  The local map has been drawn
\* within the last region of layer m, and the layers behind it have redrawn this region.
\* The last update shows the costmap as it is.
DrawnFrom(c, m, w) ==
  /\ c \in Chains(w)
  /\ c.region[N] = Nowhere /\ Proper(c.outPrev, w)
  /\ \A k \in 1..N : k # m => c.updated[k] = None
  /\ \A k \in 1..N : c.over[k] = LayerAnew(c, k, c.over[k - 1])
  /\ \A d \in 0..(w - 1) : d \notin CellsOf(c.prev[m]) => c.over[m][d] = c.over[m - 1][d]
  /\ \A k \in (m + 1)..N :
       /\ Within(c.prev[m], c.prev[k], w) /\ InRow(c.prev[k], w)
       /\ k < N => Inside(c.prev[k], c.region[k])
  /\ (\E k \in m..N : Layers[k].kind = "static") => c.updates = <<>>
  /\ c.updates # <<>> => Shows(Last(c.updates), c, w)

\* The last update of a run shows the costmap behind it.
LEMMA LastIsShown ==
  ASSUME NEW w \in Nat, NEW e \in Chains(w), NEW c \in Chains(w), NEW from \in 1..N,
         Announces(e, c, from, w),
         (\E k \in from..N : Layers[k].kind = "static") => c.updates = <<>>
  PROVE  /\ (\E k \in from..N : Layers[k].kind = "static") => e.updates = <<>>
         /\ e.updates # <<>> => Shows(Last(e.updates), e, w)
<1>1. CASE \E k \in from..N : Layers[k].kind = "static"
  BY <1>1 DEF Announces
<1>2. CASE \A k \in from..N : Layers[k].kind # "static"
  <2>1. PICK u \in Updates : e.updates = Append(c.updates, u) /\ Shows(u, e, w)
    BY <1>2 DEF Announces
  <2>2. c.updates \in Seq(Updates)
    BY DEF Chains
  <2>3. Last(e.updates) = u
    BY <2>1, <2>2 DEF Last
  <2>4. QED
    BY <1>2, <2>1, <2>3
<1>3. QED
  BY <1>1, <1>2

\* The costmap published last is the layer before the static output as it is.
Sent(c) == c.maps # <<>> /\ Last(c.maps).data = c.over[StaticOutput - 1]

\* A static output before layer m has published nothing, and what it could is as before.
MapKept(e, c, m) ==
  StaticOutput < m =>
    e.maps = c.maps /\ e.over[StaticOutput - 1] = c.over[StaticOutput - 1]

\* A map draws every layer anew, and the costmap is published.
LEMMA MapDraws ==
  ASSUME NEW m, OverlayLayer(m), NEW w0 \in Nat, NEW c \in Chains(w0), NEW map \in BaseMaps,
         c.region[N] = Nowhere, \A k \in 1..N : k # m => c.updated[k] = None,
         c.updates = <<>>
  PROVE  DrawnFrom(SetBaseMap(c, map), m, Size(map)) /\ Sent(SetBaseMap(c, map))
<1> DEFINE w == Size(map)
           root == RootCSpace(map)
           copied == [c EXCEPT !.origin = map.x, !.over = [i \in 0..N |-> root]]
           full == [x |-> 0, w |-> w]
           a == [copied EXCEPT !.passed = full, !.output = TRUE]
           e == SetBaseMap(c, map)
<1>1. map \in Grids /\ map.cells # <<>>
  BY MapsAssumption
<1>2. w \in Nat /\ root \in Rows(w) /\ map.x \in Int
  BY <1>1, RootIsRow DEF Grids
<1>3. w > 0
  BY MapHasCells
<1> HIDE DEF w, root
<1>4. /\ copied \in Chains(w) /\ copied.region = c.region /\ copied.updated = c.updated
      /\ copied.updates = c.updates
  BY <1>2 DEF Chains
<1>5. e = Behind(a, 1)[N]
  BY DEF SetBaseMap, RunChain, root, w
<1> HIDE DEF copied, e
<1>6. full \in Regions /\ \A d \in Int : d \in CellsOf(full) <=> d \in 0..(w - 1)
  BY <1>2 DEF Regions, CellsOf
<1>7. Proper(full, w)
  BY <1>2 DEF Proper
<1> HIDE DEF full
<1>8. /\ a \in Chains(w) /\ a.region = c.region /\ a.updated = c.updated
      /\ a.updates = c.updates /\ a.passed = full /\ a.output
  BY <1>4, <1>6 DEF Chains
<1> HIDE DEF a
<1>9. N \in Nat /\ 1 \in 1..N /\ N \in 1..N /\ m \in 1..N
  BY LayersAssumption DEF OverlayLayer
<1>10. RunStart(a, 1, w)
  <2>1. \A d \in 0..(w - 1) : d \in CellsOf(full)
    BY <1>6
  <2>2. Renews(a, w)
    BY <1>3, <1>8, <2>1 DEF Renews
  <2>3. a.region[N] = Nowhere
    BY <1>8
  <2>4. Proper(a.passed, w)
    BY <1>7, <1>8
  <2>5. QED
    BY <1>8, <1>9, <2>2, <2>3, <2>4 DEF RunStart
<1>11. RunSoFar(e, N, a, 1, w)
  BY <1>2, <1>5, <1>10, RunEnds
<1>12. e \in Chains(w) /\ e.updated = c.updated /\ e.origin = a.origin
  BY <1>8, <1>11 DEF RunSoFar
<1>13. e.region[N] = Nowhere /\ Proper(e.outPrev, w) /\ Announces(e, a, 1, w)
  BY <1>11 DEF RunSoFar
<1>14. ASSUME NEW k \in 1..N
       PROVE  /\ e.over[k] = LayerAnew(e, k, e.over[k - 1])
              /\ \A d \in 0..(w - 1) : d \in CellsOf(e.prev[k])
              /\ InRow(e.prev[k], w) /\ (k < N => Inside(e.prev[k], e.region[k]))
  <2>1. /\ e.over[k] = LayerAnew(a, k, e.over[k - 1])
        /\ Within(full, e.prev[k], w) /\ InRow(e.prev[k], w)
        /\ k < N => Inside(e.prev[k], e.region[k])
    BY <1>8, <1>11 DEF RunSoFar
  <2>2. LayerAnew(e, k, e.over[k - 1]) = LayerAnew(a, k, e.over[k - 1])
    BY <1>8, <1>12, AnewAlike
  <2>3. QED
    BY <1>6, <2>1, <2>2 DEF Within
<1>15. /\ (\E k \in 1..N : Layers[k].kind = "static") => e.updates = <<>>
       /\ e.updates # <<>> => Shows(Last(e.updates), e, w)
  BY <1>2, <1>8, <1>9, <1>12, <1>13, LastIsShown
<1>16. \A k \in m..N : k \in 1..N
  BY <1>9
<1>17. \A k \in (m + 1)..N : k \in 1..N
  BY <1>9
<1>18. /\ \A k \in 1..N : k # m => e.updated[k] = None
       /\ \A k \in 1..N : e.over[k] = LayerAnew(e, k, e.over[k - 1])
       /\ \A d \in 0..(w - 1) : d \in CellsOf(e.prev[m])
       /\ (\E k \in m..N : Layers[k].kind = "static") => e.updates = <<>>
  BY <1>9, <1>12, <1>14, <1>15, <1>16
<1>19. ASSUME NEW k \in (m + 1)..N
       PROVE  /\ Within(e.prev[m], e.prev[k], w) /\ InRow(e.prev[k], w)
              /\ k < N => Inside(e.prev[k], e.region[k])
  BY <1>14, <1>17 DEF Within
<1>20. DrawnFrom(e, m, w)
  BY <1>12, <1>13, <1>15, <1>18, <1>19 DEF DrawnFrom
<1>21. Sent(e)
  BY <1>9, <1>11, OneStaticOutput DEF RunSoFar, Sends, Sent
<1>22. QED
  BY <1>20, <1>21 DEF e, w

\* A local map leaves every layer as if drawn anew, and nothing is published by a static
\* output before its layer.
LEMMA OverlayDraws ==
  ASSUME NEW m, OverlayLayer(m), NEW w \in Nat, NEW c, DrawnFrom(c, m, w), NEW msg \in Grids
  PROVE  /\ DrawnFrom(ProcessMapOverlay(c, m, msg), m, w)
         /\ MapKept(ProcessMapOverlay(c, m, msg), c, m)
<1> DEFINE region == [x |-> At(msg, c.origin, 0), w |-> Size(msg)]
           b == Received(c, m, msg)
           a == [b EXCEPT !.passed = region, !.output = TRUE]
           e == ProcessMapOverlay(c, m, msg)
<1>1. N \in Nat /\ N \in 1..N /\ m \in 1..(N - 1) /\ m \in 1..N /\ m # N
  BY LayersAssumption DEF OverlayLayer
<1>2. Layers[m].kind = "footprint" /\ Layers[m].range \in 0..1
  BY DEF OverlayLayer
<1>3. c \in Chains(w)
  BY DEF DrawnFrom
<1>4. e = Behind(a, m)[N]
  BY DEF ProcessMapOverlay, RunChain, Received
<1>5. /\ b \in Chains(w) /\ region \in Regions
      /\ b.updated[m] = msg /\ \A k \in 1..N : k # m => b.updated[k] = c.updated[k]
      /\ b.region[m] = region /\ \A k \in 1..N : k # m => b.region[k] = c.region[k]
      /\ b.over = c.over /\ b.prev = c.prev /\ b.origin = c.origin
      /\ b.outPrev = c.outPrev /\ b.updates = c.updates /\ b.maps = c.maps
  BY <1>1, <1>3, ReceivedByOne
<1> HIDE DEF b, e
<1>6. region = [x |-> At(msg, c.origin, 0), w |-> Size(msg)]
  OBVIOUS
<1> HIDE DEF region
<1>7. /\ a \in Chains(w) /\ a.passed = region /\ a.output
      /\ a.updated = b.updated /\ a.region = b.region /\ a.over = b.over
      /\ a.prev = b.prev /\ a.origin = b.origin
      /\ a.outPrev = b.outPrev /\ a.updates = b.updates /\ a.maps = b.maps
  BY <1>5 DEF Chains
<1> HIDE DEF a
<1>8. ASSUME NEW k \in 1..N, k # m
      PROVE  \A parent : LayerAnew(a, k, parent) = LayerAnew(c, k, parent)
  BY <1>5, <1>7, <1>8, AnewAlike
<1>9. Moves(a, m, w)
  <2>1. /\ a.updated[m] \in Grids
        /\ a.passed = [x |-> At(a.updated[m], a.origin, 0), w |-> Size(a.updated[m])]
        /\ a.region[m] = a.passed
    BY <1>5, <1>6, <1>7
  <2>2. \A d \in 0..(w - 1) :
           d \notin CellsOf(a.prev[m]) => a.over[m][d] = a.over[m - 1][d]
    BY <1>5, <1>7 DEF DrawnFrom
  <2>3. ASSUME NEW k \in (m + 1)..N
        PROVE  /\ a.updated[k] = None
               /\ a.over[k] = LayerAnew(a, k, a.over[k - 1])
               /\ Within(a.prev[m], a.prev[k], w) /\ InRow(a.prev[k], w)
               /\ k < N => Inside(a.prev[k], a.region[k])
    <3>1. k \in 1..N /\ k # m
      BY <1>1
    <3>2. a.over[k] = LayerAnew(a, k, a.over[k - 1])
      BY <1>5, <1>7, <1>8, <3>1 DEF DrawnFrom
    <3>3. a.updated[k] = None /\ a.region[k] = c.region[k]
      BY <1>5, <1>7, <3>1 DEF DrawnFrom
    <3>4. QED
      BY <1>5, <1>7, <3>2, <3>3 DEF DrawnFrom
  <2>4. QED
    BY <1>1, <1>2, <2>1, <2>2, <2>3 DEF Moves
<1>10. RunStart(a, m, w)
  <2>1. a.region[N] = Nowhere /\ Proper(a.outPrev, w)
    BY <1>1, <1>5, <1>7 DEF DrawnFrom
  <2>2. QED
    BY <1>1, <1>7, <1>9, <2>1 DEF RunStart
<1>11. RunSoFar(e, N, a, m, w)
  BY <1>4, <1>10, RunEnds
<1>12. e \in Chains(w) /\ e.updated = b.updated /\ e.origin = c.origin
  BY <1>5, <1>7, <1>11 DEF RunSoFar
<1>13. e.region[N] = Nowhere /\ Proper(e.outPrev, w) /\ Announces(e, a, m, w)
  BY <1>11 DEF RunSoFar
<1>14. \A k \in 1..N : k # m => e.updated[k] = None
  BY <1>5, <1>12 DEF DrawnFrom
<1>15. ASSUME NEW k \in 1..N
       PROVE  e.over[k] = LayerAnew(e, k, e.over[k - 1])
  <2>1. \A parent : LayerAnew(e, k, parent) = LayerAnew(a, k, parent)
    BY <1>5, <1>7, <1>12, AnewAlike
  <2>2. CASE k \in m..N
    BY <1>11, <2>1, <2>2 DEF RunSoFar
  <2>3. CASE k < m
    <3>1. k \in 0..N /\ k - 1 \in 0..N /\ k \notin m..N /\ k - 1 \notin m..N /\ k # m
      BY <1>1, <2>3
    <3>2. e.over[k] = c.over[k] /\ e.over[k - 1] = c.over[k - 1]
      BY <1>5, <1>7, <1>11, <3>1 DEF RunSoFar
    <3>3. c.over[k] = LayerAnew(c, k, c.over[k - 1])
      BY DEF DrawnFrom
    <3>4. QED
      BY <1>8, <2>1, <3>1, <3>2, <3>3
  <2>4. QED
    BY <1>1, <2>2, <2>3
<1>16. e.prev[m] = Reached(a, m, w) /\ Within(region, e.prev[m], w)
  BY <1>1, <1>7, <1>11 DEF RunSoFar
<1>17. ASSUME NEW d \in 0..(w - 1), d \notin CellsOf(e.prev[m])
       PROVE  e.over[m][d] = e.over[m - 1][d]
  <2>1. d \notin CellsOf(region)
    BY <1>16, <1>17 DEF Within
  <2>2. e.over[m - 1] \in Rows(w)
    BY <1>1, <1>12 DEF Chains
  <2>3. c.origin \in Int
    BY <1>3 DEF Chains
  <2>4. generateCSpace(Layers[m], e.over[m - 1], msg, c.origin)[d] = e.over[m - 1][d]
    BY <1>2, <1>6, <2>1, <2>2, <2>3, DrawsInside
  <2>5. e.over[m] = Draw(e, m, e.over[m - 1])
    BY <1>1, <1>2, <1>15 DEF LayerAnew
  <2>6. e.updated[m] = msg
    BY <1>5, <1>12
  <2>7. QED
    BY <1>12, <2>4, <2>5, <2>6 DEF Draw
<1>18. ASSUME NEW k \in (m + 1)..N
       PROVE  /\ Within(e.prev[m], e.prev[k], w) /\ InRow(e.prev[k], w)
              /\ k < N => Inside(e.prev[k], e.region[k])
  <2>1. /\ Within(region, e.prev[k], w) /\ InRow(e.prev[k], w)
        /\ k < N => Inside(e.prev[k], e.region[k])
    BY <1>1, <1>7, <1>11 DEF RunSoFar
  <2>2. \A d \in Int : d \in CellsOf(merge(region, region)) => d \in CellsOf(region)
    BY <1>5, MergeInside
  <2>3. merge(region, region) \in Regions
    BY <1>5, MergeHolds
  <2>4. e.prev[m] = normalize(merge(region, region), w)
    BY <1>5, <1>7, <1>16 DEF Reached
  <2>5. Within(e.prev[m], region, w)
    BY <2>2, <2>3, <2>4, NormalizeCuts DEF Within
  <2>6. QED
    BY <2>1, <2>5 DEF Within
<1>19. /\ (\E k \in m..N : Layers[k].kind = "static") => e.updates = <<>>
       /\ e.updates # <<>> => Shows(Last(e.updates), e, w)
  <2>1. (\E k \in m..N : Layers[k].kind = "static") => a.updates = <<>>
    BY <1>5, <1>7 DEF DrawnFrom
  <2>2. QED
    BY <1>1, <1>7, <1>12, <1>13, <2>1, LastIsShown
<1>20. DrawnFrom(e, m, w)
  BY <1>12, <1>13, <1>14, <1>15, <1>17, <1>18, <1>19 DEF DrawnFrom
<1>21. ASSUME StaticOutput < m
       PROVE  e.maps = c.maps /\ e.over[StaticOutput - 1] = c.over[StaticOutput - 1]
  <2>1. StaticOutput \notin m..N /\ StaticOutput - 1 \notin m..N /\ StaticOutput - 1 \in 0..N
    BY <1>1, <1>21, OneStaticOutput
  <2>2. e.maps = c.maps
    BY <1>5, <1>7, <1>11, <2>1 DEF RunSoFar, Sends
  <2>3. e.over[StaticOutput - 1] = c.over[StaticOutput - 1]
    BY <1>5, <1>7, <1>11, <2>1 DEF RunSoFar
  <2>4. QED
    BY <2>2, <2>3
<1>22. QED
  BY <1>20, <1>21 DEF e, MapKept

\* So do the local maps of the buffer.
LEMMA BufferDraws ==
  ASSUME NEW m, OverlayLayer(m), NEW w \in Nat, NEW c, DrawnFrom(c, m, w),
         NEW bs \in Seq(Waiting)
  PROVE  /\ DrawnFrom(DrawBuffered(c, bs), m, w)
         /\ MapKept(DrawBuffered(c, bs), c, m)
<1>1. PICK drawn : /\ drawn[0] = c /\ DrawBuffered(c, bs) = drawn[Len(bs)]
                   /\ \A k \in 1..Len(bs) : drawn[k] =
                        ProcessMapOverlay(drawn[k - 1], bs[k].layer, bs[k].msg)
  BY BufferedOneByOne
<1> DEFINE S == {k \in Nat : /\ DrawnFrom(drawn[k], m, w)
                           /\ MapKept(drawn[k], c, m)}
<1>2. Len(bs) \in Nat /\ 0 \in S
  BY <1>1 DEF MapKept
<1>3. ASSUME NEW k \in 0..(Len(bs) - 1), k \in S
      PROVE  k + 1 \in S
  <2>1. k + 1 \in 1..Len(bs) /\ k + 1 \in Nat /\ (k + 1) - 1 = k
    BY <1>2
  <2>2. bs[k + 1] \in Waiting
    BY <2>1
  <2>3. bs[k + 1].layer = m /\ bs[k + 1].msg \in Grids
    BY <2>2 DEF Waiting, OverlayLayer
  <2>4. /\ DrawnFrom(ProcessMapOverlay(drawn[k], m, bs[k + 1].msg), m, w)
        /\ MapKept(ProcessMapOverlay(drawn[k], m, bs[k + 1].msg), drawn[k], m)
    BY <1>3, <2>3, OverlayDraws
  <2>5. drawn[k + 1] = ProcessMapOverlay(drawn[k], m, bs[k + 1].msg)
    BY <1>1, <2>1, <2>3
  <2>6. MapKept(drawn[k + 1], c, m)
    BY <1>3, <2>4, <2>5 DEF MapKept
  <2>7. QED
    BY <2>1, <2>4, <2>5, <2>6
<1>4. Len(bs) \in S
  <2> HIDE DEF S
  <2>1. 0..Len(bs) \subseteq S
    BY <1>2, <1>3, UpTo
  <2>2. QED
    BY <1>2, <2>1
<1>5. QED
  BY <1>1, <1>4

-----------------------------------------------------------------------------
(* Every layer, and what is published *)

\* The layers are as if drawn anew, and the update on its way shows them.
ChainDrawn(m) ==
  \E w \in Nat :
    /\ DrawnFrom(chain, m, w) /\ chain.updates = <<>>
    /\ (\E k \in m..N : Layers[k].kind = "static") => ~chain.fresh
    /\ chain.fresh /\ costmap_update # None => Shows(costmap_update, chain, w)

\* What d keeps of c when it is published.
Published(d, c, m, w) ==
  /\ DrawnFrom(d, m, w) /\ d.over = c.over /\ d.updates = <<>> /\ d.maps = <<>>
  /\ d.fresh = (c.updates # <<>>)

\* What is drawn when a change is published stays so.
LEMMA PublishKeepsLayers ==
  ASSUME NEW m, OverlayLayer(m), NEW w \in Nat, NEW c, DrawnFrom(c, m, w), Publish(c)
  PROVE  /\ Published(chain', c, m, w)
         /\ chain'.fresh => Shows(costmap_update', chain', w) /\ costmap_update' # None
<1> DEFINE d == chain'
<1>1. c \in Chains(w)
  BY DEF DrawnFrom
<1>2. d = [c EXCEPT !.maps = <<>>, !.updates = <<>>, !.passed = Nowhere, !.output = FALSE,
                    !.fresh = c.updates # <<>>]
  BY DEF Publish
<1>3. Nowhere \in Regions
  BY DEF Nowhere, Regions
<1>4. d \in Chains(w)
  <2> DEFINE fresh2 == c.updates # <<>>
             blank == <<>>
  <2>1. blank \in Seq(Costmaps) /\ blank \in Seq(Updates) /\ fresh2 \in BOOLEAN
    OBVIOUS
  <2>2. d = [c EXCEPT !.maps = blank, !.updates = blank, !.passed = Nowhere,
                      !.output = FALSE, !.fresh = fresh2]
    BY <1>2
  <2> HIDE DEF fresh2, blank, d
  <2>3. QED
    BY <1>1, <1>3, <2>1, <2>2 DEF Chains
<1> HIDE DEF d
<1>5. /\ d.origin = c.origin /\ d.over = c.over /\ d.region = c.region /\ d.prev = c.prev
      /\ d.outPrev = c.outPrev /\ d.updated = c.updated
      /\ d.updates = <<>> /\ d.maps = <<>> /\ d.fresh = (c.updates # <<>>)
  BY <1>1, <1>2 DEF Chains
<1>6. ASSUME NEW k \in 1..N
      PROVE  d.over[k] = LayerAnew(d, k, d.over[k - 1])
  BY <1>5, AnewAlike DEF DrawnFrom
<1>7. DrawnFrom(d, m, w)
  BY <1>4, <1>5, <1>6 DEF DrawnFrom
<1>8. ASSUME d.fresh
      PROVE  Shows(costmap_update', d, w) /\ costmap_update' # None
  <2>1. c.updates # <<>>
    BY <1>5, <1>8
  <2>2. costmap_update' = Last(c.updates)
    BY <2>1 DEF Publish
  <2>3. Shows(Last(c.updates), c, w)
    BY <2>1 DEF DrawnFrom
  <2>4. Last(c.updates) # None
    BY <2>3 DEF Shows, Updates, None
  <2>5. QED
    BY <1>5, <2>2, <2>3, <2>4 DEF Shows
<1>9. QED
  BY <1>5, <1>7, <1>8 DEF Published, d

\* The layers that are published are as if drawn anew.
LEMMA PublishKeepsDrawn ==
  ASSUME NEW m, OverlayLayer(m), NEW w \in Nat, NEW c, DrawnFrom(c, m, w), Publish(c)
  PROVE  ChainDrawn(m)'
<1>1. /\ Published(chain', c, m, w)
      /\ chain'.fresh => Shows(costmap_update', chain', w)
  BY PublishKeepsLayers
<1>2. (\E k \in m..N : Layers[k].kind = "static") => ~chain'.fresh
  BY <1>1 DEF Published, DrawnFrom
<1>3. QED
  BY <1>1, <1>2 DEF ChainDrawn, Published

\* Layers that are as if drawn anew one over the other are those of DrawnAnew.
LEMMA AnewIsUnique ==
  ASSUME NEW w \in Nat, NEW c \in Chains(w),
         \A k \in 1..N : c.over[k] = LayerAnew(c, k, c.over[k - 1])
  PROVE  c.over = DrawnAnew(c)
<1> DEFINE Draws(g) == g = [i \in 0..N |-> IF i = 0 THEN c.over[0]
                                          ELSE LayerAnew(c, i, g[i - 1])]
           g == DrawnAnew(c)
           S == {k \in 0..N : c.over[k] = g[k]}
<1>1. N \in Nat
  BY LayersAssumption
<1>2. Draws(c.over)
  <2>1. c.over \in [0..N -> Rows(w)]
    BY DEF Chains
  <2>2. \A i \in 0..N : i # 0 => i \in 1..N
    BY <1>1
  <2>3. QED
    BY <2>1, <2>2
<1>3. Draws(g)
  BY <1>2 DEF DrawnAnew
<1> HIDE DEF g
<1>4. 0 \in S
  BY <1>1, <1>3
<1>5. ASSUME NEW i \in 0..(N - 1), i \in S
      PROVE  i + 1 \in S
  <2>1. i + 1 \in 1..N /\ i + 1 \in 0..N /\ i + 1 # 0 /\ (i + 1) - 1 = i
    BY <1>1
  <2>2. g[i + 1] = LayerAnew(c, i + 1, g[i])
    BY <1>3, <2>1
  <2>3. c.over[i + 1] = LayerAnew(c, i + 1, c.over[i])
    BY <2>1
  <2>4. QED
    BY <1>5, <2>1, <2>2, <2>3
<1>6. \A k \in 0..N : c.over[k] = g[k]
  <2> HIDE DEF S
  <2>1. 0..N \subseteq S
    BY <1>1, <1>4, <1>5, UpTo
  <2>2. QED
    BY <2>1 DEF S
<1>7. g = [i \in 0..N |-> c.over[i]]
  BY <1>3, <1>6
<1>8. c.over = [i \in 0..N |-> c.over[i]]
  BY DEF Chains
<1>9. QED
  BY <1>7, <1>8 DEF g

\* A step of the chain leaves the layers as if drawn anew.
LEMMA ChainKeepsDrawn ==
  ASSUME NEW m, OverlayLayer(m), ChainTypeOK, ChainDrawn(m), ChainNext
  PROVE  ChainDrawn(m)'
<1>1. PICK w \in Nat :
         /\ DrawnFrom(chain, m, w) /\ chain.updates = <<>>
         /\ chain.fresh /\ costmap_update # None => Shows(costmap_update, chain, w)
  BY DEF ChainDrawn
<1>2. CASE cbMap
  <2>1. PICK map \in BaseMaps : Publish(DrawBuffered(SetBaseMap(chain, map), buffer))
    BY <1>2 DEF cbMap
  <2>2. Size(map) \in Nat
    BY <2>1, MapsAssumption, RootIsRow
  <2>3. DrawnFrom(SetBaseMap(chain, map), m, Size(map))
    BY <1>1, MapDraws DEF DrawnFrom
  <2>4. DrawnFrom(DrawBuffered(SetBaseMap(chain, map), buffer), m, Size(map))
    BY <2>2, <2>3, BufferDraws DEF ChainTypeOK
  <2>5. QED
    BY <2>1, <2>2, <2>4, PublishKeepsDrawn
<1>3. CASE cbMapOverlay
  <2>1. PICK i \in DOMAIN LocalMaps : \E msg \in LocalMaps[i] :
           \/ Publish(ProcessMapOverlay(chain, i, msg))
           \/ UNCHANGED <<chain, costmap, costmap_update>>
    BY <1>3 DEF cbMapOverlay
  <2> PICK msg \in LocalMaps[i] :
         \/ Publish(ProcessMapOverlay(chain, i, msg))
         \/ UNCHANGED <<chain, costmap, costmap_update>>
    BY <2>1
  <2>2. i = m /\ msg \in Grids
    BY MapsAssumption DEF OverlayLayer
  <2>3. CASE Publish(ProcessMapOverlay(chain, i, msg))
    <3>1. DrawnFrom(ProcessMapOverlay(chain, m, msg), m, w)
      BY <1>1, <2>2, OverlayDraws
    <3>2. QED
      BY <2>2, <2>3, <3>1, PublishKeepsDrawn
  <2>4. CASE UNCHANGED <<chain, costmap, costmap_update>>
    BY <1>1, <2>4 DEF ChainDrawn
  <2>5. QED
    BY <2>1, <2>3, <2>4
<1>4. QED
  BY <1>2, <1>3 DEF ChainNext

\* At the start every layer is empty.
LEMMA InitDrawn ==
  ASSUME NEW m, OverlayLayer(m), PipelineInit
  PROVE  DrawnFrom(chain, m, 0) /\ ChainDrawn(m)
<1>1. N \in 1..N /\ m \in 1..N /\ N \in Nat
  BY LayersAssumption DEF OverlayLayer
<1>2. /\ \A k \in 0..N : chain.over[k] = [c \in {} |-> -1]
      /\ \A k \in 1..N : /\ chain.region[k] = Nowhere /\ chain.prev[k] = Nowhere
                         /\ chain.updated[k] = None
      /\ chain.outPrev = Nowhere /\ chain.updates = <<>> /\ chain.fresh = FALSE
  BY DEF PipelineInit, ChainInit
<1>3. ASSUME NEW k \in 1..N
      PROVE  chain.over[k] = LayerAnew(chain, k, chain.over[k - 1])
  <2> DEFINE none == [c \in {} |-> -1]
  <2>1. k \in 0..N /\ k - 1 \in 0..N
    BY <1>1
  <2>2. chain.over[k] = none /\ chain.over[k - 1] = none /\ chain.updated[k] = None
    BY <1>2, <2>1
  <2>3. LayerAnew(chain, k, none) = none
    BY <2>2 DEF LayerAnew, Draw
  <2>4. QED
    BY <2>2, <2>3
<1>4. Proper(Nowhere, 0) /\ \A d \in Int : d \notin CellsOf(Nowhere)
  BY DEF Proper, Nowhere, CellsOf
<1>5. \A k \in (m + 1)..N : k \in 1..N
  BY <1>1
<1>6. chain \in Chains(0)
  <2>1. [c \in {} |-> -1] \in Rows(0) /\ Nowhere \in Regions
    BY DEF Rows, Nowhere, Regions
  <2>2. QED
    BY <2>1 DEF PipelineInit, ChainInit, Chains
<1>7. DrawnFrom(chain, m, 0)
  BY <1>1, <1>2, <1>3, <1>4, <1>5, <1>6 DEF DrawnFrom, Within, InRow, Inside
<1>8. QED
  BY <1>2, <1>7 DEF ChainDrawn

\* Every step leaves the layers as if drawn anew.
LEMMA StepKeepsDrawn ==
  ASSUME NEW m, OverlayLayer(m), ChainTypeOK, ChainDrawn(m), [PipelineNext]_pipelineVars
  PROVE  ChainDrawn(m)'
<1>1. CASE ChainNext
  BY <1>1, ChainKeepsDrawn
<1>2. CASE UNCHANGED chain /\ costmap_update' \in {None, costmap_update}
  BY <1>2 DEF ChainDrawn
<1>3. QED
  BY <1>1, <1>2 DEF PipelineNext, DeliverMap, DeliverUpdate, pipelineVars

\* The update output passes on what is before it.
LEMMA LastShows ==
  ASSUME NEW m, OverlayLayer(m), NEW w \in Nat, NEW c, DrawnFrom(c, m, w)
  PROVE  c.over[N] = c.over[N - 1]
<1>1. N \in 1..N /\ Layers[N].kind = "update"
  BY LayersAssumption
<1>2. c.over[N] = LayerAnew(c, N, c.over[N - 1])
  BY <1>1 DEF DrawnFrom
<1>3. QED
  BY <1>1, <1>2 DEF LayerAnew, Draw

\* Although a change runs through regions only, every layer is at any time as if drawn
\* anew over the one before, and the update on its way to the planner shows them as they
\* are and lies within the map (updateChainEntry, generateUpdateMsg): whatever the layers
\* of the chain, if one of them has local maps and its footprint covers a cell at most.
THEOREM LayersStayCurrent == PipelineSpec => [](OneOverlayLayer => LayersAreCurrent)
<1> DEFINE Inv == /\ ChainTypeOK /\ PlannerOK(planner)
                  /\ OneOverlayLayer => \E m : OverlayLayer(m) /\ ChainDrawn(m)
<1>1. PipelineInit => Inv
  BY InitPlanner, InitDrawn DEF OneOverlayLayer
<1>2. Inv /\ [PipelineNext]_pipelineVars => Inv'
  <2> SUFFICES ASSUME Inv, [PipelineNext]_pipelineVars PROVE Inv'
    OBVIOUS
  <2>1. ChainTypeOK' /\ PlannerOK(planner)'
    BY StepKeepsPlanner
  <2>2. ASSUME NEW m, OverlayLayer(m), ChainDrawn(m)
        PROVE  ChainDrawn(m)'
    BY <2>2, StepKeepsDrawn
  <2>3. QED
    BY <2>1, <2>2
<1>3. Inv => (OneOverlayLayer => LayersAreCurrent)
  <2> SUFFICES ASSUME Inv, OneOverlayLayer PROVE LayersAreCurrent
    OBVIOUS
  <2>1. PICK m : OverlayLayer(m) /\ ChainDrawn(m)
    OBVIOUS
  <2>2. PICK w \in Nat :
           /\ DrawnFrom(chain, m, w)
           /\ chain.fresh /\ costmap_update # None => Shows(costmap_update, chain, w)
    BY <2>1 DEF ChainDrawn
  <2>3. chain \in Chains(w)
    BY <2>2 DEF DrawnFrom
  <2>4. chain.over = DrawnAnew(chain)
    BY <2>2, <2>3, AnewIsUnique DEF DrawnFrom
  <2>5. N \in 0..N /\ N \in 1..N /\ N # m /\ Layers[N].kind = "update"
    BY <2>1, LayersAssumption DEF OverlayLayer
  <2>6. chain.over[N] = chain.over[N - 1]
    BY <2>1, <2>2, LastShows
  <2>7. Width(chain.over[N]) = w
    BY <2>3, <2>5, WidthOfRow DEF Chains
  <2>8. PublishedIsCurrent
    BY <2>2, <2>4, <2>6, <2>7 DEF PublishedIsCurrent, Shows
  <2>9. QED
    BY <2>4, <2>8 DEF LayersAreCurrent, OverlayIsLatest
<1>4. QED
  BY <1>1, <1>2, <1>3, PTL DEF PipelineSpec
-----------------------------------------------------------------------------
(* What the planner knows *)

\* Behind the static output an unknown handler makes no cell worse than the planner
\* takes it to be, nor fills what a stop of the propagation has made unknown.
UnknownAsPlanned ==
  /\ unknown_cost \in Nat
  /\ \A i \in (StaticOutput + 1)..N : Layers[i].kind = "unknown" =>
       /\ Layers[i].cost <= unknown_cost
       /\ \A k \in (StaticOutput + 1)..i : Layers[k].kind # "stop"

\* Cell d of layer i shows no more than the planner knows from the costmap b.
KnownUpTo(c, i, d, b) ==
  /\ c.over[i][d] <= Known(b)[d]
  /\ b[d] >= 0 /\ (\A k \in (StaticOutput + 1)..i : Layers[k].kind # "stop") =>
       c.over[i][d] = b[d]

\* Where layer m has not drawn, the layers behind the static output show no more than
\* the planner knows from the costmap.
LEMMA OutsideIsKnown ==
  ASSUME UnknownAsPlanned, NEW m, OverlayLayer(m), StaticOutput < m,
         NEW w \in Nat, NEW c, DrawnFrom(c, m, w),
         NEW d \in 0..(w - 1), d \notin CellsOf(c.prev[m])
  PROVE  c.over[N][d] <= Known(c.over[StaticOutput - 1])[d]
<1> DEFINE st == StaticOutput
           b == c.over[st - 1]
           S == {n \in Nat : KnownUpTo(c, st - 1 + n, d, b)}
<1>1. /\ st \in 1..(N - 1) /\ N \in Nat /\ m \in 1..N /\ st - 1 \in 0..N
      /\ Layers[m].kind = "footprint" /\ c \in Chains(w)
      /\ \A i \in 1..N : Layers[i].kind = "static" <=> i = st
  BY OneStaticOutput, LayersAssumption DEF OverlayLayer, DrawnFrom
<1> HIDE DEF st
<1>2. b \in Rows(w) /\ b[d] \in Int
  <2>1. b \in Rows(w)
    BY <1>1 DEF Chains
  <2>2. QED
    BY <2>1 DEF Rows
<1>3. Known(b)[d] = (IF b[d] < 0 THEN unknown_cost ELSE b[d]) /\ unknown_cost \in Nat
  BY <1>2 DEF Known, Rows, UnknownAsPlanned
<1> DEFINE known == Known(b)[d]
<1>4. b[d] <= known /\ -1 <= known /\ (b[d] < 0 => known = unknown_cost) /\ known \in Int
  BY <1>2, <1>3
<1> HIDE DEF b
<1>5. 0 \in S
  <2>1. st - 1 + 0 = st - 1
    BY <1>1
  <2>2. c.over[st - 1][d] = b[d]
    BY DEF b
  <2>3. QED
    BY <1>4, <2>1, <2>2 DEF KnownUpTo
<1> HIDE DEF known
<1>6. ASSUME NEW n \in 0..(N - st), n \in S
      PROVE  n + 1 \in S
  <2> DEFINE i == st - 1 + n
             j == i + 1
             x == c.over[i][d]
  <2>1. /\ i \in 0..N /\ j \in 1..N /\ j \in st..N /\ j - 1 = i /\ st - 1 + (n + 1) = j
        /\ n + 1 \in Nat /\ (j # st => j \in (st + 1)..N)
        /\ \A k \in (st + 1)..i : k \in (st + 1)..j
    BY <1>1
  <2>2. KnownUpTo(c, i, d, b)
    BY <1>6
  <2> HIDE DEF i, j
  <2>3. c.over[i] \in Rows(w) /\ x \in Int
    <3>1. c.over[i] \in Rows(w)
      BY <1>1, <2>1 DEF Chains
    <3>2. QED
      BY <3>1 DEF Rows
  <2>4. /\ x <= known
        /\ b[d] >= 0 /\ (\A k \in (st + 1)..i : Layers[k].kind # "stop") => x = b[d]
    BY <2>2 DEF KnownUpTo, known, st
  <2>5. c.over[j][d] = IF Layers[j].kind = "stop" THEN -1
                       ELSE IF Layers[j].kind = "unknown"
                            THEN IF x < 0 THEN Layers[j].cost ELSE x
                            ELSE x
    <3>1. CASE j = m
      <4>1. c.over[m][d] = c.over[m - 1][d]
        BY DEF DrawnFrom
      <4>2. QED
        BY <1>1, <2>1, <3>1, <4>1
    <3>2. CASE j # m
      <4>1. c.over[j] = LayerAnew(c, j, c.over[i]) /\ c.updated[j] = None
        BY <2>1, <3>2 DEF DrawnFrom
      <4>2. QED
        BY <2>1, <2>3, <4>1, AnewCell
    <3>3. QED
      BY <3>1, <3>2
  <2>6. KnownUpTo(c, j, d, b)
    <3> HIDE DEF x
    <3>1. CASE Layers[j].kind = "stop"
      <4>1. j \in (st + 1)..j
        <5>1. j # st
          BY <1>1, <2>1, <3>1
        <5>2. QED
          BY <1>1, <2>1, <5>1
      <4>2. QED
        BY <1>4, <2>5, <3>1, <4>1 DEF KnownUpTo, known, st
    <3>2. CASE Layers[j].kind = "unknown"
      <4>1. j # st
        BY <1>1, <2>1, <3>2
      <4>2. /\ Layers[j].cost <= unknown_cost
            /\ \A k \in (st + 1)..j : Layers[k].kind # "stop"
        BY <2>1, <3>2, <4>1 DEF UnknownAsPlanned, st
      <4>3. Layers[j].cost \in Int
        BY <2>1, <3>2, LayersAssumption
      <4>4. b[d] >= 0 => x = b[d]
        BY <2>1, <2>4, <4>2
      <4>5. c.over[j][d] = IF x < 0 THEN Layers[j].cost ELSE x
        BY <2>5, <3>2
      <4>6. c.over[j][d] <= known /\ (b[d] >= 0 => c.over[j][d] = b[d])
        BY <1>2, <1>3, <1>4, <2>3, <2>4, <4>2, <4>3, <4>4, <4>5 DEF x
      <4>7. QED
        BY <4>6 DEF KnownUpTo, known
    <3>3. CASE Layers[j].kind \notin {"stop", "unknown"}
      <4>1. c.over[j][d] = x
        BY <2>5, <3>3
      <4>2. (\A k \in (st + 1)..j : Layers[k].kind # "stop") =>
              \A k \in (st + 1)..i : Layers[k].kind # "stop"
        BY <2>1
      <4>3. QED
        BY <2>4, <4>1, <4>2 DEF KnownUpTo, known, st
    <3>4. QED
      BY <3>1, <3>2, <3>3
  <2>7. QED
    BY <2>1, <2>6
<1>7. N - st + 1 \in S
  <2>1. N - st + 1 \in Nat /\ (N - st + 1) - 1 = N - st
    BY <1>1
  <2> HIDE DEF S
  <2>2. 0..(N - st + 1) \subseteq S
    BY <1>5, <1>6, <2>1, UpTo
  <2>3. QED
    BY <2>1, <2>2
<1>8. st - 1 + (N - st + 1) = N
  BY <1>1
<1>9. KnownUpTo(c, N, d, b)
  BY <1>7, <1>8
<1>10. QED
  BY <1>9 DEF KnownUpTo, b, st

\* What the planner has or is about to receive of the costmap before the static output.
KnowsData(data) ==
  IF costmap # None THEN costmap.data = data ELSE planner.base = Known(data)
KnowsMap(w) == IF w = 0 THEN ~chain.fresh ELSE KnowsData(chain.over[StaticOutput - 1])

\* What it has or is about to receive of the last update: an update that it has kept
\* back or applied is this one, unless a costmap comes first.
KnowsUpdate(w) ==
  chain.fresh =>
    IF costmap_update # None THEN Shows(costmap_update, chain, w)
    ELSE /\ planner.retained # None => Shows(planner.retained, chain, w)
         /\ planner.applied # None => costmap # None \/ Shows(planner.applied, chain, w)

Idle(p) == ~p.hasMap => p.retained = None /\ p.applied = None

Informed(m, w) ==
  /\ DrawnFrom(chain, m, w) /\ chain.updates = <<>> /\ chain.maps = <<>>
  /\ KnowsMap(w) /\ KnowsUpdate(w)

\* What is published is on its way to the planner.
LEMMA PublishInforms ==
  ASSUME NEW m, OverlayLayer(m), NEW w \in Nat, w # 0, NEW c, DrawnFrom(c, m, w),
         Publish(c), UNCHANGED planner,
         Sent(c) \/ (c.maps = <<>> /\ KnowsData(c.over[StaticOutput - 1]))
  PROVE  Informed(m, w)'
<1>1. /\ Published(chain', c, m, w)
      /\ chain'.fresh => Shows(costmap_update', chain', w) /\ costmap_update' # None
  BY PublishKeepsLayers
<1>2. costmap' = IF c.maps = <<>> THEN costmap ELSE Last(c.maps)
  BY DEF Publish
<1>3. /\ chain'.over[StaticOutput - 1] = c.over[StaticOutput - 1]
      /\ DrawnFrom(chain', m, w) /\ chain'.updates = <<>> /\ chain'.maps = <<>>
  BY <1>1 DEF Published
<1>4. KnowsData(c.over[StaticOutput - 1])'
  <2>1. CASE Sent(c)
    <3>1. c.maps \in Seq(Costmaps)
      BY DEF DrawnFrom, Chains
    <3>2. c.maps # <<>> /\ Last(c.maps) \in Costmaps
      BY <2>1, <3>1 DEF Sent, Last
    <3>3. Last(c.maps) # None
      BY <3>2 DEF Costmaps, None
    <3>4. QED
      BY <1>2, <2>1, <3>2, <3>3 DEF Sent, KnowsData
  <2>2. CASE c.maps = <<>> /\ KnowsData(c.over[StaticOutput - 1])
    BY <1>2, <2>2 DEF KnowsData
  <2>3. QED
    BY <2>1, <2>2
<1>5. KnowsMap(w)'
  BY <1>3, <1>4 DEF KnowsMap, KnowsData
<1>6. KnowsUpdate(w)'
  BY <1>1 DEF KnowsUpdate
<1>7. QED
  BY <1>3, <1>5, <1>6 DEF Informed

\* A step of the chain keeps the planner informed.
LEMMA ChainInforms ==
  ASSUME NEW m, OverlayLayer(m), StaticOutput < m, ChainTypeOK,
         NEW w \in Nat, Informed(m, w), ChainNext, UNCHANGED planner
  PROVE  \E v \in Nat : Informed(m, v)'
<1>1. DrawnFrom(chain, m, w) /\ chain.updates = <<>> /\ chain.maps = <<>> /\ KnowsMap(w)
  BY DEF Informed
<1>2. CASE cbMap
  <2>1. PICK map \in BaseMaps : Publish(DrawBuffered(SetBaseMap(chain, map), buffer))
    BY <1>2 DEF cbMap
  <2> DEFINE c1 == SetBaseMap(chain, map)
             c2 == DrawBuffered(c1, buffer)
             v == Size(map)
  <2>2. v \in Nat /\ v # 0
    BY MapHasCells
  <2>3. DrawnFrom(c1, m, v) /\ Sent(c1)
    BY <1>1, MapDraws DEF DrawnFrom
  <2> HIDE DEF c1, v
  <2>4. DrawnFrom(c2, m, v) /\ MapKept(c2, c1, m)
    BY <2>2, <2>3, BufferDraws DEF ChainTypeOK
  <2>5. Publish(c2)
    BY <2>1 DEF c1
  <2> HIDE DEF c2
  <2>6. Sent(c2)
    BY <2>3, <2>4 DEF Sent, MapKept
  <2>7. Informed(m, v)'
    BY <2>2, <2>4, <2>5, <2>6, PublishInforms
  <2>8. QED
    BY <2>2, <2>7
<1>3. CASE cbMapOverlay
  <2>1. PICK i \in DOMAIN LocalMaps : \E msg \in LocalMaps[i] :
           \/ HasMap(chain) /\ Publish(ProcessMapOverlay(chain, i, msg))
           \/ UNCHANGED <<chain, costmap, costmap_update>>
    BY <1>3 DEF cbMapOverlay
  <2> PICK msg \in LocalMaps[i] :
         \/ HasMap(chain) /\ Publish(ProcessMapOverlay(chain, i, msg))
         \/ UNCHANGED <<chain, costmap, costmap_update>>
    BY <2>1
  <2>2. i = m /\ msg \in Grids
    BY MapsAssumption DEF OverlayLayer
  <2>3. CASE HasMap(chain) /\ Publish(ProcessMapOverlay(chain, i, msg))
    <3> DEFINE c == ProcessMapOverlay(chain, m, msg)
    <3>1. DrawnFrom(c, m, w) /\ MapKept(c, chain, m)
      BY <1>1, <2>2, OverlayDraws
    <3>2. Publish(c)
      BY <2>2, <2>3
    <3> HIDE DEF c
    <3>3. w # 0
      <4>1. chain \in Chains(w) /\ 0 \in 0..N
        BY <1>1, LayersAssumption DEF DrawnFrom
      <4>2. chain.over[0] \in Rows(w)
        BY <4>1 DEF Chains
      <4>3. DOMAIN chain.over[0] = 0..(w - 1)
        BY <4>2 DEF Rows
      <4>4. QED
        BY <2>3, <4>3 DEF HasMap
    <3>4. c.maps = <<>> /\ KnowsData(c.over[StaticOutput - 1])
      BY <1>1, <3>1, <3>3 DEF MapKept, KnowsMap
    <3>5. Informed(m, w)'
      BY <3>1, <3>2, <3>3, <3>4, PublishInforms
    <3>6. QED
      BY <3>5
  <2>4. CASE UNCHANGED <<chain, costmap, costmap_update>>
    <3>1. Informed(m, w)'
      BY <2>4 DEF Informed, KnowsMap, KnowsData, KnowsUpdate
    <3>2. QED
      BY <3>1
  <2>5. QED
    BY <2>1, <2>3, <2>4
<1>4. QED
  BY <1>2, <1>3 DEF ChainNext

\* What a costmap and an update change in the planner.
LEMMA PlannerChanges ==
  ASSUME NEW p, PlannerOK(p), NEW msg
  PROVE  /\ LET q == setMap(p, msg)
            IN  /\ q.hasMap /\ q.base = Known(msg.data)
                /\ q.retained = p.retained /\ q.applied = None
         /\ LET q == applyCostmapUpdate(p, msg)
            IN  /\ q.hasMap = p.hasMap /\ q.base = p.base
                /\ IF Greater(msg.x + msg.w - 1, 0) >= Width(p.cm)
                   THEN q.retained = msg /\ q.applied = p.applied
                   ELSE q.retained = None /\ q.applied = msg
<1>1. p = [hasMap |-> p.hasMap, base |-> p.base, cm |-> p.cm, lo |-> p.lo, hi |-> p.hi,
           retained |-> p.retained, applied |-> p.applied]
  BY DEF PlannerOK
<1> DEFINE q1 == setMap(p, msg)
           q2 == applyCostmapUpdate(p, msg)
           last == Greater(msg.x + msg.w - 1, 0)
<1>2. q1.hasMap /\ q1.base = Known(msg.data) /\ q1.retained = p.retained /\ q1.applied = None
  <2>1. q1 = [p EXCEPT !.hasMap = TRUE, !.base = Known(msg.data), !.cm = Known(msg.data),
                       !.lo = Width(msg.data), !.hi = 0, !.applied = None]
    BY DEF setMap
  <2> HIDE DEF q1
  <2>2. QED
    BY <1>1, <2>1
<1>3. CASE last >= Width(p.cm)
  <2>1. q2 = [p EXCEPT !.retained = msg]
    BY <1>3 DEF applyCostmapUpdate
  <2> HIDE DEF q2, last
  <2>2. /\ q2.hasMap = p.hasMap /\ q2.base = p.base
        /\ q2.retained = msg /\ q2.applied = p.applied
    BY <1>1, <2>1
  <2>3. QED
    BY <1>2, <1>3, <2>2 DEF q1, q2, last
<1>4. CASE ~(last >= Width(p.cm))
  <2>1. q2 = [p EXCEPT !.cm = Combine(Restored(p), msg), !.lo = msg.x, !.hi = last,
                       !.retained = None, !.applied = msg]
    BY <1>4 DEF applyCostmapUpdate
  <2> HIDE DEF q2, last
  <2>2. /\ q2.hasMap = p.hasMap /\ q2.base = p.base
        /\ q2.retained = None /\ q2.applied = msg
    BY <1>1, <2>1
  <2>3. QED
    BY <1>2, <1>4, <2>2 DEF q1, q2, last
<1>5. QED
  BY <1>3, <1>4

\* What the planner has after it has received a costmap.
LEMMA MapSeen ==
  ASSUME PlannerOK(planner), DeliverMap
  PROVE  /\ planner'.hasMap /\ planner'.base = Known(costmap.data)
         /\ planner'.retained = None
         /\ planner'.applied # None =>
              planner'.applied = planner.retained /\ planner.retained # None
<1> DEFINE p == setMap(planner, costmap)
<1>1. /\ p.hasMap /\ p.base = Known(costmap.data)
      /\ p.retained = planner.retained /\ p.applied = None
  BY PlannerChanges
<1>3. PlannerOK(p)
  BY MapKeepsPlanner
<1>4. PICK q : /\ planner' = [q EXCEPT !.retained = None]
               /\ q = p \/ (p.retained # None /\ q = applyCostmapUpdate(p, p.retained))
  BY DEF DeliverMap
<1> HIDE DEF p
<1>5. p.retained # None => p.retained \in Updates
  BY <1>3 DEF PlannerOK
<1>6. /\ PlannerOK(q) /\ q.hasMap /\ q.base = Known(costmap.data)
      /\ q.applied = None \/ (q.applied = planner.retained /\ planner.retained # None)
  <2>1. CASE q = p
    BY <1>1, <1>3, <2>1
  <2>2. CASE p.retained # None /\ q = applyCostmapUpdate(p, p.retained)
    <3>1. p.retained \in Updates
      BY <1>5, <2>2
    <3>2. PlannerOK(q)
      BY <1>3, <2>2, <3>1, UpdateKeepsPlanner
    <3>3. /\ q.hasMap = p.hasMap /\ q.base = p.base
          /\ q.applied = p.applied \/ q.applied = p.retained
      BY <1>3, <2>2, PlannerChanges
    <3>4. QED
      BY <1>1, <2>2, <3>2, <3>3
  <2>3. QED
    BY <1>4, <2>1, <2>2
<1>7. /\ planner'.hasMap = q.hasMap /\ planner'.base = q.base
      /\ planner'.retained = None /\ planner'.applied = q.applied
  <2>1. q = [hasMap |-> q.hasMap, base |-> q.base, cm |-> q.cm, lo |-> q.lo, hi |-> q.hi,
             retained |-> q.retained, applied |-> q.applied]
    BY <1>6 DEF PlannerOK
  <2>2. planner' = [hasMap |-> q.hasMap, base |-> q.base, cm |-> q.cm, lo |-> q.lo,
                    hi |-> q.hi, retained |-> None, applied |-> q.applied]
    BY <1>4, <2>1
  <2>3. QED
    BY <2>2
<1>8. QED
  BY <1>6, <1>7

\* The planner stays informed when it receives the costmap.
LEMMA MapInforms ==
  ASSUME NEW m, NEW w \in Nat, Informed(m, w), PlannerOK(planner), DeliverMap
  PROVE  Informed(m, w)'
<1>1. costmap # None /\ costmap' = None /\ UNCHANGED <<chain, costmap_update>>
  BY DEF DeliverMap
<1>2. /\ planner'.base = Known(costmap.data) /\ planner'.retained = None
      /\ planner'.applied # None =>
           planner'.applied = planner.retained /\ planner.retained # None
  BY MapSeen
<1>3. KnowsMap(w)'
  BY <1>1, <1>2 DEF Informed, KnowsMap, KnowsData
<1>4. KnowsUpdate(w)'
  BY <1>1, <1>2 DEF Informed, KnowsUpdate
<1>5. QED
  BY <1>1, <1>3, <1>4 DEF Informed

\* The planner stays informed when it receives an update.
LEMMA UpdateInforms ==
  ASSUME NEW m, NEW w \in Nat, Informed(m, w), PlannerOK(planner), Idle(planner),
         costmap_update \in {None} \cup Updates, DeliverUpdate
  PROVE  Informed(m, w)'
<1> DEFINE msg == costmap_update
<1>1. /\ msg # None /\ msg \in Updates /\ costmap_update' = None
      /\ UNCHANGED <<chain, costmap>>
  BY DEF DeliverUpdate
<1>2. CASE ~planner.hasMap
  <2>1. planner' = planner /\ planner.retained = None /\ planner.applied = None
    BY <1>2 DEF DeliverUpdate, Idle
  <2>2. QED
    BY <1>1, <2>1 DEF Informed, KnowsMap, KnowsData, KnowsUpdate
<1>3. CASE planner.hasMap
  <2>1. planner' = applyCostmapUpdate(planner, msg)
    BY <1>3 DEF DeliverUpdate
  <2> DEFINE last == Greater(msg.x + msg.w - 1, 0)
  <2>2. /\ planner'.hasMap = planner.hasMap /\ planner'.base = planner.base
        /\ IF last >= Width(planner.cm)
           THEN planner'.retained = msg /\ planner'.applied = planner.applied
           ELSE planner'.retained = None /\ planner'.applied = msg
    BY <2>1, PlannerChanges
  <2>4. KnowsMap(w)'
    BY <1>1, <2>2 DEF Informed, KnowsMap, KnowsData
  <2>5. ASSUME chain.fresh, last >= Width(planner.cm)
        PROVE  costmap # None
    <3> SUFFICES ASSUME costmap = None PROVE FALSE
      OBVIOUS
    <3>1. w # 0 /\ planner.base = Known(chain.over[StaticOutput - 1])
      BY <2>5 DEF Informed, KnowsMap, KnowsData
    <3>2. chain.over[StaticOutput - 1] \in Rows(w)
      <4>1. chain \in Chains(w) /\ StaticOutput - 1 \in 0..N
        BY OneStaticOutput, LayersAssumption DEF Informed, DrawnFrom
      <4>2. QED
        BY <4>1 DEF Chains
    <3>3. DOMAIN planner.base = 0..(w - 1)
      BY <3>1, <3>2 DEF Known, Rows
    <3>4. DOMAIN planner.cm = 0..(w - 1)
      BY <3>3 DEF PlannerOK, Combine
    <3>5. Width(planner.cm) = w
      <4>1. Cardinality(0..(w - 1)) = w
        BY FS_Interval
      <4>2. QED
        BY <3>4, <4>1 DEF Width
    <3>6. Shows(msg, chain, w)
      BY <1>1, <2>5 DEF Informed, KnowsUpdate
    <3>7. msg.x + msg.w <= w /\ msg.x \in Int /\ msg.w \in Int
      BY <3>6 DEF Shows, Updates
    <3>8. last < w
      BY <3>1, <3>7 DEF Greater
    <3>9. last \in Int
      BY <3>7 DEF Greater
    <3> HIDE DEF last
    <3>10. QED
      BY <2>5, <3>5, <3>8, <3>9
  <2> HIDE DEF last
  <2>6. chain.fresh => Shows(msg, chain, w)
    BY <1>1 DEF Informed, KnowsUpdate
  <2>7. KnowsUpdate(w)'
    BY <1>1, <2>2, <2>5, <2>6 DEF KnowsUpdate
  <2>8. QED
    BY <1>1, <2>4, <2>7 DEF Informed
<1>4. QED
  BY <1>2, <1>3

\* A planner that has received all is current.
LEMMA InformedIsCurrent ==
  ASSUME UnknownAsPlanned, NEW m, OverlayLayer(m), StaticOutput < m,
         NEW w \in Nat, Informed(m, w), PlannerOK(planner)
  PROVE  PlannerIsCurrent
<1> SUFFICES ASSUME costmap = None, costmap_update = None, chain.fresh, planner.applied # None,
                    NEW d \in DOMAIN planner.cm
             PROVE  planner.cm[d] = Greater(planner.base[d], DrawnAnew(chain)[N][d])
  BY DEF PlannerIsCurrent
<1> DEFINE data == chain.over[StaticOutput - 1]
           u == planner.applied
<1>1. DrawnFrom(chain, m, w) /\ Shows(u, chain, w) /\ planner.base = Known(data)
  BY DEF Informed, KnowsMap, KnowsData, KnowsUpdate
<1>2. chain \in Chains(w) /\ StaticOutput - 1 \in 0..N /\ N - 1 \in 0..N /\ N \in 1..N /\ N \in 0..N
  BY <1>1, OneStaticOutput, LayersAssumption DEF DrawnFrom
<1>3. data \in Rows(w) /\ chain.over[N] \in Rows(w)
  BY <1>2 DEF Chains
<1>4. chain.over[N] = DrawnAnew(chain)[N]
  BY <1>1, <1>2, AnewIsUnique DEF DrawnFrom
<1>5. chain.over[N] = chain.over[N - 1]
  BY <1>1, LastShows
<1> HIDE DEF data
<1>6. DOMAIN planner.base = 0..(w - 1)
  BY <1>1, <1>3 DEF Known, Rows
<1>7. /\ d \in 0..(w - 1)
      /\ planner.cm[d] = IF d \in CellsOf(u) THEN Greater(planner.base[d], u.data[d])
                         ELSE planner.base[d]
  BY <1>6 DEF PlannerOK, Combine
<1>8. CASE d \in CellsOf(u)
  BY <1>1, <1>4, <1>5, <1>7, <1>8 DEF Shows
<1>9. CASE d \notin CellsOf(u)
  <2>1. d \notin CellsOf(chain.prev[N])
    BY <1>1, <1>7, <1>9 DEF Shows, Within
  <2>2. d \notin CellsOf(chain.prev[m])
    <3>1. N \in (m + 1)..N
      BY LayersAssumption DEF OverlayLayer
    <3>2. Within(chain.prev[m], chain.prev[N], w)
      BY <1>1, <3>1 DEF DrawnFrom
    <3>3. QED
      BY <1>7, <2>1, <3>2 DEF Within
  <2>3. chain.over[N][d] <= Known(data)[d]
    BY <1>1, <1>7, <2>2, OutsideIsKnown DEF data
  <2>4. Known(data)[d] \in Int /\ chain.over[N][d] \in Int
    BY <1>3, <1>7 DEF Known, Rows, UnknownAsPlanned
  <2>5. Greater(planner.base[d], chain.over[N][d]) = planner.base[d]
    BY <1>1, <2>3, <2>4 DEF Greater
  <2>6. QED
    BY <1>4, <1>7, <1>9, <2>5
<1>10. QED
  BY <1>8, <1>9

\* With all delivered and the last update applied, the planner knows the obstacles of the
\* local maps, and no other: where no update is drawn, nothing has been drawn behind
\* the static output (applyCostmapUpdate, generateUpdateMsg).  This holds for every chain
\* in which one layer has local maps, maps of any size and messages that are lost
\* or overtake each other.
THEOREM PlannerCatchesUp ==
  PipelineSpec => [](OneOverlayLayer /\ UnknownAsPlanned => PlannerIsCurrent)
<1> DEFINE Kept(m) == ChainDrawn(m) /\ (StaticOutput < m => \E w \in Nat : Informed(m, w))
           Inv == /\ ChainTypeOK /\ PlannerOK(planner) /\ Idle(planner)
                  /\ OneOverlayLayer => \E m : OverlayLayer(m) /\ Kept(m)
<1>1. PipelineInit => Inv
  <2> SUFFICES ASSUME PipelineInit PROVE Inv
    OBVIOUS
  <2>1. ChainTypeOK /\ PlannerOK(planner) /\ Idle(planner)
    BY InitPlanner DEF PipelineInit, Idle
  <2>2. ASSUME NEW m, OverlayLayer(m)
        PROVE  Kept(m)
    <3>1. DrawnFrom(chain, m, 0) /\ chain.updates = <<>> /\ chain.maps = <<>> /\ chain.fresh = FALSE
      BY <2>2, InitDrawn DEF PipelineInit, ChainInit
    <3>2. Informed(m, 0)
      BY <3>1 DEF Informed, KnowsMap, KnowsUpdate
    <3>3. ChainDrawn(m)
      BY <3>1 DEF ChainDrawn
    <3>4. QED
      BY <3>2, <3>3
  <2>3. QED
    BY <2>1, <2>2 DEF OneOverlayLayer
<1>2. Inv /\ [PipelineNext]_pipelineVars => Inv'
  <2> SUFFICES ASSUME Inv, [PipelineNext]_pipelineVars PROVE Inv'
    OBVIOUS
  <2>1. ChainTypeOK' /\ PlannerOK(planner)'
    BY StepKeepsPlanner
  <2>2. ASSUME NEW m, OverlayLayer(m), ChainDrawn(m)
        PROVE  ChainDrawn(m)'
    BY <2>2, StepKeepsDrawn
  <2>3. Idle(planner)'
    <3>1. CASE DeliverMap
      BY <3>1, MapSeen DEF Idle
    <3>2. CASE DeliverUpdate
      <4>1. CASE planner.hasMap
        BY <3>2, <4>1, PlannerChanges DEF DeliverUpdate, Idle
      <4>2. CASE ~planner.hasMap
        BY <3>2, <4>2 DEF DeliverUpdate, Idle
      <4>3. QED
        BY <4>1, <4>2
    <3>3. CASE UNCHANGED planner
      BY <3>3 DEF Idle
    <3>4. QED
      BY <3>1, <3>2, <3>3 DEF PipelineNext, pipelineVars
  <2>4. ASSUME NEW m, OverlayLayer(m), StaticOutput < m, NEW w \in Nat, Informed(m, w)
        PROVE  \E v \in Nat : Informed(m, v)'
    <3>1. CASE ChainNext /\ UNCHANGED planner
      BY <2>4, <3>1, ChainInforms
    <3>2. CASE DeliverMap
      BY <2>4, <3>2, MapInforms
    <3>3. CASE DeliverUpdate
      BY <2>4, <3>3, UpdateInforms DEF ChainTypeOK
    <3>4. CASE UNCHANGED pipelineVars
      <4>1. Informed(m, w)'
        BY <2>4, <3>4 DEF pipelineVars, Informed, KnowsMap, KnowsData, KnowsUpdate
      <4>2. QED
        BY <4>1
    <3>5. QED
      BY <3>1, <3>2, <3>3, <3>4 DEF PipelineNext
  <2>5. ASSUME NEW m, OverlayLayer(m), Kept(m)
        PROVE  Kept(m)'
    BY <2>2, <2>4, <2>5
  <2>6. QED
    BY <2>1, <2>3, <2>5
<1>3. Inv => (OneOverlayLayer /\ UnknownAsPlanned => PlannerIsCurrent)
  <2> SUFFICES ASSUME Inv, OneOverlayLayer, UnknownAsPlanned PROVE PlannerIsCurrent
    OBVIOUS
  <2>1. PICK m : OverlayLayer(m) /\ Kept(m)
    OBVIOUS
  <2>2. CASE ~(StaticOutput < m)
    <3>1. StaticOutput \in m..N /\ Layers[StaticOutput].kind = "static"
      BY <2>1, <2>2, OneStaticOutput, LayersAssumption DEF OverlayLayer
    <3>2. ~chain.fresh
      BY <2>1, <3>1 DEF ChainDrawn
    <3>3. QED
      BY <3>2 DEF PlannerIsCurrent
  <2>3. CASE StaticOutput < m
    <3>1. PICK w \in Nat : Informed(m, w)
      BY <2>1, <2>3
    <3>2. QED
      BY <2>1, <2>3, <3>1, InformedIsCurrent
  <2>4. QED
    BY <2>2, <2>3
<1>4. QED
  BY <1>1, <1>2, <1>3, PTL DEF PipelineSpec
=============================================================================
