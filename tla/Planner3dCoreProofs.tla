------------------------- MODULE Planner3dCoreProofs -------------------------
(***************************************************************************)
(* Proofs about Planner3dCore, for every map, every set of obstacles, every *)
(* answer of the searches and every setting of the parameters.              *)
(*                                                                          *)
(* Each member function gets a lemma: it keeps the type of the object, and  *)
(* it keeps Safe, the inductive invariant.  The two halves are separate     *)
(* because the functions call each other between the points where Safe      *)
(* holds, and because the nodes reuse the lemmas for their handlers.        *)
(*                                                                          *)
(* The second half follows the distance map and the detours through one     *)
(* call: Frame says what a rebuilt map leaves alone, Pursues what a call    *)
(* does to the goal, and Trapped why a detour out of the goal's rock        *)
(* survives the plan made in the same cycle.  They give the refinement of   *)
(* GoalPursuit and the two properties about what a planning cycle leaves.   *)
(***************************************************************************)
EXTENDS Planner3dCore, WellFoundedInduction, TLAPS

\* A set of cells has a nearest one, and searchAvailablePos finds a free cell.
LEMMA NearestInSet ==
  ASSUME NEW p \in Cells, NEW S \in SUBSET Cells, S # {}
  PROVE  Nearest(p, S) \in S
<1> DEFINE T == {Dist[p][q] : q \in S}
<1>1. T \subseteq Nat /\ T # {}
  BY CoreAssumption DEF CoreAssumption
<1>2. PICK n \in T : \A m \in T : ~ (<<m, n>> \in OpToRel(<, Nat))
  <2> HIDE DEF T
  <2> QED BY <1>1, WFMin, NatLessThanWellFounded
<1>3. PICK q \in S : n = Dist[p][q]
  BY <1>2
<1>4. \A r \in S : Dist[p][q] <= Dist[p][r]
  <2> TAKE r \in S
  <2>1. Dist[p][r] \in T /\ Dist[p][r] \in Nat /\ Dist[p][q] \in Nat
    BY <1>1, <1>3
  <2>2. ~ (<<Dist[p][r], Dist[p][q]>> \in OpToRel(<, Nat))
    BY <1>2, <1>3, <2>1
  <2>3. ~ (Dist[p][r] < Dist[p][q])
    BY <2>1, <2>2 DEF OpToRel
  <2> QED BY <2>1, <2>3
<1> QED BY <1>4 DEF Nearest

\* searchAvailablePos returns a free cell of the map, or none.
LEMMA SearchResult ==
  ASSUME NEW c \in CoreType, NEW p \in Cells, NEW lo \in Nat, NEW hi \in Nat
  PROVE  searchAvailablePos(c, p, lo, hi) \in (c.extent \ c.occ) \cup {NoCell}
<1>1. c.extent \subseteq Cells
  BY DEF CoreType, CoreFields
<1>2. \A S \in SUBSET Cells : S # {} => Nearest(p, S) \in S
  BY NearestInSet
<1>3. Around(p, lo, hi) \subseteq Cells /\ Around(p, 0, hi) \subseteq Cells
  BY DEF Around
<1> HIDE DEF CoreType, CoreFields
<1> QED BY <1>1, <1>2, <1>3 DEF searchAvailablePos

\* A cell of the map is relocated to a free cell of the map, or to none.
LEMMA RelocateResult ==
  ASSUME NEW c \in CoreType, NEW p \in Pose
  PROVE  /\ relocateDiscretePose(c, p) \in Pose
         /\ p \in Cells /\ relocateDiscretePose(c, p) # NoCell
              => relocateDiscretePose(c, p) \in Cells
         /\ p \in c.extent /\ relocateDiscretePose(c, p) # NoCell
              => relocateDiscretePose(c, p) \in c.extent \ c.occ
<1>1. c.extent \subseteq Cells /\ c.occ \subseteq Cells
  BY DEF CoreType, CoreFields
<1>2. p \in Cells => searchAvailablePos(c, p, 0, TolRange) \in (c.extent \ c.occ) \cup {NoCell}
  BY SearchResult, CoreAssumption DEF CoreAssumption
<1> HIDE DEF CoreType, CoreFields
<1> QED BY <1>1, <1>2 DEF relocateDiscretePose, Pose

-----------------------------------------------------------------------------
(* The invariant of the object *)

GoalOK(c) ==
  c.hasGoal =>
    /\ c.orig \in Cells /\ c.raw \in Cells /\ c.goal \in Cells
    /\ ~isEscaping(c) => c.raw = c.orig
    /\ c.status = "FINISHING" => ~isEscaping(c)

\* What createCostEstimCache and updateTemporaryEscapeGoal, called with c and
\* leaving d, guarantee: they neither take nor drop a goal, nor end one.
Keeps(c, d) ==
  /\ d \in CoreType /\ GoalOK(d)
  /\ d.hasGoal = c.hasGoal
  /\ c.status # "DONE" => d.status # "DONE"

\* Rebuilding the distance map keeps the goal (createCostEstimCache).
LEMMA BuildCacheKeeps ==
  ASSUME NEW c \in CoreType, GoalOK(c)
  PROVE  Keeps(c, BuildCache(c))
<1> DEFINE e == relocateDiscretePose(c, c.raw)
<1>1. c.raw \in Pose /\ c.orig \in Pose /\ c.stuck \in 0..MaxStuck
  BY DEF CoreType, CoreFields
<1>2. e \in Pose /\ (c.raw \in Cells /\ e # NoCell => e \in Cells)
  BY <1>1, RelocateResult
<1>3. CountStuck(c) \in 0..MaxStuck
  BY <1>1, CoreAssumption DEF CountStuck, MaxStuck, CoreAssumption
<1> HIDE DEF e
<1>4. CASE BuildCache(c) = c
  BY <1>4 DEF Keeps
<1>5. \A occupied \in BOOLEAN, n \in 0..MaxStuck :
        Keeps(c, [c EXCEPT !.cacheCreated = FALSE, !.startOccupied = occupied,
                           !.stuck = n])
  <2> TAKE occupied \in BOOLEAN, n \in 0..MaxStuck
  <2> DEFINE d == [c EXCEPT !.cacheCreated = FALSE, !.startOccupied = occupied, !.stuck = n]
  <2>1. d \in CoreType
    BY DEF CoreType, CoreFields
  <2>2. /\ d.hasGoal = c.hasGoal /\ d.status = c.status /\ d.escape = c.escape
        /\ d.orig = c.orig /\ d.raw = c.raw /\ d.goal = c.goal
    BY DEF CoreType, CoreFields
  <2> HIDE DEF d
  <2>3. Keeps(c, d)
    BY <2>1, <2>2 DEF Keeps, GoalOK, isEscaping
  <2> QED BY <2>3 DEF d
<1>8. [c EXCEPT !.cacheCreated = FALSE, !.startOccupied = FALSE]
        = [c EXCEPT !.cacheCreated = FALSE, !.startOccupied = FALSE, !.stuck = c.stuck]
  BY DEF CoreType, CoreFields
<1>6. Keeps(c, ToOriginalGoal([c EXCEPT !.cacheCreated = FALSE,
                                       !.startOccupied = FALSE]))
  BY <1>1 DEF Keeps, GoalOK, CoreType, CoreFields, ToOriginalGoal, isEscaping, Escapes
<1>7. ASSUME c.hasGoal, e # NoCell
      PROVE  Keeps(c, [c EXCEPT !.cacheCreated = TRUE, !.startOccupied = FALSE,
                                !.goal = e, !.cacheGoal = e])
  BY <1>2, <1>7 DEF Keeps, GoalOK, CoreType, CoreFields, isEscaping
<1> HIDE DEF CoreType, CoreFields
<1> QED
  BY <1>1, <1>3, <1>4, <1>5, <1>6, <1>7, <1>8
  DEF BuildCache, InRock, e, isReadyToPlan

\* Falling back to the original goal keeps the invariant.
LEMMA ToOriginalGoalKeeps ==
  ASSUME NEW c \in CoreType, GoalOK(c)
  PROVE  Keeps(c, ToOriginalGoal(c))
BY DEF Keeps, GoalOK, CoreType, CoreFields, ToOriginalGoal, isEscaping, Escapes

\* Keeps composes.
LEMMA KeepsTransitive ==
  ASSUME NEW c, NEW d, NEW f, Keeps(c, d), Keeps(d, f)
  PROVE  Keeps(c, f)
BY DEF Keeps

\* Setting a temporary goal keeps the original one and stops finishing.
LEMMA EscapeKeeps ==
  ASSUME NEW c \in CoreType, GoalOK(c), NEW te \in Cells,
         NEW esc \in Escapes \ {"NOT"}
  PROVE  Keeps(c, Escape(c, te, esc))
<1> DEFINE d == [c EXCEPT !.escape = esc, !.raw = te, !.goal = te,
                          !.status = IF @ = "FINISHING" THEN "DOING" ELSE @]
<1>1. Keeps(c, d)
  BY DEF Keeps, GoalOK, CoreType, CoreFields, isEscaping, Pose, Statuses
<1>2. Keeps(d, BuildCache(d))
  BY <1>1, BuildCacheKeeps DEF Keeps
<1> QED BY <1>1, <1>2, KeepsTransitive DEF Escape

\* updateTemporaryEscapeGoal keeps the goal, with and without the crowd mode.
LEMMA UpdateEscapeKeeps ==
  ASSUME NEW c \in CoreType, GoalOK(c), NEW s, NEW w \in WorldType
  PROVE  Keeps(c, updateTemporaryEscapeGoal(c, s, w))
<1>0. Keeps(c, c)
  BY DEF Keeps
<1>1. Keeps(c, EscapeToFreePose(c))
  <2> DEFINE te == searchAvailablePos(c, Origin, EscRangeMin, EscRange)
  <2>1. te \in (c.extent \ c.occ) \cup {NoCell}
    BY SearchResult, CoreAssumption DEF CoreAssumption
  <2>2. te # NoCell => te \in Cells
    BY <2>1 DEF CoreType, CoreFields
  <2> HIDE DEF te
  <2>3. te # NoCell => Keeps(c, Escape(c, te, "WITHOUT_IMPROVEMENT"))
    BY <2>2, EscapeKeeps DEF Escapes
  <2> QED BY <1>0, <2>3 DEF EscapeToFreePose, te
<1>2. Keeps(c, EscapeInCrowd(c, s, w))
  <2>1. Keeps(c, BuildCache(ToOriginalGoal(c)))
    BY ToOriginalGoalKeeps, BuildCacheKeeps, KeepsTransitive DEF Keeps
  <2>2. \A esc \in Escapes \ {"NOT"} : Keeps(c, Escape(c, w.te, esc))
    BY EscapeKeeps DEF WorldType
  <2>3. {"WITH_IMPROVEMENT", "WITHOUT_IMPROVEMENT"} \subseteq Escapes \ {"NOT"}
    BY DEF Escapes
  <2> QED BY <1>0, <2>1, <2>2, <2>3 DEF EscapeInCrowd
<1> QED BY <1>0, <1>1, <1>2 DEF updateTemporaryEscapeGoal

\* createCostEstimCache keeps the goal, also when it escapes.
LEMMA CreateCacheKeeps ==
  ASSUME NEW c \in CoreType, GoalOK(c), NEW w \in WorldType
  PROVE  Keeps(c, createCostEstimCache(c, w))
<1>1. Keeps(c, BuildCache(c))
  BY BuildCacheKeeps
<1>2. \A s : Keeps(BuildCache(c), updateTemporaryEscapeGoal(BuildCache(c), s, w))
  BY <1>1, UpdateEscapeKeeps DEF Keeps
<1> QED BY <1>1, <1>2, KeepsTransitive DEF createCostEstimCache

-----------------------------------------------------------------------------
(* The member functions keep the invariant *)

\* The invariant of the object between calls.
Safe(c) == /\ c \in CoreType /\ GoalOK(c)
           /\ c.hasGoal => c.status # "DONE"

\* What a call that neither takes nor drops a goal leaves behind.
Stays(c, d) == Safe(d) /\ d.hasGoal = c.hasGoal

\* A call that keeps the goal keeps the invariant.
LEMMA KeepsSafe ==
  ASSUME NEW c, NEW d, Safe(c), Keeps(c, d)
  PROVE  Stays(c, d)
BY DEF Safe, Keeps, Stays

\* The invariant is about the goal, its status and the escape only.
LEMMA SameGoalStays ==
  ASSUME NEW c, Safe(c), NEW d \in CoreType,
         d.hasGoal = c.hasGoal, d.status = c.status, d.escape = c.escape,
         d.orig = c.orig, d.raw = c.raw, d.goal = c.goal
  PROVE  Stays(c, d)
<1> HIDE DEF CoreType, CoreFields
<1> QED BY DEF Stays, Safe, GoalOK, isEscaping

\* Both ways a costmap arrives keep the goal and the invariant.
LEMMA MapsSafe ==
  ASSUME NEW c, Safe(c), NEW occ \in SUBSET Cells, NEW w \in WorldType
  PROVE  /\ \A extent \in SUBSET Cells : Stays(c, setMap(c, extent, occ, w))
         /\ \A inRange \in BOOLEAN : Stays(c, applyCostmapUpdate(c, inRange, occ, w))
<1>1. ASSUME NEW extent \in SUBSET Cells
      PROVE  Stays(c, setMap(c, extent, occ, w))
  <2> DEFINE m == [c EXCEPT !.path = "empty", !.hasMap = TRUE, !.extent = extent,
                            !.occ = occ \cap extent, !.cacheGoal = NoCell]
  <2>1. /\ m \in CoreType /\ m.hasGoal = c.hasGoal /\ m.status = c.status
        /\ m.escape = c.escape /\ m.orig = c.orig /\ m.raw = c.raw /\ m.goal = c.goal
    BY DEF Safe, CoreType, CoreFields, Pose
  <2> HIDE DEF m
  <2>3. Stays(c, m)
    BY <2>1, SameGoalStays
  <2>2. Stays(m, createCostEstimCache(m, w))
    BY <2>3, CreateCacheKeeps, KeepsSafe DEF Safe, Stays
  <2> QED BY <2>3, <2>2 DEF setMap, m, Stays
<1>2. ASSUME NEW inRange \in BOOLEAN
      PROVE  Stays(c, applyCostmapUpdate(c, inRange, occ, w))
  <2> DEFINE u == [c EXCEPT !.occ = occ \cap c.extent]
  <2>1. Stays(c, u)
    BY DEF Stays, Safe, GoalOK, CoreType, CoreFields, isEscaping
  <2> HIDE DEF u
  <2>2. Stays(u, [u EXCEPT !.cacheGoal = u.goal])
    BY <2>1 DEF Stays, Safe, GoalOK, CoreType, CoreFields, isEscaping
  <2>3. Stays(u, createCostEstimCache(u, w))
    BY <2>1, CreateCacheKeeps, KeepsSafe DEF Safe, Stays
  <2> QED BY <2>1, <2>2, <2>3 DEF applyCostmapUpdate, u, Stays
<1> QED BY <1>1, <1>2

\* The other inputs: only clearGoal drops the goal.
LEMMA InputsSafe ==
  ASSUME NEW c, Safe(c)
  PROVE  /\ \A s \in Cells : Stays(c, setStart(c, s))
         /\ Stays(c, clearStart(c)) /\ Safe(clearGoal(c))
         /\ Stays(c, handleNoGoal(c)) /\ Stays(c, setParameters(c))
         /\ \A tol \in Tols : Stays(c, setGoalTolerance(c, tol))
         /\ \A w \in WorldType : /\ Stays(c, checkSwitchbackArrival(c, w))
                                 /\ Stays(c, triggerTemporaryEscape(c, w))
<1>0. Stays(c, c)
  BY DEF Stays
<1>1. (\A s \in Cells : Stays(c, setStart(c, s))) /\ Stays(c, clearStart(c))
  BY DEF Stays, Safe, GoalOK, CoreType, CoreFields, isEscaping, setStart, clearStart
<1>2. (\A tol \in Tols : Stays(c, setGoalTolerance(c, tol))) /\ Safe(clearGoal(c))
  BY DEF Stays, Safe, GoalOK, CoreType, CoreFields, isEscaping, setGoalTolerance, clearGoal,
         Statuses, Escapes
<1>3. Stays(c, handleNoGoal(c))
  <2>1. \A e \in Errors : Stays(c, [c EXCEPT !.error = e, !.path = "empty"])
    BY DEF Stays, Safe, GoalOK, CoreType, CoreFields, isEscaping
  <2>2. c.error \in Errors /\ "GOING_WELL" \in Errors
    BY DEF Safe, CoreType, CoreFields, Errors
  <2> QED BY <2>1, <2>2 DEF handleNoGoal
<1>4. Stays(c, [c EXCEPT !.switchback = FALSE]) /\ Stays(c, setParameters(c))
  <2>1. Stays(c, [c EXCEPT !.switchback = FALSE])
    BY DEF Stays, Safe, GoalOK, CoreType, CoreFields, isEscaping
  <2>2. Stays(c, [c EXCEPT !.cacheGoal = NoCell])
    BY DEF Stays, Safe, GoalOK, CoreType, CoreFields, isEscaping, Pose
  <2> QED BY <1>0, <2>1, <2>2 DEF setParameters
<1>5. ASSUME NEW w \in WorldType
      PROVE  Stays(c, checkSwitchbackArrival(c, w)) /\ Stays(c, triggerTemporaryEscape(c, w))
  <2>1. Stays(c, updateTemporaryEscapeGoal(c, c.start, w))
    BY UpdateEscapeKeeps, KeepsSafe DEF Safe
  <2> QED BY <1>0, <1>4, <2>1 DEF checkSwitchbackArrival, triggerTemporaryEscape
<1> QED BY <1>1, <1>2, <1>3, <1>4, <1>5

\* setGoal keeps the invariant whatever it answers, and a goal it accepts is pursued.
LEMMA SetGoalSafe ==
  ASSUME NEW c, Safe(c), NEW g \in Cells, NEW same \in BOOLEAN,
         NEW normal \in BOOLEAN, NEW w \in WorldType
  PROVE  /\ Safe(setGoal(c, g, same, normal, w))
         /\ setGoalResult(c, g, same, normal) = "ACCEPTED"
              => setGoal(c, g, same, normal, w).hasGoal
<1> DEFINE n == createCostEstimCache(NewGoal(c, g), w)
<1>1. NewGoal(c, g) \in CoreType /\ GoalOK(NewGoal(c, g))
  <2> DEFINE g1 == WithGoal(c, g)
  <2>1. g1 \in CoreType /\ g1.orig = g /\ g1.raw = g /\ g1.goal = g
    BY DEF WithGoal, Safe, CoreType, CoreFields, Pose
  <2>2. 0 \in 0..MaxStuck
    BY CoreAssumption DEF CoreAssumption, MaxStuck
  <2> HIDE DEF g1
  <2> QED BY <2>1, <2>2 DEF NewGoal, g1, GoalOK, CoreType, CoreFields, isEscaping, Escapes
<1>2. n \in CoreType /\ GoalOK(n) /\ n.hasGoal
  <2>1. NewGoal(c, g).hasGoal
    BY DEF NewGoal, WithGoal, Safe, CoreType, CoreFields
  <2> QED BY <1>1, <2>1, CreateCacheKeeps DEF Keeps
<1> HIDE DEF n
<1>3. Stays(n, [n EXCEPT !.status = "DOING"])
  <2> DEFINE d == [n EXCEPT !.status = "DOING"]
  <2>1. d \in CoreType
    BY <1>2 DEF CoreType, CoreFields, Statuses
  <2>2. GoalOK(d) /\ d.hasGoal /\ d.status = "DOING"
    BY <1>2 DEF CoreType, CoreFields, GoalOK, isEscaping
  <2> HIDE DEF d
  <2>3. Stays(n, d)
    BY <2>1, <2>2, <1>2 DEF Stays, Safe
  <2> QED BY <2>3 DEF d
<1>5. Safe([n EXCEPT !.hasGoal = FALSE])
  <2> DEFINE d == [n EXCEPT !.hasGoal = FALSE]
  <2>1. d \in CoreType /\ ~d.hasGoal
    BY <1>2 DEF CoreType, CoreFields
  <2> HIDE DEF d
  <2>2. Safe(d)
    BY <2>1 DEF Safe, GoalOK
  <2> QED BY <2>2 DEF d
<1>4. Safe([WithGoal(c, g) EXCEPT !.hasGoal = FALSE])
  BY DEF WithGoal, Safe, GoalOK, CoreType, CoreFields, Pose
<1> QED BY <1>2, <1>3, <1>4, <1>5 DEF setGoal, setGoalResult, n, Stays

\* makePlan never drops the goal and only starts finishing at it.
LEMMA MakePlanSafe ==
  ASSUME NEW c, Safe(c), c.hasGoal, NEW w \in WorldType
  PROVE  Stays(c, makePlan(c, w))
<1> DEFINE t == IF NearGoal(c, w) THEN [c EXCEPT !.tol = "none"] ELSE c
<1>1. \A e \in Errors : Stays(c, Stop(c, e))
  BY DEF Stop, Stays, Safe, GoalOK, CoreType, CoreFields, isEscaping
<1>2. Stays(c, createCostEstimCache([ToOriginalGoal(c) EXCEPT !.path = "empty"], w))
  <2> DEFINE o == [ToOriginalGoal(c) EXCEPT !.path = "empty"]
  <2>1. Stays(c, o)
    BY DEF ToOriginalGoal, Stays, Safe, GoalOK, CoreType, CoreFields, isEscaping, Escapes
  <2>2. Stays(o, createCostEstimCache(o, w))
    <3> HIDE DEF o
    <3> QED BY <2>1, CreateCacheKeeps, KeepsSafe DEF Safe, Stays
  <2> QED BY <2>1, <2>2 DEF Stays
<1>3. ASSUME ~isEscaping(c)
      PROVE  Stays(c, [c EXCEPT !.status = "FINISHING", !.path = "empty"])
  <2> DEFINE d == [c EXCEPT !.status = "FINISHING", !.path = "empty"]
  <2>1. d \in CoreType
    BY DEF Safe, CoreType, CoreFields, Statuses
  <2>2. GoalOK(d) /\ d.hasGoal /\ d.status = "FINISHING"
    BY <1>3 DEF Safe, CoreType, CoreFields, GoalOK, isEscaping
  <2> HIDE DEF d
  <2>3. Stays(c, d)
    BY <2>1, <2>2 DEF Stays, Safe
  <2> QED BY <2>3 DEF d
<1>4. Stays(c, t)
  <2>1. /\ t \in CoreType /\ t.hasGoal = c.hasGoal /\ t.status = c.status
        /\ t.escape = c.escape /\ t.orig = c.orig /\ t.raw = c.raw /\ t.goal = c.goal
    BY DEF Safe, CoreType, CoreFields, Tols
  <2> HIDE DEF t
  <2> QED BY <2>1, SameGoalStays
<1>5. \A s : Stays(t, SearchPath(t, s, w))
  <2> HIDE DEF t
  <2> DEFINE n == Stop(t, "PATH_NOT_FOUND")
  <2>1. Stays(t, n)
    BY <1>4 DEF Stop, Stays, Safe, GoalOK, CoreType, CoreFields, isEscaping, Errors
  <2>2. Stays(t, updateTemporaryEscapeGoal(n, t.start, w))
    <3> HIDE DEF n
    <3>1. Stays(n, updateTemporaryEscapeGoal(n, t.start, w))
      BY <2>1, UpdateEscapeKeeps, KeepsSafe DEF Safe, Stays
    <3> QED BY <2>1, <3>1 DEF Stays
  <2>3. Stays(t, [t EXCEPT !.path = "plan"])
    BY <1>4 DEF Stays, Safe, GoalOK, CoreType, CoreFields, isEscaping
  <2>4. Stays(t, [t EXCEPT !.path = "plan", !.error = "PATH_NOT_FOUND"])
    BY <1>4 DEF Stays, Safe, GoalOK, CoreType, CoreFields, isEscaping, Errors
  <2> QED BY <2>1, <2>2, <2>3, <2>4 DEF SearchPath
<1> QED
  <2>1. \A s : Stays(c, SearchPath(t, s, w))
    BY <1>4, <1>5 DEF Stays
  <2> HIDE DEF t
  <2> QED BY <1>1, <1>2, <1>3, <2>1 DEF makePlan, Errors, t

\* An ended goal leaves nothing that could be wrong.
LEMMA GivenUpIsSafe ==
  ASSUME NEW c, Safe(c)
  PROVE  Safe([c EXCEPT !.status = "DONE", !.hasGoal = FALSE])
<1> DEFINE d == [c EXCEPT !.status = "DONE", !.hasGoal = FALSE]
<1>1. d \in CoreType /\ ~d.hasGoal
  BY DEF Safe, CoreType, CoreFields, Statuses
<1> HIDE DEF d
<1>2. Safe(d)
  BY <1>1 DEF Safe, GoalOK
<1> QED BY <1>2 DEF d

\* Reports, paths and tolerances do not touch the goal.
LEMMA ReportsKeepGoal ==
  ASSUME NEW c, Safe(c), NEW e \in Errors, NEW p \in {"empty", "finish", "plan"}
  PROVE  Stays(c, [c EXCEPT !.error = e, !.path = p])
<1> DEFINE d == [c EXCEPT !.error = e, !.path = p]
<1>1. d \in CoreType
  BY DEF Safe, CoreType, CoreFields
<1>2. /\ d.hasGoal = c.hasGoal /\ d.status = c.status /\ d.escape = c.escape
      /\ d.orig = c.orig /\ d.raw = c.raw /\ d.goal = c.goal
  BY DEF Safe, CoreType, CoreFields
<1> HIDE DEF d
<1>3. Stays(c, d)
  BY <1>1, <1>2, SameGoalStays
<1> QED BY <1>3 DEF d

\* How a planning cycle begins.
LEMMA CycleStarts ==
  ASSUME NEW c, Safe(c), c.hasGoal
  PROVE  LET b == [c EXCEPT !.switchback = FALSE]
             g == [b EXCEPT !.error = "GOING_WELL"]
         IN  Safe(b) /\ Safe(g) /\ b.hasGoal /\ g.hasGoal
<1> DEFINE b == [c EXCEPT !.switchback = FALSE]
<1>1. /\ b \in CoreType /\ b.hasGoal = c.hasGoal /\ b.status = c.status
      /\ b.escape = c.escape /\ b.orig = c.orig /\ b.raw = c.raw /\ b.goal = c.goal
  BY DEF Safe, CoreType, CoreFields
<1> HIDE DEF b
<1>2. Stays(c, b)
  BY <1>1, SameGoalStays
<1>3. [b EXCEPT !.error = "GOING_WELL"] = [b EXCEPT !.error = "GOING_WELL", !.path = b.path]
  BY <1>1 DEF CoreType, CoreFields
<1>5. b.path \in {"empty", "finish", "plan"} /\ "GOING_WELL" \in Errors
  BY <1>1 DEF CoreType, CoreFields, Errors
<1>4. Stays(b, [b EXCEPT !.error = "GOING_WELL"])
  <2>1. Safe(b)
    BY <1>2 DEF Stays
  <2>2. Stays(b, [b EXCEPT !.error = "GOING_WELL", !.path = b.path])
    BY <2>1, <1>5, ReportsKeepGoal
  <2> QED BY <2>2, <1>3
<1> QED BY <1>2, <1>4 DEF Stays, b

\* A planning cycle drops the goal only when it reports that to the caller.
LEMMA PlanCycleSafe ==
  ASSUME NEW c, Safe(c), NEW old \in BOOLEAN, NEW w \in WorldType
  PROVE  /\ Stays(c, preparePlanCycle(c, old, w))
         /\ c.hasGoal => Safe(runPlanCycle(c, w))
         /\ c.hasGoal /\ planCycleResult(c, w) = "NONE"
              => runPlanCycle(c, w).hasGoal
<1>1. Stays(c, preparePlanCycle(c, old, w))
  <2> DEFINE p == IF c.hasMap /\ ~c.cacheCreated /\ c.hasGoal
                  THEN createCostEstimCache(c, w) ELSE c
  <2>1. Stays(c, p)
    BY CreateCacheKeeps, KeepsSafe DEF Safe, Stays
  <2> HIDE DEF p
  <2>2. Stays(p, [p EXCEPT !.error = "DATA_MISSING", !.path = "empty"])
    BY <2>1 DEF Stays, Safe, GoalOK, CoreType, CoreFields, isEscaping, Errors
  <2>3. p = [p EXCEPT !.error = p.error, !.path = p.path]
    BY <2>1 DEF Stays, Safe, CoreType, CoreFields
  <2>4. preparePlanCycle(c, old, w)
          \in {p, [p EXCEPT !.error = "DATA_MISSING", !.path = "empty"]}
    BY <2>3 DEF preparePlanCycle, p
  <2> QED BY <2>1, <2>2, <2>4 DEF Stays
<1>2. ASSUME c.hasGoal
      PROVE  /\ Safe(runPlanCycle(c, w))
             /\ planCycleResult(c, w) = "NONE" => runPlanCycle(c, w).hasGoal
  <2> DEFINE b == [c EXCEPT !.switchback = FALSE]
             g == [b EXCEPT !.error = "GOING_WELL"]
             m == makePlan(g, w)
  <2>1. Safe(b) /\ Safe(g) /\ b.hasGoal /\ g.hasGoal
    BY <1>2, CycleStarts
  <2>2. Stays(g, m)
    BY <2>1, MakePlanSafe
  <2>3. Stays(b, Planned(g, w))
    <3> HIDE DEF m
    <3>1. w.switch \in BOOLEAN
      BY DEF WorldType
    <3>2. \A sw \in BOOLEAN, e \in Errors :
            Stays(b, [m EXCEPT !.switchback = sw, !.error = e])
      <4> TAKE sw \in BOOLEAN, e \in Errors
      <4> DEFINE d == [m EXCEPT !.switchback = sw, !.error = e]
      <4>1. d \in CoreType
        BY <2>2 DEF Stays, Safe, CoreType, CoreFields
      <4>2. /\ d.hasGoal = m.hasGoal /\ d.status = m.status /\ d.escape = m.escape
            /\ d.orig = m.orig /\ d.raw = m.raw /\ d.goal = m.goal
        BY <2>2 DEF Stays, Safe, CoreType, CoreFields
      <4> HIDE DEF d
      <4>3. Stays(b, d)
        <5>1. Stays(m, d)
          BY <4>1, <4>2, <2>2, SameGoalStays DEF Stays
        <5> HIDE DEF b, g
        <5> QED BY <5>1, <2>1, <2>2 DEF Stays
      <4> QED BY <4>3 DEF d
    <3>3. m.error \in Errors /\ EscapeError(m.escape, g.escape) \in Errors
      BY <2>2 DEF Stays, Safe, CoreType, CoreFields, EscapeError, Errors
    <3>4. (m.path = "plan" /\ w.switch /\ SwWait /\ ~KeepPath) \in BOOLEAN
      OBVIOUS
    <3> QED BY <3>2, <3>3, <3>4 DEF Planned, AfterPlan, m
  <2>4. \A e \in Errors : Stays(b, Stop(b, e))
    <3> HIDE DEF b
    <3> QED BY <2>1, ReportsKeepGoal DEF Stop
  <2>5. Safe([b EXCEPT !.status = "DONE", !.hasGoal = FALSE])
    <3> HIDE DEF b
    <3> QED BY <2>1, GivenUpIsSafe
  <2>6. Safe([Stop(b, "PATH_NOT_FOUND") EXCEPT !.status = "DONE", !.hasGoal = FALSE])
    <3> DEFINE a == Stop(b, "PATH_NOT_FOUND")
    <3>1. Safe(a)
      BY <2>4 DEF Errors, Stays
    <3> HIDE DEF a
    <3>2. Safe([a EXCEPT !.status = "DONE", !.hasGoal = FALSE])
      BY <3>1, GivenUpIsSafe
    <3> QED BY <3>2 DEF a
  <2>7. Stays(b, [b EXCEPT !.path = "finish"])
    <3> HIDE DEF b
    <3>1. [b EXCEPT !.path = "finish"] = [b EXCEPT !.error = b.error, !.path = "finish"]
          /\ b.error \in Errors
      BY <2>1 DEF Safe, CoreType, CoreFields
    <3> QED BY <3>1, <2>1, ReportsKeepGoal
  <2>8. planCycleResult(b, w) = planCycleResult(c, w)
    BY DEF planCycleResult, Safe, CoreType, CoreFields
  <2> HIDE DEF b
  <2>9. CASE planCycleResult(b, w) = "NONE"
    <3>1. Stays(b, runPlanCycle(c, w))
      BY <2>3, <2>4, <2>7, <2>9 DEF runPlanCycle, planCycleResult, Errors, b
    <3> QED BY <2>1, <3>1 DEF Stays
  <2>10. CASE planCycleResult(b, w) # "NONE"
    BY <2>5, <2>6, <2>7, <2>8, <2>10 DEF runPlanCycle, planCycleResult, b, Stays
  <2> QED BY <2>8, <2>9, <2>10
<1> QED BY <1>1, <1>2

\* A whole planning cycle, as the client of this module calls it.
LEMMA PlanPathSafe ==
  ASSUME NEW c, Safe(c), NEW old \in BOOLEAN, NEW w \in WorldType
  PROVE  Safe(planPath(c, old, w))
<1> DEFINE p == preparePlanCycle(c, old, w)
<1>1. Safe(p)
  BY PlanCycleSafe DEF Stays
<1> HIDE DEF p
<1>2. p.hasGoal => Safe(runPlanCycle(p, w))
  BY <1>1, PlanCycleSafe
<1>3. Safe(handleNoGoal(p))
  BY <1>1, InputsSafe DEF Stays
<1> QED BY <1>1, <1>2, <1>3 DEF planPath, RunPrepared, CycleRuns, isReadyToPlan, p

-----------------------------------------------------------------------------
(* The theorems *)

CoreInv == Safe(core)

\* A new object satisfies the invariant.
LEMMA InitSafe == Init => CoreInv
BY CoreAssumption DEF Init, CoreInit, Safe, GoalOK, CoreType, CoreFields, CoreAssumption,
   Statuses, Errors, Escapes, Tols, Pose, MaxStuck, CoreInv

\* Every call keeps the invariant.
LEMMA NextSafe == CoreInv /\ [Next]_core => CoreInv'
<1> SUFFICES ASSUME Safe(core), [Next]_core PROVE Safe(core')
  BY DEF CoreInv
<1>0. /\ \A e \in Extents : e \in SUBSET Cells
      /\ \A o \in Obstacles : o \in SUBSET Cells
      /\ \A g \in Goals : g \in Cells
      /\ \A t \in Tolerances : t \in Tols
      /\ \A w \in Worlds : w \in WorldType
  BY CoreAssumption DEF CoreAssumption, Tols
<1>1. CASE SetMap
  BY <1>0, <1>1, MapsSafe DEF SetMap, Stays
<1>2. CASE ApplyCostmapUpdate
  BY <1>0, <1>2, MapsSafe DEF ApplyCostmapUpdate, Stays
<1>3. CASE SetStart \/ ClearStart \/ ClearGoal \/ SetParameters
  BY <1>3, InputsSafe DEF SetStart, ClearStart, ClearGoal, SetParameters, Stays
<1>4. CASE TriggerEscape \/ CheckSwitchback \/ SetGoalTolerance
  BY <1>0, <1>4, InputsSafe DEF TriggerEscape, CheckSwitchback, SetGoalTolerance, Stays
<1>5. CASE SetGoal
  BY <1>0, <1>5, SetGoalSafe DEF SetGoal
<1>6. CASE PlanPath
  BY <1>0, <1>6, PlanPathSafe DEF PlanPath
<1>7. CASE UNCHANGED core
  BY <1>7
<1> QED BY <1>1, <1>2, <1>3, <1>4, <1>5, <1>6, <1>7 DEF Next

\* The invariant holds whatever is called, in any order.
THEOREM SafeAlways == Spec => []CoreInv
BY InitSafe, NextSafe, PTL DEF Spec

\* The object keeps its type, whatever is called on it.
THEOREM TypeCorrect == Spec => []TypeOK
<1>1. CoreInv => TypeOK
  BY DEF CoreInv, Safe, TypeOK
<1> QED BY <1>1, SafeAlways, PTL

\* Outside a temporary escape the planner plans to the pose it was given.
THEOREM PursuesWhatWasGiven == Spec => []PursuesGivenGoal
<1>1. CoreInv => PursuesGivenGoal
  BY DEF CoreInv, Safe, GoalOK, PursuesGivenGoal
<1> QED BY <1>1, SafeAlways, PTL

\* The planner never finishes at a temporary goal.
THEOREM FinishesWhereGiven == Spec => []FinishesAtGivenGoal
<1>1. CoreInv => FinishesAtGivenGoal
  BY DEF CoreInv, Safe, GoalOK, FinishesAtGivenGoal
<1> QED BY <1>1, SafeAlways, PTL

\* A goal that is pursued is a pose, and the planner is not DONE.
THEOREM PursuedGoalIsActive == Spec => []GoalIsActive
<1>1. CoreInv => GoalIsActive
  BY DEF CoreInv, Safe, GoalOK, GoalIsActive
<1> QED BY <1>1, SafeAlways, PTL

-----------------------------------------------------------------------------
(* What a rebuilt distance map and a temporary escape leave alone *)

\* The map, the robot, the goal that was asked for and the reports are not
\* theirs to change; the status changes only to drive on instead of finishing.
Frame(c, d) ==
  /\ d.hasMap = c.hasMap /\ d.hasGoal = c.hasGoal /\ d.hasStart = c.hasStart
  /\ d.extent = c.extent /\ d.occ = c.occ /\ d.start = c.start
  /\ d.orig = c.orig /\ d.error = c.error /\ d.path = c.path
  /\ d.switchback = c.switchback
  /\ d.status = c.status \/ (c.status = "FINISHING" /\ d.status = "DOING")

\* A distance map that exists leads to the goal.
Leads(c) == c.cacheCreated => c.cacheGoal = c.goal

\* Frames compose.
LEMMA FrameTransitive ==
  ASSUME NEW c, NEW d, NEW f, Frame(c, d), Frame(d, f)
  PROVE  Frame(c, f)
BY DEF Frame

\* Rebuilding the distance map (createCostEstimCache): what it keeps, where it
\* leads, and when it ends a temporary escape: only if the temporary goal is
\* in rock, and then there is no distance map.
LEMMA BuildCacheFrame ==
  ASSUME NEW c \in CoreType
  PROVE  LET d == BuildCache(c)
         IN  /\ Frame(c, d) /\ d.status = c.status
             /\ isReadyToPlan(c) => Leads(d)
             /\ ~isEscaping(c) => ~isEscaping(d)
             /\ isEscaping(c) /\ ~isEscaping(d) =>
                  /\ isReadyToPlan(c) /\ ~d.cacheCreated
                  /\ c.raw \in c.extent /\ InRock(c, c.raw)
             /\ GoalInRock(c) => ~d.cacheCreated
<1> DEFINE e == relocateDiscretePose(c, c.raw)
           reset(n, b) == [c EXCEPT !.cacheCreated = FALSE, !.startOccupied = b,
                                    !.stuck = n]
           back == ToOriginalGoal([c EXCEPT !.cacheCreated = FALSE,
                                            !.startOccupied = FALSE])
           led == [c EXCEPT !.cacheCreated = TRUE, !.startOccupied = FALSE,
                            !.goal = e, !.cacheGoal = e]
<1> HIDE DEF e
<1>1. \A n, b : /\ Frame(c, reset(n, b)) /\ reset(n, b).status = c.status
                /\ reset(n, b).raw = c.raw /\ reset(n, b).escape = c.escape
                /\ ~reset(n, b).cacheCreated
  BY DEF Frame, CoreType, CoreFields
<1>2. /\ Frame(c, back) /\ back.status = c.status /\ back.escape = "NOT"
      /\ ~back.cacheCreated
  BY DEF Frame, CoreType, CoreFields, ToOriginalGoal
<1>3. /\ Frame(c, led) /\ led.status = c.status /\ led.raw = c.raw
      /\ led.escape = c.escape /\ led.cacheGoal = led.goal
  BY DEF Frame, CoreType, CoreFields
<1>4. BuildCache(c) =
        IF ~isReadyToPlan(c) THEN c
        ELSE IF OutOfMap(c, c.start) THEN reset(c.stuck, FALSE)
        ELSE IF InRock(c, c.start) THEN reset(CountStuck(c), TRUE)
        ELSE IF OutOfMap(c, c.raw) THEN reset(c.stuck, FALSE)
        ELSE IF InRock(c, c.raw)
          THEN IF isEscaping(c) THEN back ELSE reset(CountStuck(c), FALSE)
        ELSE led
  <2>1. \A f : [[[c EXCEPT !.cacheCreated = FALSE, !.startOccupied = FALSE]
                 EXCEPT !.stuck = f] EXCEPT !.startOccupied = TRUE] = reset(f, TRUE)
    BY DEF CoreType, CoreFields
  <2>2. [c EXCEPT !.cacheCreated = FALSE, !.startOccupied = FALSE] = reset(c.stuck, FALSE)
    BY DEF CoreType, CoreFields
  <2> HIDE DEF CoreType, CoreFields
  <2> QED BY <2>1, <2>2 DEF BuildCache, e
<1>5. Frame(c, c)
  BY DEF Frame
<1> HIDE DEF reset, back, led, CoreType, CoreFields
<1> QED
  BY <1>1, <1>2, <1>3, <1>4, <1>5
  DEF isEscaping, Leads, GoalInRock, OutOfMap

\* The map around a robot whose goal is in rock, and that can escape to w.te.
Trapped(c, w) ==
  LET s == relocateDiscretePose(c, c.start)
  IN  /\ isReadyToPlan(c) /\ TemporaryEscape /\ CrowdMode
      /\ c.start \in c.extent /\ s # NoCell /\ s \in c.extent
      /\ c.orig \in c.extent /\ InRock(c, c.orig)
      /\ w.te \in EscapeCandidates(c, s, w)

\* A pose in rock has cost 100, and a free one is relocated to itself.
LEMMA RockIsOccupied ==
  ASSUME NEW c \in CoreType, NEW p \in Cells
  PROVE  /\ InRock(c, p) => p \in c.occ
         /\ p \notin c.occ => relocateDiscretePose(c, p) = p /\ ~InRock(c, p)
BY CoreAssumption DEF InRock, relocateDiscretePose, CoreAssumption

\* What a relocation answers depends on the map only.
LEMMA SameMapSameAnswer ==
  ASSUME NEW c, NEW d, d.extent = c.extent, d.occ = c.occ
  PROVE  /\ \A p : /\ relocateDiscretePose(d, p) = relocateDiscretePose(c, p)
                   /\ InRock(d, p) <=> InRock(c, p)
         /\ \A s, w : EscapeCandidates(d, s, w) = EscapeCandidates(c, s, w)
BY DEF relocateDiscretePose, InRock, searchAvailablePos, EscapeCandidates

\* An escape to a free cell: the temporary goal is planned to, and the robot
\* does not go on finishing.
LEMMA EscapeFrame ==
  ASSUME NEW c \in CoreType, NEW te \in Cells, te \in c.extent \ c.occ,
         NEW esc \in Escapes \ {"NOT"}
  PROVE  LET d == Escape(c, te, esc)
         IN  /\ Frame(c, d) /\ isEscaping(d) /\ d.status # "FINISHING"
             /\ isReadyToPlan(c) => Leads(d)
<1> DEFINE x == [c EXCEPT !.escape = esc, !.raw = te, !.goal = te,
                          !.status = IF @ = "FINISHING" THEN "DOING" ELSE @]
<1>1. x \in CoreType /\ Frame(c, x) /\ x.status # "FINISHING"
  BY DEF CoreType, CoreFields, Frame, Pose, Statuses
<1>2. x.raw = te /\ isEscaping(x) /\ (isReadyToPlan(c) => isReadyToPlan(x))
  BY DEF CoreType, CoreFields, isEscaping, isReadyToPlan
<1>3. te \notin x.occ
  BY <1>1 DEF Frame
<1> HIDE DEF x, CoreType, CoreFields
<1>4. ~InRock(x, x.raw)
  BY <1>1, <1>2, <1>3, RockIsOccupied
<1>5. Frame(x, BuildCache(x)) /\ BuildCache(x).status = x.status
      /\ isEscaping(BuildCache(x)) /\ (isReadyToPlan(x) => Leads(BuildCache(x)))
  BY <1>1, <1>2, <1>4, BuildCacheFrame
<1> QED BY <1>1, <1>2, <1>5, FrameTransitive DEF Escape, x

\* A temporary escape, whatever the search for one answers: a robot that heads
\* for a temporary goal, while its goal has cost 100, heads for one afterwards.
LEMMA UpdateEscapeFrame ==
  ASSUME NEW c \in CoreType, NEW s, NEW w \in WorldType
  PROVE  LET d == updateTemporaryEscapeGoal(c, s, w)
         IN  /\ Frame(c, d)
             /\ isEscaping(d) \/ d.status = c.status
             /\ isReadyToPlan(c) => d = c \/ Leads(d)
             /\ isEscaping(c) /\ c.orig \in c.occ => isEscaping(d)
             /\ ~isEscaping(c) /\ isEscaping(d) /\ CrowdMode =>
                  /\ ~c.switchback /\ s \in c.extent
                  /\ w.te \in EscapeCandidates(c, s, w)
<1>0. Frame(c, c)
  BY DEF Frame
<1>1. \A te \in c.extent \ c.occ, esc \in Escapes \ {"NOT"} :
        LET d == Escape(c, te, esc)
        IN  /\ Frame(c, d) /\ isEscaping(d)
            /\ isReadyToPlan(c) => Leads(d)
  <2>1. c.extent \subseteq Cells
    BY DEF CoreType, CoreFields
  <2> QED BY <2>1, EscapeFrame
<1>2. {"WITH_IMPROVEMENT", "WITHOUT_IMPROVEMENT"} \subseteq Escapes \ {"NOT"}
  BY DEF Escapes
<1>3. LET d == EscapeToFreePose(c)
      IN  /\ Frame(c, d) /\ (d = c \/ isEscaping(d))
          /\ isReadyToPlan(c) => d = c \/ Leads(d)
  <2> DEFINE te == searchAvailablePos(c, Origin, EscRangeMin, EscRange)
  <2>1. te \in (c.extent \ c.occ) \cup {NoCell}
    BY SearchResult, CoreAssumption DEF CoreAssumption
  <2> HIDE DEF te
  <2> QED BY <1>0, <1>1, <1>2, <2>1 DEF EscapeToFreePose, te
<1>4. LET d == EscapeInCrowd(c, s, w)
      IN  /\ Frame(c, d)
          /\ isEscaping(d) \/ d.status = c.status
          /\ isReadyToPlan(c) => d = c \/ Leads(d)
          /\ isEscaping(c) /\ c.orig \in c.occ => isEscaping(d)
          /\ ~isEscaping(c) /\ isEscaping(d) =>
               s \in c.extent /\ w.te \in EscapeCandidates(c, s, w)
  <2> DEFINE o == ToOriginalGoal(c)
  <2>1. /\ o \in CoreType /\ Frame(c, o) /\ o.status = c.status /\ ~isEscaping(o)
        /\ isReadyToPlan(c) => isReadyToPlan(o)
    BY DEF CoreType, CoreFields, Frame, ToOriginalGoal, isEscaping, isReadyToPlan, Escapes
  <2> HIDE DEF o, CoreType, CoreFields
  <2>2. LET d == BuildCache(o)
        IN  /\ Frame(c, d) /\ d.status = c.status /\ ~isEscaping(d)
            /\ isReadyToPlan(c) => Leads(d)
    BY <2>1, BuildCacheFrame, FrameTransitive
  <2>3. w.te \in EscapeCandidates(c, s, w) => w.te \in c.extent \ c.occ
    BY DEF EscapeCandidates
  <2>4. OriginalGoalArrivable(c, s, w) => c.orig \notin c.occ
    BY DEF OriginalGoalArrivable
  <2> QED BY <1>0, <1>1, <1>2, <2>2, <2>3, <2>4 DEF EscapeInCrowd, OutOfMap, o
<1> QED BY <1>0, <1>3, <1>4 DEF updateTemporaryEscapeGoal

\* createCostEstimCache: it escapes from the goal's rock only if there is
\* somewhere to go, and ends an escape only without a distance map.
LEMMA CreateCacheFrame ==
  ASSUME NEW c \in CoreType, GoalOK(c), NEW w \in WorldType
  PROVE  LET d == createCostEstimCache(c, w)
         IN  /\ Frame(c, d)
             /\ isEscaping(d) \/ d.status = c.status
             /\ isReadyToPlan(c) => Leads(d)
             /\ isEscaping(c) /\ ~isEscaping(d) => ~d.cacheCreated
             /\ ~isEscaping(c) /\ isEscaping(d) =>
                  Trapped(c, w) /\ ~c.switchback
<1> DEFINE b == BuildCache(c)
           s == relocateDiscretePose(c, c.start)
           d == updateTemporaryEscapeGoal(b, s, w)
<1>1. /\ b \in CoreType /\ Frame(c, b) /\ b.status = c.status
      /\ isReadyToPlan(c) => Leads(b)
      /\ ~isEscaping(c) => ~isEscaping(b)
      /\ isEscaping(c) /\ ~isEscaping(b) => ~b.cacheCreated
      /\ GoalInRock(c) => ~b.cacheCreated
  BY BuildCacheFrame, BuildCacheKeeps DEF Keeps
<1> HIDE DEF b, CoreType, CoreFields
<1>2. /\ Frame(b, d)
      /\ isEscaping(d) \/ d.status = b.status
      /\ isReadyToPlan(b) => d = b \/ Leads(d)
      /\ ~isEscaping(b) /\ isEscaping(d) /\ CrowdMode =>
           /\ ~b.switchback /\ s \in b.extent
           /\ w.te \in EscapeCandidates(b, s, w)
  BY <1>1, UpdateEscapeFrame
<1>3. Frame(c, d) /\ (isReadyToPlan(c) => isReadyToPlan(b))
      /\ EscapeCandidates(b, s, w) = EscapeCandidates(c, s, w)
  BY <1>1, <1>2, FrameTransitive, SameMapSameAnswer DEF Frame, isReadyToPlan
<1>4. CASE GoalInRock(c) /\ TemporaryEscape /\ CrowdMode
  <2>1. createCostEstimCache(c, w) = d /\ ~isEscaping(c) /\ ~isEscaping(b)
    BY <1>1, <1>4 DEF createCostEstimCache, b, GoalInRock
  <2>2. isEscaping(d) => Trapped(c, w) /\ ~c.switchback
    <3> SUFFICES ASSUME isEscaping(d) PROVE Trapped(c, w) /\ ~c.switchback
      OBVIOUS
    <3>1. c.raw = c.orig
      BY <1>4 DEF GoalInRock, GoalOK, isReadyToPlan
    <3>2. s \in c.extent /\ w.te \in EscapeCandidates(c, s, w) /\ ~c.switchback
      BY <1>1, <1>2, <1>3, <1>4, <2>1 DEF Frame
    <3> QED BY <1>4, <3>1, <3>2
            DEF Trapped, GoalInRock, OutOfMap, InRock
  <2> HIDE DEF d
  <2> QED BY <1>1, <1>2, <1>3, <2>1, <2>2
<1>5. CASE ~(GoalInRock(c) /\ TemporaryEscape /\ CrowdMode)
  BY <1>1, <1>5 DEF createCostEstimCache, b
<1> QED BY <1>4, <1>5

\* A robot that could escape before, and still heads for the goal in rock,
\* escapes again: nothing in between changes the map.
LEMMA TrappedEscapes ==
  ASSUME NEW c \in CoreType, GoalOK(c), NEW w \in WorldType,
         Trapped(c, w), ~c.switchback, ~isEscaping(c)
  PROVE  isEscaping(createCostEstimCache(c, w))
<1> DEFINE b == BuildCache(c)
           s == relocateDiscretePose(c, c.start)
<1>1. /\ b \in CoreType /\ Frame(c, b) /\ ~isEscaping(b)
  BY BuildCacheFrame, BuildCacheKeeps DEF Keeps
<1>2. /\ isReadyToPlan(c) /\ c.raw = c.orig /\ c.orig \in Cells
      /\ c.orig \in c.occ /\ GoalInRock(c)
  <2>1. isReadyToPlan(c) /\ c.raw = c.orig /\ c.orig \in Cells
    BY DEF Trapped, GoalOK, isReadyToPlan
  <2> QED BY <2>1, RockIsOccupied DEF Trapped, GoalInRock, OutOfMap, InRock
<1> HIDE DEF b, CoreType, CoreFields
<1>3. isReadyToPlan(b) /\ ~b.switchback /\ ~OutOfMap(b, s) /\ b.orig \in b.occ
      /\ w.te \in EscapeCandidates(b, s, w) /\ w.te \in b.extent \ b.occ
  BY <1>1, <1>2, SameMapSameAnswer
  DEF Frame, Trapped, isReadyToPlan, OutOfMap, EscapeCandidates
<1>4. \A esc \in Escapes \ {"NOT"} : isEscaping(Escape(b, w.te, esc))
  BY <1>1, <1>3, EscapeFrame DEF WorldType
<1>5. isEscaping(EscapeInCrowd(b, s, w))
  <2>1. {"WITH_IMPROVEMENT", "WITHOUT_IMPROVEMENT"} \subseteq Escapes \ {"NOT"}
    BY DEF Escapes
  <2>2. ~OriginalGoalArrivable(b, s, w)
    BY <1>3 DEF OriginalGoalArrivable
  <2> QED BY <1>3, <1>4, <2>1, <2>2 DEF EscapeInCrowd
<1> QED BY <1>2, <1>3, <1>5
        DEF createCostEstimCache, updateTemporaryEscapeGoal, b, Trapped

-----------------------------------------------------------------------------
(* The distance map after a costmap update *)

\* applyCostmapUpdate leaves a distance map to the goal, by its fast path or
\* by creating it again, whatever the map led to before.
LEMMA UpdateLeads ==
  ASSUME NEW c, Safe(c), isReadyToPlan(c), NEW occ \in SUBSET Cells,
         NEW w \in WorldType
  PROVE  Leads(applyCostmapUpdate(c, TRUE, occ, w))
<1> DEFINE u == [c EXCEPT !.occ = occ \cap c.extent]
<1>1. u \in CoreType /\ GoalOK(u) /\ isReadyToPlan(u)
  BY DEF Safe, GoalOK, CoreType, CoreFields, isEscaping, isReadyToPlan
<1>2. Leads([u EXCEPT !.cacheGoal = u.goal])
  BY <1>1 DEF Leads, CoreType, CoreFields
<1> HIDE DEF u
<1>3. Leads(createCostEstimCache(u, w))
  BY <1>1, CreateCacheFrame
<1> QED BY <1>2, <1>3 DEF applyCostmapUpdate, u, isReadyToPlan

\* A costmap update repairs the distance map, whatever was called before it.
THEOREM UpdatesHeal == Spec => []UpdateHealsCache
<1>1. CoreInv => UpdateHealsCache
  <2>1. /\ \A o \in Obstacles : o \in SUBSET Cells
        /\ \A w \in Worlds : w \in WorldType
    BY CoreAssumption DEF CoreAssumption
  <2> QED BY <2>1, UpdateLeads DEF CoreInv, UpdateHealsCache, Leads
<1> QED BY <1>1, SafeAlways, PTL

-----------------------------------------------------------------------------
(* A planning cycle: what becomes of a detour *)

\* A call that neither takes nor drops a goal: it keeps the pose asked for, it
\* finishes a detour without finishing at the same time, and it stops
\* finishing only for a detour.
Pursues(c, d) ==
  /\ d.hasGoal = c.hasGoal /\ d.orig = c.orig
  /\ ~isEscaping(d) =>
       IF isEscaping(c) THEN d.status = c.status
       ELSE c.status = "FINISHING" => d.status = "FINISHING"

\* A map around the robot in which it is trapped is still one after a call that
\* leaves the map, the robot and the goal alone.
LEMMA TrappedStays ==
  ASSUME NEW c, NEW d, NEW w, Trapped(c, w), d.extent = c.extent, d.occ = c.occ,
         d.start = c.start, d.orig = c.orig, isReadyToPlan(d)
  PROVE  Trapped(d, w)
BY SameMapSameAnswer DEF Trapped

\* preparePlanCycle: the only way it starts a detour is out of the goal's rock,
\* and a detour it ends leaves no distance map.
LEMMA PrepareFrame ==
  ASSUME NEW c, Safe(c), NEW old \in BOOLEAN, NEW w \in WorldType
  PROVE  LET p == preparePlanCycle(c, old, w)
         IN  /\ Pursues(c, p)
             /\ isEscaping(c) /\ ~isEscaping(p) => ~p.cacheCreated
             /\ ~isEscaping(c) /\ isEscaping(p) /\ isReadyToPlan(p) => Trapped(p, w)
             /\ isEscaping(p) \/ p.status = c.status
             /\ isReadyToPlan(p) <=> isReadyToPlan(c)
             /\ p.status = c.status \/ (c.status = "FINISHING" /\ p.status = "DOING")
<1> DEFINE q == IF c.hasMap /\ ~c.cacheCreated /\ c.hasGoal
                THEN createCostEstimCache(c, w) ELSE c
           p == preparePlanCycle(c, old, w)
<1>1. /\ q \in CoreType /\ Frame(c, q)
      /\ isEscaping(q) \/ q.status = c.status
      /\ isEscaping(c) /\ ~isEscaping(q) => ~q.cacheCreated
      /\ ~isEscaping(c) /\ isEscaping(q) => Trapped(c, w)
  <2>1. Frame(c, c)
    BY DEF Frame
  <2> QED BY <2>1, CreateCacheFrame, CreateCacheKeeps DEF Safe, Keeps
<1>2. /\ p.hasMap = q.hasMap /\ p.hasGoal = q.hasGoal /\ p.hasStart = q.hasStart
      /\ p.extent = q.extent /\ p.occ = q.occ /\ p.start = q.start
      /\ p.orig = q.orig /\ p.escape = q.escape /\ p.status = q.status
      /\ p.cacheCreated = q.cacheCreated
  <2>1. p = [q EXCEPT !.error = p.error, !.path = p.path]
    <3> HIDE DEF q
    <3>1. \A e, f : LET r == [q EXCEPT !.error = e, !.path = f]
                    IN  r.error = e /\ r.path = f
      BY <1>1 DEF CoreType, CoreFields
    <3>2. \E e, f : preparePlanCycle(c, old, w) = [q EXCEPT !.error = e, !.path = f]
      BY DEF preparePlanCycle, q
    <3> QED BY <3>1, <3>2
  <2> HIDE DEF p, q
  <2> QED BY <1>1, <2>1 DEF CoreType, CoreFields
<1>3. isEscaping(p) <=> isEscaping(q)
  BY <1>2 DEF isEscaping
<1>4. isReadyToPlan(p) <=> isReadyToPlan(c)
  BY <1>1, <1>2 DEF Frame, isReadyToPlan
<1>5. ~isEscaping(c) /\ isEscaping(p) /\ isReadyToPlan(p) => Trapped(p, w)
  <2> HIDE DEF p, q
  <2> QED BY <1>1, <1>2, <1>3, TrappedStays DEF Frame
<1> HIDE DEF p, q
<1>6. Pursues(c, p)
  BY <1>1, <1>2, <1>3 DEF Pursues, Frame
<1> QED BY <1>1, <1>2, <1>3, <1>4, <1>5, <1>6 DEF p, Frame

\* makePlan: what becomes of a detour, and what it reports with an empty path.
LEMMA MakePlanFrame ==
  ASSUME NEW c, Safe(c), c.hasGoal, ~c.switchback, NEW w \in WorldType
  PROVE  LET m == makePlan(c, w)
         IN  /\ Pursues(c, m)
             /\ isEscaping(c) /\ Trapped(c, w) => isEscaping(m)
             /\ ~isEscaping(c) /\ m.path = "empty" /\ m.error = "GOING_WELL"
                  => m.status = "FINISHING"
<1> DEFINE t == IF NearGoal(c, w) THEN [c EXCEPT !.tol = "none"] ELSE c
           Good(m) == /\ Pursues(c, m)
                      /\ isEscaping(c) /\ Trapped(c, w) => isEscaping(m)
                      /\ ~isEscaping(c) /\ m.path = "empty" /\ m.error = "GOING_WELL"
                           => m.status = "FINISHING"
<1>1. Good(Stop(c, "IN_ROCK"))
  BY DEF Stop, Safe, CoreType, CoreFields, Pursues, isEscaping
<1>2. ASSUME isEscaping(c)
      PROVE  Good(createCostEstimCache([ToOriginalGoal(c) EXCEPT !.path = "empty"], w))
  <2> DEFINE o == [ToOriginalGoal(c) EXCEPT !.path = "empty"]
             d == createCostEstimCache(o, w)
  <2>1. /\ o \in CoreType /\ GoalOK(o) /\ ~isEscaping(o) /\ ~o.switchback
        /\ o.extent = c.extent /\ o.occ = c.occ /\ o.start = c.start
        /\ o.orig = c.orig /\ o.status = c.status /\ o.hasGoal = c.hasGoal
        /\ isReadyToPlan(c) => isReadyToPlan(o)
    BY DEF ToOriginalGoal, Safe, GoalOK, CoreType, CoreFields, isEscaping, Escapes, isReadyToPlan
  <2> HIDE DEF o, CoreType, CoreFields
  <2>2. Frame(o, d) /\ (isEscaping(d) \/ d.status = o.status)
    BY <2>1, CreateCacheFrame
  <2>3. ASSUME Trapped(c, w) PROVE isEscaping(d)
    <3>1. Trapped(o, w)
      BY <2>1, <2>3, TrappedStays DEF Trapped
    <3> QED BY <2>1, <3>1, TrappedEscapes
  <2> HIDE DEF d
  <2>4. Good(d)
    BY <1>2, <2>1, <2>2, <2>3 DEF Frame, Pursues
  <2> QED BY <2>4 DEF d, o
<1>3. ASSUME ~isEscaping(c)
      PROVE  Good([c EXCEPT !.status = "FINISHING", !.path = "empty"])
  BY <1>3 DEF Pursues, Safe, CoreType, CoreFields, isEscaping
<1>4. /\ t \in CoreType /\ ~t.switchback
      /\ t.orig = c.orig /\ t.hasGoal = c.hasGoal /\ t.escape = c.escape
      /\ t.status = c.status /\ t.occ = c.occ
  BY DEF Safe, CoreType, CoreFields, Tols
<1>5. \A s : Good(SearchPath(t, s, w))
  <2> DEFINE n == Stop(t, "PATH_NOT_FOUND")
             d == updateTemporaryEscapeGoal(n, t.start, w)
  <2> HIDE DEF t
  <2>1. /\ n \in CoreType /\ n.error = "PATH_NOT_FOUND"
        /\ n.orig = c.orig /\ n.hasGoal = c.hasGoal /\ n.escape = c.escape
        /\ n.status = c.status /\ n.occ = c.occ
    BY <1>4 DEF Stop, CoreType, CoreFields, Errors
  <2> HIDE DEF n
  <2>2. /\ Frame(n, d) /\ (isEscaping(d) \/ d.status = n.status)
        /\ isEscaping(n) /\ n.orig \in n.occ => isEscaping(d)
    BY <2>1, UpdateEscapeFrame
  <2>3. Trapped(c, w) => n.orig \in n.occ
    <3> SUFFICES ASSUME Trapped(c, w) PROVE n.orig \in n.occ
      OBVIOUS
    <3>1. c \in CoreType /\ c.orig \in Cells /\ InRock(c, c.orig)
      BY DEF Trapped, Safe, GoalOK
    <3> QED BY <2>1, <3>1, RockIsOccupied
  <2> HIDE DEF d
  <2>4. Good(d) /\ Good(n)
    BY <2>1, <2>2, <2>3 DEF Frame, Pursues, isEscaping
  <2>5. \A e \in {t.error, "PATH_NOT_FOUND"} :
          Good([t EXCEPT !.path = "plan", !.error = e])
    BY <1>4 DEF Pursues, CoreType, CoreFields, isEscaping
  <2>6. [t EXCEPT !.path = "plan"] = [t EXCEPT !.path = "plan", !.error = t.error]
    BY <1>4 DEF CoreType, CoreFields
  <2> HIDE DEF Good
  <2> QED BY <2>4, <2>5, <2>6 DEF SearchPath, n, d
<1> HIDE DEF t, Good
<1>6. Good(makePlan(c, w))
  BY <1>1, <1>2, <1>3, <1>5 DEF makePlan, t
<1> QED BY <1>6 DEF Good

\* runPlanCycle: a goal that is kept is the one asked for, a robot that is
\* trapped keeps its detour, and without a distance map nothing is decided.
LEMMA RunFrame ==
  ASSUME NEW c, Safe(c), c.hasGoal, NEW w \in WorldType
  PROVE  LET d == runPlanCycle(c, w)
         IN  /\ d.hasGoal => Pursues(c, d)
             /\ d.hasGoal /\ isEscaping(c) /\ Trapped(c, w) => isEscaping(d)
             /\ d.hasGoal /\ ~c.cacheCreated =>
                  d.status = c.status /\ d.escape = c.escape
             /\ /\ c.status = "DOING" /\ ~isEscaping(d)
                /\ isEscaping(c) => Trapped(c, w)
                /\ d.error = "GOING_WELL" /\ d.path = "empty"
                => d.status = "FINISHING"
<1> DEFINE Good(d) ==
             /\ d.hasGoal => Pursues(c, d)
             /\ d.hasGoal /\ isEscaping(c) /\ Trapped(c, w) => isEscaping(d)
             /\ d.hasGoal /\ ~c.cacheCreated =>
                  d.status = c.status /\ d.escape = c.escape
             /\ /\ c.status = "DOING" /\ ~isEscaping(d)
                /\ isEscaping(c) => Trapped(c, w)
                /\ d.error = "GOING_WELL" /\ d.path = "empty"
                => d.status = "FINISHING"
           b == [c EXCEPT !.switchback = FALSE]
           g == [b EXCEPT !.error = "GOING_WELL"]
           m == makePlan(g, w)
<1>1. /\ Safe(b) /\ Safe(g) /\ b.hasGoal /\ g.hasGoal /\ ~g.switchback
      /\ g.orig = c.orig /\ g.escape = c.escape /\ g.status = c.status
      /\ b.orig = c.orig /\ b.escape = c.escape /\ b.status = c.status
      /\ b.path = c.path /\ b.cacheCreated = c.cacheCreated /\ b.hasGoal = c.hasGoal
      /\ Trapped(c, w) => Trapped(g, w)
  <2>1. /\ Safe(b) /\ Safe(g) /\ b.hasGoal /\ g.hasGoal /\ ~g.switchback
        /\ g.orig = c.orig /\ g.escape = c.escape /\ g.status = c.status
        /\ b.orig = c.orig /\ b.escape = c.escape /\ b.status = c.status
        /\ b.path = c.path /\ b.cacheCreated = c.cacheCreated /\ b.hasGoal = c.hasGoal
    <3>1. Safe(b) /\ Safe(g) /\ b.hasGoal /\ g.hasGoal
      BY CycleStarts
    <3> QED BY <3>1 DEF Safe, CoreType, CoreFields
  <2>2. /\ g.extent = c.extent /\ g.occ = c.occ /\ g.start = c.start
        /\ isReadyToPlan(c) => isReadyToPlan(g)
    BY DEF Safe, CoreType, CoreFields, isReadyToPlan
  <2> HIDE DEF b, g
  <2> QED BY <2>1, <2>2, TrappedStays DEF Trapped
<1>2. Good([b EXCEPT !.status = "DONE", !.hasGoal = FALSE])
      \/ planCycleResult(b, w) # "GOAL_REACHED"
  BY <1>1 DEF Safe, CoreType, CoreFields, planCycleResult
<1>3. c.status = "FINISHING" => Good([b EXCEPT !.path = "finish"])
  <2> SUFFICES ASSUME c.status = "FINISHING" PROVE Good([b EXCEPT !.path = "finish"])
    OBVIOUS
  <2>1. ~isEscaping(c)
    BY DEF Safe, GoalOK
  <2> QED BY <1>1, <2>1 DEF Safe, CoreType, CoreFields, Pursues, isEscaping
<1>4. \A e \in Errors \ {"GOING_WELL"} :
        /\ Good(Stop(b, e))
        /\ Good([Stop(b, e) EXCEPT !.status = "DONE", !.hasGoal = FALSE])
  <2> TAKE e \in Errors \ {"GOING_WELL"}
  <2> DEFINE d == Stop(b, e)
             o == [Stop(b, e) EXCEPT !.status = "DONE", !.hasGoal = FALSE]
  <2>1. /\ d.hasGoal /\ d.orig = c.orig /\ d.escape = c.escape /\ d.status = c.status
        /\ d.error # "GOING_WELL"
    BY <1>1 DEF Stop, Safe, CoreType, CoreFields
  <2>2. ~o.hasGoal /\ o.error # "GOING_WELL"
    BY <1>1 DEF Stop, Safe, CoreType, CoreFields
  <2> HIDE DEF b, g, d, o
  <2>3. Good(d) /\ Good(o)
    BY <2>1, <2>2 DEF Pursues, isEscaping
  <2> QED BY <2>3 DEF d, o
<1> HIDE DEF b
<1>5. ASSUME c.cacheCreated PROVE Good(Planned(g, w))
  <2>1. /\ Stays(g, m) /\ Pursues(g, m)
        /\ isEscaping(g) /\ Trapped(g, w) => isEscaping(m)
        /\ ~isEscaping(g) /\ m.path = "empty" /\ m.error = "GOING_WELL"
             => m.status = "FINISHING"
    <3> HIDE DEF g
    <3> QED BY <1>1, MakePlanSafe, MakePlanFrame
  <2> DEFINE d == Planned(g, w)
  <2>2. /\ d.hasGoal = m.hasGoal /\ d.orig = m.orig /\ d.escape = m.escape
        /\ d.status = m.status /\ d.path = m.path
        /\ ~isEscaping(g) /\ ~isEscaping(m) => d.error = m.error
    <3> HIDE DEF m, g
    <3>1. \A sw, e : LET r == [m EXCEPT !.switchback = sw, !.error = e]
                     IN  /\ r.hasGoal = m.hasGoal /\ r.orig = m.orig
                         /\ r.escape = m.escape /\ r.status = m.status
                         /\ r.path = m.path /\ r.error = e
      BY <2>1 DEF Stays, Safe, CoreType, CoreFields
    <3>2. \E sw : d = [m EXCEPT !.switchback = sw,
                         !.error = IF isEscaping(m) \/ isEscaping(g)
                                   THEN EscapeError(m.escape, g.escape) ELSE m.error]
      BY DEF Planned, AfterPlan, m
    <3> HIDE DEF d
    <3> QED BY <3>1, <3>2
  <2> HIDE DEF d, m
  <2>3. isEscaping(g) <=> isEscaping(c)
    BY <1>1 DEF isEscaping
  <2>4. isEscaping(d) <=> isEscaping(m)
    BY <2>2 DEF isEscaping
  <2>5. Good(d)
    <3> HIDE DEF g
    <3> QED BY <1>1, <1>5, <2>1, <2>2, <2>3, <2>4 DEF Pursues
  <2> QED BY <2>5 DEF d
<1>6. Good(runPlanCycle(c, w))
  <2> DEFINE r == planCycleResult(b, w)
             wait == b.status = "FINISHING" /\ ~w.aligned
             d == runPlanCycle(c, w)
             over == [Stop(b, "PATH_NOT_FOUND") EXCEPT !.status = "DONE", !.hasGoal = FALSE]
  <2>1. /\ r \in {"GOAL_REACHED", "ABORT_MAX_RETRY", "NONE"}
        /\ wait => r = "NONE"
    BY DEF planCycleResult
  <2>2. /\ Good(Stop(b, "IN_ROCK")) /\ Good(Stop(b, "PATH_NOT_FOUND")) /\ Good(over)
    <3>1. {"IN_ROCK", "PATH_NOT_FOUND"} \subseteq Errors \ {"GOING_WELL"}
      BY DEF Errors
    <3> HIDE DEF Good
    <3> QED BY <1>4, <3>1
  <2> HIDE DEF r, wait, Good
  <2>3. CASE r = "GOAL_REACHED"
    <3>1. d = [b EXCEPT !.status = "DONE", !.hasGoal = FALSE]
      BY <2>1, <2>3 DEF runPlanCycle, b, r, wait
    <3> HIDE DEF d
    <3> QED BY <1>2, <2>3, <3>1 DEF r, d
  <2>4. CASE wait
    <3>1. d = [b EXCEPT !.path = "finish"]
      BY <2>1, <2>4 DEF runPlanCycle, b, r, wait
    <3> HIDE DEF d
    <3> QED BY <1>1, <1>3, <2>4, <3>1 DEF wait, d
  <2>5. CASE r = "ABORT_MAX_RETRY"
    <3>1. d = over
      BY <2>1, <2>5 DEF runPlanCycle, b, r, wait
    <3> HIDE DEF d, over
    <3> QED BY <2>2, <3>1 DEF d
  <2>6. CASE r = "NONE" /\ ~wait
    <3>1. d = IF ~b.cacheCreated
              THEN Stop(b, IF b.startOccupied THEN "IN_ROCK" ELSE "PATH_NOT_FOUND")
              ELSE Planned(g, w)
      BY <2>6 DEF runPlanCycle, b, r, wait
    <3> HIDE DEF d, g
    <3> QED BY <1>1, <1>5, <2>2, <3>1 DEF d
  <2> QED BY <2>1, <2>3, <2>4, <2>5, <2>6
<1> QED BY <1>6 DEF Good

\* The core after a whole planning cycle: a goal that is kept is pursued, and a
\* detour that preparePlanCycle starts is not dropped by the plan that follows.
LEMMA PlanPathPursues ==
  ASSUME NEW c, Safe(c), NEW old \in BOOLEAN, NEW w \in WorldType
  PROVE  /\ planPath(c, old, w).hasGoal => Pursues(c, planPath(c, old, w))
         /\ planPath(c, old, w).hasGoal => c.hasGoal
<1> DEFINE p == preparePlanCycle(c, old, w)
           d == runPlanCycle(p, w)
<1>1. Safe(p) /\ Stays(c, p)
  BY PlanCycleSafe DEF Stays
<1>2. /\ Pursues(c, p)
      /\ isEscaping(c) /\ ~isEscaping(p) => ~p.cacheCreated
      /\ ~isEscaping(c) /\ isEscaping(p) /\ isReadyToPlan(p) => Trapped(p, w)
      /\ isEscaping(p) \/ p.status = c.status
      /\ p.status = c.status \/ (c.status = "FINISHING" /\ p.status = "DOING")
  BY PrepareFrame
<1> HIDE DEF p
<1>3. handleNoGoal(p).hasGoal = p.hasGoal
  BY <1>1 DEF handleNoGoal, Safe, CoreType, CoreFields
<1>4. CASE CycleRuns(p, old)
  <2>1. p.hasGoal /\ isReadyToPlan(p)
    BY <1>4 DEF CycleRuns, isReadyToPlan
  <2>2. /\ d.hasGoal => Pursues(p, d)
        /\ d.hasGoal /\ isEscaping(p) /\ Trapped(p, w) => isEscaping(d)
        /\ d.hasGoal /\ ~p.cacheCreated => d.status = p.status /\ d.escape = p.escape
    BY <1>1, <2>1, RunFrame
  <2>3. /\ isEscaping(p) => p.status # "FINISHING"
        /\ isEscaping(c) => c.status # "FINISHING"
    BY <1>1, <2>1 DEF Safe, GoalOK, Stays
  <2>4. planPath(c, old, w) = d
    BY <1>4 DEF planPath, RunPrepared, p
  <2> HIDE DEF d
  <2>5. d.hasGoal => Pursues(c, d)
    BY <1>1, <1>2, <2>1, <2>2, <2>3 DEF Pursues, isEscaping
  <2> QED BY <1>1, <2>1, <2>4, <2>5 DEF Stays
<1>5. CASE ~CycleRuns(p, old)
  BY <1>1, <1>2, <1>3, <1>5 DEF planPath, RunPrepared, p, Stays
<1> QED BY <1>4, <1>5

\* A planning cycle that could not plan does not report GOING_WELL.
LEMMA PlanPathReports ==
  ASSUME NEW c, Safe(c), CycleRuns(c, FALSE), c.status = "DOING", ~isEscaping(c),
         NEW w \in WorldType,
         planPath(c, FALSE, w).error = "GOING_WELL",
         planPath(c, FALSE, w).path = "empty",
         ~isEscaping(planPath(c, FALSE, w))
  PROVE  planPath(c, FALSE, w).status = "FINISHING"
<1> DEFINE p == preparePlanCycle(c, FALSE, w)
<1>1. Safe(p) /\ p.hasGoal
  BY PlanCycleSafe DEF Stays, CycleRuns, isReadyToPlan
<1>2. /\ CycleRuns(p, FALSE)
      /\ isEscaping(p) => Trapped(p, w)
      /\ p.status = "DOING"
  <2>1. /\ isReadyToPlan(p)
        /\ isEscaping(p) => Trapped(p, w)
        /\ isEscaping(p) \/ p.status = c.status
        /\ p.status = c.status \/ (c.status = "FINISHING" /\ p.status = "DOING")
    BY PrepareFrame DEF CycleRuns
  <2> HIDE DEF p
  <2>2. p.status \in Statuses /\ p.status # "DONE"
    BY <1>1 DEF Safe, CoreType, CoreFields
  <2> QED BY <2>1, <2>2 DEF CycleRuns, hasCostmap, Statuses
<1>3. planPath(c, FALSE, w) = runPlanCycle(p, w)
  BY <1>2 DEF planPath, RunPrepared
<1> HIDE DEF p
<1> QED BY <1>1, <1>2, <1>3, RunFrame

\* GOING_WELL without a path is only reported by a planner that finishes.
THEOREM ReportsTrouble == Spec => []GoingWellMeansMoving
<1>1. CoreInv => GoingWellMeansMoving
  <2>1. \A w \in Worlds : w \in WorldType
    BY CoreAssumption DEF CoreAssumption
  <2> QED BY <2>1, PlanPathReports DEF CoreInv, GoingWellMeansMoving
<1> QED BY <1>1, SafeAlways, PTL

-----------------------------------------------------------------------------
(* The core implements GoalPursuit *)

\* The robot's pose, the tolerance and the parameters are not the goal.
LEMMA InputsPursue ==
  ASSUME NEW c, Safe(c)
  PROVE  /\ \A s \in Cells : Pursues(c, setStart(c, s))
         /\ Pursues(c, clearStart(c)) /\ Pursues(c, setParameters(c))
         /\ \A tol \in Tols : Pursues(c, setGoalTolerance(c, tol))
         /\ \A w : Pursues(c, checkSwitchbackArrival(c, w))
BY DEF Safe, CoreType, CoreFields, Pursues, isEscaping, setStart, clearStart, setParameters,
       setGoalTolerance, checkSwitchbackArrival

\* Neither costmaps nor requests to escape touch the goal asked for or finish
\* at it.
LEMMA MapsPursue ==
  ASSUME NEW c, Safe(c), NEW occ \in SUBSET Cells, NEW w \in WorldType
  PROVE  /\ \A extent \in SUBSET Cells : Pursues(c, setMap(c, extent, occ, w))
         /\ Pursues(c, applyCostmapUpdate(c, TRUE, occ, w))
         /\ Pursues(c, triggerTemporaryEscape(c, w))
<1>1. ASSUME NEW x, x \in CoreType, GoalOK(x), x.hasGoal = c.hasGoal, x.orig = c.orig,
             x.escape = c.escape, x.status = c.status
      PROVE  Pursues(c, createCostEstimCache(x, w)) /\ Pursues(c, x)
  <2> DEFINE d == createCostEstimCache(x, w)
  <2>1. Frame(x, d) /\ (isEscaping(d) \/ d.status = x.status)
    BY <1>1, CreateCacheFrame
  <2> HIDE DEF CoreType, CoreFields, d
  <2>2. Pursues(c, d) /\ Pursues(c, x)
    BY <1>1, <2>1 DEF Frame, Pursues, isEscaping
  <2> QED BY <2>2 DEF d
<1>2. ASSUME NEW extent \in SUBSET Cells
      PROVE  Pursues(c, setMap(c, extent, occ, w))
  <2> DEFINE x == [c EXCEPT !.path = "empty", !.hasMap = TRUE, !.extent = extent,
                            !.occ = occ \cap extent, !.cacheGoal = NoCell]
  <2>1. x \in CoreType /\ GoalOK(x) /\ x.hasGoal = c.hasGoal /\ x.orig = c.orig
        /\ x.escape = c.escape /\ x.status = c.status
    BY DEF Safe, GoalOK, CoreType, CoreFields, isEscaping, Pose
  <2> HIDE DEF x
  <2> QED BY <1>1, <2>1 DEF setMap, x
<1>3. Pursues(c, applyCostmapUpdate(c, TRUE, occ, w))
  <2> DEFINE u == [c EXCEPT !.occ = occ \cap c.extent]
  <2>1. u \in CoreType /\ GoalOK(u) /\ u.hasGoal = c.hasGoal /\ u.orig = c.orig
        /\ u.escape = c.escape /\ u.status = c.status
    BY DEF Safe, GoalOK, CoreType, CoreFields, isEscaping
  <2>2. Pursues(c, [u EXCEPT !.cacheGoal = u.goal])
    BY <2>1 DEF CoreType, CoreFields, Pursues, isEscaping
  <2> HIDE DEF u
  <2> QED BY <1>1, <2>1, <2>2 DEF applyCostmapUpdate, u
<1>4. Pursues(c, triggerTemporaryEscape(c, w))
  <2> DEFINE d == updateTemporaryEscapeGoal(c, c.start, w)
  <2>1. Frame(c, d) /\ (isEscaping(d) \/ d.status = c.status) /\ Pursues(c, c)
    BY UpdateEscapeFrame DEF Safe, Pursues
  <2> HIDE DEF d
  <2> QED BY <2>1 DEF triggerTemporaryEscape, d, Frame, Pursues
<1> QED BY <1>2, <1>3, <1>4

\* A goal setGoal leaves pursued is the one it was called with.
LEMMA SetGoalAccepts ==
  ASSUME NEW c, Safe(c), NEW g \in Cells, NEW normal \in BOOLEAN, NEW w \in WorldType,
         setGoal(c, g, TRUE, normal, w).hasGoal
  PROVE  /\ setGoal(c, g, TRUE, normal, w).orig = g
         /\ setGoal(c, g, TRUE, normal, w).status = "DOING"
<1> DEFINE x == NewGoal(c, g)
           n == createCostEstimCache(x, w)
           r == setGoalResult(c, g, TRUE, normal)
<1>1. x \in CoreType /\ GoalOK(x) /\ x.orig = g
  <2>1. 0 \in 0..MaxStuck
    BY CoreAssumption DEF CoreAssumption, MaxStuck
  <2> QED BY <2>1 DEF NewGoal, WithGoal, Safe, GoalOK, CoreType, CoreFields, isEscaping, Escapes, Pose
<1> HIDE DEF x
<1>2. n \in CoreType /\ n.orig = g
  BY <1>1, CreateCacheFrame, CreateCacheKeeps DEF Frame, Keeps
<1>3. /\ [n EXCEPT !.status = "DOING"].orig = g
      /\ [n EXCEPT !.status = "DOING"].status = "DOING"
      /\ ~[n EXCEPT !.hasGoal = FALSE].hasGoal
      /\ ~[WithGoal(c, g) EXCEPT !.hasGoal = FALSE].hasGoal
  <2> HIDE DEF n
  <2> QED BY <1>2 DEF WithGoal, Safe, CoreType, CoreFields
<1>4. r = IF ~normal THEN "CLEARED" ELSE IF CacheAccepted(x) THEN "ACCEPTED" ELSE "REJECTED"
  BY DEF setGoalResult, x
<1>5. setGoal(c, g, TRUE, normal, w) =
        CASE r = "ACCEPTED" -> [n EXCEPT !.status = "DOING"]
          [] FALSE -> c
          [] ~normal -> [WithGoal(c, g) EXCEPT !.hasGoal = FALSE]
          [] OTHER -> [n EXCEPT !.hasGoal = FALSE]
  BY DEF setGoal, x
<1> HIDE DEF n, r
<1> QED BY <1>3, <1>4, <1>5

\* A call that pursues the goal is a Detour, a Resume, a Finish or a stutter.
LEMMA PursuesMaps ==
  ASSUME CoreInv, CoreInv', Pursues(core, core')
  PROVE  [Pursuit!Next]_(Pursuit!vars)
<1>1. CASE ~core.hasGoal
  BY <1>1 DEF Pursues, Pursuit!vars
<1>2. CASE core.hasGoal /\ isEscaping(core')
  BY <1>2 DEF Pursues, CoreInv, Safe, GoalOK, Pursuit!Next, Pursuit!Detour, isEscaping
<1>3. CASE core.hasGoal /\ ~isEscaping(core') /\ isEscaping(core)
  BY <1>3 DEF Pursues, Pursuit!Next, Pursuit!Resume, isEscaping
<1>4. CASE core.hasGoal /\ ~isEscaping(core') /\ ~isEscaping(core)
  BY <1>4 DEF Pursues, Pursuit!Next, Pursuit!Finish, Pursuit!vars, isEscaping
<1> QED BY <1>1, <1>2, <1>3, <1>4

\* Every call is a step of GoalPursuit or changes nothing it speaks of.
LEMMA NextMaps ==
  ASSUME CoreInv, CoreInv', [Next]_core
  PROVE  [Pursuit!Next]_(Pursuit!vars)
<1>0. /\ \A e \in Extents : e \in SUBSET Cells
      /\ \A o \in Obstacles : o \in SUBSET Cells
      /\ \A t \in Tolerances : t \in Tols
      /\ \A w \in Worlds : w \in WorldType
      /\ Goals \subseteq Cells
  BY CoreAssumption DEF CoreAssumption, Tols
<1>1. ~core'.hasGoal => [Pursuit!Next]_(Pursuit!vars)
  BY DEF Pursuit!Next, Pursuit!Drop
<1>2. CASE SetMap \/ ApplyCostmapUpdate \/ TriggerEscape
  BY <1>0, <1>2, MapsPursue, PursuesMaps
  DEF CoreInv, SetMap, ApplyCostmapUpdate, TriggerEscape
<1>3. CASE SetStart \/ ClearStart \/ SetParameters \/ SetGoalTolerance \/ CheckSwitchback
  BY <1>0, <1>3, InputsPursue, PursuesMaps
  DEF CoreInv, SetStart, ClearStart, SetParameters, SetGoalTolerance, CheckSwitchback
<1>4. CASE SetGoal
  <2>1. PICK g \in Goals, normal \in BOOLEAN, w \in Worlds :
          core' = setGoal(core, g, TRUE, normal, w)
    BY <1>4 DEF SetGoal
  <2>2. core'.hasGoal => core'.orig = g /\ core'.status = "DOING"
    BY <1>0, <2>1, SetGoalAccepts DEF CoreInv
  <2>3. core'.hasGoal => Pursuit!Accept
    BY <2>2 DEF Pursuit!Accept, isEscaping
  <2> QED BY <1>1, <2>3 DEF Pursuit!Next
<1>5. CASE ClearGoal
  <2>1. ~core'.hasGoal
    BY <1>5 DEF ClearGoal, clearGoal, CoreInv, Safe, CoreType, CoreFields
  <2> QED BY <1>1, <2>1
<1>6. CASE PlanPath
  <2>1. PICK old \in BOOLEAN, w \in Worlds : core' = planPath(core, old, w)
    BY <1>6 DEF PlanPath
  <2>2. core'.hasGoal => Pursues(core, core')
    BY <1>0, <2>1, PlanPathPursues DEF CoreInv
  <2> QED BY <1>1, <2>2, PursuesMaps
<1>7. CASE UNCHANGED core
  BY <1>7 DEF Pursuit!vars
<1> QED BY <1>2, <1>3, <1>4, <1>5, <1>6, <1>7 DEF Next

\* The core implements the abstract pursuit of a goal: it finishes only for the
\* goal it was given, and once finishing drives on only for a detour.
THEOREM PursuesLikeSpecified == Spec => ImplementsPursuit
<1>1. Init => Pursuit!Init
  BY DEF Init, CoreInit, Pursuit!Init
<1>2. CoreInv /\ CoreInv' /\ [Next]_core => [Pursuit!Next]_(Pursuit!vars)
  BY NextMaps
<1> QED BY <1>1, <1>2, SafeAlways, PTL DEF Spec, ImplementsPursuit, Pursuit!Spec
=============================================================================
