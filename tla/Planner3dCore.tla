---------------------------- MODULE Planner3dCore ----------------------------
(***************************************************************************)
(* The planning logic of planner_3d (class Planner3dCore): the goal, the    *)
(* temporary escape goal, the distance map that guides the search, the      *)
(* planner status and the last published path.                              *)
(*                                                                          *)
(* The object is one record, core.  Every member function that changes it   *)
(* is an operator from a record to a record, because the interface nodes    *)
(* call several of them inside one callback; the actions at the end of this *)
(* module let a client call them one at a time, in any order.               *)
(*                                                                          *)
(* Poses are abstract cells with a distance.  What a search or a distance   *)
(* map answers is an input, a record w of Worlds:                           *)
(*   arrivable  cells connected to the robot inside the escape window       *)
(*   te         the cell with the least static cost among the candidates    *)
(*   improve    te is nearer to the original goal than the robot            *)
(*   reachable  the distance map has a finite cost at the robot             *)
(*   found      the A* search returned a complete path                      *)
(*   switch     the path has a switchback                                   *)
(*   aligned    the robot's yaw is within the finishing tolerance           *)
(*   predicted  the start pose predictor could keep part of the old path    *)
(*   atSwitch   the robot has arrived at the switchback pose                *)
(***************************************************************************)
EXTENDS Integers

CONSTANTS
  Cells,            \* grid poses
  NoCell,           \* no pose
  Origin,           \* the pose of the grid's cell (0,0,0)
  Dist,             \* Dist[p][q]: length of the grid vector from p to q
  Extents,          \* the sets of cells a map may cover
  Obstacles,        \* the sets of cells that may have cost 100
  Goals,            \* the poses asked for
  Tolerances,       \* the tolerances asked for
  Worlds,           \* answers of the searches
  TolRange,         \* tolerance_range_
  EscRange,         \* esc_range_
  EscRangeMin,      \* esc_range_min_
  GoalTol,          \* goal_tolerance_lin_
  ActionTol,        \* goal_tolerance_.lin of a tolerant action
  EscTol,           \* temporary_escape_tolerance_lin_
  MaxRetry,         \* max_retry_num_, -1 for no limit
  TemporaryEscape,  \* temporary_escape_
  CrowdMode,        \* enable_crowd_mode_
  FastMapUpdate,    \* fast_map_update_
  KeepPath,         \* keep_a_part_of_previous_path_
  SwWait,           \* sw_wait_ > 0
  FindBest,         \* find_best_
  RetainLastError,  \* retain_last_error_status_
  Watchdog          \* costmap_watchdog_ > 0

Pose == Cells \cup {NoCell}

WorldType ==
  [arrivable : SUBSET Cells, te : Cells, improve : BOOLEAN,
   reachable : BOOLEAN, found : BOOLEAN, switch : BOOLEAN,
   aligned : BOOLEAN, predicted : BOOLEAN, atSwitch : BOOLEAN]

\* The constants are typed and the grid's origin is one of its cells.
ASSUME CoreAssumption ==
  /\ NoCell \notin Cells
  /\ Origin \in Cells
  /\ Dist \in [Cells -> [Cells -> Nat]]
  /\ Extents \subseteq SUBSET Cells
  /\ Obstacles \subseteq SUBSET Cells
  /\ Goals \subseteq Cells
  /\ Tolerances \subseteq {"none", "stop", "continuous"}
  /\ Worlds \subseteq WorldType
  /\ {TolRange, EscRange, EscRangeMin, GoalTol, ActionTol, EscTol} \subseteq Nat
  /\ MaxRetry \in Nat \cup {-1}
  /\ {TemporaryEscape, CrowdMode, FastMapUpdate, KeepPath, SwWait,
      FindBest, RetainLastError, Watchdog} \subseteq BOOLEAN

VARIABLE core

-----------------------------------------------------------------------------
(* The object *)

Statuses == {"DONE", "DOING", "FINISHING"}
Errors   == {"GOING_WELL", "IN_ROCK", "PATH_NOT_FOUND", "DATA_MISSING"}
Escapes  == {"NOT", "WITH_IMPROVEMENT", "WITHOUT_IMPROVEMENT"}
Tols     == {"none", "stop", "continuous"}

\* cnt_stuck_ is only compared with max_retry_num_: one above it is enough.
MaxStuck == MaxRetry + 1

CoreFields ==
  [hasMap : BOOLEAN,        \* has_map_
   hasGoal : BOOLEAN,       \* has_goal_
   hasStart : BOOLEAN,      \* has_start_
   extent : SUBSET Cells,   \* the cells of map_info_
   occ : SUBSET Cells,      \* the cells whose cost in cm_ is 100
   start : Cells,           \* start_
   orig : Pose,             \* goal_original_
   raw : Pose,              \* goal_raw_
   goal : Pose,             \* goal_
   escape : Escapes,        \* escape_status_
   status : Statuses,       \* status_.status
   error : Errors,          \* status_.error
   cacheCreated : BOOLEAN,  \* cost_estim_cache_created_
   cacheGoal : Pose,        \* DistanceMap::goal_ of cost_estim_cache_
   startOccupied : BOOLEAN, \* is_start_occupied_
   stuck : 0..MaxStuck,     \* cnt_stuck_
   switchback : BOOLEAN,    \* is_path_switchback_
   tol : Tols,              \* goal_tolerance_, "none" if not set
   path : {"empty", "finish", "plan"}]  \* previous_path_

\* No cell is occupied off the map: cm_ has the cells of map_info_.
CoreType == {c \in CoreFields : c.occ \subseteq c.extent}

CoreInit ==
  [hasMap |-> FALSE, hasGoal |-> FALSE, hasStart |-> FALSE,
   extent |-> {}, occ |-> {},
   start |-> Origin, orig |-> NoCell, raw |-> NoCell, goal |-> NoCell,
   escape |-> "NOT", status |-> "DONE", error |-> "GOING_WELL",
   cacheCreated |-> FALSE, cacheGoal |-> NoCell, startOccupied |-> FALSE,
   stuck |-> 0, switchback |-> FALSE, tol |-> "none", path |-> "empty"]

isEscaping(c) == c.escape # "NOT"
isReadyToPlan(c) == c.hasMap /\ c.hasGoal /\ c.hasStart

-----------------------------------------------------------------------------
(* Relocation of a pose to a free cell *)

Nearest(p, S) == CHOOSE q \in S : \A r \in S : Dist[p][q] <= Dist[p][r]

Around(p, lo, hi) == {q \in Cells : q # p /\ lo <= Dist[p][q] /\ Dist[p][q] <= hi}

\* The second pass drops the minimum range along with the acceptable cost.
searchAvailablePos(c, p, lo, hi) ==
  LET free == c.extent \ c.occ
      far  == Around(p, lo, hi) \cap free
      any  == Around(p, 0, hi) \cap free
  IN  IF far # {} THEN Nearest(p, far)
      ELSE IF any # {} THEN Nearest(p, any)
      ELSE NoCell

\* A pose on the map is kept if it is free; NoCell means IN_ROCK.
relocateDiscretePose(c, p) ==
  IF p \in c.occ THEN searchAvailablePos(c, p, 0, TolRange) ELSE p

OutOfMap(c, p) == p \notin c.extent
InRock(c, p)   == relocateDiscretePose(c, p) = NoCell

CountStuckNever(c) == c.stuck           \* mutant

CountStuck(c) == IF c.stuck < MaxStuck THEN c.stuck + 1 ELSE c.stuck

-----------------------------------------------------------------------------
(* The distance map to the goal and the temporary escape goal.             *)
(* createCostEstimCache and updateTemporaryEscapeGoal call each other;      *)
(* the inner call always finds a free goal, so two levels are all there is. *)

\* Mutant: goal_raw_ is forgotten.
ToOriginalGoalKeepsRaw(c) == [c EXCEPT !.goal = c.orig, !.escape = "NOT"]

ToOriginalGoal(c) ==
  [c EXCEPT !.goal = c.orig, !.raw = c.orig, !.escape = "NOT"]

GoalInRock(c) ==
  /\ isReadyToPlan(c)
  /\ ~OutOfMap(c, c.start) /\ ~InRock(c, c.start)
  /\ ~OutOfMap(c, c.raw)   /\ InRock(c, c.raw)
  /\ ~isEscaping(c)

BuildCache(c) ==
  LET d == [c EXCEPT !.cacheCreated = FALSE, !.startOccupied = FALSE]
      e == relocateDiscretePose(c, c.raw)
  IN  IF ~isReadyToPlan(c) THEN c
      ELSE IF OutOfMap(c, c.start) THEN d
      ELSE IF InRock(c, c.start)
        THEN [d EXCEPT !.stuck = CountStuck(c), !.startOccupied = TRUE]
      ELSE IF OutOfMap(c, c.raw) THEN d
      ELSE IF InRock(c, c.raw)
        THEN IF isEscaping(c) THEN ToOriginalGoal(d)
             ELSE [d EXCEPT !.stuck = CountStuck(c)]
      ELSE [d EXCEPT !.goal = e, !.cacheGoal = e, !.cacheCreated = TRUE]

\* What createCostEstimCache returns.
CacheAccepted(c) ==
  \/ ~isReadyToPlan(c)
  \/ /\ ~OutOfMap(c, c.start)
     /\ InRock(c, c.start) \/ ~OutOfMap(c, c.raw)

IsPathFinishing(c, s, e) ==
  /\ e # NoCell
  /\ Dist[s][e] <= CASE isEscaping(c)     -> EscTol
                     [] ~isEscaping(c) /\ c.tol # "none" -> ActionTol
                     [] OTHER             -> GoalTol

\* Mutant: the robot goes on finishing on its way to the temporary goal.
EscapeWhileFinishing(c, te, escape) ==
  BuildCache([c EXCEPT !.escape = escape, !.raw = te, !.goal = te])

Escape(c, te, escape) ==
  BuildCache([c EXCEPT !.escape = escape, !.raw = te, !.goal = te,
                       !.status = IF @ = "FINISHING" THEN "DOING" ELSE @])

\* Without the crowd mode the search starts from the default vector (0,0,0).
EscapeToFreePose(c) ==
  LET te == searchAvailablePos(c, Origin, EscRangeMin, EscRange)
  IN  IF te = NoCell THEN c ELSE Escape(c, te, "WITHOUT_IMPROVEMENT")

EscapeCandidates(c, s, w) ==
  (Around(s, EscRangeMin, EscRange) \cap w.arrivable) \cap (c.extent \ c.occ)

OriginalGoalArrivable(c, s, w) ==
  /\ c.orig \in w.arrivable \cap (c.extent \ c.occ)
  /\ Dist[s][c.orig] <= EscRange

EscapeInCrowd(c, s, w) ==
  IF OutOfMap(c, s) THEN c
  ELSE IF OriginalGoalArrivable(c, s, w) THEN BuildCache(ToOriginalGoal(c))
  ELSE IF w.te \notin EscapeCandidates(c, s, w) THEN c
  ELSE LET near == Dist[s][w.te] <= EscTol
           esc  == IF w.improve /\ ~near THEN "WITH_IMPROVEMENT"
                   ELSE "WITHOUT_IMPROVEMENT"
       IN  Escape(c, w.te, esc)

updateTemporaryEscapeGoal(c, s, w) ==
  IF ~isReadyToPlan(c) \/ c.switchback THEN c
  ELSE IF CrowdMode THEN EscapeInCrowd(c, s, w)
  ELSE EscapeToFreePose(c)

createCostEstimCache(c, w) ==
  IF GoalInRock(c) /\ TemporaryEscape /\ CrowdMode
  THEN updateTemporaryEscapeGoal(BuildCache(c), relocateDiscretePose(c, c.start), w)
  ELSE BuildCache(c)

-----------------------------------------------------------------------------
(* Inputs *)

\* Publishes an empty path and blanks the distance map before rebuilding it.
setMap(c, extent, occ, w) ==
  createCostEstimCache(
    [c EXCEPT !.path = "empty", !.hasMap = TRUE, !.extent = extent,
              !.occ = occ \cap extent, !.cacheGoal = NoCell], w)

\* Mutant: the fast update leaves the distance map as it is.
UpdateWithoutCache(c, inRange, occ, w) ==
  LET u == [c EXCEPT !.occ = occ \cap c.extent]
  IN  IF ~inRange THEN c
      ELSE IF ~c.hasStart \/ ~c.hasGoal THEN u
      ELSE IF FastMapUpdate /\ u.goal \notin u.occ THEN u
      ELSE createCostEstimCache(u, w)

\* Mutant: an update that reaches over the edge of the map is applied.
UpdateOverEdge(c, inRange, occ, w) ==
  LET u == [c EXCEPT !.occ = occ]
  IN  IF FastMapUpdate /\ u.goal \notin u.occ /\ c.hasStart /\ c.hasGoal
        THEN [u EXCEPT !.cacheGoal = u.goal]
      ELSE createCostEstimCache(u, w)

\* An update outside the map is only kept for the next map: the costmap it
\* names, the retained update and last_costmap_ are state of CostmapOverlay
\* and of the node, here the update decides which cells have cost 100.
applyCostmapUpdate(c, inRange, occ, w) ==
  LET u == [c EXCEPT !.occ = occ \cap c.extent]
  IN  IF ~inRange THEN c
      ELSE IF ~c.hasStart \/ ~c.hasGoal THEN u
      ELSE IF FastMapUpdate /\ u.goal \notin u.occ
        THEN [u EXCEPT !.cacheGoal = u.goal]
      ELSE createCostEstimCache(u, w)

setStart(c, s) == [c EXCEPT !.start = s, !.hasStart = TRUE]
clearStart(c)  == [c EXCEPT !.hasStart = FALSE]

WithGoal(c, g) == [c EXCEPT !.orig = g, !.raw = g, !.goal = g]
NewGoal(c, g)  == [WithGoal(c, g) EXCEPT !.escape = "NOT", !.hasGoal = TRUE,
                                         !.stuck = 0]

setGoalResult(c, g, sameFrame, isNormal) ==
  IF ~sameFrame THEN "REJECTED"
  ELSE IF ~isNormal THEN "CLEARED"
  ELSE IF CacheAccepted(NewGoal(c, g)) THEN "ACCEPTED" ELSE "REJECTED"

\* Mutant: a new goal does not restart the state machine.
SetGoalKeepsStatus(c, g, sameFrame, isNormal, w) ==
  LET n == createCostEstimCache(NewGoal(c, g), w)
  IN  CASE setGoalResult(c, g, sameFrame, isNormal) = "ACCEPTED" -> n
        [] ~sameFrame -> c
        [] sameFrame /\ ~isNormal -> [WithGoal(c, g) EXCEPT !.hasGoal = FALSE]
        [] OTHER -> [n EXCEPT !.hasGoal = FALSE]

setGoal(c, g, sameFrame, isNormal, w) ==
  LET n == createCostEstimCache(NewGoal(c, g), w)
  IN  CASE setGoalResult(c, g, sameFrame, isNormal) = "ACCEPTED" ->
             [n EXCEPT !.status = "DOING"]
        [] ~sameFrame -> c
        [] sameFrame /\ ~isNormal -> [WithGoal(c, g) EXCEPT !.hasGoal = FALSE]
        [] OTHER -> [n EXCEPT !.hasGoal = FALSE]

\* Mutant: has_goal_ stays.
ClearGoalKeepsFlag(c) == [c EXCEPT !.escape = "NOT", !.status = "DONE"]

clearGoal(c) == [c EXCEPT !.hasGoal = FALSE, !.escape = "NOT", !.status = "DONE"]

setGoalTolerance(c, tol) == [c EXCEPT !.tol = tol]  \* clearGoalTolerance: "none"

triggerTemporaryEscape(c, w) ==
  IF c.hasMap THEN updateTemporaryEscapeGoal(c, c.start, w) ELSE c

\* Blanks the distance map, cost_estim_cache_created_ is left as it is.
setParameters(c) == IF c.hasMap THEN [c EXCEPT !.cacheGoal = NoCell] ELSE c

-----------------------------------------------------------------------------
(* The planning cycle *)

\* Mutant: the watchdog reports, but does not stop the robot.
PrepareWithoutStop(c, old, w) ==
  LET p == IF c.hasMap /\ ~c.cacheCreated /\ c.hasGoal
           THEN createCostEstimCache(c, w) ELSE c
  IN  [p EXCEPT !.error = IF Watchdog /\ old THEN "DATA_MISSING" ELSE @]

\* The watchdog fires if the time given is later than last_costmap_ by more
\* than costmap_watchdog_: old.
preparePlanCycle(c, old, w) ==
  LET p == IF c.hasMap /\ ~c.cacheCreated /\ c.hasGoal
           THEN createCostEstimCache(c, w) ELSE c
      tooOld == Watchdog /\ old
  IN  [p EXCEPT !.error = IF tooOld THEN "DATA_MISSING" ELSE @,
                !.path  = IF tooOld THEN "empty" ELSE @]

hasCostmap(old) == ~(Watchdog /\ old)

buildStartPoses(c, w) ==
  IF OutOfMap(c, c.start) THEN NoCell
  ELSE IF KeepPath /\ c.path # "empty"
    THEN IF w.predicted THEN c.start ELSE NoCell
  ELSE relocateDiscretePose(c, c.start)

NearGoal(c, w) ==
  LET s == buildStartPoses(c, w) IN s # NoCell /\ IsPathFinishing(c, s, c.goal)

\* goal_reached_in_continuous_mode is called.
PassesGoal(c, w) == NearGoal(c, w) /\ ~isEscaping(c) /\ c.tol = "continuous"

\* Mutant: the robot is stopped without a reason.
StopSilently(c, error) == [c EXCEPT !.path = "empty"]

Stop(c, error) == [c EXCEPT !.error = error, !.path = "empty"]

SearchPath(c, s, w) ==
  LET found == w.found \/ s = c.goal
  IN  IF ~w.reachable \/ c.goal \in c.occ
      THEN LET n == Stop(c, "PATH_NOT_FOUND")
           IN  IF TemporaryEscape
               THEN updateTemporaryEscapeGoal(n, c.start, w) ELSE n
      ELSE IF found THEN [c EXCEPT !.path = "plan"]
      ELSE IF FindBest
        THEN [c EXCEPT !.path = "plan", !.error = "PATH_NOT_FOUND"]
      ELSE Stop(c, "PATH_NOT_FOUND")

\* makePlan and the publishPath that follows it: an empty path, published over
\* the finish path, when the robot has escaped or starts finishing.
makePlan(c, w) ==
  LET s == buildStartPoses(c, w)
  IN  IF s = NoCell THEN Stop(c, "IN_ROCK")
      ELSE IF NearGoal(c, w) /\ isEscaping(c)
        THEN createCostEstimCache(
               [ToOriginalGoal(c) EXCEPT !.path = "empty"], w)
      ELSE IF NearGoal(c, w) /\ c.tol # "continuous"
        THEN [c EXCEPT !.status = "FINISHING", !.path = "empty"]
      ELSE SearchPath(IF NearGoal(c, w) THEN [c EXCEPT !.tol = "none"] ELSE c,
                      s, w)

EscapeError(a, b) ==
  IF "WITHOUT_IMPROVEMENT" \in {a, b} THEN "PATH_NOT_FOUND" ELSE "GOING_WELL"

planCycleResult(c, w) ==
  IF c.status = "FINISHING" /\ w.aligned THEN "GOAL_REACHED"
  ELSE IF c.status # "FINISHING" /\ MaxRetry # -1 /\ c.stuck > MaxRetry
    THEN "ABORT_MAX_RETRY"
  ELSE "NONE"

\* What follows makePlan in runPlanCycle: c is the core before it, m after it.
AfterPlan(c, m, w) ==
  [m EXCEPT
    !.switchback = m.path = "plan" /\ w.switch /\ SwWait /\ ~KeepPath,
    !.error = IF isEscaping(m) \/ isEscaping(c)
              THEN EscapeError(m.escape, c.escape) ELSE @]

Planned(c, w) == AfterPlan(c, makePlan(c, w), w)

runPlanCycle(c0, w) ==
  LET c == [c0 EXCEPT !.switchback = FALSE]
  IN  CASE planCycleResult(c, w) = "GOAL_REACHED" ->
             [c EXCEPT !.status = "DONE", !.hasGoal = FALSE]
        [] c.status = "FINISHING" /\ ~w.aligned -> [c EXCEPT !.path = "finish"]
        [] planCycleResult(c, w) = "ABORT_MAX_RETRY" ->
             [Stop(c, "PATH_NOT_FOUND") EXCEPT !.status = "DONE",
                                              !.hasGoal = FALSE]
        [] OTHER ->
             IF ~c.cacheCreated
             THEN Stop(c, IF c.startOccupied THEN "IN_ROCK" ELSE "PATH_NOT_FOUND")
             ELSE Planned([c EXCEPT !.error = "GOING_WELL"], w)

\* Mutant: the path to the last goal stays.
NoGoalKeepsPath(c) ==
  [c EXCEPT !.error = IF RetainLastError THEN @ ELSE "GOING_WELL"]

handleNoGoal(c) ==
  [c EXCEPT !.error = IF RetainLastError THEN @ ELSE "GOING_WELL",
            !.path = "empty"]

checkSwitchbackArrival(c, w) ==
  IF w.atSwitch THEN [c EXCEPT !.switchback = FALSE] ELSE c

\* The part of the nodes' planPath that concerns the core.
CycleRuns(c, old) == isReadyToPlan(c) /\ hasCostmap(old)

RunPrepared(p, old, w) ==
  IF CycleRuns(p, old) THEN runPlanCycle(p, w)
  ELSE IF ~p.hasGoal THEN handleNoGoal(p)
  ELSE p

planPath(c, old, w) == RunPrepared(preparePlanCycle(c, old, w), old, w)

-----------------------------------------------------------------------------
(* A client that calls the member functions in any order *)

SetMap ==
  \E e \in Extents, o \in Obstacles, w \in Worlds :
    core' = setMap(core, e, o, w)

ApplyCostmapUpdate ==
  /\ core.hasMap
  /\ \E o \in Obstacles, w \in Worlds :
       core' = applyCostmapUpdate(core, TRUE, o, w)

SetStart   == core.hasMap /\ \E s \in Cells : core' = setStart(core, s)
ClearStart == core.hasMap /\ core' = clearStart(core)

\* A goal in another frame changes nothing; the pose may lack an orientation.
SetGoal ==
  \E g \in Goals, normal \in BOOLEAN, w \in Worlds :
    core' = setGoal(core, g, TRUE, normal, w)

ClearGoal        == core' = clearGoal(core)
SetGoalTolerance == \E t \in Tolerances : core' = setGoalTolerance(core, t)
TriggerEscape    == \E w \in Worlds : core' = triggerTemporaryEscape(core, w)
SetParameters    == core' = setParameters(core)

PlanPath ==
  \E old \in BOOLEAN, w \in Worlds : core' = planPath(core, old, w)

CheckSwitchback ==
  /\ core.switchback
  /\ \E w \in Worlds : core' = checkSwitchbackArrival(core, w)

Init == core = CoreInit

Next ==
  \/ SetMap \/ ApplyCostmapUpdate
  \/ SetStart \/ ClearStart \/ SetGoal \/ ClearGoal \/ SetGoalTolerance
  \/ TriggerEscape \/ SetParameters \/ PlanPath \/ CheckSwitchback

Spec == Init /\ [][Next]_core

-----------------------------------------------------------------------------
(* Properties *)

\* The members keep their types, and the costmap keeps the size of its map: nothing
\* is ever written beyond the edge, whatever size the maps and updates have.
TypeOK == core \in CoreType

\* While the planner pursues a goal and is not escaping, the pose it plans to
\* derives from the pose the client asked for: every path out of a temporary
\* escape (createCostEstimCache, makePlan, updateTemporaryEscapeGoal) puts
\* goal_original_ back.
PursuesGivenGoal ==
  core.hasGoal /\ ~isEscaping(core) => core.raw = core.orig

\* A goal that is pursued is a pose, and it is never reported as DONE.
GoalIsActive ==
  core.hasGoal => {core.orig, core.raw, core.goal} \subseteq Cells
                  /\ core.status # "DONE"

\* FINISHING, after which only the yaw is checked, is never the state of a
\* robot on its way to a temporary goal.
FinishesAtGivenGoal ==
  core.hasGoal /\ core.status = "FINISHING" => ~isEscaping(core)

\* A costmap update that finds a goal and a robot pose leaves a distance map
\* that leads to the current goal, whatever the map led to before.
UpdateHealsCache ==
  isReadyToPlan(core) =>
    \A o \in Obstacles, w \in Worlds :
      LET c == applyCostmapUpdate(core, TRUE, o, w)
      IN  c.cacheCreated => c.cacheGoal = c.goal

\* GOING_WELL with an empty path, outside a temporary escape, is only reported
\* when the planner starts finishing: never when it could not plan.
GoingWellMeansMoving ==
  CycleRuns(core, FALSE) /\ core.status = "DOING" /\ ~isEscaping(core) =>
    \A w \in Worlds :
      LET c == planPath(core, FALSE, w)
      IN  c.error = "GOING_WELL" /\ c.path = "empty" /\ ~isEscaping(c)
            => c.status = "FINISHING"

\* The distance map that guides a plan was created for the goal planned to, or
\* is blank: "Creates the pending cost estimation cache", planner_3d_core.h.
PlansOnCurrentCache ==
  CycleRuns(core, FALSE) /\ core.status = "DOING" =>
    \A w \in Worlds :
      LET c == planPath(core, FALSE, w)
      IN  c.path = "plan" => c.cacheGoal \in {c.goal, NoCell}

Pursuit == INSTANCE GoalPursuit WITH
  Goals  <- Goals,
  NoGoal <- NoCell,
  target <- IF core.hasGoal THEN core.orig ELSE NoCell,
  phase  <- IF ~core.hasGoal THEN "idle"
            ELSE IF core.status = "FINISHING" THEN "finishing" ELSE "moving",
  detour <- core.hasGoal /\ isEscaping(core)

\* The core implements the abstract pursuit of a goal.
ImplementsPursuit == Pursuit!Spec
=============================================================================
