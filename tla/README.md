# neonavigation: TLA+ models, checks and proofs

These modules model the core logic of the `neonavigation` packages (ROS 1 and
ROS 2 navigation for mobile robots) so that TLC can check it on small instances
and the TLA+ proof system can prove the main invariants for every instance.
`PROJECT.json` maps every definition to the lines it models.

## 1. The system

```
 map, laser, clouds            goal topic, actions (move_base, tolerant_move)
        |                                    |                 ^ patrol
 costmap_cspace  --costmap, updates-->  planner_3d  --path--> trajectory_tracker
 (layers)                                    |  status              | cmd_vel
 map_organizer --current map-->              v                      v
                                     diagnostics, metrics    safety_limiter
 track_odometry --odom, TF-->  (all)                                |
                         joystick --> joystick_interrupt / joystick_mux
                                                                    v  motors
```

Every node is a single process whose callbacks run one at a time: the ROS 2
nodes keep their callbacks in one mutually exclusive group, the ROS 1 nodes spin
in one thread. There are no data races to model. What is hard is the *order* of
the callbacks: goals, cancel requests, costmaps, TF answers, timers and parameter
changes come in any order, and state written by one is used by a later one.

| component | state it keeps | operations | what makes it correct |
| --- | --- | --- | --- |
| planner_3d core (`planner_3d_core.cpp`) | goal, temporary goal, distance map, status, stuck counter, last path | map, update, start, goal, escape, planning cycle | the goal pursued is the goal given; a distance map leads to the current goal; the robot is stopped when it cannot plan |
| planner_3d nodes (`ros1_planner_3d.cpp`, `ros2_planner_3d_node.cpp`) | goal handles, cancel flags, timers | action callbacks, topics, spin timer, watchdog | every handle ends once with the right result; no path on an old costmap |
| grid search (`grid_astar*.h`, `distance_map.cpp`) | open list, cost maps | search, create, update | the path found is a shortest one; an incremental update equals a new map |
| planner_2dof_serial_joints | joint state, trajectory | command, plan | a command is planned or refused |
| patrol (`*patrol*.cpp`) | path, position, action goal | path, result, feedback | waypoints are visited in order, one goal at a time |
| costmap_cspace | layers, regions, base map, updates | base map, overlay, output | the costmap is the base overlaid with the latest overlays |
| trajectory_tracker | path, position on the path, speed | path, odometry, control cycle | stop at the end, no motion without a path or TF |
| trajectory server / recorder / saver | stored path, edits | change, record, save | the stored path is what was sent |
| safety_limiter | watchdog, cloud, limit, hold-off | cloud, twist, predict, watchdog | no motion without fresh data; the limit holds for its hold-off |
| joystick_interrupt, joystick_mux | last inputs, mode | joystick, twist | the joystick overrides; stale input does not move the robot |
| map_organizer | maps, floor | maps, floor, select | the map published is the map of the floor selected |
| track_odometry, tf_projection | last odometry, IMU | odometry, IMU, reset | the integrated pose follows the increments |
| obj_to_pointcloud, neonavigation_common, launch files, metrics, rviz plugin | configuration | conversion | pure I/O |

### Hard behaviour

`PROJECT.json` lists the hazards with their lines. They are of four kinds:
state that is cached and used after its reason is gone (distance map, watchdog
time, retained costmap update, redrawn regions, last joystick command); requests carried out later than
they were accepted (cancel flags, goals in flight); work that has to be undone on
several ways out (temporary goals, goal handles); and counters and timers that must
eventually end something (retry limit, watchdog).

## 2. Modules

| module | what it is | part of `src/` |
| --- | --- | --- |
| `GoalPursuit` | abstract: what a navigation core promises its client about one goal | |
| `Planner3dCore` | the class `Planner3dCore`, with a client that calls its members in any order; shown to implement `GoalPursuit` | `planner_cspace` |
| `ActionGoal` | abstract: how an action goal handle may be used (external) | |
| `Planner3dNode` | the ROS 2 node around the core; EXTENDS `Planner3dCore`; each of its two handles implements `ActionGoal` | `planner_cspace` |
| `Planner3dRos1` | the ROS 1 node around the core; EXTENDS `Planner3dNode` and replaces what differs | `planner_cspace` |
| `DistanceMap` | creation and incremental update of the distance map | `planner_cspace` |
| `GridAstar` | the best-first search with its batches of tasks and its limited queue | `planner_cspace` |
| `StartPrediction` | where the next plan starts while the robot still follows the last path | `planner_cspace` |
| `RememberedCosts` | obstacles remembered as odds, and the updates that feed them | `planner_cspace` |
| `Planner2dof` | the node `planner_2dof_serial_joints`, with its search and its trajectories | `planner_cspace` |
| `Patrol` | the nodes `patrol`, composed with the action server they drive | `planner_cspace` |
| `CostmapLayers` | the chain of costmap layers of `costmap_3d` | `costmap_cspace` |
| `CostmapPipeline` | `CostmapLayers` composed with the topics and the costmap of `planner_3d` | both |
| `LocalMap` | `PointcloudAccumulator` in `laserscan_to_map` and `pointcloud2_to_map` | `costmap_cspace` |
| `LargemapToMap` | the node that cuts a simulated sensor's view out of a large map | `costmap_cspace` |
| `TrajectoryTracker` | the path follower, controller and nodes | `trajectory_tracker` |
| `TrajectoryStore` | recorder, saver and server of paths around one file | `trajectory_tracker` |
| `SafetyLimiter` | the node `safety_limiter`, in discrete time | `safety_limiter` |
| `Joystick` | `joystick_interrupt` and `joystick_mux` on one joystick | `joystick_interrupt` |
| `MapSlicing`, `MapOrganizer` | slicing a cloud into floors, and the nodes around the array of maps | `map_organizer` |
| `TrackOdometry` | odometry whose orientation comes from the IMU | `track_odometry` |
| `RosVersion` | which of the two nodes of a package is meant, where they differ | |
| `Planner3dCoreProofs`, `Planner3dNodeProofs`, `GridAstarProofs`, `RememberedCostsProofs` | the theorems about the module of that name, `Planner3dNodeProofs` also those about `Planner3dRos1` | |
| `CostmapProofs` | the theorems about `CostmapLayers` and `CostmapPipeline` | |
| `MotionProofs` | the theorems about `SafetyLimiter`, `TrajectoryTracker`, `Joystick` and `TrackOdometry` | |
| `NodesProofs` | the theorems about `Patrol`, `TrajectoryStore`, `MapOrganizer`, `LargemapToMap` and `LocalMap` | |
| `Induction` | lemmas for induction over a range of numbers and for functions defined by recursion over one | |
| `MC...` | small instances of the modules for TLC | |

Operators marked "Mutant" in a comment are wrong variants of the definition after
them. No specification uses them; they serve to show that a property notices
such a mistake. Where a node exists for ROS 1 and ROS 2, the variable `ros` of `RosVersion` says which
one it is if the two differ; if they do not, one action stands for both and `map` names one of them.

### `Planner3dCore`

The object is one record, `core`; the comment of each field of `CoreType` names the
member. Every member function that changes it is an operator from a record to
a record with the member's name (`setGoal`, `applyCostmapUpdate`,
`createCostEstimCache`, `updateTemporaryEscapeGoal`, `preparePlanCycle`,
`runPlanCycle`, `makePlan`, ...), because the nodes call several of them inside one
callback. The actions `SetMap` ... `CheckSwitchback` let a client call them one at a
time, in any order.

Poses are cells with a distance function `Dist`. What a search answers is an input,
a record of `Worlds`, chosen again at every call: whether the distance map reaches the robot,
whether A* found a path, whether the path has a switchback, whether the yaw is
aligned, which temporary goal has the least cost. So the model has every behaviour
the searches may cause, and the theorems hold for every search; what the searches themselves
do is in `GridAstar` and `DistanceMap`. The costs of cells
are reduced to free or occupied (cost 100), tolerances of position and angle to one
distance. Two members call each other (`createCostEstimCache` and
`updateTemporaryEscapeGoal`); the inner call finds a free goal and does not call back, so
`BuildCache` is the inner call.

### `Planner3dNode` and `Planner3dRos1`

One action per callback. `srv` holds the two goal handles, the cancel flags and, for
the properties only, how the last goal ended (`mbResult`, `tolResult`). Time is
abstracted: `costmapOld` says whether the last costmap is older than
`costmap_watchdog`, `CostmapAges` makes it so at any moment, and the spin timer
plans (`SpinPlans`) or does not yet (`SpinWaits`). `processCancelRequests` finishes the
handles whose cancel callback has returned. What triggers planning
(`trigger_plan_by_costmap_update`) is a dynamic parameter: it is chosen from
`PlanModes` at the start and at every parameter change. In the trigger mode `MapUpdate` and
`Map` plan, and the spin timer only cancels.

The ROS 1 node has the same callbacks but for three things. A cancel request ends the goal in its
callback (`cbPreempt`, which `actionlib` also calls before a new goal of the same
action). A goal of the other action stays pending at `actionlib` and reaches no
callback (`planner_cspace/README.md:169`), so nothing happens here. And the planning
loop is the main thread: `waiting` says that it is inside `waitUntil`, a turn of which
looks up the pose and leaves the loop when the time is due or the robot has
arrived at a switchback; the cycle after the wait runs even when a parameter change has meanwhile
left the planning to the costmaps.

### `DistanceMap`, `GridAstar`

A cell of `DistanceMap` is a pair of coordinates, `g` its cost in half steps. `Create` starts at
the goal, `Update` erases what a change can have touched (`Erase`) and refills it from the
edges; both run in batches (`Fill`, one action per batch), and between two of them nothing
else happens, as in the code. A search edge may cross more than one cell, as the segments of
`search_diffs_` do.

`GridAstar` is on a graph whose edges and estimates are the arguments of the
call (`Problems`). `Call`, `Fetch`, `Fetched` and `Expand` are the phases of `search`;
in `Expand` the threads share the centers in any way (`Share`) and evaluate them on the same `g`.
`work` is what the thread in the critical section has still to apply, `rest` what the threads have that wait
for it: `Apply` brings one improvement into the maps, `Applies` closes the nodes of a thread and lets
the next one in. `Limited` is the queue that drops its worst entry. `findPath` goes back by one parent at a
time, so the path it returns is a variable.

`real` is a history variable, `g` before a node was closed. With it the shortest way needs no search of its own: `AtLeast(v)`
is a bound of the cost of every way to `v`, and `ReturnsShortestWalk` says that the bound grows by at most the cost of
an edge along every edge and by exactly that along the path.

### `StartPrediction`, `RememberedCosts`

The predictor's path is on a line: places, yaws and which poses are grid centres. The robot is
part of the model and follows the path at any speed up to the one the plan assumes, while
obstacles come and go; `next` is a history variable, the pose it drives to.

Odds are levels of a logarithmic scale, clamped at both ends as `BinaryBayesFilter` does. `box`
is the area whose costs are computed anew, `area` the corners of the last two updates, around
which the distance map is updated.

### `Planner2dof`, `Patrol`

Angles of joints are in thirds of a cell, so that rounding shows; the grid holds two turns
of each joint and the collisions are cells of one turn. `Relax` and `Descend` give cheapest ways.
The estimate of this search (`costEstim`) does not go around the circle as its costs do, so that what it
finds need not be a cheapest way: `Found` is the cheapest one and the cheapest by each cell of `Vias`.

In `Patrol` goal requests, cancel-all requests and results are messages under way,
unordered among each other. `goal[g][w]` is the life of the goal for the `w`-th pose of
the `g`-th path. The result callback of ROS 2 takes whatever result comes; the ROS 1 client
asks `actionlib` for the state of its last goal (`Followed`), a goal sent before there is a
server is lost (`"lost"`), and requests do not overtake each other (`Overtakes`). The action
server is external: a goal that is superseded is aborted (ROS 2) or preempted (ROS 1), and
cancel-all marks whatever is being executed. `cut` is a history variable: a path has replaced
another that was not walked to its end.

### `CostmapLayers`, `CostmapPipeline`, `LocalMap`, `LargemapToMap`

A map is a row of cells: x, y and yaw are treated alike by the layers, and one dimension is
enough to be inside, at the edge and outside of a map. A footprint is a range of
cells around an obstacle. `chain` is the layers' members; `updateChainEntry` is
one layer's step and `RunChain` folds it along the chain, as the recursion over
`child_` does. `Layers` may be any chain `Costmap3dHandler` can build. Each of the two
topics holds one message (`costmap`, `costmap_update`), so a message is lost when the
next one comes before it is read, and an update may overtake its costmap. The planner's
side has the members `cm_`, `cm_base_`, the region of the last update and the retained
update. Stamps are abstract: whether a retained update is older than the costmap
is left open. `overwrite_cost` is not modelled.

`Erase` is the loop of `PointcloudAccumulator::push`, which advances its iterator once more
after an `erase`; past `end()` the list of libstdc++ leads back to its beginning. Every step of the
loop but the last erases a cloud, so the function `loop` over as many steps as there are clouds covers it.

`LargemapToMap` is in two dimensions and half cells, with the truncation of `static_cast<int>`
and of `lround`, and with the table of rays that hide cells.

### `TrajectoryTracker`, `SafetyLimiter`, `Joystick`

The tracker's path lies on a line with two headings: following, switching back, turning in place and
overshooting are all there. `lpath` is the path thinned by `path_step`, `findLocalGoal`,
`findNearest` and `Along` are those of `Path2D`, with the signed distance to a segment's ends. `visited`
is a history variable, the places where the path turns that the robot itself has come to, up to the stop
tolerance and the way it looks ahead. `odomTimer` is the timer of `odom_timeout_sec`, and the history
variable `odomAge` the time since the last odometry.

In `SafetyLimiter` time is a number of ticks. Both timers may run up to `Late` ticks after they are
due; everything else happens at any time. A command is represented by the ratio of
the published to the received velocity and by whether safety was disabled. What
the collision prediction computes from points is any ratio, without points it is
what the parameters say. `cloud` is the set of frames in which the points of
`cloud_accum_` are: the prediction transforms them in place. `demand` is a history variable,
the ratio the last prediction asked for.

`Joystick` has the clock of the node, simulated or not, with the zero that both a clock and
a `last_joy_msg_` may have. A velocity is named by the time it was received at. `held` is a
history variable, the last message with the button down.

### `TrajectoryStore`, `MapOrganizer`, `TrackOdometry`

The file of a path is opened, which empties it, before it is written, and the server may read in
between: it is empty then or written in part, and neither can be read as a path. The user's edits of the ROS 1 server wait in a queue and may name markers that are gone.

`MapOrganizer` takes the maps from `MapSlicing` (`generateMaps` as an operator on a cloud; the code walks the
floors from the top down and hands free cells to the floor below, of which `MergeSlopes` gives the result in closed form) and
lets its four nodes run in any order; save and load turn rows upside down and threshold cells.

`TrackOdometry` follows a robot on a grid that turns by quarters; the history variable `first`
is the raw pose from which the way counts.

## 3. Runs

| run | instance | question | result |
| --- | --- | --- | --- |
| `core_crowd` | three cells, maps of two extents, two goals, crowd mode, temporary escape, switchbacks, fast updates, retry limit 0 | is the goal ever mixed up with a temporary one; does an update heal the distance map; does the core implement `GoalPursuit` | holds |
| `node` | two cells, planning by timer, no watchdog (it is in `node_live`) | are both handles used legally and ended with the right result; does the timer carry out cancels before it plans | holds |
| `node_live` | two cells, planning by timer or costmap, changing | do the watchdog, the idle cycle and the cancel timer do their work | holds |
| `ros1` | two cells, planning by main thread or costmap, changing | the same for the ROS 1 node, and has an active action its goal in the core; does a costmap that grows old stop the robot, is a goal in rock given up | holds |
| `search` | map of 5 x 4 with a wall, a robot that drives around it and two goals, graphs of five nodes, eight paths, of which some switch back and come by the same places again, a row of eight cells of odds | do the distances bound the ways after any updates; is a way found, and the cheapest; does a plan start ahead of the robot; do remembered costs follow the odds | holds |
| `motion` | period 2, late by 1, hold 0 to 3, timeout 2; four paths that come back by the same places, whole or every second pose of them (`path_step`), on four places with a goal tolerance of one; joystick timeout 2; places up to 1 | does a limit hold for its time; do lost data stop the robot; is the goal only reported of a path that was followed; does a held button keep the navigation out; does the odometry lead the whole way | holds |
| `nodes` | joints (twelve cells a turn, ways up to half a turn, a block of collisions and single ones), patrol, path files, costmaps, map organizer, map cropper, aggregator, each in its own part of the run | do joint plans go around collisions; is a patrol finished, one goal at a time; are only recorded paths served; are the layers and the planner's costmap current; do saved maps come back; does a local map leave out what is hidden, and that only; are clouds forgotten when they have expired | holds |
| `stale_cache` | three cells, maps of two extents | is a plan always guided by the distance map of its goal | violated |
| `cancel_race` | two cells, planning by costmap | is an accepted cancel always answered with `canceled()` | violated |
| `patrol_skip` | two paths | is one goal sent at a time although paths replace each other | violated |
| `costmap_layers` | two layers with local maps at different places | has the planner the obstacles of both layers | violated |
| `long_way` | as in `nodes` | do the joints take the way that was checked | violated |

`search`, `nodes` and `motion` hold modules that do not interact. `part` says which one a
behaviour is about and the others stay in one initial state, so a run explores the sum of their
state spaces.

Bounds. Corridors of three cells let one cell be free, occupied and the goal at
once and a temporary goal differ from the robot's cell and from the goal; the nodes
need two. Goals, tolerances, obstacle sets and extents are sets of one to three
members. `MaxRetry` is 0 or 1 so that the retry limit is reached; `stuck` stops one
above the limit, where the code no longer tells values apart. In `ros1`,
`SimpleUpdates` keeps updates inside the map and lets obstacles only come to be, which is the
case the retry limit is for. In `SafetyLimiter`, ages
are counted up to `MaxAge`, above which they are told apart no more. In `Patrol`, two paths
let a late result and a late cancel-all meet the next path.
In `CostmapPipeline`, local maps lie across the left edge, inside, across the right edge and
beyond it, one has a foreign frame, and the second map has another size and origin, so that
regions of the old map fall outside the new one. The map of `DistanceMap` has a wall thicker than the
cells around a change that an update looks at, and costs beyond the overshoot. The
graphs of `GridAstar` have one-way and unusable edges, several starts and a queue of
two; with one, two and three tasks there are rounds that improve a node and close it. The
paths of `StartPrediction` and `TrajectoryTracker` turn in place, switch back and come back by the same
places, and the joints of `Planner2dof` reach over the end of the grid. Only `MaxTime`,
`MaxClouds`, `MaxPaths`, `MaxLen`, `MaxBuffer`, `MaxPoses`, `MaxActs`, `MaxPos`
and `LastTime` cut behaviours off; `search`, `nodes`, `motion` and `long_way` do not check deadlock,
because a search ends, a patrol ends and times are bounded.

What the violations show:

- `stale_cache`: `createCostEstimCache` returns early while the robot pose is
  unknown and leaves `cost_estim_cache_created_` true from the goal before. The new
  goal is planned to along the distance map of the old one, until a costmap update
  heals it (`UpdateHealsCache`).
- `cancel_race`: in the trigger mode a costmap update may plan, and end the goal as
  reached or in rock, after the cancel was accepted and before the spin timer carries it out.
  In the timer mode `cbSpinTimer` handles the cancel first (`TimerCancels`).
- `patrol_skip`: the late result of a goal of the old path counts for the goal of the new
  one, whose next pose is sent too early. (ROS 1 asks for its last goal and does not.)
- `costmap_layers`: an update carries the region of one layer, and the planner takes everything
  else back to the base costmap. With two layers, the obstacles of one are forgotten
  when the other is updated twice elsewhere.
- `long_way`: the direct way is checked along the shorter way around the circle, but the target is
  sent as it was given, and the joint turns through angles nobody has checked.

Other behaviour met while modelling, without a run of its own, because the properties state
what does hold or because no document promises otherwise:

- In the trigger mode the time given to the cycle is the stamp of the last costmap, so its
  age is zero even when the update that triggered the cycle was dropped for lying
  outside the map: it plans on a costmap of any age.
- A parameter change drops the watchdog timer of `planner_3d` until the next costmap update
  (`OldCostmapStops` asks for an armed timer). In ROS 1 the cycle after a wait still withdraws the path.
- Without the crowd mode the search for a temporary goal starts at the cell (0, 0, 0), not at the robot
  (`EscapeToFreePose`).
- A goal or robot that is off a new, smaller map is never given up: the retry counter is not reached.
- Forgetting the remembered costs, or a jump of the pose, changes costs without telling a distance
  map that is only updated around the costmap updates (`fast_map_update`).
- `GridAstar`: with several tasks a node that is improved and closed in the same round is not expanded
  again, so the way may not be the cheapest (`ReturnsShortestWalk` asks for one task).
- `DistanceMap`: an update refills what it has erased from the four neighbours only. A cell whose cheapest way comes in diagonally
  may then cost 0.6 of a step more than after `create`, more after several updates: the heuristic overestimates. A cell that is reached only between
  two obstacles that touch at a corner, with nothing of the map behind, is even reported unreachable after an update of its area. `DistancesHold` gives the bound that is left, the
  cheapest way of single steps. Behind a thick wall, and after an update with the robot off the map, old costs stay too low; where the robot drives they do not.
- `StartPosePredictor`: the nearest strip of the previous path is the latest of those equally near. Where the path comes by the robot's place again, all of the way
  there and back is taken for passed (`JoinsAhead` excludes that part with `Returns`). Of two switchbacks at neighbouring poses the second is not seen (`LocalGoals`).
- `trajectory_tracker`: the second of two switchbacks at neighbouring poses is not seen either (`Cusps` leaves it out); every `path_step`-th pose of a path
  may make neighbours of them, drop its last pose, or make a turn in place of a way there and back. Once the robot is under way, a pose further than the search
  range of 1 m from the one before is never the nearest, so the goal of such a path is not reported.
- `planner_2dof_serial_joints`: a straight way is looked at in steps of its length rounded down, and its last cell not at all. From (0, 0) to (5, 4) this looks at
  (2, 1) and (3, 2) and misses a collision at (2, 2), which is in the run. `PlansAreSound` asks for what is left: no plan stops at a
  collision, and none goes through one that is wider than the single cell.
- `safety_limiter`: a cloud that arrives with an old stamp counts until it
  has timed out (`FreshStamps` is an assumption of the theorem about ages). The points
  are transformed again by every prediction until a new cloud comes.
- `patrol`: a cancel-all that arrives late cancels the goal of the new path, and the
  node does not react to a cancelled goal; a ROS 1 goal sent before the server is there is lost. In both cases
  the patrol stalls (`PatrolFinishesUnlessCanceled`).
- `trajectory_tracker`: when the transform fails the timer publishes `NO_PATH` but no velocity.
- `joystick_interrupt`: on release the last input is published again, however old it is.
- `PointcloudAccumulator::push` skips the cloud after the one it erases, so of several expired
  clouds every second one stays.
- `laserscan_to_map` keeps a default constructed cloud when the transform fails,
  and dies when it draws it (`alive`); `pointcloud2_to_map` returns.
- `trajectory_server`: a path that could not be read is cleared, but not published.
- `select_map`: new maps for the floor already selected are not published.
- A layer restores its last region from its parent, and its last region is that of its own local map only
  (`base.h:339`). With local maps for two layers, what the first drew at a place it has left is therefore
  not restored in the second once that has had a local map elsewhere: the obstacle stays in the
  `map_overlay_` of the second until it is redrawn there. `LayersAreCurrent` is stated of chains with one such layer,
  and `OneOverlayLayer` is the hypothesis of its theorem.
- An obstacle at the edge of a local map spreads `range_max_` cells beyond the region that the
  layer later restores. With a range of two cells or more, cells outside stay
  occupied inside the chain; the run uses a range of one, which stays inside.

### Fairness

`FairNodeSpec`: the 100 Hz spin timer keeps firing and, armed, so does the watchdog timer; the next planning
time is never more than `1/freq` or `sw_wait` away, so the firing that plans or
cancels is weakly fair. `Ros1Fairness`: the main thread goes on and `next_replan_time`
comes; the watchdog timer fires. Goals, cancels, costmaps, TF and parameters are under no
fairness. Liveness of the planner is checked on one answer of the searches
(`AllWell`). `Patrol`: the executor runs the timer and the callback, the server
starts, receives what was sent and ends its goals; paths are under no fairness.

## 4. Proofs

Every theorem is an invariant, an action property or a refinement of the
specification for all values of the constants that have their types.

**Core.** `Planner3dCoreProofs` proves, for every grid, every set of inputs and every answer of
the searches, `TypeOK`, `PursuesGivenGoal`, `FinishesAtGivenGoal` and `GoalIsActive`. The
argument is one inductive invariant, `CoreInv`, a predicate on the record that each
member function preserves (one lemma per member, in the order in which they call each other);
the action steps are then one line each. The invariant adds to the properties that
the start and the goals are cells while there is a goal, and that an
escaping robot is not finishing: neither property is inductive without it, because a way out of the
escape restores `raw` from `orig`, and the finishing state meets the temporary goal only through it.

Three results follow from the same invariant by running a member on any state it allows.
`UpdatesHeal`: every way through `createCostEstimCache` and `updateTemporaryEscapeGoal` that ends
with a distance map ends with the one of the present goal (`Leads`). `ReportsTrouble`: a cycle that reports
`GOING_WELL` and has no path is one that starts finishing. `PursuesLikeSpecified`: each member is a step of
`GoalPursuit` or a stutter under the mapping of `ImplementsPursuit`; a planning cycle may be a detour, a return
from it or the start of finishing, so its proof follows the cycle from phase to phase.

**Nodes.** `Planner3dNodeProofs` carries that invariant over to the ROS 2 node (which
calls the same members) and adds `ActionHasGoal`: an active handle has its goal in
the core, and a tolerance mode is set exactly while the tolerant action is active. `HandlesAreLegal` is the refinement of
`ActionGoal` by both handles; it needs `RequestsInv`, that a cancel request stays on record until the
goal it is for has ended. `TimerCancelsFirst` is the action property that the timer carries out a cancel
before it plans. The ROS 1 node reuses all of it: new are only `cbPreempt` and the turns of
`waitUntil`, whose planning cycle is that of `PlanStepKeepsInv`; the same two theorems hold for it.

**Search.** `GridAstarProofs` is about every graph, every number of threads and tasks and every
way to share and to order their work. `SearchInv` says what is true of any search: an entry of the queue is never
cheaper than its node, a pending improvement comes along an edge, and parents lead back to a
start. The last part needs `Grounded`, that no set of nodes without a start is closed under `parents`, because edges of cost 0 could
close a circle without any cost telling. A walk is then what `findPath` collects.

`GivesUpWithoutWay` adds `NothingMissed`: a neighbour of a node that is neither queued nor under way has been reached. What could go wrong
is a node closed in the round that improves it; the invariant holds because all neighbours of a node that is to be closed have been reached.
It needs `Bounded`, that costs do not come near the largest `float` (`CostsFit`), or `MayImprove` would miss a neighbour.

`ReturnsWalkAndShortest` adds `Exact` for the search that is exact: of what is not closed the best is expanded first
(`BestFirst`), a node that is done has improved its neighbours (`Improved`), the start is never improved (`FromStart`) and the end waits in the queue once
it is reached. When the end is fetched these are the conditions under which `AtLeast` is a bound.

**Remembered costs.** `CostsAreCurrent` and `OnlySeenChanges` rest on `Current`, that every cost is that of
its odds, and on `Unseen`, that outside of the corners of the last two updates nothing was seen that could change odds. Cells
outside the box that is drawn anew are the hard case: the lemma is that a cell farther away than a
range on one axis is outside the circle of that range (`FarOnOneAxis`).

**Odometry** (`MotionProofs`, as the joystick). For `LeadsTheWholeWay` the property itself is inductive, with the types and `Stays` (without odometry there
is only one raw pose). The lemmas are about turns by quarters, which are linear and depend on the quarters
modulo 4 only.

**Tracker** (`MotionProofs`). `OdometryLossIsNoticed` says that the speed is zero once no odometry has come for the
timeout and what its timer is late. The property is not inductive, because what `cbOdomTimeout` clears is the
velocity and not the timer, which ROS 1 fires once and ROS 2 again and again. `DrivenInTime` is: while the
robot is driven the timer shows the age of the odometry that drives it. What follows the path, the controller
with its local goals, does not enter the proof: a velocity comes from the odometry callback, which arms the timer, or from the
control timer of a node without odometry, where nothing is timed.

**Joystick.** `NavigationWaits` rests on `HeldIsJoy`: while the button is held, `joystick_interrupt` has the time of the
last message. `SelectionFallsBack` rests on `TimerInTime`: while the second input is selected the timer of `joystick_mux` is due
no later than a period after the timeout.

**Patrol and path files.** `SendsOneGoalAtATime` and `ServesWholePaths` are in `NodesProofs`. What could go wrong in
`Patrol` is that `state_` speaks of another goal than the last one sent. `PatrolInv` says that it does
not as long as no path was cut short: `state_` has the result of the goal sent last (`FollowsLast`), goals were sent in
the order of the poses (`SentInOrder`), and those of former paths are at rest (`OldPathsRest`).
`StoreInv` follows a path on its way from the recorder over the queue and the file to the server: at each place
it is a recorded one, or the file is empty because it has just been opened.

**Clouds, local maps and floors** (`NodesProofs`). `AccumulatorForgetsExpired` is an action property for every order
of stamps. Wherever the iterator of `push` is led by `end()`, a step of the loop removes a
cloud that has expired or none (`ErasesExpired`); and as it advances by one cloud for each that it erases, it has erased half of
those at the front when it first comes to one that is young or starts again at the beginning (`ErasesHalf`, by the invariant `HalfErased`
of the loop). Both are inductions over the steps (`RecursionUpTo` of `Induction`). `CropsAreTrue`
says that every cell of a local map shows what the large map has at most half a cell away, for both roundings of the code,
and every position, and that occlusion leaves a cell out only where the straight way to it meets an obstacle. `HiddenIsBehind` is the geometry: a
cell of the table's ray has a corner on each side of the way and lies within its extent (`RayMeets`, from the inequalities that `Along`
solves, by the signs of the direction); `OccludedOrSeen` is the induction over the cells that hide others. `CropperInv` adds that the large map, the settings
and the table are those of the parameters. `TransformIsOfFloor` rests on `OrganizerInv`: the heights that `select_map`
keeps are those of the maps it keeps (`InfosFit`), and what it shows is one of them. `SavedComeBack` adds
`SavedInFiles`, that the files hold the maps saved last, and that turning rows upside down and writing pixels are undone when they are
read back; it needs the floors of a cloud to be finitely many and their cells to be unknown, free or blocked, which is shown of `generateMaps`.

**Costmap.** `CostmapProofs` is about every chain of layers, every size of map and every local map.
`LayersStayCurrent` says that redrawing regions gives the layers as if all was drawn anew. A change runs through the
layers, and `RunSoFar` says what is true behind each: the region passed on holds every cell that differs from
before, and all up to there is as if drawn anew; between two changes `DrawnFrom` holds, that what was last drawn of the local
map lies within the last region of its layer and of those behind. The theorem assumes `OneOverlayLayer`: local maps come for one
layer and its footprint reaches one cell; without either TLC finds a counterexample (section 3). `OnlyLatestUpdateRemains` needs no such
hypothesis: whatever was lost or overtaken, the planner's costmap is the last base and the last update that fitted (`PlannerOK`).
The number of layers and of buffered updates is arbitrary; the induction over them is the lemma `UpTo` of `Induction`, from
the well-foundedness of proper inclusion on finite sets, because the induction theorems of the library
take an operator.

`PlannerCatchesUp` joins both sides: with nothing under way and an update applied, the planner's costmap has the greater cost of what it
received and of all layers drawn anew, in every cell. The invariant is `Informed`: what the planner has or is about to receive
of the costmap is the costmap before the static output (`KnowsMap`), and the update on its way, kept back or applied
last is one that shows all that has been redrawn since (`KnowsUpdate`, `Shows`). An update kept back by an older costmap makes the cases:
either it is drawn when its costmap comes, or that costmap makes it obsolete. Outside of the update nothing of a local map is left
(`DrawnFrom`), so there the planner has to know as much from the costmap (`OutsideIsKnown`). This needs the hypothesis
`UnknownAsPlanned` besides `OneOverlayLayer`: an unknown handler behind the static output gives unknown cells no higher cost than `unknown_cost`
of the planner, and does not fill what a stop of the propagation has made unknown. Without it the property is false: a handler of cost 80 between the static
output and the footprint makes cells cost 80 that the planner, with `unknown_cost` 50, takes for 50, and no update
mentions them (TLC finds this in a few steps).

**Limiter** (`MotionProofs`). Proved are `TypeOK`, `DataLossStops` and `CloudNotMixed` for
every period, timeout and delay; `LimitHolds` for all parameters as well; and `StaleCloudStops` if
stamps are fresh on arrival (`FreshStamps`). `LimitHolds` becomes inductive with
`LimitInv`: while a limit is demanded, what is left of the hold time and the time since the prediction
make up the hold time, which is no shorter than a period of `freq` (`HoldOf`).
`StaleCloudStops` becomes inductive with `AgeInv`: the age of the cloud exceeds the
timeout by no more than the time since the prediction was last due. `LimitHolds` does not say that a limit lasts
until the next prediction: it does not if the timer is later than `hold_`, or if `freq` was raised, which renews `hold_` but not the
timer; and every change of the parameters drops the limit (`r_lim_ = 1.0`). The property stops there (`forgotten`).

**Assumptions.** Each component with a theorem names what it assumes of its constants, and TLC evaluates it on the
instances of the runs: `CoreAssumption`, `NodeAssumption`, `LimiterAssumption`, `SearchAssumption`,
`MemoryAssumption`, `OdometryAssumption`, `JoystickAssumption`, `TrackerAssumption`, `PatrolAssumption`, `StoreAssumption`,
`LocalMapAssumption`, `CropperAssumption`, `OrganizerAssumption`, `LayersAssumption` and
`MapsAssumption`. They are types but for these: timers are late by less than a period; the graph of a search is
finite and the cost of a way without a circle is below the largest `float`; a chain of layers is one that
`Costmap3dHandler` builds, with one static output and the update output at its end; the cells of the maps of floors
stay cells when rows are turned upside down. The hypotheses of theorems are `FreshStamps`,
`OneOverlayLayer` and `UnknownAsPlanned`; the passing runs satisfy each of them.

**Only model-checked.** Liveness (`OldPathWithdrawn`, `GivesUpWhileMapped`, `OldCostmapStops`, `IdleStops`,
`CancelEnds`, `PatrolFinishesUnlessCanceled`) is out of the prover's reach. So are
`DistanceMap` and `Planner2dof`, whose searches are RECURSIVE operators. `DistancesHold` is true up to the wall's thickness only and would
need the geometry of an update as a hypothesis; `PlansAreSound` rests on the lengths and roundings of straight ways, square roots among them.
`JoinsAhead` (`StartPrediction`) sums times along the path and depends on which paths there are:
where a path comes by a place again, which strip is the nearest decides. `GoalMeansWalked` (`TrajectoryTracker`)
likewise depends on the distances between the poses of a path and the tolerances.

## 5. Not modelled

`PROJECT.json` lists every component with the reason. In `planner_3d`: the real costs of curves
(motion primitives, caches), the hysteresis map, `makePlanOnDemand`, metrics
and markers, and the status as it is published. In
`safety_limiter`: the geometry of the prediction, diagnostics and the velocity caps.
In `costmap_cspace`: polygon geometry, two of three dimensions, stamps, the debug
cloud. In `trajectory_tracker`: the lateral control law. In `track_odometry`: the
Kalman filter of the slip and the filter that takes heights back to zero (`z_filter_timeconst`, off by default).
Of the trajectory server: a saver that empties the file between `tellg` and `read` of `loadFile`
(`ros2_trajectory_server.cpp:104`), after which what the buffer held is decoded, and the filter of the poses. Components without state worth a model:
`tf_projection`, `pose_transform`, `obj_to_pointcloud`, the jump detector's arithmetic, `dummy_robot`,
launch files. Tests are read, not modelled.

## 6. Plan

1. Done: all modules of section 2, with the proofs of section 4.
2. Models left: the hysteresis map of `planner_3d` (`planner_3d_core.cpp:574-617, 930-937,
   1426-1473`) and the jump detector as a part of `RememberedCosts`.
3. Proofs left: `JoinsAhead` under a hypothesis on the paths, which a proof attempt has to find; `DistancesHold`
   under one on the map, after the erasing of `DistanceMap` is written without RECURSIVE.
