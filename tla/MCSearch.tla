-------------------------------- MODULE MCSearch --------------------------------
(***************************************************************************)
(* The parts of the planners that search, each by itself: part is the one   *)
(* that a behaviour is about, the others stay in one initial state.         *)
(***************************************************************************)
EXTENDS DistanceMap, GridAstar, RememberedCosts

VARIABLES part,
  previous, robot, next, blocked, left, from, kept

predict == <<previous, robot, next, blocked, left, from, kept>>

-----------------------------------------------------------------------------
(* A small map with a wall that is thicker than what an update looks at *)

Circle  == {v \in (-2..2) \X (-2..2) : v[1] * v[1] + v[2] * v[2] \in 1..4}

MCDiffs ==
  {[d   |-> v,
    len |-> CASE v[1] * v[1] + v[2] * v[2] = 1 -> 2
              [] v[1] * v[1] + v[2] * v[2] = 2 -> 3
              [] OTHER -> 4,
    pos |-> IF v[1] * v[1] + v[2] * v[2] = 4
            THEN {<<0, 0>>, <<v[1] \div 2, v[2] \div 2>>} ELSE {<<0, 0>>}] : v \in Circle}

MCTerrains == {[p \in MapCells |-> IF p[1] \in 1..3 /\ p[2] < 3 THEN 100 ELSE 0]}
MCRects    == {<<<<1, 1>>, <<0, 0>>>>, <<<<0, 1>>, <<4, 1>>>>, <<<<2, 1>>, <<3, 2>>>>}
MCChanges  == {{}} \cup {{<<p, c>>} : p \in MapCells, c \in {0, 100}}
MCStarts   == {<<0, 0>>, <<1, 3>>}
MCGoals    == {<<0, 2>>, <<2, 3>>}

-----------------------------------------------------------------------------
(* Graphs of five nodes, with one-way edges and edges that are no use *)

MCNodes == {"s", "a", "b", "c", "t"}

MCCosts ==
  {[e \in DOMAIN o |-> o[e]] :
     o \in {(<<"s", "a">> :> 1) @@ (<<"s", "b">> :> 3) @@ (<<"a", "b">> :> ab)
              @@ (<<"b", "a">> :> 1) @@ (<<"a", "c">> :> 2) @@ (<<"b", "c">> :> bc)
              @@ (<<"c", "b">> :> 1) @@ (<<"c", "t">> :> ct) @@ (<<"b", "t">> :> bt)
              @@ (<<"s", "t">> :> st) :
              ab \in {1, 4}, bc \in {1, 3}, ct \in {1, -1}, bt \in {2, 6, -1}, st \in {9, -1}}}

MCStartCosts == {[v \in {"s"} |-> 0], "s" :> 0 @@ "b" :> 2}
MCEstims == {[v \in MCNodes |-> 0], [s |-> 3, a |-> 2, b |-> 2, c |-> 1, t |-> 0]}

MCProblems ==
  [cost : MCCosts, starts : MCStartCosts, estim : MCEstims, tasks : {1, 3},
   limit : {0}, leave : {0}]
  \cup
  [cost : MCCosts, starts : {[v \in {"s"} |-> 0]}, estim : MCEstims, tasks : {2},
   limit : {2}, leave : {2}]
  \cup
  [cost : {CHOOSE c \in MCCosts : TRUE}, starts : {[v \in {"t"} |-> 0]}, estim : MCEstims,
   tasks : {1}, limit : {0}, leave : {0}]

-----------------------------------------------------------------------------
(* Paths that go ahead, turn in place in the middle or at the ends, switch    *)
(* back once or several times, or come back by the same places               *)

P(x, yaw, centre) == [x |-> x, yaw |-> yaw, centre |-> centre]
MCPaths ==
  {<<P(0,0,TRUE), P(1,0,FALSE), P(2,0,TRUE), P(3,0,FALSE), P(4,0,TRUE), P(5,0,FALSE), P(6,0,TRUE)>>,
   <<P(0,0,TRUE), P(2,0,TRUE), P(2,2,TRUE), P(4,2,TRUE), P(6,2,TRUE)>>,
   <<P(0,2,TRUE), P(0,0,TRUE), P(2,0,TRUE), P(4,0,TRUE), P(6,0,TRUE), P(6,2,TRUE)>>,
   <<P(0,0,TRUE), P(2,0,TRUE), P(4,0,TRUE), P(3,0,FALSE), P(2,0,TRUE)>>,
   <<P(0,0,TRUE), P(3,0,TRUE), P(5,0,FALSE), P(4,0,TRUE), P(1,0,TRUE), P(3,0,FALSE), P(6,0,TRUE)>>,
   <<P(0,0,TRUE), P(2,0,TRUE), P(4,0,TRUE), P(2,0,TRUE), P(4,0,TRUE), P(6,0,TRUE)>>,
   <<P(2,0,TRUE), P(4,0,TRUE), P(4,2,TRUE), P(2,2,TRUE), P(0,2,TRUE)>>,
   <<P(0,0,TRUE)>>}

Predictor == INSTANCE StartPrediction WITH
  Paths <- MCPaths, HalfTurn <- 2, DistStop <- 1, Prediction <- 2, SwitchBack <- 5,
  Obstacles <- {{}, {2}, {4}}, path <- previous, start <- from

-----------------------------------------------------------------------------
(* Local maps of two by two cells with an obstacle, unknown or free, and one  *)
(* across the edge; hit and miss probabilities of 0.95 and 0.19              *)

Row == 4
Block(x, size, c) ==
  [min |-> <<x, 0>>, size |-> size, cost |-> [p \in (0..(Row - 1)) \X (0..1) |-> c[p[2] + 1]]]
MCUpdates ==
  {Block(x, <<2, 2>>, c) : x \in {0, 2}, c \in {<<100, 0>>, <<0, 100>>, <<-1, 0>>}}
    \cup {Block(3, <<2, 2>>, <<0, 0>>), Block(0, <<0, 0>>, <<0, 0>>)}

MCCostAt == [o \in 0..3 |-> <<0, 28, 72, 100>>[o + 1]]
MCRobots == {<<0, 0>>, <<2, 1>>, <<-2, 0>>}

-----------------------------------------------------------------------------
AnyPart ==
  /\ part \in {"distance map", "graph", "start", "memory"}
  /\ Init /\ DistanceInit /\ Predictor!Init /\ MemoryInit
  /\ part # "graph" => problem = CHOOSE p \in MCProblems : TRUE
  /\ part # "start" => blocked = {}

MapStep ==
  part = "distance map" /\ DistanceNext /\ UNCHANGED <<part, vars, predict, memoryVars>>
GraphStep ==
  part = "graph" /\ Next /\ UNCHANGED <<part, distanceVars, predict, memoryVars>>
StartStep ==
  part = "start" /\ Predictor!Next /\ UNCHANGED <<part, vars, distanceVars, memoryVars>>
MemoryStep ==
  part = "memory" /\ MemoryNext /\ UNCHANGED <<part, vars, distanceVars, predict>>

PartNext == MapStep \/ GraphStep \/ StartStep \/ MemoryStep

PartSpec == AnyPart /\ [][PartNext]_<<part, vars, distanceVars, predict, memoryVars>>

-----------------------------------------------------------------------------
(* The property of the predictor; those of the others are in their modules *)

\* The next plan starts ahead of the robot and joins on to what is kept.
JoinsAhead == Predictor!JoinsAhead
=============================================================================
