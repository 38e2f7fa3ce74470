------------------------------- MODULE GridAstar -------------------------------
(***************************************************************************)
(* The best-first search of the planners (GridAstar::search), on a graph.   *)
(* search_task_num_ nodes are expanded at a time, by threads that read the  *)
(* same costs g; their improvements are applied afterwards, one thread      *)
(* after the other.                                                         *)
(*                                                                          *)
(* A problem is the arguments of search and the settings: the costs of the  *)
(* graph's edges (a negative cost cannot be passed), the costs of the       *)
(* starts, the estimated costs to the end, search_task_num_ (tasks),        *)
(* queue_size_limit_ (limit) and cost_leave (leave).                        *)
(***************************************************************************)
EXTENDS Integers, FiniteSets, Sequences, SequencesExt

CONSTANTS
  Nodes,     \* grid cells
  Goal,      \* the end of the search
  Problems,  \* [cost, starts, estim, tasks, limit, leave]
  Threads,   \* threads of the omp team
  Inf        \* std::numeric_limits<float>::max()

\* A problem on the graph; edges may have a negative cost.
IsProblem(p) ==
  /\ DOMAIN p.cost \subseteq Nodes \X Nodes /\ \A e \in DOMAIN p.cost : p.cost[e] \in Int
  /\ DOMAIN p.starts \subseteq Nodes /\ \A v \in DOMAIN p.starts : p.starts[v] \in Nat
  /\ p.estim \in [Nodes -> Nat]
  /\ p.tasks \in Nat \ {0} /\ p.limit \in Nat /\ p.leave \in Int

\* No cost along a way without a cycle comes near to Inf.
CostsFit(p) ==
  \E most \in 0..Inf :
    /\ most * (Cardinality(Nodes) + 1) < Inf
    /\ \A e \in DOMAIN p.cost : p.cost[e] <= most
    /\ \A v \in DOMAIN p.starts : p.starts[v] <= most

ASSUME SearchAssumption ==
  /\ IsFiniteSet(Nodes) /\ Goal \in Nodes
  /\ Threads \in Nat \ {0} /\ Inf \in Nat
  /\ \A p \in Problems : IsProblem(p) /\ CostsFit(p)

VARIABLES
  problem,  \* the call
  g,        \* g_
  real,     \* history: g before it was closed
  parents,  \* parents_: a function on the nodes that have a parent
  open,     \* open_: records [p, raw, v]
  best,     \* better and cost_estim_min: a node and an estimate
  centers,  \* the nodes to expand, a sequence of entries
  work,     \* what the thread in the critical section has still to apply
  rest,     \* what the threads that wait for it have
  phase,    \* where the search is
  path      \* the path it returns, from findPath's end on

costs == <<g, real>>
tasks == <<centers, work, rest>>
vars  == <<problem, costs, parents, open, best, tasks, phase, path>>

Closed == -1    \* g of a node that cannot improve anything

Phases == {"call", "fetch", "expand", "apply",
           "refused", "found", "failed", "aborted"}

EntryType  == [p : Nat, raw : Nat, v : Nodes]
UpdateType == [from : Nodes, v : Nodes, raw : Nat]
WorkType   == [updates : SUBSET UpdateType, dont : SUBSET Nodes]

TypeOK ==
  /\ problem \in Problems
  /\ g \in [Nodes -> Closed..Inf] /\ real \in [Nodes -> 0..Inf]
  /\ DOMAIN parents \subseteq Nodes /\ \A v \in DOMAIN parents : parents[v] \in Nodes
  /\ open \subseteq EntryType
  /\ best[1] \in Nodes
  /\ centers \in Seq(EntryType)
  /\ work \in WorkType /\ rest \subseteq WorkType
  /\ phase \in Phases
  /\ path \in Seq(Nodes)

StartNodes == DOMAIN problem.starts
Entry(v, raw) == [p |-> raw + problem.estim[v], raw |-> raw, v |-> v]

-----------------------------------------------------------------------------
(* search *)

NoWork == [updates |-> {}, dont |-> {}]

Init ==
  /\ problem \in Problems
  /\ g = [v \in Nodes |-> Inf] /\ real = g /\ parents = <<>> /\ open = {}
  /\ best = <<Goal, Inf>> /\ centers = <<>> /\ work = NoWork /\ rest = {}
  /\ phase = "call" /\ path = <<>>

Nearest(S) == {v \in S : \A u \in S : problem.estim[v] <= problem.estim[u]}

Call ==
  /\ phase = "call"
  /\ IF StartNodes = {} \/ Goal \in StartNodes
     THEN phase' = "refused" /\ UNCHANGED <<costs, open, best>>
     ELSE /\ g' = [v \in Nodes |-> IF v \in StartNodes THEN problem.starts[v] ELSE Inf]
          /\ real' = g'
          /\ open' = {Entry(v, problem.starts[v]) : v \in StartNodes}
          /\ best' \in {<<v, problem.estim[v]>> : v \in Nearest(StartNodes)}
          /\ phase' = "fetch"
  /\ UNCHANGED <<problem, parents, tasks, path>>

IsTop(c) == \A o \in open : c.p <= o.p

Leaves(c) == c.v = Goal \/ c.p - c.raw < problem.leave

Enough == Len(centers) = problem.tasks \/ open = {}

\* One thread takes the nodes to expand, until the end is among them.
Fetch ==
  /\ phase = "fetch" /\ ~Enough
  /\ \E c \in open :
       /\ IsTop(c)
       /\ open' = open \ {c}
       /\ IF Leaves(c)
          THEN /\ phase' = "found"
               /\ path' = <<c.v>>
               /\ UNCHANGED centers
          ELSE /\ centers' = Append(centers, c)
               /\ UNCHANGED <<phase, path>>
  /\ UNCHANGED <<problem, costs, parents, best, work, rest>>

\* Without any node left the search has failed; the progress callback may also
\* abort it.  The best path is what return_best asks for.
Fetched ==
  /\ phase = "fetch" /\ Enough
  /\ \/ phase' = IF centers = <<>> THEN "failed" ELSE "expand"
     \/ phase' = "aborted"
  /\ path' = IF phase' = "expand" THEN path ELSE <<best[1]>>
  /\ UNCHANGED <<problem, costs, parents, open, best, tasks>>

\* Mutant: an entry as good as g is taken for a stale one.
IsFreshStrictly(c) == c.raw < g[c.v]

IsFresh(c) == c.raw <= g[c.v]

Edge(u, v) == <<u, v>> \in DOMAIN problem.cost /\ problem.cost[<<u, v>>] >= 0

\* Mutant: the cost of the node itself is not compared.
MayImproveUnchecked(c, v) == Edge(c.v, v) /\ g[v] = Inf

MayImprove(c, v) ==
  /\ Edge(c.v, v) /\ g[v] >= g[c.v]
  /\ g[v] > c.raw + problem.cost[<<c.v, v>>]

Updates(c) ==
  {[from |-> c.v, v |-> v, raw |-> c.raw + problem.cost[<<c.v, v>>]] :
     v \in {u \in Nodes : IsFresh(c) /\ MayImprove(c, u)}}

\* What a thread has to apply for its nodes, the updates in any order: nodes that
\* improve nothing are closed.
Applied(cs) ==
  [updates |-> UNION {Updates(c) : c \in cs},
   dont    |-> {c.v : c \in {d \in cs : IsFresh(d) /\ Updates(d) = {}}}]

\* The threads take contiguous shares of the nodes.
Shares ==
  {s \in [DOMAIN centers -> 1..Threads] : \A i, j \in DOMAIN centers : i <= j => s[i] <= s[j]}
Share(s, t) == {centers[i] : i \in {j \in DOMAIN centers : s[j] = t}}

\* All threads evaluate their nodes on the same g, then one enters the critical
\* section.  The node nearest to the end is shared without a lock: any nearer one
\* may remain, with any estimate.
Expand ==
  /\ phase = "expand"
  /\ \E s \in Shares :
       LET all == {Applied(Share(s, t)) : t \in 1..Threads}
       IN  \E w \in all : work' = w /\ rest' = all \ {w}
  /\ LET near == {c \in ToSet(centers) : IsFresh(c) /\ c.p - c.raw < best[2]}
     IN  IF near = {} THEN UNCHANGED best
         ELSE best' \in {<<c.v, d.p - d.raw>> : c, d \in near}
  /\ centers' = <<>>
  /\ phase' = "apply"
  /\ UNCHANGED <<problem, costs, parents, open, path>>

\* Above the limit the last element of the heap's array is dropped: any entry
\* but the top.
Limited(S) ==
  IF problem.limit > 0 /\ Cardinality(S) > problem.limit
  THEN {S \ {c} : c \in {x \in S : \E y \in S \ {x} : y.p <= x.p}}
  ELSE {S}

Apply ==
  /\ phase = "apply"
  /\ \E u \in work.updates :
       /\ work' = [work EXCEPT !.updates = @ \ {u}]
       /\ IF g[u.v] <= u.raw THEN UNCHANGED <<costs, parents, open>>
          ELSE /\ g' = [g EXCEPT ![u.v] = u.raw] /\ real' = [real EXCEPT ![u.v] = u.raw]
               /\ parents' = [v \in DOMAIN parents \cup {u.v} |->
                                IF v = u.v THEN u.from ELSE parents[v]]
               /\ open' \in Limited(open \cup {Entry(u.v, u.raw)})
  /\ UNCHANGED <<problem, best, centers, rest, phase, path>>

\* The end of the critical section, and the next thread in it.
Applies ==
  /\ phase = "apply" /\ work.updates = {}
  /\ g' = [v \in Nodes |-> IF v \in work.dont THEN Closed ELSE g[v]]
  /\ IF rest = {} THEN phase' = "fetch" /\ work' = NoWork /\ UNCHANGED rest
     ELSE /\ \E w \in rest : work' = w /\ rest' = rest \ {w}
          /\ UNCHANGED phase
  /\ UNCHANGED <<problem, real, parents, open, best, centers, path>>

-----------------------------------------------------------------------------
(* findPath: the way back from the last node of the path, in the end; every  *)
(* parent is used once, and the first start that is met is its beginning     *)

Unused  == DOMAIN parents \ {path[i] : i \in 2..Len(path)}
WayEnds == Head(path) \in StartNodes \/ Head(path) \notin Unused

findPath ==
  /\ phase \in {"found", "failed", "aborted"} /\ ~WayEnds
  /\ path' = <<parents[Head(path)]>> \o path
  /\ UNCHANGED <<problem, costs, parents, open, best, tasks, phase>>

Next == Call \/ Fetch \/ Fetched \/ Expand \/ Apply \/ Applies \/ findPath

Spec == Init /\ [][Next]_vars

-----------------------------------------------------------------------------
(* Properties *)

\* A search that gives up has no way to the end, however the nodes of a round
\* were shared by the threads and whatever was closed in the same round: the
\* starts are in a set of nodes that no edge leads out of.
FailsOnlyWithoutWay ==
  phase = "failed" /\ problem.limit = 0 =>
    \E S \in SUBSET Nodes :
      /\ StartNodes \subseteq S /\ Goal \notin S
      /\ \A u \in S, v \in Nodes : Edge(u, v) => v \in S

\* The estimate never exceeds the cost of an edge.
Consistent(p) ==
  \A e \in DOMAIN p.cost : p.cost[e] >= 0 => p.estim[e[1]] <= p.cost[e] + p.estim[e[2]]

\* One node is expanded at a time, to the end itself, from a single start and with
\* an unbounded queue.
SearchesExactly ==
  /\ problem.leave = 0 /\ problem.limit = 0 /\ problem.tasks = 1
  /\ Cardinality(StartNodes) = 1 /\ Consistent(problem)

\* What a way to v costs at least, once the end is found.
AtLeast(v) ==
  LET rest_of_best == real[Goal] + problem.estim[Goal] - problem.estim[v]
  IN  IF real[v] < rest_of_best THEN real[v] ELSE rest_of_best

\* The path that is returned is a walk from a start.  If the search is exact there
\* is no cheaper one: its edges cost what AtLeast grows by along them, and AtLeast
\* grows by more along no edge.
ReturnsShortestWalk ==
  phase = "found" =>
    /\ WayEnds => Head(path) \in StartNodes
    /\ \A i \in 1..(Len(path) - 1) : Edge(path[i], path[i + 1])
    /\ problem.leave = 0 => Last(path) = Goal
    /\ SearchesExactly =>
         /\ \A s \in StartNodes : AtLeast(s) = problem.starts[s]
         /\ \A u, v \in Nodes :
              Edge(u, v) => AtLeast(v) <= AtLeast(u) + problem.cost[<<u, v>>]
         /\ \A i \in 1..(Len(path) - 1) :
              AtLeast(path[i + 1]) = AtLeast(path[i]) + problem.cost[<<path[i], path[i + 1]>>]
=============================================================================
