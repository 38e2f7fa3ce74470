---------------------------- MODULE GridAstarProofs ----------------------------
(***************************************************************************)
(* The graph search, for every graph, every number of threads and every     *)
(* number of nodes expanded at a time: what it returns is a walk from a     *)
(* start, it fails only if there is no way, and an exact search returns the *)
(* shortest walk.                                                           *)
(***************************************************************************)
EXTENDS GridAstar, FiniteSetTheorems, TLAPS

-----------------------------------------------------------------------------
(* What is under way *)

\* The updates and the nodes to close that the threads have still to apply.
Pending == work.updates \cup UNION {w.updates : w \in rest}
Doomed  == work.dont \cup UNION {w.dont : w \in rest}

Centers == {centers[i] : i \in DOMAIN centers}
Entries == open \cup Centers

Reached == {v \in Nodes : real[v] # Inf}

Cost(u, v) == problem.cost[<<u, v>>]

Running == {"fetch", "expand", "apply"}
Over    == {"found", "failed", "aborted"}

\* What each phase has of it.
Phased ==
  /\ phase # "apply" => work = NoWork /\ rest = {}
  /\ phase \in {"call", "apply"} => centers = <<>>
  /\ phase \in {"call", "refused"} => /\ Reached = {} /\ open = {}
                                      /\ parents = <<>> /\ path = <<>>
  /\ phase \in Running \cup Over => StartNodes # {} /\ Goal \notin StartNodes
  /\ centers # <<>> => phase \in {"fetch", "expand", "aborted", "found"}

\* g is the cost of the best way so far, until the node is closed.
CostsHold ==
  /\ \A v \in Nodes : IF g[v] = Closed THEN real[v] # Inf ELSE real[v] = g[v]
  /\ \A c \in Entries : /\ real[c.v] <= c.raw /\ c.raw < Inf
                        /\ c.p = c.raw + problem.estim[c.v]
  /\ \A u \in Pending : /\ Edge(u.from, u.v) /\ u.raw < Inf
                        /\ real[u.from] + Cost(u.from, u.v) <= u.raw
  /\ \A v \in Doomed : real[v] # Inf

\* Parents lead back along edges to the starts: nowhere do they lead in a circle.
Grounded ==
  \A S \in SUBSET (DOMAIN parents \ StartNodes) :
    S # {} => \E v \in S : parents[v] \notin S

ParentsLeadBack ==
  /\ Reached \subseteq StartNodes \cup DOMAIN parents
  /\ \A v \in DOMAIN parents :
       /\ v \in Reached /\ Edge(parents[v], v)
       /\ real[parents[v]] + Cost(parents[v], v) <= real[v]
  /\ Grounded
  /\ phase \in Running \cup Over => best[1] \in Reached

PathLeadsBack ==
  phase \in Over =>
    /\ path # <<>> /\ Head(path) \in Reached
    /\ \A i \in 1..(Len(path) - 1) :
         /\ path[i + 1] \in DOMAIN parents \ StartNodes
         /\ path[i] = parents[path[i + 1]]
    /\ phase = "found" /\ problem.leave = 0 => path[Len(path)] = Goal

-----------------------------------------------------------------------------
(* Nothing is missed *)

Most == CHOOSE most \in 0..Inf :
          /\ most * (Cardinality(Nodes) + 1) < Inf
          /\ \A e \in DOMAIN problem.cost : problem.cost[e] <= most
          /\ \A v \in DOMAIN problem.starts : problem.starts[v] <= most

\* Costs grow by no more than Most with every node that is reached.
Bound == Most * Cardinality(Reached)

Bounded ==
  /\ \A v \in Reached : real[v] <= Bound
  /\ \A c \in Entries : c.raw <= Bound
  /\ \A u \in Pending : u.raw <= Bound + Most

Looked(v) ==
  \A w \in Nodes : Edge(v, w) => w \in Reached \/ \E u \in Pending : u.v = w

NothingMissed ==
  problem.limit = 0 =>
    /\ \A v \in Doomed : \A w \in Nodes : Edge(v, w) => w \in Reached
    /\ \A c \in Centers : c.v # Goal
    /\ phase \in Running \cup {"failed"} =>
         /\ StartNodes \subseteq Reached
         /\ \A v \in Reached : \/ \E c \in Entries : c.v = v /\ c.raw <= g[v]
                               \/ Looked(v)
         /\ Goal \in Reached => \E c \in open : c.v = Goal
    /\ phase = "failed" => open = {} /\ centers = <<>>

-----------------------------------------------------------------------------
(* The shortest walk *)

Through(v) == real[v] + problem.estim[v]

\* A node still to be expanded with its cost.
Live(v) == \E c \in Entries : c.v = v /\ c.raw = real[v]

Done == {v \in Reached : ~Live(v)}

\* What is done is best first: nothing that is still to come costs less.
BestFirst ==
  /\ \A v \in Done : /\ \A c \in Entries : Through(v) <= c.p
                     /\ \A u \in Pending : Through(v) <= u.raw + problem.estim[u.v]
  /\ \A c \in Centers : c \notin open /\ \A o \in open : c.p <= o.p
  /\ \A v \in Nodes : g[v] = Closed => v \in Done
  /\ \A v \in Doomed : v \in Done
  /\ Doomed # {} => Pending = {}

\* What is done has improved all nodes around, or will.
Improved ==
  \A v \in Done, w \in Nodes :
    Edge(v, w) => \/ real[w] <= real[v] + Cost(v, w)
                  \/ \E u \in Pending : u.v = w /\ u.raw <= real[v] + Cost(v, w)

FromStart ==
  \A s \in StartNodes :
    /\ real[s] = problem.starts[s]
    /\ \A v \in Nodes : real[s] <= real[v]
    /\ \A c \in Entries : Through(s) <= c.p
    /\ \A u \in Pending : Through(s) <= u.raw + problem.estim[u.v]

GoalIsOpen == Goal \in Reached => \E c \in open : c.v = Goal /\ c.raw = real[Goal]

ExactSoFar == BestFirst /\ Improved /\ FromStart /\ GoalIsOpen /\ Len(centers) <= 1

Exact == SearchesExactly /\ phase \in Running => ExactSoFar

ExactlyFound ==
  SearchesExactly /\ phase = "found" =>
    /\ \A s \in StartNodes : AtLeast(s) = problem.starts[s]
    /\ \A u, v \in Nodes : Edge(u, v) => AtLeast(v) <= AtLeast(u) + Cost(u, v)
    /\ \A i \in DOMAIN path : AtLeast(path[i]) = real[path[i]]

SearchInv == TypeOK /\ Phased /\ CostsHold /\ ParentsLeadBack /\ PathLeadsBack

-----------------------------------------------------------------------------
(* The constants *)

\* What is known of the problem: its edges, its costs and what they add up to.
LEMMA ProblemFacts ==
  ASSUME problem \in Problems
  PROVE  /\ Inf \in Nat /\ Goal \in Nodes /\ Threads \in Nat \ {0} /\ IsFiniteSet(Nodes)
         /\ StartNodes \subseteq Nodes
         /\ problem.estim \in [Nodes -> Nat]
         /\ problem.tasks \in Nat \ {0} /\ problem.limit \in Nat /\ problem.leave \in Int
BY SearchAssumption DEF IsProblem, StartNodes

\* An edge leads from node to node, at no negative cost.
LEMMA EdgeFacts ==
  ASSUME problem \in Problems, NEW u, NEW v, Edge(u, v)
  PROVE  u \in Nodes /\ v \in Nodes /\ Cost(u, v) \in Nat
<1>1. IsProblem(problem)
  BY SearchAssumption
<1>2. <<u, v>> \in DOMAIN problem.cost /\ problem.cost[<<u, v>>] >= 0
  BY DEF Edge
<1>3. <<u, v>> \in Nodes \X Nodes /\ problem.cost[<<u, v>>] \in Int
  BY <1>1, <1>2 DEF IsProblem
<1>4. QED
  BY <1>2, <1>3 DEF Cost

\* Most bounds the costs of edges and starts, and a way through all nodes stays below Inf.
LEMMA MostFacts ==
  ASSUME problem \in Problems
  PROVE  /\ Most \in Nat /\ Cardinality(Nodes) \in Nat
         /\ Most * (Cardinality(Nodes) + 1) < Inf
         /\ \A u, v : Edge(u, v) => Cost(u, v) <= Most
         /\ \A v \in StartNodes : /\ problem.starts[v] \in Nat
                                  /\ problem.starts[v] <= Most
                                  /\ problem.starts[v] < Inf
<1>1. IsProblem(problem) /\ CostsFit(problem) /\ Inf \in Nat
  BY SearchAssumption
<1>2. Cardinality(Nodes) \in Nat
  BY SearchAssumption, FS_CardinalityType
<1>3. /\ Most \in 0..Inf
      /\ Most * (Cardinality(Nodes) + 1) < Inf
      /\ \A e \in DOMAIN problem.cost : problem.cost[e] <= Most
      /\ \A v \in DOMAIN problem.starts : problem.starts[v] <= Most
  BY <1>1 DEF CostsFit, Most
<1>4. Most < Inf
  <2>1. \A m, n \in Nat : m * (n + 1) = m * n + m /\ m * n >= 0
    OBVIOUS
  <2>2. Most \in Nat /\ Most * Cardinality(Nodes) \in Nat
    BY <1>1, <1>2, <1>3
  <2>3. Most * (Cardinality(Nodes) + 1) = Most * Cardinality(Nodes) + Most
    BY <1>2, <2>1, <2>2
  <2>4. QED
    BY <1>1, <1>3, <2>2, <2>3
<1>5. QED
  BY <1>1, <1>2, <1>3, <1>4 DEF IsProblem, StartNodes, Edge, Cost

-----------------------------------------------------------------------------
(* The search keeps its invariant, action by action *)

\* The invariant holds at the call.
LEMMA InitSearch ==
  ASSUME Init
  PROVE  SearchInv
<1>1. /\ problem \in Problems /\ Inf \in Nat /\ Goal \in Nodes
      /\ g = [v \in Nodes |-> Inf] /\ real = g /\ parents = <<>> /\ open = {}
      /\ best = <<Goal, Inf>> /\ centers = <<>> /\ work = NoWork /\ rest = {}
      /\ phase = "call" /\ path = <<>>
  BY SearchAssumption DEF Init
<1>2. /\ DOMAIN parents = {} /\ Centers = {} /\ Pending = {} /\ Doomed = {} /\ Reached = {}
  BY <1>1 DEF Centers, Pending, Doomed, NoWork, Reached
<1>3. TypeOK
  BY <1>1, <1>2 DEF TypeOK, Closed, EntryType, WorkType, NoWork, Phases
<1>4. Phased
  BY <1>1, <1>2 DEF Phased, Running, Over
<1>5. CostsHold
  BY <1>1, <1>2 DEF CostsHold, Entries, Closed
<1>6. ParentsLeadBack /\ PathLeadsBack
  BY <1>1, <1>2 DEF ParentsLeadBack, PathLeadsBack, Grounded, Running, Over
<1>7. QED
  BY <1>3, <1>4, <1>5, <1>6 DEF SearchInv

\* search begins with its starts: each is reached at its own cost.
LEMMA CallKeeps ==
  ASSUME SearchInv, Call
  PROVE  SearchInv'
<1>1. /\ phase = "call"
      /\ UNCHANGED <<problem, parents, centers, work, rest, path>>
  BY DEF Call, tasks
<1>2. /\ TypeOK /\ problem \in Problems /\ centers = <<>> /\ work = NoWork /\ rest = {}
      /\ Reached = {} /\ open = {} /\ parents = <<>> /\ path = <<>>
  BY <1>1 DEF SearchInv, Phased, TypeOK
<1>3. /\ DOMAIN parents = {} /\ Centers = {} /\ Pending = {} /\ Doomed = {}
  BY <1>2 DEF Centers, Pending, Doomed, NoWork
<1>4. DOMAIN parents' = {} /\ Centers' = {} /\ Pending' = {} /\ Doomed' = {}
  BY <1>1, <1>3 DEF Centers, Pending, Doomed
<1>5. CASE StartNodes = {} \/ Goal \in StartNodes
  <2>1. phase' = "refused" /\ UNCHANGED <<g, real, open, best>>
    BY <1>5 DEF Call, costs
  <2>2. TypeOK'
    BY <1>1, <1>2, <2>1 DEF TypeOK, Phases
  <2>3. Reached' = {}
    BY <1>2, <2>1 DEF Reached
  <2>4. Phased'
    BY <1>1, <1>2, <2>1, <2>3 DEF Phased, Running, Over
  <2>5. CostsHold'
    BY <1>1, <1>2, <1>3, <1>4, <2>1 DEF SearchInv, CostsHold, Entries
  <2>6. ParentsLeadBack' /\ PathLeadsBack'
    BY <1>4, <2>1, <2>3 DEF ParentsLeadBack, PathLeadsBack, Grounded, Running, Over
  <2>7. QED
    BY <2>2, <2>4, <2>5, <2>6 DEF SearchInv
<1>6. CASE ~(StartNodes = {} \/ Goal \in StartNodes)
  <2>1. /\ g' = [v \in Nodes |-> IF v \in StartNodes THEN problem.starts[v] ELSE Inf]
        /\ real' = g'
        /\ open' = {Entry(v, problem.starts[v]) : v \in StartNodes}
        /\ best' \in {<<v, problem.estim[v]>> : v \in Nearest(StartNodes)}
        /\ phase' = "fetch"
    BY <1>6 DEF Call
  <2>2. /\ Inf \in Nat /\ StartNodes \subseteq Nodes /\ problem.estim \in [Nodes -> Nat]
        /\ \A v \in StartNodes : problem.starts[v] \in Nat /\ problem.starts[v] < Inf
    BY <1>2, ProblemFacts, MostFacts
  <2>3. best'[1] \in StartNodes
    BY <2>1 DEF Nearest
  <2>4. /\ g' \in [Nodes -> Closed..Inf] /\ real' \in [Nodes -> 0..Inf]
        /\ \A v \in Nodes : g'[v] = real'[v] /\ g'[v] # Closed
        /\ \A v \in StartNodes : real'[v] = problem.starts[v]
    BY <2>1, <2>2 DEF Closed
  <2>5. \A c \in open' : /\ c \in EntryType /\ c.v \in StartNodes
                         /\ c.raw = problem.starts[c.v] /\ c.p = c.raw + problem.estim[c.v]
    BY <2>1, <2>2 DEF Entry, EntryType
  <2>6. Reached' = StartNodes
    BY <2>1, <2>2 DEF Reached
  <2>7. TypeOK'
    BY <1>1, <1>2, <2>1, <2>2, <2>3, <2>4, <2>5 DEF TypeOK, Phases
  <2>8. StartNodes' = StartNodes
    BY <1>1 DEF StartNodes
  <2>9. Phased'
    BY <1>1, <1>2, <1>6, <2>1, <2>8 DEF Phased, Running, Over
  <2>10. CostsHold'
    BY <1>1, <1>4, <2>2, <2>4, <2>5 DEF CostsHold, Entries
  <2>11. ParentsLeadBack' /\ PathLeadsBack'
    BY <1>4, <2>1, <2>3, <2>6, <2>8 DEF ParentsLeadBack, PathLeadsBack, Grounded, Running, Over
  <2>12. QED
    BY <2>7, <2>9, <2>10, <2>11 DEF SearchInv
<1>7. QED
  BY <1>5, <1>6

\* The node that is taken is the top of the queue.
LEMMA FetchFacts ==
  ASSUME SearchInv, Fetch
  PROVE  /\ phase = "fetch" /\ ~Enough
         /\ UNCHANGED <<problem, g, real, parents, best, work, rest>>
         /\ work = NoWork /\ rest = {} /\ Pending = {} /\ Doomed = {}
         /\ Pending' = {} /\ Doomed' = {} /\ Reached' = Reached /\ StartNodes' = StartNodes
         /\ centers' \in Seq(EntryType)
         /\ \E c \in open :
              /\ c \in EntryType /\ IsTop(c) /\ open' = open \ {c}
              /\ \/ /\ Leaves(c) /\ phase' = "found" /\ path' = <<c.v>>
                    /\ UNCHANGED centers /\ Centers' = Centers
                 \/ /\ ~Leaves(c) /\ UNCHANGED <<phase, path>>
                    /\ Len(centers') = Len(centers) + 1 /\ Centers' = Centers \cup {c}
                    /\ Entries' = Entries
<1>1. PICK c \in open :
       /\ IsTop(c)
       /\ open' = open \ {c}
       /\ IF Leaves(c)
          THEN /\ phase' = "found"
               /\ path' = <<c.v>>
               /\ UNCHANGED centers
          ELSE /\ centers' = Append(centers, c)
               /\ UNCHANGED <<phase, path>>
  BY DEF Fetch
<1>2. /\ phase = "fetch" /\ ~Enough
      /\ UNCHANGED <<problem, g, real, parents, best, work, rest>>
  BY DEF Fetch, costs
<1>3. c \in EntryType /\ work = NoWork /\ rest = {} /\ centers \in Seq(EntryType)
  BY <1>2 DEF SearchInv, TypeOK, Phased
<1>4. /\ Pending = {} /\ Doomed = {} /\ Pending' = {} /\ Doomed' = {}
      /\ Reached' = Reached /\ StartNodes' = StartNodes
  BY <1>2, <1>3 DEF Pending, Doomed, NoWork, Reached, StartNodes
<1>5. CASE Leaves(c)
  <2>1. phase' = "found" /\ path' = <<c.v>> /\ UNCHANGED centers
    BY <1>1, <1>5
  <2>2. QED
    BY <1>1, <1>2, <1>3, <1>4, <1>5, <2>1 DEF Centers
<1>6. CASE ~Leaves(c)
  <2>1. centers' = Append(centers, c) /\ UNCHANGED <<phase, path>>
    BY <1>1, <1>6
  <2>2. /\ centers' \in Seq(EntryType) /\ Len(centers') = Len(centers) + 1
        /\ Centers' = Centers \cup {c}
    BY <1>3, <2>1 DEF Centers
  <2>3. Entries' = Entries
    BY <1>1, <2>2 DEF Entries
  <2>4. QED
    BY <1>1, <1>2, <1>3, <1>4, <1>6, <2>1, <2>2, <2>3
<1>7. QED
  BY <1>5, <1>6

\* Fetching a node only moves its entry, or ends the search with it.
LEMMA FetchKeeps ==
  ASSUME SearchInv, Fetch
  PROVE  SearchInv'
<1>1. PICK c \in open :
       /\ c \in EntryType /\ IsTop(c) /\ open' = open \ {c}
       /\ \/ /\ Leaves(c) /\ phase' = "found" /\ path' = <<c.v>>
             /\ UNCHANGED centers /\ Centers' = Centers
          \/ /\ ~Leaves(c) /\ UNCHANGED <<phase, path>>
             /\ Len(centers') = Len(centers) + 1 /\ Centers' = Centers \cup {c}
             /\ Entries' = Entries
  BY FetchFacts
<1>2. /\ phase = "fetch"
      /\ UNCHANGED <<problem, g, real, parents, best, work, rest>>
      /\ work = NoWork /\ rest = {} /\ centers' \in Seq(EntryType)
      /\ Pending' = Pending /\ Doomed' = Doomed /\ Reached' = Reached /\ StartNodes' = StartNodes
  BY FetchFacts
<1>3. TypeOK /\ problem \in Problems
  BY DEF SearchInv, TypeOK
<1>4. Entries' \subseteq Entries /\ phase' \in {"found", "fetch"}
  BY <1>1, <1>2 DEF Entries
<1>5. c.v \in Reached
  <2>1. real[c.v] <= c.raw /\ c.raw < Inf
    BY <1>1 DEF SearchInv, CostsHold, Entries
  <2>2. Inf \in Nat /\ c.v \in Nodes /\ real[c.v] \in Nat /\ c.raw \in Nat
    BY <1>1, <1>3, ProblemFacts DEF TypeOK, EntryType
  <2>3. QED
    BY <2>1, <2>2 DEF Reached
<1>6. path' \in Seq(Nodes)
  <2>1. c.v \in Nodes /\ path \in Seq(Nodes)
    BY <1>3 DEF TypeOK, EntryType
  <2>2. <<c.v>> \in Seq(Nodes)
    BY <2>1
  <2>3. QED
    BY <1>1, <2>1, <2>2
<1>7. TypeOK'
  BY <1>1, <1>2, <1>3, <1>4, <1>6 DEF TypeOK, Phases
<1>8. Phased'
  BY <1>1, <1>2, <1>4 DEF SearchInv, Phased, Running, Over
<1>9. CostsHold'
  BY <1>2, <1>4 DEF SearchInv, CostsHold, Edge, Cost
<1>10. ParentsLeadBack'
  BY <1>2, <1>4 DEF SearchInv, ParentsLeadBack, Grounded, Running, Over, Edge, Cost
<1>11. PathLeadsBack'
  <2>1. CASE Leaves(c)
    <3>1. path' = <<c.v>> /\ phase' = "found"
      BY <1>1, <2>1
    <3>2. path' # <<>> /\ Len(path') = 1 /\ Head(path') = c.v /\ path'[1] = c.v
      BY <3>1
    <3>3. problem.leave = 0 => c.v = Goal
      <4>1. c.p = c.raw + problem.estim[c.v]
        BY <1>1 DEF SearchInv, CostsHold, Entries
      <4>2. c.raw \in Nat /\ problem.estim[c.v] \in Nat
        BY <1>1, <1>3, ProblemFacts DEF EntryType
      <4>3. QED
        BY <2>1, <4>1, <4>2 DEF Leaves
    <3>4. QED
      BY <1>2, <1>5, <3>1, <3>2, <3>3 DEF PathLeadsBack
  <2>2. CASE ~Leaves(c)
    BY <1>1, <1>2, <2>2 DEF PathLeadsBack, Over
  <2>3. QED
    BY <2>1, <2>2
<1>12. QED
  BY <1>7, <1>8, <1>9, <1>10, <1>11 DEF SearchInv

\* A failed or aborted search ends its path at the best node, which is reached.
LEMMA FetchedKeeps ==
  ASSUME SearchInv, Fetched
  PROVE  SearchInv'
<1>1. /\ phase = "fetch" /\ phase' \in {"failed", "expand", "aborted"}
      /\ path' = IF phase' = "expand" THEN path ELSE <<best[1]>>
      /\ UNCHANGED <<problem, g, real, parents, open, best, centers, work, rest>>
  BY DEF Fetched, costs, tasks
<1>2. /\ Pending' = Pending /\ Doomed' = Doomed /\ Reached' = Reached
      /\ StartNodes' = StartNodes /\ Entries' = Entries
  BY <1>1 DEF Pending, Doomed, Reached, StartNodes, Entries, Centers
<1>3. TypeOK /\ problem \in Problems /\ best[1] \in Nodes /\ best[1] \in Reached
  BY <1>1 DEF SearchInv, TypeOK, ParentsLeadBack, Running
<1>4. TypeOK'
  BY <1>1, <1>3 DEF TypeOK, Phases
<1>5. Phased'
  BY <1>1, <1>2 DEF SearchInv, Phased, Running, Over, Fetched
<1>6. CostsHold' /\ ParentsLeadBack'
  BY <1>1, <1>2 DEF SearchInv, CostsHold, ParentsLeadBack, Grounded, Running, Over, Edge, Cost
<1>7. PathLeadsBack'
  BY <1>1, <1>2, <1>3 DEF PathLeadsBack, Over
<1>8. QED
  BY <1>4, <1>5, <1>6, <1>7 DEF SearchInv

\* The threads together apply what the nodes taken ask for, whatever their shares.
LEMMA ExpandFacts ==
  ASSUME TypeOK, Expand
  PROVE  /\ phase = "expand" /\ phase' = "apply" /\ centers' = <<>>
         /\ UNCHANGED <<problem, g, real, parents, open, path>>
         /\ \A c \in Centers : c \in EntryType
         /\ Pending' = UNION {Updates(c) : c \in Centers}
         /\ Doomed' = {c.v : c \in {d \in Centers : IsFresh(d) /\ Updates(d) = {}}}
         /\ work' \in WorkType /\ rest' \subseteq WorkType
         /\ \A c \in Centers : Updates(c) \subseteq UpdateType
         /\ best' = best \/ \E c \in Centers : best'[1] = c.v
<1>1. /\ phase = "expand" /\ phase' = "apply" /\ centers' = <<>>
      /\ UNCHANGED <<problem, g, real, parents, open, path>>
  BY DEF Expand, costs
<1>2. /\ problem \in Problems /\ centers \in Seq(EntryType)
      /\ Inf \in Nat /\ Threads \in Nat \ {0}
  BY ProblemFacts DEF TypeOK
<1>3. \A c \in Centers : c \in EntryType
  BY <1>2 DEF Centers
<1>4. PICK s \in Shares :
        \E w \in {Applied(Share(s, t)) : t \in 1..Threads} :
          work' = w /\ rest' = {Applied(Share(s, t)) : t \in 1..Threads} \ {w}
  BY DEF Expand
<1> DEFINE all == {Applied(Share(s, t)) : t \in 1..Threads}
<1>5. PICK w \in all : work' = w /\ rest' = all \ {w}
  BY <1>4
<1>6. {work'} \cup rest' = all
  BY <1>5
<1>7. Centers = UNION {Share(s, t) : t \in 1..Threads}
  <2>1. ASSUME NEW c \in Centers
        PROVE  c \in UNION {Share(s, t) : t \in 1..Threads}
    <3>1. PICK i \in DOMAIN centers : c = centers[i]
      BY DEF Centers
    <3>2. s[i] \in 1..Threads
      BY <1>4, <3>1 DEF Shares
    <3>3. c \in Share(s, s[i])
      BY <3>1 DEF Share
    <3>4. QED
      BY <3>2, <3>3
  <2>2. ASSUME NEW t \in 1..Threads
        PROVE  Share(s, t) \subseteq Centers
    BY DEF Share, Centers
  <2>3. QED
    BY <2>1, <2>2
<1>8. Pending' = UNION {Updates(c) : c \in Centers}
  <2>1. Pending' = UNION {x.updates : x \in {work'} \cup rest'}
    BY DEF Pending
  <2>2. \A t \in 1..Threads : Applied(Share(s, t)).updates = UNION {Updates(c) : c \in Share(s, t)}
    BY DEF Applied
  <2>3. UNION {x.updates : x \in all}
          = UNION {UNION {Updates(c) : c \in Share(s, t)} : t \in 1..Threads}
    BY <2>2
  <2>4. UNION {UNION {Updates(c) : c \in Share(s, t)} : t \in 1..Threads}
          = UNION {Updates(c) : c \in Centers}
    BY <1>7
  <2>5. QED
    BY <1>6, <2>1, <2>3, <2>4
<1>9. Doomed' = {c.v : c \in {d \in Centers : IsFresh(d) /\ Updates(d) = {}}}
  <2>1. Doomed' = UNION {x.dont : x \in {work'} \cup rest'}
    BY DEF Doomed
  <2>2. \A t \in 1..Threads :
          Applied(Share(s, t)).dont
            = {c.v : c \in {d \in Share(s, t) : IsFresh(d) /\ Updates(d) = {}}}
    BY DEF Applied
  <2>3. UNION {x.dont : x \in all}
          = UNION {{c.v : c \in {d \in Share(s, t) : IsFresh(d) /\ Updates(d) = {}}} : t \in 1..Threads}
    BY <2>2
  <2>4. UNION {{c.v : c \in {d \in Share(s, t) : IsFresh(d) /\ Updates(d) = {}}} : t \in 1..Threads}
          = {c.v : c \in {d \in Centers : IsFresh(d) /\ Updates(d) = {}}}
    BY <1>7
  <2>5. QED
    BY <1>6, <2>1, <2>3, <2>4
<1>10. ASSUME NEW c \in Centers
       PROVE  Updates(c) \subseteq UpdateType
  <2>1. c \in EntryType
    BY <1>3
  <2>2. ASSUME NEW v \in Nodes, MayImprove(c, v)
        PROVE  c.raw + problem.cost[<<c.v, v>>] \in Nat
    <3>1. Edge(c.v, v)
      BY <2>2 DEF MayImprove
    <3>2. Cost(c.v, v) \in Nat
      BY <1>2, <3>1, EdgeFacts
    <3>3. QED
      BY <2>1, <3>2 DEF Cost, EntryType
  <2>3. ASSUME NEW u \in Updates(c)
        PROVE  u \in UpdateType
    <3>1. PICK v \in Nodes :
            /\ MayImprove(c, v)
            /\ u = [from |-> c.v, v |-> v, raw |-> c.raw + problem.cost[<<c.v, v>>]]
      BY DEF Updates
    <3>2. c.v \in Nodes /\ c.raw + problem.cost[<<c.v, v>>] \in Nat
      BY <2>1, <2>2, <3>1 DEF EntryType
    <3>3. QED
      BY <3>1, <3>2 DEF UpdateType
  <2>4. QED
    BY <2>3
<1>11. \A x \in all : x \in WorkType
  <2>1. ASSUME NEW t \in 1..Threads
        PROVE  Applied(Share(s, t)) \in WorkType
    <3>1. Share(s, t) \subseteq Centers
      BY <1>7
    <3>2. UNION {Updates(c) : c \in Share(s, t)} \subseteq UpdateType
      BY <1>10, <3>1
    <3>3. {c.v : c \in {d \in Share(s, t) : IsFresh(d) /\ Updates(d) = {}}} \subseteq Nodes
      BY <1>3, <3>1 DEF EntryType
    <3>4. QED
      BY <3>2, <3>3 DEF Applied, WorkType
  <2>2. QED
    BY <2>1
<1>12. best' = best \/ \E c \in Centers : best'[1] = c.v
  <2> DEFINE near == {c \in ToSet(centers) : IsFresh(c) /\ c.p - c.raw < best[2]}
  <2>1. ToSet(centers) = Centers
    BY DEF ToSet, Centers
  <2>2. near = {} => best' = best
    BY DEF Expand
  <2>3. near # {} => best' \in {<<c.v, d.p - d.raw>> : c, d \in near}
    BY DEF Expand
  <2>4. QED
    BY <2>1, <2>2, <2>3
<1>13. QED
  BY <1>1, <1>3, <1>5, <1>6, <1>8, <1>9, <1>10, <1>11, <1>12

\* What the threads ask for follows edges from nodes with a cost.
LEMMA ExpandKeeps ==
  ASSUME SearchInv, Expand
  PROVE  SearchInv'
<1>1. /\ phase = "expand" /\ phase' = "apply" /\ centers' = <<>>
      /\ UNCHANGED <<problem, g, real, parents, open, path>>
      /\ \A c \in Centers : c \in EntryType
      /\ Pending' = UNION {Updates(c) : c \in Centers}
      /\ Doomed' = {c.v : c \in {d \in Centers : IsFresh(d) /\ Updates(d) = {}}}
      /\ work' \in WorkType /\ rest' \subseteq WorkType
      /\ \A c \in Centers : Updates(c) \subseteq UpdateType
      /\ best' = best \/ \E c \in Centers : best'[1] = c.v
  BY ExpandFacts DEF SearchInv
<1>2. /\ TypeOK /\ problem \in Problems /\ Inf \in Nat
      /\ g \in [Nodes -> Closed..Inf] /\ real \in [Nodes -> 0..Inf]
  BY ProblemFacts DEF SearchInv, TypeOK
<1>3. /\ Centers' = {} /\ Entries' \subseteq Entries /\ Reached' = Reached
      /\ StartNodes' = StartNodes
  BY <1>1 DEF Centers, Entries, Reached, StartNodes
<1>4. ASSUME NEW c \in Centers
      PROVE  c.v \in Nodes /\ c.v \in Reached /\ real[c.v] <= c.raw
  <2>1. real[c.v] <= c.raw /\ c.raw < Inf
    BY DEF SearchInv, CostsHold, Entries
  <2>2. c.v \in Nodes /\ real[c.v] \in Nat /\ c.raw \in Nat
    BY <1>1, <1>2 DEF EntryType
  <2>3. QED
    BY <1>2, <2>1, <2>2 DEF Reached
<1>5. ASSUME NEW u \in Pending'
      PROVE  /\ Edge(u.from, u.v) /\ u.raw < Inf
             /\ real[u.from] + Cost(u.from, u.v) <= u.raw
  <2>1. PICK c \in Centers : u \in Updates(c)
    BY <1>1
  <2>2. PICK v \in Nodes : /\ MayImprove(c, v)
                           /\ u = [from |-> c.v, v |-> v, raw |-> c.raw + problem.cost[<<c.v, v>>]]
    BY <2>1 DEF Updates
  <2>3. u.from = c.v /\ u.v = v /\ u.raw = c.raw + Cost(c.v, v)
    BY <2>2 DEF Cost
  <2>4. Edge(c.v, v) /\ g[v] > c.raw + Cost(c.v, v)
    BY <2>2 DEF MayImprove, Cost
  <2>5. Cost(c.v, v) \in Nat /\ c.raw \in Nat /\ real[c.v] \in Nat /\ g[v] \in Closed..Inf
    BY <1>1, <1>2, <1>4, <2>4, EdgeFacts DEF EntryType
  <2>6. QED
    BY <1>2, <1>4, <2>3, <2>4, <2>5 DEF Closed
<1>6. \A v \in Doomed' : v \in Reached
  BY <1>1, <1>4
<1>7. TypeOK'
  <2>1. best'[1] \in Nodes
    BY <1>1, <1>2, <1>4 DEF TypeOK
  <2>2. QED
    BY <1>1, <1>2, <2>1 DEF TypeOK, Phases
<1>8. Phased'
  BY <1>1, <1>3 DEF SearchInv, Phased, Running, Over
<1>9. CostsHold'
  <2>1. \A v \in Doomed' : real[v] # Inf
    BY <1>6 DEF Reached
  <2>2. QED
    BY <1>1, <1>3, <1>5, <2>1 DEF SearchInv, CostsHold, Edge, Cost
<1>10. ParentsLeadBack'
  <2>1. best'[1] \in Reached
    BY <1>1, <1>4 DEF SearchInv, ParentsLeadBack, Running
  <2>2. QED
    BY <1>1, <1>3, <2>1 DEF SearchInv, ParentsLeadBack, Grounded, Running, Over, Edge, Cost
<1>11. PathLeadsBack'
  BY <1>1 DEF PathLeadsBack, Over
<1>12. QED
  BY <1>7, <1>8, <1>9, <1>10, <1>11 DEF SearchInv

\* What an update that is applied changes; one that is stale changes nothing.
LEMMA ApplyFacts ==
  ASSUME SearchInv, Apply
  PROVE  /\ phase = "apply" /\ UNCHANGED <<problem, best, centers, rest, phase, path>>
         /\ \E u \in work.updates :
              /\ u \in Pending /\ u \in UpdateType
              /\ work' = [work EXCEPT !.updates = @ \ {u}]
              /\ Pending' \subseteq Pending /\ Pending \subseteq Pending' \cup {u}
              /\ Doomed' = Doomed
              /\ \/ g[u.v] <= u.raw /\ UNCHANGED <<g, real, parents, open>>
                 \/ /\ g[u.v] > u.raw /\ real[u.v] = g[u.v]
                    /\ Edge(u.from, u.v) /\ real[u.from] < real[u.v] /\ u.raw < Inf
                    /\ real[u.from] + Cost(u.from, u.v) <= u.raw
                    /\ g' = [g EXCEPT ![u.v] = u.raw] /\ real' = [real EXCEPT ![u.v] = u.raw]
                    /\ parents' = [v \in DOMAIN parents \cup {u.v} |->
                                     IF v = u.v THEN u.from ELSE parents[v]]
                    /\ open' \in Limited(open \cup {Entry(u.v, u.raw)})
<1>1. phase = "apply" /\ UNCHANGED <<problem, best, centers, rest, phase, path>>
  BY DEF Apply
<1>2. PICK u \in work.updates :
       /\ work' = [work EXCEPT !.updates = @ \ {u}]
       /\ IF g[u.v] <= u.raw THEN UNCHANGED <<costs, parents, open>>
          ELSE /\ g' = [g EXCEPT ![u.v] = u.raw] /\ real' = [real EXCEPT ![u.v] = u.raw]
               /\ parents' = [v \in DOMAIN parents \cup {u.v} |->
                                IF v = u.v THEN u.from ELSE parents[v]]
               /\ open' \in Limited(open \cup {Entry(u.v, u.raw)})
  BY DEF Apply
<1>3. TypeOK /\ work \in WorkType /\ problem \in Problems
  BY DEF SearchInv, TypeOK
<1>4. u \in Pending /\ u \in UpdateType
  BY <1>2, <1>3 DEF Pending, WorkType
<1>5. work'.updates = work.updates \ {u} /\ work'.dont = work.dont
  BY <1>2, <1>3 DEF WorkType
<1>6. Pending' \subseteq Pending /\ Pending \subseteq Pending' \cup {u} /\ Doomed' = Doomed
  BY <1>1, <1>5 DEF Pending, Doomed
<1>7. CASE g[u.v] <= u.raw
  BY <1>1, <1>2, <1>4, <1>6, <1>7 DEF costs
<1>8. CASE ~(g[u.v] <= u.raw)
  <2>1. /\ Edge(u.from, u.v) /\ u.raw < Inf
        /\ real[u.from] + Cost(u.from, u.v) <= u.raw
        /\ IF g[u.v] = Closed THEN real[u.v] # Inf ELSE real[u.v] = g[u.v]
    BY <1>4 DEF SearchInv, CostsHold, UpdateType
  <2>2. /\ u.raw \in Nat /\ g[u.v] \in Closed..Inf /\ real[u.from] \in Nat
        /\ Cost(u.from, u.v) \in Nat /\ Inf \in Nat
    BY <1>3, <1>4, <2>1, EdgeFacts, ProblemFacts DEF TypeOK, UpdateType
  <2>3. g[u.v] > u.raw /\ real[u.v] = g[u.v] /\ real[u.from] < real[u.v]
    BY <1>8, <2>1, <2>2 DEF Closed
  <2>4. QED
    BY <1>1, <1>2, <1>4, <1>6, <1>8, <2>1, <2>3
<1>9. QED
  BY <1>7, <1>8

\* What is left in the queue of those that are in it.
LEMMA LimitedFacts ==
  ASSUME NEW S, NEW T \in Limited(S)
  PROVE  T \subseteq S /\ (problem.limit = 0 => T = S)
BY DEF Limited

\* An improvement gives a node a cheaper parent: parents still lead to a start.
LEMMA ApplyKeeps ==
  ASSUME SearchInv, Apply
  PROVE  SearchInv'
<1>1. phase = "apply" /\ UNCHANGED <<problem, best, centers, rest, phase, path>>
  BY DEF Apply
<1>2. PICK u \in work.updates :
              /\ u \in Pending /\ u \in UpdateType
              /\ work' = [work EXCEPT !.updates = @ \ {u}]
              /\ Pending' \subseteq Pending /\ Pending \subseteq Pending' \cup {u}
              /\ Doomed' = Doomed
              /\ \/ g[u.v] <= u.raw /\ UNCHANGED <<g, real, parents, open>>
                 \/ /\ g[u.v] > u.raw /\ real[u.v] = g[u.v]
                    /\ Edge(u.from, u.v) /\ real[u.from] < real[u.v] /\ u.raw < Inf
                    /\ real[u.from] + Cost(u.from, u.v) <= u.raw
                    /\ g' = [g EXCEPT ![u.v] = u.raw] /\ real' = [real EXCEPT ![u.v] = u.raw]
                    /\ parents' = [v \in DOMAIN parents \cup {u.v} |->
                                     IF v = u.v THEN u.from ELSE parents[v]]
                    /\ open' \in Limited(open \cup {Entry(u.v, u.raw)})
  BY ApplyFacts
<1>3. /\ TypeOK /\ problem \in Problems /\ Inf \in Nat
      /\ g \in [Nodes -> Closed..Inf] /\ real \in [Nodes -> 0..Inf]
      /\ u.v \in Nodes /\ u.from \in Nodes /\ u.raw \in Nat
  BY <1>2, ProblemFacts DEF SearchInv, TypeOK, UpdateType
<1>4. /\ Centers' = Centers /\ StartNodes' = StartNodes
  BY <1>1 DEF Centers, StartNodes
<1>5. work' \in WorkType
  BY <1>2, <1>3 DEF TypeOK, WorkType
<1>7. Phased'
  BY <1>1, <1>4 DEF SearchInv, Phased, Running, Over
<1>8. PathLeadsBack'
  BY <1>1 DEF PathLeadsBack, Over
<1>9. CASE UNCHANGED <<g, real, parents, open>>
  <2>1. TypeOK'
    BY <1>1, <1>3, <1>5, <1>9 DEF TypeOK
  <2>2. Entries' = Entries /\ Reached' = Reached
    BY <1>4, <1>9 DEF Entries, Reached
  <2>3. CostsHold'
    BY <1>1, <1>2, <1>4, <1>9, <2>2 DEF SearchInv, CostsHold, Edge, Cost
  <2>4. ParentsLeadBack'
    BY <1>1, <1>4, <1>9, <2>2 DEF SearchInv, ParentsLeadBack, Grounded, Running, Over, Edge, Cost
  <2>5. QED
    BY <1>7, <1>8, <2>1, <2>3, <2>4 DEF SearchInv
<1>10. CASE /\ g[u.v] > u.raw /\ real[u.v] = g[u.v]
            /\ Edge(u.from, u.v) /\ real[u.from] < real[u.v] /\ u.raw < Inf
            /\ real[u.from] + Cost(u.from, u.v) <= u.raw
            /\ g' = [g EXCEPT ![u.v] = u.raw] /\ real' = [real EXCEPT ![u.v] = u.raw]
            /\ parents' = [v \in DOMAIN parents \cup {u.v} |->
                             IF v = u.v THEN u.from ELSE parents[v]]
            /\ open' \in Limited(open \cup {Entry(u.v, u.raw)})
  <2>1. open' \subseteq open \cup {Entry(u.v, u.raw)}
    BY <1>10, LimitedFacts
  <2>2. problem.estim[u.v] \in Nat
    BY <1>3, ProblemFacts
  <2>3. /\ Entry(u.v, u.raw) \in EntryType /\ Entry(u.v, u.raw).v = u.v
        /\ Entry(u.v, u.raw).raw = u.raw
        /\ Entry(u.v, u.raw).p = u.raw + problem.estim[u.v]
    BY <1>3, <2>2 DEF Entry, EntryType
  <2>4. /\ real' \in [Nodes -> 0..Inf] /\ g' \in [Nodes -> Closed..Inf]
        /\ real'[u.v] = u.raw /\ g'[u.v] = u.raw
        /\ \A v \in Nodes : v # u.v => real'[v] = real[v] /\ g'[v] = g[v]
        /\ \A v \in Nodes : real'[v] <= real[v]
    BY <1>3, <1>10 DEF Closed
  <2>5. DOMAIN parents \subseteq Nodes /\ \A v \in DOMAIN parents : parents[v] \in Nodes
    BY <1>3 DEF TypeOK
  <2>6. /\ DOMAIN parents' = DOMAIN parents \cup {u.v} /\ parents'[u.v] = u.from
        /\ \A v \in DOMAIN parents : v # u.v => parents'[v] = parents[v]
    BY <1>10
  <2>7. TypeOK'
    <3>1. open' \subseteq EntryType
      BY <1>3, <2>1, <2>3 DEF TypeOK
    <3>2. DOMAIN parents' \subseteq Nodes /\ \A v \in DOMAIN parents' : parents'[v] \in Nodes
      BY <1>3, <2>5, <2>6
    <3>3. QED
      BY <1>1, <1>3, <1>5, <2>4, <3>1, <3>2 DEF TypeOK
  <2>8. Reached' = Reached \cup {u.v}
    BY <1>3, <1>10, <2>4 DEF Reached
  <2>9. CostsHold'
    <3>1. \A v \in Nodes : IF g'[v] = Closed THEN real'[v] # Inf ELSE real'[v] = g'[v]
      BY <1>3, <2>4 DEF SearchInv, CostsHold, Closed
    <3>2. ASSUME NEW c \in Entries'
          PROVE  /\ real'[c.v] <= c.raw /\ c.raw < Inf
                 /\ c.p = c.raw + problem'.estim[c.v]
      <4>1. CASE c \in Entries
        <5>1. /\ real[c.v] <= c.raw /\ c.raw < Inf
              /\ c.p = c.raw + problem.estim[c.v]
          BY <4>1 DEF SearchInv, CostsHold
        <5>2. c \in EntryType
          BY <1>3, <4>1 DEF TypeOK, Entries, Centers
        <5>3. c.v \in Nodes /\ c.raw \in Nat /\ real[c.v] \in Nat /\ real'[c.v] \in Nat
          BY <1>3, <2>4, <5>2 DEF EntryType
        <5>4. QED
          BY <1>1, <2>4, <5>1, <5>3
      <4>2. CASE c = Entry(u.v, u.raw)
        BY <1>1, <1>3, <1>10, <2>3, <2>4, <4>2
      <4>3. QED
        BY <1>4, <2>1, <4>1, <4>2 DEF Entries
    <3>3. ASSUME NEW x \in Pending'
          PROVE  /\ Edge(x.from, x.v)' /\ x.raw < Inf
                 /\ real'[x.from] + Cost(x.from, x.v)' <= x.raw
      <4>1. x \in Pending
        BY <1>2
      <4>2. /\ Edge(x.from, x.v) /\ x.raw < Inf
            /\ real[x.from] + Cost(x.from, x.v) <= x.raw
        BY <4>1 DEF SearchInv, CostsHold
      <4>3. x \in UpdateType
        BY <1>3, <4>1 DEF TypeOK, Pending, WorkType
      <4>4. /\ x.from \in Nodes /\ x.raw \in Nat /\ Cost(x.from, x.v) \in Nat
            /\ real[x.from] \in Nat /\ real'[x.from] \in Nat
            /\ real'[x.from] <= real[x.from]
        BY <1>3, <2>4, <4>2, <4>3, EdgeFacts DEF UpdateType
      <4>5. Edge(x.from, x.v)' /\ Cost(x.from, x.v)' = Cost(x.from, x.v)
        BY <1>1, <4>2 DEF Edge, Cost
      <4>6. real'[x.from] + Cost(x.from, x.v) <= x.raw
        BY <4>2, <4>4
      <4>7. QED
        BY <4>2, <4>5, <4>6
    <3>4. \A v \in Doomed' : real'[v] # Inf
      <4>1. \A v \in Doomed : v \in Nodes /\ real[v] # Inf
        BY <1>3 DEF SearchInv, CostsHold, Doomed, TypeOK, WorkType
      <4>2. QED
        BY <1>2, <1>3, <1>10, <2>4, <4>1
    <3>5. QED
      BY <3>1, <3>2, <3>3, <3>4 DEF CostsHold
  <2>10. u.from # u.v
    BY <1>3, <1>10
  <2>11. Grounded'
    <3>1. SUFFICES ASSUME NEW S \in SUBSET (DOMAIN parents' \ StartNodes), S # {},
                          \A v \in S : parents'[v] \in S
                   PROVE  FALSE
      BY <1>4 DEF Grounded
    <3>2. CASE u.v \notin S
      <4>1. S \in SUBSET (DOMAIN parents \ StartNodes)
        BY <2>6, <3>2
      <4>2. PICK v \in S : parents[v] \notin S
        BY <3>1, <4>1 DEF SearchInv, ParentsLeadBack, Grounded
      <4>3. QED
        BY <2>6, <3>1, <3>2, <4>1, <4>2
    <3>3. CASE u.v \in S
      <4> DEFINE T == {x \in S : real[x] < real[u.v]}
      <4>1. u.from \in T
        BY <1>10, <2>6, <3>1, <3>3
      <4>2. T \in SUBSET (DOMAIN parents \ StartNodes)
        BY <1>3, <2>6
      <4>3. PICK x \in T : parents[x] \notin T
        BY <4>1, <4>2 DEF SearchInv, ParentsLeadBack, Grounded
      <4>4. x \in S /\ x \in DOMAIN parents /\ real[x] < real[u.v] /\ x # u.v
        BY <1>3, <4>2, <4>3
      <4>5. parents[x] \in S
        BY <2>6, <3>1, <4>4
      <4>6. /\ Edge(parents[x], x) /\ real[parents[x]] + Cost(parents[x], x) <= real[x]
        BY <4>4 DEF SearchInv, ParentsLeadBack
      <4>7. /\ Cost(parents[x], x) \in Nat /\ real[parents[x]] \in Nat /\ real[x] \in Nat
            /\ real[u.v] \in Nat
        BY <1>3, <2>5, <4>4, <4>6, EdgeFacts
      <4>8. real[parents[x]] < real[u.v]
        BY <4>4, <4>6, <4>7
      <4>9. QED
        BY <4>3, <4>5, <4>8
    <3>4. QED
      BY <3>2, <3>3
  <2>12. ASSUME NEW v \in DOMAIN parents'
         PROVE  /\ v \in Reached' /\ Edge(parents'[v], v)
                /\ real'[parents'[v]] + Cost(parents'[v], v) <= real'[v]
    <3>1. CASE v = u.v
      <4>1. parents'[v] = u.from /\ real'[u.from] = real[u.from] /\ real'[v] = u.raw
        BY <1>3, <2>4, <2>6, <2>10, <3>1
      <4>2. QED
        BY <1>10, <2>8, <3>1, <4>1
    <3>2. CASE v # u.v
      <4>1. v \in DOMAIN parents /\ parents'[v] = parents[v] /\ v \in Nodes
        BY <2>5, <2>6, <3>2
      <4>2. /\ v \in Reached /\ Edge(parents[v], v)
            /\ real[parents[v]] + Cost(parents[v], v) <= real[v]
        BY <4>1 DEF SearchInv, ParentsLeadBack
      <4>3. /\ parents[v] \in Nodes /\ Cost(parents[v], v) \in Nat
            /\ real[parents[v]] \in Nat /\ real'[parents[v]] \in Nat
            /\ real'[parents[v]] <= real[parents[v]] /\ real'[v] = real[v] /\ real[v] \in Nat
        BY <1>3, <2>4, <2>5, <3>2, <4>1, <4>2, EdgeFacts
      <4>4. real'[parents[v]] + Cost(parents[v], v) <= real'[v]
        BY <4>2, <4>3
      <4>5. QED
        BY <2>8, <4>1, <4>2, <4>4
    <3>3. QED
      BY <3>1, <3>2
  <2>13. ParentsLeadBack'
    <3>1. Reached' \subseteq StartNodes' \cup DOMAIN parents'
      BY <1>4, <2>6, <2>8 DEF SearchInv, ParentsLeadBack
    <3>2. phase' \in Running \cup Over => best'[1] \in Reached'
      BY <1>1, <2>8 DEF SearchInv, ParentsLeadBack
    <3>3. \A v \in DOMAIN parents' :
            /\ v \in Reached'
            /\ <<parents'[v], v>> \in DOMAIN problem'.cost /\ problem'.cost[<<parents'[v], v>>] >= 0
            /\ real'[parents'[v]] + problem'.cost[<<parents'[v], v>>] <= real'[v]
      BY <1>1, <2>12 DEF Edge, Cost
    <3>4. QED
      BY <2>11, <3>1, <3>2, <3>3 DEF ParentsLeadBack, Edge, Cost
  <2>14. QED
    BY <1>7, <1>8, <2>7, <2>9, <2>13 DEF SearchInv
<1>11. QED
  BY <1>2, <1>9, <1>10

\* A thread leaves the critical section with nothing to apply, and closes nodes.
LEMMA AppliesFacts ==
  ASSUME SearchInv, Applies
  PROVE  /\ phase = "apply" /\ phase' \in {"fetch", "apply"}
         /\ UNCHANGED <<problem, real, parents, open, best, centers, path>>
         /\ g' = [v \in Nodes |-> IF v \in work.dont THEN Closed ELSE g[v]]
         /\ work.dont \subseteq Doomed /\ Doomed \subseteq Nodes
         /\ Pending' = Pending
         /\ Doomed' \subseteq Doomed
         /\ phase' = "fetch" => work' = NoWork /\ rest' = {} /\ Pending = {} /\ Doomed = work.dont
         /\ work' \in WorkType /\ rest' \subseteq WorkType
<1>1. /\ phase = "apply" /\ work.updates = {}
      /\ UNCHANGED <<problem, real, parents, open, best, centers, path>>
      /\ g' = [v \in Nodes |-> IF v \in work.dont THEN Closed ELSE g[v]]
  BY DEF Applies
<1>2. work \in WorkType /\ rest \subseteq WorkType
  BY DEF SearchInv, TypeOK
<1>3. work.dont \subseteq Doomed /\ Doomed \subseteq Nodes
  BY <1>2 DEF Doomed, WorkType
<1>4. CASE rest = {}
  <2>1. phase' = "fetch" /\ work' = NoWork /\ rest' = {}
    BY <1>4 DEF Applies
  <2>2. Pending = {} /\ Pending' = {} /\ Doomed = work.dont /\ Doomed' = {}
    BY <1>1, <1>4, <2>1 DEF Pending, Doomed, NoWork
  <2>3. NoWork \in WorkType
    BY DEF NoWork, WorkType
  <2>4. QED
    BY <1>1, <1>2, <1>3, <2>1, <2>2, <2>3
<1>5. CASE rest # {}
  <2>1. PICK w \in rest : work' = w /\ rest' = rest \ {w}
    BY <1>5 DEF Applies
  <2>2. phase' = "apply"
    BY <1>1, <1>5 DEF Applies
  <2>3. {work'} \cup rest' = rest
    BY <2>1
  <2>4. Pending' = UNION {x.updates : x \in {work'} \cup rest'}
    BY DEF Pending
  <2>5. Doomed' = UNION {x.dont : x \in {work'} \cup rest'}
    BY DEF Doomed
  <2>6. Pending' = Pending /\ Doomed' \subseteq Doomed
    BY <1>1, <2>3, <2>4, <2>5 DEF Pending, Doomed
  <2>7. QED
    BY <1>1, <1>2, <1>3, <2>1, <2>2, <2>6
<1>6. QED
  BY <1>4, <1>5

\* Closing a node and letting the next thread in change no real cost.
LEMMA AppliesKeeps ==
  ASSUME SearchInv, Applies
  PROVE  SearchInv'
<1>1. /\ phase = "apply" /\ phase' \in {"fetch", "apply"}
      /\ UNCHANGED <<problem, real, parents, open, best, centers, path>>
      /\ g' = [v \in Nodes |-> IF v \in work.dont THEN Closed ELSE g[v]]
      /\ work.dont \subseteq Doomed /\ Doomed \subseteq Nodes
      /\ Pending' = Pending /\ Doomed' \subseteq Doomed
      /\ phase' = "fetch" => work' = NoWork /\ rest' = {}
      /\ work' \in WorkType /\ rest' \subseteq WorkType
  BY AppliesFacts
<1>2. /\ TypeOK /\ problem \in Problems /\ Inf \in Nat
      /\ g \in [Nodes -> Closed..Inf] /\ real \in [Nodes -> 0..Inf]
  BY ProblemFacts DEF SearchInv, TypeOK
<1>3. /\ Centers' = Centers /\ Entries' = Entries /\ Reached' = Reached
      /\ StartNodes' = StartNodes
  BY <1>1 DEF Centers, Entries, Reached, StartNodes
<1>4. g' \in [Nodes -> Closed..Inf]
  BY <1>1, <1>2 DEF Closed
<1>5. TypeOK'
  BY <1>1, <1>2, <1>4 DEF TypeOK, Phases
<1>6. Phased'
  BY <1>1, <1>3 DEF SearchInv, Phased, Running, Over
<1>7. CostsHold'
  <2>1. \A v \in Nodes : IF g'[v] = Closed THEN real[v] # Inf ELSE real[v] = g'[v]
    BY <1>1 DEF SearchInv, CostsHold
  <2>2. QED
    BY <1>1, <1>3, <2>1 DEF SearchInv, CostsHold, Edge, Cost
<1>8. ParentsLeadBack'
  BY <1>1, <1>3 DEF SearchInv, ParentsLeadBack, Grounded, Running, Over, Edge, Cost
<1>9. PathLeadsBack'
  BY <1>1 DEF PathLeadsBack, Over
<1>10. QED
  BY <1>5, <1>6, <1>7, <1>8, <1>9 DEF SearchInv

\* A sequence with an element put before it.
LEMMA Prepended ==
  ASSUME NEW S, NEW x \in S, NEW s \in Seq(S), s # <<>>
  PROVE  /\ <<x>> \o s \in Seq(S) /\ <<x>> \o s # <<>>
         /\ Len(<<x>> \o s) = Len(s) + 1 /\ Head(<<x>> \o s) = x
         /\ (<<x>> \o s)[1] = x
         /\ \A i \in 1..Len(s) : (<<x>> \o s)[i + 1] = s[i]
         /\ Len(s) \in Nat /\ Len(s) > 0 /\ Head(s) = s[1] /\ Head(s) \in S
OBVIOUS

\* findPath goes back by one parent.
LEMMA findPathKeeps ==
  ASSUME SearchInv, findPath
  PROVE  SearchInv'
<1>1. /\ phase \in Over /\ ~WayEnds /\ path' = <<parents[Head(path)]>> \o path
      /\ UNCHANGED <<problem, g, real, parents, open, best, centers, work, rest, phase>>
  BY DEF findPath, Over, costs, tasks
<1>2. /\ Pending' = Pending /\ Doomed' = Doomed /\ Reached' = Reached
      /\ StartNodes' = StartNodes /\ Entries' = Entries
  BY <1>1 DEF Pending, Doomed, Reached, StartNodes, Entries, Centers
<1>3. /\ TypeOK /\ problem \in Problems /\ path \in Seq(Nodes) /\ real \in [Nodes -> 0..Inf]
      /\ Inf \in Nat /\ DOMAIN parents \subseteq Nodes
      /\ \A v \in DOMAIN parents : parents[v] \in Nodes
  BY ProblemFacts DEF SearchInv, TypeOK
<1>4. /\ path # <<>> /\ Head(path) \in Reached
      /\ \A i \in 1..(Len(path) - 1) :
           /\ path[i + 1] \in DOMAIN parents \ StartNodes
           /\ path[i] = parents[path[i + 1]]
      /\ phase = "found" /\ problem.leave = 0 => path[Len(path)] = Goal
  BY <1>1 DEF SearchInv, PathLeadsBack
<1>5. Head(path) \in DOMAIN parents \ StartNodes
  BY <1>1 DEF WayEnds, Unused
<1> DEFINE from == parents[Head(path)]
<1>6. from \in Reached
  <2>1. /\ Edge(from, Head(path)) /\ Head(path) \in Reached
        /\ real[from] + Cost(from, Head(path)) <= real[Head(path)]
    BY <1>5 DEF SearchInv, ParentsLeadBack
  <2>2. /\ from \in Nodes /\ Head(path) \in Nodes /\ Cost(from, Head(path)) \in Nat
    BY <1>3, <2>1, EdgeFacts
  <2>3. real[from] \in 0..Inf /\ real[Head(path)] \in 0..Inf /\ real[Head(path)] # Inf
    BY <1>3, <2>1, <2>2 DEF Reached
  <2>4. QED
    BY <1>3, <2>1, <2>2, <2>3 DEF Reached
<1>7. from \in Nodes
  BY <1>6 DEF Reached
<1> HIDE DEF from
<1>8. /\ path' \in Seq(Nodes) /\ path' # <<>> /\ Len(path') = Len(path) + 1
      /\ Head(path') = from /\ path'[1] = from
      /\ \A i \in 1..Len(path) : path'[i + 1] = path[i]
      /\ Len(path) \in Nat /\ Len(path) > 0 /\ Head(path) = path[1]
  BY <1>1, <1>3, <1>4, <1>7, Prepended DEF from
<1>9. TypeOK'
  BY <1>1, <1>3, <1>8 DEF TypeOK
<1>10. Phased'
  BY <1>1, <1>2 DEF SearchInv, Phased, Running, Over
<1>11. CostsHold' /\ ParentsLeadBack'
  BY <1>1, <1>2 DEF SearchInv, CostsHold, ParentsLeadBack, Grounded, Running, Over, Edge, Cost
<1>12. PathLeadsBack'
  <2>1. ASSUME NEW i \in 1..(Len(path') - 1)
        PROVE  /\ path'[i + 1] \in DOMAIN parents \ StartNodes
               /\ path'[i] = parents[path'[i + 1]]
    <3>1. CASE i = 1
      <4>1. path'[2] = path[1]
        BY <1>8
      <4>2. QED
        BY <1>5, <1>8, <3>1, <4>1 DEF from
    <3>2. CASE i # 1
      <4>1. PICK j \in 1..(Len(path) - 1) : i = j + 1
        <5>1. i - 1 \in 1..(Len(path) - 1) /\ i = (i - 1) + 1
          BY <1>8, <3>2
        <5>2. QED
          BY <5>1
      <4>2. path'[i] = path[j] /\ path'[i + 1] = path[j + 1]
        BY <1>8, <4>1
      <4>3. QED
        BY <1>4, <4>1, <4>2
    <3>3. QED
      BY <3>1, <3>2
  <2>2. path'[Len(path')] = path[Len(path)]
    BY <1>8
  <2>3. QED
    BY <1>1, <1>2, <1>4, <1>6, <1>8, <2>1, <2>2 DEF PathLeadsBack
<1>13. QED
  BY <1>9, <1>10, <1>11, <1>12 DEF SearchInv

\* A step outside of the search changes nothing.
LEMMA SearchStutters ==
  ASSUME SearchInv, UNCHANGED vars
  PROVE  SearchInv'
<1>1. UNCHANGED <<problem, g, real, parents, open, best, centers, work, rest, phase, path>>
  BY DEF vars, costs, tasks
<1>2. /\ Pending' = Pending /\ Doomed' = Doomed /\ Reached' = Reached
      /\ StartNodes' = StartNodes /\ Entries' = Entries
  BY <1>1 DEF Pending, Doomed, Reached, StartNodes, Entries, Centers
<1>3. TypeOK' /\ Phased'
  BY <1>1, <1>2 DEF SearchInv, TypeOK, Phased
<1>4. CostsHold' /\ ParentsLeadBack' /\ PathLeadsBack'
  BY <1>1, <1>2 DEF SearchInv, CostsHold, ParentsLeadBack, PathLeadsBack, Grounded, Edge, Cost
<1>5. QED
  BY <1>3, <1>4 DEF SearchInv

\* No step of the search breaks the invariant.
LEMMA SearchStep ==
  ASSUME SearchInv, [Next]_vars
  PROVE  SearchInv'
BY CallKeeps, FetchKeeps, FetchedKeeps, ExpandKeeps, ApplyKeeps, AppliesKeeps, findPathKeeps,
   SearchStutters DEF Next

\* The search keeps its types, and what it reaches and returns leads back to a start.
THEOREM SearchKeepsInv == Spec => []SearchInv
<1>1. Init => SearchInv
  BY InitSearch
<1>2. SearchInv /\ [Next]_vars => SearchInv'
  BY SearchStep
<1>3. QED
  BY <1>1, <1>2, PTL DEF Spec

-----------------------------------------------------------------------------
(* The walk that is returned *)

\* The way back of a path that cannot be followed further is at a start, and it
\* follows edges.
LEMMA PathIsWalk ==
  ASSUME SearchInv, phase \in Over
  PROVE  /\ WayEnds => Head(path) \in StartNodes
         /\ \A i \in 1..(Len(path) - 1) : Edge(path[i], path[i + 1])
         /\ phase = "found" /\ problem.leave = 0 => Last(path) = Goal
<1>1. /\ path # <<>> /\ Head(path) \in Reached
      /\ \A i \in 1..(Len(path) - 1) :
           /\ path[i + 1] \in DOMAIN parents \ StartNodes
           /\ path[i] = parents[path[i + 1]]
      /\ phase = "found" /\ problem.leave = 0 => path[Len(path)] = Goal
  BY DEF SearchInv, PathLeadsBack
<1>2. path \in Seq(Nodes)
  BY DEF SearchInv, TypeOK
<1>3. Len(path) \in Nat /\ Len(path) > 0 /\ Head(path) = path[1] /\ Last(path) = path[Len(path)]
  BY <1>1, <1>2 DEF Last
<1>4. ASSUME WayEnds, Head(path) \notin StartNodes
      PROVE  FALSE
  <2> DEFINE S == {path[i] : i \in 2..Len(path)}
  <2>1. Head(path) \in DOMAIN parents
    BY <1>1, <1>4 DEF SearchInv, ParentsLeadBack
  <2>2. Head(path) \in S
    BY <1>4, <2>1 DEF WayEnds, Unused
  <2>3. ASSUME NEW v \in S
        PROVE  v \in DOMAIN parents \ StartNodes /\ parents[v] \in S
    <3>1. PICK i \in 2..Len(path) : v = path[i]
      OBVIOUS
    <3>2. i - 1 \in 1..(Len(path) - 1) /\ (i - 1) + 1 = i
      BY <1>3, <3>1
    <3>3. path[i] \in DOMAIN parents \ StartNodes /\ path[i - 1] = parents[path[i]]
      BY <1>1, <3>2
    <3>4. path[i - 1] \in S
      <4>1. CASE i = 2
        BY <1>3, <2>2, <4>1
      <4>2. CASE i # 2
        BY <1>3, <3>1, <4>2
      <4>3. QED
        BY <4>1, <4>2
    <3>5. QED
      BY <3>1, <3>3, <3>4
  <2> HIDE DEF S
  <2>4. S \in SUBSET (DOMAIN parents \ StartNodes) /\ S # {}
    BY <2>2, <2>3
  <2>5. PICK v \in S : parents[v] \notin S
    BY <2>4 DEF SearchInv, ParentsLeadBack, Grounded
  <2>6. QED
    BY <2>3, <2>5
<1>5. ASSUME NEW i \in 1..(Len(path) - 1)
      PROVE  Edge(path[i], path[i + 1])
  BY <1>1 DEF SearchInv, ParentsLeadBack
<1>6. QED
  BY <1>1, <1>3, <1>4, <1>5

-----------------------------------------------------------------------------
(* Costs stay far below Inf *)

\* Products of naturals, which the solver knows nothing of.
LEMMA Products ==
  ASSUME NEW m \in Nat
  PROVE  /\ \A n \in Nat : m * n \in Nat /\ m * (n + 1) = m * n + m
         /\ \A n, k \in Nat : n <= k => m * n <= m * k
<1>1. \A n \in Nat : m * n \in Nat /\ m * (n + 1) = m * n + m
  OBVIOUS
<1>2. ASSUME NEW n \in Nat, NEW k \in Nat, n <= k
      PROVE  m * n <= m * k
  <2>1. PICK d \in Nat : k = n + d
    <3>1. k - n \in Nat /\ k = n + (k - n)
      BY <1>2
    <3>2. QED
      BY <3>1
  <2>2. m * (n + d) = m * n + m * d /\ m * n \in Nat /\ m * d \in Nat
    OBVIOUS
  <2>3. QED
    BY <2>1, <2>2
<1>3. QED
  BY <1>1, <1>2

\* The bound of a set of nodes is far below Inf.
LEMMA SetBound ==
  ASSUME problem \in Problems, NEW R \in SUBSET Nodes
  PROVE  /\ IsFiniteSet(R) /\ Cardinality(R) \in Nat
         /\ Most \in Nat /\ Most * Cardinality(R) \in Nat
         /\ Most * Cardinality(R) + Most < Inf
         /\ R # {} => Most <= Most * Cardinality(R)
<1>1. IsFiniteSet(Nodes)
  BY ProblemFacts
<1>2. IsFiniteSet(R) /\ Cardinality(R) <= Cardinality(Nodes)
  BY <1>1, FS_Subset
<1>3. Cardinality(R) \in Nat
  BY <1>2, FS_CardinalityType
<1>4. /\ Most \in Nat /\ Cardinality(Nodes) \in Nat
      /\ Most * (Cardinality(Nodes) + 1) < Inf
  BY MostFacts
<1>5. /\ Most * Cardinality(R) \in Nat /\ Most * Cardinality(Nodes) \in Nat
      /\ Most * Cardinality(R) <= Most * Cardinality(Nodes)
      /\ Most * (Cardinality(Nodes) + 1) = Most * Cardinality(Nodes) + Most
  BY <1>2, <1>3, <1>4, Products
<1>6. ASSUME R # {} PROVE Most <= Most * Cardinality(R)
  <2>1. 1 <= Cardinality(R)
    <3>1. Cardinality(R) # 0
      BY <1>2, <1>6, FS_EmptySet
    <3>2. QED
      BY <1>3, <3>1
  <2>2. Most * 1 <= Most * Cardinality(R)
    BY <1>3, <1>4, <2>1, Products
  <2>3. QED
    BY <1>4, <2>2
<1>7. Inf \in Nat
  BY ProblemFacts
<1>8. QED
  BY <1>2, <1>3, <1>4, <1>5, <1>6, <1>7

\* The bound of the nodes reached is far below Inf.
LEMMA BoundFacts ==
  ASSUME problem \in Problems
  PROVE  /\ IsFiniteSet(Reached) /\ Cardinality(Reached) \in Nat
         /\ Most \in Nat /\ Bound \in Nat /\ Bound + Most < Inf
<1>1. Reached \in SUBSET Nodes
  BY DEF Reached
<1>2. QED
  BY <1>1, SetBound DEF Bound

\* With every node that is reached the bound grows.
LEMMA BoundGrows ==
  ASSUME problem \in Problems, problem' = problem,
         NEW v, Reached' = Reached \cup {v}
  PROVE  /\ Most' = Most
         /\ v \in Reached => Bound' = Bound
         /\ v \notin Reached => Bound' = Bound + Most
<1>1. Most' = Most
  BY DEF Most
<1>2. v \in Reached => Reached' = Reached
  OBVIOUS
<1>3. v \in Reached => Bound' = Bound
  BY <1>1, <1>2 DEF Bound
<1>4. ASSUME v \notin Reached
      PROVE  Bound' = Bound + Most
  <2>1. IsFiniteSet(Reached) /\ Cardinality(Reached) \in Nat /\ Most \in Nat
    BY BoundFacts
  <2>2. Cardinality(Reached') = Cardinality(Reached) + 1
    BY <1>4, <2>1, FS_AddElement
  <2>3. Most * (Cardinality(Reached) + 1) = Most * Cardinality(Reached) + Most
    BY <2>1, Products
  <2>4. QED
    BY <1>1, <2>2, <2>3 DEF Bound
<1>5. QED
  BY <1>1, <1>3, <1>4

\* No cost outgrows the bound: a cost grows by Most only with a node that is new.
LEMMA BoundedStep ==
  ASSUME SearchInv, Bounded, [Next]_vars
  PROVE  Bounded'
<1>1. SearchInv'
  BY SearchStep
<1>2. /\ TypeOK /\ problem \in Problems /\ TypeOK'
  BY <1>1 DEF SearchInv, TypeOK
<1>3. ASSUME problem' = problem, Reached' = Reached
      PROVE  Most' = Most /\ Bound' = Bound
  BY <1>3 DEF Most, Bound
<1>4. ASSUME problem' = problem, real' = real,
             Entries' \subseteq Entries, Pending' \subseteq Pending
      PROVE  Bounded'
  BY <1>3, <1>4 DEF Bounded, Reached
<1>5. CASE Call
  <2>1. UNCHANGED <<problem, centers, work, rest>> /\ centers = <<>> /\ work = NoWork /\ rest = {}
    BY <1>5 DEF Call, tasks, SearchInv, Phased
  <2>2. Centers' = {} /\ Pending' = {}
    BY <2>1 DEF Centers, Pending, NoWork
  <2>3. CASE StartNodes = {} \/ Goal \in StartNodes
    <3>1. UNCHANGED <<real, open>>
      BY <1>5, <2>3 DEF Call, costs
    <3>2. QED
      BY <1>4, <2>1, <2>2, <3>1 DEF Entries
  <2>4. CASE ~(StartNodes = {} \/ Goal \in StartNodes)
    <3>1. /\ real' = [v \in Nodes |-> IF v \in StartNodes THEN problem.starts[v] ELSE Inf]
          /\ open' = {Entry(v, problem.starts[v]) : v \in StartNodes}
      BY <1>5, <2>4 DEF Call
    <3>2. /\ StartNodes \subseteq Nodes
          /\ \A v \in StartNodes : /\ problem.starts[v] \in Nat /\ problem.starts[v] <= Most
                                   /\ problem.starts[v] < Inf
      BY <1>2, ProblemFacts, MostFacts
    <3>3. Reached' = StartNodes /\ Reached' # {}
      BY <2>4, <3>1, <3>2, ProblemFacts, <1>2 DEF Reached
    <3>4. Most' = Most
      BY <2>1 DEF Most
    <3>5. Bound' \in Nat /\ Most <= Bound' /\ Most \in Nat
      <4>1. StartNodes \in SUBSET Nodes /\ StartNodes # {}
        BY <3>2, <3>3
      <4>2. /\ Most * Cardinality(StartNodes) \in Nat /\ Most \in Nat
            /\ Most <= Most * Cardinality(StartNodes)
        BY <1>2, <4>1, SetBound
      <4>3. QED
        BY <3>3, <3>4, <4>2 DEF Bound
    <3>6. /\ \A v \in Reached' : real'[v] <= Bound'
          /\ \A c \in Entries' : c.raw <= Bound'
      BY <2>2, <3>1, <3>2, <3>3, <3>4, <3>5 DEF Entries, Entry
    <3>7. QED
      BY <2>2, <3>6 DEF Bounded
  <2>5. QED
    BY <2>3, <2>4
<1>6. CASE Fetch
  <2>1. Entries' \subseteq Entries /\ UNCHANGED <<problem, real>> /\ Pending' = {}
    BY <1>6, FetchFacts DEF Entries
  <2>2. QED
    BY <1>4, <2>1
<1>7. CASE Expand
  <2>1. /\ UNCHANGED <<problem, real, open>> /\ centers' = <<>>
        /\ Pending' = UNION {Updates(c) : c \in Centers}
        /\ \A c \in Centers : c \in EntryType
    BY <1>2, <1>7, ExpandFacts
  <2>2. Reached' = Reached /\ Entries' \subseteq Entries
    BY <2>1 DEF Reached, Entries, Centers
  <2>3. Most' = Most /\ Bound' = Bound /\ Most \in Nat /\ Bound \in Nat
    BY <1>2, <1>3, <2>1, <2>2, BoundFacts
  <2>4. ASSUME NEW u \in Pending'
        PROVE  u.raw <= Bound + Most
    <3>1. PICK c \in Centers : u \in Updates(c)
      BY <2>1
    <3>2. PICK v \in Nodes : MayImprove(c, v) /\ u.raw = c.raw + Cost(c.v, v)
      <4>1. PICK v \in {w \in Nodes : IsFresh(c) /\ MayImprove(c, w)} :
              u = [from |-> c.v, v |-> v, raw |-> c.raw + problem.cost[<<c.v, v>>]]
        BY <3>1 DEF Updates
      <4>2. QED
        BY <4>1 DEF Cost
    <3>3. Edge(c.v, v)
      BY <3>2 DEF MayImprove
    <3>4. Cost(c.v, v) \in Nat /\ Cost(c.v, v) <= Most
      BY <1>2, <3>3, EdgeFacts, MostFacts
    <3>5. c.raw \in Nat /\ c.raw <= Bound
      BY <2>1 DEF Bounded, Entries, EntryType
    <3>6. QED
      BY <2>3, <3>2, <3>4, <3>5
  <2>5. QED
    BY <2>1, <2>2, <2>3, <2>4 DEF Bounded
<1>8. CASE Apply
  <2>1. UNCHANGED <<problem, centers>>
    BY <1>8, ApplyFacts
  <2>2. PICK u \in Pending :
          /\ u \in UpdateType /\ Pending' \subseteq Pending
          /\ \/ UNCHANGED <<real, open>>
             \/ /\ g[u.v] > u.raw /\ real[u.v] = g[u.v] /\ u.raw < Inf
                /\ real' = [real EXCEPT ![u.v] = u.raw]
                /\ open' \in Limited(open \cup {Entry(u.v, u.raw)})
    BY <1>8, ApplyFacts
  <2>3. CASE UNCHANGED <<real, open>>
    BY <1>4, <2>1, <2>2, <2>3 DEF Entries, Centers
  <2>4. CASE /\ g[u.v] > u.raw /\ real[u.v] = g[u.v] /\ u.raw < Inf
             /\ real' = [real EXCEPT ![u.v] = u.raw]
             /\ open' \in Limited(open \cup {Entry(u.v, u.raw)})
    <3>1. /\ u.v \in Nodes /\ u.raw \in Nat /\ Inf \in Nat
          /\ real \in [Nodes -> 0..Inf]
      BY <1>2, <2>2, ProblemFacts DEF TypeOK, UpdateType
    <3>2. Reached' = Reached \cup {u.v}
      BY <2>4, <3>1 DEF Reached
    <3>3. /\ Most' = Most
          /\ u.v \in Reached => Bound' = Bound
          /\ u.v \notin Reached => Bound' = Bound + Most
      BY <1>2, <2>1, <3>2, BoundGrows
    <3>4. Most \in Nat /\ Bound \in Nat
      BY <1>2, BoundFacts
    <3>5. Bound' \in Nat /\ Bound <= Bound' /\ Most' = Most
      BY <3>3, <3>4
    <3>6. u.raw <= Bound'
      <4>1. CASE u.v \in Reached
        BY <2>4, <3>1, <3>3, <3>4, <4>1 DEF Bounded
      <4>2. CASE u.v \notin Reached
        BY <3>1, <3>3, <3>4, <4>2 DEF Bounded
      <4>3. QED
        BY <4>1, <4>2
    <3>7. ASSUME NEW v \in Reached' PROVE real'[v] <= Bound'
      <4>1. CASE v = u.v
        BY <2>4, <3>1, <3>6, <4>1
      <4>2. CASE v # u.v
        <5>1. v \in Reached /\ real'[v] = real[v] /\ real[v] \in Nat
          BY <2>4, <3>1, <3>2, <4>2 DEF Reached
        <5>2. real[v] <= Bound
          BY <5>1 DEF Bounded
        <5>3. QED
          BY <3>4, <3>5, <5>1, <5>2
      <4>3. QED
        BY <4>1, <4>2
    <3>8. ASSUME NEW c \in Entries' PROVE c.raw <= Bound'
      <4>1. c \in EntryType
        BY <1>2 DEF TypeOK, Entries, Centers
      <4>2. c \in Entries \/ c = Entry(u.v, u.raw)
        BY <2>1, <2>4, LimitedFacts DEF Entries, Centers
      <4>3. CASE c \in Entries
        BY <3>4, <3>5, <4>1, <4>3 DEF Bounded, EntryType
      <4>4. CASE c = Entry(u.v, u.raw)
        BY <3>6, <4>4 DEF Entry
      <4>5. QED
        BY <4>2, <4>3, <4>4
    <3>9. ASSUME NEW x \in Pending' PROVE x.raw <= Bound' + Most'
      <4>1. x \in Pending
        BY <2>2
      <4>2. x \in UpdateType
        BY <1>2, <4>1 DEF TypeOK, Pending, WorkType
      <4>3. x.raw <= Bound + Most /\ x.raw \in Nat
        BY <4>1, <4>2 DEF Bounded, UpdateType
      <4>4. QED
        BY <3>4, <3>5, <4>3
    <3>10. QED
      BY <3>7, <3>8, <3>9 DEF Bounded
  <2>5. QED
    BY <2>2, <2>3, <2>4
<1>9. CASE Applies
  <2>1. UNCHANGED <<problem, real, open, centers>> /\ Pending' = Pending
    BY <1>9, AppliesFacts
  <2>2. QED
    BY <1>4, <2>1 DEF Entries, Centers
<1>10. CASE Fetched \/ findPath \/ UNCHANGED vars
  <2>1. UNCHANGED <<problem, real, open, centers, work, rest>>
    BY <1>10 DEF Fetched, findPath, vars, costs, tasks
  <2>2. QED
    BY <1>4, <2>1 DEF Entries, Centers, Pending
<1>11. QED
  BY <1>5, <1>6, <1>7, <1>8, <1>9, <1>10 DEF Next

-----------------------------------------------------------------------------
(* No node is forgotten *)

\* What a fresh node asks for are its neighbours not reached yet, at least.
LEMMA AsksForNeighbours ==
  ASSUME SearchInv, Bounded,
         NEW c \in Entries, IsFresh(c), NEW w \in Nodes, Edge(c.v, w)
  PROVE  w \in Reached \/ \E u \in Updates(c) : u.v = w
<1>1. /\ TypeOK /\ problem \in Problems /\ Inf \in Nat
      /\ g \in [Nodes -> Closed..Inf] /\ real \in [Nodes -> 0..Inf]
  BY ProblemFacts DEF SearchInv, TypeOK
<1>2. c \in EntryType
  BY <1>1 DEF TypeOK, Entries, Centers
<1>3. SUFFICES ASSUME w \notin Reached PROVE MayImprove(c, w)
  <2>1. ASSUME MayImprove(c, w) PROVE \E u \in Updates(c) : u.v = w
    <3> DEFINE x == [from |-> c.v, v |-> w, raw |-> c.raw + problem.cost[<<c.v, w>>]]
    <3>1. x \in Updates(c)
      BY <2>1 DEF Updates
    <3>2. QED
      BY <3>1
  <2>2. QED
    BY <2>1
<1>4. real[w] = Inf /\ g[w] = Inf
  BY <1>1, <1>3 DEF SearchInv, CostsHold, Reached
<1>5. c.raw <= Bound /\ c.raw \in Nat /\ c.v \in Nodes /\ g[c.v] \in Closed..Inf
  BY <1>1, <1>2 DEF Bounded, EntryType
<1>6. Cost(c.v, w) \in Nat /\ Cost(c.v, w) <= Most
  BY <1>1, EdgeFacts, MostFacts
<1>7. Bound \in Nat /\ Most \in Nat /\ Bound + Most < Inf
  BY <1>1, BoundFacts
<1>8. Inf > c.raw + Cost(c.v, w) /\ Inf >= g[c.v]
  BY <1>1, <1>5, <1>6, <1>7 DEF Closed
<1>9. QED
  BY <1>4, <1>8 DEF MayImprove, Cost

\* No step forgets a neighbour that is still to be reached.
LEMMA NothingMissedStep ==
  ASSUME SearchInv, Bounded, NothingMissed, [Next]_vars
  PROVE  NothingMissed'
<1>1. /\ TypeOK /\ problem \in Problems /\ Inf \in Nat
      /\ g \in [Nodes -> Closed..Inf] /\ real \in [Nodes -> 0..Inf]
  BY ProblemFacts DEF SearchInv, TypeOK
<1> SUFFICES ASSUME problem'.limit = 0
             PROVE  NothingMissed'
  BY DEF NothingMissed
<1>2. CASE Call
  <2>1. /\ UNCHANGED <<problem, centers, work, rest>> /\ centers = <<>> /\ work = NoWork
        /\ rest = {} /\ phase' \in {"refused", "fetch"}
    BY <1>2 DEF Call, tasks, SearchInv, Phased
  <2>2. Centers' = {} /\ Pending' = {} /\ Doomed' = {}
    BY <2>1 DEF Centers, Pending, Doomed, NoWork
  <2>3. CASE phase' = "refused"
    BY <2>2, <2>3 DEF NothingMissed, Running
  <2>4. CASE phase' = "fetch"
    <3>1. /\ Goal \notin StartNodes
          /\ g' = [v \in Nodes |-> IF v \in StartNodes THEN problem.starts[v] ELSE Inf]
          /\ real' = g'
          /\ open' = {Entry(v, problem.starts[v]) : v \in StartNodes}
      BY <1>2, <2>4 DEF Call
    <3>2. /\ StartNodes \subseteq Nodes
          /\ \A v \in StartNodes : problem.starts[v] \in Nat /\ problem.starts[v] < Inf
      BY <1>1, ProblemFacts, MostFacts
    <3>3. Reached' = StartNodes /\ StartNodes' = StartNodes
      BY <1>1, <2>1, <3>1, <3>2 DEF Reached, StartNodes
    <3>4. ASSUME NEW v \in Reached'
          PROVE  \E c \in Entries' : c.v = v /\ c.raw <= g'[v]
      <4>1. /\ Entry(v, problem.starts[v]) \in Entries'
            /\ Entry(v, problem.starts[v]).v = v
            /\ Entry(v, problem.starts[v]).raw = problem.starts[v]
        BY <3>1, <3>3 DEF Entries, Entry
      <4>2. g'[v] = problem.starts[v] /\ problem.starts[v] \in Nat
        BY <3>1, <3>2, <3>3
      <4>3. QED
        BY <4>1, <4>2
    <3>5. QED
      BY <2>2, <2>4, <3>1, <3>3, <3>4 DEF NothingMissed
  <2>5. QED
    BY <2>1, <2>3, <2>4
<1>3. CASE Fetch
  <2>1. /\ phase = "fetch" /\ UNCHANGED <<problem, g, real>>
        /\ Pending = {} /\ Pending' = {} /\ Doomed' = {}
        /\ Reached' = Reached /\ StartNodes' = StartNodes
    BY <1>3, FetchFacts
  <2>2. PICK c \in open :
          /\ c \in EntryType /\ open' = open \ {c}
          /\ \/ Leaves(c) /\ phase' = "found" /\ Centers' = Centers
             \/ /\ ~Leaves(c) /\ UNCHANGED phase
                /\ Centers' = Centers \cup {c} /\ Entries' = Entries
    BY <1>3, FetchFacts
  <2>3. CASE Leaves(c) /\ phase' = "found" /\ Centers' = Centers
    BY <2>1, <2>3 DEF NothingMissed, Running
  <2>4. CASE /\ ~Leaves(c) /\ UNCHANGED phase
             /\ Centers' = Centers \cup {c} /\ Entries' = Entries
    <3>1. c.v # Goal
      BY <2>4 DEF Leaves
    <3>2. \A x \in open : x.v = Goal => x \in open'
      BY <2>2, <3>1
    <3>3. \A v \in Nodes : Looked(v) => Looked(v)'
      BY <2>1 DEF Looked, Edge
    <3>4. Reached \subseteq Nodes
      BY DEF Reached
    <3>5. QED
      BY <2>1, <2>2, <2>4, <3>1, <3>2, <3>3, <3>4 DEF NothingMissed, Running
  <2>5. QED
    BY <2>2, <2>3, <2>4
<1>4. CASE Fetched
  <2>1. /\ phase = "fetch" /\ phase' \in {"failed", "expand", "aborted"} /\ Enough
        /\ phase' = "failed" => centers = <<>>
        /\ UNCHANGED <<problem, g, real, open, centers, work, rest>>
    BY <1>4 DEF Fetched, costs, tasks
  <2>2. phase' = "failed" => open = {}
    <3>1. problem.tasks # 0
      BY <1>1, ProblemFacts
    <3>2. QED
      BY <2>1, <3>1 DEF Enough
  <2>3. /\ Pending' = Pending /\ Doomed' = Doomed /\ Reached' = Reached
        /\ StartNodes' = StartNodes /\ Entries' = Entries /\ Centers' = Centers
    BY <2>1 DEF Pending, Doomed, Reached, StartNodes, Entries, Centers
  <2>4. \A v \in Nodes : Looked(v) => Looked(v)'
    BY <2>1, <2>3 DEF Looked, Edge
  <2>5. Reached \subseteq Nodes
    BY DEF Reached
  <2>6. QED
    BY <2>1, <2>2, <2>3, <2>4, <2>5 DEF NothingMissed, Running, Edge
<1>5. CASE Expand
  <2>1. /\ phase = "expand" /\ phase' = "apply" /\ centers' = <<>>
        /\ UNCHANGED <<problem, g, real, open>>
        /\ Pending' = UNION {Updates(c) : c \in Centers}
        /\ Doomed' = {c.v : c \in {d \in Centers : IsFresh(d) /\ Updates(d) = {}}}
    BY <1>1, <1>5, ExpandFacts
  <2>2. /\ Centers' = {} /\ Entries' = open /\ Reached' = Reached /\ StartNodes' = StartNodes
    BY <2>1 DEF Centers, Entries, Reached, StartNodes
  <2>3. ASSUME NEW c \in Centers, IsFresh(c), NEW w \in Nodes, Edge(c.v, w)
        PROVE  w \in Reached \/ \E u \in Updates(c) : u.v = w
    <3>1. c \in Entries
      BY DEF Entries
    <3>2. QED
      BY <2>3, <3>1, AsksForNeighbours
  <2>4. ASSUME NEW v \in Doomed', NEW w \in Nodes, Edge(v, w)
        PROVE  w \in Reached
    <3>1. PICK c \in Centers : c.v = v /\ IsFresh(c) /\ Updates(c) = {}
      BY <2>1
    <3>2. QED
      BY <2>3, <2>4, <3>1
  <2>5. ASSUME NEW v \in Reached
        PROVE  \/ \E c \in Entries' : c.v = v /\ c.raw <= g[v]
               \/ Looked(v)'
    <3>1. CASE \E c \in Centers : c.v = v /\ c.raw <= g[v]
      <4>1. PICK c \in Centers : c.v = v /\ IsFresh(c)
        BY <3>1 DEF IsFresh
      <4>2. ASSUME NEW w \in Nodes, Edge(v, w)
            PROVE  w \in Reached' \/ \E u \in Pending' : u.v = w
        BY <2>1, <2>2, <2>3, <4>1, <4>2
      <4>3. QED
        BY <2>1, <4>2 DEF Looked, Edge
    <3>2. CASE \E c \in open : c.v = v /\ c.raw <= g[v]
      BY <2>2, <3>2
    <3>3. CASE Looked(v)
      <4>1. Pending = {}
        BY <2>1 DEF SearchInv, Phased, Pending, NoWork
      <4>2. QED
        BY <2>1, <2>2, <3>3, <4>1 DEF Looked, Edge
    <3>4. QED
      BY <2>1, <3>1, <3>2, <3>3 DEF NothingMissed, Running, Entries
  <2>6. QED
    BY <2>1, <2>2, <2>4, <2>5 DEF NothingMissed, Running, Edge
<1>6. CASE Apply
  <2>1. phase = "apply" /\ UNCHANGED <<problem, centers, phase>>
    BY <1>6, ApplyFacts
  <2>2. PICK u \in Pending :
          /\ u \in UpdateType /\ Pending \subseteq Pending' \cup {u} /\ Doomed' = Doomed
          /\ \/ g[u.v] <= u.raw /\ UNCHANGED <<g, real, open>>
             \/ /\ g[u.v] > u.raw /\ real[u.v] = g[u.v] /\ u.raw < Inf
                /\ g' = [g EXCEPT ![u.v] = u.raw] /\ real' = [real EXCEPT ![u.v] = u.raw]
                /\ open' \in Limited(open \cup {Entry(u.v, u.raw)})
    BY <1>6, ApplyFacts
  <2>3. u.v \in Nodes /\ u.raw \in Nat /\ u.raw < Inf
    BY <2>2 DEF UpdateType, SearchInv, CostsHold
  <2>4. Reached' = Reached \cup {u.v}
    <3>1. CASE g[u.v] <= u.raw /\ UNCHANGED <<g, real, open>>
      <4>1. u.v \in Reached
        BY <1>1, <2>3, <3>1 DEF SearchInv, CostsHold, Reached, Closed
      <4>2. QED
        BY <3>1, <4>1 DEF Reached
    <3>2. CASE u.raw < Inf /\ real' = [real EXCEPT ![u.v] = u.raw]
      BY <1>1, <2>3, <3>2 DEF Reached
    <3>3. QED
      BY <2>2, <3>1, <3>2
  <2>5. Centers' = Centers /\ StartNodes' = StartNodes
    BY <2>1 DEF Centers, StartNodes
  <2>6. ASSUME NEW v \in Nodes, Looked(v)
        PROVE  Looked(v)'
    <3>1. ASSUME NEW w \in Nodes, Edge(v, w)
          PROVE  w \in Reached' \/ \E x \in Pending' : x.v = w
      <4>1. w \in Reached \/ \E x \in Pending : x.v = w
        BY <2>6, <3>1 DEF Looked
      <4>2. QED
        BY <2>2, <2>4, <4>1
    <3>2. QED
      BY <2>1, <3>1 DEF Looked, Edge
  <2>7. open \subseteq open'
    BY <2>1, <2>2, LimitedFacts
  <2>8. ASSUME NEW v \in Reached', phase \in Running
        PROVE  \/ \E c \in Entries' : c.v = v /\ c.raw <= g'[v]
               \/ Looked(v)'
    <3>1. CASE v = u.v /\ ~(g[u.v] <= u.raw)
      <4>1. /\ g' = [g EXCEPT ![u.v] = u.raw]
            /\ open' \in Limited(open \cup {Entry(u.v, u.raw)})
        BY <2>2, <3>1
      <4>2. Entry(u.v, u.raw) \in open'
        BY <2>1, <4>1, LimitedFacts
      <4>3. Entry(u.v, u.raw).v = u.v /\ Entry(u.v, u.raw).raw = u.raw /\ g'[u.v] = u.raw
        BY <1>1, <2>3, <4>1 DEF Entry
      <4>4. QED
        BY <2>3, <3>1, <4>2, <4>3 DEF Entries
    <3>2. CASE ~(v = u.v /\ ~(g[u.v] <= u.raw))
      <4>1. v \in Reached /\ g'[v] = g[v]
        <5>1. CASE g[u.v] <= u.raw /\ UNCHANGED <<g, real, open>>
          BY <5>1 DEF Reached
        <5>2. CASE g[u.v] > u.raw /\ g' = [g EXCEPT ![u.v] = u.raw]
          <6>1. v # u.v
            BY <1>1, <2>3, <3>2, <5>2 DEF Closed
          <6>2. QED
            BY <1>1, <2>3, <2>4, <5>2, <6>1
        <5>3. QED
          BY <2>2, <5>1, <5>2
      <4>2. \/ \E c \in Entries : c.v = v /\ c.raw <= g[v]
            \/ Looked(v)
        BY <2>1, <2>8, <4>1 DEF NothingMissed
      <4>3. v \in Nodes
        BY DEF Reached
      <4>4. QED
        BY <2>5, <2>6, <2>7, <4>1, <4>2, <4>3 DEF Entries
    <3>3. QED
      BY <3>1, <3>2
  <2>9. ASSUME Goal \in Reached', phase \in Running
        PROVE  \E c \in open' : c.v = Goal
    <3>1. CASE Goal \in Reached
      BY <2>1, <2>7, <2>9, <3>1 DEF NothingMissed
    <3>2. CASE Goal \notin Reached
      <4>1. u.v = Goal
        BY <2>4, <2>9, <3>2
      <4>2. open' \in Limited(open \cup {Entry(u.v, u.raw)})
        BY <2>2, <2>4, <2>9, <3>2 DEF Reached
      <4>3. Entry(u.v, u.raw) \in open'
        BY <2>1, <4>2, LimitedFacts
      <4>4. QED
        BY <4>1, <4>3 DEF Entry
    <3>3. QED
      BY <3>1, <3>2
  <2>10. QED
    BY <2>1, <2>2, <2>4, <2>5, <2>8, <2>9 DEF NothingMissed, Running, Edge
<1>7. CASE Applies
  <2>1. /\ phase = "apply" /\ phase' \in {"fetch", "apply"}
        /\ UNCHANGED <<problem, real, open, centers>>
        /\ g' = [v \in Nodes |-> IF v \in work.dont THEN Closed ELSE g[v]]
        /\ work.dont \subseteq Doomed /\ Pending' = Pending /\ Doomed' \subseteq Doomed
    BY <1>7, AppliesFacts
  <2>2. /\ Reached' = Reached /\ StartNodes' = StartNodes /\ Entries' = Entries
        /\ Centers' = Centers
    BY <2>1 DEF Reached, StartNodes, Entries, Centers
  <2>3. \A v \in Nodes : Looked(v) => Looked(v)'
    BY <2>1, <2>2 DEF Looked, Edge
  <2>4. ASSUME NEW v \in Reached
        PROVE  \/ \E c \in Entries' : c.v = v /\ c.raw <= g'[v]
               \/ Looked(v)'
    <3>1. v \in Nodes
      BY DEF Reached
    <3>2. CASE v \in work.dont
      <4>1. Looked(v)
        BY <2>1, <3>2 DEF NothingMissed, Looked
      <4>2. QED
        BY <2>3, <3>1, <4>1
    <3>3. CASE v \notin work.dont
      <4>1. g'[v] = g[v]
        BY <2>1, <3>1, <3>3
      <4>2. QED
        BY <2>1, <2>2, <2>3, <3>1, <4>1 DEF NothingMissed, Running
    <3>4. QED
      BY <3>2, <3>3
  <2>5. QED
    BY <2>1, <2>2, <2>4 DEF NothingMissed, Running, Edge
<1>8. CASE findPath \/ UNCHANGED vars
  <2>1. UNCHANGED <<problem, g, real, open, centers, work, rest, phase>>
    BY <1>8 DEF findPath, vars, costs, tasks
  <2>2. /\ Pending' = Pending /\ Doomed' = Doomed /\ Reached' = Reached
        /\ StartNodes' = StartNodes /\ Entries' = Entries /\ Centers' = Centers
    BY <2>1 DEF Pending, Doomed, Reached, StartNodes, Entries, Centers
  <2>3. QED
    BY <2>1, <2>2 DEF NothingMissed, Looked, Edge
<1>9. QED
  BY <1>2, <1>3, <1>4, <1>5, <1>6, <1>7, <1>8 DEF Next

\* A search that has failed has reached all that can be reached, and not the end.
LEMMA FailedWithoutWay ==
  ASSUME SearchInv, NothingMissed
  PROVE  FailsOnlyWithoutWay
<1> SUFFICES ASSUME phase = "failed", problem.limit = 0
             PROVE  \E S \in SUBSET Nodes :
                      /\ StartNodes \subseteq S /\ Goal \notin S
                      /\ \A u \in S, v \in Nodes : Edge(u, v) => v \in S
  BY DEF FailsOnlyWithoutWay
<1>1. Entries = {} /\ open = {}
  BY DEF NothingMissed, Entries, Centers
<1>2. Pending = {}
  BY DEF SearchInv, Phased, Pending, NoWork
<1>3. StartNodes \subseteq Reached /\ Goal \notin Reached
  BY <1>1 DEF NothingMissed
<1>4. \A v \in Reached : Looked(v)
  BY <1>1 DEF NothingMissed
<1>5. \A u \in Reached, v \in Nodes : Edge(u, v) => v \in Reached
  BY <1>2, <1>4 DEF Looked
<1>6. Reached \in SUBSET Nodes
  BY DEF Reached
<1>7. QED
  BY <1>3, <1>5, <1>6

\* However many threads share the nodes, in whatever order they apply what they
\* found and whatever they close: a search that gives up has no way to the end.
THEOREM GivesUpWithoutWay ==
  Spec => []FailsOnlyWithoutWay
<1> DEFINE FailsInv == SearchInv /\ Bounded /\ NothingMissed
<1>1. Init => FailsInv
  <2> SUFFICES ASSUME Init PROVE FailsInv
    OBVIOUS
  <2>1. SearchInv
    BY InitSearch
  <2>2. /\ open = {} /\ centers = <<>> /\ work = NoWork /\ rest = {} /\ phase = "call"
        /\ real = [v \in Nodes |-> Inf]
    BY DEF Init
  <2>3. Entries = {} /\ Centers = {} /\ Pending = {} /\ Doomed = {} /\ Reached = {}
    BY <2>2 DEF Entries, Centers, Pending, Doomed, NoWork, Reached
  <2>4. Bounded /\ NothingMissed
    BY <2>2, <2>3 DEF Bounded, NothingMissed, Running
  <2>5. QED
    BY <2>1, <2>4
<1>2. FailsInv /\ [Next]_vars => FailsInv'
  BY SearchStep, BoundedStep, NothingMissedStep
<1>3. FailsInv => FailsOnlyWithoutWay
  BY FailedWithoutWay
<1>4. QED
  BY <1>1, <1>2, <1>3, PTL DEF Spec

-----------------------------------------------------------------------------
(* An exact search: facts of a state *)

\* A node's costs are naturals; unless it is closed g is the real one.
LEMMA NodeFacts ==
  ASSUME SearchInv, NEW v \in Nodes
  PROVE  /\ real[v] \in 0..Inf /\ real[v] \in Nat /\ Inf \in Nat
         /\ g[v] = Closed \/ g[v] = real[v]
         /\ problem.estim[v] \in Nat /\ Through(v) \in Nat
         /\ Through(v) = real[v] + problem.estim[v]
<1>1. /\ problem \in Problems /\ Inf \in Nat /\ real \in [Nodes -> 0..Inf]
      /\ problem.estim \in [Nodes -> Nat]
  BY ProblemFacts DEF SearchInv, TypeOK
<1>2. g[v] = Closed \/ g[v] = real[v]
  BY DEF SearchInv, CostsHold
<1>3. QED
  BY <1>1, <1>2 DEF Through

\* An entry's key is its cost and the estimate of its node.
LEMMA EntryFacts ==
  ASSUME SearchInv, NEW c \in Entries
  PROVE  /\ c \in EntryType /\ c.v \in Nodes /\ c.raw \in Nat /\ c.p \in Nat
         /\ c.p = c.raw + problem.estim[c.v] /\ real[c.v] <= c.raw
<1>1. c \in EntryType
  BY DEF SearchInv, TypeOK, Entries, Centers
<1>2. QED
  BY <1>1 DEF SearchInv, CostsHold, EntryType

\* A pending improvement comes along an edge.
LEMMA PendingFacts ==
  ASSUME SearchInv, NEW u \in Pending
  PROVE  /\ u.v \in Nodes /\ u.from \in Nodes /\ u.raw \in Nat /\ u.raw < Inf
         /\ Edge(u.from, u.v) /\ Cost(u.from, u.v) \in Nat
         /\ real[u.from] + Cost(u.from, u.v) <= u.raw
<1>1. u \in UpdateType
  BY DEF SearchInv, TypeOK, Pending, WorkType
<1>2. /\ Edge(u.from, u.v) /\ u.raw < Inf
      /\ real[u.from] + Cost(u.from, u.v) <= u.raw
  BY DEF SearchInv, CostsHold
<1>3. Cost(u.from, u.v) \in Nat
  BY <1>2, EdgeFacts DEF SearchInv, TypeOK
<1>4. QED
  BY <1>1, <1>2, <1>3 DEF UpdateType

\* Entries of a node with the same cost are one.
LEMMA SameEntry ==
  ASSUME NEW c \in EntryType, NEW d \in EntryType, c.p = d.p, c.raw = d.raw, c.v = d.v
  PROVE  c = d
BY DEF EntryType

\* Along an edge the estimate falls by no more than its cost.
LEMMA ConsistentEdge ==
  ASSUME problem \in Problems, SearchesExactly, NEW u, NEW v, Edge(u, v)
  PROVE  problem.estim[u] <= Cost(u, v) + problem.estim[v]
<1>1. <<u, v>> \in DOMAIN problem.cost /\ problem.cost[<<u, v>>] >= 0
  BY DEF Edge
<1>2. \A e \in DOMAIN problem.cost :
        problem.cost[e] >= 0 => problem.estim[e[1]] <= problem.cost[e] + problem.estim[e[2]]
  BY DEF SearchesExactly, Consistent
<1>3. QED
  BY <1>1, <1>2 DEF Cost

\* What a node asks for costs no less than the node.
LEMMA UpdatesCostMore ==
  ASSUME SearchInv, SearchesExactly,
         NEW c \in Entries, NEW u \in Updates(c)
  PROVE  /\ u.from = c.v /\ u.v \in Nodes /\ Edge(c.v, u.v) /\ u.raw = c.raw + Cost(c.v, u.v)
         /\ u.raw \in Nat /\ c.p <= u.raw + problem.estim[u.v]
<1>1. PICK v \in Nodes :
        /\ MayImprove(c, v)
        /\ u = [from |-> c.v, v |-> v, raw |-> c.raw + problem.cost[<<c.v, v>>]]
  BY DEF Updates
<1>2. u.from = c.v /\ u.v = v /\ u.raw = c.raw + Cost(c.v, v) /\ Edge(c.v, v)
  BY <1>1 DEF Cost, MayImprove
<1>3. problem \in Problems
  BY DEF SearchInv, TypeOK
<1>4. Cost(c.v, v) \in Nat
  BY <1>2, <1>3, EdgeFacts
<1>5. problem.estim[c.v] <= Cost(c.v, v) + problem.estim[v]
  BY <1>2, <1>3, ConsistentEdge
<1>6. c.v \in Nodes /\ c.raw \in Nat /\ c.p = c.raw + problem.estim[c.v]
  BY EntryFacts
<1>7. problem.estim[c.v] \in Nat /\ problem.estim[v] \in Nat
  BY <1>3, <1>6, ProblemFacts
<1>8. QED
  BY <1>2, <1>4, <1>5, <1>6, <1>7

-----------------------------------------------------------------------------
(* An exact search expands the best node first *)

\* An exact search starts with nothing but its only start.
LEMMA ExactCall ==
  ASSUME SearchInv, SearchesExactly, Call, phase' \in Running
  PROVE  ExactSoFar'
<1>1. /\ UNCHANGED <<problem, centers, work, rest>> /\ centers = <<>> /\ work = NoWork
      /\ rest = {} /\ phase = "call" /\ problem \in Problems
  BY DEF Call, tasks, SearchInv, Phased, TypeOK
<1>2. Centers' = {} /\ Pending' = {} /\ Doomed' = {} /\ Len(centers') = 0
  BY <1>1 DEF Centers, Pending, Doomed, NoWork
<1>3. ~(StartNodes = {} \/ Goal \in StartNodes)
  BY DEF Call, Running
<1>4. /\ g' = [v \in Nodes |-> IF v \in StartNodes THEN problem.starts[v] ELSE Inf]
      /\ real' = g'
      /\ open' = {Entry(v, problem.starts[v]) : v \in StartNodes}
  BY <1>3 DEF Call
<1>5. /\ StartNodes \subseteq Nodes /\ Inf \in Nat
      /\ \A v \in StartNodes : problem.starts[v] \in Nat /\ problem.starts[v] < Inf
  BY <1>1, ProblemFacts, MostFacts
<1>6. /\ Reached' = StartNodes /\ StartNodes' = StartNodes
      /\ \A v \in StartNodes : real'[v] = problem.starts[v]
      /\ \A v \in Nodes : g'[v] # Closed
  BY <1>1, <1>4, <1>5 DEF Reached, StartNodes, Closed
<1>7. PICK s : StartNodes = {s}
  <2>1. IsFiniteSet(StartNodes)
    BY <1>1, <1>5, ProblemFacts, FS_Subset
  <2>2. QED
    BY <2>1, FS_Singleton DEF SearchesExactly
<1>8. Entries' = {Entry(s, problem.starts[s])}
  BY <1>2, <1>4, <1>7 DEF Entries
<1>9. /\ Entry(s, problem.starts[s]).v = s
      /\ Entry(s, problem.starts[s]).raw = problem.starts[s]
      /\ Entry(s, problem.starts[s]).p = problem.starts[s] + problem.estim[s]
  BY DEF Entry
<1>10. Done' = {}
  BY <1>6, <1>7, <1>8, <1>9 DEF Done, Live
<1>11. BestFirst' /\ Improved'
  BY <1>2, <1>6, <1>10 DEF BestFirst, Improved
<1>12. \A v \in Nodes : problem.starts[s] <= real'[v]
  BY <1>4, <1>5, <1>7
<1>13. problem.starts[s] + problem.estim[s] \in Nat
  BY <1>1, <1>5, <1>7, ProblemFacts
<1>14. FromStart'
  BY <1>1, <1>2, <1>6, <1>7, <1>8, <1>9, <1>12, <1>13 DEF FromStart, Through
<1>15. GoalIsOpen'
  BY <1>3, <1>6 DEF GoalIsOpen
<1>16. QED
  BY <1>2, <1>11, <1>14, <1>15 DEF ExactSoFar

\* The node fetched is the best, and the only one.
LEMMA ExactFetch ==
  ASSUME SearchInv, SearchesExactly, ExactSoFar, Fetch, phase' \in Running
  PROVE  ExactSoFar'
<1>1. /\ ~Enough /\ UNCHANGED <<problem, g, real>>
      /\ Pending = {} /\ Pending' = {} /\ Doomed = {} /\ Doomed' = {}
      /\ Reached' = Reached /\ StartNodes' = StartNodes
  BY FetchFacts
<1>2. PICK c \in open :
        /\ c \in EntryType /\ IsTop(c) /\ open' = open \ {c} /\ ~Leaves(c)
        /\ Len(centers') = Len(centers) + 1 /\ Centers' = Centers \cup {c}
        /\ Entries' = Entries
  BY FetchFacts DEF Running
<1>3. centers = <<>>
  <2>1. Len(centers) # 1 /\ Len(centers) <= 1 /\ centers \in Seq(EntryType)
    BY <1>1 DEF Enough, SearchesExactly, ExactSoFar, SearchInv, TypeOK
  <2>2. Len(centers) \in Nat
    BY <2>1
  <2>3. \A n \in Nat : n # 1 /\ n <= 1 => n = 0
    OBVIOUS
  <2>4. Len(centers) = 0
    BY <2>1, <2>2, <2>3
  <2>5. QED
    BY <2>1, <2>4
<1>4. Centers' = {c} /\ Len(centers') <= 1
  BY <1>2, <1>3 DEF Centers
<1>5. Done' = Done
  BY <1>1, <1>2 DEF Done, Live
<1>6. BestFirst'
  BY <1>1, <1>2, <1>4, <1>5 DEF ExactSoFar, BestFirst, IsTop, Through
<1>7. Improved' /\ FromStart'
  BY <1>1, <1>2, <1>5 DEF ExactSoFar, Improved, FromStart, Through, Edge, Cost
<1>8. GoalIsOpen'
  BY <1>1, <1>2 DEF ExactSoFar, GoalIsOpen, Leaves
<1>9. QED
  BY <1>4, <1>6, <1>7, <1>8 DEF ExactSoFar

\* The node that is expanded is done then: the best that was left.
LEMMA ExactExpand ==
  ASSUME SearchInv, SearchesExactly, ExactSoFar, Expand
  PROVE  ExactSoFar'
<1>1. /\ phase = "expand" /\ centers' = <<>> /\ UNCHANGED <<problem, g, real, open>>
      /\ Pending' = UNION {Updates(c) : c \in Centers}
      /\ Doomed' = {c.v : c \in {d \in Centers : IsFresh(d) /\ Updates(d) = {}}}
  BY ExpandFacts DEF SearchInv
<1>2. Pending = {} /\ Doomed = {} /\ problem \in Problems /\ centers \in Seq(EntryType)
  BY <1>1 DEF SearchInv, Phased, Pending, Doomed, NoWork, TypeOK
<1>3. /\ Centers' = {} /\ Entries' = open /\ Reached' = Reached /\ StartNodes' = StartNodes
      /\ Entries = open \cup Centers
  BY <1>1 DEF Centers, Entries, Reached, StartNodes
<1>4. \A c, d \in Centers : c = d
  <2>1. Len(centers) \in Nat /\ Len(centers) <= 1
    BY <1>2 DEF ExactSoFar
  <2>2. \A i, j \in DOMAIN centers : i = j
    BY <1>2, <2>1
  <2>3. QED
    BY <2>2 DEF Centers
<1>5. ASSUME NEW c \in Centers
      PROVE  /\ c \in Entries /\ c \notin open /\ c \in EntryType
             /\ c.v \in Nodes /\ c.raw \in Nat /\ c.p \in Nat
             /\ c.p = c.raw + problem.estim[c.v] /\ real[c.v] <= c.raw
             /\ \A o \in open : c.p <= o.p
  <2>1. c \in Entries
    BY <1>3
  <2>2. QED
    BY <2>1, EntryFacts DEF ExactSoFar, BestFirst
<1>6. ASSUME NEW v \in Done
      PROVE  v \in Nodes /\ v \in Reached /\ v \in Done'
  BY <1>1, <1>3 DEF Done, Live, Reached
<1>7. ASSUME NEW v \in Done', v \notin Done
      PROVE  /\ v \in Nodes /\ \E c \in Centers : c.v = v /\ c.raw = real[v]
  BY <1>1, <1>3, <1>7 DEF Done, Live, Reached
\* A fresh entry is the best of its node.
<1>8. ASSUME NEW c \in Centers, IsFresh(c)
      PROVE  c.raw = real[c.v] /\ c.v \in Done' /\ g[c.v] = real[c.v]
  <2>1. /\ c \in Entries /\ c \notin open /\ c \in EntryType /\ c.v \in Nodes
        /\ c.raw \in Nat /\ c.p = c.raw + problem.estim[c.v] /\ real[c.v] <= c.raw
    BY <1>5
  <2>2. c.raw <= g[c.v] /\ real[c.v] \in Nat /\ g[c.v] \in {Closed, real[c.v]}
    BY <1>8, <2>1, NodeFacts DEF IsFresh
  <2>3. c.raw = real[c.v] /\ g[c.v] = real[c.v]
    BY <2>1, <2>2 DEF Closed
  <2>4. real[c.v] # Inf
    BY <2>1, <2>3 DEF SearchInv, CostsHold
  <2>5. ASSUME NEW o \in open, o.v = c.v, o.raw = real[c.v]
        PROVE  FALSE
    <3>1. o \in Entries
      BY <1>3
    <3>2. o \in EntryType /\ o.p = o.raw + problem.estim[o.v]
      BY <3>1, EntryFacts
    <3>3. o = c
      BY <2>1, <2>3, <2>5, <3>2, SameEntry
    <3>4. QED
      BY <2>1, <3>3
  <2>6. QED
    BY <1>1, <1>3, <2>1, <2>3, <2>4, <2>5 DEF Done, Live, Reached
<1>9. ASSUME NEW c \in Centers, NEW u \in Updates(c)
      PROVE  /\ u.from = c.v /\ u.v \in Nodes /\ Edge(c.v, u.v)
             /\ u.raw = c.raw + Cost(c.v, u.v) /\ u.raw \in Nat
             /\ c.p <= u.raw + problem.estim[u.v] /\ problem.estim[u.v] \in Nat
  <2>1. c \in Entries
    BY <1>5
  <2>2. u.v \in Nodes
    BY <2>1, UpdatesCostMore
  <2>3. QED
    BY <2>1, <2>2, UpdatesCostMore, NodeFacts
<1>10. BestFirst'
  <2>1. ASSUME NEW v \in Done'
        PROVE  /\ \A c \in open : Through(v) <= c.p
               /\ \A u \in Pending' : Through(v) <= u.raw + problem.estim[u.v]
    <3>1. CASE v \in Done
      <4>1. \A c \in Entries : Through(v) <= c.p
        BY <3>1 DEF ExactSoFar, BestFirst
      <4>2. ASSUME NEW u \in Pending'
            PROVE  Through(v) <= u.raw + problem.estim[u.v]
        <5>1. PICK c \in Centers : u \in Updates(c)
          BY <1>1
        <5>2. Through(v) <= c.p /\ c.p <= u.raw + problem.estim[u.v]
          BY <1>3, <1>9, <4>1, <5>1
        <5>3. Through(v) \in Nat /\ c.p \in Nat /\ u.raw + problem.estim[u.v] \in Nat
          BY <1>5, <1>6, <1>9, <3>1, <5>1, NodeFacts
        <5>4. QED
          BY <5>2, <5>3
      <4>3. QED
        BY <1>3, <4>1, <4>2
    <3>2. CASE v \notin Done
      <4>1. PICK c \in Centers : c.v = v /\ c.raw = real[v]
        BY <1>7, <3>2
      <4>2. Through(v) = c.p
        BY <1>5, <4>1 DEF Through
      <4>3. ASSUME NEW u \in Pending'
            PROVE  Through(v) <= u.raw + problem.estim[u.v]
        BY <1>1, <1>4, <1>9, <4>2
      <4>4. QED
        BY <1>5, <4>2, <4>3
    <3>3. QED
      BY <3>1, <3>2
  <2>2. \A v \in Nodes : g[v] = Closed => v \in Done'
    BY <1>6 DEF ExactSoFar, BestFirst
  <2>3. \A v \in Doomed' : v \in Done'
    BY <1>1, <1>8
  <2>4. Doomed' # {} => Pending' = {}
    BY <1>1, <1>4
  <2>5. QED
    BY <1>1, <1>3, <2>1, <2>2, <2>3, <2>4 DEF BestFirst, Through
<1>11. Improved'
  <2>1. ASSUME NEW v \in Done', NEW w \in Nodes, Edge(v, w)
        PROVE  \/ real[w] <= real[v] + Cost(v, w)
               \/ \E u \in Pending' : u.v = w /\ u.raw <= real[v] + Cost(v, w)
    <3>1. CASE v \in Done
      BY <1>2, <2>1, <3>1 DEF ExactSoFar, Improved
    <3>2. CASE v \notin Done
      <4>1. PICK c \in Centers : c.v = v /\ c.raw = real[v]
        BY <1>7, <3>2
      <4>2. /\ c \in Entries /\ v \in Nodes /\ c.p = real[v] + problem.estim[v]
        BY <1>5, <4>1
      <4>3. /\ real[v] \in Nat /\ real[w] \in Nat /\ Cost(v, w) \in Nat
            /\ problem.estim[v] \in Nat /\ problem.estim[w] \in Nat
            /\ g[v] \in {Closed, real[v]} /\ g[w] \in {Closed, real[w]}
            /\ Through(w) = real[w] + problem.estim[w]
        BY <1>2, <2>1, <4>2, NodeFacts, EdgeFacts
      <4>4. g[v] = real[v]
        BY <3>2, <4>2, <4>3 DEF ExactSoFar, BestFirst
      <4>5. IsFresh(c)
        BY <4>1, <4>3, <4>4 DEF IsFresh
      <4>6. CASE MayImprove(c, w)
        <5> DEFINE u == [from |-> c.v, v |-> w, raw |-> c.raw + problem.cost[<<c.v, w>>]]
        <5>1. u \in Updates(c)
          BY <4>5, <4>6 DEF Updates
        <5>2. u \in Pending' /\ u.v = w /\ u.raw = real[v] + Cost(v, w)
          BY <1>1, <4>1, <5>1 DEF Cost
        <5>3. u.raw <= real[v] + Cost(v, w)
          BY <4>3, <5>2
        <5>4. QED
          BY <5>2, <5>3
      <4>7. CASE ~MayImprove(c, w)
        <5>1. ~(g[w] >= g[v]) \/ ~(g[w] > real[v] + Cost(v, w))
          BY <2>1, <4>1, <4>7 DEF MayImprove, Cost
        <5>2. CASE g[w] = Closed
          <6>1. Through(w) <= c.p
            BY <4>2, <5>2 DEF ExactSoFar, BestFirst
          <6>2. problem.estim[v] <= Cost(v, w) + problem.estim[w]
            BY <1>2, <2>1, ConsistentEdge
          <6>3. QED
            BY <4>2, <4>3, <6>1, <6>2
        <5>3. CASE g[w] = real[w]
          BY <4>3, <4>4, <5>1, <5>3
        <5>4. QED
          BY <4>3, <5>2, <5>3
      <4>8. QED
        BY <4>6, <4>7
    <3>3. QED
      BY <3>1, <3>2
  <2>2. QED
    BY <1>1, <2>1 DEF Improved, Edge, Cost
<1>12. FromStart'
  <2>1. ASSUME NEW s \in StartNodes, NEW u \in Pending'
        PROVE  Through(s) <= u.raw + problem.estim[u.v]
    <3>1. PICK c \in Centers : u \in Updates(c)
      BY <1>1
    <3>2. Through(s) <= c.p
      BY <1>3 DEF ExactSoFar, FromStart
    <3>3. s \in Nodes
      BY <1>2, ProblemFacts
    <3>4. QED
      BY <1>5, <1>9, <3>1, <3>2, <3>3, NodeFacts
  <2>2. QED
    BY <1>1, <1>3, <2>1 DEF ExactSoFar, FromStart, Through
<1>13. GoalIsOpen' /\ Len(centers') <= 1
  BY <1>1, <1>3 DEF ExactSoFar, GoalIsOpen
<1>14. QED
  BY <1>10, <1>11, <1>12, <1>13 DEF ExactSoFar

\* What is applied costs no less than what is done.
LEMMA ExactApply ==
  ASSUME SearchInv, SearchesExactly, ExactSoFar, Apply
  PROVE  ExactSoFar'
<1>1. /\ phase = "apply" /\ UNCHANGED <<problem, centers>>
      /\ problem \in Problems /\ real \in [Nodes -> 0..Inf] /\ g \in [Nodes -> Closed..Inf]
      /\ problem.limit = 0 /\ Inf \in Nat
  BY ApplyFacts, ProblemFacts DEF SearchesExactly, SearchInv, TypeOK
<1>2. PICK u \in Pending :
        /\ Pending' \subseteq Pending /\ Pending \subseteq Pending' \cup {u} /\ Doomed' = Doomed
        /\ \/ g[u.v] <= u.raw /\ UNCHANGED <<g, real, open>>
           \/ /\ g[u.v] > u.raw /\ real[u.v] = g[u.v]
              /\ g' = [g EXCEPT ![u.v] = u.raw] /\ real' = [real EXCEPT ![u.v] = u.raw]
              /\ open' \in Limited(open \cup {Entry(u.v, u.raw)})
  BY ApplyFacts
<1>3. /\ Centers = {} /\ Centers' = {} /\ Entries = open /\ Entries' = open'
      /\ StartNodes' = StartNodes /\ Doomed = {} /\ Doomed' = {} /\ Len(centers') <= 1
  BY <1>1, <1>2 DEF SearchInv, Phased, Centers, Entries, StartNodes, ExactSoFar, BestFirst
<1>4. /\ u.v \in Nodes /\ u.from \in Nodes /\ u.raw \in Nat /\ u.raw < Inf
      /\ Cost(u.from, u.v) \in Nat /\ real[u.from] + Cost(u.from, u.v) <= u.raw
      /\ real[u.v] \in Nat /\ problem.estim[u.v] \in Nat
      /\ g[u.v] \in {Closed, real[u.v]}
      /\ Through(u.v) = real[u.v] + problem.estim[u.v]
  BY PendingFacts, NodeFacts
<1>5. CASE g[u.v] <= u.raw /\ UNCHANGED <<g, real, open>>
  <2>1. real[u.v] <= u.raw
    <3>1. CASE g[u.v] = real[u.v]
      BY <1>5, <3>1
    <3>2. CASE g[u.v] = Closed
      <4>1. Through(u.v) <= u.raw + problem.estim[u.v]
        BY <1>4, <3>2 DEF ExactSoFar, BestFirst
      <4>2. QED
        BY <1>4, <4>1
    <3>3. QED
      BY <1>4, <3>1, <3>2
  <2>2. Entries' = Entries /\ Reached' = Reached /\ Done' = Done
    BY <1>3, <1>5 DEF Reached, Done, Live
  <2>3. BestFirst'
    BY <1>1, <1>2, <1>3, <1>5, <2>2 DEF ExactSoFar, BestFirst, Through
  <2>4. ASSUME NEW v \in Done, NEW w \in Nodes, Edge(v, w)
        PROVE  \/ real[w] <= real[v] + Cost(v, w)
               \/ \E x \in Pending' : x.v = w /\ x.raw <= real[v] + Cost(v, w)
    <3>1. CASE real[w] <= real[v] + Cost(v, w)
      BY <3>1
    <3>2. CASE \E x \in Pending : x.v = w /\ x.raw <= real[v] + Cost(v, w)
      <4>1. PICK x \in Pending : x.v = w /\ x.raw <= real[v] + Cost(v, w)
        BY <3>2
      <4>2. CASE x = u
        <5>1. v \in Nodes /\ Cost(v, w) \in Nat
          BY <1>1, <2>4, EdgeFacts
        <5>2. real[v] \in Nat
          BY <5>1, NodeFacts
        <5>3. real[w] <= u.raw /\ u.raw <= real[v] + Cost(v, w)
          BY <2>1, <4>1, <4>2
        <5>4. QED
          BY <1>4, <4>1, <4>2, <5>1, <5>2, <5>3
      <4>3. CASE x # u
        BY <1>2, <4>1, <4>3
      <4>4. QED
        BY <4>2, <4>3
    <3>3. QED
      BY <2>4, <3>1, <3>2 DEF ExactSoFar, Improved
  <2>5. Improved'
    BY <1>1, <1>5, <2>2, <2>4 DEF Improved, Edge, Cost
  <2>6. FromStart' /\ GoalIsOpen'
    BY <1>1, <1>2, <1>3, <1>5, <2>2 DEF ExactSoFar, FromStart, GoalIsOpen, Through
  <2>7. QED
    BY <1>3, <2>3, <2>5, <2>6 DEF ExactSoFar
<1>6. CASE /\ g[u.v] > u.raw /\ real[u.v] = g[u.v]
           /\ g' = [g EXCEPT ![u.v] = u.raw] /\ real' = [real EXCEPT ![u.v] = u.raw]
           /\ open' \in Limited(open \cup {Entry(u.v, u.raw)})
  <2> DEFINE e == Entry(u.v, u.raw)
  <2>1. e.v = u.v /\ e.raw = u.raw /\ e.p = u.raw + problem.estim[u.v]
    BY DEF Entry
  <2> HIDE DEF e
  <2>2. Entries' = Entries \cup {e} /\ open' = open \cup {e}
    BY <1>1, <1>3, <1>6, LimitedFacts DEF e
  <2>3. /\ real'[u.v] = u.raw /\ g'[u.v] = u.raw /\ u.raw < real[u.v]
        /\ \A v \in Nodes : v # u.v => real'[v] = real[v] /\ g'[v] = g[v]
    BY <1>1, <1>4, <1>6
  <2>4. Reached' = Reached \cup {u.v}
    BY <1>1, <1>4, <1>6 DEF Reached
  <2>5. ASSUME NEW v \in Done'
        PROVE  v # u.v /\ v \in Nodes /\ v \in Done /\ real'[v] = real[v]
    <3>1. v \in Reached' /\ v \in Nodes
      BY DEF Done, Reached
    <3>2. v # u.v
      BY <2>1, <2>2, <2>3 DEF Done, Live
    <3>3. real'[v] = real[v] /\ v \in Reached
      BY <2>3, <2>4, <3>1, <3>2
    <3>4. \A c \in Entries : ~(c.v = v /\ c.raw = real[v])
      BY <2>2, <3>3 DEF Done, Live
    <3>5. QED
      BY <3>1, <3>2, <3>3, <3>4 DEF Done, Live
  <2>6. ASSUME NEW v \in Done, v # u.v
        PROVE  v \in Done'
    <3>1. v \in Reached /\ v \in Nodes /\ \A c \in Entries : ~(c.v = v /\ c.raw = real[v])
      BY DEF Done, Live, Reached
    <3>2. real'[v] = real[v] /\ v \in Reached'
      BY <2>3, <2>4, <2>6, <3>1
    <3>3. \A c \in Entries' : ~(c.v = v /\ c.raw = real'[v])
      BY <2>1, <2>2, <2>6, <3>1, <3>2
    <3>4. QED
      BY <3>2, <3>3 DEF Done, Live
  <2>7. BestFirst'
    <3>1. ASSUME NEW v \in Done'
          PROVE  /\ \A c \in Entries' : Through(v) <= c.p
                 /\ \A x \in Pending' : Through(v) <= x.raw + problem.estim[x.v]
      <4>1. /\ \A c \in Entries : Through(v) <= c.p
            /\ \A x \in Pending : Through(v) <= x.raw + problem.estim[x.v]
        BY <2>5 DEF ExactSoFar, BestFirst
      <4>2. QED
        BY <1>2, <2>1, <2>2, <4>1
    <3>2. ASSUME NEW v \in Done'
          PROVE  Through(v)' = Through(v)
      BY <1>1, <2>5 DEF Through
    <3>3. ASSUME NEW v \in Nodes, g'[v] = Closed
          PROVE  v \in Done'
      <4>1. v # u.v
        BY <1>4, <2>3, <3>3 DEF Closed
      <4>2. QED
        BY <2>3, <2>6, <3>3, <4>1 DEF ExactSoFar, BestFirst
    <3>4. QED
      BY <1>1, <1>3, <3>1, <3>2, <3>3 DEF BestFirst
  <2>8. Improved'
    <3>1. ASSUME NEW v \in Done', NEW w \in Nodes, Edge(v, w)
          PROVE  \/ real'[w] <= real'[v] + Cost(v, w)
                 \/ \E x \in Pending' : x.v = w /\ x.raw <= real'[v] + Cost(v, w)
      <4>1. /\ v \in Nodes /\ Cost(v, w) \in Nat /\ real'[v] = real[v]
            /\ real[v] \in Nat /\ real[w] \in Nat
        BY <1>1, <2>5, <3>1, NodeFacts, EdgeFacts
      <4>2. real'[w] <= real[w]
        BY <1>4, <2>3, <4>1
      <4>3. CASE real[w] <= real[v] + Cost(v, w)
        <5>1. real'[w] \in Nat
          BY <1>4, <2>3, <4>1
        <5>2. QED
          BY <4>1, <4>2, <4>3, <5>1
      <4>4. CASE \E x \in Pending : x.v = w /\ x.raw <= real[v] + Cost(v, w)
        <5>1. PICK x \in Pending : x.v = w /\ x.raw <= real[v] + Cost(v, w)
          BY <4>4
        <5>2. CASE x = u
          BY <2>3, <4>1, <5>1, <5>2
        <5>3. CASE x # u
          BY <1>2, <4>1, <5>1, <5>3
        <5>4. QED
          BY <5>2, <5>3
      <4>5. QED
        BY <2>5, <3>1, <4>3, <4>4 DEF ExactSoFar, Improved
    <3>2. QED
      BY <1>1, <3>1 DEF Improved, Edge, Cost
  <2>9. FromStart'
    <3>1. ASSUME NEW s \in StartNodes
          PROVE  /\ real'[s] = problem.starts[s] /\ real'[s] = real[s]
                 /\ \A v \in Nodes : real'[s] <= real'[v]
                 /\ \A c \in Entries' : Through(s) <= c.p
                 /\ \A x \in Pending' : Through(s) <= x.raw + problem.estim[x.v]
      <4>1. /\ real[s] = problem.starts[s]
            /\ \A v \in Nodes : real[s] <= real[v]
            /\ \A c \in Entries : Through(s) <= c.p
            /\ \A x \in Pending : Through(s) <= x.raw + problem.estim[x.v]
        BY DEF ExactSoFar, FromStart
      <4>2. s \in Nodes
        BY <1>1, ProblemFacts
      <4>3. s # u.v
        BY <1>4, <2>3, <4>1
      <4>4. real'[s] = real[s] /\ real[s] \in Nat /\ real[u.from] \in Nat
        BY <1>4, <2>3, <4>2, <4>3, NodeFacts
      <4>5. real[s] <= u.raw
        <5>1. real[s] <= real[u.from]
          BY <1>4, <4>1
        <5>2. QED
          BY <1>4, <4>4, <5>1
      <4>6. \A v \in Nodes : real'[s] <= real'[v]
        BY <2>3, <4>1, <4>4, <4>5
      <4>7. \A c \in Entries' : Through(s) <= c.p
        BY <2>1, <2>2, <4>1
      <4>8. QED
        BY <1>2, <4>1, <4>4, <4>6, <4>7
    <3>2. QED
      BY <1>1, <1>3, <3>1 DEF FromStart, Through
  <2>10. GoalIsOpen'
    <3>1. CASE Goal = u.v
      BY <2>1, <2>2, <2>3, <3>1 DEF GoalIsOpen
    <3>2. CASE Goal # u.v
      <4>1. Goal \in Nodes
        BY SearchAssumption
      <4>2. QED
        BY <2>2, <2>3, <2>4, <3>2, <4>1 DEF ExactSoFar, GoalIsOpen
    <3>3. QED
      BY <3>1, <3>2
  <2>11. QED
    BY <1>3, <2>7, <2>8, <2>9, <2>10 DEF ExactSoFar
<1>7. QED
  BY <1>2, <1>5, <1>6

\* The nodes that are closed are done.
LEMMA ExactApplies ==
  ASSUME SearchInv, SearchesExactly, ExactSoFar, Applies
  PROVE  ExactSoFar'
<1>1. /\ UNCHANGED <<problem, real, open, centers>>
      /\ g' = [v \in Nodes |-> IF v \in work.dont THEN Closed ELSE g[v]]
      /\ work.dont \subseteq Doomed /\ Pending' = Pending /\ Doomed' \subseteq Doomed
  BY AppliesFacts
<1>2. /\ Reached' = Reached /\ StartNodes' = StartNodes /\ Entries' = Entries
      /\ Centers' = Centers
  BY <1>1 DEF Reached, StartNodes, Entries, Centers
<1>3. Done' = Done
  BY <1>1, <1>2 DEF Done, Live
<1>4. BestFirst'
  BY <1>1, <1>2, <1>3 DEF ExactSoFar, BestFirst, Through
<1>5. Improved' /\ FromStart' /\ GoalIsOpen' /\ Len(centers') <= 1
  BY <1>1, <1>2, <1>3 DEF ExactSoFar, Improved, FromStart, GoalIsOpen, Through, Edge, Cost
<1>6. QED
  BY <1>4, <1>5 DEF ExactSoFar

\* No step that goes on breaks the order of an exact search.
LEMMA ExactStep ==
  ASSUME SearchInv, Exact, [Next]_vars
  PROVE  Exact'
<1> SUFFICES ASSUME SearchesExactly', phase' \in Running
             PROVE  ExactSoFar'
  BY DEF Exact, Running
<1>1. problem' = problem
  BY DEF Next, Call, Fetch, Fetched, Expand, Apply, Applies, findPath, vars
<1>2. SearchesExactly
  BY <1>1 DEF SearchesExactly, StartNodes
<1>3. CASE Call
  BY <1>2, <1>3, ExactCall
<1>4. ASSUME ~Call
      PROVE  ExactSoFar
  BY <1>2, <1>4 DEF Exact, Next, Fetch, Fetched, Expand, Apply, Applies, findPath, vars, Running
<1>5. CASE ~Call /\ (Fetch \/ Expand \/ Apply \/ Applies)
  BY <1>2, <1>4, <1>5, ExactFetch, ExactExpand, ExactApply, ExactApplies
<1>6. CASE ~Call /\ (Fetched \/ findPath \/ UNCHANGED vars)
  <2>1. UNCHANGED <<problem, g, real, open, centers, work, rest>>
    BY <1>6 DEF Fetched, findPath, vars, costs, tasks
  <2>2. /\ Pending' = Pending /\ Doomed' = Doomed /\ Reached' = Reached
        /\ StartNodes' = StartNodes /\ Entries' = Entries /\ Centers' = Centers
    BY <2>1 DEF Pending, Doomed, Reached, StartNodes, Entries, Centers
  <2>3. Done' = Done
    BY <2>1, <2>2 DEF Done, Live
  <2>4. BestFirst' /\ Improved' /\ FromStart' /\ GoalIsOpen'
    BY <1>4, <1>6, <2>1, <2>2, <2>3
       DEF ExactSoFar, BestFirst, Improved, FromStart, GoalIsOpen, Through, Edge, Cost
  <2>5. QED
    BY <1>4, <1>6, <2>1, <2>4 DEF ExactSoFar
<1>7. QED
  BY <1>3, <1>5, <1>6 DEF Next

-----------------------------------------------------------------------------
(* The end of an exact search *)

\* When the end comes to the top of the queue, nothing that is left could lead to
\* it at a lower cost.
LEMMA ExactEnd ==
  ASSUME SearchInv, Exact, SearchesExactly, Fetch, phase' = "found"
  PROVE  ExactlyFound'
<1>1. /\ phase = "fetch" /\ ~Enough /\ UNCHANGED <<problem, real>>
      /\ Pending = {} /\ StartNodes' = StartNodes
  BY FetchFacts
<1>2. PICK c \in open : IsTop(c) /\ Leaves(c) /\ path' = <<c.v>>
  BY <1>1, FetchFacts
<1>3. ExactSoFar /\ problem \in Problems /\ centers \in Seq(EntryType) /\ Inf \in Nat
  BY <1>1, ProblemFacts DEF Exact, Running, SearchInv, TypeOK
<1>4. centers = <<>>
  <2>1. Len(centers) # 1 /\ Len(centers) <= 1 /\ Len(centers) \in Nat
    BY <1>1, <1>3 DEF Enough, SearchesExactly, ExactSoFar
  <2>2. \A n \in Nat : n # 1 /\ n <= 1 => n = 0
    OBVIOUS
  <2>3. Len(centers) = 0
    BY <2>1, <2>2
  <2>4. QED
    BY <1>3, <2>3
<1>5. Entries = open /\ \A o \in Entries : c.p <= o.p
  BY <1>2, <1>4 DEF Entries, Centers, IsTop
<1>6. /\ c.v \in Nodes /\ c.raw \in Nat /\ c.p \in Nat
      /\ c.p = c.raw + problem.estim[c.v] /\ real[c.v] <= c.raw
  BY <1>5, EntryFacts
<1>7. problem.estim[c.v] \in Nat /\ real[c.v] \in Nat
  BY <1>6, NodeFacts
<1>8. c.v = Goal
  <2>1. problem.leave = 0 /\ ~(c.p - c.raw < 0)
    BY <1>6, <1>7 DEF SearchesExactly
  <2>2. QED
    BY <1>2, <2>1 DEF Leaves
<1>9. c.p = real[Goal] + problem.estim[Goal]
  <2>1. c.raw < Inf
    BY <1>5 DEF SearchInv, CostsHold
  <2>2. Goal \in Reached
    BY <1>3, <1>6, <1>7, <1>8, <2>1 DEF Reached
  <2>3. PICK d \in open : d.v = Goal /\ d.raw = real[Goal]
    BY <1>3, <2>2 DEF ExactSoFar, GoalIsOpen
  <2>4. d.p = real[Goal] + problem.estim[Goal] /\ c.p <= d.p
    BY <1>5, <2>3, EntryFacts
  <2>5. QED
    BY <1>6, <1>7, <1>8, <2>4
<1> DEFINE Rest(v) == c.p - problem.estim[v]
<1>10. ASSUME NEW v \in Nodes
       PROVE  /\ AtLeast(v) = IF real[v] < Rest(v) THEN real[v] ELSE Rest(v)
              /\ real[v] \in 0..Inf /\ real[v] \in Nat /\ Rest(v) \in Int
              /\ problem.estim[v] \in Nat /\ Through(v) = real[v] + problem.estim[v]
  <2>1. /\ real[v] \in 0..Inf /\ real[v] \in Nat
        /\ problem.estim[v] \in Nat /\ Through(v) = real[v] + problem.estim[v]
    BY NodeFacts
  <2>2. Rest(v) = real[Goal] + problem.estim[Goal] - problem.estim[v]
    <3>1. real[Goal] \in Nat /\ problem.estim[Goal] \in Nat
      BY <1>7, <1>8
    <3>2. QED
      BY <1>6, <1>9, <2>1, <3>1
  <2>3. AtLeast(v) = IF real[v] < Rest(v) THEN real[v] ELSE Rest(v)
    BY <2>2 DEF AtLeast
  <2>4. Rest(v) \in Int
    BY <1>6, <2>1
  <2>5. QED
    BY <2>1, <2>3, <2>4
<1>11. ASSUME NEW s \in StartNodes
       PROVE  AtLeast(s) = problem.starts[s]
  <2>1. s \in Nodes
    BY <1>3, ProblemFacts
  <2>2. real[s] = problem.starts[s] /\ Through(s) <= c.p
    BY <1>3, <1>5, <1>2 DEF ExactSoFar, FromStart
  <2>3. /\ AtLeast(s) = IF real[s] < Rest(s) THEN real[s] ELSE Rest(s)
        /\ real[s] \in Nat /\ problem.estim[s] \in Nat
        /\ Through(s) = real[s] + problem.estim[s]
    BY <1>10, <2>1
  <2>4. Rest(s) >= real[s]
    BY <1>6, <2>2, <2>3
  <2>5. AtLeast(s) = real[s]
    <3>1. Rest(s) \in Int
      BY <1>6, <2>3
    <3> HIDE DEF Rest
    <3>2. QED
      BY <2>3, <2>4, <3>1
  <2>6. QED
    BY <2>2, <2>5
<1>12. ASSUME NEW u \in Nodes, NEW v \in Nodes, Edge(u, v)
       PROVE  AtLeast(v) <= AtLeast(u) + Cost(u, v)
  <2>1. /\ Cost(u, v) \in Nat
        /\ problem.estim[u] <= Cost(u, v) + problem.estim[v]
    BY <1>3, <1>12, EdgeFacts, ConsistentEdge
  <2>2. Rest(v) <= Rest(u) + Cost(u, v)
    BY <1>6, <1>10, <2>1
  <2>3. real[v] <= real[u] + Cost(u, v) \/ Rest(u) <= real[u]
    <3>1. CASE u \notin Reached
      BY <1>3, <1>10, <2>1, <3>1 DEF Reached
    <3>2. CASE u \in Done
      BY <1>1, <1>3, <1>12, <3>2 DEF ExactSoFar, Improved
    <3>3. CASE u \in Reached /\ u \notin Done
      <4>1. PICK o \in Entries : o.v = u /\ o.raw = real[u]
        BY <3>3 DEF Done, Live
      <4>2. c.p <= real[u] + problem.estim[u]
        BY <1>5, <4>1, EntryFacts
      <4>3. QED
        BY <1>6, <1>10, <4>2
    <3>4. QED
      BY <3>1, <3>2, <3>3
  <2> HIDE DEF Rest
  <2>4. QED
    BY <1>10, <2>1, <2>2, <2>3
<1>13. AtLeast(Goal) = real[Goal]
  <2>1. Goal \in Nodes
    BY <1>6, <1>8
  <2>2. QED
    BY <1>9, <1>10, <2>1
<1>14. AtLeast(Goal)' = AtLeast(Goal) /\ \A v \in Nodes : AtLeast(v)' = AtLeast(v)
  BY <1>1 DEF AtLeast
<1>15. \A i \in DOMAIN path' : path'[i] = Goal
  BY <1>2, <1>8
<1>16. StartNodes \subseteq Nodes
  BY <1>3, ProblemFacts
<1>17. /\ \A s \in StartNodes' : AtLeast(s)' = problem'.starts[s]
       /\ \A u, v \in Nodes : Edge(u, v)' => AtLeast(v)' <= AtLeast(u)' + Cost(u, v)'
  BY <1>1, <1>11, <1>12, <1>14, <1>16 DEF Edge, Cost
<1>18. \A i \in DOMAIN path' : AtLeast(path[i])' = real'[path'[i]]
  BY <1>1, <1>13, <1>15 DEF AtLeast
<1>19. QED
  BY <1>17, <1>18 DEF ExactlyFound

\* The way back goes on along cheapest ways.
LEMMA ExactWay ==
  ASSUME SearchInv, ExactlyFound, SearchesExactly, findPath, phase = "found"
  PROVE  ExactlyFound'
<1>1. /\ ~WayEnds /\ path' = <<parents[Head(path)]>> \o path
      /\ UNCHANGED <<problem, real, parents>>
  BY DEF findPath, costs
<1>2. /\ problem \in Problems /\ path \in Seq(Nodes) /\ path # <<>>
      /\ DOMAIN parents \subseteq Nodes /\ \A v \in DOMAIN parents : parents[v] \in Nodes
  BY DEF SearchInv, TypeOK, PathLeadsBack, Over
<1> DEFINE from == parents[Head(path)]
           to   == Head(path)
<1>3. to \in DOMAIN parents
  BY <1>1 DEF WayEnds, Unused
<1>4. Edge(from, to) /\ real[from] + Cost(from, to) <= real[to]
  BY <1>3 DEF SearchInv, ParentsLeadBack
<1>5. /\ Cost(from, to) \in Nat /\ from \in Nodes /\ to \in Nodes
      /\ problem.estim[from] <= Cost(from, to) + problem.estim[to]
  BY <1>2, <1>3, <1>4, EdgeFacts, ConsistentEdge
<1> HIDE DEF from, to
<1>6. /\ path' = <<from>> \o path /\ from \in Nodes
      /\ Len(path') = Len(path) + 1 /\ path'[1] = from
      /\ \A i \in 1..Len(path) : path'[i + 1] = path[i]
      /\ Len(path) \in Nat /\ Len(path) > 0 /\ to = path[1]
      /\ path' \in Seq(Nodes)
  BY <1>1, <1>2, <1>5, Prepended DEF from, to
<1>7. AtLeast(to) = real[to]
  BY <1>2, <1>6 DEF ExactlyFound
<1>8. AtLeast(from) = real[from]
  <2>1. Goal \in Nodes
    BY SearchAssumption
  <2>2. /\ real[from] \in Nat /\ real[to] \in Nat /\ real[Goal] \in Nat
        /\ problem.estim[from] \in Nat /\ problem.estim[to] \in Nat
        /\ problem.estim[Goal] \in Nat
    BY <1>5, <2>1, NodeFacts
  <2>3. real[to] <= real[Goal] + problem.estim[Goal] - problem.estim[to]
    BY <1>7, <2>2 DEF AtLeast
  <2>4. real[from] <= real[Goal] + problem.estim[Goal] - problem.estim[from]
    BY <1>4, <1>5, <2>2, <2>3
  <2>5. QED
    BY <2>2, <2>4 DEF AtLeast
<1>9. \A v : AtLeast(v)' = AtLeast(v)
  BY <1>1 DEF AtLeast
<1>10. ASSUME NEW i \in DOMAIN path'
       PROVE  AtLeast(path'[i]) = real[path'[i]]
  <2>1. i \in 1..(Len(path) + 1)
    BY <1>6
  <2>2. CASE i = 1
    BY <1>6, <1>8, <2>2
  <2>3. CASE i # 1
    <3>1. i - 1 \in 1..Len(path) /\ i = (i - 1) + 1
      BY <1>6, <2>1, <2>3
    <3>2. path'[i] = path[i - 1] /\ i - 1 \in DOMAIN path
      BY <1>2, <1>6, <3>1
    <3>3. QED
      BY <3>2 DEF ExactlyFound
  <2>4. QED
    BY <2>2, <2>3
<1>11. /\ \A s \in StartNodes' : AtLeast(s)' = problem'.starts[s]
       /\ \A u, v \in Nodes : Edge(u, v)' => AtLeast(v)' <= AtLeast(u)' + Cost(u, v)'
  BY <1>1, <1>9 DEF ExactlyFound, Edge, Cost, StartNodes
<1>12. \A i \in DOMAIN path' : AtLeast(path[i])' = real'[path'[i]]
  BY <1>1, <1>10 DEF AtLeast
<1>13. QED
  BY <1>11, <1>12 DEF ExactlyFound

\* Once the goal is found AtLeast holds, and findPath keeps to it.
LEMMA ExactlyFoundStep ==
  ASSUME SearchInv, Exact, ExactlyFound, [Next]_vars
  PROVE  ExactlyFound'
<1> SUFFICES ASSUME SearchesExactly', phase' = "found"
             PROVE  ExactlyFound'
  BY DEF ExactlyFound
<1>1. problem' = problem
  BY DEF Next, Call, Fetch, Fetched, Expand, Apply, Applies, findPath, vars
<1>2. SearchesExactly
  BY <1>1 DEF SearchesExactly, StartNodes
<1>3. CASE Fetch
  BY <1>2, <1>3, ExactEnd
<1>4. CASE findPath
  <2>1. phase = "found"
    BY <1>4 DEF findPath
  <2>2. QED
    BY <1>2, <1>4, <2>1, ExactWay
<1>5. CASE UNCHANGED vars
  <2>1. UNCHANGED <<problem, real, path, phase>>
    BY <1>5 DEF vars, costs
  <2>2. QED
    BY <1>2, <2>1 DEF ExactlyFound, AtLeast, Edge, Cost, StartNodes
<1>6. CASE Call \/ Fetched \/ Expand \/ Apply \/ Applies
  BY <1>6 DEF Call, Fetched, Expand, Apply, Applies
<1>7. QED
  BY <1>3, <1>4, <1>5, <1>6 DEF Next

\* What was found exactly is the shortest walk.
LEMMA FoundShortest ==
  ASSUME SearchInv, ExactlyFound
  PROVE  ReturnsShortestWalk
<1> SUFFICES ASSUME phase = "found"
             PROVE  ReturnsShortestWalk
  BY DEF ReturnsShortestWalk
<1>1. /\ WayEnds => Head(path) \in StartNodes
      /\ \A i \in 1..(Len(path) - 1) : Edge(path[i], path[i + 1])
      /\ problem.leave = 0 => Last(path) = Goal
  BY PathIsWalk DEF Over
<1>2. ASSUME SearchesExactly
      PROVE  /\ \A s \in StartNodes : AtLeast(s) = problem.starts[s]
             /\ \A u, v \in Nodes : Edge(u, v) => AtLeast(v) <= AtLeast(u) + Cost(u, v)
             /\ \A i \in 1..(Len(path) - 1) :
                  AtLeast(path[i + 1]) = AtLeast(path[i]) + Cost(path[i], path[i + 1])
  <2>1. /\ \A s \in StartNodes : AtLeast(s) = problem.starts[s]
        /\ \A u, v \in Nodes : Edge(u, v) => AtLeast(v) <= AtLeast(u) + Cost(u, v)
        /\ \A i \in DOMAIN path : AtLeast(path[i]) = real[path[i]]
    BY <1>2 DEF ExactlyFound
  <2>2. ASSUME NEW i \in 1..(Len(path) - 1)
        PROVE  AtLeast(path[i + 1]) = AtLeast(path[i]) + Cost(path[i], path[i + 1])
    <3> DEFINE u == path[i]
               v == path[i + 1]
    <3>1. path \in Seq(Nodes) /\ problem \in Problems
      BY DEF SearchInv, TypeOK
    <3>2. i \in DOMAIN path /\ i + 1 \in DOMAIN path
      BY <3>1
    <3>3. v \in DOMAIN parents /\ u = parents[v]
      BY DEF SearchInv, PathLeadsBack, Over
    <3>4. Edge(u, v) /\ real[u] + Cost(u, v) <= real[v]
      BY <3>3 DEF SearchInv, ParentsLeadBack
    <3>5. u \in Nodes /\ v \in Nodes /\ Cost(u, v) \in Nat
      BY <3>1, <3>4, EdgeFacts
    <3>6. AtLeast(u) = real[u] /\ AtLeast(v) = real[v]
      BY <2>1, <3>2
    <3>7. AtLeast(v) <= AtLeast(u) + Cost(u, v)
      BY <2>1, <3>4, <3>5
    <3>8. real[u] \in Nat /\ real[v] \in Nat
      BY <3>5, NodeFacts
    <3> HIDE DEF u, v
    <3>9. AtLeast(v) = AtLeast(u) + Cost(u, v)
      BY <3>4, <3>5, <3>6, <3>7, <3>8
    <3>10. QED
      BY <3>9 DEF u, v
  <2>3. QED
    BY <2>1, <2>2
<1>3. QED
  BY <1>1, <1>2 DEF ReturnsShortestWalk, Cost

\* What a search returns is a walk from a start, and an exact search returns a
\* shortest one.
THEOREM ReturnsWalkAndShortest ==
  Spec => []ReturnsShortestWalk
<1> DEFINE WalkInv == SearchInv /\ Exact /\ ExactlyFound
<1>1. Init => WalkInv
  <2>1. Init => phase = "call"
    BY DEF Init
  <2>2. QED
    BY <2>1, InitSearch DEF Exact, ExactlyFound, Running
<1>2. WalkInv /\ [Next]_vars => WalkInv'
  BY SearchStep, ExactStep, ExactlyFoundStep
<1>3. WalkInv => ReturnsShortestWalk
  BY FoundShortest
<1>4. QED
  BY <1>1, <1>2, <1>3, PTL DEF Spec
=============================================================================
