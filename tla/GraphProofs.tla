----------------------------- MODULE GraphProofs -----------------------------
(***************************************************************************)
(* What the walks of dependency_graph.py return, for every finite graph of *)
(* items and every world.  A walk is a recursive function of paths; that   *)
(* it exists, and what it computes, are inductions over the items that are *)
(* not on the path, which every step of the walk makes fewer.              *)
(***************************************************************************)
EXTENDS DependencyGraph, NumberLemmas

\* evaluate_dependency answers with one of its three states.
LEMMA EvaluationType ==
    \A dep, world : EvaluateDependency(dep, world) \in DepStates
BY DEF EvaluateDependency, DepStates

\* An item declares what may be declared.
LEMMA DeclaredKinds ==
    ASSUME NEW item \in Items
    PROVE  \A d \in Declared(item) : d \in Declarable /\ d.kind \in DependencyKinds
<1>1. item.deps \in Seq(Declarable)
  BY DEF Items
<1>2. \A n \in DOMAIN item.deps : item.deps[n] \in Declarable
  BY <1>1
<1> QED
  BY <1>2, VocabularyAssumption DEF Declared, Range, IsDependency

-----------------------------------------------------------------------------
(* Paths.                                                                   *)

\* A path ends at a carried item and holds carried items,
LEMMA PathFacts ==
    ASSUME NEW items, NEW path \in Paths(items)
    PROVE  /\ Last(path) \in DOMAIN items
           /\ Last(path) \in Range(path)
           /\ Range(path) \subseteq DOMAIN items
           /\ \A t : Contains(path, t) <=> t \in Range(path)
BY DEF Paths, Last, Range, Contains

\* and can be prolonged by any of them.
LEMMA AppendFacts ==
    ASSUME NEW items, NEW path \in Paths(items), NEW t \in DOMAIN items
    PROVE  /\ Append(path, t) \in Paths(items)
           /\ Last(Append(path, t)) = t
           /\ Range(Append(path, t)) = Range(path) \cup {t}
<1>1. path \in Seq(DOMAIN items) /\ Len(path) \in Nat
  BY DEF Paths
<1>2. /\ Append(path, t) \in Seq(DOMAIN items)
      /\ Len(Append(path, t)) = Len(path) + 1
      /\ \A k \in 1..Len(path) : Append(path, t)[k] = path[k]
      /\ Append(path, t)[Len(path) + 1] = t
  BY <1>1
<1>3. DOMAIN path = 1..Len(path) /\ DOMAIN Append(path, t) = 1..(Len(path) + 1)
  BY <1>1, <1>2
<1>4. 1..(Len(path) + 1) = 1..Len(path) \cup {Len(path) + 1}
  BY <1>1
<1>5. Range(Append(path, t)) = Range(path) \cup {t}
  BY <1>2, <1>3, <1>4 DEF Range
<1> QED
  BY <1>2, <1>5 DEF Paths, Last

\* Induction over paths: from the longer ones to the shorter ones.
LEMMA PathInduction ==
    ASSUME NEW items, IsFiniteSet(DOMAIN items), NEW Good,
           \A path \in Paths(items) :
               (\A t \in DOMAIN items \ Range(path) : Append(path, t) \in Good)
               => path \in Good
    PROVE  Paths(items) \subseteq Good
<1> DEFINE Left(path) == DOMAIN items \ Range(path)
           Bad == {path \in Paths(items) : path \notin Good}
           Q == {Left(path) : path \in Bad}
<1> SUFFICES ASSUME Bad # {} PROVE FALSE
  OBVIOUS
<1>1. (\A T \in Q : T \subseteq DOMAIN items) /\ Q # {}
  OBVIOUS
<1>2. PICK T \in Q : \A U \in Q : U \subseteq T => U = T
  <2> HIDE DEF Q
  <2> QED
    BY <1>1, LeastSubset
<1>3. PICK path \in Bad : T = Left(path)
  BY <1>2
<1>4. ASSUME NEW t \in DOMAIN items \ Range(path) PROVE Append(path, t) \in Good
  <2>0. /\ Append(path, t) \in Paths(items)
        /\ Range(Append(path, t)) = Range(path) \cup {t}
    BY <1>4, AppendFacts
  <2>1. Left(Append(path, t)) = Left(path) \ {t}
    BY <2>0
  <2>2. t \in Left(path)
    BY <1>4
  <2>3. Left(Append(path, t)) \notin Q
    BY <1>2, <1>3, <2>1, <2>2
  <2> QED
    BY <2>0, <2>3
<1> QED
  BY <1>3, <1>4

\* How many carried items a path has not met: none are met twice.
Unmet(items, path) == Cardinality(DOMAIN items \ Range(path))

LEMMA UnmetFacts ==
    ASSUME NEW items, IsFiniteSet(DOMAIN items), NEW path \in Paths(items)
    PROVE  /\ Unmet(items, path) \in Nat
           /\ Unmet(items, path) <= Cardinality(DOMAIN items)
           /\ \A t \in DOMAIN items \ Range(path) :
                 Unmet(items, Append(path, t)) = Unmet(items, path) - 1
<1> DEFINE Left == DOMAIN items \ Range(path)
<1>1. IsFiniteSet(Left) /\ Cardinality(Left) <= Cardinality(DOMAIN items)
  BY FS_Subset
<1>2. Cardinality(Left) \in Nat
  BY <1>1, FS_CardinalityType
<1>3. ASSUME NEW t \in Left
      PROVE  Cardinality(DOMAIN items \ Range(Append(path, t))) = Cardinality(Left) - 1
  <2>1. Range(Append(path, t)) = Range(path) \cup {t}
    BY AppendFacts
  <2>2. DOMAIN items \ Range(Append(path, t)) = Left \ {t}
    BY <2>1
  <2>3. Cardinality(Left \ {t}) = Cardinality(Left) - 1
    BY <1>1, <1>3, FS_RemoveElement
  <2> QED
    BY <2>2, <2>3
<1> QED
  BY <1>1, <1>2, <1>3 DEF Unmet

-----------------------------------------------------------------------------
(* Reachability.                                                            *)

LEMMA PointsToCarried ==
    ASSUME NEW items, NEW i PROVE PointsTo(items, i) \subseteq DOMAIN items
BY DEF PointsTo, Points

\* What is reachable is closed, holds its origin, and is the least such set.
LEMMA ReachableIsClosed ==
    ASSUME NEW items, NEW i \in DOMAIN items
    PROVE  /\ i \in Reachable(items, i)
           /\ Reachable(items, i) \subseteq DOMAIN items
           /\ Closed(items, Reachable(items, i))
<1>1. i \in Reachable(items, i) /\ Reachable(items, i) \subseteq DOMAIN items
  BY DEF Reachable
<1>2. ASSUME NEW j \in Reachable(items, i), NEW k \in PointsTo(items, j)
      PROVE  k \in Reachable(items, i)
  <2>1. ASSUME NEW S \in SUBSET DOMAIN items, i \in S, Closed(items, S) PROVE k \in S
    <3>1. j \in S
      BY <2>1 DEF Reachable
    <3> QED
      BY <2>1, <3>1 DEF Closed
  <2>2. k \in DOMAIN items
    BY PointsToCarried
  <2> QED
    BY <2>1, <2>2 DEF Reachable
<1> QED
  BY <1>1, <1>2 DEF Closed

LEMMA ReachableIsLeast ==
    ASSUME NEW items, NEW i, NEW S, S \subseteq DOMAIN items, i \in S, Closed(items, S)
    PROVE  Reachable(items, i) \subseteq S
BY DEF Reachable

\* What is reachable from something reachable is reachable.
LEMMA ReachableIsTransitive ==
    ASSUME NEW items, NEW i \in DOMAIN items, NEW j \in Reachable(items, i)
    PROVE  Reachable(items, j) \subseteq Reachable(items, i)
BY ReachableIsClosed, ReachableIsLeast

\* An item reaches itself, and what its targets reach.
LEMMA ReachableStepwise ==
    ASSUME NEW items, NEW i \in DOMAIN items
    PROVE  /\ PointsTo(items, i) \subseteq Reachable(items, i)
           /\ \A t \in PointsTo(items, i) : Reachable(items, t) \subseteq Reachable(items, i)
           /\ \A j \in Reachable(items, i) :
                 j = i \/ \E t \in PointsTo(items, i) : j \in Reachable(items, t)
<1>1. PointsTo(items, i) \subseteq Reachable(items, i)
  BY ReachableIsClosed DEF Closed
<1>2. \A t \in PointsTo(items, i) : Reachable(items, t) \subseteq Reachable(items, i)
  BY <1>1, ReachableIsTransitive
<1> DEFINE S == {i} \cup UNION {Reachable(items, t) : t \in PointsTo(items, i)}
<1>3. S \subseteq DOMAIN items /\ i \in S
  BY PointsToCarried, ReachableIsClosed
<1>4. ASSUME NEW j \in S PROVE PointsTo(items, j) \subseteq S
  <2>1. CASE j = i
    BY <2>1, PointsToCarried, ReachableIsClosed
  <2>2. CASE j # i
    <3>1. PICK t \in PointsTo(items, i) : j \in Reachable(items, t)
      BY <2>2
    <3>2. PointsTo(items, j) \subseteq Reachable(items, t)
      BY <3>1, PointsToCarried, ReachableIsClosed DEF Closed
    <3> QED
      BY <3>2
  <2> QED
    BY <2>1, <2>2
<1>5. Reachable(items, i) \subseteq S
  <2>1. Closed(items, S)
    BY <1>4 DEF Closed
  <2> HIDE DEF S
  <2> QED
    BY <1>3, <2>1, ReachableIsLeast
<1> QED
  BY <1>1, <1>2, <1>5

\* Whoever reaches a cycle through a target reaches it, and an item that reaches a
\* cycle reaches it through a target.
LEMMA CycleStepwise ==
    ASSUME NEW items, NEW i \in DOMAIN items
    PROVE  CycleReachable(items, i) <=>
               \E t \in PointsTo(items, i) : CycleReachable(items, t)
<1>1. ASSUME NEW t \in PointsTo(items, i), CycleReachable(items, t)
      PROVE  CycleReachable(items, i)
  BY <1>1, ReachableStepwise DEF CycleReachable
<1>2. ASSUME CycleReachable(items, i)
      PROVE  \E t \in PointsTo(items, i) : CycleReachable(items, t)
  <2>1. PICK j \in Reachable(items, i) :
            \E k \in PointsTo(items, j) : j \in Reachable(items, k)
    BY <1>2 DEF CycleReachable
  <2>2. CASE j = i
    BY <2>1, <2>2 DEF CycleReachable
  <2>3. CASE j # i
    BY <2>1, <2>3, ReachableStepwise DEF CycleReachable
  <2> QED
    BY <2>2, <2>3
<1> QED
  BY <1>1, <1>2

\* A path as a walk makes it: every item on it reaches the one it ends at.
Leads(items, path) == \A i \in Range(path) : Last(path) \in Reachable(items, i)

LEMMA LeadsOn ==
    ASSUME NEW items, NEW path \in Paths(items), Leads(items, path),
           NEW t \in PointsTo(items, Last(path))
    PROVE  /\ Append(path, t) \in Paths(items)
           /\ Leads(items, Append(path, t))
<1>1. /\ Append(path, t) \in Paths(items)
      /\ Last(Append(path, t)) = t
      /\ Range(Append(path, t)) = Range(path) \cup {t}
      /\ t \in DOMAIN items
  BY AppendFacts, PointsToCarried
<1>2. ASSUME NEW i \in Range(path) PROVE t \in Reachable(items, i)
  <2>1. i \in DOMAIN items /\ Last(path) \in Reachable(items, i)
    BY PathFacts DEF Leads
  <2> QED
    BY <2>1, ReachableIsClosed DEF Closed
<1>3. t \in Reachable(items, t)
  BY <1>1, ReachableIsClosed
<1> QED
  BY <1>1, <1>2, <1>3 DEF Leads

\* An edge back into the path closes a cycle.
LEMMA BackEdge ==
    ASSUME NEW items, NEW path \in Paths(items), Leads(items, path),
           NEW t \in PointsTo(items, Last(path)), t \in Range(path)
    PROVE  CycleReachable(items, Last(path))
<1>1. Last(path) \in Reachable(items, t) /\ Last(path) \in Reachable(items, Last(path))
  BY PathFacts, ReachableIsClosed DEF Leads
<1> QED
  BY <1>1 DEF CycleReachable

LEMMA Origin ==
    ASSUME NEW items, NEW id \in DOMAIN items
    PROVE  /\ <<id>> \in Paths(items) /\ Last(<<id>>) = id
           /\ Leads(items, <<id>>)
<1>1. <<id>> \in Paths(items) /\ Last(<<id>>) = id /\ Range(<<id>>) = {id}
  BY DEF Paths, Last, Range
<1> QED
  BY <1>1, ReachableIsClosed DEF Leads

-----------------------------------------------------------------------------
(* The walk along first blockers.                                           *)

\* The first blocker is found where there is one.
LEMMA FirstBlockerFacts ==
    ASSUME NEW item \in Items, NEW world
    PROVE  LET n == FirstBlocker(item, world)
           IN  /\ n \in Nat
               /\ n > 0 <=> IsItemBlocked(item, world)
               /\ n > 0 => /\ n \in DOMAIN item.deps
                           /\ item.deps[n] \in Declared(item)
                           /\ item.deps[n] \in Declarable
                           /\ EvaluateDependency(item.deps[n], world) = "unsatisfied"
<1> DEFINE Blocking ==
             {k \in 1..Len(item.deps) :
                 EvaluateDependency(item.deps[k], world) = "unsatisfied"}
           n == FirstBlocker(item, world)
<1>1. /\ item.deps \in Seq(Declarable)
      /\ Len(item.deps) \in Nat /\ DOMAIN item.deps = 1..Len(item.deps)
  BY DEF Items
<1>2. IsFiniteSet(Blocking) /\ \A k \in Blocking : k \in Nat \ {0}
  <2>1. IsFiniteSet(1..Len(item.deps)) /\ Blocking \subseteq 1..Len(item.deps)
    BY <1>1, FS_Interval
  <2>2. IsFiniteSet(Blocking)
    BY <2>1, FS_Subset
  <2> QED
    BY <1>1, <2>2
<1>3. IsItemBlocked(item, world) <=> Blocking # {}
  BY <1>1 DEF IsItemBlocked, InState, Declared, Range
<1>4. CASE Blocking = {}
  <2>1. n = 0
    BY <1>4 DEF FirstBlocker, SelectInSeq
  <2> QED
    BY <1>3, <1>4, <2>1
<1>5. CASE Blocking # {}
  <2>1. n = CHOOSE k \in Blocking : \A m \in Blocking : k <= m
    BY <1>5 DEF FirstBlocker, SelectInSeq, Min
  <2>2. \E k \in Blocking : \A m \in Blocking : k <= m
    <3> HIDE DEF Blocking
    <3> QED
      BY <1>2, <1>5, SmallestNumber
  <2>3. n \in Blocking
    BY <2>1, <2>2
  <2>4. item.deps[n] \in Declared(item) /\ item.deps[n] \in Declarable
    BY <1>1, <2>3 DEF Declared, Range
  <2> QED
    BY <1>1, <1>2, <1>3, <1>5, <2>3, <2>4
<1> QED
  BY <1>4, <1>5

\* A step of the walk looks at no path but those one item longer.
LEMMA ChainStepLooksAhead ==
    ASSUME NEW items, NEW world, \A i \in DOMAIN items : items[i] \in Items,
           NEW path \in Paths(items), NEW f, NEW g,
           \A t \in DOMAIN items \ Range(path) :
               f[Append(path, t)] = g[Append(path, t)]
    PROVE  ChainStep(f, items, world, path) = ChainStep(g, items, world, path)
<1> DEFINE item == items[Last(path)]
           n    == FirstBlocker(item, world)
<1>1. n \in Nat
  BY PathFacts, FirstBlockerFacts
<1>2. CASE n = 0
  BY <1>2 DEF ChainStep
<1>3. CASE n > 0 /\ ~Points(item.deps[n], items)
  BY <1>3 DEF ChainStep
<1>4. CASE n > 0 /\ Points(item.deps[n], items) /\ Contains(path, item.deps[n].target)
  BY <1>4 DEF ChainStep
<1>5. CASE n > 0 /\ Points(item.deps[n], items) /\ ~Contains(path, item.deps[n].target)
  <2>1. item.deps[n].target \in DOMAIN items \ Range(path)
    BY <1>5, PathFacts DEF Points
  <2> QED
    BY <1>5, <2>1 DEF ChainStep
<1> QED
  BY <1>1, <1>2, <1>3, <1>4, <1>5

\* The walk is a function.
LEMMA ChainExists ==
    ASSUME NEW items, NEW world, IsFiniteSet(DOMAIN items),
           \A i \in DOMAIN items : items[i] \in Items
    PROVE  \E f : f = [path \in Paths(items) |-> ChainStep(f, items, world, path)]
<1> DEFINE Near(k) == {path \in Paths(items) : Unmet(items, path) < k}
           Good == {k \in Nat :
                      \E f : f = [path \in Near(k) |-> ChainStep(f, items, world, path)]}
<1>1. 0 \in Good
  <2>1. Near(0) = {}
    BY UnmetFacts
  <2>2. [path \in Near(0) |-> 0] = [path \in Near(0) |->
            ChainStep([q \in Near(0) |-> 0], items, world, path)]
    BY <2>1
  <2> QED
    BY <2>2
<1>2. ASSUME NEW k \in Nat, k \in Good PROVE k + 1 \in Good
  <2>1. PICK f : f = [path \in Near(k) |-> ChainStep(f, items, world, path)]
    BY <1>2
  <2> DEFINE g == [path \in Near(k + 1) |-> ChainStep(f, items, world, path)]
  <2>2. \A path \in Near(k) : path \in Near(k + 1) /\ f[path] = g[path]
    BY <2>1, UnmetFacts
  <2>3. ASSUME NEW path \in Near(k + 1)
        PROVE  g[path] = ChainStep(g, items, world, path)
    <3>1. ASSUME NEW t \in DOMAIN items \ Range(path)
          PROVE  Append(path, t) \in Near(k)
      BY UnmetFacts, AppendFacts
    <3>2. \A t \in DOMAIN items \ Range(path) :
              f[Append(path, t)] = g[Append(path, t)]
      BY <2>2, <3>1
    <3>3. ChainStep(f, items, world, path) = ChainStep(g, items, world, path)
      <4> HIDE DEF g
      <4> QED
        BY <3>2, ChainStepLooksAhead
    <3> QED
      BY <3>3
  <2>4. g = [path \in Near(k + 1) |-> ChainStep(g, items, world, path)]
    BY <2>3
  <2>5. \E h : h = [path \in Near(k + 1) |-> ChainStep(h, items, world, path)]
    <3> HIDE DEF g, Near
    <3> QED
      BY <2>4
  <2> QED
    BY <2>5
<1>3. Nat \subseteq Good
  <2> HIDE DEF Good
  <2> QED
    BY <1>1, <1>2, CountUp
<1>4. Cardinality(DOMAIN items) + 1 \in Nat
  BY FS_CardinalityType
<1>5. Near(Cardinality(DOMAIN items) + 1) = Paths(items)
  BY <1>4, UnmetFacts, FS_CardinalityType
<1> QED
  BY <1>3, <1>4, <1>5

IsChainWalk(f, items, world) ==
    \A path \in Paths(items) : f[path] = ChainStep(f, items, world, path)

LEMMA ChainIsWalk ==
    ASSUME NEW items, NEW world, IsFiniteSet(DOMAIN items),
           \A i \in DOMAIN items : items[i] \in Items
    PROVE  \E f : /\ IsChainWalk(f, items, world)
                  /\ \A id : Chain(items, world, id) = f[<<id>>]
<1> DEFINE F == CHOOSE f : f = [path \in Paths(items) |-> ChainStep(f, items, world, path)]
<1>1. F = [path \in Paths(items) |-> ChainStep(F, items, world, path)]
  BY ChainExists
<1>2. \A id : Chain(items, world, id) = F[<<id>>]
  BY DEF Chain
<1>3. IsChainWalk(F, items, world)
  <2> HIDE DEF F
  <2> QED
    BY <1>1 DEF IsChainWalk
<1> QED
  BY <1>2, <1>3

\* What a step of the walk returns: nothing without a blocker,
LEMMA ChainUnblocked ==
    ASSUME NEW items, NEW world, \A i \in DOMAIN items : items[i] \in Items,
           NEW f, IsChainWalk(f, items, world), NEW path \in Paths(items),
           ~IsItemBlocked(items[Last(path)], world)
    PROVE  f[path] = <<>>
<1>1. FirstBlocker(items[Last(path)], world) = 0
  BY PathFacts, FirstBlockerFacts
<1>2. f[path] = ChainStep(f, items, world, path)
  BY DEF IsChainWalk
<1> QED
  BY <1>1, <1>2 DEF ChainStep

\* and otherwise the first blocker, before the chain of what it points at.
StartsWith(dep, f, items, world, path) ==
    LET item == items[Last(path)]
        sub  == f[Append(path, dep.target)]
    IN  /\ FirstBlocker(item, world) \in DOMAIN item.deps
        /\ dep = item.deps[FirstBlocker(item, world)]
        /\ dep \in Declared(item) /\ dep \in Declarable
        /\ EvaluateDependency(dep, world) = "unsatisfied"
        /\ Points(dep, items) => dep.target \in DOMAIN items
        /\ ~Points(dep, items) => f[path] = <<dep>>
        /\ Points(dep, items) /\ dep.target \in Range(path) => f[path] = Cycle
        /\ Points(dep, items) /\ dep.target \notin Range(path) =>
              f[path] = IF sub = Cycle THEN Cycle ELSE <<dep>> \o sub

LEMMA ChainCases ==
    ASSUME NEW items, NEW world, \A i \in DOMAIN items : items[i] \in Items,
           NEW f, IsChainWalk(f, items, world), NEW path \in Paths(items),
           IsItemBlocked(items[Last(path)], world)
    PROVE  \E dep : StartsWith(dep, f, items, world, path)
<1> DEFINE item == items[Last(path)]
           n    == FirstBlocker(item, world)
           dep  == item.deps[n]
<1>1. /\ n \in Nat /\ n > 0
      /\ n \in DOMAIN item.deps
      /\ dep \in Declared(item) /\ dep \in Declarable
      /\ EvaluateDependency(dep, world) = "unsatisfied"
  BY PathFacts, FirstBlockerFacts
<1>2. f[path] = ChainStep(f, items, world, path)
  BY DEF IsChainWalk
<1>3. ASSUME ~Points(dep, items) PROVE f[path] = <<dep>>
  <2>1. n > 0 /\ n # 0
    BY <1>1
  <2>2. ChainStep(f, items, world, path) = <<dep>>
    BY <1>3, <2>1 DEF ChainStep
  <2> QED
    BY <1>2, <2>2
<1>4. ASSUME Points(dep, items), dep.target \in Range(path) PROVE f[path] = Cycle
  <2>1. Contains(path, dep.target)
    BY <1>4, PathFacts
  <2>2. ChainStep(f, items, world, path) = Cycle
    BY <1>1, <1>4, <2>1 DEF ChainStep
  <2> QED
    BY <1>2, <2>2
<1>5. ASSUME Points(dep, items), dep.target \notin Range(path)
      PROVE  f[path] = IF f[Append(path, dep.target)] = Cycle THEN Cycle
                       ELSE <<dep>> \o f[Append(path, dep.target)]
  <2>1. ~Contains(path, dep.target)
    BY <1>5, PathFacts
  <2>2. ChainStep(f, items, world, path) =
            IF f[Append(path, dep.target)] = Cycle THEN Cycle
            ELSE <<dep>> \o f[Append(path, dep.target)]
    BY <1>1, <1>5, <2>1 DEF ChainStep
  <2> QED
    BY <1>2, <2>2
<1>6. Points(dep, items) => dep.target \in DOMAIN items
  BY DEF Points
<1>7. StartsWith(dep, f, items, world, path)
  BY <1>1, <1>3, <1>4, <1>5, <1>6 DEF StartsWith
<1> QED
  BY <1>7

\* A chain is a list of declarations, unless it is Cycle.
LEMMA ChainType ==
    ASSUME NEW items, NEW world, IsFiniteSet(DOMAIN items),
           \A i \in DOMAIN items : items[i] \in Items,
           NEW f, IsChainWalk(f, items, world), NEW path \in Paths(items)
    PROVE  f[path] \in Seq(Declarable) \/ f[path] = Cycle
<1> DEFINE Good == {q \in Paths(items) : f[q] \in Seq(Declarable) \/ f[q] = Cycle}
<1>1. ASSUME NEW q \in Paths(items),
             \A t \in DOMAIN items \ Range(q) : Append(q, t) \in Good
      PROVE  q \in Good
  <2>1. ASSUME NEW dep \in Declarable PROVE <<dep>> \in Seq(Declarable)
    OBVIOUS
  <2>2. ASSUME NEW dep \in Declarable, NEW sub \in Seq(Declarable)
        PROVE  <<dep>> \o sub \in Seq(Declarable)
    BY <2>1
  <2>3. <<>> \in Seq(Declarable)
    OBVIOUS
  <2>4. \A t \in DOMAIN items \ Range(q) :
            f[Append(q, t)] \in Seq(Declarable) \/ f[Append(q, t)] = Cycle
    BY <1>1
  <2>5. CASE IsItemBlocked(items[Last(q)], world)
    <3>1. PICK dep : StartsWith(dep, f, items, world, q)
      BY <2>5, ChainCases
    <3> QED
      BY <2>1, <2>2, <2>4, <3>1 DEF StartsWith
  <2>6. CASE ~IsItemBlocked(items[Last(q)], world)
    BY <2>3, <2>6, ChainUnblocked
  <2> QED
    BY <2>5, <2>6
<1>2. Paths(items) \subseteq Good
  <2> HIDE DEF Good
  <2> QED
    BY <1>1, PathInduction
<1> QED
  BY <1>2

\* The walk names something exactly where a dependency is definitely unsatisfied.
LEMMA ChainWhenBlocked ==
    ASSUME NEW items, NEW world, IsFiniteSet(DOMAIN items),
           \A i \in DOMAIN items : items[i] \in Items,
           NEW f, IsChainWalk(f, items, world), NEW path \in Paths(items)
    PROVE  f[path] # <<>> <=> IsItemBlocked(items[Last(path)], world)
<1>1. Cycle # <<>>
  <2>1. <<>> \in Seq(Declarable)
    OBVIOUS
  <2> QED
    BY <2>1, CycleAssumption
<1>2. ASSUME NEW dep, NEW sub \in Seq(Declarable) PROVE <<dep>> \o sub # <<>>
  <2>1. Len(<<dep>> \o sub) = 1 + Len(sub) /\ Len(sub) \in Nat
    OBVIOUS
  <2> QED
    BY <2>1
<1>3. ASSUME NEW t \in DOMAIN items \ Range(path)
      PROVE  f[Append(path, t)] \in Seq(Declarable) \/ f[Append(path, t)] = Cycle
  <2>1. Append(path, t) \in Paths(items)
    BY AppendFacts
  <2> QED
    BY <2>1, ChainType
<1>4. CASE IsItemBlocked(items[Last(path)], world)
  <2>1. PICK dep : StartsWith(dep, f, items, world, path)
    BY <1>4, ChainCases
  <2>2. <<dep>> # <<>>
    OBVIOUS
  <2> QED
    BY <1>1, <1>2, <1>3, <1>4, <2>1, <2>2 DEF StartsWith
<1>5. CASE ~IsItemBlocked(items[Last(path)], world)
  BY <1>5, ChainUnblocked
<1> QED
  BY <1>4, <1>5

\* get_blocked_chain is not empty exactly when a dependency of the item itself is
\* definitely unsatisfied, so nothing behind the item has to be walked to know.
THEOREM BlockedIsOwn ==
    ASSUME NEW items, NEW world, IsFiniteSet(DOMAIN items),
           \A i \in DOMAIN items : items[i] \in Items,
           NEW id \in DOMAIN items
    PROVE  Chain(items, world, id) # <<>> <=> IsItemBlocked(items[id], world)
<1>1. PICK f : /\ IsChainWalk(f, items, world)
               /\ Chain(items, world, id) = f[<<id>>]
  BY ChainIsWalk
<1> QED
  BY <1>1, ChainWhenBlocked, Origin

\* A chain that raises has met a cycle.
LEMMA ChainRaises ==
    ASSUME NEW items, NEW world, IsFiniteSet(DOMAIN items),
           \A i \in DOMAIN items : items[i] \in Items,
           NEW id \in DOMAIN items, Chain(items, world, id) = Cycle
    PROVE  CycleReachable(items, id)
<1>1. PICK f : /\ IsChainWalk(f, items, world)
               /\ Chain(items, world, id) = f[<<id>>]
  BY ChainIsWalk
<1> DEFINE Good == {path \in Paths(items) :
                       Leads(items, path) /\ f[path] = Cycle
                           => CycleReachable(items, Last(path))}
<1>2. ASSUME NEW path \in Paths(items),
             \A t \in DOMAIN items \ Range(path) : Append(path, t) \in Good,
             Leads(items, path), f[path] = Cycle
      PROVE  CycleReachable(items, Last(path))
  <2>1. Cycle \notin Seq(Declarable) /\ <<>> \in Seq(Declarable)
    BY CycleAssumption
  <2>2. IsItemBlocked(items[Last(path)], world)
    BY <1>1, <1>2, <2>1, ChainUnblocked
  <2>3. PICK dep : StartsWith(dep, f, items, world, path)
    BY <1>1, <2>2, ChainCases
  <2>4. dep \in Declarable /\ <<dep>> \in Seq(Declarable)
    BY <2>3 DEF StartsWith
  <2>5. Points(dep, items) /\ dep.target \in PointsTo(items, Last(path))
    BY <1>2, <2>1, <2>3, <2>4 DEF StartsWith, PointsTo
  <2>6. CASE dep.target \in Range(path)
    BY <1>2, <2>5, <2>6, BackEdge
  <2>7. CASE dep.target \notin Range(path)
    <3> DEFINE next == Append(path, dep.target)
    <3>1. next \in Paths(items) /\ Leads(items, next) /\ Last(next) = dep.target
      BY <1>2, <2>5, LeadsOn, AppendFacts, PointsToCarried
    <3>2. next \in Good
      BY <1>2, <2>5, <2>7, PointsToCarried
    <3>3. f[next] = Cycle
      <4>1. f[path] = IF f[next] = Cycle THEN Cycle ELSE <<dep>> \o f[next]
        BY <2>3, <2>5, <2>7 DEF StartsWith
      <4>2. f[next] \in Seq(Declarable) \/ f[next] = Cycle
        BY <1>1, <3>1, ChainType
      <4>3. f[next] \in Seq(Declarable) => <<dep>> \o f[next] \in Seq(Declarable)
        BY <2>4
      <4> QED
        BY <1>2, <2>1, <4>1, <4>2, <4>3
    <3>4. CycleReachable(items, dep.target)
      BY <3>1, <3>2, <3>3
    <3> QED
      BY <2>5, <3>4, CycleStepwise, PathFacts
  <2> QED
    BY <2>6, <2>7
<1>3. Paths(items) \subseteq Good
  <2>1. \A path \in Paths(items) :
            (\A t \in DOMAIN items \ Range(path) : Append(path, t) \in Good)
            => path \in Good
    BY <1>2
  <2> HIDE DEF Good
  <2> QED
    BY <2>1, PathInduction
<1> QED
  BY <1>1, <1>3, Origin

\* A chain with a link put before it.
Prepends(dep, sub, chain) ==
    /\ chain # <<>>
    /\ 1 \in DOMAIN chain /\ chain[1] = dep
    /\ \A n \in DOMAIN chain : n \in Nat /\ n > 0
    /\ \A n \in DOMAIN chain : n # 1 => n - 1 \in DOMAIN sub /\ chain[n] = sub[n - 1]
    /\ sub # <<>> => Last(chain) = Last(sub)

LEMMA Prepended ==
    ASSUME NEW dep \in Declarable, NEW sub \in Seq(Declarable),
           NEW chain, chain = <<dep>> \o sub
    PROVE  Prepends(dep, sub, chain)
<1>1. /\ Len(chain) = Len(sub) + 1 /\ Len(sub) \in Nat
      /\ DOMAIN chain = 1..Len(chain) /\ DOMAIN sub = 1..Len(sub)
      /\ chain[1] = dep
      /\ \A n \in 1..Len(chain) : n # 1 => chain[n] = sub[n - 1]
  OBVIOUS
<1>2. sub = <<>> <=> Len(sub) = 0
  OBVIOUS
<1> QED
  BY <1>1, <1>2 DEF Last, Prepends

\* Every link of a chain is an open declaration within reach.
Within(chain, items, world, i) ==
    \A n \in DOMAIN chain :
        /\ chain[n] \in ReachableDeps(items, i)
        /\ EvaluateDependency(chain[n], world) = "unsatisfied"

\* Every link is the first blocker of the item the one before it points at, and
\* behind the last one nothing is blocked.
Owner(chain, i, n) == IF n = 1 THEN i ELSE chain[n - 1].target

Linked(chain, items, world, i) ==
    \A n \in DOMAIN chain :
        /\ Owner(chain, i, n) \in DOMAIN items
        /\ \E k \in DOMAIN items[Owner(chain, i, n)].deps :
              /\ items[Owner(chain, i, n)].deps[k] = chain[n]
              /\ FirstBlocker(items[Owner(chain, i, n)], world) = k

Rooted(chain, items, world) ==
    chain # <<>> =>
        ~Points(Last(chain), items) \/ ~IsItemBlocked(items[Last(chain).target], world)

LEMMA ChainOfOne ==
    ASSUME NEW items, NEW world, NEW i \in DOMAIN items, NEW dep \in Declared(items[i]),
           dep \in Declarable, EvaluateDependency(dep, world) = "unsatisfied",
           FirstBlocker(items[i], world) \in DOMAIN items[i].deps,
           dep = items[i].deps[FirstBlocker(items[i], world)],
           ~Points(dep, items) \/ ~IsItemBlocked(items[dep.target], world),
           NEW chain, chain = <<dep>>
    PROVE  /\ Within(chain, items, world, i)
           /\ Linked(chain, items, world, i)
           /\ Rooted(chain, items, world)
<1>1. DOMAIN chain = {1} /\ chain[1] = dep /\ Last(chain) = dep
  BY DEF Last
<1>2. dep \in ReachableDeps(items, i)
  BY ReachableIsClosed DEF ReachableDeps
<1>3. Owner(chain, i, 1) = i
  BY DEF Owner
<1> QED
  BY <1>1, <1>2, <1>3 DEF Within, Linked, Rooted

LEMMA ChainOfMore ==
    ASSUME NEW items, NEW world, NEW i \in DOMAIN items, NEW dep \in Declared(items[i]),
           dep \in Declarable, EvaluateDependency(dep, world) = "unsatisfied",
           FirstBlocker(items[i], world) \in DOMAIN items[i].deps,
           dep = items[i].deps[FirstBlocker(items[i], world)],
           dep.target \in PointsTo(items, i),
           NEW sub \in Seq(Declarable), sub # <<>>,
           Within(sub, items, world, dep.target),
           Linked(sub, items, world, dep.target),
           Rooted(sub, items, world),
           NEW chain, chain = <<dep>> \o sub
    PROVE  /\ Within(chain, items, world, i)
           /\ Linked(chain, items, world, i)
           /\ Rooted(chain, items, world)
<1>1. /\ chain # <<>>
      /\ 1 \in DOMAIN chain /\ chain[1] = dep
      /\ \A n \in DOMAIN chain : n \in Nat /\ n > 0
      /\ \A n \in DOMAIN chain : n # 1 => n - 1 \in DOMAIN sub /\ chain[n] = sub[n - 1]
      /\ Last(chain) = Last(sub)
  <2>1. Prepends(dep, sub, chain)
    BY Prepended
  <2> QED
    BY <2>1 DEF Prepends
<1>2. Rooted(chain, items, world)
  BY <1>1 DEF Rooted
<1>3. Within(chain, items, world, i)
  <2>1. dep \in ReachableDeps(items, i)
    BY ReachableIsClosed DEF ReachableDeps
  <2>2. ReachableDeps(items, dep.target) \subseteq ReachableDeps(items, i)
    BY ReachableStepwise DEF ReachableDeps
  <2> QED
    BY <1>1, <2>1, <2>2 DEF Within
<1>4. ASSUME NEW n \in DOMAIN chain, n # 1
      PROVE  Owner(chain, i, n) = Owner(sub, dep.target, n - 1)
  <2>1. CASE n = 2
    BY <1>1, <1>4, <2>1 DEF Owner
  <2>2. CASE n # 2
    <3>1. n - 1 \in DOMAIN sub /\ sub \in Seq(Declarable)
      BY <1>1, <1>4
    <3>2. n - 1 \in DOMAIN chain /\ n - 1 # 1 /\ n - 1 \in Nat /\ n \in Nat /\ n > 2
      <4>1. n \in 1..Len(chain) /\ DOMAIN chain = 1..Len(chain) /\ Len(chain) \in Nat
        OBVIOUS
      <4> QED
        BY <4>1, <1>4, <2>2
    <3>3. chain[n - 1] = sub[(n - 1) - 1]
      BY <1>1, <3>2
    <3> QED
      BY <1>4, <3>2, <3>3 DEF Owner
  <2> QED
    BY <2>1, <2>2
<1>5. Linked(chain, items, world, i)
  <2>1. ASSUME NEW n \in DOMAIN chain, n = 1
        PROVE  Owner(chain, i, n) = i /\ chain[n] = dep
    BY <1>1, <2>1 DEF Owner
  <2>2. ASSUME NEW n \in DOMAIN chain, n # 1
        PROVE  /\ n - 1 \in DOMAIN sub /\ chain[n] = sub[n - 1]
               /\ Owner(chain, i, n) = Owner(sub, dep.target, n - 1)
    BY <1>1, <1>4, <2>2
  <2> QED
    BY <2>1, <2>2 DEF Linked
<1> QED
  BY <1>2, <1>3, <1>5

\* The chain of an item whose walk does not raise consists of open declarations
\* within the item's closure, each the first blocker of the item the one before
\* points at, and ends at a root cause.
THEOREM ChainNamesRootCause ==
    ASSUME NEW items, NEW world, IsFiniteSet(DOMAIN items),
           \A i \in DOMAIN items : items[i] \in Items,
           NEW id \in DOMAIN items, Chain(items, world, id) # Cycle
    PROVE  LET chain == Chain(items, world, id)
           IN  /\ chain \in Seq(Declarable)
               /\ Within(chain, items, world, id)
               /\ Linked(chain, items, world, id)
               /\ Rooted(chain, items, world)
<1>1. PICK f : /\ IsChainWalk(f, items, world)
               /\ Chain(items, world, id) = f[<<id>>]
  BY ChainIsWalk
<1> DEFINE Sound(chain, i) == /\ Within(chain, items, world, i)
                              /\ Linked(chain, items, world, i)
                              /\ Rooted(chain, items, world)
           Good == {path \in Paths(items) :
                       f[path] # Cycle => Sound(f[path], Last(path))}
<1>2. \A i : Sound(<<>>, i)
  BY DEF Within, Linked, Rooted
<1>3. ASSUME NEW path \in Paths(items), f[path] # Cycle,
             \A t \in DOMAIN items \ Range(path) : Append(path, t) \in Good
      PROVE  Sound(f[path], Last(path))
  <2>1. CASE ~IsItemBlocked(items[Last(path)], world)
    <3>1. f[path] = <<>>
      BY <1>1, <2>1, ChainUnblocked
    <3> QED
      BY <1>2, <3>1
  <2>2. CASE IsItemBlocked(items[Last(path)], world)
    <3> DEFINE i == Last(path)
    <3>1. PICK dep : StartsWith(dep, f, items, world, path)
      BY <1>1, <2>2, ChainCases
    <3>2. /\ i \in DOMAIN items
          /\ dep \in Declared(items[i]) /\ dep \in Declarable
          /\ EvaluateDependency(dep, world) = "unsatisfied"
          /\ FirstBlocker(items[i], world) \in DOMAIN items[i].deps
          /\ dep = items[i].deps[FirstBlocker(items[i], world)]
      BY <3>1, PathFacts DEF StartsWith
    <3>3. CASE ~Points(dep, items)
      <4>1. f[path] = <<dep>>
        BY <3>1, <3>3 DEF StartsWith
      <4> QED
        BY <3>2, <3>3, <4>1, ChainOfOne
    <3>4. CASE Points(dep, items)
      <4> DEFINE next == Append(path, dep.target)
      <4>1. dep.target \in DOMAIN items \ Range(path)
        BY <1>3, <3>1, <3>4 DEF StartsWith
      <4>2. f[path] = <<dep>> \o f[next] /\ f[next] # Cycle
        BY <1>3, <3>1, <3>4, <4>1 DEF StartsWith
      <4>3. next \in Good /\ next \in Paths(items) /\ Last(next) = dep.target
        BY <1>3, <4>1, AppendFacts
      <4>4. f[next] \in Seq(Declarable) /\ Sound(f[next], dep.target)
        BY <1>1, <4>2, <4>3, ChainType
      <4>5. dep.target \in PointsTo(items, i)
        BY <3>2, <3>4 DEF PointsTo
      <4>6. CASE f[next] = <<>>
        <5>1. ~IsItemBlocked(items[dep.target], world)
          BY <1>1, <4>3, <4>6, ChainWhenBlocked
        <5>2. f[path] = <<dep>>
          BY <4>2, <4>6
        <5> QED
          BY <3>2, <5>1, <5>2, ChainOfOne
      <4>7. CASE f[next] # <<>>
        BY <3>2, <4>2, <4>4, <4>5, <4>7, ChainOfMore
      <4> QED
        BY <4>6, <4>7
    <3> QED
      BY <3>3, <3>4
  <2> QED
    BY <2>1, <2>2
<1>4. Paths(items) \subseteq Good
  <2>1. \A path \in Paths(items) :
            (\A t \in DOMAIN items \ Range(path) : Append(path, t) \in Good)
            => path \in Good
    BY <1>3
  <2> HIDE DEF Good
  <2> QED
    BY <2>1, PathInduction
<1>5. f[<<id>>] \in Seq(Declarable)
  BY <1>1, Origin, ChainType
<1> QED
  BY <1>1, <1>4, <1>5, Origin

-----------------------------------------------------------------------------
(* The walk over the closure.                                               *)

\* A closure is a set of entries, and not Cycle.
LEMMA ClosureEntries ==
    ASSUME NEW items, NEW world, \A i \in DOMAIN items : items[i] \in Items,
           NEW id \in DOMAIN items
    PROVE  /\ ReachableDeps(items, id) \subseteq Declarable
           /\ ClosureState(items, world, id) \subseteq Entries
           /\ ClosureState(items, world, id) # Cycle
<1>1. ReachableDeps(items, id) \subseteq Declarable
  BY DeclaredKinds, ReachableIsClosed DEF ReachableDeps
<1>2. ClosureState(items, world, id) \subseteq Entries
  BY <1>1, EvaluationType DEF ClosureState, Entry, Entries
<1> QED
  BY <1>1, <1>2, CycleAssumption

\* The closure of an item is its own declarations and the closures behind it.
LEMMA ClosureStepwise ==
    ASSUME NEW items, NEW world, NEW id \in DOMAIN items
    PROVE  ClosureState(items, world, id) =
               {Entry(d, world) : d \in Declared(items[id])} \cup
               UNION {ClosureState(items, world, t) : t \in PointsTo(items, id)}
<1> DEFINE own == {Entry(d, world) : d \in Declared(items[id])}
           behind == UNION {ClosureState(items, world, t) : t \in PointsTo(items, id)}
<1>1. own \subseteq ClosureState(items, world, id)
  BY ReachableIsClosed DEF ClosureState, ReachableDeps
<1>2. ASSUME NEW t \in PointsTo(items, id)
      PROVE  ClosureState(items, world, t) \subseteq ClosureState(items, world, id)
  BY ReachableStepwise DEF ClosureState, ReachableDeps
<1>3. ASSUME NEW e \in ClosureState(items, world, id) PROVE e \in own \cup behind
  <2>1. PICK j \in Reachable(items, id) : \E d \in Declared(items[j]) : e = Entry(d, world)
    BY DEF ClosureState, ReachableDeps
  <2>2. CASE j = id
    BY <2>1, <2>2
  <2>3. CASE j # id
    <3>1. PICK t \in PointsTo(items, id) : j \in Reachable(items, t)
      BY <2>3, ReachableStepwise
    <3>2. e \in ClosureState(items, world, t)
      BY <2>1, <3>1 DEF ClosureState, ReachableDeps
    <3> QED
      BY <3>2
  <2> QED
    BY <2>2, <2>3
<1> QED
  BY <1>1, <1>2, <1>3

WalkStep(walk, items, world, path) ==
    ClosureStep(walk, items, world, path, Declared(items[Last(path)]))

LEMMA ClosureStepLooksAhead ==
    ASSUME NEW items, NEW world, NEW path \in Paths(items), NEW f, NEW g,
           \A t \in DOMAIN items \ Range(path) :
               f[Append(path, t)] = g[Append(path, t)]
    PROVE  WalkStep(f, items, world, path) = WalkStep(g, items, world, path)
<1> DEFINE T == PointsTo(items, Last(path)) \ Range(path)
<1>1. \A t \in T : f[Append(path, t)] = g[Append(path, t)]
  BY PointsToCarried
<1>2. {f[Append(path, t)] : t \in T} = {g[Append(path, t)] : t \in T}
  BY <1>1
<1> QED
  BY <1>2 DEF WalkStep, ClosureStep, PointsTo

\* This walk is a function, too.
LEMMA ClosureExists ==
    ASSUME NEW items, NEW world, IsFiniteSet(DOMAIN items)
    PROVE  \E f : f = [path \in Paths(items) |-> WalkStep(f, items, world, path)]
<1> DEFINE Near(k) == {path \in Paths(items) : Unmet(items, path) < k}
           Good == {k \in Nat :
                      \E f : f = [path \in Near(k) |-> WalkStep(f, items, world, path)]}
<1>1. 0 \in Good
  <2>1. Near(0) = {}
    BY UnmetFacts
  <2>2. [path \in Near(0) |-> 0] = [path \in Near(0) |->
            WalkStep([q \in Near(0) |-> 0], items, world, path)]
    BY <2>1
  <2> QED
    BY <2>2
<1>2. ASSUME NEW k \in Nat, k \in Good PROVE k + 1 \in Good
  <2>1. PICK f : f = [path \in Near(k) |-> WalkStep(f, items, world, path)]
    BY <1>2
  <2> DEFINE g == [path \in Near(k + 1) |-> WalkStep(f, items, world, path)]
  <2>2. \A path \in Near(k) : path \in Near(k + 1) /\ f[path] = g[path]
    BY <2>1, UnmetFacts
  <2>3. ASSUME NEW path \in Near(k + 1)
        PROVE  g[path] = WalkStep(g, items, world, path)
    <3>1. ASSUME NEW t \in DOMAIN items \ Range(path)
          PROVE  Append(path, t) \in Near(k)
      BY UnmetFacts, AppendFacts
    <3>2. \A t \in DOMAIN items \ Range(path) :
              f[Append(path, t)] = g[Append(path, t)]
      BY <2>2, <3>1
    <3>3. WalkStep(f, items, world, path) = WalkStep(g, items, world, path)
      <4> HIDE DEF g
      <4> QED
        BY <3>2, ClosureStepLooksAhead
    <3> QED
      BY <3>3
  <2>4. g = [path \in Near(k + 1) |-> WalkStep(g, items, world, path)]
    BY <2>3
  <2>5. \E h : h = [path \in Near(k + 1) |-> WalkStep(h, items, world, path)]
    <3> HIDE DEF g, Near
    <3> QED
      BY <2>4
  <2> QED
    BY <2>5
<1>3. Nat \subseteq Good
  <2> HIDE DEF Good
  <2> QED
    BY <1>1, <1>2, CountUp
<1>4. Cardinality(DOMAIN items) + 1 \in Nat
  BY FS_CardinalityType
<1>5. Near(Cardinality(DOMAIN items) + 1) = Paths(items)
  BY <1>4, UnmetFacts, FS_CardinalityType
<1> QED
  BY <1>3, <1>4, <1>5

\* _walk_closure raises exactly on the items that reach a cycle, and otherwise
\* returns an entry for every declaration of every item that can be reached.
THEOREM WalkIsReachability ==
    ASSUME NEW items, NEW world, IsFiniteSet(DOMAIN items),
           \A i \in DOMAIN items : items[i] \in Items,
           NEW id \in DOMAIN items
    PROVE  WalkClosure(items, world, id) =
               IF CycleReachable(items, id) THEN Cycle ELSE ClosureState(items, world, id)
<1> DEFINE W == CHOOSE f : f = [path \in Paths(items) |-> WalkStep(f, items, world, path)]
           Value(i) == IF CycleReachable(items, i) THEN Cycle
                       ELSE ClosureState(items, world, i)
<1>1. W = [path \in Paths(items) |-> WalkStep(W, items, world, path)]
  BY ClosureExists
<1>2. WalkClosure(items, world, id) = W[<<id>>]
  BY DEF WalkClosure, WalkStep
<1> HIDE DEF W
<1> DEFINE Good == {path \in Paths(items) :
                       Leads(items, path) => W[path] = Value(Last(path))}
<1>3. ASSUME NEW path \in Paths(items), Leads(items, path),
             \A t \in DOMAIN items \ Range(path) : Append(path, t) \in Good
      PROVE  W[path] = Value(Last(path))
  <2> DEFINE i == Last(path)
             T == PointsTo(items, i)
             below == {W[Append(path, t)] : t \in T \ Range(path)}
             own == {Entry(d, world) : d \in Declared(items[i])}
  <2>1. i \in DOMAIN items /\ T \subseteq DOMAIN items
    BY PathFacts, PointsToCarried
  <2>2. W[path] = IF T \cap Range(path) # {} \/ Cycle \in below THEN Cycle
                  ELSE own \cup UNION below
    BY <1>1 DEF WalkStep, ClosureStep, PointsTo
  <2>3. CASE T \cap Range(path) # {}
    <3>1. CycleReachable(items, i)
      BY <1>3, <2>3, BackEdge
    <3> QED
      BY <2>2, <2>3, <3>1
  <2>4. CASE T \cap Range(path) = {}
    <3>1. ASSUME NEW t \in T PROVE W[Append(path, t)] = Value(t)
      <4>1. /\ Append(path, t) \in Paths(items)
            /\ Leads(items, Append(path, t))
            /\ Last(Append(path, t)) = t
        BY <1>3, <2>1, LeadsOn, AppendFacts
      <4>2. Append(path, t) \in Good
        BY <1>3, <2>1, <2>4
      <4> QED
        BY <4>1, <4>2
    <3>2. below = {Value(t) : t \in T}
      BY <2>4, <3>1
    <3>3. Cycle \in below <=> \E t \in T : CycleReachable(items, t)
      BY <2>1, <3>2, ClosureEntries
    <3>4. Cycle \in below <=> CycleReachable(items, i)
      BY <2>1, <3>3, CycleStepwise
    <3>5. CASE CycleReachable(items, i)
      BY <2>2, <3>4, <3>5
    <3>6. CASE ~CycleReachable(items, i)
      <4>1. \A t \in T : Value(t) = ClosureState(items, world, t)
        BY <3>3, <3>4, <3>6
      <4>2. below = {ClosureState(items, world, t) : t \in T}
        BY <3>2, <4>1
      <4>3. W[path] = own \cup UNION below
        BY <2>2, <2>4, <3>4, <3>6
      <4>4. W[path] = ClosureState(items, world, i)
        BY <2>1, <4>2, <4>3, ClosureStepwise
      <4> QED
        BY <3>6, <4>4
    <3> QED
      BY <3>5, <3>6
  <2> QED
    BY <2>3, <2>4
<1>4. Paths(items) \subseteq Good
  <2>1. \A path \in Paths(items) :
            (\A t \in DOMAIN items \ Range(path) : Append(path, t) \in Good)
            => path \in Good
    BY <1>3
  <2> HIDE DEF Good
  <2> QED
    BY <2>1, PathInduction
<1> QED
  BY <1>2, <1>4, Origin

=============================================================================
