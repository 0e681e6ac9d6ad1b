------------------------ MODULE DecisionRoundProofs ------------------------
(***************************************************************************)
(* Proofs about DecisionRound, for every cluster with finitely many nodes  *)
(* and pods, and for every answer of the solver.                           *)
(***************************************************************************)
EXTENDS DecisionRound, Sums, SequenceTheorems

-----------------------------------------------------------------------------
(* What the proofs use of a cluster. *)
LEMMA ClusterFacts ==
    ASSUME cluster \in Clusters
    PROVE  /\ IsFiniteSet(Node) /\ Node \subseteq Nat /\ NoNode \notin Node
           /\ IsFiniteSet(Pod) /\ Pod \subseteq Nat
           /\ nodes.cap \in [Node -> Nat] /\ nodes.vram \in [Node -> Nat]
           /\ nodes.quota \in [Namespace -> Int]
           /\ pods.known \subseteq Pod /\ pods.pending \subseteq Pod
           /\ pods.at \in [Pod -> Node \cup {NoNode}]
           /\ pods.namespace \in [Pod -> Namespace]
           /\ pods.gpus \in [Pod -> Nat] /\ pods.peak \in [Pod -> Nat]
           /\ pods.suits \in [Pod -> SUBSET Node]
           /\ policy.cost \in [Pod -> Nat]
           /\ policy.allowed \in [Namespace -> Nat]
           /\ \A p, q \in Pod : pods.gang[p] # NoGang /\ pods.gang[p] = pods.gang[q]
                 => pods.namespace[p] = pods.namespace[q]
BY ClusterAssumption DEF nodes, pods, policy, OfNodes, OfPods, OfPolicy

\* The pods of a node are some of the pods.
LEMMA RunningFacts ==
    ASSUME cluster \in Clusters
    PROVE  /\ Running \subseteq Pod
           /\ \A p \in Running : pods.at[p] \in Node
           /\ \A n : RunningOn(n) \subseteq Running
           /\ \A n : \A p \in RunningOn(n) : pods.at[p] = n
BY ClusterFacts DEF Running, RunningOn

\* GPUs of pods can be added up.
LEMMA GpusFacts ==
    ASSUME cluster \in Clusters, NEW S \in SUBSET Pod
    PROVE  /\ IsFiniteSet(S) /\ Gpus(S) \in Nat
           /\ \A T \in SUBSET S : Gpus(T) <= Gpus(S)
           /\ \A T \in SUBSET Pod : Gpus(S \cup T) <= Gpus(S) + Gpus(T)
           /\ \A T \in SUBSET Pod : S \cap T = {} => Gpus(S \cup T) = Gpus(S) + Gpus(T)
<1>1. IsFiniteSet(S) /\ \A T \in SUBSET Pod : IsFiniteSet(T)
  BY ClusterFacts, FS_Subset
<1>2. \A x \in Pod : pods.gpus[x] \in Nat /\ pods.gpus[x] \in Int
  BY ClusterFacts
<1>3. Gpus(S) \in Nat
  BY <1>1, <1>2, SumNat DEF Gpus
<1>4. ASSUME NEW T \in SUBSET S PROVE Gpus(T) <= Gpus(S)
  BY <1>1, <1>2, SumSubset DEF Gpus
<1>5. ASSUME NEW T \in SUBSET Pod PROVE Gpus(S \cup T) <= Gpus(S) + Gpus(T)
  BY <1>1, <1>2, SumUnionAtMost DEF Gpus
<1>6. ASSUME NEW T \in SUBSET Pod, S \cap T = {} PROVE Gpus(S \cup T) = Gpus(S) + Gpus(T)
  BY <1>1, <1>2, <1>6, SumUnion DEF Gpus
<1> QED BY <1>1, <1>3, <1>4, <1>5, <1>6

\* The larger of zero and a number.
LEMMA MaxFacts == \A a, b \in Int : Max({a, b}) = IF a >= b THEN a ELSE b
<1> SUFFICES ASSUME NEW a \in Int, NEW b \in Int
             PROVE  Max({a, b}) = IF a >= b THEN a ELSE b
    OBVIOUS
<1> DEFINE m == IF a >= b THEN a ELSE b
<1>1. m \in {a, b} /\ \A y \in {a, b} : m >= y
  OBVIOUS
<1>2. \A x \in {a, b} : (\A y \in {a, b} : x >= y) => x = m
  OBVIOUS
<1> QED BY <1>1, <1>2 DEF Max

\* The least of a set of numbers.
LEMMA MinFacts ==
    \A S : S \subseteq Nat /\ S # {} => Min(S) \in S /\ \A n \in S : Min(S) <= n
<1> SUFFICES ASSUME NEW S, S \subseteq Nat, S # {}
             PROVE  Min(S) \in S /\ \A n \in S : Min(S) <= n
    OBVIOUS
<1>1. \E n \in S : \A m \in S : n <= m
  BY MinimalNumber
<1> QED BY <1>1 DEF Min

\* What running pods leave of a node.
LEMMA ResidualFacts ==
    ASSUME cluster \in Clusters, NEW n \in Node
    PROVE  /\ Residual(n) \in Nat /\ Gpus(RunningOn(n)) \in Nat /\ nodes.cap[n] \in Nat
           /\ Residual(n) = IF nodes.cap[n] >= Gpus(RunningOn(n))
                            THEN nodes.cap[n] - Gpus(RunningOn(n)) ELSE 0
           /\ Gpus(RunningOn(n)) + Residual(n) = Max({nodes.cap[n], Gpus(RunningOn(n))})
<1>1. RunningOn(n) \in SUBSET Pod
  BY RunningFacts
<1>2. Gpus(RunningOn(n)) \in Nat
  BY <1>1, GpusFacts
<1>3. nodes.cap[n] \in Nat
  BY ClusterFacts
<1> QED BY <1>2, <1>3, MaxFacts DEF Residual

-----------------------------------------------------------------------------
\* A waiting pod is in one gang, with all that are in it.
LEMMA GangFacts ==
    ASSUME cluster \in Clusters, NEW p \in pods.pending
    PROVE  /\ p \in Gang(p) /\ Gang(p) \in Gangs
           /\ Gang(p) \subseteq pods.pending
           /\ \A q \in Gang(p) : Gang(q) = Gang(p)
           /\ \A q \in Gang(p) : pods.namespace[q] = pods.namespace[p]
<1>1. p \in Gang(p) /\ Gang(p) \in Gangs /\ Gang(p) \subseteq pods.pending
  BY DEF Gang, Gangs
<1>2. ASSUME NEW q \in Gang(p) PROVE Gang(q) = Gang(p)
  BY DEF Gang
<1>3. ASSUME NEW q \in Gang(p) PROVE pods.namespace[q] = pods.namespace[p]
  BY ClusterFacts DEF Gang
<1> QED BY <1>1, <1>2, <1>3

\* The members of a gang the solver gets agree on what is asked of them.
LEMMA EmittedFacts ==
    ASSUME cluster \in Clusters, NEW g \in Emitted
    PROVE  /\ g \in SUBSET Pod /\ IsFiniteSet(g) /\ Cardinality(g) \in Nat
           /\ First(g) \in g /\ First(g) \in Pod
           /\ ~ Malformed(g)
           /\ \A p \in g : p \in pods.pending /\ Gang(p) = g
           /\ \A p \in g : /\ pods.gpus[p] = pods.gpus[First(g)]
                           /\ pods.suits[p] = pods.suits[First(g)]
                           /\ pods.colocate[p] = pods.colocate[First(g)]
                           /\ pods.repels[p] = pods.repels[First(g)]
                           /\ pods.zoneRepels[p] = pods.zoneRepels[First(g)]
                           /\ pods.namespace[p] = pods.namespace[First(g)]
<1>1. PICK p \in pods.pending : g = Gang(p)
  BY DEF Emitted, Gangs
<1>2. /\ g \subseteq pods.pending /\ g # {} /\ g \in SUBSET Pod
      /\ \A q \in g : Gang(q) = g /\ pods.namespace[q] = pods.namespace[p]
  BY <1>1, GangFacts, ClusterFacts
<1>3. IsFiniteSet(g) /\ Cardinality(g) \in Nat
  BY <1>2, ClusterFacts, FS_Subset, FS_CardinalityType
<1>4. First(g) \in g
  BY <1>2, MinFacts, ClusterFacts DEF First
<1>5. ~ Malformed(g)
  BY DEF Emitted
<1> QED BY <1>2, <1>3, <1>4, <1>5 DEF Malformed, Agree

\* The gangs are finitely many.
LEMMA EmittedIsFinite ==
    ASSUME cluster \in Clusters
    PROVE  IsFiniteSet(Emitted)
<1>1. Emitted \subseteq SUBSET Pod
  BY EmittedFacts
<1>2. IsFiniteSet(SUBSET Pod)
  BY ClusterFacts, FS_SUBSET
<1> QED BY <1>1, <1>2, FS_Subset

-----------------------------------------------------------------------------
\* A solution gives each gang one of its options.
LEMMA SolutionFacts ==
    ASSUME cluster \in Clusters, NEW counts \in Solutions, NEW g \in Emitted
    PROVE  /\ counts[g] \in Options(g)
           /\ counts[g] \in [Feasible(g) -> 0..Cardinality(g)]
           /\ Total(counts[g]) \in {0, Cardinality(g)}
           /\ Feasible(g) \subseteq Node
<1> DEFINE options == [h \in Emitted |-> Options(h)]
<1>1. counts \in Selections(options)
  BY DEF Solutions, Assignments
<1>2. IsFiniteSet(DOMAIN options)
  BY EmittedIsFinite
<1>3. counts[g] \in options[g]
  <2> HIDE DEF options
  <2>1. \A x \in DOMAIN options : counts[x] \in options[x]
    BY <1>1, <1>2, SelectionsSelect
  <2> USE DEF options
  <2>2. g \in DOMAIN options
    OBVIOUS
  <2> QED BY <2>1, <2>2
<1>4. counts[g] \in Options(g)
  BY <1>3
<1>5. Feasible(g) \subseteq Node
  BY EmittedFacts, ClusterFacts DEF Feasible
<1> QED BY <1>4, <1>5 DEF Options

\* The replicas of a gang on the nodes, all of them together.
LEMMA OnFacts ==
    ASSUME cluster \in Clusters, NEW counts \in Solutions, NEW g \in Emitted
    PROVE  /\ \A n : On(counts, g, n) \in Nat
           /\ \A n : On(counts, g, n) > 0 => n \in Feasible(g) /\ counts[g][n] = On(counts, g, n)
           /\ SumFunctionOnSet([m \in Node |-> On(counts, g, m)], Node) = Total(counts[g])
<1> DEFINE f == [m \in Node |-> On(counts, g, m)]
<1>1. /\ counts[g] \in [Feasible(g) -> 0..Cardinality(g)] /\ Cardinality(g) \in Nat
      /\ Feasible(g) \subseteq Node /\ IsFiniteSet(Node)
  BY SolutionFacts, EmittedFacts, ClusterFacts
<1>2. \A n : On(counts, g, n) \in Nat
  BY <1>1 DEF On
<1>3. \A n : On(counts, g, n) > 0 => n \in Feasible(g) /\ counts[g][n] = On(counts, g, n)
  BY <1>1 DEF On
<1>4. SumFunctionOnSet(f, Node) = Total(counts[g])
  <2>1. IsFiniteSet(Feasible(g)) /\ IsFiniteSet(Node \ Feasible(g))
    BY <1>1, FS_Subset
  <2>2. \A n \in Node : f[n] \in Nat
    BY <1>2
  <2>3. Feasible(g) \cup (Node \ Feasible(g)) = Node
        /\ Feasible(g) \cap (Node \ Feasible(g)) = {}
    BY <1>1
  <2>4. \A n \in Node \ Feasible(g) : f[n] = 0
    BY <1>1 DEF On
  <2>5. \A n \in Feasible(g) : f[n] = counts[g][n]
    BY <1>1 DEF On
  <2> HIDE DEF f
  <2>6. SumFunctionOnSet(f, Feasible(g) \cup (Node \ Feasible(g)))
            = SumFunctionOnSet(f, Feasible(g)) + SumFunctionOnSet(f, Node \ Feasible(g))
    BY <2>1, <2>2, <2>3, SumUnion
  <2>7. SumFunctionOnSet(f, Node \ Feasible(g)) = 0
    BY <2>1, <2>4, SumZero
  <2>8. SumFunctionOnSet(f, Feasible(g)) = SumFunctionOnSet(counts[g], Feasible(g))
    BY <2>1, <2>5, SumSame
  <2>9. SumFunctionOnSet(f, Feasible(g)) \in Nat
    BY <1>1, <2>1, <2>2, SumNat
  <2>10. SumFunctionOnSet(f, Node) = SumFunctionOnSet(f, Feasible(g) \cup (Node \ Feasible(g)))
    BY <2>3, Zenon
  <2>11. Total(counts[g]) = SumFunctionOnSet(counts[g], Feasible(g))
    BY <1>1 DEF Total, SumFunction
  <2> QED BY <2>6, <2>7, <2>8, <2>9, <2>10, <2>11
<1> QED BY <1>2, <1>3, <1>4

-----------------------------------------------------------------------------
\* The members of a gang take ranks one after the other.
LEMMA RankFacts ==
    ASSUME cluster \in Clusters, NEW g \in Emitted, NEW p \in g
    PROVE  /\ Rank(p) \in Nat /\ Rank(p) < Cardinality(g)
           /\ \A q \in g : p < q => Rank(p) < Rank(q)
<1> DEFINE Less(q) == {m \in g : m < q}
<1>1. /\ IsFiniteSet(g) /\ Cardinality(g) \in Nat /\ g \subseteq Nat
      /\ \A q \in g : Rank(q) = Cardinality(Less(q))
  BY EmittedFacts, ClusterFacts DEF Rank
<1>2. \A q \in g : IsFiniteSet(Less(q)) /\ Cardinality(Less(q)) \in Nat
  <2>1. \A q \in g : Less(q) \in SUBSET g
    OBVIOUS
  <2> HIDE DEF Less
  <2> QED BY <1>1, <2>1, FS_Subset, FS_CardinalityType
<1>3. Cardinality(Less(p)) < Cardinality(g)
  <2>1. Less(p) \in SUBSET (g \ {p})
    BY <1>1
  <2>2. IsFiniteSet(g \ {p}) /\ Cardinality(g \ {p}) = Cardinality(g) - 1
    BY <1>1, FS_RemoveElement
  <2> HIDE DEF Less
  <2>3. Cardinality(Less(p)) <= Cardinality(g \ {p})
    BY <2>1, <2>2, FS_Subset
  <2> QED BY <1>1, <1>2, <2>2, <2>3
<1>4. ASSUME NEW q \in g, p < q PROVE Cardinality(Less(p)) < Cardinality(Less(q))
  <2>1. p \in Less(q)
    BY <1>4
  <2>2. Less(p) \in SUBSET (Less(q) \ {p})
    <3>1. \A m \in g : m < p => m < q /\ m # p
      BY <1>1, <1>4
    <3> QED BY <3>1
  <2> HIDE DEF Less
  <2>3. IsFiniteSet(Less(q) \ {p}) /\ Cardinality(Less(q) \ {p}) = Cardinality(Less(q)) - 1
    BY <1>2, <2>1, FS_RemoveElement
  <2>4. Cardinality(Less(p)) <= Cardinality(Less(q) \ {p})
    BY <2>2, <2>3, FS_Subset
  <2> QED BY <1>2, <2>3, <2>4
<1> QED BY <1>1, <1>2, <1>3, <1>4

\* The replicas up to a node are those on it and those up to the node before.
LEMMA UpToFacts ==
    ASSUME cluster \in Clusters, NEW counts \in Solutions, NEW g \in Emitted, NEW n \in Node
    PROVE  /\ UpTo(counts, g, n) \in Nat /\ On(counts, g, n) \in Nat
           /\ UpTo(counts, g, n) <= Total(counts[g])
           /\ (\A m \in Node : m <= n) => UpTo(counts, g, n) = Total(counts[g])
           /\ \/ UpTo(counts, g, n) = On(counts, g, n)
              \/ \E m \in Node : m < n /\ UpTo(counts, g, n) = UpTo(counts, g, m) + On(counts, g, n)
<1> DEFINE f == [m \in Node |-> On(counts, g, m)]
           to(k) == {m \in Node : m <= k}
           less == {m \in Node : m < n}
<1>1. IsFiniteSet(Node) /\ Node \subseteq Nat
  BY ClusterFacts
<1>2. \A m \in Node : f[m] \in Nat /\ f[m] \in Int /\ f[m] = On(counts, g, m)
  <2>1. \A m : On(counts, g, m) \in Nat
    BY OnFacts
  <2> QED BY <2>1
<1>3. \A k \in Node : UpTo(counts, g, k) = SumFunctionOnSet(f, to(k))
  BY DEF UpTo
<1>4. SumFunctionOnSet(f, Node) = Total(counts[g])
  BY OnFacts
<1> HIDE DEF f
<1>5. to(n) \in SUBSET Node /\ less \in SUBSET Node /\ n \notin less /\ to(n) = less \cup {n}
  <2>1. \A m \in Node : m <= n <=> m < n \/ m = n
    BY <1>1
  <2>2. ~ (n < n)
    BY <1>1
  <2> QED BY <2>1, <2>2
<1>6. IsFiniteSet(to(n)) /\ IsFiniteSet(less)
  BY <1>1, <1>5, FS_Subset
<1>7. (\A m \in Node : m <= n) => to(n) = Node
  OBVIOUS
<1>8. less # {} => \E m \in Node : m < n /\ to(m) = less
  <2> SUFFICES ASSUME less # {} PROVE \E m \in Node : m < n /\ to(m) = less
    OBVIOUS
  <2>1. less \subseteq Int
    <3>1. Node \subseteq Int
      BY <1>1
    <3> QED BY <3>1
  <2>2. PICK m \in less : \A k \in less : k <= m
    <3> HIDE DEF less
    <3> QED BY <1>6, <2>1, LargestNumber
  <2>3. to(m) = less
    <3>1. \A k \in Node : k <= m <=> k < n
      BY <1>1, <2>2
    <3> QED BY <3>1
  <2> QED BY <2>2, <2>3
<1> HIDE DEF to, less
<1>9. UpTo(counts, g, n) \in Nat
  BY <1>2, <1>3, <1>5, <1>6, SumNat
<1>10. UpTo(counts, g, n) <= Total(counts[g])
  BY <1>1, <1>2, <1>3, <1>4, <1>5, SumSubset
<1>11. ASSUME \A m \in Node : m <= n PROVE UpTo(counts, g, n) = Total(counts[g])
  BY <1>3, <1>4, <1>7, <1>11, Zenon
<1>12. UpTo(counts, g, n) = f[n] + SumFunctionOnSet(f, less)
  <2>1. SumFunctionOnSet(f, less \cup {n}) = f[n] + SumFunctionOnSet(f, less)
    BY <1>2, <1>5, <1>6, SumInsert
  <2> QED BY <1>3, <1>5, <2>1, Zenon
<1>13. CASE less = {}
  <2>1. SumFunctionOnSet(f, less) = 0
    BY <1>13, SumEmpty
  <2> QED BY <1>2, <1>9, <1>10, <1>11, <1>12, <2>1
<1>14. CASE less # {}
  <2>1. PICK m \in Node : m < n /\ to(m) = less
    BY <1>8, <1>14
  <2>2. UpTo(counts, g, m) = SumFunctionOnSet(f, less)
    BY <1>3, <2>1, Zenon
  <2>3. SumFunctionOnSet(f, less) \in Nat
    BY <1>2, <1>5, <1>6, SumNat
  <2>4. UpTo(counts, g, n) = UpTo(counts, g, m) + On(counts, g, n)
    BY <1>2, <1>12, <2>2, <2>3
  <2> QED BY <1>2, <1>9, <1>10, <1>11, <2>1, <2>4
<1> QED BY <1>13, <1>14

\* A member with a node has a rank among the replicas there.
LEMMA NodeOfFacts ==
    ASSUME cluster \in Clusters, NEW counts \in Solutions, NEW p \in pods.pending,
           NodeOf(counts, p) # NoNode
    PROVE  LET g == Gang(p)
               n == NodeOf(counts, p)
           IN  /\ g \in Emitted /\ n \in Node
               /\ Rank(p) < UpTo(counts, g, n)
               /\ UpTo(counts, g, n) - On(counts, g, n) <= Rank(p)
               /\ On(counts, g, n) > 0
<1> DEFINE g == Gang(p)
           some == {n \in Node : UpTo(counts, g, n) > Rank(p)}
<1>1. g \in Emitted /\ some # {} /\ NodeOf(counts, p) = Min(some)
  BY DEF NodeOf
<1>2. some \subseteq Nat
  BY ClusterFacts
<1>3. Min(some) \in some /\ \A m \in some : Min(some) <= m
  <2> HIDE DEF some
  <2> QED BY <1>1, <1>2, MinFacts
<1>4. PICK n \in Node : n = NodeOf(counts, p)
  BY <1>1, <1>3
<1>5. UpTo(counts, g, n) > Rank(p) /\ \A m \in Node : m < n => ~ (UpTo(counts, g, m) > Rank(p))
  <2>1. \A m \in Node : m \in Nat
    BY ClusterFacts
  <2> QED BY <1>1, <1>3, <1>4, <2>1
<1>6. p \in g
  BY GangFacts
<1>7. Rank(p) \in Nat
  BY <1>1, <1>6, RankFacts
<1> HIDE DEF g, some
<1>8. /\ UpTo(counts, g, n) \in Nat /\ On(counts, g, n) \in Nat
      /\ \/ UpTo(counts, g, n) = On(counts, g, n)
         \/ \E m \in Node : m < n /\ UpTo(counts, g, n) = UpTo(counts, g, m) + On(counts, g, n)
  BY <1>1, UpToFacts
<1>9. \A m \in Node : UpTo(counts, g, m) \in Nat
  BY <1>1, UpToFacts
<1>10. UpTo(counts, g, n) - On(counts, g, n) <= Rank(p)
  BY <1>5, <1>7, <1>8, <1>9
<1>11. On(counts, g, n) > 0
  BY <1>5, <1>7, <1>8, <1>10
<1>12. UpTo(counts, g, n) > Rank(p) <=> Rank(p) < UpTo(counts, g, n)
  BY <1>7, <1>8
<1> QED BY <1>1, <1>4, <1>5, <1>10, <1>11, <1>12 DEF g

\* A node gets no more members than the solver gave it replicas.
LEMMA MembersOnNode ==
    ASSUME cluster \in Clusters, NEW counts \in Solutions, NEW g \in Emitted, NEW n \in Node
    PROVE  Cardinality({p \in g : NodeOf(counts, p) = n}) <= On(counts, g, n)
<1> DEFINE S == {p \in g : NodeOf(counts, p) = n}
           low == UpTo(counts, g, n) - On(counts, g, n)
           high == UpTo(counts, g, n) - 1
           f == [p \in S |-> Rank(p)]
<1>1. UpTo(counts, g, n) \in Nat /\ On(counts, g, n) \in Nat
  BY UpToFacts
<1>2. \A p \in S : Rank(p) \in low..high
  <2> SUFFICES ASSUME NEW p \in S PROVE Rank(p) \in low..high
    OBVIOUS
  <2>1. p \in pods.pending /\ Gang(p) = g /\ NodeOf(counts, p) = n /\ n # NoNode
    BY EmittedFacts, ClusterFacts
  <2>2. Rank(p) < UpTo(counts, g, n) /\ low <= Rank(p)
    BY <2>1, NodeOfFacts
  <2>3. Rank(p) \in Nat
    BY RankFacts
  <2> QED BY <1>1, <2>2, <2>3
<1>3. \A p, q \in S : Rank(p) = Rank(q) => p = q
  <2>1. \A p \in S : p \in Nat /\ Rank(p) \in Nat /\ \A q \in S : p < q => Rank(p) < Rank(q)
    BY RankFacts, EmittedFacts, ClusterFacts
  <2> QED BY <2>1
<1>4. low \in Int /\ high \in Int
  BY <1>1
<1> HIDE DEF S, low, high
<1>5. f \in Injection(S, low..high)
  BY <1>2, <1>3 DEF Injection, IsInjective
<1>6. IsFiniteSet(low..high)
      /\ Cardinality(low..high) = IF low > high THEN 0 ELSE high - low + 1
  BY <1>4, FS_Interval
<1> HIDE DEF f
<1>7. Cardinality(S) <= Cardinality(low..high)
  BY <1>5, <1>6, FS_Injection
<1>8. IsFiniteSet(S) /\ Cardinality(S) \in Nat
  BY <1>5, <1>6, FS_Injection, FS_CardinalityType
<1>9. Cardinality(low..high) <= On(counts, g, n)
  BY <1>1, <1>6 DEF low, high
<1>10. Cardinality(low..high) \in Int
  BY <1>4, <1>6
<1> QED BY <1>1, <1>7, <1>8, <1>9, <1>10 DEF S

\* The answer places all members of a gang or none.
LEMMA GangsAreWhole ==
    ASSUME cluster \in Clusters, NEW counts \in Solutions, NEW g \in Emitted,
           NEW p \in g, NodeOf(counts, p) # NoNode
    PROVE  /\ Total(counts[g]) = Cardinality(g)
           /\ \A q \in g : NodeOf(counts, q) # NoNode
<1> DEFINE total == Total(counts[g])
<1>1. /\ total \in {0, Cardinality(g)} /\ Cardinality(g) \in Nat
      /\ \A q \in g : q \in pods.pending /\ Gang(q) = g
  BY SolutionFacts, EmittedFacts
<1>2. PICK n \in Node : Rank(p) < UpTo(counts, g, n)
  BY <1>1, NodeOfFacts
<1>3. total = Cardinality(g)
  <2>1. Rank(p) \in Nat
    BY RankFacts
  <2>2. UpTo(counts, g, n) \in Nat /\ UpTo(counts, g, n) <= total
    BY UpToFacts
  <2> HIDE DEF total
  <2> QED BY <1>1, <1>2, <2>1, <2>2
<1>4. PICK last \in Node : \A m \in Node : m <= last
  <2>1. IsFiniteSet(Node) /\ Node \subseteq Int /\ Node # {}
    BY <1>2, ClusterFacts
  <2> QED BY <2>1, LargestNumber
<1>5. UpTo(counts, g, last) = Cardinality(g)
  BY <1>3, <1>4, UpToFacts
<1>6. ASSUME NEW q \in g PROVE NodeOf(counts, q) # NoNode
  <2> DEFINE some == {m \in Node : UpTo(counts, g, m) > Rank(q)}
  <2>1. Rank(q) \in Nat /\ Rank(q) < Cardinality(g)
    BY RankFacts
  <2>2. last \in some /\ some \subseteq Nat /\ NoNode \notin some
    BY <1>1, <1>5, <2>1, ClusterFacts
  <2>3. NodeOf(counts, q) = Min(some)
    BY <1>1, <2>2 DEF NodeOf
  <2>4. Min(some) \in some
    <3> HIDE DEF some
    <3> QED BY <2>2, MinFacts
  <2> HIDE DEF some
  <2> QED BY <2>2, <2>3, <2>4
<1> QED BY <1>3, <1>6

-----------------------------------------------------------------------------
\* Members of a gang need the same number of GPUs each.
LEMMA MembersGpus ==
    ASSUME cluster \in Clusters, NEW g \in Emitted, NEW S \in SUBSET g
    PROVE  /\ Gpus(S) = Cardinality(S) * pods.gpus[First(g)]
           /\ IsFiniteSet(S) /\ Cardinality(S) \in Nat /\ pods.gpus[First(g)] \in Nat
<1>1. IsFiniteSet(S) /\ Cardinality(S) \in Nat
  BY EmittedFacts, FS_Subset, FS_CardinalityType
<1>2. pods.gpus[First(g)] \in Nat /\ \A p \in S : pods.gpus[p] = pods.gpus[First(g)]
  BY EmittedFacts, ClusterFacts
<1> QED BY <1>1, <1>2, SumConstant DEF Gpus

\* The decisions ask of a node no more than the running pods leave.
LEMMA NodesAreNotOverfilled ==
    ASSUME cluster \in Clusters, NEW counts \in Solutions, NEW n \in Node
    PROVE  Gpus({p \in pods.pending : NodeOf(counts, p) = n}) <= Residual(n)
<1> DEFINE S       == {p \in pods.pending : NodeOf(counts, p) = n}
           part    == [g \in Emitted |-> {p \in g : NodeOf(counts, p) = n}]
           all     == UNION {part[g] : g \in Emitted}
           taken   == [g \in Emitted |-> SumFunctionOnSet(pods.gpus, part[g])]
           granted == [g \in Emitted |-> On(counts, g, n) * pods.gpus[First(g)]]
<1>1. IsFiniteSet(Emitted)
  BY EmittedIsFinite
<1>2. ASSUME NEW g \in Emitted PROVE part[g] \in SUBSET g /\ part[g] \in SUBSET Pod
  BY EmittedFacts
<1>3. ASSUME NEW g \in Emitted
      PROVE  /\ IsFiniteSet(part[g])
             /\ \A p \in part[g] : pods.gpus[p] \in Nat
             /\ taken[g] \in Int /\ granted[g] \in Int /\ taken[g] <= granted[g]
  <2> DEFINE k == pods.gpus[First(g)]
  <2>1. /\ IsFiniteSet(part[g]) /\ Cardinality(part[g]) \in Nat /\ k \in Nat
        /\ Gpus(part[g]) = Cardinality(part[g]) * k
    BY <1>2, MembersGpus
  <2>2. Cardinality(part[g]) <= On(counts, g, n) /\ On(counts, g, n) \in Nat
    BY MembersOnNode, UpToFacts
  <2>3. \A a, b, c \in Nat : a <= b => a * c <= b * c /\ a * c \in Int /\ b * c \in Int
    OBVIOUS
  <2>4. taken[g] = Cardinality(part[g]) * k /\ granted[g] = On(counts, g, n) * k
    BY <2>1 DEF Gpus
  <2>5. \A p \in part[g] : pods.gpus[p] \in Nat
    BY <1>2, ClusterFacts
  <2> HIDE DEF part, taken, granted, k
  <2> QED BY <2>1, <2>2, <2>3, <2>4, <2>5
<1>4. SumFunctionOnSet(granted, Emitted) <= Residual(n)
  <2>1. Total(granted) <= Residual(n)
    BY DEF Solutions
  <2>2. DOMAIN granted = Emitted
    OBVIOUS
  <2> HIDE DEF granted
  <2>3. Total(granted) = SumFunctionOnSet(granted, Emitted)
    BY <2>2, Zenon DEF Total, SumFunction
  <2> QED BY <2>1, <2>3, Zenon
<1>5. S \subseteq all
  <2> SUFFICES ASSUME NEW p \in S PROVE p \in all
    OBVIOUS
  <2>1. NodeOf(counts, p) # NoNode
    BY ClusterFacts
  <2>2. Gang(p) \in Emitted /\ p \in Gang(p)
    BY <2>1, NodeOfFacts, GangFacts
  <2> QED BY <2>2
<1>6. all \subseteq Pod
  <2> HIDE DEF part
  <2> QED BY <1>2
<1> HIDE DEF S, part, granted, all
<1>7. SumFunctionOnSet(taken, Emitted) <= SumFunctionOnSet(granted, Emitted)
  <2> HIDE DEF taken
  <2> QED BY <1>1, <1>3, SumMonotone
<1>8. SumFunctionOnSet(pods.gpus, all) <= SumFunctionOnSet(taken, Emitted)
  BY <1>1, <1>3, SumCover DEF all
<1>9. Gpus(S) <= Gpus(all) /\ Gpus(S) \in Nat /\ Gpus(all) \in Nat
  BY <1>5, <1>6, GpusFacts
<1>10. SumFunctionOnSet(taken, Emitted) \in Int /\ SumFunctionOnSet(granted, Emitted) \in Int
  <2> HIDE DEF taken
  <2> QED BY <1>1, <1>3, SumInt
<1>11. Residual(n) \in Nat
  BY ResidualFacts
<1>12. Gpus(all) = SumFunctionOnSet(pods.gpus, all)
  BY DEF Gpus
<1> HIDE DEF taken
<1>13. Gpus(S) <= Residual(n)
  BY <1>4, <1>7, <1>8, <1>9, <1>10, <1>11, <1>12
<1> QED BY <1>13 DEF S

\* The decisions ask of a namespace no more than its quota leaves.
LEMMA NamespacesAreNotOverfilled ==
    ASSUME cluster \in Clusters, NEW counts \in Solutions,
           NEW s \in Namespace, nodes.quota[s] # Unlimited
    PROVE  Gpus({p \in pods.pending : NodeOf(counts, p) # NoNode /\ pods.namespace[p] = s})
              <= QuotaLimit(s)
<1> DEFINE S       == {p \in pods.pending : NodeOf(counts, p) # NoNode /\ pods.namespace[p] = s}
           mine    == {g \in Emitted : pods.namespace[First(g)] = s}
           part    == [g \in mine |-> {p \in g : NodeOf(counts, p) # NoNode}]
           all     == UNION {part[g] : g \in mine}
           taken   == [g \in mine |-> SumFunctionOnSet(pods.gpus, part[g])]
           granted == [g \in mine |-> Total(counts[g]) * pods.gpus[First(g)]]
<1>1. mine \in SUBSET Emitted /\ IsFiniteSet(mine)
  <2>1. IsFiniteSet(Emitted) /\ mine \in SUBSET Emitted
    BY EmittedIsFinite
  <2> QED BY <2>1, FS_Subset
<1>2. ASSUME NEW g \in mine PROVE part[g] \in SUBSET g /\ part[g] \in SUBSET Pod /\ g \in Emitted
  BY EmittedFacts
<1>3. ASSUME NEW g \in mine
      PROVE  /\ IsFiniteSet(part[g])
             /\ \A p \in part[g] : pods.gpus[p] \in Nat
             /\ taken[g] \in Int /\ granted[g] \in Int /\ taken[g] <= granted[g]
  <2> DEFINE k == pods.gpus[First(g)]
  <2>1. /\ IsFiniteSet(part[g]) /\ Cardinality(part[g]) \in Nat /\ k \in Nat
        /\ Gpus(part[g]) = Cardinality(part[g]) * k
    BY <1>2, MembersGpus
  <2>2. Cardinality(part[g]) <= Total(counts[g]) /\ Total(counts[g]) \in Nat
    <3>1. IsFiniteSet(g) /\ Cardinality(g) \in Nat /\ Total(counts[g]) \in {0, Cardinality(g)}
      BY <1>2, EmittedFacts, SolutionFacts
    <3>2. part[g] # {} => Total(counts[g]) = Cardinality(g)
      BY <1>2, GangsAreWhole
    <3>3. Cardinality(part[g]) <= Cardinality(g)
      BY <1>2, <3>1, FS_Subset
    <3>4. part[g] = {} => Cardinality(part[g]) = 0
      BY FS_EmptySet
    <3> HIDE DEF part
    <3> QED BY <3>1, <3>2, <3>3, <3>4
  <2>3. \A a, b, c \in Nat : a <= b => a * c <= b * c /\ a * c \in Int /\ b * c \in Int
    OBVIOUS
  <2>4. taken[g] = Cardinality(part[g]) * k /\ granted[g] = Total(counts[g]) * k
    BY <2>1 DEF Gpus
  <2>5. \A p \in part[g] : pods.gpus[p] \in Nat
    BY <1>2, ClusterFacts
  <2> HIDE DEF part, taken, granted, k
  <2> QED BY <2>1, <2>2, <2>3, <2>4, <2>5
<1>4. SumFunctionOnSet(granted, mine) <= QuotaLimit(s)
  <2>1. Total(granted) <= QuotaLimit(s)
    BY DEF Solutions
  <2>2. DOMAIN granted = mine
    OBVIOUS
  <2> HIDE DEF granted, mine
  <2>3. Total(granted) = SumFunctionOnSet(granted, mine)
    BY <2>2, Zenon DEF Total, SumFunction
  <2> QED BY <2>1, <2>3, Zenon
<1>5. S \subseteq all
  <2> SUFFICES ASSUME NEW p \in S PROVE p \in all
    OBVIOUS
  <2>1. NodeOf(counts, p) # NoNode
    BY ClusterFacts
  <2>2. Gang(p) \in Emitted /\ p \in Gang(p)
    BY <2>1, NodeOfFacts, GangFacts
  <2>3. pods.namespace[First(Gang(p))] = s
    BY <2>2, EmittedFacts
  <2> QED BY <2>1, <2>2, <2>3
<1>6. all \subseteq Pod
  <2> HIDE DEF part
  <2> QED BY <1>2
<1> HIDE DEF S, part, granted, all, mine
<1>7. SumFunctionOnSet(taken, mine) <= SumFunctionOnSet(granted, mine)
  <2> HIDE DEF taken
  <2> QED BY <1>1, <1>3, SumMonotone
<1>8. SumFunctionOnSet(pods.gpus, all) <= SumFunctionOnSet(taken, mine)
  BY <1>1, <1>3, SumCover DEF all
<1>9. Gpus(S) <= Gpus(all) /\ Gpus(S) \in Nat /\ Gpus(all) \in Nat
  BY <1>5, <1>6, GpusFacts
<1>10. SumFunctionOnSet(taken, mine) \in Int /\ SumFunctionOnSet(granted, mine) \in Int
  <2> HIDE DEF taken
  <2> QED BY <1>1, <1>3, SumInt
<1>11. QuotaLimit(s) \in Int
  <2>1. OfNamespace(s) \in SUBSET Pod
    BY RunningFacts DEF OfNamespace
  <2>2. Gpus(OfNamespace(s)) \in Nat /\ nodes.quota[s] \in Int
    BY <2>1, GpusFacts, ClusterFacts
  <2>3. 0 \in Int /\ nodes.quota[s] - Gpus(OfNamespace(s)) \in Int
    BY <2>2
  <2> QED BY <2>3, MaxFacts DEF QuotaLimit
<1>12. Gpus(all) = SumFunctionOnSet(pods.gpus, all)
  BY DEF Gpus
<1> HIDE DEF taken
<1>13. Gpus(S) <= QuotaLimit(s)
  BY <1>4, <1>7, <1>8, <1>9, <1>10, <1>11, <1>12
<1> QED BY <1>13 DEF S

-----------------------------------------------------------------------------
\* What is known of the node of a placed pod.
LEMMA PlacedFacts ==
    ASSUME cluster \in Clusters, NEW counts \in Solutions, NEW p \in pods.pending,
           NodeOf(counts, p) # NoNode
    PROVE  /\ Gang(p) \in Emitted /\ p \in Gang(p)
           /\ NodeOf(counts, p) \in Node /\ NodeOf(counts, p) \in Feasible(Gang(p))
           /\ On(counts, Gang(p), NodeOf(counts, p)) > 0
           /\ \A q \in Gang(p) : NodeOf(counts, q) # NoNode
<1>1. Gang(p) \in Emitted /\ p \in Gang(p)
  BY NodeOfFacts, GangFacts
<1>2. NodeOf(counts, p) \in Node /\ On(counts, Gang(p), NodeOf(counts, p)) > 0
  BY NodeOfFacts
<1>3. NodeOf(counts, p) \in Feasible(Gang(p))
  BY <1>1, <1>2, OnFacts
<1> QED BY <1>1, <1>2, <1>3, GangsAreWhole

\* A set with at most one element.
LEMMA AtMostOne ==
    ASSUME NEW S, IsFiniteSet(S), Cardinality(S) <= 1, NEW x \in S, NEW y \in S
    PROVE  x = y
<1> SUFFICES ASSUME x # y PROVE FALSE
    OBVIOUS
<1>1. /\ IsFiniteSet(S \ {x}) /\ Cardinality(S \ {x}) = Cardinality(S) - 1
      /\ Cardinality(S) \in Nat
  BY FS_RemoveElement, FS_CardinalityType
<1>2. Cardinality((S \ {x}) \ {y}) = Cardinality(S \ {x}) - 1 /\ IsFiniteSet((S \ {x}) \ {y})
  BY <1>1, FS_RemoveElement
<1>3. Cardinality((S \ {x}) \ {y}) \in Nat
  BY <1>2, FS_CardinalityType
<1> QED BY <1>1, <1>2, <1>3

\* The most memory a member is predicted to need.
LEMMA PeakFacts ==
    ASSUME cluster \in Clusters, NEW g \in Emitted, NEW p \in g
    PROVE  Peak(g) \in Nat /\ pods.peak[p] <= Peak(g)
<1> DEFINE S == {pods.peak[m] : m \in g}
<1>1. IsFiniteSet(g) /\ \A m \in g : pods.peak[m] \in Nat
  BY EmittedFacts, ClusterFacts
<1>2. IsFiniteSet(S)
  BY <1>1, FiniteImage
<1>3. S \subseteq Nat /\ S \subseteq Int /\ S # {} /\ pods.peak[p] \in S
  BY <1>1
<1> HIDE DEF S
<1>4. \E m \in S : \A n \in S : n <= m
  BY <1>2, <1>3, LargestNumber
<1>5. \E m \in S : \A n \in S : m >= n
  BY <1>3, <1>4
<1>6. Max(S) \in S /\ \A n \in S : Max(S) >= n
  BY <1>5 DEF Max
<1>7. Max(S) \in Nat /\ pods.peak[p] \in Nat /\ Max(S) >= pods.peak[p]
  BY <1>3, <1>6
<1> QED BY <1>7 DEF Peak, S

\* A co-located gang is on one node, one that spreads itself has a node for each member.
LEMMA ShapesAreKept ==
    ASSUME cluster \in Clusters, NEW counts \in Solutions, NEW g \in Emitted,
           NEW p \in g, NodeOf(counts, p) # NoNode, NEW q \in g
    PROVE  /\ pods.colocate[p] => NodeOf(counts, q) = NodeOf(counts, p)
           /\ SpreadsItself(g) /\ p # q => NodeOf(counts, q) # NodeOf(counts, p)
<1>1. /\ p \in pods.pending /\ Gang(p) = g /\ q \in pods.pending /\ Gang(q) = g
      /\ pods.colocate[p] = pods.colocate[First(g)]
  BY EmittedFacts
<1>2. NodeOf(counts, q) # NoNode
  BY <1>1, PlacedFacts
<1>3. counts[g] \in Options(g) /\ Feasible(g) \subseteq Node
  BY SolutionFacts
<1>4. /\ NodeOf(counts, p) \in Feasible(g) /\ On(counts, g, NodeOf(counts, p)) > 0
      /\ NodeOf(counts, q) \in Feasible(g) /\ On(counts, g, NodeOf(counts, q)) > 0
      /\ NodeOf(counts, p) \in Node
  BY <1>1, <1>2, PlacedFacts
<1>5. ASSUME pods.colocate[p] PROVE NodeOf(counts, q) = NodeOf(counts, p)
  <2> DEFINE used == {n \in Feasible(g) : counts[g][n] > 0}
  <2>1. Cardinality(used) <= 1
    BY <1>1, <1>3, <1>5 DEF Options
  <2>2. IsFiniteSet(used)
    <3>1. IsFiniteSet(Node) /\ used \in SUBSET Node
      BY <1>3, ClusterFacts
    <3> QED BY <3>1, FS_Subset
  <2>3. NodeOf(counts, p) \in used /\ NodeOf(counts, q) \in used
    BY <1>4, OnFacts
  <2> HIDE DEF used
  <2> QED BY <2>1, <2>2, <2>3, AtMostOne
<1>6. ASSUME SpreadsItself(g), p # q, NodeOf(counts, q) = NodeOf(counts, p) PROVE FALSE
  <2> DEFINE n == NodeOf(counts, p)
             S == {m \in g : NodeOf(counts, m) = n}
  <2>1. n \in Node /\ n \in Feasible(g)
    BY <1>4
  <2>2. counts[g][n] <= 1
    BY <1>3, <1>6, <2>1 DEF Options
  <2>3. On(counts, g, n) = counts[g][n] /\ On(counts, g, n) \in Nat
    BY <1>4, OnFacts
  <2>4. Cardinality(S) <= On(counts, g, n)
    BY <2>1, MembersOnNode
  <2>5. IsFiniteSet(S) /\ Cardinality(S) \in Nat
    <3>1. S \in SUBSET g
      OBVIOUS
    <3> HIDE DEF S
    <3> QED BY <3>1, EmittedFacts, FS_Subset, FS_CardinalityType
  <2>6. p \in S /\ q \in S
    BY <1>6
  <2> HIDE DEF S, n
  <2>7. Cardinality(S) <= 1
    BY <2>2, <2>3, <2>4, <2>5
  <2>8. p = q
    BY <2>5, <2>6, <2>7, AtMostOne
  <2> QED BY <1>6, <2>8
<1> QED BY <1>5, <1>6

\* A gang with two members has more than one.
LEMMA TwoMembers ==
    ASSUME cluster \in Clusters, NEW g \in Emitted, NEW p \in g, NEW q \in g, p # q
    PROVE  Cardinality(g) > 1
<1>1. IsFiniteSet(g) /\ Cardinality(g) \in Nat
  BY EmittedFacts
<1>2. ~ (Cardinality(g) <= 1)
  BY <1>1, AtMostOne
<1> QED BY <1>1, <1>2

\* Two waiting pods that are put on one node do not repel each other.
LEMMA WaitingAreApart ==
    ASSUME cluster \in Clusters, NEW counts \in Solutions,
           NEW p \in pods.pending, NEW q \in pods.pending, p # q,
           NodeOf(counts, p) # NoNode, NodeOf(counts, q) = NodeOf(counts, p),
           Alike(p), Alike(q)
    PROVE  ~ Apart2(p, q)
<1> DEFINE g == Gang(p)
           h == Gang(q)
           n == NodeOf(counts, p)
<1>1. /\ g \in Emitted /\ p \in g /\ h \in Emitted /\ q \in h
      /\ n \in Node /\ On(counts, g, n) > 0 /\ On(counts, h, n) > 0
  BY PlacedFacts
<1>2. pods.repels[p] = pods.repels[First(g)] /\ pods.repels[q] = pods.repels[First(h)]
      /\ p \in Pod /\ q \in Pod
  BY <1>1, EmittedFacts, ClusterFacts
<1>3. /\ q \in pods.repels[p] => h \subseteq pods.repels[First(g)]
      /\ p \in pods.repels[q] => g \subseteq pods.repels[First(h)]
  BY <1>1, <1>2 DEF Alike
<1>4. CASE g = h
  <2>1. Cardinality(g) > 1
    BY <1>1, <1>4, TwoMembers
  <2>2. ~ SpreadsItself(g)
    BY <1>1, <1>4, ShapesAreKept
  <2> QED BY <1>3, <1>4, <2>1, <2>2 DEF SpreadsItself, Matches, Apart2
<1>5. CASE g # h
  <2>1. ~ (On(counts, g, n) = 0) /\ ~ (On(counts, h, n) = 0)
    BY <1>1, UpToFacts
  <2>2. ~ Apart(g, h)
    BY <1>1, <1>5, <2>1 DEF Solutions
  <2> QED BY <1>3, <2>2 DEF Apart, Matches, Apart2
<1> QED BY <1>4, <1>5

\* A waiting pod that is put on a node and a pod that runs there do not repel each other.
LEMMA RunningAreApart ==
    ASSUME cluster \in Clusters, NEW counts \in Solutions, NEW p \in pods.pending,
           NodeOf(counts, p) # NoNode, Alike(p)
    PROVE  \A q \in RunningOn(NodeOf(counts, p)) : ~ Apart2(p, q)
<1> DEFINE g == Gang(p)
           n == NodeOf(counts, p)
<1>1. g \in Emitted /\ p \in g /\ n \in Feasible(g)
  BY PlacedFacts
<1>2. pods.repels[p] = pods.repels[First(g)]
  BY <1>1, EmittedFacts
<1>3. ClearOfPods(g, n)
  BY <1>1 DEF Feasible
<1>4. RunningOn(n) \subseteq Pod
  BY RunningFacts
<1> QED BY <1>1, <1>2, <1>3, <1>4 DEF ClearOfPods, Matches, Alike, Apart2

\* The zone of the node of a placed pod has no running pod it repels, and none that
\* repels a pod of its own.
LEMMA ZonesAreClear ==
    ASSUME cluster \in Clusters, NEW counts \in Solutions, NEW p \in pods.pending,
           NodeOf(counts, p) # NoNode, NEW q \in Running,
           SameZone(NodeOf(counts, p), pods.at[q])
    PROVE  /\ q \notin pods.zoneRepels[p]
           /\ Gang(p) = {p} => p \notin pods.zoneRepels[q]
<1> DEFINE g == Gang(p)
           n == NodeOf(counts, p)
<1>1. g \in Emitted /\ p \in g /\ n \in Feasible(g)
  BY PlacedFacts
<1>2. pods.zoneRepels[p] = pods.zoneRepels[First(g)]
  BY <1>1, EmittedFacts
<1>3. ClearOfZones(g, n)
  BY <1>1 DEF Feasible
<1>4. pods.at[q] \in Node /\ q \in RunningOn(pods.at[q])
  BY RunningFacts DEF RunningOn
<1> QED BY <1>1, <1>2, <1>3, <1>4 DEF ClearOfZones, Matches

\* The node of a placed pod suits it and its GPUs have the memory.
LEMMA NodesSuit ==
    ASSUME cluster \in Clusters, NEW counts \in Solutions, NEW p \in pods.pending,
           NodeOf(counts, p) # NoNode
    PROVE  LET n == NodeOf(counts, p)
           IN  n \in pods.suits[p] /\ (nodes.vram[n] # Unknown => pods.peak[p] <= nodes.vram[n])
<1> DEFINE g == Gang(p)
           n == NodeOf(counts, p)
<1>1. g \in Emitted /\ p \in g /\ n \in Feasible(g) /\ n \in Node
  BY PlacedFacts
<1>2. pods.suits[p] = pods.suits[First(g)]
  BY <1>1, EmittedFacts
<1>3. n \in pods.suits[First(g)] /\ VramFits(g, n)
  BY <1>1 DEF Feasible
<1>4. Peak(g) \in Nat /\ pods.peak[p] <= Peak(g) /\ nodes.vram[n] \in Nat /\ pods.peak[p] \in Nat
  BY <1>1, PeakFacts, ClusterFacts
<1>5. nodes.vram[n] # Unknown => pods.peak[p] <= nodes.vram[n]
  BY <1>3, <1>4 DEF VramFits, Unknown
<1> QED BY <1>2, <1>3, <1>5

-----------------------------------------------------------------------------
\* What is said of the cluster stays true while the cluster stays what it is.
LEMMA ClusterKept ==
    ASSUME cluster' = cluster
    PROVE  /\ nodes' = nodes /\ pods' = pods /\ policy' = policy
           /\ Running' = Running
           /\ \A n : RunningOn(n)' = RunningOn(n)
           /\ \A S : Gpus(S)' = Gpus(S)
           /\ \A p : Gang(p)' = Gang(p)
           /\ Gangs' = Gangs
           /\ \A n : Residual(n)' = Residual(n)
           /\ \A n, m : SameZone(n, m)' = SameZone(n, m)
           /\ \A s : OfNamespace(s)' = OfNamespace(s)
<1>1. nodes' = nodes /\ pods' = pods /\ policy' = policy
  BY DEF nodes, pods, policy
<1>2. Running' = Running
  BY <1>1 DEF Running
<1>3. \A n : RunningOn(n)' = RunningOn(n)
  BY <1>1, <1>2 DEF RunningOn
<1>4. \A S : Gpus(S)' = Gpus(S)
  BY <1>1 DEF Gpus
<1>5. \A p : Gang(p)' = Gang(p)
  BY <1>1 DEF Gang
<1>6. Gangs' = Gangs
  BY <1>1, <1>5 DEF Gangs
<1>7. \A n : Residual(n)' = Residual(n)
  BY <1>1, <1>3, <1>4 DEF Residual
<1>8. \A n, m : SameZone(n, m)' = SameZone(n, m)
  BY <1>1 DEF SameZone
<1>9. \A s : OfNamespace(s)' = OfNamespace(s)
  BY <1>1, <1>2 DEF OfNamespace
<1> QED BY <1>1, <1>2, <1>3, <1>4, <1>5, <1>6, <1>7, <1>8, <1>9

-----------------------------------------------------------------------------
(* DecisionsAreAdmissible of decisions d. *)
WithNode(d) == {p \in pods.pending : d[p] # NoNode}

HeldWith(d, n) == RunningOn(n) \cup {p \in pods.pending \ Running : d[p] = n}

NodeIsRight(d, p) ==
    /\ d[p] \in pods.suits[p]
    /\ nodes.vram[d[p]] # Unknown => pods.peak[p] <= nodes.vram[d[p]]
    /\ \A q \in HeldWith(d, d[p]) \ {p} :
          Alike(p) /\ (q \in Running \/ Alike(q)) => ~ Apart2(p, q)
    /\ \A q \in Running : SameZone(d[p], pods.at[q]) =>
          /\ q \notin pods.zoneRepels[p]
          /\ Gang(p) = {p} => p \notin pods.zoneRepels[q]
    /\ \A q \in Gang(p) : d[q] # NoNode /\ (pods.colocate[p] => d[q] = d[p])

Admissible(d) ==
    /\ \A p \in WithNode(d) : NodeIsRight(d, p)
    /\ \A n \in Node : Gpus(HeldWith(d, n)) <= Max({nodes.cap[n], Gpus(RunningOn(n))})
    /\ \A s \in Namespace : nodes.quota[s] # Unlimited =>
          Gpus({p \in Running \cup WithNode(d) : pods.namespace[p] = s})
             <= Max({nodes.quota[s], Gpus(OfNamespace(s))})

\* It is what the invariant says.
LEMMA AdmissibleIs ==
    /\ DecisionsAreAdmissible <=> Admissible(placed)
    /\ cluster' = cluster => (DecisionsAreAdmissible' <=> Admissible(placed'))
<1>1. DecisionsAreAdmissible <=> Admissible(placed)
  BY DEF DecisionsAreAdmissible, Admissible, NodeIsRight, WithNode, HeldWith, Holds, Placed
<1>2. ASSUME cluster' = cluster PROVE DecisionsAreAdmissible' <=> Admissible(placed')
  <2>1. Placed' = WithNode(placed')
    BY <1>2, ClusterKept DEF Placed, WithNode
  <2>2. \A n : Holds(n)' = HeldWith(placed', n)
    BY <1>2, ClusterKept DEF Holds, HeldWith
  <2>3. \A p : Alike(p)' <=> Alike(p)
    BY <1>2, ClusterKept DEF Alike
  <2>4. \A p, q : Apart2(p, q)' <=> Apart2(p, q)
    BY <1>2, ClusterKept DEF Apart2
  <2> QED
    BY <1>2, <2>1, <2>2, <2>3, <2>4, ClusterKept DEF DecisionsAreAdmissible, Admissible, NodeIsRight
<1> QED BY <1>1, <1>2

\* Leaving all pods where they are is admissible.
LEMMA NothingIsAdmissible ==
    ASSUME cluster \in Clusters
    PROVE  Admissible([p \in Pod |-> NoNode])
<1> DEFINE none == [p \in Pod |-> NoNode]
<1>1. WithNode(none) = {}
  BY ClusterFacts DEF WithNode
<1>2. ASSUME NEW n \in Node
      PROVE  Gpus(HeldWith(none, n)) <= Max({nodes.cap[n], Gpus(RunningOn(n))})
  <2>1. HeldWith(none, n) = RunningOn(n)
    BY ClusterFacts DEF HeldWith
  <2>2. Gpus(HeldWith(none, n)) = Gpus(RunningOn(n))
    BY <2>1, Zenon
  <2>3. Gpus(RunningOn(n)) \in Nat /\ nodes.cap[n] \in Nat
    BY ResidualFacts
  <2> HIDE DEF none
  <2>4. \A a, b \in Nat : a <= Max({b, a})
    BY MaxFacts
  <2> QED BY <2>2, <2>3, <2>4
<1>3. ASSUME NEW s \in Namespace
      PROVE  Gpus({p \in Running \cup WithNode(none) : pods.namespace[p] = s})
                <= Max({nodes.quota[s], Gpus(OfNamespace(s))})
  <2>1. {p \in Running \cup WithNode(none) : pods.namespace[p] = s} = OfNamespace(s)
    BY <1>1 DEF OfNamespace
  <2>2. Gpus({p \in Running \cup WithNode(none) : pods.namespace[p] = s}) = Gpus(OfNamespace(s))
    BY <2>1, Zenon
  <2>3. OfNamespace(s) \in SUBSET Pod
    BY RunningFacts DEF OfNamespace
  <2>4. Gpus(OfNamespace(s)) \in Int /\ nodes.quota[s] \in Int
    BY <2>3, GpusFacts, ClusterFacts
  <2> HIDE DEF none
  <2> QED BY <2>2, <2>4, MaxFacts
<1> HIDE DEF none
<1>4. Admissible(none)
  BY <1>1, <1>2, <1>3 DEF Admissible
<1> QED BY <1>4 DEF none

\* What the solver answers is admissible.
LEMMA SolutionsAreAdmissible ==
    ASSUME cluster \in Clusters, NEW counts \in Solutions
    PROVE  Admissible(Decisions(counts))
<1> DEFINE d == Decisions(counts)
<1>1. \A p \in pods.pending : p \in Pod /\ d[p] = NodeOf(counts, p)
  BY ClusterFacts DEF Decisions
<1>2. ASSUME NEW p \in WithNode(d) PROVE NodeIsRight(d, p)
  <2>1. p \in pods.pending /\ d[p] = NodeOf(counts, p) /\ NodeOf(counts, p) # NoNode
    BY <1>1, <1>2 DEF WithNode
  <2>2. /\ d[p] \in pods.suits[p]
        /\ nodes.vram[d[p]] # Unknown => pods.peak[p] <= nodes.vram[d[p]]
    BY <2>1, NodesSuit
  <2>3. ASSUME NEW q \in HeldWith(d, d[p]) \ {p}, Alike(p), q \in Running \/ Alike(q)
        PROVE  ~ Apart2(p, q)
    <3>1. CASE q \in RunningOn(d[p])
      BY <2>1, <2>3, <3>1, RunningAreApart
    <3>2. CASE q \in pods.pending \ Running /\ d[q] = d[p]
      <4>1. NodeOf(counts, q) = NodeOf(counts, p) /\ Alike(q)
        BY <1>1, <2>1, <2>3, <3>2
      <4> QED BY <2>1, <2>3, <3>2, <4>1, WaitingAreApart
    <3> QED BY <2>3, <3>1, <3>2 DEF HeldWith
  <2>4. ASSUME NEW q \in Running, SameZone(d[p], pods.at[q])
        PROVE  q \notin pods.zoneRepels[p] /\ (Gang(p) = {p} => p \notin pods.zoneRepels[q])
    <3>1. SameZone(NodeOf(counts, p), pods.at[q])
      BY <2>1, <2>4
    <3> QED BY <2>1, <3>1, ZonesAreClear
  <2>5. ASSUME NEW q \in Gang(p)
        PROVE  d[q] # NoNode /\ (pods.colocate[p] => d[q] = d[p])
    <3>1. Gang(p) \in Emitted /\ p \in Gang(p) /\ NodeOf(counts, q) # NoNode
      BY <2>1, PlacedFacts
    <3>2. q \in pods.pending
      BY <2>1, GangFacts
    <3>3. pods.colocate[p] => NodeOf(counts, q) = NodeOf(counts, p)
      BY <2>1, <3>1, ShapesAreKept
    <3> QED BY <1>1, <2>1, <3>1, <3>2, <3>3
  <2> HIDE DEF d
  <2> QED BY <2>2, <2>3, <2>4, <2>5 DEF NodeIsRight
<1>3. ASSUME NEW n \in Node
      PROVE  Gpus(HeldWith(d, n)) <= Max({nodes.cap[n], Gpus(RunningOn(n))})
  <2> DEFINE new  == {p \in pods.pending \ Running : d[p] = n}
             more == {p \in pods.pending : NodeOf(counts, p) = n}
  <2>1. new \subseteq more /\ more \in SUBSET Pod /\ new \in SUBSET Pod
    BY <1>1
  <2>2. Gpus(new) <= Gpus(more) /\ Gpus(new) \in Nat /\ Gpus(more) \in Nat
    <3> HIDE DEF new, more
    <3> QED BY <2>1, GpusFacts
  <2>3. Gpus(more) <= Residual(n)
    BY NodesAreNotOverfilled
  <2>4. HeldWith(d, n) = RunningOn(n) \cup new
    BY DEF HeldWith
  <2>5. RunningOn(n) \in SUBSET Pod
    BY RunningFacts
  <2> HIDE DEF new, more, d
  <2>6. Gpus(RunningOn(n) \cup new) <= Gpus(RunningOn(n)) + Gpus(new)
        /\ Gpus(RunningOn(n) \cup new) \in Nat
    <3>1. RunningOn(n) \cup new \in SUBSET Pod
      BY <2>1, <2>5
    <3> QED BY <2>1, <2>5, <3>1, GpusFacts
  <2>7. Gpus(HeldWith(d, n)) = Gpus(RunningOn(n) \cup new)
    BY <2>4, Zenon
  <2>8. Gpus(RunningOn(n)) + Residual(n) = Max({nodes.cap[n], Gpus(RunningOn(n))})
        /\ Residual(n) \in Nat /\ Gpus(RunningOn(n)) \in Nat
    BY ResidualFacts
  <2> QED BY <2>2, <2>3, <2>6, <2>7, <2>8
<1>4. ASSUME NEW s \in Namespace, nodes.quota[s] # Unlimited
      PROVE  Gpus({p \in Running \cup WithNode(d) : pods.namespace[p] = s})
                <= Max({nodes.quota[s], Gpus(OfNamespace(s))})
  <2> DEFINE all == {p \in Running \cup WithNode(d) : pods.namespace[p] = s}
             new == {p \in pods.pending : NodeOf(counts, p) # NoNode /\ pods.namespace[p] = s}
  <2>1. new \in SUBSET Pod /\ OfNamespace(s) \in SUBSET Pod
    BY <1>1, RunningFacts DEF OfNamespace
  <2>2. all = OfNamespace(s) \cup new
    BY <1>1 DEF WithNode, OfNamespace
  <2>3. Gpus(new) <= QuotaLimit(s)
    BY <1>4, NamespacesAreNotOverfilled
  <2> HIDE DEF all, new, d
  <2>4. /\ Gpus(OfNamespace(s) \cup new) <= Gpus(OfNamespace(s)) + Gpus(new)
        /\ Gpus(OfNamespace(s)) \in Nat /\ Gpus(new) \in Nat
        /\ Gpus(OfNamespace(s) \cup new) \in Nat
    <3>1. OfNamespace(s) \cup new \in SUBSET Pod
      BY <2>1
    <3> QED BY <2>1, <3>1, GpusFacts
  <2>5. Gpus(all) = Gpus(OfNamespace(s) \cup new)
    BY <2>2, Zenon
  <2>6. nodes.quota[s] \in Int
    BY ClusterFacts
  <2>7. QuotaLimit(s) = IF 0 >= nodes.quota[s] - Gpus(OfNamespace(s)) THEN 0
                        ELSE nodes.quota[s] - Gpus(OfNamespace(s))
    BY <2>4, <2>6, MaxFacts DEF QuotaLimit
  <2>8. Max({nodes.quota[s], Gpus(OfNamespace(s))})
           = IF nodes.quota[s] >= Gpus(OfNamespace(s)) THEN nodes.quota[s] ELSE Gpus(OfNamespace(s))
    BY <2>4, <2>6, MaxFacts
  <2>9. Gpus(all) <= Max({nodes.quota[s], Gpus(OfNamespace(s))})
    BY <2>3, <2>4, <2>5, <2>6, <2>7, <2>8
  <2> QED BY <2>9 DEF all
<1> HIDE DEF d
<1>5. Admissible(d)
  BY <1>2, <1>3, <1>4 DEF Admissible
<1> QED BY <1>5 DEF d

-----------------------------------------------------------------------------
\* Nothing changes the cluster of a round.
LEMMA ClusterStays == [Next]_vars => cluster' = cluster
BY DEF Next, vars, Solve, SolveFails, Advise, LookForRoom, Finish

\* DecisionsAreAdmissible: the decisions of a round can be carried out as Kubernetes
\* judges them, pod by pod, whatever the solver answered within its constraints and
\* whatever gangs, pairs, residuals and replica counts they were made of.
THEOREM AdmissibleDecisions == Spec => []DecisionsAreAdmissible
<1> DEFINE Inv == cluster \in Clusters /\ DecisionsAreAdmissible
<1>1. Init => Inv
  BY NothingIsAdmissible, AdmissibleIs DEF Init
<1>2. Inv /\ [Next]_vars => Inv'
  <2> SUFFICES ASSUME Inv, [Next]_vars PROVE Inv'
    OBVIOUS
  <2>1. cluster' = cluster
    BY ClusterStays
  <2>2. CASE Solve
    <3>1. PICK counts \in Solutions : placed' = Decisions(counts)
      BY <2>2 DEF Solve
    <3>2. Admissible(placed')
      BY <3>1, SolutionsAreAdmissible
    <3> QED BY <2>1, <3>2, AdmissibleIs
  <2>3. CASE placed' = placed
    <3>1. Admissible(placed')
      BY <2>3, AdmissibleIs
    <3> QED BY <2>1, <3>1, AdmissibleIs
  <2> QED BY <2>2, <2>3 DEF Next, vars, SolveFails, Advise, LookForRoom, Finish
<1>3. Inv => DecisionsAreAdmissible
  OBVIOUS
<1> HIDE DEF Inv
<1> QED BY <1>1, <1>2, <1>3, PTL DEF Spec

-----------------------------------------------------------------------------
(* The search for room.  A set of actions is sound on node n if it can be     *)
(* carried out and frees what it says, and a frame of the search if its       *)
(* actions are sound and its free GPUs and budgets are what they leave.       *)
MovedBy(moves) == {moves[k].pod : k \in DOMAIN moves}

MovedTo(moves, n) == {moves[k].pod : k \in {k \in DOMAIN moves : moves[k].to = n}}

Disturbed(moves, s) == {p \in MovedBy(moves) \cap policy.covers[s] : pods.namespace[p] = s}

Action == [pod : Pod, to : Node \cup {NoNode}]

Frames ==
    [left : SUBSET Pod, moves : Seq(Action), freed : Nat, cost : Nat,
     free : [Node -> Int], budget : [Namespace -> Int]]

CanBeTaken(n, moves, freed) ==
    /\ moves \in Seq(Action)
    /\ MovedBy(moves) \subseteq RunningOn(n)
    /\ freed = Gpus(MovedBy(moves))
    /\ \A k \in DOMAIN moves : moves[k].to # NoNode =>
          /\ moves[k].to # n
          /\ pods.suits[moves[k].pod] = {} \/ moves[k].to \in pods.suits[moves[k].pod]
    /\ \A m \in Node \ {n} : Gpus(MovedTo(moves, m)) <= Residual(m)
    /\ \A s \in Namespace : Cardinality(Disturbed(moves, s)) <= policy.allowed[s]

IsSound(n, f) ==
    /\ f \in Frames
    /\ CanBeTaken(n, f.moves, f.freed)
    /\ f.left \subseteq RunningOn(n) /\ f.left \cap MovedBy(f.moves) = {}
    /\ \A m \in Node \ {n} : f.free[m] = Residual(m) - Gpus(MovedTo(f.moves, m))
    /\ \A s \in Namespace :
          f.budget[s] = policy.allowed[s] - Cardinality(Disturbed(f.moves, s))

SearchIsSound(g, n, rest, calls, cheapest, plan) ==
    /\ g \in SUBSET Pod
    /\ rest \subseteq Hosts(g)
    /\ n # NoNode => n \in Hosts(g)
    /\ n = NoNode => calls = <<>> /\ cheapest = NoActions
    /\ calls \in Seq(Frames) /\ \A k \in DOMAIN calls : IsSound(n, calls[k])
    /\ cheapest # NoActions =>
          /\ CanBeTaken(n, cheapest.moves, cheapest.freed) /\ cheapest.cost \in Nat
          /\ cheapest.freed >= Deficit(g, n)
    /\ plan # NoPlan =>
          /\ plan.node \in Node
          /\ CanBeTaken(plan.node, plan.moves, plan.freed) /\ plan.cost \in Nat
          /\ plan.freed >= Deficit(g, plan.node)

PlanInv ==
    /\ cluster \in Clusters
    /\ SearchIsSound(target, node, todo, stack, best, advice)
    /\ stage \in {"solve", "decided"} => node = NoNode /\ advice = NoPlan

\* What is asked of a search stays true while the cluster stays what it is.
LEMMA SearchKept ==
    ASSUME cluster' = cluster
    PROVE  /\ \A g, n : Deficit(g, n)' = Deficit(g, n)
           /\ \A g, n : Window(g, n)' = Window(g, n)
           /\ \A g : Hosts(g)' = Hosts(g)
           /\ \A n, f : IsSound(n, f)' <=> IsSound(n, f)
           /\ \A n, moves, freed : CanBeTaken(n, moves, freed)' <=> CanBeTaken(n, moves, freed)
<1>1. nodes' = nodes /\ pods' = pods /\ policy' = policy
  BY ClusterKept
<1>2. \A n : RunningOn(n)' = RunningOn(n)
  BY ClusterKept
<1>3. \A S : Gpus(S)' = Gpus(S)
  BY ClusterKept
<1>4. \A n : Residual(n)' = Residual(n)
  BY ClusterKept
<1>5. \A g, n : Deficit(g, n)' = Deficit(g, n)
  BY <1>3, <1>4 DEF Deficit, Request
<1>6. \A p, q : Before(p, q)' <=> Before(p, q)
  BY <1>1 DEF Before
<1>7. \A g, p : Candidate(g, p)' <=> Candidate(g, p)
  BY <1>1 DEF Candidate, Outranks, Prevails, MayDisrupt, Covered, Priority, Value, Earlier,
              LatestStart
<1>8. \A g, n : Window(g, n)' = Window(g, n)
  BY <1>2, <1>6, <1>7 DEF Window
<1>9. \A g : Hosts(g)' = Hosts(g)
  BY <1>1 DEF Hosts, Advisable, Request, Known, Allows, VramBlamed, Emitted, Gangs, Gang, Malformed,
              Feasible, Fits, Linked, VramFits, ClearOfPods, ClearOfZones, NearPeers,
              SpreadAllows, Residual, Gpus, SpreadsItself, Peak, SameZone, Running, RunningOn
<1>10. \A n, moves, freed : CanBeTaken(n, moves, freed)' <=> CanBeTaken(n, moves, freed)
  BY <1>1, <1>2, <1>3, <1>4 DEF CanBeTaken, Disturbed
<1>11. \A n, f : IsSound(n, f)' <=> IsSound(n, f)
  BY <1>1, <1>2, <1>3, <1>4, <1>10 DEF IsSound, Disturbed
<1> QED BY <1>5, <1>8, <1>9, <1>10, <1>11

-----------------------------------------------------------------------------
\* Where a pod goes and what its actions cost.
LEMMA IncludeFacts ==
    ASSUME cluster \in Clusters, NEW p \in Pod, NEW f \in Frames, NEW x \in Include(p, f)
    PROVE  \E to \in Node \cup {NoNode}, c \in Nat :
              /\ x = Take(p, to, c, f)
              /\ Covered(p) => f.budget[pods.namespace[p]] > 0
              /\ to # NoNode => /\ to # pods.at[p] /\ f.free[to] >= pods.gpus[p]
                                /\ pods.suits[p] = {} \/ to \in pods.suits[p]
<1>1. policy.cost[p] \in Nat /\ policy.cost[p] + Penalty \in Nat
  BY ClusterFacts, RepairAssumption
<1>2. Covered(p) => f.budget[pods.namespace[p]] > 0
  <2>1. f.budget[pods.namespace[p]] \in Int
    BY ClusterFacts DEF Frames
  <2>2. ~ (Covered(p) /\ f.budget[pods.namespace[p]] <= 0)
    BY DEF Include
  <2> QED BY <2>1, <2>2
<1>3. CASE \E n \in Refuge(p, f) : x = Take(p, n, policy.cost[p], f)
  <2>1. PICK n \in Refuge(p, f) : x = Take(p, n, policy.cost[p], f)
    BY <1>3
  <2>2. /\ n \in Node /\ n # pods.at[p] /\ f.free[n] >= pods.gpus[p]
        /\ pods.suits[p] = {} \/ n \in pods.suits[p]
    BY <2>1 DEF Refuge, Refuges
  <2> QED BY <1>1, <1>2, <2>1, <2>2
<1>4. CASE x = Take(p, NoNode, policy.cost[p] + Penalty, f)
  BY <1>1, <1>2, <1>4
<1>5. \/ \E n \in Refuge(p, f) : x = Take(p, n, policy.cost[p], f)
      \/ x = Take(p, NoNode, policy.cost[p] + Penalty, f)
  BY DEF Include
<1> QED BY <1>3, <1>4, <1>5

\* There is one way at most to take a pod.
LEMMA IncludeOne ==
    ASSUME cluster \in Clusters, NEW p, NEW f, NEW x \in Include(p, f)
    PROVE  Include(p, f) = {x}
<1>1. \A n, m \in Refuge(p, f) : n = m
  <2>1. \A n, m \in Refuge(p, f) : n \in Nat /\ m \in Nat /\ n <= m /\ m <= n
    BY ClusterFacts DEF Refuge, Refuges
  <2> QED BY <2>1
<1>2. \A y \in Include(p, f) : y = x
  BY <1>1 DEF Include
<1> QED BY <1>2

\* What taking a pod changes in a frame.
IsTaken(p, to, c, f, x) ==
    /\ x \in Frames /\ x.left = f.left \ {p}
    /\ x.freed = f.freed + pods.gpus[p] /\ x.cost = f.cost + c
    /\ Len(x.moves) = Len(f.moves) + 1
    /\ MovedBy(x.moves) = MovedBy(f.moves) \cup {p}
    /\ \A n \in Node : MovedTo(x.moves, n) =
          IF n = to THEN MovedTo(f.moves, n) \cup {p} ELSE MovedTo(f.moves, n)
    /\ \A k \in DOMAIN x.moves : \/ k \in DOMAIN f.moves /\ x.moves[k] = f.moves[k]
                                 \/ x.moves[k] = [pod |-> p, to |-> to]

\* Take appends the action and counts the pod where the others are counted.
LEMMA TakeFacts ==
    ASSUME cluster \in Clusters, NEW p \in Pod, NEW to \in Node \cup {NoNode}, NEW c \in Nat,
           NEW f \in Frames, NEW x, x = Take(p, to, c, f)
    PROVE  IsTaken(p, to, c, f, x)
<1> DEFINE a == [pod |-> p, to |-> to]
<1>1. f.moves \in Seq(Action) /\ a \in Action /\ Len(f.moves) \in Nat
  BY DEF Frames, Action
<1>2. /\ x.moves = Append(f.moves, a) /\ x.left = f.left \ {p}
      /\ x.freed = f.freed + pods.gpus[p] /\ x.cost = f.cost + c
      /\ x.free = Taken(f.free, p, to) /\ x.budget = Spend(f.budget, p)
  BY DEF Take
<1>3. /\ x.moves \in Seq(Action) /\ Len(x.moves) = Len(f.moves) + 1
      /\ DOMAIN x.moves = 1..Len(f.moves) + 1 /\ DOMAIN f.moves = 1..Len(f.moves)
      /\ \A k \in 1..Len(f.moves) : x.moves[k] = f.moves[k]
      /\ x.moves[Len(f.moves) + 1] = a
  BY <1>1, <1>2
<1>4. x \in Frames
  <2>1. pods.gpus[p] \in Nat /\ pods.namespace[p] \in Namespace
    BY ClusterFacts
  <2>2. f.free \in [Node -> Int] /\ f.budget \in [Namespace -> Int]
        /\ f.freed \in Nat /\ f.cost \in Nat /\ f.left \in SUBSET Pod
    BY DEF Frames
  <2>3. Taken(f.free, p, to) \in [Node -> Int]
    BY <2>1, <2>2 DEF Taken
  <2>4. Spend(f.budget, p) \in [Namespace -> Int]
    BY <2>1, <2>2 DEF Spend
  <2> HIDE DEF a
  <2>5. f.freed + pods.gpus[p] \in Nat /\ f.cost + c \in Nat /\ f.left \ {p} \in SUBSET Pod
    BY <2>1, <2>2
  <2>6. Append(f.moves, a) \in Seq(Action)
    BY <1>1
  <2> QED BY <2>3, <2>4, <2>5, <2>6 DEF Take, Frames, a
<1>5. \A k \in DOMAIN x.moves : \/ k \in DOMAIN f.moves /\ x.moves[k] = f.moves[k]
                                \/ x.moves[k] = a /\ k = Len(f.moves) + 1
  <2>1. \A k \in 1..Len(f.moves) + 1 : k \in 1..Len(f.moves) \/ k = Len(f.moves) + 1
    BY <1>1
  <2> QED BY <1>3, <2>1
<1>6. \A k \in DOMAIN f.moves : k \in DOMAIN x.moves /\ x.moves[k] = f.moves[k]
  BY <1>1, <1>3
<1>7. Len(f.moves) + 1 \in DOMAIN x.moves /\ x.moves[Len(f.moves) + 1] = a /\ a.pod = p /\ a.to = to
  BY <1>1, <1>3
<1> HIDE DEF a
<1>8. MovedBy(x.moves) = MovedBy(f.moves) \cup {p}
  BY <1>5, <1>6, <1>7 DEF MovedBy
<1>9. ASSUME NEW n \in Node
      PROVE MovedTo(x.moves, n) = IF n = to THEN MovedTo(f.moves, n) \cup {p} ELSE MovedTo(f.moves, n)
  BY <1>5, <1>6, <1>7 DEF MovedTo
<1>10. \A k \in DOMAIN x.moves : \/ k \in DOMAIN f.moves /\ x.moves[k] = f.moves[k]
                                 \/ x.moves[k] = [pod |-> p, to |-> to]
  BY <1>5 DEF a
<1>11. Len(x.moves) = Len(f.moves) + 1
  BY <1>3
<1>12. /\ x \in Frames /\ x.left = f.left \ {p}
       /\ x.freed = f.freed + pods.gpus[p] /\ x.cost = f.cost + c
  BY <1>2, <1>4
<1> QED BY <1>8, <1>9, <1>10, <1>11, <1>12 DEF IsTaken

\* Taking a pod that is left, as Include does, keeps a frame sound.
LEMMA IncludeIsSound ==
    ASSUME cluster \in Clusters, NEW n \in Node, NEW f, IsSound(n, f),
           NEW p \in f.left, NEW x \in Include(p, f)
    PROVE  IsSound(n, x)
<1>1. f \in Frames /\ CanBeTaken(n, f.moves, f.freed)
      /\ f.left \subseteq RunningOn(n) /\ f.left \cap MovedBy(f.moves) = {}
  BY DEF IsSound
<1>2. p \in Pod /\ p \in RunningOn(n) /\ pods.at[p] = n /\ p \notin MovedBy(f.moves)
      /\ RunningOn(n) \in SUBSET Pod
  BY <1>1, RunningFacts
<1>3. PICK to \in Node \cup {NoNode}, c \in Nat :
              /\ x = Take(p, to, c, f)
              /\ Covered(p) => f.budget[pods.namespace[p]] > 0
              /\ to # NoNode => /\ to # pods.at[p] /\ f.free[to] >= pods.gpus[p]
                                /\ pods.suits[p] = {} \/ to \in pods.suits[p]
  BY <1>1, <1>2, IncludeFacts
<1>4. /\ x \in Frames /\ x.left = f.left \ {p}
      /\ x.freed = f.freed + pods.gpus[p]
      /\ MovedBy(x.moves) = MovedBy(f.moves) \cup {p}
      /\ \A m \in Node : MovedTo(x.moves, m) =
            IF m = to THEN MovedTo(f.moves, m) \cup {p} ELSE MovedTo(f.moves, m)
      /\ \A k \in DOMAIN x.moves : \/ k \in DOMAIN f.moves /\ x.moves[k] = f.moves[k]
                                   \/ x.moves[k] = [pod |-> p, to |-> to]
  <2>1. IsTaken(p, to, c, f, x)
    BY <1>1, <1>2, <1>3, TakeFacts
  <2> QED BY <2>1 DEF IsTaken
<1>5. x.free = Taken(f.free, p, to) /\ x.budget = Spend(f.budget, p)
  BY <1>3 DEF Take
<1>6. Gpus({p}) = pods.gpus[p] /\ pods.gpus[p] \in Nat
  <2>1. pods.gpus[p] \in Nat /\ \A q \in {p} : pods.gpus[q] = pods.gpus[p]
    BY <1>2, ClusterFacts
  <2>2. IsFiniteSet({p}) /\ Cardinality({p}) = 1
    BY FS_Singleton
  <2>3. SumFunctionOnSet(pods.gpus, {p}) = Cardinality({p}) * pods.gpus[p]
    BY <2>1, <2>2, SumConstant
  <2> QED BY <2>1, <2>2, <2>3 DEF Gpus
<1>7. x.freed = Gpus(MovedBy(x.moves))
  <2>1. MovedBy(f.moves) \in SUBSET Pod /\ {p} \in SUBSET Pod /\ MovedBy(f.moves) \cap {p} = {}
    BY <1>1, <1>2 DEF CanBeTaken
  <2>2. Gpus(MovedBy(f.moves) \cup {p}) = Gpus(MovedBy(f.moves)) + Gpus({p})
    BY <2>1, GpusFacts
  <2>3. f.freed = Gpus(MovedBy(f.moves))
    BY <1>1 DEF CanBeTaken
  <2>4. Gpus(MovedBy(x.moves)) = Gpus(MovedBy(f.moves) \cup {p})
    BY <1>4, Zenon
  <2> QED BY <1>4, <1>6, <2>2, <2>3, <2>4
<1>8. ASSUME NEW k \in DOMAIN x.moves, x.moves[k].to # NoNode
      PROVE  /\ x.moves[k].to # n
             /\ pods.suits[x.moves[k].pod] = {} \/ x.moves[k].to \in pods.suits[x.moves[k].pod]
  <2>1. CASE k \in DOMAIN f.moves /\ x.moves[k] = f.moves[k]
    BY <1>1, <1>8, <2>1 DEF CanBeTaken
  <2>2. CASE x.moves[k] = [pod |-> p, to |-> to]
    BY <1>2, <1>3, <1>8, <2>2
  <2> QED BY <1>4, <2>1, <2>2
<1>9. ASSUME NEW m \in Node \ {n}
      PROVE  /\ Gpus(MovedTo(x.moves, m)) <= Residual(m)
             /\ x.free[m] = Residual(m) - Gpus(MovedTo(x.moves, m))
  <2>1. f.free[m] = Residual(m) - Gpus(MovedTo(f.moves, m))
        /\ Gpus(MovedTo(f.moves, m)) <= Residual(m)
    BY <1>1 DEF IsSound, CanBeTaken
  <2>2. Residual(m) \in Nat
    BY ResidualFacts
  <2>3. MovedTo(f.moves, m) \subseteq MovedBy(f.moves)
    BY DEF MovedTo, MovedBy
  <2>4. MovedTo(f.moves, m) \in SUBSET Pod /\ {p} \in SUBSET Pod /\ MovedTo(f.moves, m) \cap {p} = {}
    BY <1>1, <1>2, <2>3 DEF CanBeTaken
  <2>5. Gpus(MovedTo(f.moves, m)) \in Nat
    BY <2>4, GpusFacts
  <2>6. f.free \in [Node -> Int] /\ NoNode \notin Node
    BY <1>1, ClusterFacts DEF Frames
  <2>7. CASE m = to
    <3>1. Gpus(MovedTo(x.moves, m)) = Gpus(MovedTo(f.moves, m) \cup {p})
      BY <1>4, <2>7
    <3>2. Gpus(MovedTo(f.moves, m) \cup {p}) = Gpus(MovedTo(f.moves, m)) + Gpus({p})
      BY <2>4, GpusFacts
    <3>3. x.free[m] = f.free[m] - pods.gpus[p] /\ f.free[m] >= pods.gpus[p]
      BY <1>3, <1>5, <2>6, <2>7 DEF Taken
    <3> QED BY <1>6, <2>1, <2>2, <2>5, <3>1, <3>2, <3>3
  <2>8. CASE m # to
    <3>1. x.free[m] = f.free[m]
      BY <1>5, <2>6, <2>8 DEF Taken
    <3>2. MovedTo(x.moves, m) = MovedTo(f.moves, m)
      BY <1>4, <2>8
    <3> QED BY <2>1, <3>1, <3>2
  <2> QED BY <2>7, <2>8
<1>10. ASSUME NEW s \in Namespace
       PROVE  /\ Cardinality(Disturbed(x.moves, s)) <= policy.allowed[s]
              /\ x.budget[s] = policy.allowed[s] - Cardinality(Disturbed(x.moves, s))
  <2> DEFINE D == Disturbed(f.moves, s)
  <2>1. Cardinality(D) <= policy.allowed[s] /\ f.budget[s] = policy.allowed[s] - Cardinality(D)
    BY <1>1 DEF IsSound, CanBeTaken
  <2>2. IsFiniteSet(D) /\ Cardinality(D) \in Nat /\ p \notin D
    <3>1. D \in SUBSET Pod /\ p \notin D
      BY <1>1, <1>2 DEF Disturbed, CanBeTaken
    <3> HIDE DEF D
    <3> QED BY <3>1, ClusterFacts, FS_Subset, FS_CardinalityType
  <2>3. policy.allowed[s] \in Nat /\ f.budget \in [Namespace -> Int]
        /\ pods.namespace[p] \in Namespace
    BY <1>1, <1>2, ClusterFacts DEF Frames
  <2>4. Disturbed(x.moves, s) = IF Covered(p) /\ pods.namespace[p] = s THEN D \cup {p} ELSE D
    BY <1>4 DEF Disturbed, Covered
  <2> HIDE DEF D
  <2>5. CASE Covered(p) /\ pods.namespace[p] = s
    <3>1. Cardinality(D \cup {p}) = Cardinality(D) + 1
      BY <2>2, FS_AddElement
    <3>2. x.budget[s] = f.budget[s] - 1 /\ f.budget[s] > 0
      BY <1>3, <1>5, <2>3, <2>5 DEF Spend
    <3>3. Disturbed(x.moves, s) = D \cup {p}
      BY <2>4, <2>5
    <3>4. Cardinality(Disturbed(x.moves, s)) = Cardinality(D) + 1
      BY <3>1, <3>3, Zenon
    <3> QED BY <2>1, <2>2, <2>3, <3>2, <3>4
  <2>6. CASE ~ (Covered(p) /\ pods.namespace[p] = s)
    <3>1. Disturbed(x.moves, s) = D
      BY <2>4, <2>6
    <3>2. x.budget[s] = f.budget[s]
      BY <1>5, <2>3, <2>6 DEF Spend
    <3> QED BY <2>1, <3>1, <3>2
  <2> QED BY <2>5, <2>6
<1>11. MovedBy(x.moves) \subseteq RunningOn(n)
  BY <1>1, <1>2, <1>4 DEF CanBeTaken
<1>12. x.left \subseteq RunningOn(n) /\ x.left \cap MovedBy(x.moves) = {}
  BY <1>1, <1>4
<1>13. x.moves \in Seq(Action)
  BY <1>4 DEF Frames
<1>14. CanBeTaken(n, x.moves, x.freed)
  BY <1>7, <1>8, <1>9, <1>10, <1>11, <1>13 DEF CanBeTaken
<1> QED BY <1>4, <1>9, <1>10, <1>12, <1>14 DEF IsSound

-----------------------------------------------------------------------------
\* What is below the next call.
LEMMA PopFacts ==
    ASSUME NEW S, NEW s \in Seq(S), s # <<>>, NEW r, r = SubSeq(s, 1, Len(s) - 1)
    PROVE  /\ r \in Seq(S) /\ Len(s) \in DOMAIN s /\ s[Len(s)] \in S
           /\ \A k \in DOMAIN r : k \in DOMAIN s /\ r[k] = s[k]
           /\ \A k \in DOMAIN s : k = Len(s) \/ k \in DOMAIN r
<1>1. Len(s) \in Nat \ {0} /\ DOMAIN s = 1..Len(s) /\ \A k \in 1..Len(s) : s[k] \in S
  BY EmptySeq, LenProperties
<1>2. \A k \in 1..Len(s) - 1 : s[k] \in S /\ k \in 1..Len(s)
  BY <1>1
<1>3. /\ r \in Seq(S) /\ Len(r) = Len(s) - 1
      /\ \A k \in 1..Len(s) - 1 : r[k] = s[k]
  BY <1>1, <1>2
<1>4. DOMAIN r = 1..Len(s) - 1
  BY <1>3
<1> QED BY <1>1, <1>2, <1>3, <1>4

\* What is pushed comes after what was there.
LEMMA PushFacts ==
    ASSUME NEW S, NEW r \in Seq(S), NEW x \in S, NEW s, s = r \o <<x>>
    PROVE  /\ s \in Seq(S)
           /\ \A k \in DOMAIN r : k \in DOMAIN s /\ s[k] = r[k]
           /\ \A k \in DOMAIN s : (k \in DOMAIN r /\ s[k] = r[k]) \/ s[k] = x
           /\ \E k \in DOMAIN s : s[k] = x
<1>1. Len(r) \in Nat /\ DOMAIN r = 1..Len(r)
  BY LenProperties
<1>2. /\ s \in Seq(S) /\ Len(s) = Len(r) + 1
      /\ \A k \in 1..Len(r) : s[k] = r[k]
      /\ s[Len(r) + 1] = x
  BY <1>1
<1>3. DOMAIN s = 1..Len(r) + 1
  BY <1>2
<1> QED BY <1>1, <1>2, <1>3

\* A set of one as a sequence.
LEMMA SequenceOfOne ==
    SetToSeq({}) = <<>> /\ \A x : SetToSeq({x}) = <<x>>
<1>1. SetToSeq({}) = <<>>
  <2>1. Cardinality({}) = 0 /\ 1..0 = {}
    BY FS_EmptySet
  <2>2. <<>> \in [1..0 -> {}] /\ IsInjective(<<>>)
    BY <2>1 DEF IsInjective
  <2>3. SetToSeq({}) \in [1..Cardinality({}) -> {}]
    BY <2>1, <2>2 DEF SetToSeq
  <2> QED BY <2>1, <2>3
<1>2. ASSUME NEW x PROVE SetToSeq({x}) = <<x>>
  <2>1. Cardinality({x}) = 1 /\ 1..1 = {1}
    BY FS_Singleton
  <2>2. <<x>> \in [1..1 -> {x}] /\ IsInjective(<<x>>)
    BY <2>1 DEF IsInjective
  <2>3. SetToSeq({x}) \in [1..Cardinality({x}) -> {x}]
    BY <2>1, <2>2 DEF SetToSeq
  <2>4. SetToSeq({x}) \in [{1} -> {x}] /\ <<x>> \in [{1} -> {x}]
    BY <2>1, <2>2, <2>3, Zenon
  <2> QED BY <2>4
<1> QED BY <1>1, <1>2

-----------------------------------------------------------------------------
\* Candidates run on the node.
LEMMA WindowFacts ==
    ASSUME cluster \in Clusters
    PROVE  \A g, n : Window(g, n) \subseteq RunningOn(n) /\ Window(g, n) \subseteq Pod
BY RunningFacts DEF Window

\* Before orders the pods.
LEMMA BeforeFacts ==
    ASSUME cluster \in Clusters
    PROVE  /\ \A p, q \in Pod : p = q \/ Before(p, q) \/ Before(q, p)
           /\ \A p, q \in Pod : ~ (Before(p, q) /\ Before(q, p))
           /\ \A p, q, r \in Pod : Before(p, q) /\ Before(q, r) => Before(p, r)
<1>1. \A p \in Pod : p \in Nat /\ policy.cost[p] \in Nat
  BY ClusterFacts
<1> QED BY <1>1 DEF Before

\* Some pods have a first and a last one.
LEMMA FirstAndLast ==
    ASSUME cluster \in Clusters, NEW S \in SUBSET Pod, S # {}
    PROVE  /\ \E p \in S : \A q \in S \ {p} : Before(p, q)
           /\ \E p \in S : \A q \in S \ {p} : Before(q, p)
<1> DEFINE costs == {policy.cost[p] : p \in S}
           at(c) == {p \in S : policy.cost[p] = c}
<1>1. \A p \in S : p \in Nat /\ policy.cost[p] \in Nat
  BY ClusterFacts
<1>2. IsFiniteSet(S)
  BY ClusterFacts, FS_Subset
<1>3. costs \subseteq Nat /\ costs \subseteq Int /\ costs # {} /\ IsFiniteSet(costs)
  BY <1>1, <1>2, FiniteImage
<1>4. \A c : at(c) \subseteq Nat /\ at(c) \subseteq Int /\ IsFiniteSet(at(c))
  <2>1. \A c : at(c) \in SUBSET S
    OBVIOUS
  <2> HIDE DEF at
  <2> QED BY <1>1, <1>2, <2>1, FS_Subset
<1>5. \A c \in costs : at(c) # {}
  OBVIOUS
<1>6. \E p \in S : \A q \in S \ {p} : Before(p, q)
  <2>1. PICK c \in costs : \A d \in costs : c <= d
    <3> HIDE DEF costs
    <3> QED BY <1>3, MinimalNumber
  <2>2. PICK p \in at(c) : \A q \in at(c) : p <= q
    <3> HIDE DEF at, costs
    <3> QED BY <1>4, <1>5, MinimalNumber
  <2>3. \A q \in S : policy.cost[q] \in costs /\ (policy.cost[q] = c => q \in at(c))
    OBVIOUS
  <2>4. p \in S /\ policy.cost[p] = c
    OBVIOUS
  <2> HIDE DEF at, costs
  <2>5. ASSUME NEW q \in S \ {p} PROVE Before(p, q)
    <3>1. c <= policy.cost[q] /\ (policy.cost[q] = c => p <= q)
      BY <2>1, <2>2, <2>3
    <3> QED BY <1>1, <2>4, <3>1 DEF Before
  <2> QED BY <2>4, <2>5
<1>7. \E p \in S : \A q \in S \ {p} : Before(q, p)
  <2>1. PICK c \in costs : \A d \in costs : d <= c
    <3> HIDE DEF costs
    <3> QED BY <1>3, LargestNumber
  <2>2. PICK p \in at(c) : \A q \in at(c) : q <= p
    <3> HIDE DEF at, costs
    <3> QED BY <1>4, <1>5, LargestNumber
  <2>3. \A q \in S : policy.cost[q] \in costs /\ (policy.cost[q] = c => q \in at(c))
    OBVIOUS
  <2>4. p \in S /\ policy.cost[p] = c
    OBVIOUS
  <2> HIDE DEF at, costs
  <2>5. ASSUME NEW q \in S \ {p} PROVE Before(q, p)
    <3>1. policy.cost[q] <= c /\ (policy.cost[q] = c => q <= p)
      BY <2>1, <2>2, <2>3
    <3> QED BY <1>1, <2>4, <3>1 DEF Before
  <2> QED BY <2>4, <2>5
<1> QED BY <1>6, <1>7

\* The call the search of a node begins with is sound.
LEMMA StartIsSound ==
    ASSUME cluster \in Clusters, NEW n \in Node, NEW C \in SUBSET RunningOn(n)
    PROVE  IsSound(n, Start(C))
<1> DEFINE f == Start(C)
<1>1. /\ f.left = C /\ f.moves = <<>> /\ f.freed = 0 /\ f.cost = 0
      /\ f.free = [m \in Node |-> Residual(m)] /\ f.budget = policy.allowed
  BY DEF Start
<1>2. /\ RunningOn(n) \in SUBSET Pod /\ \A m \in Node : Residual(m) \in Nat
      /\ policy.allowed \in [Namespace -> Nat]
  BY RunningFacts, ResidualFacts, ClusterFacts
<1>3. f \in Frames
  <2>1. [m \in Node |-> Residual(m)] \in [Node -> Int]
    BY <1>2
  <2>2. policy.allowed \in [Namespace -> Int]
    BY <1>2
  <2>3. C \in SUBSET Pod /\ <<>> \in Seq(Action)
    BY <1>2
  <2> QED BY <2>1, <2>2, <2>3 DEF Start, Frames
<1> HIDE DEF f
<1>4. MovedBy(f.moves) = {} /\ \A m : MovedTo(f.moves, m) = {}
  BY <1>1 DEF MovedBy, MovedTo
<1>5. \A s : Disturbed(f.moves, s) = {}
  BY <1>4 DEF Disturbed
<1>6. Gpus({}) = 0 /\ Cardinality({}) = 0
  BY SumEmpty, FS_EmptySet DEF Gpus
<1>7. Gpus(MovedBy(f.moves)) = 0
  BY <1>4, <1>6, Zenon
<1>8. \A m : Gpus(MovedTo(f.moves, m)) = 0
  BY <1>4, <1>6, Zenon
<1>9. \A s : Cardinality(Disturbed(f.moves, s)) = 0
  BY <1>5, <1>6, Zenon
<1>10. CanBeTaken(n, f.moves, f.freed)
  <2>1. f.moves \in Seq(Action) /\ DOMAIN f.moves = {}
    BY <1>1
  <2> QED BY <1>1, <1>2, <1>4, <1>7, <1>8, <1>9, <2>1 DEF CanBeTaken
<1>11. \A s \in Namespace : policy.allowed[s] - 0 = policy.allowed[s]
  BY <1>2
<1>12. \A m \in Node : Residual(m) - 0 = Residual(m)
  BY <1>2
<1>13. IsSound(n, f)
  BY <1>1, <1>3, <1>4, <1>8, <1>9, <1>10, <1>11, <1>12 DEF IsSound
<1> QED BY <1>13 DEF f

\* So is the call that leaves a pod out.
LEMMA ExcludeIsSound ==
    ASSUME NEW n, NEW f, IsSound(n, f), NEW p
    PROVE  IsSound(n, Exclude(p, f))
<1>1. f \in Frames
  BY DEF IsSound
<1>2. /\ Exclude(p, f) \in Frames /\ Exclude(p, f).left = f.left \ {p}
      /\ Exclude(p, f).moves = f.moves /\ Exclude(p, f).freed = f.freed
      /\ Exclude(p, f).cost = f.cost
      /\ Exclude(p, f).free = f.free /\ Exclude(p, f).budget = f.budget
  BY <1>1 DEF Exclude, Frames
<1> QED BY <1>2 DEF IsSound

-----------------------------------------------------------------------------
\* A host lacks GPUs, in whole numbers.
LEMMA HostFacts ==
    ASSUME cluster \in Clusters, NEW g \in SUBSET Pod
    PROVE  /\ Hosts(g) \subseteq Node
           /\ \A n \in Node : Deficit(g, n) \in Int
           /\ \A n \in Hosts(g) : Deficit(g, n) > 0
<1>1. Request(g) \in Nat
  BY GpusFacts DEF Request
<1>2. \A n \in Node : Residual(n) \in Nat
  BY ResidualFacts
<1>3. Hosts(g) \subseteq Node /\ \A n \in Hosts(g) : Residual(n) < Request(g)
  BY DEF Hosts
<1> QED BY <1>1, <1>2, <1>3 DEF Deficit

\* The call that is made next is sound.
LEMMA TopFacts ==
    ASSUME cluster \in Clusters, SearchIsSound(target, node, todo, stack, best, advice),
           stack # <<>>
    PROVE  /\ node \in Hosts(target) /\ node \in Node /\ target \in SUBSET Pod
           /\ Deficit(target, node) \in Int /\ Deficit(target, node) > 0
           /\ IsSound(node, Top) /\ Top \in Frames
           /\ CanBeTaken(node, Top.moves, Top.freed) /\ Top.cost \in Nat /\ Top.freed \in Nat
           /\ Below \in Seq(Frames)
           /\ \A k \in DOMAIN Below : IsSound(node, Below[k])
<1>1. /\ target \in SUBSET Pod /\ node \in Hosts(target)
      /\ stack \in Seq(Frames) /\ \A k \in DOMAIN stack : IsSound(node, stack[k])
  BY DEF SearchIsSound
<1>2. node \in Node /\ Deficit(target, node) \in Int /\ Deficit(target, node) > 0
  BY <1>1, HostFacts
<1>3. /\ Len(stack) \in DOMAIN stack
      /\ Below \in Seq(Frames)
      /\ \A k \in DOMAIN Below : k \in DOMAIN stack /\ Below[k] = stack[k]
  BY <1>1, PopFacts DEF Below
<1>4. IsSound(node, Top)
  BY <1>1, <1>3 DEF Top
<1>5. CanBeTaken(node, Top.moves, Top.freed) /\ Top \in Frames
  BY <1>4 DEF IsSound
<1> QED BY <1>1, <1>2, <1>3, <1>4, <1>5 DEF Frames

\* A step of the search keeps it sound.
LEMMA OpenNodeIsSound ==
    ASSUME PlanInv, OpenNode
    PROVE  SearchIsSound(target', node', todo', stack', best', advice')
<1>1. cluster \in Clusters /\ SearchIsSound(target, node, todo, stack, best, advice)
  BY DEF PlanInv
<1>2. /\ target' = target /\ advice' = advice /\ best' = NoActions
      /\ node' = Min(todo) /\ todo' = todo \ {node'} /\ todo # {}
      /\ stack' = <<Start(Window(target, node'))>>
  BY DEF OpenNode
<1>3. target \in SUBSET Pod /\ todo \subseteq Hosts(target) /\ Hosts(target) \subseteq Node
  BY <1>1, HostFacts DEF SearchIsSound
<1>4. node' \in todo /\ node' \in Node /\ node' # NoNode
  <2>1. todo \subseteq Nat
    BY <1>1, <1>3, ClusterFacts
  <2>2. Min(todo) \in todo
    BY <1>2, <2>1, MinFacts
  <2> QED BY <1>1, <1>2, <1>3, <2>2, ClusterFacts
<1>5. IsSound(node', Start(Window(target, node')))
  <2> DEFINE C == Window(target, node')
  <2>1. C \in SUBSET RunningOn(node')
    BY <1>1, WindowFacts
  <2> HIDE DEF C
  <2>2. \A n \in Node : C \in SUBSET RunningOn(n) => IsSound(n, Start(C))
    BY <1>1, StartIsSound
  <2>3. IsSound(node', Start(C))
    BY <1>4, <2>1, <2>2
  <2> QED BY <2>3 DEF C
<1>6. stack' \in Seq(Frames) /\ \A k \in DOMAIN stack' : IsSound(node', stack'[k])
  <2> DEFINE x == Start(Window(target, node'))
  <2>1. x \in Frames /\ stack' = <<x>>
    BY <1>2, <1>5 DEF IsSound
  <2> HIDE DEF x
  <2>2. DOMAIN <<x>> = {1} /\ <<x>>[1] = x /\ <<x>> \in Seq(Frames)
    BY <2>1
  <2>3. \A k \in DOMAIN stack' : stack'[k] = x
    BY <2>1, <2>2
  <2> QED BY <1>5, <2>1, <2>2, <2>3 DEF x
<1> QED BY <1>1, <1>2, <1>3, <1>4, <1>6 DEF SearchIsSound

\* Accept takes actions that free enough, or leaves what was best.
LEMMA AcceptIsSound ==
    ASSUME PlanInv, Accept
    PROVE  SearchIsSound(target', node', todo', stack', best', advice')
<1>1. cluster \in Clusters /\ SearchIsSound(target, node, todo, stack, best, advice)
  BY DEF PlanInv
<1>2. /\ target' = target /\ advice' = advice /\ node' = node /\ todo' = todo
      /\ stack # <<>> /\ Enough /\ stack' = Below
      /\ \/ best' = [moves |-> Top.moves, freed |-> Top.freed, cost |-> Top.cost]
         \/ best' = best
  BY DEF Accept
<1>3. /\ node \in Hosts(target) /\ node \in Node
      /\ CanBeTaken(node, Top.moves, Top.freed) /\ Top.cost \in Nat
      /\ Below \in Seq(Frames) /\ \A k \in DOMAIN Below : IsSound(node, Below[k])
  BY <1>1, <1>2, TopFacts
<1>4. best' # NoActions =>
          /\ CanBeTaken(node, best'.moves, best'.freed) /\ best'.cost \in Nat
          /\ best'.freed >= Deficit(target, node)
  <2>1. CASE best' = [moves |-> Top.moves, freed |-> Top.freed, cost |-> Top.cost]
    BY <1>2, <1>3, <2>1 DEF Enough
  <2>2. CASE best' = best
    BY <1>1, <2>2 DEF SearchIsSound
  <2> QED BY <1>2, <2>1, <2>2
<1>5. node # NoNode
  BY <1>1, <1>3, ClusterFacts
<1> QED BY <1>1, <1>2, <1>3, <1>4, <1>5 DEF SearchIsSound

\* GiveUp only drops a call.
LEMMA GiveUpIsSound ==
    ASSUME PlanInv, GiveUp
    PROVE  SearchIsSound(target', node', todo', stack', best', advice')
<1>1. cluster \in Clusters /\ SearchIsSound(target, node, todo, stack, best, advice)
  BY DEF PlanInv
<1>2. /\ target' = target /\ advice' = advice /\ node' = node /\ todo' = todo
      /\ stack # <<>> /\ stack' = Below /\ best' = best
  BY DEF GiveUp
<1>3. /\ node \in Node
      /\ Below \in Seq(Frames) /\ \A k \in DOMAIN Below : IsSound(node, Below[k])
  BY <1>1, <1>2, TopFacts
<1>4. node # NoNode
  BY <1>1, <1>3, ClusterFacts
<1> QED BY <1>1, <1>2, <1>3, <1>4 DEF SearchIsSound

\* While more may do, candidates are left, and Branch takes the first of them.
LEMMA BranchFacts ==
    ASSUME PlanInv, Branch
    PROVE  \E p \in Top.left :
              /\ \A q \in Top.left \ {p} : Before(p, q)
              /\ \/ Include(p, Top) = {} /\ stack' = Below \o <<Exclude(p, Top)>>
                 \/ \E x \in Include(p, Top) :
                       stack' = (Below \o <<Exclude(p, Top)>>) \o <<x>>
<1>1. cluster \in Clusters /\ SearchIsSound(target, node, todo, stack, best, advice)
  BY DEF PlanInv
<1> DEFINE p == CHOOSE p \in Top.left : \A q \in Top.left \ {p} : Before(p, q)
<1>2. /\ stack # <<>> /\ ~ Enough /\ ~ Hopeless
      /\ stack' = Below \o <<Exclude(p, Top)>> \o SetToSeq(Include(p, Top))
  BY DEF Branch
<1>3. /\ Deficit(target, node) \in Int /\ Top.freed \in Nat
      /\ Top \in Frames /\ Below \in Seq(Frames)
  BY <1>1, <1>2, TopFacts
<1>4. Top.left \in SUBSET Pod
  BY <1>3 DEF Frames
<1>5. Top.left # {}
  <2>1. Gpus({}) = 0
    BY SumEmpty DEF Gpus
  <2>2. ~ (Top.freed >= Deficit(target, node))
        /\ ~ (Top.freed + Gpus(Top.left) < Deficit(target, node))
    BY <1>2 DEF Enough, Hopeless
  <2>3. Top.left = {} => Gpus(Top.left) = 0
    BY <2>1, Zenon
  <2> QED BY <1>3, <2>2, <2>3
<1>6. p \in Top.left /\ \A q \in Top.left \ {p} : Before(p, q)
  BY <1>1, <1>4, <1>5, FirstAndLast
<1> HIDE DEF p
<1>7. CASE Include(p, Top) = {}
  <2>1. SetToSeq(Include(p, Top)) = <<>>
    BY <1>7, SequenceOfOne, Zenon
  <2>2. Exclude(p, Top) \in Frames
    BY <1>3 DEF Exclude, Frames
  <2>3. Below \o <<Exclude(p, Top)>> \in Seq(Frames)
    BY <1>3, <2>2
  <2>4. stack' = Below \o <<Exclude(p, Top)>>
    BY <1>2, <2>1, <2>3
  <2> QED BY <1>6, <1>7, <2>4
<1>8. CASE Include(p, Top) # {}
  <2>1. PICK x : x \in Include(p, Top)
    BY <1>8
  <2>2. Include(p, Top) = {x}
    BY <1>1, <2>1, IncludeOne
  <2>3. SetToSeq(Include(p, Top)) = <<x>>
    BY <2>2, SequenceOfOne, Zenon
  <2>4. stack' = (Below \o <<Exclude(p, Top)>>) \o <<x>>
    BY <1>2, <2>3, Zenon
  <2> QED BY <1>6, <2>1, <2>4
<1> QED BY <1>7, <1>8

\* Branch takes a candidate that is left or leaves it out.
LEMMA BranchIsSound ==
    ASSUME PlanInv, Branch
    PROVE  SearchIsSound(target', node', todo', stack', best', advice')
<1>1. cluster \in Clusters /\ SearchIsSound(target, node, todo, stack, best, advice)
  BY DEF PlanInv
<1>2. /\ target' = target /\ advice' = advice /\ node' = node /\ todo' = todo
      /\ stack # <<>> /\ best' = best
  BY DEF Branch
<1>3. /\ node \in Node /\ IsSound(node, Top)
      /\ Below \in Seq(Frames) /\ \A k \in DOMAIN Below : IsSound(node, Below[k])
  BY <1>1, <1>2, TopFacts
<1>4. node # NoNode
  BY <1>1, <1>3, ClusterFacts
<1>5. PICK p \in Top.left :
              \/ Include(p, Top) = {} /\ stack' = Below \o <<Exclude(p, Top)>>
              \/ \E x \in Include(p, Top) : stack' = (Below \o <<Exclude(p, Top)>>) \o <<x>>
  BY BranchFacts
<1> DEFINE y == Exclude(p, Top)
           r == Below \o <<y>>
<1>6. IsSound(node, y) /\ y \in Frames
  <2>1. IsSound(node, y)
    BY <1>3, ExcludeIsSound
  <2> QED BY <2>1 DEF IsSound
<1>7. r \in Seq(Frames) /\ \A k \in DOMAIN r : IsSound(node, r[k])
  <2> HIDE DEF y
  <2>1. r \in Seq(Frames) /\ \A k \in DOMAIN r : (k \in DOMAIN Below /\ r[k] = Below[k]) \/ r[k] = y
    BY <1>3, <1>6, PushFacts
  <2> QED BY <1>3, <1>6, <2>1
<1>8. stack' \in Seq(Frames) /\ \A k \in DOMAIN stack' : IsSound(node, stack'[k])
  <2>1. CASE stack' = r
    BY <1>7, <2>1
  <2>2. CASE \E x \in Include(p, Top) : stack' = r \o <<x>>
    <3>1. PICK x \in Include(p, Top) : stack' = r \o <<x>>
      BY <2>2
    <3>2. IsSound(node, x) /\ x \in Frames
      <4>1. IsSound(node, x)
        BY <1>1, <1>3, IncludeIsSound
      <4> QED BY <4>1 DEF IsSound
    <3> HIDE DEF r
    <3> DEFINE s == r \o <<x>>
    <3>3. s \in Seq(Frames) /\ \A k \in DOMAIN s : (k \in DOMAIN r /\ s[k] = r[k]) \/ s[k] = x
      BY <1>7, <3>2, PushFacts
    <3>4. \A k \in DOMAIN s : IsSound(node, s[k])
      BY <1>7, <3>2, <3>3
    <3> QED BY <3>1, <3>3, <3>4
  <2> QED BY <1>5, <2>1, <2>2
<1> QED BY <1>1, <1>2, <1>4, <1>8 DEF SearchIsSound

\* CloseNode makes a plan of the best actions of the node.
LEMMA CloseNodeIsSound ==
    ASSUME PlanInv, CloseNode
    PROVE  SearchIsSound(target', node', todo', stack', best', advice')
<1>1. cluster \in Clusters /\ SearchIsSound(target, node, todo, stack, best, advice)
  BY DEF PlanInv
<1> DEFINE plan == [node |-> node, moves |-> best.moves, freed |-> best.freed, cost |-> best.cost]
<1>2. /\ target' = target /\ node' = NoNode /\ todo' = todo
      /\ stack' = <<>> /\ best' = NoActions /\ node # NoNode
      /\ advice' = advice \/ (advice' = plan /\ best # NoActions)
  BY DEF CloseNode
<1>3. target \in SUBSET Pod /\ node \in Hosts(target) /\ node \in Node
  BY <1>1, <1>2, HostFacts DEF SearchIsSound
<1>4. advice' # NoPlan =>
          /\ advice'.node \in Node
          /\ CanBeTaken(advice'.node, advice'.moves, advice'.freed) /\ advice'.cost \in Nat
          /\ advice'.freed >= Deficit(target, advice'.node)
  <2>1. CASE advice' = advice
    BY <1>1, <2>1 DEF SearchIsSound
  <2>2. CASE advice' = plan /\ best # NoActions
    <3>1. /\ advice'.node = node /\ advice'.moves = best.moves
          /\ advice'.freed = best.freed /\ advice'.cost = best.cost
      BY <2>2
    <3>2. /\ CanBeTaken(node, best.moves, best.freed) /\ best.cost \in Nat
          /\ best.freed >= Deficit(target, node)
      BY <1>1, <2>2 DEF SearchIsSound
    <3> QED BY <1>3, <3>1, <3>2
  <2> QED BY <1>2, <2>1, <2>2
<1>5. stack' \in Seq(Frames) /\ DOMAIN stack' = {}
  BY <1>2
<1> QED BY <1>1, <1>2, <1>3, <1>4, <1>5 DEF SearchIsSound

\* The search begins with the hosts of a gang that found no place.
LEMMA AdviseIsSound ==
    ASSUME PlanInv, Advise
    PROVE  SearchIsSound(target', node', todo', stack', best', advice')
<1>1. cluster \in Clusters /\ SearchIsSound(target, node, todo, stack, best, advice)
      /\ stage = "decided" /\ node = NoNode /\ advice = NoPlan
  BY DEF PlanInv, Advise
<1>2. PICK g \in Gangs : Begin(g)
  BY DEF Advise
<1>3. /\ target' = g /\ todo' = Hosts(g) /\ node' = node /\ stack' = stack
      /\ best' = best /\ advice' = advice
  BY <1>2 DEF Begin
<1>4. g \in SUBSET Pod
  <2>1. PICK p \in pods.pending : g = Gang(p)
    BY DEF Gangs
  <2> QED BY <1>1, <2>1, GangFacts, ClusterFacts
<1>5. stack = <<>> /\ best = NoActions /\ stack \in Seq(Frames) /\ DOMAIN stack = {}
  BY <1>1 DEF SearchIsSound
<1> QED BY <1>1, <1>3, <1>4, <1>5 DEF SearchIsSound

\* All frames, the best actions and the advice are sound in every state.
LEMMA PlansAreSound == Spec => []PlanInv
<1>1. Init => PlanInv
  <2> SUFFICES ASSUME Init PROVE PlanInv
    OBVIOUS
  <2>1. /\ cluster \in Clusters /\ target = {} /\ todo = {} /\ node = NoNode /\ stack = <<>>
        /\ best = NoActions /\ advice = NoPlan
    BY DEF Init
  <2>2. <<>> \in Seq(Frames) /\ DOMAIN <<>> = {}
    OBVIOUS
  <2> QED BY <2>1, <2>2 DEF PlanInv, SearchIsSound
<1>2. PlanInv /\ [Next]_vars => PlanInv'
  <2> SUFFICES ASSUME PlanInv, [Next]_vars PROVE PlanInv'
    OBVIOUS
  <2>1. cluster' = cluster
    BY ClusterStays
  <2>2. SearchIsSound(target', node', todo', stack', best', advice')
    <3>1. CASE search' = search
      BY <3>1 DEF PlanInv, search
    <3>2. CASE Advise
      BY <3>2, AdviseIsSound
    <3>3. CASE LookForRoom
      BY <3>3, OpenNodeIsSound, AcceptIsSound, GiveUpIsSound, BranchIsSound, CloseNodeIsSound
      DEF LookForRoom, Search
    <3> QED BY <3>1, <3>2, <3>3 DEF Next, vars, Solve, SolveFails, Finish
  <2>3. SearchIsSound(target, node, todo, stack, best, advice)'
            <=> SearchIsSound(target', node', todo', stack', best', advice')
    BY <2>1, SearchKept DEF SearchIsSound
  <2>4. stage' \in {"solve", "decided"} => node' = NoNode /\ advice' = NoPlan
    <3>1. CASE Solve \/ SolveFails
      BY <3>1 DEF PlanInv, Solve, SolveFails, search
    <3>2. CASE Advise \/ LookForRoom \/ Finish
      BY <3>2 DEF PlanInv, Advise, LookForRoom, Finish
    <3>3. CASE UNCHANGED vars
      BY <3>3 DEF PlanInv, vars, search
    <3> QED BY <3>1, <3>2, <3>3 DEF Next
  <2> QED BY <2>1, <2>2, <2>3, <2>4 DEF PlanInv
<1> QED BY <1>1, <1>2, PTL DEF Spec

\* What a sound plan promises.
LEMMA SoundPlanMakesRoom ==
    ASSUME PlanInv
    PROVE  PlanMakesRoom
<1> SUFFICES ASSUME advice # NoPlan PROVE PlanMakesRoom
    BY DEF PlanMakesRoom
<1> DEFINE a == advice.node
           ms == advice.moves
<1>1. /\ cluster \in Clusters /\ a \in Node /\ target \in SUBSET Pod
      /\ CanBeTaken(a, ms, advice.freed) /\ advice.freed >= Deficit(target, a)
  BY DEF PlanInv, SearchIsSound
<1>2. Moved(advice) = MovedBy(ms)
  BY DEF Moved, MovedBy
<1>3. \A n : After(advice, n) = (RunningOn(n) \ MovedBy(ms)) \cup MovedTo(ms, n)
  BY <1>2 DEF After, MovedTo
<1>4. \A n \in Node : RunningOn(n) \in SUBSET Pod /\ MovedTo(ms, n) \subseteq MovedBy(ms)
                      /\ MovedTo(ms, n) \in SUBSET Pod
  <2>1. \A n : MovedTo(ms, n) \subseteq MovedBy(ms)
    BY DEF MovedTo, MovedBy
  <2>2. \A n : RunningOn(n) \in SUBSET Pod
    BY <1>1, RunningFacts
  <2>3. MovedBy(ms) \subseteq RunningOn(a)
    BY <1>1 DEF CanBeTaken
  <2>4. MovedBy(ms) \in SUBSET Pod
    BY <2>2, <2>3
  <2> QED BY <2>1, <2>2, <2>4
<1>5. ASSUME NEW n \in Node \ {a}
      PROVE  Gpus(After(advice, n)) <= Max({nodes.cap[n], Gpus(RunningOn(n))})
  <2> DEFINE stay == RunningOn(n) \ MovedBy(ms)
             come == MovedTo(ms, n)
  <2>1. stay \in SUBSET RunningOn(n) /\ stay \in SUBSET Pod /\ come \in SUBSET Pod
    BY <1>4
  <2>2. Gpus(come) <= Residual(n)
    BY <1>1 DEF CanBeTaken
  <2>3. Gpus(After(advice, n)) = Gpus(stay \cup come)
    BY <1>3
  <2>4. Gpus(RunningOn(n)) + Residual(n) = Max({nodes.cap[n], Gpus(RunningOn(n))})
        /\ Residual(n) \in Nat /\ Gpus(RunningOn(n)) \in Nat
    BY <1>1, ResidualFacts
  <2> HIDE DEF stay, come
  <2>5. stay \cup come \in SUBSET Pod
    BY <2>1
  <2>6. Gpus(stay \cup come) <= Gpus(stay) + Gpus(come) /\ Gpus(stay \cup come) \in Nat
        /\ Gpus(stay) \in Nat /\ Gpus(come) \in Nat
    BY <1>1, <2>1, <2>5, GpusFacts
  <2>7. Gpus(stay) <= Gpus(RunningOn(n))
    BY <1>1, <1>4, <2>1, GpusFacts
  <2> QED BY <2>2, <2>3, <2>4, <2>6, <2>7
<1>6. \A k \in DOMAIN ms : ms[k].to # NoNode =>
          ms[k].to # a /\ (pods.suits[ms[k].pod] = {} \/ ms[k].to \in pods.suits[ms[k].pod])
  BY <1>1 DEF CanBeTaken
<1>7. ASSUME NEW s \in Namespace
      PROVE  Cardinality({p \in Moved(advice) \cap policy.covers[s] : pods.namespace[p] = s})
                <= policy.allowed[s]
  BY <1>1, <1>2 DEF CanBeTaken, Disturbed
<1>8. ASSUME Gpus(RunningOn(a)) <= nodes.cap[a]
      PROVE  Gpus(After(advice, a)) + Request(target) <= nodes.cap[a]
  <2> DEFINE stay == RunningOn(a) \ MovedBy(ms)
             gone == MovedBy(ms)
  <2>1. MovedTo(ms, a) = {}
    <3>1. a # NoNode
      BY <1>1, ClusterFacts
    <3> QED BY <1>6, <3>1 DEF MovedTo
  <2>2. After(advice, a) = stay
    BY <1>3, <2>1
  <2>3. gone \subseteq RunningOn(a) /\ gone \in SUBSET Pod /\ stay \in SUBSET Pod
        /\ stay \cap gone = {} /\ stay \cup gone = RunningOn(a) /\ advice.freed = Gpus(gone)
    BY <1>1, <1>4 DEF CanBeTaken
  <2> HIDE DEF stay, gone
  <2>4. Gpus(stay \cup gone) = Gpus(stay) + Gpus(gone) /\ Gpus(stay) \in Nat /\ Gpus(gone) \in Nat
    BY <1>1, <2>3, GpusFacts
  <2>5. Gpus(RunningOn(a)) = Gpus(stay \cup gone) /\ Gpus(After(advice, a)) = Gpus(stay)
    BY <2>2, <2>3, Zenon
  <2>6. Residual(a) = nodes.cap[a] - Gpus(RunningOn(a)) /\ nodes.cap[a] \in Nat
        /\ Gpus(RunningOn(a)) \in Nat
    BY <1>1, <1>8, ResidualFacts
  <2>7. Request(target) \in Nat
    BY <1>1, GpusFacts DEF Request
  <2>8. advice.freed >= Request(target) - Residual(a)
    BY <1>1 DEF Deficit
  <2> QED BY <2>3, <2>4, <2>5, <2>6, <2>7, <2>8
<1> QED BY <1>5, <1>6, <1>7, <1>8 DEF PlanMakesRoom

\* PlanMakesRoom: the actions of every plan can be carried out on the cluster the round
\* saw, together and within the budgets, and make room for the whole gang, whatever the
\* search tried, cut and gave up before.
THEOREM PlansMakeRoom == Spec => []PlanMakesRoom
<1>1. PlanInv => PlanMakesRoom
  BY SoundPlanMakesRoom
<1> QED BY <1>1, PlansAreSound, PTL

-----------------------------------------------------------------------------
(* The outcomes of sets of candidates, as a recursion over the sets. *)
Extended(T, some) == UNION {Include(Dearest(T), f) : f \in some}

OutcomeEquation(D, after) ==
    after = [T \in D |-> IF T = {} THEN {Start({})} ELSE Extended(T, after[T \ {Dearest(T)}])]

\* The last of some pods is one of them.
LEMMA DearestFacts ==
    ASSUME cluster \in Clusters, NEW S \in SUBSET Pod, S # {}
    PROVE  /\ Dearest(S) \in S
           /\ \A q \in S \ {Dearest(S)} : Before(q, Dearest(S))
BY FirstAndLast DEF Dearest

\* There is such a recursive function over the sets of pods.
LEMMA OutcomesExist ==
    ASSUME cluster \in Clusters, NEW S \in SUBSET Pod
    PROVE  \E after : OutcomeEquation(SUBSET S, after)
<1> DEFINE D(n)  == {s \in SUBSET S : Cardinality(s) <= n}
           Bad == {n \in Nat : ~ \E after : OutcomeEquation(D(n), after)}
           base == {Start({})}
           last(s) == Dearest(s)
           more(s, some) == Extended(s, some)
<1>0. IsFiniteSet(S)
  BY ClusterFacts, FS_Subset
<1>1. \A s \in SUBSET S : IsFiniteSet(s) /\ Cardinality(s) \in Nat
                          /\ Cardinality(s) <= Cardinality(S)
  BY <1>0, FS_Subset, FS_CardinalityType
<1>l. \A s \in SUBSET S : s # {} => last(s) \in s
  BY DearestFacts
<1>e. \A E, g : OutcomeEquation(E, g) <=>
                    g = [s \in E |-> IF s = {} THEN base ELSE more(s, g[s \ {last(s)}])]
  BY DEF OutcomeEquation
<1> HIDE DEF base, more, last
<1>2. Bad = {}
  <2> SUFFICES ASSUME Bad # {} PROVE FALSE
    OBVIOUS
  <2>1. PICK n \in Bad : \A m \in Bad : n <= m
    <3> HIDE DEF Bad
    <3>1. Bad \subseteq Nat
      BY DEF Bad
    <3> QED BY <3>1, MinimalNumber
  <2>2. n # 0
    <3> SUFFICES ASSUME n = 0 PROVE FALSE
      OBVIOUS
    <3>1. D(0) = {{}}
      BY <1>1, FS_EmptySet
    <3>2. OutcomeEquation(D(0), [s \in D(0) |-> base])
      <4> DEFINE z == [s \in D(0) |-> base]
      <4>1. \A s \in D(0) : s = {} /\ z[s] = base
        BY <3>1
      <4>2. z = [s \in D(0) |-> IF s = {} THEN base ELSE more(s, z[s \ {last(s)}])]
        <5>1. [s \in D(0) |-> base]
                 = [s \in D(0) |-> IF s = {} THEN base ELSE more(s, z[s \ {last(s)}])]
          <6> HIDE DEF z, D
          <6> QED BY <4>1
        <5> QED BY <5>1
      <4> HIDE DEF z, D
      <4>3. OutcomeEquation(D(0), z)
        BY <4>2, <1>e
      <4> QED BY <4>3 DEF z
    <3> QED BY <3>2, <2>1
  <2>3. PICK g : OutcomeEquation(D(n - 1), g)
    <3> HIDE DEF D
    <3>1. n - 1 \in Nat /\ n - 1 < n
      BY <2>1, <2>2
    <3>2. n - 1 \notin Bad
      <4> HIDE DEF Bad
      <4>1. n \in Nat
        BY DEF Bad
      <4> QED BY <3>1, <2>1, <4>1
    <3> QED BY <3>1, <3>2
  <2> DEFINE h == [s \in D(n) |-> IF s = {} THEN base ELSE more(s, g[s \ {last(s)}])]
  <2>4. ASSUME NEW s \in D(n), s # {}
        PROVE  s \ {last(s)} \in D(n - 1)
    <3>1. last(s) \in s
      BY <2>4, <1>l
    <3>2. Cardinality(s \ {last(s)}) = Cardinality(s) - 1
      BY <1>1, <3>1, FS_RemoveElement
    <3> QED BY <1>1, <2>1, <3>2
  <2>5. \A s \in D(n - 1) : s \in D(n) /\ h[s] = g[s]
    <3> SUFFICES ASSUME NEW s \in D(n - 1) PROVE s \in D(n) /\ h[s] = g[s]
      OBVIOUS
    <3>1. s \in D(n)
      BY <1>1, <2>1
    <3>2. g[s] = IF s = {} THEN base ELSE more(s, g[s \ {last(s)}])
      <4> HIDE DEF D
      <4>1. g = [t \in D(n - 1) |-> IF t = {} THEN base ELSE more(t, g[t \ {last(t)}])]
        BY <2>3, <1>e, Zenon
      <4> QED BY <4>1, Zenon
    <3> QED BY <3>1, <3>2
  <2>6. OutcomeEquation(D(n), h)
    <3>1. \A s \in D(n) : s # {} => h[s \ {last(s)}] = g[s \ {last(s)}]
      BY <2>4, <2>5
    <3>2. h = [s \in D(n) |-> IF s = {} THEN base ELSE more(s, h[s \ {last(s)}])]
      <4> HIDE DEF D
      <4>2. \A s \in D(n) : h[s] = (IF s = {} THEN base ELSE more(s, g[s \ {last(s)}]))
        OBVIOUS
      <4>3. \A s \in D(n) : h[s] = (IF s = {} THEN base ELSE more(s, h[s \ {last(s)}]))
        <5> HIDE DEF h
        <5> QED BY <3>1, <4>2
      <4>4. DOMAIN h = D(n) /\ h = [s \in DOMAIN h |-> h[s]]
        OBVIOUS
      <4> HIDE DEF h
      <4> QED BY <4>3, <4>4
    <3> HIDE DEF h, D
    <3> QED BY <3>2, <1>e
  <2> QED BY <2>6, <2>1
<1>3. Cardinality(S) \in Nat
  BY <1>0, FS_CardinalityType
<1>4. D(Cardinality(S)) = SUBSET S
  BY <1>1
<1>5. \E after : OutcomeEquation(D(Cardinality(S)), after)
  BY <1>2, <1>3
<1> QED BY <1>4, <1>5

\* Outcome takes its value from one.
LEMMA OutcomeIs ==
    ASSUME cluster \in Clusters, NEW S \in SUBSET Pod
    PROVE  \E after : OutcomeEquation(SUBSET S, after) /\ Outcome(S) = after[S]
<1> DEFINE body == CHOOSE after : OutcomeEquation(SUBSET S, after)
<1>1. OutcomeEquation(SUBSET S, body)
  BY OutcomesExist
<1>2. Outcome(S) = body[S]
  BY DEF Outcome, OutcomeEquation, Extended
<1> QED BY <1>1, <1>2

\* It is the same inside a larger set.
LEMMA OutcomesAgree ==
    ASSUME cluster \in Clusters, NEW S \in SUBSET Pod, NEW T \in SUBSET S,
           NEW i, OutcomeEquation(SUBSET S, i)
    PROVE  Outcome(T) = i[T]
<1>1. T \in SUBSET Pod /\ IsFiniteSet(T)
  BY ClusterFacts, FS_Subset
<1>2. PICK j : OutcomeEquation(SUBSET T, j) /\ Outcome(T) = j[T]
  BY <1>1, OutcomeIs
<1> DEFINE Bad == {s \in SUBSET T : i[s] # j[s]}
<1>3. ASSUME Bad # {} PROVE FALSE
  <2>1. PICK s \in Bad : \A t \in SUBSET s : t # s => t \notin Bad
    <3> HIDE DEF Bad
    <3>1. Bad \subseteq SUBSET T
      BY DEF Bad
    <3> QED BY <3>1, <1>1, <1>3, MinimalSubset
  <2>2. s \in SUBSET S /\ s \in SUBSET T /\ s \in SUBSET Pod
    BY <1>1, <2>1
  <2>3. i[s] = IF s = {} THEN {Start({})} ELSE Extended(s, i[s \ {Dearest(s)}])
    BY <2>2, Zenon DEF OutcomeEquation
  <2>4. j[s] = IF s = {} THEN {Start({})} ELSE Extended(s, j[s \ {Dearest(s)}])
    BY <1>2, <2>2, Zenon DEF OutcomeEquation
  <2>5. s # {} => i[s \ {Dearest(s)}] = j[s \ {Dearest(s)}]
    <3>1. s # {} => Dearest(s) \in s
      BY <2>2, DearestFacts
    <3>2. s # {} => s \ {Dearest(s)} \in SUBSET s /\ s \ {Dearest(s)} # s
      BY <3>1
    <3> QED BY <2>1, <3>2
  <2>6. i[s] = j[s]
    BY <2>3, <2>4, <2>5
  <2> QED BY <2>1, <2>6
<1> QED BY <1>2, <1>3

\* What comes of a set is what comes of it without its last pod, and that pod.
LEMMA OutcomeFacts ==
    ASSUME cluster \in Clusters
    PROVE  /\ Outcome({}) = {Start({})}
           /\ \A S \in SUBSET Pod : S # {} =>
                 Outcome(S) = Extended(S, Outcome(S \ {Dearest(S)}))
<1>1. ASSUME NEW S \in SUBSET Pod, S # {}
      PROVE  Outcome(S) = Extended(S, Outcome(S \ {Dearest(S)}))
  <2>1. PICK i : OutcomeEquation(SUBSET S, i) /\ Outcome(S) = i[S]
    BY OutcomeIs
  <2>2. i[S] = IF S = {} THEN {Start({})} ELSE Extended(S, i[S \ {Dearest(S)}])
    BY <2>1, Zenon DEF OutcomeEquation
  <2>3. S \ {Dearest(S)} \in SUBSET S
    OBVIOUS
  <2>4. Outcome(S \ {Dearest(S)}) = i[S \ {Dearest(S)}]
    BY <2>1, <2>3, OutcomesAgree
  <2> QED BY <1>1, <2>1, <2>2, <2>4
<1>2. Outcome({}) = {Start({})}
  <2>1. {} \in SUBSET Pod
    OBVIOUS
  <2>2. PICK i : OutcomeEquation(SUBSET {}, i) /\ Outcome({}) = i[{}]
    BY <2>1, OutcomeIs
  <2>3. {} \in SUBSET {}
    OBVIOUS
  <2>4. i[{}] = {Start({})}
    BY <2>2, <2>3 DEF OutcomeEquation
  <2> QED BY <2>2, <2>4
<1> QED BY <1>1, <1>2

-----------------------------------------------------------------------------
\* f may come of e by taking pods of rest as well.
GoesOn(f, e, rest) ==
    /\ f.cost >= e.cost /\ Len(f.moves) >= Len(e.moves) /\ f.freed >= e.freed
    /\ f.freed <= e.freed + Gpus(rest)
    /\ Len(f.moves) = Len(e.moves) => f.freed = e.freed

\* Taking a pod makes a frame no cheaper and its actions one more.
LEMMA IncludeGoesOn ==
    ASSUME cluster \in Clusters, NEW p \in Pod, NEW f \in Frames, NEW x \in Include(p, f)
    PROVE  /\ x \in Frames /\ x.left = f.left \ {p}
           /\ x.cost >= f.cost /\ Len(x.moves) = Len(f.moves) + 1
           /\ x.freed = f.freed + pods.gpus[p]
<1>1. PICK to \in Node \cup {NoNode}, c \in Nat : x = Take(p, to, c, f)
  BY IncludeFacts
<1>2. IsTaken(p, to, c, f, x)
  BY <1>1, TakeFacts
<1>3. f.cost \in Nat
  BY DEF Frames
<1>4. x.cost = f.cost + c
  BY <1>2 DEF IsTaken
<1>5. x.cost >= f.cost
  BY <1>1, <1>3, <1>4
<1> QED BY <1>2, <1>5 DEF IsTaken

\* A frame has numbers to compare.
LEMMA FrameNumbers ==
    \A f \in Frames : f.cost \in Nat /\ f.freed \in Nat /\ Len(f.moves) \in Nat
BY DEF Frames

\* The outcomes are frames that leave nothing, one at most for a set.
LEMMA OutcomesAreFrames ==
    ASSUME cluster \in Clusters, NEW S \in SUBSET Pod
    PROVE  /\ \A f \in Outcome(S) : f \in Frames /\ f.left = {}
           /\ \A f, e \in Outcome(S) : f = e
<1> DEFINE Good(s) == /\ \A f \in Outcome(s) : f \in Frames /\ f.left = {}
                      /\ \A f, e \in Outcome(s) : f = e
           Bad == {s \in SUBSET S : ~ Good(s)}
<1>0. IsFiniteSet(S)
  BY ClusterFacts, FS_Subset
<1>1. ASSUME Bad # {} PROVE FALSE
  <2>1. PICK s \in Bad : \A t \in SUBSET s : t # s => t \notin Bad
    <3>1. Bad \subseteq SUBSET S
      OBVIOUS
    <3> HIDE DEF Bad
    <3> QED BY <3>1, <1>0, <1>1, MinimalSubset
  <2>2. CASE s = {}
    <3>1. Outcome(s) = {Start({})}
      BY <2>2, OutcomeFacts
    <3>2. Start({}) \in Frames /\ Start({}).left = {}
      <4>1. \A n \in Node : Residual(n) \in Nat
        BY ResidualFacts
      <4>2. [n \in Node |-> Residual(n)] \in [Node -> Int]
        BY <4>1
      <4>3. policy.allowed \in [Namespace -> Int]
        BY ClusterFacts
      <4>4. <<>> \in Seq(Action)
        OBVIOUS
      <4> QED BY <4>2, <4>3, <4>4 DEF Start, Frames
    <3> QED BY <2>1, <3>1, <3>2
  <2>3. CASE s # {}
    <3> DEFINE d == Dearest(s)
               r == s \ {d}
    <3>1. s \in SUBSET Pod /\ d \in s /\ d \in Pod
      BY <2>3, DearestFacts
    <3>2. Outcome(s) = UNION {Include(d, f) : f \in Outcome(r)}
      BY <2>3, <3>1, OutcomeFacts DEF Extended
    <3>3. r \in SUBSET s /\ r # s /\ r \in SUBSET S
      BY <3>1
    <3>4. Good(r)
      BY <2>1, <3>3
    <3> HIDE DEF d, r
    <3>5. ASSUME NEW x \in Outcome(s)
          PROVE  \E f \in Outcome(r) : x \in Include(d, f) /\ Include(d, f) = {x}
                                       /\ x \in Frames /\ x.left = {}
      <4>1. PICK f \in Outcome(r) : x \in Include(d, f)
        BY <3>2
      <4>2. f \in Frames /\ f.left = {}
        BY <3>4
      <4>3. x \in Frames /\ x.left = f.left \ {d}
        BY <3>1, <4>1, <4>2, IncludeGoesOn
      <4>4. Include(d, f) = {x}
        BY <4>1, IncludeOne
      <4> QED BY <4>1, <4>2, <4>3, <4>4
    <3>6. \A f, e \in Outcome(s) : f = e
      BY <3>4, <3>5
    <3> QED BY <2>1, <3>5, <3>6
  <2> QED BY <2>2, <2>3
<1>2. S \notin Bad
  BY <1>1
<1> QED BY <1>2

\* What comes of a set came of the pods that are before the others.
LEMMA OutcomesGoOn ==
    ASSUME cluster \in Clusters, NEW S \in SUBSET Pod, NEW P \in SUBSET S,
           \A p \in P, q \in S \ P : Before(p, q)
    PROVE  \A f \in Outcome(S) : \E e \in Outcome(P) : GoesOn(f, e, S \ P)
<1> DEFINE Good(s) == \A f \in Outcome(s) : \E e \in Outcome(P) : GoesOn(f, e, s \ P)
           Bad == {s \in SUBSET S : P \subseteq s /\ ~ Good(s)}
<1>0. IsFiniteSet(S)
  BY ClusterFacts, FS_Subset
<1>1. ASSUME Bad # {} PROVE FALSE
  <2>1. PICK s \in Bad : \A t \in SUBSET s : t # s => t \notin Bad
    <3>1. Bad \subseteq SUBSET S
      OBVIOUS
    <3> HIDE DEF Bad
    <3> QED BY <3>1, <1>0, <1>1, MinimalSubset
  <2>2. s \in SUBSET S /\ P \subseteq s /\ s \in SUBSET Pod /\ P \in SUBSET Pod
    BY <2>1
  <2>3. PICK f \in Outcome(s) : ~ \E e \in Outcome(P) : GoesOn(f, e, s \ P)
    BY <2>1
  <2>4. f \in Frames
    BY <2>2, OutcomesAreFrames
  <2>5. CASE s = P
    <3>1. Gpus({}) = 0
      BY SumEmpty DEF Gpus
    <3>2. s \ P = {}
      BY <2>5
    <3>3. Gpus(s \ P) = 0
      BY <3>1, <3>2, Zenon
    <3>4. GoesOn(f, f, s \ P)
      BY <2>4, <3>3, FrameNumbers DEF GoesOn
    <3> QED BY <2>3, <2>5, <3>4
  <2>6. CASE s # P
    <3> DEFINE d == Dearest(s)
               r == s \ {d}
    <3>1. d \in s /\ d \in Pod /\ s # {}
      BY <2>2, <2>6, DearestFacts
    <3>2. d \notin P
      <4> SUFFICES ASSUME d \in P PROVE FALSE
        OBVIOUS
      <4>1. PICK y \in s \ P : TRUE
        BY <2>2, <2>6
      <4>2. Before(d, y) /\ y \in S \ P /\ y # d
        BY <2>2, <4>1
      <4>3. Before(y, d)
        BY <2>2, <3>1, <4>1, <4>2, DearestFacts
      <4> QED BY <2>2, <3>1, <4>1, <4>2, <4>3, BeforeFacts
    <3>3. Outcome(s) = UNION {Include(d, g) : g \in Outcome(r)}
      BY <2>2, <3>1, OutcomeFacts DEF Extended
    <3>4. r \in SUBSET s /\ r # s /\ r \in SUBSET S /\ P \subseteq r /\ r \in SUBSET Pod
      BY <2>2, <3>1, <3>2
    <3>5. Good(r)
      BY <2>1, <3>4
    <3>6. s \ P = (r \ P) \cup {d} /\ (r \ P) \cap {d} = {} /\ (r \ P) \in SUBSET Pod
      BY <2>2, <3>1, <3>2
    <3> HIDE DEF d, r
    <3>7. PICK g \in Outcome(r) : f \in Include(d, g)
      BY <2>3, <3>3
    <3>8. PICK e \in Outcome(P) : GoesOn(g, e, r \ P)
      BY <3>5, <3>7
    <3>9. g \in Frames /\ e \in Frames
      BY <2>2, <3>4, <3>7, <3>8, OutcomesAreFrames
    <3>10. f.cost >= g.cost /\ Len(f.moves) = Len(g.moves) + 1 /\ f.freed = g.freed + pods.gpus[d]
      BY <3>1, <3>7, <3>9, IncludeGoesOn
    <3>11. Gpus(s \ P) = Gpus(r \ P) + pods.gpus[d] /\ pods.gpus[d] \in Nat /\ Gpus(r \ P) \in Nat
      <4>1. Gpus((r \ P) \cup {d}) = Gpus(r \ P) + Gpus({d}) /\ Gpus(r \ P) \in Nat
        <5>1. {d} \in SUBSET Pod
          BY <3>1
        <5> QED BY <3>6, <5>1, GpusFacts
      <4>2. pods.gpus[d] \in Nat /\ \A q \in {d} : pods.gpus[q] = pods.gpus[d]
        BY <3>1, ClusterFacts
      <4>3. IsFiniteSet({d}) /\ Cardinality({d}) = 1
        BY FS_Singleton
      <4>4. SumFunctionOnSet(pods.gpus, {d}) = Cardinality({d}) * pods.gpus[d]
        BY <4>2, <4>3, SumConstant
      <4>5. Gpus({d}) = pods.gpus[d]
        BY <4>2, <4>3, <4>4 DEF Gpus
      <4>6. Gpus(s \ P) = Gpus((r \ P) \cup {d})
        BY <3>6, Zenon
      <4> QED BY <4>1, <4>2, <4>5, <4>6
    <3>12. /\ g.cost >= e.cost /\ Len(g.moves) >= Len(e.moves) /\ g.freed >= e.freed
           /\ g.freed <= e.freed + Gpus(r \ P)
      BY <3>8 DEF GoesOn
    <3>13. /\ f.cost \in Nat /\ f.freed \in Nat /\ Len(f.moves) \in Nat
           /\ g.cost \in Nat /\ g.freed \in Nat /\ Len(g.moves) \in Nat
           /\ e.cost \in Nat /\ e.freed \in Nat /\ Len(e.moves) \in Nat
      BY <2>4, <3>9, FrameNumbers
    <3>14. f.cost >= e.cost /\ f.freed >= e.freed
      <4>1. \A a, b, c \in Nat : a >= b /\ b >= c => a >= c /\ \A k \in Nat : a + k >= c
        OBVIOUS
      <4>2. f.cost >= e.cost
        BY <3>10, <3>12, <3>13, <4>1
      <4>3. g.freed + pods.gpus[d] >= e.freed
        BY <3>11, <3>12, <3>13
      <4> QED BY <3>10, <4>2, <4>3
    <3>15. Len(f.moves) >= Len(e.moves) /\ Len(f.moves) # Len(e.moves)
      BY <3>10, <3>12, <3>13
    <3>16. f.freed <= e.freed + Gpus(s \ P)
      BY <3>10, <3>11, <3>12, <3>13
    <3>17. GoesOn(f, e, s \ P)
      BY <3>14, <3>15, <3>16 DEF GoesOn
    <3> QED BY <2>3, <3>17
  <2> QED BY <2>5, <2>6
<1>2. S \notin Bad
  BY <1>1
<1> QED BY <1>2

\* Two frames that have taken the same actions.
SameActions(f, e) ==
    /\ f.moves = e.moves /\ f.freed = e.freed /\ f.cost = e.cost
    /\ f.free = e.free /\ f.budget = e.budget

\* What can be taken does not depend on what is left.
LEMMA IncludeSame ==
    ASSUME NEW p, NEW f, NEW e, SameActions(f, e), NEW x \in Include(p, e)
    PROVE  \E y \in Include(p, f) : SameActions(y, x)
<1>1. Refuge(p, f) = Refuge(p, e) /\ f.budget = e.budget
  BY DEF SameActions, Refuge
<1>2. \A to, c : SameActions(Take(p, to, c, f), Take(p, to, c, e))
  BY DEF SameActions, Take
<1>3. ~ (Covered(p) /\ e.budget[pods.namespace[p]] <= 0)
  BY DEF Include
<1>4. CASE Refuge(p, e) # {}
  <2>1. Include(p, e) = {Take(p, n, policy.cost[p], e) : n \in Refuge(p, e)}
    BY <1>3, <1>4 DEF Include
  <2>2. Include(p, f) = {Take(p, n, policy.cost[p], f) : n \in Refuge(p, e)}
    BY <1>1, <1>3, <1>4 DEF Include
  <2> QED BY <1>2, <2>1, <2>2
<1>5. CASE Refuge(p, e) = {}
  <2>1. Include(p, e)
           = {Take(q, NoNode, policy.cost[q] + Penalty, e) : q \in {p} \cap policy.preempt}
    BY <1>3, <1>5 DEF Include
  <2>2. Include(p, f)
           = {Take(q, NoNode, policy.cost[q] + Penalty, f) : q \in {p} \cap policy.preempt}
    BY <1>1, <1>3, <1>5 DEF Include
  <2>3. p \in policy.preempt /\ x = Take(p, NoNode, policy.cost[p] + Penalty, e)
    BY <2>1
  <2>4. Take(p, NoNode, policy.cost[p] + Penalty, f) \in Include(p, f)
    BY <2>2, <2>3
  <2> QED BY <1>2, <2>3, <2>4
<1> QED BY <1>4, <1>5

-----------------------------------------------------------------------------
(* Why cutting the search costs nothing: each outcome that frees enough is   *)
(* no better than the best actions so far, or a call that is still to be     *)
(* made goes on to it.                                                       *)
Settled(f, cheapest) == cheapest # NoActions /\ ~ Cheaper(f, cheapest)

IsRest(W, L) == L \subseteq W /\ \A p \in W \ L, q \in L : Before(p, q)

LeadsTo(call, S) == \E e \in Outcome(S \ call.left) : SameActions(call, e)

SearchIsComplete(g, n, calls, cheapest) ==
    n # NoNode =>
        /\ \A k \in DOMAIN calls : IsRest(Window(g, n), calls[k].left)
        /\ \A S \in SUBSET Window(g, n) : \A f \in Outcome(S) : f.freed >= Deficit(g, n) =>
              \/ Settled(f, cheapest)
              \/ \E k \in DOMAIN calls : LeadsTo(calls[k], S)

ExactInv == PlanInv /\ SearchIsComplete(target, node, stack, best)

\* The outcomes stay the same while the cluster does.
LEMMA OutcomeKept ==
    ASSUME cluster' = cluster
    PROVE  /\ \A S : Outcome(S)' = Outcome(S)
           /\ \A p, q : Before(p, q)' <=> Before(p, q)
<1>1. nodes' = nodes /\ pods' = pods /\ policy' = policy
  BY ClusterKept
<1>2. \A S : Outcome(S)' = Outcome(S)
  BY <1>1 DEF Outcome, Dearest, Before, Start, Residual, Gpus, RunningOn, Running, Include, Take,
              Refuge, Refuges, Taken, Spend, Covered
<1>3. \A p, q : Before(p, q)' <=> Before(p, q)
  BY <1>1 DEF Before
<1> QED BY <1>2, <1>3

\* The cheaper of two that are comparable is no dearer than what the dearer is no dearer
\* than.
LEMMA CheaperFacts ==
    ASSUME NEW f, NEW a, NEW b,
           f.cost \in Nat, f.freed \in Nat, Len(f.moves) \in Nat,
           a.cost \in Nat, a.freed \in Nat, Len(a.moves) \in Nat,
           b.cost \in Nat, b.freed \in Nat, Len(b.moves) \in Nat
    PROVE  a # NoActions /\ b # NoActions =>
              /\ ~ Cheaper(f, b) /\ Cheaper(a, b) => ~ Cheaper(f, a)
              /\ ~ Cheaper(f, a) /\ ~ Cheaper(a, b) => ~ Cheaper(f, b)
<1> SUFFICES ASSUME a # NoActions, b # NoActions
             PROVE  /\ ~ Cheaper(f, b) /\ Cheaper(a, b) => ~ Cheaper(f, a)
                    /\ ~ Cheaper(f, a) /\ ~ Cheaper(a, b) => ~ Cheaper(f, b)
    OBVIOUS
<1> DEFINE Less(x, y) == \/ x.cost < y.cost
                         \/ x.cost = y.cost /\ Len(x.moves) < Len(y.moves)
                         \/ x.cost = y.cost /\ Len(x.moves) = Len(y.moves) /\ x.freed < y.freed
<1>1. /\ Cheaper(f, a) <=> Less(f, a)
      /\ Cheaper(f, b) <=> Less(f, b)
      /\ Cheaper(a, b) <=> Less(a, b)
  BY DEF Cheaper
<1>2. Less(f, a) /\ Less(a, b) => Less(f, b)
  OBVIOUS
<1>3. Less(f, b) => Less(f, a) \/ Less(a, b)
  OBVIOUS
<1> HIDE DEF Less
<1> QED BY <1>1, <1>2, <1>3

\* What a call leads to is what it goes on to.
LEMMA LeadsToFacts ==
    ASSUME cluster \in Clusters, NEW W \in SUBSET Pod, NEW call \in Frames, IsRest(W, call.left),
           NEW S \in SUBSET W, LeadsTo(call, S), NEW f \in Outcome(S)
    PROVE  GoesOn(f, call, S \cap call.left)
<1>1. PICK e \in Outcome(S \ call.left) : SameActions(call, e)
  BY DEF LeadsTo
<1> DEFINE P == S \ call.left
<1>2. S \in SUBSET Pod /\ P \in SUBSET S /\ P \in SUBSET Pod /\ S \ P = S \cap call.left
  OBVIOUS
<1>3. \A p \in P, q \in S \ P : Before(p, q)
  BY DEF IsRest
<1>4. PICK d \in Outcome(P) : GoesOn(f, d, S \ P)
  <2> HIDE DEF P
  <2>1. \A x \in Outcome(S) : \E d \in Outcome(P) : GoesOn(x, d, S \ P)
    BY <1>2, <1>3, OutcomesGoOn
  <2> QED BY <2>1
<1>5. e \in Outcome(P) /\ e = d
  <2>1. e \in Outcome(P)
    BY <1>1
  <2> HIDE DEF P
  <2> QED BY <1>2, <1>4, <2>1, OutcomesAreFrames
<1>6. GoesOn(f, e, S \cap call.left)
  BY <1>2, <1>4, <1>5
<1> QED BY <1>1, <1>6 DEF GoesOn, SameActions

\* The search of a node begins with a call that leads to all outcomes.
LEMMA OpenNodeIsComplete ==
    ASSUME ExactInv, OpenNode
    PROVE  SearchIsComplete(target', node', stack', best')
<1>1. cluster \in Clusters
  BY DEF ExactInv, PlanInv
<1> DEFINE W == Window(target, node')
           x == Start(W)
<1>2. target' = target /\ stack' = <<x>>
  BY DEF OpenNode
<1>3. x.left = W /\ SameActions(x, Start({})) /\ IsRest(W, x.left)
  BY DEF Start, SameActions, IsRest
<1>4. \A S \in SUBSET W : LeadsTo(x, S)
  <2> SUFFICES ASSUME NEW S \in SUBSET W PROVE LeadsTo(x, S)
    OBVIOUS
  <2>1. S \ x.left = {}
    BY <1>3
  <2>2. Outcome(S \ x.left) = {Start({})}
    BY <1>1, <2>1, OutcomeFacts
  <2> QED BY <1>3, <2>2 DEF LeadsTo
<1> HIDE DEF x
<1>5. DOMAIN <<x>> = {1} /\ <<x>>[1] = x
  OBVIOUS
<1>6. 1 \in DOMAIN stack' /\ \A k \in DOMAIN stack' : stack'[k] = x
  BY <1>2, <1>5
<1>7. Window(target', node') = W
  BY <1>2
<1> HIDE DEF W
<1> QED BY <1>3, <1>4, <1>6, <1>7 DEF SearchIsComplete

\* What is below the next call is complete but for what that call leads to.
LEMMA BelowIsComplete ==
    ASSUME ExactInv, stack # <<>>
    PROVE  LET W == Window(target, node)
           IN  /\ W \in SUBSET Pod /\ IsRest(W, Top.left)
               /\ \A k \in DOMAIN Below : IsRest(W, Below[k].left)
               /\ \A S \in SUBSET W : \A f \in Outcome(S) : f.freed >= Deficit(target, node) =>
                     \/ Settled(f, best) \/ LeadsTo(Top, S)
                     \/ \E k \in DOMAIN Below : LeadsTo(Below[k], S)
<1> DEFINE W == Window(target, node)
<1>1. /\ cluster \in Clusters /\ SearchIsSound(target, node, todo, stack, best, advice)
      /\ SearchIsComplete(target, node, stack, best)
  BY DEF ExactInv, PlanInv
<1>2. node \in Node /\ node # NoNode
  BY <1>1, TopFacts, ClusterFacts
<1>3. /\ \A k \in DOMAIN stack : IsRest(W, stack[k].left)
      /\ \A S \in SUBSET W : \A f \in Outcome(S) : f.freed >= Deficit(target, node) =>
            Settled(f, best) \/ \E k \in DOMAIN stack : LeadsTo(stack[k], S)
  BY <1>1, <1>2 DEF SearchIsComplete
<1>4. W \in SUBSET Pod
  BY <1>1, WindowFacts
<1>5. stack \in Seq(Frames)
  BY <1>1 DEF SearchIsSound
<1>6. /\ Len(stack) \in DOMAIN stack
      /\ \A k \in DOMAIN Below : k \in DOMAIN stack /\ Below[k] = stack[k]
      /\ \A k \in DOMAIN stack : k = Len(stack) \/ k \in DOMAIN Below
  BY <1>5, PopFacts DEF Below
<1> HIDE DEF W
<1>7. IsRest(W, Top.left) /\ \A k \in DOMAIN Below : IsRest(W, Below[k].left)
  BY <1>3, <1>6 DEF Top
<1>8. \A S \in SUBSET W : \A f \in Outcome(S) : f.freed >= Deficit(target, node) =>
          \/ Settled(f, best) \/ LeadsTo(Top, S)
          \/ \E k \in DOMAIN Below : LeadsTo(Below[k], S)
  BY <1>3, <1>6 DEF Top
<1> QED BY <1>4, <1>7, <1>8 DEF W

\* The numbers of the best actions can be compared.
LEMMA BestNumbers ==
    ASSUME PlanInv, best # NoActions
    PROVE  best.cost \in Nat /\ best.freed \in Nat /\ Len(best.moves) \in Nat
<1>1. /\ cluster \in Clusters /\ CanBeTaken(node, best.moves, best.freed) /\ best.cost \in Nat
  BY DEF PlanInv, SearchIsSound
<1>2. MovedBy(best.moves) \in SUBSET Pod
  BY <1>1, RunningFacts DEF CanBeTaken
<1>3. best.freed = Gpus(MovedBy(best.moves)) /\ best.moves \in Seq(Action)
  BY <1>1 DEF CanBeTaken
<1>4. Gpus(MovedBy(best.moves)) \in Nat
  BY <1>1, <1>2, GpusFacts
<1> QED BY <1>1, <1>3, <1>4

\* Accept settles what the call leads to, and unsettles nothing.
LEMMA AcceptIsComplete ==
    ASSUME ExactInv, Accept
    PROVE  SearchIsComplete(target', node', stack', best')
<1> DEFINE W == Window(target, node)
           a == [moves |-> Top.moves, freed |-> Top.freed, cost |-> Top.cost]
<1>1. /\ cluster \in Clusters /\ SearchIsSound(target, node, todo, stack, best, advice)
      /\ PlanInv
  BY DEF ExactInv, PlanInv
<1>2. /\ target' = target /\ node' = node /\ stack' = Below /\ stack # <<>>
      /\ Top.freed >= Deficit(target, node)
      /\ best' = IF Cheaper(Top, best) THEN a ELSE best
  BY DEF Accept, Enough
<1>3. /\ Top \in Frames /\ Deficit(target, node) \in Int /\ Deficit(target, node) > 0
  BY <1>1, <1>2, TopFacts
<1>4. /\ W \in SUBSET Pod /\ IsRest(W, Top.left)
      /\ \A k \in DOMAIN Below : IsRest(W, Below[k].left)
      /\ \A S \in SUBSET W : \A f \in Outcome(S) : f.freed >= Deficit(target, node) =>
            \/ Settled(f, best) \/ LeadsTo(Top, S)
            \/ \E k \in DOMAIN Below : LeadsTo(Below[k], S)
  BY <1>2, BelowIsComplete
<1>5. Top.cost \in Nat /\ Top.freed \in Nat /\ Len(Top.moves) \in Nat
  BY <1>3, FrameNumbers
<1>6. /\ a.cost = Top.cost /\ a.freed = Top.freed /\ a.moves = Top.moves
      /\ a # NoActions
  <2>1. a.freed # 0
    BY <1>2, <1>3, <1>5
  <2> QED BY <2>1 DEF NoActions
<1>7. \A f, b : (Cheaper(a, b) <=> Cheaper(Top, b))
  BY <1>6 DEF Cheaper
<1> HIDE DEF W, a
<1>8. ASSUME NEW S \in SUBSET W, NEW f \in Outcome(S), Settled(f, best) \/ LeadsTo(Top, S)
      PROVE  Settled(f, best')
  <2>1. f \in Frames
    <3>1. S \in SUBSET Pod
      BY <1>4
    <3> QED BY <1>1, <3>1, OutcomesAreFrames
  <2>2. f.cost \in Nat /\ f.freed \in Nat /\ Len(f.moves) \in Nat
    BY <2>1, FrameNumbers
  <2>3. CASE Settled(f, best)
    <3>1. best # NoActions /\ ~ Cheaper(f, best)
      BY <2>3 DEF Settled
    <3>2. best.cost \in Nat /\ best.freed \in Nat /\ Len(best.moves) \in Nat
      BY <1>1, <3>1, BestNumbers
    <3>3. Cheaper(a, best) => ~ Cheaper(f, a)
      BY <1>5, <1>6, <2>2, <3>1, <3>2, CheaperFacts
    <3> QED BY <1>2, <1>6, <1>7, <3>1, <3>3 DEF Settled
  <2>4. CASE LeadsTo(Top, S)
    <3>1. GoesOn(f, Top, S \cap Top.left)
      BY <1>1, <1>3, <1>4, <2>4, LeadsToFacts
    <3>2. f.cost >= Top.cost /\ Len(f.moves) >= Len(Top.moves) /\ f.freed >= Top.freed
      BY <3>1 DEF GoesOn
    <3>3. ~ Cheaper(f, a)
      BY <1>5, <1>6, <2>2, <3>2 DEF Cheaper
    <3>4. ASSUME ~ Cheaper(Top, best) PROVE best # NoActions /\ ~ Cheaper(f, best)
      <4>1. best # NoActions
        BY <3>4 DEF Cheaper
      <4>2. best.cost \in Nat /\ best.freed \in Nat /\ Len(best.moves) \in Nat
        BY <1>1, <4>1, BestNumbers
      <4>3. ~ Cheaper(a, best)
        BY <1>7, <3>4
      <4> QED BY <1>5, <1>6, <2>2, <3>3, <4>1, <4>2, <4>3, CheaperFacts
    <3> QED BY <1>2, <1>6, <3>3, <3>4 DEF Settled
  <2> QED BY <1>8, <2>3, <2>4
<1>9. Window(target', node') = W /\ Deficit(target', node') = Deficit(target, node)
  BY <1>2 DEF W
<1> QED BY <1>2, <1>4, <1>8, <1>9 DEF SearchIsComplete

\* GiveUp drops a call that leads to nothing that is enough and better.
LEMMA GiveUpIsComplete ==
    ASSUME ExactInv, GiveUp
    PROVE  SearchIsComplete(target', node', stack', best')
<1> DEFINE W == Window(target, node)
           D == Deficit(target, node)
<1>1. /\ cluster \in Clusters /\ SearchIsSound(target, node, todo, stack, best, advice)
      /\ PlanInv
  BY DEF ExactInv, PlanInv
<1>2. /\ target' = target /\ node' = node /\ stack' = Below /\ stack # <<>>
      /\ best' = best /\ ~ (Top.freed >= D)
      /\ \/ Top.freed + Gpus(Top.left) < D
         \/ best # NoActions /\ \/ Top.cost > best.cost
                                \/ Top.cost = best.cost /\ Len(Top.moves) >= Len(best.moves)
  BY DEF GiveUp, Enough, Hopeless
<1>3. Top \in Frames /\ D \in Int
  BY <1>1, <1>2, TopFacts
<1>4. /\ W \in SUBSET Pod /\ IsRest(W, Top.left)
      /\ \A k \in DOMAIN Below : IsRest(W, Below[k].left)
      /\ \A S \in SUBSET W : \A f \in Outcome(S) : f.freed >= D =>
            \/ Settled(f, best) \/ LeadsTo(Top, S)
            \/ \E k \in DOMAIN Below : LeadsTo(Below[k], S)
  BY <1>2, BelowIsComplete
<1>5. Top.cost \in Nat /\ Top.freed \in Nat /\ Len(Top.moves) \in Nat /\ Top.left \in SUBSET Pod
  BY <1>3, FrameNumbers DEF Frames
<1> HIDE DEF W, D
<1>6. ASSUME NEW S \in SUBSET W, NEW f \in Outcome(S), f.freed >= D, LeadsTo(Top, S)
      PROVE  Settled(f, best)
  <2>1. f \in Frames
    <3>1. S \in SUBSET Pod
      BY <1>4
    <3> QED BY <1>1, <3>1, OutcomesAreFrames
  <2>2. f.cost \in Nat /\ f.freed \in Nat /\ Len(f.moves) \in Nat
    BY <2>1, FrameNumbers
  <2>3. GoesOn(f, Top, S \cap Top.left)
    BY <1>1, <1>3, <1>4, <1>6, LeadsToFacts
  <2>4. /\ f.cost >= Top.cost /\ Len(f.moves) >= Len(Top.moves)
        /\ f.freed <= Top.freed + Gpus(S \cap Top.left)
        /\ Len(f.moves) = Len(Top.moves) => f.freed = Top.freed
    BY <2>3 DEF GoesOn
  <2>5. Gpus(S \cap Top.left) <= Gpus(Top.left) /\ Gpus(S \cap Top.left) \in Nat
        /\ Gpus(Top.left) \in Nat
    <3>1. S \cap Top.left \in SUBSET Top.left /\ S \cap Top.left \in SUBSET Pod
      BY <1>5
    <3> QED BY <1>1, <1>5, <3>1, GpusFacts
  <2>6. ~ (Top.freed + Gpus(Top.left) < D)
    BY <1>3, <1>5, <1>6, <2>2, <2>4, <2>5
  <2>7. Len(f.moves) > Len(Top.moves)
    BY <1>2, <1>3, <1>5, <1>6, <2>2, <2>4
  <2>8. best # NoActions
    BY <1>2, <2>6
  <2>9. best.cost \in Nat /\ best.freed \in Nat /\ Len(best.moves) \in Nat
    BY <1>1, <2>8, BestNumbers
  <2>10. CASE Top.cost > best.cost
    BY <1>5, <2>2, <2>4, <2>8, <2>9, <2>10 DEF Settled, Cheaper
  <2>11. CASE Top.cost = best.cost /\ Len(Top.moves) >= Len(best.moves)
    BY <1>5, <2>2, <2>4, <2>7, <2>8, <2>9, <2>11 DEF Settled, Cheaper
  <2> QED BY <1>2, <2>6, <2>10, <2>11
<1>7. Window(target', node') = W /\ Deficit(target', node') = D
  BY <1>2 DEF W, D
<1> QED BY <1>2, <1>4, <1>6, <1>7 DEF SearchIsComplete

\* Branch leads to all that the call led to: with the pod or without it.
LEMMA BranchIsComplete ==
    ASSUME ExactInv, Branch
    PROVE  SearchIsComplete(target', node', stack', best')
<1> DEFINE W == Window(target, node)
           D == Deficit(target, node)
           L == Top.left
<1>1. /\ cluster \in Clusters /\ SearchIsSound(target, node, todo, stack, best, advice)
      /\ PlanInv
  BY DEF ExactInv, PlanInv
<1>2. target' = target /\ node' = node /\ best' = best /\ stack # <<>>
  BY DEF Branch
<1>3. /\ node \in Node /\ IsSound(node, Top) /\ Top \in Frames /\ Below \in Seq(Frames)
  BY <1>1, <1>2, TopFacts
<1>4. /\ W \in SUBSET Pod /\ IsRest(W, L)
      /\ \A k \in DOMAIN Below : IsRest(W, Below[k].left)
      /\ \A S \in SUBSET W : \A f \in Outcome(S) : f.freed >= D =>
            \/ Settled(f, best) \/ LeadsTo(Top, S)
            \/ \E k \in DOMAIN Below : LeadsTo(Below[k], S)
  BY <1>2, BelowIsComplete
<1>5. PICK p \in L :
              /\ \A q \in L \ {p} : Before(p, q)
              /\ \/ Include(p, Top) = {} /\ stack' = Below \o <<Exclude(p, Top)>>
                 \/ \E x \in Include(p, Top) :
                       stack' = (Below \o <<Exclude(p, Top)>>) \o <<x>>
  BY <1>1, BranchFacts
<1>6. p \in Pod /\ p \in W /\ L \subseteq W
  BY <1>4, <1>5 DEF IsRest
<1> DEFINE y == Exclude(p, Top)
           r == Below \o <<y>>
<1>7. y \in Frames /\ y.left = L \ {p} /\ \A e : SameActions(y, e) <=> SameActions(Top, e)
  BY <1>3 DEF Exclude, Frames, SameActions
<1>8. \A x \in Include(p, Top) : x \in Frames /\ x.left = L \ {p}
  BY <1>1, <1>3, <1>6, IncludeGoesOn
<1>9. IsRest(W, L \ {p})
  <2>1. \A q \in W \ (L \ {p}) : q = p \/ q \in W \ L
    OBVIOUS
  <2> QED BY <1>4, <1>5, <1>6, <2>1 DEF IsRest
<1> HIDE DEF W, D, L, y
<1>10. /\ r \in Seq(Frames)
       /\ \A k \in DOMAIN Below : k \in DOMAIN r /\ r[k] = Below[k]
       /\ \A k \in DOMAIN r : (k \in DOMAIN Below /\ r[k] = Below[k]) \/ r[k] = y
       /\ \E k \in DOMAIN r : r[k] = y
  BY <1>3, <1>7, PushFacts
<1>11. ASSUME NEW S \in SUBSET W, NEW f \in Outcome(S), LeadsTo(Top, S)
       PROVE  LeadsTo(y, S) \/ \E x \in Include(p, Top) : LeadsTo(x, S)
  <2>1. PICK e \in Outcome(S \ L) : SameActions(Top, e)
    BY <1>11 DEF LeadsTo, L
  <2>2. CASE p \notin S
    <3>1. S \ (L \ {p}) = S \ L
      BY <2>2
    <3>2. Outcome(S \ y.left) = Outcome(S \ L)
      BY <1>7, <3>1
    <3> QED BY <1>7, <2>1, <3>2 DEF LeadsTo
  <2>3. CASE p \in S
    <3> DEFINE Q == S \ (L \ {p})
    <3>1. /\ p \in Q /\ Q \in SUBSET S /\ S \in SUBSET Pod /\ Q \in SUBSET Pod
          /\ Q \ {p} = S \ L
      BY <1>4, <1>5, <2>3
    <3>2. \A q \in Q \ {p} : Before(q, p)
      BY <1>4, <1>5, <3>1 DEF IsRest
    <3>3. \A q1 \in Q, q2 \in S \ Q : Before(q1, q2)
      BY <1>9 DEF IsRest
    <3> HIDE DEF Q
    <3>4. Dearest(Q) = p
      <4>1. Dearest(Q) \in Q /\ \A q \in Q \ {Dearest(Q)} : Before(q, Dearest(Q))
        BY <1>1, <3>1, DearestFacts
      <4>2. Dearest(Q) \in Pod
        BY <3>1, <4>1
      <4>3. Dearest(Q) # p => Before(p, Dearest(Q)) /\ Before(Dearest(Q), p)
        BY <3>1, <3>2, <4>1
      <4> QED BY <1>1, <1>6, <4>2, <4>3, BeforeFacts
    <3>5. Outcome(Q) = UNION {Include(p, g) : g \in Outcome(S \ L)}
      <4>1. Outcome(Q) = Extended(Q, Outcome(Q \ {Dearest(Q)}))
        BY <1>1, <3>1, OutcomeFacts
      <4>2. Outcome(Q) = Extended(Q, Outcome(S \ L))
        BY <3>1, <3>4, <4>1
      <4> QED BY <3>4, <4>2 DEF Extended
    <3>6. PICK d \in Outcome(Q) : TRUE
      <4>1. \A z \in Outcome(S) : \E d \in Outcome(Q) : GoesOn(z, d, S \ Q)
        BY <1>1, <3>1, <3>3, OutcomesGoOn
      <4> QED BY <1>11, <4>1
    <3>7. PICK g \in Outcome(S \ L) : d \in Include(p, g)
      BY <3>5, <3>6
    <3>8. g = e
      <4>1. S \ L \in SUBSET Pod
        BY <3>1
      <4> QED BY <1>1, <2>1, <3>7, <4>1, OutcomesAreFrames
    <3>9. PICK x \in Include(p, Top) : SameActions(x, d)
      BY <2>1, <3>7, <3>8, IncludeSame
    <3>10. S \ x.left = Q
      BY <1>8, <3>9 DEF Q
    <3>11. LeadsTo(x, S)
      BY <3>6, <3>9, <3>10 DEF LeadsTo
    <3> QED BY <3>9, <3>11
  <2> QED BY <2>2, <2>3
<1>12. /\ \A k \in DOMAIN stack' : IsRest(W, stack'[k].left)
       /\ \A k \in DOMAIN Below : k \in DOMAIN stack' /\ stack'[k] = Below[k]
       /\ \E k \in DOMAIN stack' : stack'[k] = y
       /\ \A x \in Include(p, Top) : \E k \in DOMAIN stack' : stack'[k] = x
  <2>1. \A k \in DOMAIN r : IsRest(W, r[k].left)
    BY <1>4, <1>7, <1>9, <1>10
  <2>2. CASE Include(p, Top) = {} /\ stack' = r
    BY <1>10, <2>1, <2>2
  <2>3. CASE \E x \in Include(p, Top) : stack' = r \o <<x>>
    <3>1. PICK x \in Include(p, Top) : stack' = r \o <<x>>
      BY <2>3
    <3>2. Include(p, Top) = {x}
      BY <1>1, IncludeOne
    <3> HIDE DEF r
    <3> DEFINE s == r \o <<x>>
    <3>3. /\ \A k \in DOMAIN r : k \in DOMAIN s /\ s[k] = r[k]
          /\ \A k \in DOMAIN s : (k \in DOMAIN r /\ s[k] = r[k]) \/ s[k] = x
          /\ \E k \in DOMAIN s : s[k] = x
      <4>1. x \in Frames /\ r \in Seq(Frames)
        BY <1>8, <1>10
      <4>2. \A k \in DOMAIN s : (k \in DOMAIN r /\ s[k] = r[k]) \/ s[k] = x
        BY <4>1, PushFacts
      <4>4. \E k \in DOMAIN s : s[k] = x
        <5>1. Len(r) \in Nat
          BY <4>1, LenProperties
        <5>2. Len(s) = Len(r) + 1 /\ s[Len(r) + 1] = x
          BY <4>1, <5>1
        <5>3. Len(r) + 1 \in DOMAIN s
          BY <4>1, <5>1, <5>2
        <5> QED BY <5>2, <5>3
      <4>3. \A k \in DOMAIN r : k \in DOMAIN s /\ s[k] = r[k]
        BY <4>1, PushFacts
      <4> QED BY <4>2, <4>3, <4>4
    <3>4. stack' = s
      BY <3>1
    <3> HIDE DEF s
    <3>5. \A k \in DOMAIN s : IsRest(W, s[k].left)
      BY <1>8, <1>9, <2>1, <3>3
    <3> QED BY <1>10, <3>2, <3>3, <3>4, <3>5
  <2> QED BY <1>5, <2>2, <2>3 DEF y
<1>13. ASSUME NEW S \in SUBSET W, NEW f \in Outcome(S), f.freed >= D
       PROVE  Settled(f, best) \/ \E k \in DOMAIN stack' : LeadsTo(stack'[k], S)
  <2>1. CASE LeadsTo(Top, S)
    <3>1. LeadsTo(y, S) \/ \E x \in Include(p, Top) : LeadsTo(x, S)
      BY <1>11, <2>1
    <3> QED BY <1>12, <3>1
  <2>2. CASE \E k \in DOMAIN Below : LeadsTo(Below[k], S)
    BY <1>12, <2>2
  <2> QED BY <1>4, <1>13, <2>1, <2>2
<1>14. Window(target', node') = W /\ Deficit(target', node') = D
  BY <1>2 DEF W, D
<1> QED BY <1>2, <1>12, <1>13, <1>14 DEF SearchIsComplete

\* The search is complete in every state.
LEMMA SearchesAreComplete == Spec => []ExactInv
<1>1. Init => SearchIsComplete(target, node, stack, best)
  BY DEF Init, SearchIsComplete
<1>2. ExactInv /\ [Next]_vars => SearchIsComplete(target, node, stack, best)'
  <2> SUFFICES ASSUME ExactInv, [Next]_vars
               PROVE  SearchIsComplete(target, node, stack, best)'
    OBVIOUS
  <2>1. cluster' = cluster
    BY ClusterStays
  <2>2. SearchIsComplete(target, node, stack, best) /\ PlanInv
    BY DEF ExactInv
  <2>3. SearchIsComplete(target', node', stack', best')
    <3>1. CASE search' = search
      BY <2>2, <3>1 DEF search
    <3>2. CASE Advise
      <4>1. node' = NoNode
        BY <2>2, <3>2 DEF PlanInv, Advise, Begin
      <4> QED BY <4>1 DEF SearchIsComplete
    <3>3. CASE LookForRoom
      <4>1. CASE CloseNode
        BY <4>1 DEF CloseNode, SearchIsComplete
      <4> QED BY <3>3, <4>1, OpenNodeIsComplete, AcceptIsComplete, GiveUpIsComplete,
                 BranchIsComplete DEF LookForRoom, Search
    <3> QED BY <3>1, <3>2, <3>3 DEF Next, vars, Solve, SolveFails, Finish
  <2>4. SearchIsComplete(target, node, stack, best)'
            <=> SearchIsComplete(target', node', stack', best')
    <3>1. \A W, L : IsRest(W, L)' <=> IsRest(W, L)
      BY <2>1, OutcomeKept DEF IsRest
    <3>2. \A call, S : LeadsTo(call, S)' <=> LeadsTo(call, S)
      BY <2>1, OutcomeKept DEF LeadsTo
    <3>3. \A S : Outcome(S)' = Outcome(S)
      BY <2>1, OutcomeKept
    <3>4. \A g, n : Deficit(g, n)' = Deficit(g, n) /\ Window(g, n)' = Window(g, n)
      BY <2>1, SearchKept
    <3> QED BY <3>1, <3>2, <3>3, <3>4 DEF SearchIsComplete
  <2> QED BY <2>3, <2>4
<1> QED BY <1>1, <1>2, PlansAreSound, PTL DEF Spec, ExactInv

\* SearchIsExact: what the search cuts and gives up it can do without: when a node is
\* done, the best actions are the best of all sets of its candidates.
THEOREM SearchesAreExact == Spec => []SearchIsExact
<1>1. ExactInv => SearchIsExact
  <2> SUFFICES ASSUME ExactInv, node # NoNode, stack = <<>>,
                      NEW S \in SUBSET Window(target, node), NEW f \in Outcome(S),
                      f.freed >= Deficit(target, node)
               PROVE  best # NoActions /\ ~ Cheaper(f, best)
    BY DEF SearchIsExact
  <2>1. DOMAIN stack = {}
    OBVIOUS
  <2> QED BY <2>1 DEF ExactInv, SearchIsComplete, Settled
<1> QED BY <1>1, SearchesAreComplete, PTL
=============================================================================
