-------------------------- MODULE SolveRoundProofs --------------------------
(***************************************************************************)
(* A round of solving, for every problem, admission threshold and way the  *)
(* solver may answer: what is worth keeping is kept, it makes at most      *)
(* three attempts, what it accepts is a placement for the real nodes, and  *)
(* the expansion of single pods is refused only where nothing would help.  *)
(***************************************************************************)
EXTENDS SolveRound, Sums

\* Nothing has been accepted before the first attempt was judged, and the limit is
\* lifted by the second widening.
Progress ==
    /\ retries \in 0..2
    /\ retries = 2 => limit = 0
    /\ retries = 0 /\ stage \notin {"retry", "done"} => ~ accepted.ok
    /\ "ok" \in DOMAIN result /\ "ok" \in DOMAIN accepted

(* A round starts with its first limit. *)
LEMMA ProgressStarts == Init => Progress
BY DEF Init, Progress, Nothing

(* Every step keeps the progress of the limits. *)
LEMMA ProgressStays == Progress /\ [Next]_vars => Progress'
<1> SUFFICES ASSUME Progress, [Next]_vars PROVE Progress'
  OBVIOUS
<1>1. CASE SolveGrouped
  <2>1. \/ result' = result
        \/ result' = [ok |-> TRUE, placed |-> Zero, grouped |-> TRUE, edges |-> Edges(limit)]
    BY <1>1, Zenon DEF SolveGrouped
  <2>2. stage = "solve" /\ UNCHANGED <<limit, retries, accepted>>
    BY <1>1 DEF SolveGrouped
  <2>3. "ok" \in DOMAIN result'
    BY <2>1 DEF Progress
  <2> QED BY <2>2, <2>3 DEF Progress
<1>2. CASE SolvePhysical
  <2>1. \E ok \in BOOLEAN : \E placed :
           result' = [ok |-> ok, placed |-> placed, grouped |-> FALSE, edges |-> Edges(limit)]
    <3>1. CASE result' = [Nothing EXCEPT !.edges = Edges(limit)]
      BY <3>1 DEF Nothing
    <3>2. CASE \E placed : result' = [ok |-> TRUE, placed |-> placed, grouped |-> FALSE,
                                      edges |-> Edges(limit)]
      BY <3>2
    <3> QED BY <1>2, <3>1, <3>2, Zenon DEF SolvePhysical
  <2>2. stage \in {"physical", "solve"} /\ UNCHANGED <<limit, retries, accepted>>
    BY <1>2 DEF SolvePhysical
  <2>3. "ok" \in DOMAIN result'
    BY <2>1
  <2> QED BY <2>2, <2>3 DEF Progress
<1>3. CASE PlaceUnit
  <2>1. PICK placed : result' = [result EXCEPT !.placed = placed]
    BY <1>3 DEF PlaceUnit
  <2>2. DOMAIN result' = DOMAIN result
    BY <2>1 DEF Progress
  <2> QED BY <1>3, <2>2 DEF PlaceUnit, Progress
<1>4. CASE ExpansionFails
  BY <1>4 DEF ExpansionFails, Progress
<1>5. CASE Expanded
  BY <1>5 DEF Expanded, Progress
<1>6. CASE Accept
  BY <1>6 DEF Accept, Progress
<1>7. CASE KeepPrevious
  BY <1>7 DEF KeepPrevious, Progress
<1>8. CASE Widen
  BY <1>8 DEF Widen, Suspicious, WidenedLimit, Progress
<1>9. CASE Stop
  BY <1>9 DEF Stop, Progress
<1>10. CASE UNCHANGED vars
  BY <1>10 DEF vars, Progress
<1> QED
  BY <1>1, <1>2, <1>3, <1>4, <1>5, <1>6, <1>7, <1>8, <1>9, <1>10 DEF Next

\* A round widens at most twice, so it makes at most three attempts (widen_limit in
\* shadow.rs doubles the limit, then lifts it).
THEOREM WidensTwice == Spec => [](retries \in 0..2)
<1>1. Progress => retries \in 0..2
  BY DEF Progress
<1> QED BY <1>1, ProgressStarts, ProgressStays, PTL DEF Spec

\* A wider attempt that fails never costs the round the placement it had.
THEOREM IncumbentStays == Spec => IncumbentIsKept
<1>1. ASSUME Progress, [Next]_vars, accepted.ok PROVE accepted'.ok
  <2>1. CASE Accept
    BY <1>1, <2>1 DEF Accept, Worse, Progress
  <2>2. CASE KeepPrevious
    BY <1>1, <2>2 DEF KeepPrevious, Progress
  <2>3. CASE ~ Accept /\ ~ KeepPrevious
    BY <1>1, <2>3 DEF Next, SolveGrouped, SolvePhysical, PlaceUnit, ExpansionFails,
                      Expanded, Widen, Stop, vars
  <2> QED BY <2>1, <2>2, <2>3
<1>2. Progress /\ [Next]_vars => [accepted.ok => accepted'.ok]_vars
  BY <1>1
<1> QED BY <1>2, ProgressStarts, ProgressStays, PTL DEF Spec, IncumbentIsKept

\* A round that ends on a suspicious result has tried all candidates, or its last,
\* wider attempt gave nothing: no end but those of Stop and KeepPrevious.
THEOREM SuspiciousIsWidened == Spec => []SuspiciousWasWidened
<1>1. Init => SuspiciousWasWidened
  BY DEF Init, SuspiciousWasWidened
<1>2. ASSUME SuspiciousWasWidened, [Next]_vars PROVE SuspiciousWasWidened'
  <2>1. CASE Stop
    <3>1. /\ ~ Suspicious(accepted)
          /\ UNCHANGED <<problem, limit, retries, result, accepted>>
      BY <2>1 DEF Stop
    <3>2. WholeIn(accepted)' = WholeIn(accepted)
      BY <3>1 DEF WholeIn
    <3> QED BY <3>1, <3>2, Zenon DEF Suspicious, SuspiciousWasWidened
  <2>2. CASE KeepPrevious
    BY <2>2 DEF KeepPrevious, Worse, SuspiciousWasWidened
  <2>3. CASE UNCHANGED vars
    <3>1. UNCHANGED <<problem, stage, limit, retries, result, accepted>>
      BY <2>3 DEF vars
    <3>2. WholeIn(accepted)' = WholeIn(accepted)
      BY <3>1 DEF WholeIn
    <3> QED BY <1>2, <3>1, <3>2 DEF SuspiciousWasWidened
  <2>4. CASE /\ ~ Stop /\ ~ KeepPrevious /\ ~ UNCHANGED vars
    <3>1. stage' # "done"
      BY <1>2, <2>4 DEF Next, SolveGrouped, SolvePhysical, PlaceUnit, ExpansionFails,
                        Expanded, Accept, Widen
    <3> QED BY <3>1 DEF SuspiciousWasWidened
  <2> QED BY <2>1, <2>2, <2>3, <2>4
<1> QED BY <1>1, <1>2, PTL DEF Spec
-----------------------------------------------------------------------------

\* The GPUs a placement takes from a node.
Used(p, placed, n) == Total([w \in Workload |-> placed[w][n] * p.gpus[w]])

\* A placement for the real nodes: workloads whole, on nodes that suit them, and no
\* node given out twice.
PhysicalFor(p, placed) ==
    /\ \A w \in Workload :
          /\ Total(placed[w]) \in {0, p.replicas[w]}
          /\ \A n \in Node : placed[w][n] > 0 => n \in p.suits[w]
    /\ \A n \in Node : Used(p, placed, n) <= p.free[n]

Physical(placed) == PhysicalFor(problem, placed)

Attempt == [ok : BOOLEAN, placed : [Workload -> [Node -> Nat]], grouped : BOOLEAN,
            edges : Nat]

Trace == [ok : BOOLEAN, placed : [Workload -> [Node -> Nat]], grouped : BOOLEAN,
          edges : Nat, limit : Nat, retries : Nat]

RoundTypes ==
    /\ problem \in Problems
    /\ stage \in {"solve", "physical", "expand", "judge", "retry", "done"}
    /\ limit \in Nat /\ retries \in Nat
    /\ left \in [Node -> Nat]
    /\ result \in Attempt
    /\ accepted \in Trace

\* What is placed and what is still to be placed make up whole workloads, all units
\* go to nodes that suit them, and the room that is left is there.
Expanding ==
    stage = "expand" =>
        /\ todo \in [Workload -> [Symmetric -> Nat]]
        /\ \A w \in Workload :
              /\ \A g \in Symmetric : todo[w][g] > 0 => g \subseteq problem.suits[w]
              /\ Total(todo[w]) + Total(result.placed[w]) \in {0, problem.replicas[w]}
              /\ \A n \in Node : result.placed[w][n] > 0 => n \in problem.suits[w]
        /\ \A n \in Node :
              left[n] + Used(problem, result.placed, n) <= problem.free[n]

\* What an attempt and the trace say of the candidates they had.
EdgesTold ==
    /\ problem.limit = 0 => limit = 0 /\ accepted.limit = 0
    /\ stage \in {"expand", "judge"} => result.edges = Edges(limit)
    /\ retries > 0 \/ stage \in {"retry", "done"} => accepted.edges = Edges(accepted.limit)

RoundInv ==
    /\ RoundTypes
    /\ Expanding
    /\ stage = "judge" => Physical(result.placed)
    /\ Physical(accepted.placed)
    /\ EdgesTold

-----------------------------------------------------------------------------
(* What the proofs use of a problem. *)
LEMMA ProblemFacts ==
    ASSUME problem \in Problems
    PROVE  /\ IsFiniteSet(Node) /\ IsFiniteSet(Workload) /\ Node \subseteq Nat
           /\ problem.free \in [Node -> Nat]
           /\ problem.gpus \in [Workload -> Nat]
           /\ problem.replicas \in [Workload -> Nat \ {0}]
           /\ problem.suits \in [Workload -> SUBSET Node]
           /\ problem.limit \in Nat
BY ProblemsAssumption

(* A total is the sum over the function's domain. *)
LEMMA TotalIs == \A S : \A f : DOMAIN f = S => Total(f) = SumFunctionOnSet(f, S)
BY DEF Total

(* The candidates a limit leaves are nodes that suit the workload. *)
LEMMA CandidatesSuit ==
    ASSUME problem \in Problems, NEW w \in Workload, NEW max
    PROVE  /\ Candidates(w, max) \subseteq problem.suits[w]
           /\ Candidates(w, max) \subseteq Node
           /\ IsFiniteSet(problem.suits[w]) /\ IsFiniteSet(Candidates(w, max))
<1>1. Candidates(w, max) \subseteq problem.suits[w]
  BY DEF Candidates
<1>2. problem.suits[w] \subseteq Node
  BY ProblemFacts
<1>3. IsFiniteSet(problem.suits[w]) /\ IsFiniteSet(Candidates(w, max))
  BY <1>1, <1>2, ProblemFacts, FS_Subset
<1> QED BY <1>1, <1>2, <1>3

(* The candidate edges are finitely many. *)
LEMMA EdgesAreCounted ==
    ASSUME problem \in Problems, NEW max
    PROVE  Edges(max) \in Nat
<1> DEFINE f == [w \in Workload |-> Cardinality(Candidates(w, max))]
<1>1. \A w \in Workload : f[w] \in Nat
  BY CandidatesSuit, FS_CardinalityType
<1>2. Edges(max) = SumFunctionOnSet(f, Workload)
  BY DEF Edges, Total
<1> HIDE DEF f
<1> QED BY <1>1, <1>2, ProblemFacts, SumNat

\* Groups are made of nodes, and there are finitely many.
LEMMA GroupsOfNodes ==
    ASSUME problem \in Problems
    PROVE  /\ IsFiniteSet(Symmetric) /\ \A g \in Symmetric : g \subseteq Node
           /\ IsFiniteSet(Single) /\ \A n \in Node : {n} \in Single
<1> DEFINE f == [n \in Node |-> {m \in Node : Signature(m) = Signature(n)}]
           s == [n \in Node |-> {n}]
<1>1. Symmetric = {f[n] : n \in Node}
  BY DEF Symmetric
<1>2. Single = {s[n] : n \in Node}
  BY DEF Single
<1>3. IsFiniteSet({f[n] : n \in Node}) /\ IsFiniteSet({s[n] : n \in Node})
  <2> HIDE DEF f, s
  <2> QED BY ProblemFacts, FiniteImage
<1>4. IsFiniteSet(Symmetric) /\ IsFiniteSet(Single)
  <2> HIDE DEF f, s
  <2> QED BY <1>1, <1>2, <1>3, Zenon
<1> QED BY <1>4 DEF Symmetric, Single

\* The nodes of a group are candidates together.
LEMMA SameCandidates ==
    ASSUME problem \in Problems, NEW g \in Symmetric, NEW w \in Workload,
           g \cap Candidates(w, limit) # {}
    PROVE  g \subseteq Candidates(w, limit)
<1>1. PICK n \in Node : g = {m \in Node : Signature(m) = Signature(n)}
  BY DEF Symmetric
<1>2. PICK x : x \in g /\ x \in Candidates(w, limit)
  OBVIOUS
<1>3. ASSUME NEW y \in g PROVE y \in Candidates(w, limit)
  <2>1. Signature(y) = Signature(x)
    BY <1>1, <1>2, <1>3
  <2>2. {v \in Workload : y \in Candidates(v, limit)}
           = {v \in Workload : x \in Candidates(v, limit)}
    BY <2>1 DEF Signature
  <2> QED BY <1>2, <2>2
<1> QED BY <1>3

\* What a solution gives each workload, and takes from each group.
LEMMA SolutionFacts ==
    ASSUME problem \in Problems, NEW groups, NEW counts \in Solutions(groups)
    PROVE  /\ counts = [w \in Workload |-> counts[w]]
           /\ \A w \in Workload : counts[w] \in Placements(w, groups)
           /\ \A g \in groups :
                 Total([w \in Workload |-> counts[w][g] * problem.gpus[w]])
                    <= Total([n \in g |-> problem.free[n]])
<1> DEFINE options == [w \in Workload |-> Placements(w, groups)]
<1>1. counts \in Selections(options)
  BY DEF Solutions, Assignments
<1>2. DOMAIN options = Workload /\ IsFiniteSet(DOMAIN options)
        /\ \A w \in Workload : options[w] = Placements(w, groups)
  BY ProblemFacts
<1>3. counts = [w \in Workload |-> counts[w]] /\ \A w \in Workload : counts[w] \in options[w]
  <2> HIDE DEF options
  <2> QED BY <1>1, <1>2, SelectionsSelect
<1> QED BY <1>2, <1>3 DEF Solutions

(* Placing nothing is a physical placement. *)
LEMMA NothingIsPhysical ==
    ASSUME problem \in Problems
    PROVE  Zero \in [Workload -> [Node -> Nat]] /\ Physical(Zero)
           /\ (\A w \in Workload : Total(Zero[w]) = 0)
           /\ \A n \in Node : Used(problem, Zero, n) = 0
<1>1. Zero \in [Workload -> [Node -> Nat]] /\ \A w \in Workload, n \in Node : Zero[w][n] = 0
  BY DEF Zero
<1>2. ASSUME NEW w \in Workload PROVE Total(Zero[w]) = 0
  <2>1. DOMAIN Zero[w] = Node /\ \A n \in Node : Zero[w][n] = 0
    BY <1>1
  <2> QED BY <2>1, ProblemFacts, SumZero DEF Total
<1>3. ASSUME NEW n \in Node
      PROVE  Used(problem, Zero, n) = 0
  <2> DEFINE f == [w \in Workload |-> Zero[w][n] * problem.gpus[w]]
  <2>1. DOMAIN f = Workload /\ \A w \in Workload : f[w] = 0
    BY <1>1, ProblemFacts
  <2> HIDE DEF f
  <2>2. Total(f) = 0
    BY <2>1, ProblemFacts, SumZero DEF Total
  <2> QED BY <2>2 DEF f, Used
<1>4. Physical(Zero)
  BY <1>1, <1>2, <1>3, ProblemFacts DEF Physical, PhysicalFor
<1> QED BY <1>1, <1>2, <1>3, <1>4

\* A solution on the real nodes is a placement for them.
LEMMA PhysicalSolution ==
    ASSUME problem \in Problems, NEW counts \in Solutions(Single)
    PROVE  LET placed == [w \in Workload |-> [n \in Node |-> counts[w][{n}]]]
           IN  placed \in [Workload -> [Node -> Nat]] /\ Physical(placed)
<1> DEFINE placed == [w \in Workload |-> [n \in Node |-> counts[w][{n}]]]
<1>1. ASSUME NEW w \in Workload
      PROVE  /\ counts[w] \in [Single -> 0..problem.replicas[w]]
             /\ Total(counts[w]) \in {0, problem.replicas[w]}
             /\ \A g \in Single : counts[w][g] > 0 => g \cap Candidates(w, limit) # {}
  BY SolutionFacts DEF Placements
<1>2. \A w \in Workload, n \in Node : counts[w][{n}] \in Nat /\ placed[w][n] = counts[w][{n}]
  BY <1>1, GroupsOfNodes, ProblemFacts
<1>3. placed \in [Workload -> [Node -> Nat]]
  BY <1>2
<1>4. ASSUME NEW w \in Workload PROVE Total(placed[w]) = Total(counts[w])
  <2> DEFINE f == counts[w]
             g == [n \in Node |-> {n}]
             h == [n \in Node |-> f[g[n]]]
  <2>1. /\ \A x \in Node : f[g[x]] \in Nat
        /\ \A x, y \in Node : g[x] = g[y] => x = y
    BY <1>2
  <2>2. {g[n] : n \in Node} = Single
    BY DEF Single
  <2>3. SumFunctionOnSet(f, {g[n] : n \in Node}) = SumFunctionOnSet(h, Node)
    <3>1. IsFiniteSet(Node)
      BY ProblemFacts
    <3>2. SumFunctionOnSet(f, {g[n] : n \in Node})
             = SumFunctionOnSet([n \in Node |-> f[g[n]]], Node)
      <4> HIDE DEF f, g, placed, h
      <4> QED BY <2>1, <3>1, SumRename
    <3> QED BY <3>2
  <2>4. SumFunctionOnSet(f, Single) = SumFunctionOnSet(h, Node)
    <3> HIDE DEF f, g, h
    <3> QED BY <2>2, <2>3, Zenon
  <2>5. placed[w] = h
    OBVIOUS
  <2>6. Total(placed[w]) = SumFunctionOnSet(placed[w], Node)
    BY DEF Total
  <2>7. Total(f) = SumFunctionOnSet(f, Single)
    BY <1>1 DEF Total
  <2>8. SumFunctionOnSet(placed[w], Node) = SumFunctionOnSet(h, Node)
    <3> HIDE DEF placed, h
    <3> QED BY <2>5, Zenon
  <2> HIDE DEF placed, h, f
  <2>9. Total(placed[w]) = Total(f)
    BY <2>4, <2>6, <2>7, <2>8
  <2> QED BY <2>9 DEF f
<1>5. ASSUME NEW w \in Workload, NEW n \in Node, placed[w][n] > 0
      PROVE  n \in problem.suits[w]
  <2>1. {n} \cap Candidates(w, limit) # {}
    BY <1>1, <1>2, <1>5, GroupsOfNodes
  <2> QED BY <2>1, CandidatesSuit
<1>6. ASSUME NEW n \in Node
      PROVE  Used(problem, placed, n) <= problem.free[n]
  <2>1. Total([w \in Workload |-> counts[w][{n}] * problem.gpus[w]])
            <= Total([m \in {n} |-> problem.free[m]])
    BY SolutionFacts, GroupsOfNodes
  <2>2. Total([m \in {n} |-> problem.free[m]]) = problem.free[n]
    <3> DEFINE f == [m \in {n} |-> problem.free[m]]
    <3>1. f[n] = problem.free[n] /\ f[n] \in Int /\ DOMAIN f = {n}
      BY ProblemFacts
    <3>2. Total(f) = SumFunctionOnSet(f, {n})
      BY <3>1 DEF Total
    <3> HIDE DEF f
    <3>3. SumFunctionOnSet(f, {n}) = SumFunctionOnSet(f, {} \cup {n})
      <4>1. {n} = {} \cup {n}
        OBVIOUS
      <4> QED BY <4>1, Zenon
    <3>4. SumFunctionOnSet(f, {} \cup {n}) = f[n] + SumFunctionOnSet(f, {})
      BY <3>1, SumInsert, FS_EmptySet
    <3>5. Total(f) = problem.free[n]
      BY <3>1, <3>2, <3>3, <3>4, SumEmpty
    <3> QED BY <3>5 DEF f
  <2>3. [w \in Workload |-> placed[w][n] * problem.gpus[w]]
            = [w \in Workload |-> counts[w][{n}] * problem.gpus[w]]
    BY <1>2
  <2> HIDE DEF placed
  <2>4. Total([w \in Workload |-> placed[w][n] * problem.gpus[w]])
            = Total([w \in Workload |-> counts[w][{n}] * problem.gpus[w]])
    BY <2>3, Zenon
  <2> QED BY <2>1, <2>2, <2>4 DEF Used
<1>7. Physical(placed)
  <2> HIDE DEF placed
  <2>1. \A w \in Workload : Total(placed[w]) \in {0, problem.replicas[w]}
    BY <1>1, <1>4
  <2> QED BY <2>1, <1>5, <1>6 DEF Physical, PhysicalFor
<1> QED BY <1>3, <1>7

-----------------------------------------------------------------------------
\* While the problem and the limit stay, so do candidates, groups and edges.
LEMMA SameProblem ==
    ASSUME UNCHANGED problem
    PROVE  /\ \A max : Edges(max)' = Edges(max)
           /\ \A w, max : Candidates(w, max)' = Candidates(w, max)
           /\ limit' = limit => Symmetric' = Symmetric
<1>1. \A w, max : Candidates(w, max)' = Candidates(w, max)
  BY DEF Candidates
<1>2. ASSUME NEW max PROVE Edges(max)' = Edges(max)
  <2>1. [w \in Workload |-> Cardinality(Candidates(w, max))]'
           = [w \in Workload |-> Cardinality(Candidates(w, max))]
    BY <1>1
  <2> QED BY <2>1, Zenon DEF Edges
<1>3. ASSUME limit' = limit PROVE Symmetric' = Symmetric
  <2>1. \A n : Signature(n)' = Signature(n)
    BY <1>1, <1>3 DEF Signature
  <2> QED BY <2>1 DEF Symmetric
<1> QED BY <1>1, <1>2, <1>3

(* The round's invariant holds at the start. *)
LEMMA InitRound == Init => RoundInv
<1> SUFFICES ASSUME Init PROVE RoundInv
  OBVIOUS
<1>1. problem \in Problems
  BY DEF Init
<1>2. Zero \in [Workload -> [Node -> Nat]] /\ Physical(Zero)
  BY <1>1, NothingIsPhysical
<1>3. RoundTypes
  BY <1>1, <1>2, ProblemFacts DEF Init, RoundTypes, Nothing, Attempt, Trace
<1> QED BY <1>1, <1>2, <1>3, ProblemFacts DEF Init, RoundInv, Expanding, EdgesTold

\* A grouped solution is what is to be placed.
LEMMA GroupedKeeps ==
    ASSUME RoundInv, SolveGrouped
    PROVE  RoundInv'
<1>1. /\ problem \in Problems /\ RoundTypes /\ EdgesTold /\ Physical(accepted.placed)
      /\ UNCHANGED <<problem, limit, retries, accepted>> /\ stage = "solve"
  BY DEF RoundInv, RoundTypes, SolveGrouped
<1>2. Physical(accepted.placed)' /\ Symmetric' = Symmetric
      /\ \A max : Edges(max)' = Edges(max)
  BY <1>1, SameProblem DEF Physical
<1>3. CASE stage' = "physical" /\ UNCHANGED <<todo, left, result>>
  BY <1>1, <1>2, <1>3 DEF RoundInv, RoundTypes, Expanding, EdgesTold
<1>4. ASSUME NEW counts \in Solutions(Symmetric),
             todo' = counts, left' = problem.free, stage' = "expand",
             result' = [ok |-> TRUE, placed |-> Zero, grouped |-> TRUE,
                        edges |-> Edges(limit)]
      PROVE  RoundInv'
  <2>1. ASSUME NEW w \in Workload
        PROVE  /\ counts[w] \in [Symmetric -> Nat]
               /\ Total(counts[w]) \in {0, problem.replicas[w]}
               /\ \A g \in Symmetric : counts[w][g] > 0 => g \subseteq problem.suits[w]
    <3>1. /\ counts[w] \in [Symmetric -> 0..problem.replicas[w]]
          /\ Total(counts[w]) \in {0, problem.replicas[w]}
          /\ \A g \in Symmetric : counts[w][g] > 0 => g \cap Candidates(w, limit) # {}
      BY <1>1, SolutionFacts DEF Placements
    <3>2. counts[w] \in [Symmetric -> Nat]
      BY <1>1, <3>1, ProblemFacts
    <3>3. \A g \in Symmetric : counts[w][g] > 0 => g \subseteq problem.suits[w]
      BY <1>1, <3>1, SameCandidates, CandidatesSuit
    <3> QED BY <3>1, <3>2, <3>3
  <2>2. todo' \in [Workload -> [Symmetric -> Nat]]
    <3>1. counts = [w \in Workload |-> counts[w]]
      BY <1>1, SolutionFacts
    <3> QED BY <1>4, <2>1, <3>1
  <2>3. result' \in Attempt /\ left' \in [Node -> Nat]
    BY <1>1, <1>4, NothingIsPhysical, EdgesAreCounted, ProblemFacts DEF Attempt
  <2>4. RoundTypes'
    BY <1>1, <1>4, <2>3 DEF RoundTypes
  <2>5. Expanding'
    <3>1. ASSUME NEW n \in Node
          PROVE  left'[n] + Used(problem, result'.placed, n) <= problem.free[n]
      <4>1. Used(problem, result'.placed, n) = 0
        BY <1>1, <1>4, NothingIsPhysical
      <4> QED BY <1>1, <1>4, <4>1, ProblemFacts
    <3>2. ASSUME NEW w \in Workload
          PROVE  /\ Total(todo'[w]) + Total(result'.placed[w]) \in {0, problem.replicas[w]}
                 /\ \A n \in Node : ~ (result'.placed[w][n] > 0)
      <4>1. result'.placed = Zero /\ Total(Zero[w]) = 0
        BY <1>1, <1>4, NothingIsPhysical
      <4>2. Total(result'.placed[w]) = 0
        BY <4>1
      <4> QED BY <1>1, <1>4, <2>1, <4>1, <4>2, ProblemFacts DEF Zero
    <3> QED BY <1>1, <1>2, <1>4, <2>1, <2>2, <3>1, <3>2 DEF Expanding
  <2>6. EdgesTold'
    BY <1>1, <1>2, <1>4 DEF EdgesTold
  <2> QED BY <1>2, <1>4, <2>4, <2>5, <2>6 DEF RoundInv
<1> QED BY <1>3, <1>4 DEF SolveGrouped

(* A physical attempt keeps it. *)
LEMMA PhysicalKeeps ==
    ASSUME RoundInv, SolvePhysical
    PROVE  RoundInv'
<1>1. /\ problem \in Problems /\ RoundTypes /\ EdgesTold /\ Physical(accepted.placed)
      /\ UNCHANGED <<problem, limit, retries, left, todo, accepted>>
      /\ stage \in {"solve", "physical"} /\ stage' = "judge"
  BY DEF RoundInv, RoundTypes, SolvePhysical
<1>2. Physical(accepted.placed)' /\ \A max : Edges(max)' = Edges(max)
  BY <1>1, SameProblem DEF Physical
<1>3. PICK ok \in BOOLEAN, placed \in [Workload -> [Node -> Nat]] :
         /\ Physical(placed)
         /\ result' = [ok |-> ok, placed |-> placed, grouped |-> FALSE,
                       edges |-> Edges(limit)]
  <2>1. ASSUME NEW counts \in Solutions(Single),
               result' = [ok      |-> TRUE,
                          placed  |-> [w \in Workload |-> [n \in Node |-> counts[w][{n}]]],
                          grouped |-> FALSE,
                          edges   |-> Edges(limit)]
        PROVE  \E ok \in BOOLEAN, placed \in [Workload -> [Node -> Nat]] :
                  /\ Physical(placed)
                  /\ result' = [ok |-> ok, placed |-> placed, grouped |-> FALSE,
                                edges |-> Edges(limit)]
    <3> DEFINE p == [w \in Workload |-> [n \in Node |-> counts[w][{n}]]]
    <3>1. p \in [Workload -> [Node -> Nat]] /\ Physical(p)
      BY <1>1, PhysicalSolution
    <3>2. result' = [ok |-> TRUE, placed |-> p, grouped |-> FALSE, edges |-> Edges(limit)]
      BY <2>1
    <3>3. TRUE \in BOOLEAN
      OBVIOUS
    <3> HIDE DEF p
    <3> QED BY <3>1, <3>2, <3>3
  <2>2. CASE result' = [Nothing EXCEPT !.edges = Edges(limit)]
    <3>1. result' = [ok |-> FALSE, placed |-> Zero, grouped |-> FALSE,
                     edges |-> Edges(limit)]
      BY <2>2 DEF Nothing
    <3>2. FALSE \in BOOLEAN
      OBVIOUS
    <3> QED BY <1>1, <3>1, <3>2, NothingIsPhysical
  <2> QED BY <2>1, <2>2 DEF SolvePhysical
<1>4. result' \in Attempt /\ result'.placed = placed /\ result'.edges = Edges(limit)
  BY <1>1, <1>3, EdgesAreCounted DEF Attempt
<1>5. Physical(result.placed)'
  BY <1>1, <1>3, <1>4 DEF Physical
<1> QED BY <1>1, <1>2, <1>4, <1>5 DEF RoundInv, RoundTypes, Expanding, EdgesTold

(* A product with a positive factor is no less than the other factor. *)
LEMMA AtLeastOnce ==
    \A a \in Nat, r \in Nat \ {0}, k \in Nat :
        a * r \in Nat /\ a <= a * r /\ k * a \in Nat /\ (k + 1) * a = k * a + a
<1> TAKE a \in Nat, r \in Nat \ {0}, k \in Nat
<1>1. PICK q \in Nat : r = q + 1
  <2>1. r - 1 \in Nat /\ r = (r - 1) + 1
    OBVIOUS
  <2> QED BY <2>1
<1>2. a * (q + 1) = a * q + a /\ a * q \in Nat
  OBVIOUS
<1> QED BY <1>1, <1>2

\* A unit of w, to go to g, was placed on n.
Unit(w, g, n) ==
    /\ w \in Waiting /\ InOrder(w) /\ w \in Workload
    /\ g \in Symmetric /\ g \subseteq problem.suits[w] /\ todo[w][g] > 0
    /\ n \in Node /\ n \in problem.suits[w] /\ left[n] >= Need(w)
    /\ left' \in [Node -> Nat]
    /\ left'[n] = left[n] - Need(w)
    /\ \A m \in Node : m # n => left'[m] = left[m]
    /\ result' \in Attempt /\ result'.edges = result.edges
    /\ result'.placed[w][n] = result.placed[w][n] + 1
    /\ \A v \in Workload, m \in Node : v # w \/ m # n =>
          result'.placed[v][m] = result.placed[v][m]
    /\ todo' \in [Workload -> [Symmetric -> Nat]]
    /\ todo'[w][g] = todo[w][g] - 1
    /\ \A v \in Workload, h \in Symmetric : v # w \/ h # g => todo'[v][h] = todo[v][h]

\* A unit goes to a node of its group with room.
LEMMA UnitFacts ==
    ASSUME RoundInv, PlaceUnit
    PROVE  \E w, g, n : Unit(w, g, n)
<1>1. /\ problem \in Problems /\ stage = "expand"
      /\ left \in [Node -> Nat] /\ result \in Attempt
      /\ result.placed \in [Workload -> [Node -> Nat]]
      /\ todo \in [Workload -> [Symmetric -> Nat]]
  BY DEF RoundInv, RoundTypes, PlaceUnit, Expanding, Attempt
<1> DEFINE Placing(w, g) ==
              /\ todo[w][g] > 0
              /\ RoomFor(w, g) # {}
              /\ left' = [left EXCEPT ![Min(RoomFor(w, g))] = @ - Need(w)]
              /\ result' = [result EXCEPT !.placed[w][Min(RoomFor(w, g))] = @ + 1]
              /\ todo' = [todo EXCEPT ![w][g] = @ - 1]
<1>0. PICK w \in Waiting : InOrder(w) /\ \E g \in DOMAIN todo[w] : Placing(w, g)
  BY DEF PlaceUnit
<1>3. PICK g \in DOMAIN todo[w] : Placing(w, g)
  BY <1>0
<1>4. /\ w \in Workload /\ g \in Symmetric /\ g \subseteq Node
      /\ todo[w][g] \in Nat /\ g \subseteq problem.suits[w]
  <2>1. w \in Workload
    BY DEF Waiting
  <2>2. g \in Symmetric
    BY <1>1, <1>3, <2>1
  <2> QED BY <1>1, <1>3, <2>1, <2>2, GroupsOfNodes DEF RoundInv, Expanding
<1> DEFINE n == Min(RoomFor(w, g))
<1>5. n \in RoomFor(w, g) /\ n \in Node /\ left[n] >= Need(w) /\ n \in problem.suits[w]
  <2>1. RoomFor(w, g) \subseteq g /\ RoomFor(w, g) \subseteq Nat
    BY <1>4, ProblemFacts, <1>1 DEF RoomFor
  <2>2. \E x \in RoomFor(w, g) : \A y \in RoomFor(w, g) : x <= y
    BY <1>3, <2>1, MinimalNumber
  <2>3. n \in RoomFor(w, g)
    BY <2>2 DEF Min
  <2> HIDE DEF n
  <2> QED BY <1>4, <2>1, <2>3 DEF RoomFor
<1> HIDE DEF n
<1>6. /\ left' = [left EXCEPT ![n] = left[n] - Need(w)]
      /\ result'.placed = [result.placed EXCEPT ![w][n] = result.placed[w][n] + 1]
      /\ result'.edges = result.edges /\ result'.ok = result.ok
      /\ result'.grouped = result.grouped
      /\ result' = [ok |-> result'.ok, placed |-> result'.placed,
                    grouped |-> result'.grouped, edges |-> result'.edges]
      /\ todo' = [todo EXCEPT ![w][g] = todo[w][g] - 1]
  BY <1>1, <1>3 DEF n, Attempt
<1>7. /\ Need(w) \in Nat /\ problem.gpus[w] \in Nat /\ problem.gpus[w] <= Need(w)
      /\ problem.replicas[w] \in Nat
  BY <1>1, <1>4, ProblemFacts, AtLeastOnce DEF Need
<1>8. /\ left' \in [Node -> Nat]
      /\ left'[n] = left[n] - Need(w)
      /\ \A m \in Node : m # n => left'[m] = left[m]
  BY <1>1, <1>5, <1>6, <1>7
<1>9. /\ result'.placed \in [Workload -> [Node -> Nat]]
      /\ result'.placed[w][n] = result.placed[w][n] + 1
      /\ \A v \in Workload, m \in Node : v # w \/ m # n =>
            result'.placed[v][m] = result.placed[v][m]
  BY <1>1, <1>4, <1>5, <1>6
<1>10. /\ todo' \in [Workload -> [Symmetric -> Nat]]
       /\ todo'[w][g] = todo[w][g] - 1
       /\ \A v \in Workload, h \in Symmetric : v # w \/ h # g =>
             todo'[v][h] = todo[v][h]
  BY <1>1, <1>3, <1>4, <1>6
<1>11. result' \in Attempt
  BY <1>1, <1>6, <1>9 DEF Attempt
<1>12. Unit(w, g, n)
  BY <1>0, <1>3, <1>4, <1>5, <1>6, <1>8, <1>9, <1>10, <1>11 DEF Unit
<1> QED BY <1>12

\* A unit takes no more than is left.
LEMMA UnitKeeps ==
    ASSUME RoundInv, PlaceUnit
    PROVE  RoundInv'
<1>1. /\ problem \in Problems /\ RoundTypes /\ EdgesTold /\ Physical(accepted.placed)
      /\ UNCHANGED <<problem, stage, limit, retries, accepted>> /\ stage = "expand"
      /\ left \in [Node -> Nat] /\ result \in Attempt
      /\ result.placed \in [Workload -> [Node -> Nat]]
      /\ todo \in [Workload -> [Symmetric -> Nat]]
  BY DEF RoundInv, RoundTypes, PlaceUnit, Expanding, Attempt
<1>2. Physical(accepted.placed)' /\ Symmetric' = Symmetric
      /\ \A max : Edges(max)' = Edges(max)
  BY <1>1, SameProblem DEF Physical
<1>3. PICK w, g, n : Unit(w, g, n)
  BY UnitFacts
<1>4. /\ w \in Workload /\ g \in Symmetric /\ g \subseteq Node
      /\ todo[w][g] \in Nat /\ todo[w][g] > 0 /\ g \subseteq problem.suits[w]
  BY <1>1, <1>3, GroupsOfNodes DEF Unit
<1>5. n \in Node /\ n \in problem.suits[w] /\ left[n] >= Need(w)
  BY <1>3 DEF Unit
<1>7. /\ Need(w) \in Nat /\ problem.gpus[w] \in Nat /\ problem.gpus[w] <= Need(w)
      /\ problem.replicas[w] \in Nat
  BY <1>1, <1>4, ProblemFacts, AtLeastOnce DEF Need
<1>8. /\ left' \in [Node -> Nat]
      /\ left'[n] = left[n] - Need(w)
      /\ \A m \in Node : m # n => left'[m] = left[m]
  BY <1>3 DEF Unit
<1>9. /\ result'.placed \in [Workload -> [Node -> Nat]]
      /\ result'.placed[w][n] = result.placed[w][n] + 1
      /\ \A v \in Workload, m \in Node : v # w \/ m # n =>
            result'.placed[v][m] = result.placed[v][m]
  BY <1>3 DEF Unit, Attempt
<1>10. /\ todo' \in [Workload -> [Symmetric -> Nat]]
       /\ todo'[w][g] = todo[w][g] - 1
       /\ \A v \in Workload, h \in Symmetric : v # w \/ h # g =>
             todo'[v][h] = todo[v][h]
  BY <1>3 DEF Unit
<1>11. result' \in Attempt /\ result'.edges = result.edges
  BY <1>3 DEF Unit
<1>12. RoundTypes'
  BY <1>1, <1>8, <1>11 DEF RoundTypes
<1>13. EdgesTold'
  BY <1>1, <1>2, <1>11 DEF EdgesTold
<1>14. ASSUME NEW v \in Workload
       PROVE  Total(todo'[v]) + Total(result'.placed[v]) \in {0, problem.replicas[v]}
  <2>1. Total(todo[v]) + Total(result.placed[v]) \in {0, problem.replicas[v]}
    BY <1>1 DEF RoundInv, Expanding
  <2>2. /\ DOMAIN todo[v] = Symmetric /\ DOMAIN todo'[v] = Symmetric
        /\ DOMAIN result.placed[v] = Node /\ DOMAIN result'.placed[v] = Node
        /\ \A h \in Symmetric : todo[v][h] \in Int /\ todo'[v][h] \in Int
        /\ \A m \in Node : result.placed[v][m] \in Int /\ result'.placed[v][m] \in Int
        /\ IsFiniteSet(Node) /\ IsFiniteSet(Symmetric)
    BY <1>1, <1>9, <1>10, GroupsOfNodes, ProblemFacts
  <2>3. /\ Total(todo[v]) = SumFunctionOnSet(todo[v], Symmetric)
        /\ Total(todo'[v]) = SumFunctionOnSet(todo'[v], Symmetric)
        /\ Total(result.placed[v]) = SumFunctionOnSet(result.placed[v], Node)
        /\ Total(result'.placed[v]) = SumFunctionOnSet(result'.placed[v], Node)
    BY <2>2 DEF Total
  <2>4. CASE v # w
    <3>1. SumFunctionOnSet(todo'[v], Symmetric) = SumFunctionOnSet(todo[v], Symmetric)
      BY <1>10, <2>2, <2>4, SumSame
    <3>2. SumFunctionOnSet(result'.placed[v], Node) = SumFunctionOnSet(result.placed[v], Node)
      BY <1>9, <2>2, <2>4, SumSame
    <3> QED BY <2>1, <2>3, <3>1, <3>2
  <2>5. CASE v = w
    <3>1. SumFunctionOnSet(todo'[v], Symmetric)
             = SumFunctionOnSet(todo[v], Symmetric) - todo[v][g] + todo'[v][g]
      BY <1>4, <1>10, <2>2, <2>5, SumChange
    <3>2. SumFunctionOnSet(result'.placed[v], Node)
             = SumFunctionOnSet(result.placed[v], Node) - result.placed[v][n] + result'.placed[v][n]
      BY <1>5, <1>9, <2>2, <2>5, SumChange
    <3>3. /\ SumFunctionOnSet(todo[v], Symmetric) \in Int
          /\ SumFunctionOnSet(result.placed[v], Node) \in Int
      BY <2>2, SumInt
    <3>4. /\ todo'[v][g] = todo[v][g] - 1 /\ result'.placed[v][n] = result.placed[v][n] + 1
          /\ todo[v][g] \in Int /\ result.placed[v][n] \in Int
      BY <1>4, <1>5, <1>9, <1>10, <2>2, <2>5
    <3> QED BY <2>1, <2>3, <3>1, <3>2, <3>3, <3>4
  <2> QED BY <2>4, <2>5
<1>15. ASSUME NEW m \in Node
       PROVE  left'[m] + Used(problem, result'.placed, m) <= problem.free[m]
  <2> DEFINE f == [v \in Workload |-> result.placed[v][m] * problem.gpus[v]]
             h == [v \in Workload |-> result'.placed[v][m] * problem.gpus[v]]
  <2>1. left[m] + Used(problem, result.placed, m) <= problem.free[m]
    BY <1>1 DEF RoundInv, Expanding
  <2>2. /\ Used(problem, result.placed, m) = SumFunctionOnSet(f, Workload)
        /\ Used(problem, result'.placed, m) = SumFunctionOnSet(h, Workload)
    BY DEF Used, Total
  <2>3. \A v \in Workload :
           /\ problem.gpus[v] \in Nat
           /\ result.placed[v][m] \in Nat /\ result'.placed[v][m] \in Nat
    BY <1>1, <1>9, ProblemFacts
  <2>4. \A v \in Workload : f[v] \in Int /\ h[v] \in Int
    BY <2>3, AtLeastOnce
  <2>5. \A v \in Workload : v # w \/ m # n => h[v] = f[v]
    BY <1>9
  <2>6. m = n => h[w] = f[w] + problem.gpus[w]
    <3>1. m = n => result'.placed[w][m] = result.placed[w][m] + 1
      BY <1>9
    <3>2. PICK a \in Nat, k \in Nat : a = problem.gpus[w] /\ k = result.placed[w][m]
      BY <1>4, <2>3
    <3>3. f[w] = k * a /\ (m = n => h[w] = (k + 1) * a)
      BY <1>4, <3>1, <3>2
    <3>4. (k + 1) * a = k * a + a
      BY <3>2, AtLeastOnce
    <3> QED BY <3>2, <3>3, <3>4
  <2> HIDE DEF f, h
  <2>7. SumFunctionOnSet(h, Workload) = SumFunctionOnSet(f, Workload) - f[w] + h[w]
    <3>1. IsFiniteSet(Workload) /\ w \in Workload
      BY <1>1, <1>4, ProblemFacts
    <3>2. \A v \in Workload \ {w} : h[v] = f[v]
      BY <2>5
    <3> QED BY <2>4, <3>1, <3>2, SumChange
  <2>8. SumFunctionOnSet(f, Workload) \in Int /\ f[w] \in Int
    BY <1>1, <1>4, <2>4, SumInt, ProblemFacts
  <2>9. left[m] \in Int /\ left'[m] \in Int /\ problem.free[m] \in Int
    BY <1>1, <1>8, ProblemFacts
  <2>10. CASE m = n
    BY <1>7, <1>8, <2>1, <2>2, <2>6, <2>7, <2>8, <2>9, <2>10
  <2>11. CASE m # n
    BY <1>4, <1>8, <2>1, <2>2, <2>5, <2>7, <2>8, <2>9, <2>11
  <2> QED BY <2>10, <2>11
<1>16. Expanding'
  <2>1. ASSUME NEW v \in Workload
        PROVE  /\ \A h \in Symmetric : todo'[v][h] > 0 => h \subseteq problem.suits[v]
               /\ \A m \in Node : result'.placed[v][m] > 0 => m \in problem.suits[v]
    <3>1. /\ \A h \in Symmetric : todo[v][h] > 0 => h \subseteq problem.suits[v]
          /\ \A m \in Node : result.placed[v][m] > 0 => m \in problem.suits[v]
      BY <1>1 DEF RoundInv, Expanding
    <3> QED BY <1>4, <1>5, <1>9, <1>10, <3>1
  <2> QED BY <1>1, <1>2, <1>10, <1>14, <1>15, <2>1 DEF Expanding
<1> QED BY <1>1, <1>2, <1>12, <1>13, <1>16 DEF RoundInv

\* With no unit waiting, everything is placed.
LEMMA ExpandedKeeps ==
    ASSUME RoundInv, Expanded
    PROVE  RoundInv'
<1>1. /\ problem \in Problems /\ RoundTypes /\ EdgesTold /\ Physical(accepted.placed)
      /\ UNCHANGED <<problem, limit, retries, todo, left, result, accepted>>
      /\ stage = "expand" /\ stage' = "judge" /\ Waiting = {}
      /\ left \in [Node -> Nat] /\ result \in Attempt
      /\ result.placed \in [Workload -> [Node -> Nat]]
      /\ todo \in [Workload -> [Symmetric -> Nat]]
  BY DEF RoundInv, RoundTypes, Expanded, Expanding, Attempt
<1>2. Physical(accepted.placed)' /\ \A max : Edges(max)' = Edges(max)
  BY <1>1, SameProblem DEF Physical
<1>3. ASSUME NEW w \in Workload
      PROVE  Total(result.placed[w]) \in {0, problem.replicas[w]}
  <2>1. DOMAIN todo[w] = Symmetric /\ \A g \in Symmetric : todo[w][g] = 0
    BY <1>1 DEF Waiting
  <2>2. Total(todo[w]) = 0
    BY <1>1, <2>1, SumZero, GroupsOfNodes DEF Total
  <2>3. Total(result.placed[w]) \in Int
    BY <1>1, SumInt, ProblemFacts DEF Total
  <2> QED BY <1>1, <2>2, <2>3 DEF RoundInv, Expanding
<1>4. ASSUME NEW n \in Node
      PROVE  Used(problem, result.placed, n) <= problem.free[n]
  <2>1. left[n] + Used(problem, result.placed, n) <= problem.free[n]
    BY <1>1 DEF RoundInv, Expanding
  <2>2. Used(problem, result.placed, n) \in Int
    <3> DEFINE f == [v \in Workload |-> result.placed[v][n] * problem.gpus[v]]
    <3>1. \A v \in Workload : result.placed[v][n] \in Nat /\ problem.gpus[v] \in Nat
      BY <1>1, ProblemFacts
    <3>2. \A v \in Workload : f[v] \in Int
      BY <3>1, AtLeastOnce
    <3>3. Used(problem, result.placed, n) = SumFunctionOnSet(f, Workload)
      BY DEF Used, Total
    <3> HIDE DEF f
    <3> QED BY <1>1, <3>2, <3>3, SumInt, ProblemFacts
  <2> QED BY <1>1, <2>1, <2>2, ProblemFacts
<1>5. Physical(result.placed)
  BY <1>1, <1>3, <1>4 DEF RoundInv, Expanding, Physical, PhysicalFor
<1>6. Physical(result.placed)'
  BY <1>1, <1>5 DEF Physical
<1> QED BY <1>1, <1>2, <1>6 DEF RoundInv, RoundTypes, Expanding, EdgesTold

\* The steps that judge what was solved, and those that start over.
LEMMA JudgingKeeps ==
    ASSUME RoundInv, ExpansionFails \/ Accept \/ KeepPrevious \/ Widen \/ Stop
    PROVE  RoundInv'
<1>1. /\ problem \in Problems /\ RoundTypes /\ EdgesTold /\ Physical(accepted.placed)
      /\ UNCHANGED <<problem, todo, left, result>>
      /\ accepted \in Trace /\ result \in Attempt
  BY DEF RoundInv, RoundTypes, ExpansionFails, Accept, KeepPrevious, Widen, Stop
<1>2. \A max : Edges(max)' = Edges(max)
  BY <1>1, SameProblem
<1>3. CASE ExpansionFails
  <2>1. Physical(accepted.placed)'
    BY <1>1, <1>3 DEF Physical, ExpansionFails
  <2> QED BY <1>1, <1>2, <1>3, <2>1 DEF ExpansionFails, RoundInv, RoundTypes, Expanding, EdgesTold
<1>4. CASE Accept
  <2>1. accepted' \in Trace /\ accepted'.placed = result.placed
        /\ accepted'.edges = result.edges /\ accepted'.limit = limit
    BY <1>1, <1>4 DEF Accept, Attempt, Trace, RoundTypes
  <2>2. Physical(result.placed) /\ stage = "judge" /\ stage' = "retry"
        /\ UNCHANGED <<limit, retries>>
    BY <1>4 DEF RoundInv, Accept
  <2>3. Physical(accepted.placed)'
    BY <1>1, <2>1, <2>2 DEF Physical
  <2> QED BY <1>1, <1>2, <2>1, <2>2, <2>3 DEF RoundInv, RoundTypes, Expanding, EdgesTold
<1>5. CASE KeepPrevious
  <2>1. accepted' \in Trace /\ accepted'.placed = accepted.placed
        /\ accepted'.edges = accepted.edges /\ accepted'.limit = accepted.limit
    BY <1>1, <1>5 DEF KeepPrevious, Trace, RoundTypes
  <2>2. stage = "judge" /\ stage' = "done" /\ UNCHANGED <<limit, retries>> /\ retries > 0
    BY <1>5 DEF KeepPrevious, Worse
  <2>3. Physical(accepted.placed)'
    BY <1>1, <2>1, <2>2 DEF Physical
  <2> QED BY <1>1, <1>2, <2>1, <2>2, <2>3 DEF RoundInv, RoundTypes, Expanding, EdgesTold
<1>6. CASE Widen
  <2>1. /\ stage = "retry" /\ stage' = "solve" /\ accepted' = accepted
        /\ limit # 0 /\ limit' \in Nat /\ retries' \in Nat
    BY <1>1, <1>6 DEF Widen, Suspicious, WidenedLimit, RoundTypes
  <2>2. Physical(accepted.placed)'
    BY <1>1, <2>1 DEF Physical
  <2> QED BY <1>1, <1>2, <2>1, <2>2 DEF RoundInv, RoundTypes, Expanding, EdgesTold
<1>7. CASE Stop
  <2>1. Physical(accepted.placed)'
    BY <1>1, <1>7 DEF Physical, Stop
  <2> QED BY <1>1, <1>2, <1>7, <2>1 DEF Stop, RoundInv, RoundTypes, Expanding, EdgesTold
<1> QED BY <1>3, <1>4, <1>5, <1>6, <1>7

(* Every step of the round keeps its invariant. *)
LEMMA NextRound == RoundInv /\ [Next]_vars => RoundInv'
<1> SUFFICES ASSUME RoundInv, [Next]_vars PROVE RoundInv'
  OBVIOUS
<1>1. CASE UNCHANGED vars
  <2>1. UNCHANGED <<problem, stage, limit, retries, todo, left, result, accepted>>
    BY <1>1 DEF vars
  <2>2. Physical(accepted.placed)' /\ (stage = "judge" => Physical(result.placed)')
    BY <2>1 DEF RoundInv, Physical
  <2>3. Symmetric' = Symmetric /\ \A max : Edges(max)' = Edges(max)
    BY <2>1, SameProblem
  <2> QED BY <2>1, <2>2, <2>3 DEF RoundInv, RoundTypes, Expanding, EdgesTold
<1> QED BY <1>1, GroupedKeeps, PhysicalKeeps, UnitKeeps, ExpandedKeeps, JudgingKeeps DEF Next

\* Whatever the solver answers, what is kept of it is well formed, and no node is left
\* with less than nothing while a grouped solution is expanded.
THEOREM RoundIsTyped == Spec => []TypeOK
<1>1. RoundInv /\ Progress => TypeOK
  BY DEF RoundInv, RoundTypes, Attempt, Trace, Progress, TypeOK
<1> QED BY <1>1, InitRound, NextRound, ProgressStarts, ProgressStays, PTL DEF Spec

\* Merging equal nodes, solving for the groups and expanding the answer (solve_attempt,
\* expand_grouped_solution_to_physical) gives a placement for the real nodes: whole
\* workloads, on nodes that suit them, within what is free.
THEOREM PlacementsArePhysical == Spec => []PlacementIsPhysical
<1>1. RoundInv => PlacementIsPhysical
  BY DEF RoundInv, Physical, PhysicalFor, Used, PlacementIsPhysical
<1> QED BY <1>1, InitRound, NextRound, PTL DEF Spec

\* If as many candidates were counted as with no limit, none was cut off.
LEMMA AllEdges ==
    ASSUME problem \in Problems, NEW max, Edges(0) <= Edges(max)
    PROVE  PrunedWorkloads(max) = {}
<1> DEFINE f == [w \in Workload |-> Cardinality(Candidates(w, max))]
           g == [w \in Workload |-> Cardinality(Candidates(w, 0))]
<1>1. \A w \in Workload : Candidates(w, 0) = problem.suits[w]
  BY DEF Candidates
<1>2. \A w \in Workload : /\ f[w] \in Int /\ g[w] \in Int /\ f[w] <= g[w]
                          /\ f[w] = g[w] => Candidates(w, max) = problem.suits[w]
  <2> TAKE w \in Workload
  <2>1. f[w] = Cardinality(Candidates(w, max)) /\ g[w] = Cardinality(problem.suits[w])
    BY <1>1
  <2>2. f[w] \in Int /\ g[w] \in Int
    BY <2>1, CandidatesSuit, FS_CardinalityType
  <2> HIDE DEF f, g
  <2> QED BY <2>1, <2>2, CandidatesSuit, FS_Subset
<1>3. Edges(max) = SumFunctionOnSet(f, Workload) /\ Edges(0) = SumFunctionOnSet(g, Workload)
  BY DEF Edges, Total
<1> HIDE DEF f, g
<1>4. \A w \in Workload : f[w] = g[w]
  BY <1>2, <1>3, SumSqueeze, ProblemFacts
<1> QED BY <1>2, <1>4 DEF PrunedWorkloads

\* A trace that calls its candidates full (summarize_candidate_quality) is of an attempt
\* that had every feasible node as a candidate.
THEOREM FullIsFull == Spec => []FullMeansFull
<1>1. ASSUME RoundInv, stage = "done",
             RegretStatus \in {"grouped_exact_if_equivalent",
                               "full_feasible_set", "full_retry"}
      PROVE  PrunedWorkloads(accepted.limit) = {}
  <2>1. /\ problem \in Problems /\ accepted.edges = Edges(accepted.limit)
        /\ problem.limit = 0 => accepted.limit = 0
        /\ accepted.limit \in Nat /\ problem.limit \in Nat
        /\ Edges(0) \in Nat /\ Edges(accepted.limit) \in Nat
        /\ accepted.retries \in Nat /\ accepted.grouped \in BOOLEAN
    BY <1>1, ProblemFacts, EdgesAreCounted DEF RoundInv, RoundTypes, EdgesTold, Trace
  <2>2. ~ PruningActive \/ accepted.edges >= Edges(0)
    BY <1>1, <2>1 DEF RegretStatus
  <2>3. CASE accepted.edges >= Edges(0)
    BY <2>1, <2>3, AllEdges
  <2>4. CASE problem.limit = 0
    BY <2>1, <2>4 DEF PrunedWorkloads, Candidates
  <2> QED BY <2>1, <2>2, <2>3, <2>4 DEF PruningActive
<1>2. RoundInv => FullMeansFull
  BY <1>1 DEF FullMeansFull
<1> QED BY <1>2, InitRound, NextRound, PTL DEF Spec
-----------------------------------------------------------------------------
(* The expansion of single pods whose sizes divide each other. *)

\* What the expansion takes from a node.
Taken(p, placed, n) ==
    Total([w \in Workload |-> placed[w][n] * (p.gpus[w] * p.replicas[w])])

\* What was taken and what is left is all there was, and no unit that waits is larger
\* than one that is placed.
LargeFirst ==
    stage = "expand" =>
        /\ \A n \in Node : left[n] + Taken(problem, result.placed, n) = problem.free[n]
        /\ \A v \in Workload, n \in Node : result.placed[v][n] > 0 =>
              \A w \in Waiting : Need(w) <= Need(v)

(* The GPUs a workload takes, as numbers. *)
LEMMA NeedFacts ==
    ASSUME problem \in Problems, NEW w \in Workload
    PROVE  /\ Need(w) \in Nat /\ Need(w) = problem.gpus[w] * problem.replicas[w]
           /\ \A k \in Nat : /\ k * Need(w) \in Nat
                             /\ (k + 1) * Need(w) = k * Need(w) + Need(w)
<1>1. Need(w) \in Nat /\ Need(w) = problem.gpus[w] * problem.replicas[w]
  BY ProblemFacts, AtLeastOnce DEF Need
<1> QED BY <1>1, AtLeastOnce

\* What a unit takes of its node is missing there afterwards.
LEMMA UnitIsTaken ==
    ASSUME RoundInv, LargeFirst, PlaceUnit, NEW w, NEW g, NEW n, Unit(w, g, n),
           NEW m \in Node
    PROVE  left'[m] + Taken(problem, result'.placed, m) = problem.free[m]
<1>1. /\ problem \in Problems /\ stage = "expand"
      /\ result.placed \in [Workload -> [Node -> Nat]]
      /\ result'.placed \in [Workload -> [Node -> Nat]]
      /\ left \in [Node -> Nat] /\ left' \in [Node -> Nat]
      /\ w \in Workload /\ n \in Node
  BY DEF RoundInv, RoundTypes, PlaceUnit, Attempt, Unit
<1> DEFINE f == [v \in Workload |-> result.placed[v][m] * (problem.gpus[v] * problem.replicas[v])]
           h == [v \in Workload |-> result'.placed[v][m] * (problem.gpus[v] * problem.replicas[v])]
<1>2. left[m] + Taken(problem, result.placed, m) = problem.free[m]
  BY <1>1 DEF LargeFirst
<1>3. /\ Taken(problem, result.placed, m) = SumFunctionOnSet(f, Workload)
      /\ Taken(problem, result'.placed, m) = SumFunctionOnSet(h, Workload)
  BY DEF Taken, Total
<1>4. \A v \in Workload : /\ f[v] = result.placed[v][m] * Need(v)
                          /\ h[v] = result'.placed[v][m] * Need(v)
  BY <1>1, NeedFacts
<1> HIDE DEF f, h
<1>5. \A v \in Workload : f[v] \in Int /\ h[v] \in Int
  <2> TAKE v \in Workload
  <2>1. result.placed[v][m] \in Nat /\ result'.placed[v][m] \in Nat
    BY <1>1
  <2>2. \A k \in Nat : k * Need(v) \in Nat
    BY <1>1, NeedFacts
  <2>3. f[v] \in Nat /\ h[v] \in Nat
    BY <1>4, <2>1, <2>2
  <2> QED BY <2>3
<1>6. \A v \in Workload : v # w \/ m # n => h[v] = f[v]
  BY <1>4 DEF Unit
<1>7. m = n => h[w] = f[w] + Need(w)
  <2>1. m = n => result'.placed[w][m] = result.placed[w][m] + 1
    BY DEF Unit
  <2>2. result.placed[w][m] \in Nat
    BY <1>1
  <2> QED BY <1>1, <1>4, <2>1, <2>2, NeedFacts
<1>8. SumFunctionOnSet(h, Workload) = SumFunctionOnSet(f, Workload) - f[w] + h[w]
  <2>1. \A v \in Workload \ {w} : h[v] = f[v]
    BY <1>6
  <2> QED BY <1>1, <1>5, <2>1, SumChange, ProblemFacts
<1>9. SumFunctionOnSet(f, Workload) \in Int /\ f[w] \in Int /\ Need(w) \in Int
  BY <1>1, <1>5, SumInt, ProblemFacts, NeedFacts
<1>10. left[m] \in Int /\ left'[m] \in Int /\ problem.free[m] \in Int
  BY <1>1, ProblemFacts
<1>11. CASE m = n
  <2>1. left'[m] = left[m] - Need(w)
    BY <1>11 DEF Unit
  <2> QED BY <1>2, <1>3, <1>7, <1>8, <1>9, <1>10, <1>11, <2>1
<1>12. CASE m # n
  <2>1. left'[m] = left[m] /\ h[w] = f[w]
    BY <1>1, <1>6, <1>12 DEF Unit
  <2> QED BY <1>2, <1>3, <1>8, <1>9, <1>10, <2>1
<1> QED BY <1>11, <1>12

\* Every step keeps the order of sizes.
LEMMA NextLargeFirst == RoundInv /\ LargeFirst /\ [Next]_vars => LargeFirst'
<1> SUFFICES ASSUME RoundInv, LargeFirst, [Next]_vars PROVE LargeFirst'
  OBVIOUS
<1>1. problem \in Problems /\ problem' = problem
  BY DEF RoundInv, RoundTypes, Next, SolveGrouped, SolvePhysical, PlaceUnit, ExpansionFails,
         Expanded, Accept, KeepPrevious, Widen, Stop, vars
<1>2. CASE SolveGrouped
  <2> SUFFICES ASSUME stage' = "expand" PROVE LargeFirst'
    BY DEF LargeFirst
  <2>1. left' = problem.free /\ result'.placed = Zero
    BY <1>2 DEF SolveGrouped
  <2>2. ASSUME NEW n \in Node PROVE left'[n] + Taken(problem', result'.placed, n) = problem'.free[n]
    <3> DEFINE f == [w \in Workload |-> Zero[w][n] * (problem.gpus[w] * problem.replicas[w])]
    <3>1. \A w \in Workload : f[w] = 0
      <4> TAKE w \in Workload
      <4>1. f[w] = Zero[w][n] * Need(w) /\ Zero[w][n] = 0 /\ Need(w) \in Nat
        BY <1>1, NeedFacts DEF Zero
      <4> HIDE DEF f
      <4> QED BY <4>1
    <3>2. Taken(problem, Zero, n) = SumFunctionOnSet(f, Workload)
      BY DEF Taken, Total
    <3> HIDE DEF f
    <3>3. Taken(problem, Zero, n) = 0
      BY <1>1, <3>1, <3>2, SumZero, ProblemFacts
    <3>4. problem.free[n] \in Int
      BY <1>1, ProblemFacts
    <3> QED BY <1>1, <2>1, <3>3, <3>4
  <2>3. \A v \in Workload, n \in Node : ~ (result'.placed[v][n] > 0)
    BY <2>1 DEF Zero
  <2> QED BY <2>2, <2>3 DEF LargeFirst
<1>3. CASE PlaceUnit
  <2>1. PICK w, g, n : Unit(w, g, n)
    BY <1>3, UnitFacts
  <2>2. \A m \in Node : left'[m] + Taken(problem', result'.placed, m) = problem'.free[m]
    BY <1>1, <1>3, <2>1, UnitIsTaken
  <2>3. stage = "expand" /\ \A v : Need(v)' = Need(v)
    BY <1>1, <1>3 DEF PlaceUnit, Need
  <2>4. Waiting' \subseteq Waiting
    <3>1. todo \in [Workload -> [Symmetric -> Nat]]
      BY <2>3 DEF RoundInv, Expanding
    <3>2. \A v \in Workload, h \in Symmetric : todo'[v][h] > 0 => todo[v][h] > 0
      BY <2>1, <3>1 DEF Unit
    <3>3. \A v \in Workload : DOMAIN todo'[v] = Symmetric
      BY <2>1 DEF Unit
    <3> QED BY <3>1, <3>2, <3>3 DEF Waiting
  <2>5. ASSUME NEW v \in Workload, NEW m \in Node, result'.placed[v][m] > 0, NEW u \in Waiting
        PROVE  Need(u) <= Need(v)
    <3>1. CASE v = w
      <4>1. u \in Workload /\ w \in Workload
        BY <2>1 DEF Waiting, Unit
      <4>2. Need(u) \in Int /\ Need(w) \in Int
        BY <1>1, <4>1, NeedFacts
      <4>3. Need(u) < Need(w) \/ Need(u) = Need(w)
        BY <2>1 DEF Unit, InOrder
      <4> QED BY <3>1, <4>2, <4>3
    <3>2. CASE v # w
      BY <2>1, <2>3, <2>5, <3>2 DEF Unit, LargeFirst
    <3> QED BY <3>1, <3>2
  <2> QED BY <2>2, <2>3, <2>4, <2>5 DEF LargeFirst
<1>4. CASE UNCHANGED vars
  BY <1>4 DEF vars, LargeFirst, Taken, Total, Waiting, Need
<1>5. CASE SolvePhysical \/ ExpansionFails \/ Expanded \/ Accept \/ KeepPrevious \/ Widen \/ Stop
  BY <1>5 DEF SolvePhysical, ExpansionFails, Expanded, Accept, KeepPrevious, Widen, Stop,
              LargeFirst
<1> QED BY <1>2, <1>3, <1>4, <1>5 DEF Next

\* What multiples of s fit into more room than is wasted fit without it.
LEMMA NoRoomIsWasted ==
    \A s, a, d, rest \in Nat : rest < s /\ s * a <= rest + s * d => s * a <= s * d
<1> SUFFICES ASSUME NEW s \in Nat, NEW a \in Nat, NEW d \in Nat, NEW rest \in Nat,
                    rest < s, s * a <= rest + s * d
             PROVE  s * a <= s * d
  OBVIOUS
<1>1. \A x, y \in Nat : s * (x + y) = s * x + s * y /\ s * x \in Nat
  OBVIOUS
<1>2. CASE a <= d
  <2>1. PICK e \in Nat : d = a + e
    <3>1. d - a \in Nat /\ d = a + (d - a)
      BY <1>2
    <3> QED BY <3>1
  <2>2. s * d = s * a + s * e /\ s * e \in Nat /\ s * a \in Nat
    BY <1>1, <2>1
  <2> QED BY <2>2
<1>3. CASE a > d
  <2>1. PICK e \in Nat : a = (d + 1) + e
    <3>1. a - (d + 1) \in Nat /\ a = (d + 1) + (a - (d + 1))
      BY <1>3
    <3> QED BY <3>1
  <2>2. s * a = s * (d + 1) + s * e /\ s * e \in Nat
    BY <1>1, <2>1
  <2>3. s * (d + 1) = s * d + s /\ s * d \in Nat
    OBVIOUS
  <2> QED BY <2>2, <2>3
<1> QED BY <1>2, <1>3

\* A size that is no smaller than another one it divides, or is divided by, is a
\* multiple of it.
LEMMA LargeIsMultiple ==
    ASSUME NEW a \in Nat, NEW b \in Nat, 0 < b, b <= a, Multiple(a, b) \/ Multiple(b, a)
    PROVE  \E k \in Nat : a = b * k
<1>1. CASE Multiple(a, b)
  <2>1. PICK k \in 0..a : a = k * b
    BY <1>1 DEF Multiple
  <2>2. k \in Nat /\ k * b = b * k
    BY <2>1
  <2> QED BY <2>1, <2>2
<1>2. CASE Multiple(b, a)
  <2>1. PICK k \in 0..b : b = k * a
    BY <1>2 DEF Multiple
  <2>2. k # 0
    BY <2>1
  <2>3. PICK j \in Nat : k = j + 1
    <3>1. k - 1 \in Nat /\ k = (k - 1) + 1
      BY <2>1, <2>2
    <3> QED BY <3>1
  <2>4. (j + 1) * a = j * a + a /\ j * a \in Nat
    BY <2>3
  <2>5. a = b
    BY <2>1, <2>3, <2>4
  <2>6. b = b * 1
    OBVIOUS
  <2> QED BY <2>5, <2>6
<1> QED BY <1>1, <1>2

\* What the workloads S take of a node; how often v is placed in a group.
OnNode(q, S, n) == SumFunctionOnSet([v \in S |-> q[v][n] * Need(v)], S)

InGroup(q, g, v) == SumFunctionOnSet(q[v], g)

Placing == [Workload -> [Node -> Nat]]

(* Both are numbers. *)
LEMMA CountFacts ==
    ASSUME problem \in Problems, NEW q \in Placing, NEW S \in SUBSET Workload,
           NEW g \in SUBSET Node
    PROVE  /\ IsFiniteSet(S) /\ IsFiniteSet(g)
           /\ \A n \in Node : \A v \in Workload : q[v][n] * Need(v) \in Nat
           /\ \A n \in Node : OnNode(q, S, n) \in Nat
           /\ \A v \in Workload : InGroup(q, g, v) \in Nat
<1>1. IsFiniteSet(S) /\ IsFiniteSet(g)
  BY ProblemFacts, FS_Subset
<1>2. ASSUME NEW n \in Node, NEW v \in Workload PROVE q[v][n] * Need(v) \in Nat
  <2>1. q[v][n] \in Nat
    BY DEF Placing
  <2>2. \A k \in Nat : k * Need(v) \in Nat
    BY NeedFacts
  <2> QED BY <2>1, <2>2
<1>3. ASSUME NEW n \in Node PROVE OnNode(q, S, n) \in Nat
  <2> DEFINE f == [v \in S |-> q[v][n] * Need(v)]
  <2>1. \A v \in S : f[v] \in Nat
    BY <1>2
  <2>2. SumFunctionOnSet(f, S) \in Nat
    <3> HIDE DEF f
    <3> QED BY <1>1, <2>1, SumNat
  <2> QED BY <2>2 DEF OnNode
<1>4. ASSUME NEW v \in Workload PROVE InGroup(q, g, v) \in Nat
  <2>1. \A n \in g : q[v][n] \in Nat
    BY DEF Placing
  <2> QED BY <1>1, <2>1, SumNat DEF InGroup
<1> QED BY <1>1, <1>2, <1>3, <1>4

\* The GPUs taken in a group, node by node and workload by workload.
LEMMA ByNodeOrByWorkload ==
    ASSUME problem \in Problems, NEW q \in Placing, NEW S \in SUBSET Workload,
           NEW g \in SUBSET Node
    PROVE  SumFunctionOnSet([v \in S |-> InGroup(q, g, v) * Need(v)], S)
              = SumFunctionOnSet([n \in g |-> OnNode(q, S, n)], g)
<1> DEFINE weight  == [v \in S |-> Need(v)]
           table   == [n \in g |-> [v \in S |-> q[v][n] * Need(v)]]
           rows    == [v \in S |-> InGroup(q, g, v) * Need(v)]
           columns == [n \in g |-> OnNode(q, S, n)]
<1>1. IsFiniteSet(S) /\ IsFiniteSet(g)
  BY CountFacts
<1>2. \A v \in S : weight[v] = Need(v) /\ weight[v] \in Nat
  BY NeedFacts
<1>3. \A v \in S : \A n \in g : q[v][n] \in Nat /\ table[n][v] = q[v][n] * weight[v]
  BY DEF Placing
<1>4. \A v \in S : rows[v] = SumFunctionOnSet(q[v], g) * weight[v]
  BY DEF InGroup
<1>5. \A n \in g : columns[n] = SumFunctionOnSet(table[n], S)
  <2> TAKE n \in g
  <2>1. columns[n] = OnNode(q, S, n)
    OBVIOUS
  <2>2. table[n] = [v \in S |-> q[v][n] * Need(v)]
    OBVIOUS
  <2> HIDE DEF table, columns
  <2> QED BY <2>1, <2>2, Zenon DEF OnNode
<1>6. \A v \in S : weight[v] \in Nat
  BY <1>2
<1>7. SumFunctionOnSet(rows, S) = SumFunctionOnSet(columns, g)
  <2> HIDE DEF weight, table, rows, columns
  <2>1. WeighedTable(q, weight, table, S, g, rows, columns)
    BY <1>1, <1>3, <1>4, <1>5, <1>6 DEF WeighedTable
  <2> QED BY <2>1, SumWeighed
<1> QED BY <1>7

(* Each of its terms is a number. *)
LEMMA TermFacts ==
    ASSUME problem \in Problems, NEW q \in Placing, NEW v \in Workload, NEW n \in Node
    PROVE  q[v][n] * Need(v) \in Nat
<1>1. q[v][n] \in Nat
  BY DEF Placing
<1>2. \A k \in Nat : k * Need(v) \in Nat
  BY NeedFacts
<1> QED BY <1>1, <1>2

\* What workloads of sizes that are multiples of s take of a node is a multiple of s.
LEMMA MultiplesOnNode ==
    ASSUME problem \in Problems, NEW q \in Placing, NEW S \in SUBSET Workload,
           NEW s \in Nat, \A v \in S : \E k \in Nat : Need(v) = s * k, NEW n \in Node
    PROVE  \E k \in Nat : OnNode(q, S, n) = s * k
<1> DEFINE f == [v \in S |-> q[v][n] * Need(v)]
<1>1. ASSUME NEW v \in S PROVE \E k \in Nat : f[v] = s * k
  <2>1. PICK k \in Nat : Need(v) = s * k
    OBVIOUS
  <2>2. PICK a \in Nat : a = q[v][n]
    BY DEF Placing
  <2>3. f[v] = a * (s * k)
    BY <2>1, <2>2
  <2>4. \A x, y, z \in Nat : x * (y * z) = y * (x * z) /\ x * z \in Nat
    OBVIOUS
  <2> HIDE DEF f
  <2>5. f[v] = s * (a * k) /\ a * k \in Nat
    BY <2>3, <2>4
  <2> QED BY <2>5
<1>2. OnNode(q, S, n) = SumFunctionOnSet(f, S)
  BY DEF OnNode
<1>3. IsFiniteSet(S)
  BY CountFacts
<1>4. \A v \in S : \E k \in Nat : f[v] = s * k
  BY <1>1
<1> HIDE DEF f
<1>5. \E k \in Nat : SumFunctionOnSet(f, S) = s * k
  BY <1>3, <1>4, SumMultiple
<1> QED BY <1>2, <1>5

(* Single pods take what their only replica needs. *)
LEMMA OnNodeIsUsed ==
    ASSUME problem \in Problems, NEW q \in Placing, NEW S \in SUBSET Workload,
           \A v \in Workload : problem.replicas[v] = 1, NEW n \in Node
    PROVE  OnNode(q, S, n) <= Used(problem, q, n)
<1> DEFINE f == [v \in S |-> q[v][n] * Need(v)]
           h == [v \in Workload |-> q[v][n] * problem.gpus[v]]
<1>1. \A v \in Workload : Need(v) = problem.gpus[v]
  BY ProblemFacts DEF Need
<1>2. \A v \in S : f[v] \in Nat /\ f[v] = h[v]
  BY <1>1, TermFacts
<1>3. \A v \in Workload : h[v] \in Nat
  BY <1>1, TermFacts
<1>4. OnNode(q, S, n) = SumFunctionOnSet(f, S)
  BY DEF OnNode
<1>5. Used(problem, q, n) = SumFunctionOnSet(h, Workload)
  BY DEF Used, Total
<1> HIDE DEF f, h
<1>6. \A v \in S : f[v] \in Nat /\ f[v] <= h[v]
  BY <1>2
<1>7. IsFiniteSet(Workload)
  BY ProblemFacts
<1> QED BY <1>3, <1>4, <1>5, <1>6, <1>7, SumGrows

\* While w waits, all that is placed is at least as large.
LEMMA OnlyLarge ==
    ASSUME RoundInv, LargeFirst, stage = "expand", NEW w \in Waiting, NEW n \in Node
    PROVE  left[n] + OnNode(result.placed, {v \in Workload : Need(w) <= Need(v)}, n)
              = problem.free[n]
<1>1. problem \in Problems /\ result.placed \in Placing
  BY DEF RoundInv, RoundTypes, Attempt, Placing
<1> DEFINE S == {v \in Workload : Need(w) <= Need(v)}
           R == Workload \ S
           f == [v \in Workload |-> result.placed[v][n] * (problem.gpus[v] * problem.replicas[v])]
           h == [v \in S |-> result.placed[v][n] * Need(v)]
<1>2. \A v \in Workload : f[v] = result.placed[v][n] * Need(v) /\ f[v] \in Int
  <2> TAKE v \in Workload
  <2>1. f[v] = result.placed[v][n] * Need(v)
    BY <1>1, NeedFacts
  <2>2. result.placed[v][n] * Need(v) \in Nat
    BY <1>1, TermFacts
  <2> HIDE DEF f
  <2> QED BY <2>1, <2>2
<1>3. \A v \in S : h[v] = f[v]
  BY <1>2
<1>4. ASSUME NEW v \in R PROVE f[v] = 0
  <2>1. result.placed[v][n] \in Nat /\ ~ (result.placed[v][n] > 0)
    BY <1>1 DEF LargeFirst, Placing
  <2>2. Need(v) \in Nat
    BY <1>1, NeedFacts
  <2> QED BY <1>2, <2>1, <2>2
<1>5. Taken(problem, result.placed, n) = SumFunctionOnSet(f, Workload)
  BY DEF Taken, Total
<1>6. OnNode(result.placed, S, n) = SumFunctionOnSet(h, S)
  BY DEF OnNode
<1>7. /\ S \cup R = Workload /\ S \cap R = {} /\ IsFiniteSet(S) /\ IsFiniteSet(R)
      /\ S \subseteq Workload
  BY <1>1, ProblemFacts, FS_Subset
<1>8. left[n] + Taken(problem, result.placed, n) = problem.free[n]
  BY DEF LargeFirst
<1> HIDE DEF f, h, S, R
<1>9. SumFunctionOnSet(f, S \cup R) = SumFunctionOnSet(f, S) + SumFunctionOnSet(f, R)
  BY <1>2, <1>7, SumUnion
<1>10. SumFunctionOnSet(f, S \cup R) = SumFunctionOnSet(f, Workload)
  BY <1>7, Zenon
<1>11. SumFunctionOnSet(f, R) = 0
  BY <1>4, <1>7, SumZero
<1>12. SumFunctionOnSet(h, S) = SumFunctionOnSet(f, S)
  BY <1>3, <1>7, SumSame
<1>13. SumFunctionOnSet(f, S) \in Int
  BY <1>2, <1>7, SumInt
<1>14. left[n] + OnNode(result.placed, S, n) = problem.free[n]
  BY <1>5, <1>6, <1>8, <1>9, <1>10, <1>11, <1>12, <1>13
<1> QED BY <1>14 DEF S

\* Where no unit of w fits any more, no placement for the real nodes puts more that is
\* as large.
LEMMA FullNodes ==
    ASSUME RoundInv, LargeFirst, stage = "expand", SizesDivide,
           \A v \in Workload : problem.replicas[v] = 1,
           NEW w \in Waiting, NEW n \in Node, left[n] < Need(w),
           NEW c \in Placing, Physical(c)
    PROVE  LET S == {v \in Workload : Need(w) <= Need(v)}
           IN  OnNode(c, S, n) <= OnNode(result.placed, S, n)
<1> DEFINE S == {v \in Workload : Need(w) <= Need(v)}
           s == Need(w)
           p == result.placed
<1>1. /\ problem \in Problems /\ p \in Placing /\ w \in Workload
      /\ left[n] \in Nat /\ problem.free[n] \in Nat
  BY ProblemFacts DEF RoundInv, RoundTypes, Attempt, Placing, Waiting
<1>2. s \in Nat /\ S \in SUBSET Workload /\ 0 < s
  <2>1. s \in Nat /\ left[n] < s
    BY <1>1, NeedFacts
  <2>2. S \in SUBSET Workload
    OBVIOUS
  <2> HIDE DEF s, S
  <2> QED BY <1>1, <2>1, <2>2
<1>3. ASSUME NEW v \in S PROVE \E k \in Nat : Need(v) = s * k
  <2>1. Need(v) \in Nat /\ s <= Need(v)
    BY <1>1, NeedFacts
  <2>2. Multiple(Need(v), s) \/ Multiple(s, Need(v))
    BY <1>1 DEF SizesDivide
  <2> HIDE DEF s
  <2> QED BY <1>2, <2>1, <2>2, LargeIsMultiple
<1>4. left[n] + OnNode(p, S, n) = problem.free[n]
  BY OnlyLarge
<1> HIDE DEF S, s, p
<1>5. PICK a \in Nat : OnNode(c, S, n) = s * a
  BY <1>1, <1>2, <1>3, MultiplesOnNode
<1>6. PICK d \in Nat : OnNode(p, S, n) = s * d
  BY <1>1, <1>2, <1>3, MultiplesOnNode
<1>7. OnNode(c, S, n) <= Used(problem, c, n) /\ Used(problem, c, n) <= problem.free[n]
  BY <1>1, <1>2, OnNodeIsUsed DEF Physical, PhysicalFor
<1>8. Used(problem, c, n) \in Int
  <2> DEFINE h == [v \in Workload |-> c[v][n] * problem.gpus[v]]
  <2>1. \A v \in Workload : h[v] \in Int
    <3>1. \A v \in Workload : Need(v) = problem.gpus[v]
      BY <1>1, ProblemFacts DEF Need
    <3>2. \A v \in Workload : c[v][n] * Need(v) \in Nat
      BY <1>1, TermFacts
    <3>3. \A v \in Workload : h[v] = c[v][n] * Need(v)
      BY <3>1
    <3> HIDE DEF h
    <3> QED BY <3>2, <3>3
  <2>2. Used(problem, c, n) = SumFunctionOnSet(h, Workload)
    BY DEF Used, Total
  <2> HIDE DEF h
  <2> QED BY <1>1, <2>1, <2>2, SumInt, ProblemFacts
<1>9. s * a \in Nat /\ s * d \in Nat
  <2>1. \A x, y \in Nat : x * y \in Nat
    OBVIOUS
  <2> QED BY <1>2, <1>5, <1>6, <2>1
<1>10. s * a <= left[n] + s * d
  BY <1>1, <1>4, <1>5, <1>6, <1>7, <1>8, <1>9
<1>11. left[n] < s
  BY DEF s
<1>12. s * a <= s * d
  BY <1>1, <1>2, <1>10, <1>11, NoRoomIsWasted
<1>13. OnNode(c, S, n) <= OnNode(p, S, n)
  BY <1>5, <1>6, <1>12
<1> QED BY <1>13 DEF S, p

\* In the group g, c takes as many GPUs for the workloads S as p and further units.
Outweighs(c, p, S, g, units) ==
    LET onC  == [n \in g |-> OnNode(c, S, n)]
        onP  == [n \in g |-> OnNode(p, S, n)]
        rest == [v \in S |-> units[v] * Need(v)]
    IN  /\ SumFunctionOnSet(onC, g) = SumFunctionOnSet(rest, S) + SumFunctionOnSet(onP, g)
        /\ \A v \in S : units[v] * Need(v) <= SumFunctionOnSet(rest, S)
        /\ SumFunctionOnSet(onP, g) \in Int /\ SumFunctionOnSet(rest, S) \in Int

\* What is to be placed weighs as many GPUs in a group as a solution puts there beyond
\* what is placed.
LEMMA WeighedGroup ==
    ASSUME problem \in Problems, NEW p \in Placing, NEW c \in Placing,
           NEW S \in SUBSET Workload, NEW g \in SUBSET Node,
           NEW units,
           \A v \in S : units[v] \in Nat /\ InGroup(c, g, v) = units[v] + InGroup(p, g, v)
    PROVE  Outweighs(c, p, S, g, units)
<1> DEFINE ofC   == [v \in S |-> InGroup(c, g, v) * Need(v)]
           ofP   == [v \in S |-> InGroup(p, g, v) * Need(v)]
           rest  == [v \in S |-> units[v] * Need(v)]
           onC   == [n \in g |-> OnNode(c, S, n)]
           onP   == [n \in g |-> OnNode(p, S, n)]
<1>1. IsFiniteSet(S) /\ IsFiniteSet(g)
  BY CountFacts
<1>2. ASSUME NEW v \in S
      PROVE  rest[v] \in Nat /\ ofP[v] \in Nat /\ ofC[v] = rest[v] + ofP[v]
  <2>1. InGroup(p, g, v) \in Nat /\ units[v] \in Nat /\ Need(v) \in Nat
    BY CountFacts, NeedFacts
  <2>2. ofC[v] = (units[v] + InGroup(p, g, v)) * Need(v)
    OBVIOUS
  <2>3. rest[v] = units[v] * Need(v) /\ ofP[v] = InGroup(p, g, v) * Need(v)
    OBVIOUS
  <2>4. \A x, y, z \in Nat : (x + y) * z = x * z + y * z /\ x * z \in Nat /\ y * z \in Nat
    OBVIOUS
  <2> HIDE DEF ofC, ofP, rest
  <2>5. /\ (units[v] + InGroup(p, g, v)) * Need(v)
              = units[v] * Need(v) + InGroup(p, g, v) * Need(v)
        /\ units[v] * Need(v) \in Nat /\ InGroup(p, g, v) * Need(v) \in Nat
    BY <2>1, <2>4
  <2> QED BY <2>2, <2>3, <2>5, Zenon
<1>3. /\ SumFunctionOnSet(ofC, S) = SumFunctionOnSet(onC, g)
      /\ SumFunctionOnSet(ofP, S) = SumFunctionOnSet(onP, g)
  BY ByNodeOrByWorkload
<1> HIDE DEF ofC, ofP, rest, onC, onP
<1>4. \A v \in S : rest[v] \in Int /\ ofP[v] \in Int /\ ofC[v] = rest[v] + ofP[v]
  BY <1>2
<1>5. SumFunctionOnSet(ofC, S) = SumFunctionOnSet(rest, S) + SumFunctionOnSet(ofP, S)
  BY <1>1, <1>4, SumAdd
<1>6. SumFunctionOnSet(rest, S) \in Int /\ SumFunctionOnSet(ofP, S) \in Int
  BY <1>1, <1>4, SumInt
<1>7. ASSUME NEW v \in S PROVE rest[v] <= SumFunctionOnSet(rest, S)
  <2>0. \A u \in S : rest[u] \in Int
    BY <1>4
  <2>1. /\ SumFunctionOnSet(rest, S) = rest[v] + SumFunctionOnSet(rest, S \ {v})
        /\ SumFunctionOnSet(rest, S \ {v}) \in Int
    BY <1>1, <2>0, SumRemove
  <2>2. SumFunctionOnSet(rest, S \ {v}) \in Nat
    <3>1. IsFiniteSet(S \ {v}) /\ \A u \in S \ {v} : rest[u] \in Nat
      BY <1>1, <1>2, FS_RemoveElement
    <3> QED BY <3>1, SumNat
  <2> QED BY <1>2, <2>1, <2>2
<1>8. \A v \in S : rest[v] = units[v] * Need(v)
  BY DEF rest
<1>9. /\ SumFunctionOnSet(onC, g) = SumFunctionOnSet(rest, S) + SumFunctionOnSet(onP, g)
      /\ \A v \in S : units[v] * Need(v) <= SumFunctionOnSet(rest, S)
      /\ SumFunctionOnSet(onP, g) \in Int /\ SumFunctionOnSet(rest, S) \in Int
  BY <1>3, <1>5, <1>6, <1>7, <1>8
<1> QED BY <1>9, Zenon DEF rest, onC, onP, Outweighs

\* A unit that finds no room finds none in any placement for the real nodes that takes
\* as much from each group.
LEMMA NothingHelps ==
    ASSUME RoundInv, LargeFirst, stage = "expand", SizesDivide,
           \A v \in Workload : problem.replicas[v] = 1, Unplaceable, Packable
    PROVE  FALSE
<1>1. /\ problem \in Problems /\ result.placed \in Placing
      /\ left \in [Node -> Nat] /\ todo \in [Workload -> [Symmetric -> Nat]]
  BY DEF RoundInv, RoundTypes, Attempt, Placing, Expanding
<1>2. PICK w \in Waiting, g \in Symmetric : todo[w][g] > 0 /\ RoomFor(w, g) = {}
  BY <1>1 DEF Unplaceable, Waiting
<1>3. PICK counts \in Solutions(Single) :
         \A v \in Workload : \A h \in DOMAIN todo[v] :
            Total([n \in h |-> counts[v][{n}]])
               = todo[v][h] + Total([n \in h |-> result.placed[v][n]])
  BY DEF Packable
<1> DEFINE c == [v \in Workload |-> [n \in Node |-> counts[v][{n}]]]
           p == result.placed
           S == {v \in Workload : Need(w) <= Need(v)}
           units == [v \in S |-> todo[v][g]]
           onC == [n \in g |-> OnNode(c, S, n)]
           onP == [n \in g |-> OnNode(p, S, n)]
<1>4. c \in Placing /\ Physical(c)
  BY <1>1, PhysicalSolution DEF Placing
<1>5. /\ w \in Workload /\ w \in S /\ S \in SUBSET Workload /\ g \in SUBSET Node
      /\ Need(w) \in Nat
  <2>1. w \in Workload
    BY DEF Waiting
  <2>2. Need(w) \in Nat
    BY <1>1, <2>1, NeedFacts
  <2>3. g \in SUBSET Node
    BY <1>1, GroupsOfNodes
  <2> QED BY <2>1, <2>2, <2>3
<1>6. \A n \in g : left[n] < Need(w)
  <2> TAKE n \in g
  <2>1. left[n] \in Nat /\ ~ (left[n] >= Need(w))
    BY <1>1, <1>2, <1>5 DEF RoomFor
  <2> QED BY <1>5, <2>1
<1>7. ASSUME NEW n \in g PROVE OnNode(c, S, n) <= OnNode(p, S, n)
  <2>1. n \in Node /\ left[n] < Need(w)
    BY <1>5, <1>6
  <2> HIDE DEF c
  <2> QED BY <1>4, <2>1, FullNodes
<1>8. ASSUME NEW v \in S
      PROVE  units[v] \in Nat /\ InGroup(c, g, v) = units[v] + InGroup(p, g, v)
  <2> DEFINE cg == [n \in g |-> counts[v][{n}]]
             pg == [n \in g |-> result.placed[v][n]]
  <2>1. v \in Workload /\ g \in DOMAIN todo[v] /\ units[v] = todo[v][g] /\ units[v] \in Nat
    BY <1>1
  <2>2. Total(cg) = todo[v][g] + Total(pg)
    BY <1>3, <2>1
  <2>3. Total(cg) = SumFunctionOnSet(cg, g) /\ Total(pg) = SumFunctionOnSet(pg, g)
    BY DEF Total
  <2>4. \A n \in g : c[v][n] = cg[n]
    BY <1>5, <2>1
  <2>5. \A n \in g : p[v][n] = pg[n]
    OBVIOUS
  <2>6. IsFiniteSet(g)
    BY <1>1, <1>5, ProblemFacts, FS_Subset
  <2>7. InGroup(c, g, v) = SumFunctionOnSet(c[v], g) /\ InGroup(p, g, v) = SumFunctionOnSet(p[v], g)
    BY DEF InGroup
  <2> HIDE DEF c, p, cg, pg, units
  <2>8. SumFunctionOnSet(c[v], g) = SumFunctionOnSet(cg, g)
    BY <2>4, <2>6, SumSame
  <2>9. SumFunctionOnSet(p[v], g) = SumFunctionOnSet(pg, g)
    BY <2>5, <2>6, SumSame
  <2> QED BY <2>1, <2>2, <2>3, <2>7, <2>8, <2>9
<1>9. \A v \in S : units[v] \in Nat /\ InGroup(c, g, v) = units[v] + InGroup(p, g, v)
  BY <1>8
<1>10. IsFiniteSet(g)
  BY <1>1, <1>5, ProblemFacts, FS_Subset
<1>11. units[w] = todo[w][g]
  BY <1>5
<1>12. /\ \A n \in g : onC[n] = OnNode(c, S, n) /\ onP[n] = OnNode(p, S, n)
       /\ p \in Placing
  BY <1>1
<1>13. \A n \in g : n \in Node
  BY <1>5
<1> HIDE DEF c, p, S, units
<1>14. \A n \in g : onC[n] \in Int /\ onP[n] \in Int /\ onC[n] <= onP[n]
  <2> TAKE n \in g
  <2>1. OnNode(c, S, n) \in Nat
    BY <1>1, <1>4, <1>5, <1>13, CountFacts
  <2>2. OnNode(p, S, n) \in Nat
    BY <1>1, <1>5, <1>12, <1>13, CountFacts
  <2> HIDE DEF onC, onP
  <2> QED BY <1>7, <1>12, <2>1, <2>2
<1> DEFINE rest == [v \in S |-> units[v] * Need(v)]
<1>15. /\ SumFunctionOnSet(onC, g) = SumFunctionOnSet(rest, S) + SumFunctionOnSet(onP, g)
       /\ units[w] * Need(w) <= SumFunctionOnSet(rest, S)
       /\ SumFunctionOnSet(onP, g) \in Int /\ SumFunctionOnSet(rest, S) \in Int
  <2>1. Outweighs(c, p, S, g, units)
    BY <1>1, <1>4, <1>5, <1>9, <1>12, WeighedGroup
  <2> QED BY <1>5, <2>1, Zenon DEF Outweighs
<1> HIDE DEF rest
<1> HIDE DEF onC, onP
<1>16. SumFunctionOnSet(onC, g) <= SumFunctionOnSet(onP, g)
  BY <1>10, <1>14, SumMonotone
<1>17. units[w] * Need(w) <= 0
  <2>1. units[w] * Need(w) \in Nat
    <3>1. units[w] \in Nat
      BY <1>5, <1>9
    <3>2. \A x, y \in Nat : x * y \in Nat
      OBVIOUS
    <3> QED BY <1>5, <3>1, <3>2
  <2> QED BY <1>15, <1>16, <2>1
<1>18. \E n \in g : TRUE
  BY <1>2 DEF Symmetric
<1>19. 0 < Need(w)
  BY <1>1, <1>5, <1>6, <1>13, <1>18
<1>20. Need(w) <= units[w] * Need(w)
  <2>1. \A x \in Nat \ {0}, y \in Nat : y <= x * y
    <3> TAKE x \in Nat \ {0}, y \in Nat
    <3>1. y <= y * x
      BY AtLeastOnce
    <3> QED BY <3>1
  <2>2. units[w] \in Nat \ {0}
    BY <1>2, <1>5, <1>9, <1>11
  <2> QED BY <1>5, <2>1, <2>2
<1>21. units[w] * Need(w) \in Int
  BY <1>5, <1>9
<1> QED BY <1>5, <1>17, <1>19, <1>20, <1>21

\* For single pods whose sizes divide each other the expansion
\* (expand_grouped_solution_to_physical in pending_input.rs) gives up only where no
\* solution on the real nodes would take as much from each group.
THEOREM PodsExpand == Spec => []PodsAreExpanded
<1>1. Init => LargeFirst
  BY DEF Init, LargeFirst
<1>2. RoundInv /\ LargeFirst => PodsAreExpanded
  BY NothingHelps DEF PodsAreExpanded, ExpansionIsExact
<1> QED BY <1>1, <1>2, InitRound, NextRound, NextLargeFirst, PTL DEF Spec
=============================================================================
