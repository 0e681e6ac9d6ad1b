----------------------------- MODULE SolveRound -----------------------------
(***************************************************************************)
(* One round of solving (run_one_solve in shadow.rs).  An attempt prunes   *)
(* the candidate nodes of every workload, may merge equal nodes into       *)
(* counted groups, solves, and expands a grouped solution to real nodes    *)
(* one replica at a time, falling back to the real nodes where that fails  *)
(* (solve_attempt, pending_input.rs).  A suspicious result makes the round *)
(* try again with more candidates.  The solver is an oracle that returns   *)
(* any solution of its constraints (cpsat_rust.rs), or none.               *)
(***************************************************************************)
EXTENDS Integers, FiniteSets, FiniteSetsExt, Functions, Selections

CONSTANTS
    Node, Workload,         \* numbers, in the order of the names
    Problems,               \* what may be there to solve
    MinAdmission,           \* candidate_widen_min_admission_percent
    NodeGrouping            \* enable_node_grouping

\* A problem: free GPUs of each node; for each workload its GPUs per replica, its
\* replicas (group_size), the nodes that suit one replica and their order as
\* candidates; the workloads with a priority or deadline, and those bound to miss it;
\* and candidate_node_limit, where 0 is no limit.
ASSUME ProblemsAssumption ==
    /\ Node \subseteq Nat /\ Workload \subseteq Nat
    /\ IsFiniteSet(Node) /\ IsFiniteSet(Workload)
    /\ MinAdmission \in Nat /\ NodeGrouping \in BOOLEAN
    /\ \A p \in Problems :
          /\ p.free \in [Node -> Nat]
          /\ p.gpus \in [Workload -> Nat] /\ p.replicas \in [Workload -> Nat \ {0}]
          /\ p.suits \in [Workload -> SUBSET Node]
          /\ p.order \in [Workload -> [Node -> Nat]]
          /\ p.limit \in Nat
          /\ p.urgent \subseteq Workload /\ p.late \subseteq Workload
          /\ \A w \in Workload : \A n \in p.suits[w] : p.free[n] >= p.gpus[w]

VARIABLES
    problem,
    stage,      \* what comes next: "solve", "physical" (the fallback), "expand",
                \* "judge", "retry", "done"
    limit,      \* attempt.candidate_node_limit
    retries,    \* retry_count
    todo,       \* units of the grouped solution not yet on a node
    left,       \* residual of the expansion
    result,     \* the SolveAttempt just made
    accepted    \* the trace: the attempt it was made of, its retry_count

vars == <<problem, stage, limit, retries, todo, left, result, accepted>>

Zero == [w \in Workload |-> [n \in Node |-> 0]]

Nothing == [ok |-> FALSE, placed |-> Zero, grouped |-> FALSE, edges |-> 0]

Total(f) == SumFunctionOnSet(f, DOMAIN f)

-----------------------------------------------------------------------------
\* prune_candidate_nodes: the first nodes in the order of the workload.
Candidates(w, max) ==
    IF max = 0 \/ Cardinality(problem.suits[w]) <= max
    THEN problem.suits[w]
    ELSE {n \in problem.suits[w] :
             Cardinality({m \in problem.suits[w] :
                              problem.order[w][m] < problem.order[w][n]}) < max}

Edges(max) == Total([w \in Workload |-> Cardinality(Candidates(w, max))])

PrunedWorkloads(max) == {w \in Workload : Candidates(w, max) # problem.suits[w]}

Signature_IgnoresCandidates(n) == <<problem.free[n]>>

\* grouping_node_signature: nodes the solver cannot tell apart.
Signature(n) == <<problem.free[n], {w \in Workload : n \in Candidates(w, limit)}>>

Symmetric == {{m \in Node : Signature(m) = Signature(n)} : n \in Node}
Single    == {{n} : n \in Node}

Grouped == NodeGrouping /\ Symmetric # Single

\* What the solver's constraints accept for nodes in groups: a workload is placed
\* whole or not at all, and the GPUs of a group are counted together.
Placements(w, groups) ==
    LET candidates == Candidates(w, limit)
    IN  {counts \in [groups -> 0..problem.replicas[w]] :
            /\ Total(counts) \in {0, problem.replicas[w]}
            /\ \A g \in groups : counts[g] > 0 => g \cap candidates # {}}

Assignments(groups) == Selections([w \in Workload |-> Placements(w, groups)])

Solutions(groups) ==
    {counts \in Assignments(groups) :
        \A g \in groups :
            Total([w \in Workload |-> counts[w][g] * problem.gpus[w]])
                <= Total([n \in g |-> problem.free[n]])}

-----------------------------------------------------------------------------
\* solve_attempt with groups; without a solution the real nodes are tried.
SolveGrouped ==
    /\ stage = "solve"
    /\ Grouped
    /\ \/ \E counts \in Solutions(Symmetric) :
             /\ todo' = counts
             /\ left' = problem.free
             /\ result' = [ok |-> TRUE, placed |-> Zero, grouped |-> TRUE,
                           edges |-> Edges(limit)]
             /\ stage' = "expand"
       \/ /\ stage' = "physical"
          /\ UNCHANGED <<todo, left, result>>
    /\ UNCHANGED <<problem, limit, retries, accepted>>

\* solve_attempt on the real nodes, first or as the fallback.
SolvePhysical ==
    /\ stage = "physical" \/ (stage = "solve" /\ ~ Grouped)
    /\ \/ \E counts \in Solutions(Single) :
             result' = [ok      |-> TRUE,
                        placed  |-> [w \in Workload |-> [n \in Node |-> counts[w][{n}]]],
                        grouped |-> FALSE,
                        edges   |-> Edges(limit)]
       \/ result' = [Nothing EXCEPT !.edges = Edges(limit)]
    /\ stage' = "judge"
    /\ UNCHANGED <<problem, limit, retries, todo, left, accepted>>

\* The GPUs one replica of the workload takes in the expansion.
Need(w) == problem.gpus[w] * problem.replicas[w]

Waiting == {w \in Workload : \E g \in DOMAIN todo[w] : todo[w][g] > 0}

InOrder_ByName(w) == \A v \in Waiting : w <= v

\* The order of the units: large ones first, then by the workload's name.
InOrder(w) == \A v \in Waiting : Need(v) < Need(w) \/ (Need(v) = Need(w) /\ w <= v)

RoomFor_Anywhere(w, g) == g

RoomFor(w, g) == {n \in g : left[n] >= Need(w)}

\* expand_grouped_solution_to_physical, one unit: the first member with room.
PlaceUnit ==
    /\ stage = "expand"
    /\ \E w \in Waiting :
          /\ InOrder(w)
          /\ \E g \in DOMAIN todo[w] :
                /\ todo[w][g] > 0
                /\ RoomFor(w, g) # {}
                /\ LET n == Min(RoomFor(w, g))
                   IN  /\ left' = [left EXCEPT ![n] = @ - Need(w)]
                       /\ result' = [result EXCEPT !.placed[w][n] = @ + 1]
                       /\ todo' = [todo EXCEPT ![w][g] = @ - 1]
    /\ UNCHANGED <<problem, stage, limit, retries, accepted>>

Unplaceable == \E w \in Waiting : /\ InOrder(w)
                                  /\ \E g \in DOMAIN todo[w] :
                                        todo[w][g] > 0 /\ RoomFor(w, g) = {}

ExpansionFails_Regroups ==       \* the groups are solved again
    /\ stage = "expand"
    /\ Unplaceable
    /\ stage' = "solve"
    /\ UNCHANGED <<problem, limit, retries, todo, left, result, accepted>>

ExpansionFails ==
    /\ stage = "expand"
    /\ Unplaceable
    /\ stage' = "physical"
    /\ UNCHANGED <<problem, limit, retries, todo, left, result, accepted>>

Expanded ==
    /\ stage = "expand"
    /\ Waiting = {}
    /\ stage' = "judge"
    /\ UNCHANGED <<problem, limit, retries, todo, left, result, accepted>>

-----------------------------------------------------------------------------
WholeIn(a) == {w \in Workload : Total(a.placed[w]) = problem.replicas[w]}

Suspicious_OnceOnly(a) ==       \* a second attempt is believed
    /\ limit # 0
    /\ retries = 0
    /\ ~ a.ok \/ ~ (problem.urgent \subseteq WholeIn(a)) \/ problem.late # {}

\* retry_reason: with all candidates there is nothing to widen.
Suspicious(a) ==
    /\ limit # 0
    /\ \/ ~ a.ok
       \/ ~ (problem.urgent \subseteq WholeIn(a))
       \/ problem.late # {}
       \/ 100 * Total([w \in WholeIn(a) |-> problem.replicas[w]])
             < MinAdmission * Total(problem.replicas)

\* widened_candidate_limit: twice as many, then all.
WidenedLimit == IF retries = 0 THEN 2 * limit ELSE 0

Worse_Never == FALSE

Worse == retries > 0 /\ ~ result.ok /\ accepted.ok

Accept ==
    /\ stage = "judge"
    /\ ~ Worse
    /\ accepted' = [ok      |-> result.ok,      placed |-> result.placed,
                    grouped |-> result.grouped, edges  |-> result.edges,
                    limit   |-> limit,          retries |-> retries]
    /\ stage' = "retry"
    /\ UNCHANGED <<problem, limit, retries, todo, left, result>>

KeepPrevious_TakesEdges ==      \* the trace shows the edges of the failed attempt
    /\ stage = "judge"
    /\ Worse
    /\ accepted' = [accepted EXCEPT !.retries = retries, !.edges = result.edges]
    /\ stage' = "done"
    /\ UNCHANGED <<problem, limit, retries, todo, left, result>>

KeepPrevious ==
    /\ stage = "judge"
    /\ Worse
    /\ accepted' = [accepted EXCEPT !.retries = retries]
    /\ stage' = "done"
    /\ UNCHANGED <<problem, limit, retries, todo, left, result>>

Widen ==
    /\ stage = "retry"
    /\ Suspicious(accepted)
    /\ limit' = WidenedLimit
    /\ retries' = retries + 1
    /\ stage' = "solve"
    /\ UNCHANGED <<problem, todo, left, result, accepted>>

Stop ==
    /\ stage = "retry"
    /\ ~ Suspicious(accepted)
    /\ stage' = "done"
    /\ UNCHANGED <<problem, limit, retries, todo, left, result, accepted>>

-----------------------------------------------------------------------------
Init ==
    /\ problem \in Problems
    /\ stage = "solve"
    /\ limit = problem.limit
    /\ retries = 0
    /\ todo = [w \in Workload |-> <<>>]
    /\ left = problem.free
    /\ result = Nothing
    /\ accepted = [ok |-> FALSE, placed |-> Zero, grouped |-> FALSE, edges |-> 0,
                   limit |-> problem.limit, retries |-> 0]

Next == SolveGrouped \/ SolvePhysical \/ PlaceUnit \/ ExpansionFails \/ Expanded
        \/ Accept \/ KeepPrevious \/ Widen \/ Stop

Spec == Init /\ [][Next]_vars /\ WF_vars(Next)

-----------------------------------------------------------------------------
\* summarize_candidate_quality: what the trace says of the candidates it used.
PruningActive ==
    /\ problem.limit > 0
    /\ PrunedWorkloads(problem.limit) # {} \/ accepted.edges < Edges(0)

RegretStatus ==
    CASE ~ PruningActive /\ accepted.grouped       -> "grouped_exact_if_equivalent"
      [] ~ PruningActive /\ ~ accepted.grouped     -> "full_feasible_set"
      [] PruningActive /\ accepted.edges >= Edges(0) -> "full_retry"
      [] PruningActive /\ accepted.edges < Edges(0) /\ accepted.retries > 0
                                  -> "pruned_after_widening_regret_unknown"
      [] PruningActive /\ accepted.edges < Edges(0) /\ accepted.retries = 0
                                  -> "pruned_regret_unknown"

TypeOK ==
    /\ problem \in Problems
    /\ stage \in {"solve", "physical", "expand", "judge", "retry", "done"}
    /\ limit \in Nat /\ retries \in 0..2
    /\ left \in [Node -> Nat]
    /\ result.placed \in [Workload -> [Node -> Nat]]
    /\ accepted.placed \in [Workload -> [Node -> Nat]]

\* Whatever was merged and expanded, an accepted placement is one for the real nodes:
\* workloads are whole, on nodes that suit them, and no node is given out twice.
PlacementIsPhysical ==
    stage \in {"retry", "done"} =>
        /\ \A w \in Workload :
              /\ Total(accepted.placed[w]) \in {0, problem.replicas[w]}
              /\ \A n \in Node : accepted.placed[w][n] > 0 => n \in problem.suits[w]
        /\ \A n \in Node :
              Total([w \in Workload |-> accepted.placed[w][n] * problem.gpus[w]])
                 <= problem.free[n]

\* A round that once had a usable placement ends with one.
IncumbentIsKept == [][accepted.ok => accepted'.ok]_vars

\* What is still suspicious in the end has been tried with all candidates, or a wider
\* attempt gave nothing: MinAdmission and urgent work are not given up for the limit.
SuspiciousWasWidened ==
    stage = "done" =>
        \/ limit = 0
        \/ retries > 0 /\ ~ result.ok
        \/ /\ accepted.ok
           /\ problem.urgent \subseteq WholeIn(accepted) /\ problem.late = {}
           /\ ~ (100 * Total([w \in WholeIn(accepted) |-> problem.replicas[w]])
                    < MinAdmission * Total(problem.replicas))

\* A trace that claims the full set of candidates is of a solve that had them all.
FullMeansFull ==
    stage = "done" /\ RegretStatus \in {"grouped_exact_if_equivalent",
                                        "full_feasible_set", "full_retry"} =>
        PrunedWorkloads(accepted.limit) = {}

\* The real nodes have a solution that takes as much from each group.
Packable ==
    \E counts \in Solutions(Single) :
        \A w \in Workload : \A g \in DOMAIN todo[w] :
            Total([n \in g |-> counts[w][{n}]])
               = todo[w][g] + Total([n \in g |-> result.placed[w][n]])

\* The expansion gives up only where nothing would have helped.
ExpansionIsExact == stage = "expand" /\ Unplaceable => ~ Packable

Multiple(a, b) == \E k \in 0..a : a = k * b

\* Of any two sizes one is a multiple of the other, as with 1, 2, 4 and 8 GPUs.
SizesDivide ==
    \A v, w \in Workload : Multiple(Need(v), Need(w)) \/ Multiple(Need(w), Need(v))

\* For single pods whose sizes divide each other first fit, large ones first, is
\* exact; sizes like 4 and 3 may waste the room that is left behind a large one.
PodsAreExpanded ==
    (\A w \in Workload : problem.replicas[w] = 1) /\ SizesDivide => ExpansionIsExact

\* A round ends.
RoundEnds == <>(stage = "done")
=============================================================================
