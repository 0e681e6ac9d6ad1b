---------------------------- MODULE RepairAdvice ----------------------------
(***************************************************************************)
(* The advice for a gang that found no place (repair.rs): on each node     *)
(* that could hold the gang as a whole, the cheapest set of running pods   *)
(* whose move or preemption frees the missing GPUs, found by depth-first   *)
(* search, and of these the plan with the fewest actions.  Plans of        *)
(* different gangs do not depend on each other, so a behaviour follows     *)
(* one; their order and the cut at eight plans are left out.               *)
(***************************************************************************)
EXTENDS PendingInput, Sequences, SequencesExt

CONSTANTS
    MaxCandidates,      \* repair_candidate_limit
    Penalty             \* PREEMPTION_DISRUPTION_PENALTY

ASSUME RepairAssumption == MaxCandidates \in Nat /\ Penalty \in Nat

VARIABLES
    target,     \* the gang the advice is for; {} before there is one
    todo,       \* nodes still to be looked at
    node,       \* the node the search is on, or NoNode
    stack,      \* calls of branch that are still to be made, the next one last
    best,       \* the best set of actions on this node
    advice      \* the best plan so far

search == <<target, todo, node, stack, best, advice>>

\* As the code has None; a deficit always takes an action.
NoActions == [moves |-> <<>>, freed |-> 0, cost |-> 0]
NoPlan    == [node |-> NoNode, moves |-> <<>>, freed |-> 0, cost |-> 0]

-----------------------------------------------------------------------------
\* A gang is advised on as a whole, for a single node.
Request(g) == Gpus(g)

Known(g) == {p \in g : p \in pods.known /\ pods.at[p] = NoNode}

\* group_node_feasible; a member without any feasible node restricts nothing.
Allows(g, n) == \A p \in Known(g) : pods.suits[p] = {} \/ n \in pods.suits[p]

Priority(g) == Max({policy.priority[p] : p \in g} \cup {0})
Value(g)    == Max({policy.value[p] : p \in g})

LatestStart(g) ==
    LET bound == {policy.latest[p] : p \in g} \ {Unknown}
    IN  IF bound = {} THEN Unknown ELSE Min(bound)

Outranks(g, p) ==
    \/ policy.priority[p] < Priority(g)
    \/ policy.priority[p] = Priority(g) /\ Priority(g) = 0

Earlier(a, b) == a # Unknown /\ (b = Unknown \/ a < b)

\* Among equal priorities the business value decides, then the deadline.
Prevails(g, p) ==
    policy.priority[p] = Priority(g) =>
        /\ policy.value[p] <= Value(g)
        /\ policy.value[p] = Value(g) => ~ Earlier(policy.latest[p], LatestStart(g))

Covered(p) == p \in policy.covers[pods.namespace[p]]

MayDisrupt(p) ==
    /\ pods.namespace[p] \notin policy.vague
    /\ Covered(p) => policy.allowed[pods.namespace[p]] > 0

Candidate(g, p) ==
    /\ pods.gpus[p] > 0
    /\ p \notin policy.fixed
    /\ Outranks(g, p) /\ Prevails(g, p)
    /\ p \in policy.migrate \cup policy.preempt
    /\ MayDisrupt(p)

Before(p, q) == policy.cost[p] < policy.cost[q] \/ (policy.cost[p] = policy.cost[q] /\ p < q)

\* The cheapest candidates of the node, as many as are looked at.
Window(g, n) ==
    LET all == {p \in RunningOn(n) : Candidate(g, p)}
    IN  {p \in all : Cardinality({q \in all : Before(q, p)}) < Max({MaxCandidates, 1})}

Deficit(g, n) == Request(g) - Residual(n)

-----------------------------------------------------------------------------
\* reserve_migration_target: the first other node with room that suits the pod.
Refuges(p, from, free) ==
    {n \in Node \ {from} :
        /\ free[n] >= pods.gpus[p]
        /\ pods.suits[p] = {} \/ n \in pods.suits[p]}

Refuge(p, frame) ==
    LET all == Refuges(p, pods.at[p], frame.free)
    IN  {n \in all : p \in policy.migrate /\ \A m \in all : n <= m}

Taken_ForgetsRoom(free, p, to) == free

Taken(free, p, to) ==
    IF to = NoNode THEN free ELSE [free EXCEPT ![to] = @ - pods.gpus[p]]

Spend(budget, p) ==
    IF Covered(p) THEN [budget EXCEPT ![pods.namespace[p]] = @ - 1] ELSE budget

Take(p, to, cost, frame) ==
    [left   |-> frame.left \ {p},
     moves  |-> Append(frame.moves, [pod |-> p, to |-> to]),
     freed  |-> frame.freed + pods.gpus[p],
     cost   |-> frame.cost + cost,
     free   |-> Taken(frame.free, p, to),
     budget |-> Spend(frame.budget, p)]

\* With the pod: it moves if it may and there is room, else it is preempted if it may
\* be; none of both, or a spent budget, and this way is closed.
Include(p, frame) ==
    LET moved     == {Take(p, n, policy.cost[p], frame) : n \in Refuge(p, frame)}
        preempted == {Take(q, NoNode, policy.cost[q] + Penalty, frame) :
                         q \in {p} \cap policy.preempt}
    IN  IF Covered(p) /\ frame.budget[pods.namespace[p]] <= 0 THEN {}
        ELSE IF moved # {} THEN moved ELSE preempted

Exclude(p, frame) == [frame EXCEPT !.left = @ \ {p}]

\* candidate_plan_is_better: cheaper, then fewer actions, then fewer GPUs.
Cheaper(f, b) ==
    \/ b = NoActions
    \/ f.cost < b.cost
    \/ f.cost = b.cost /\ Len(f.moves) < Len(b.moves)
    \/ f.cost = b.cost /\ Len(f.moves) = Len(b.moves) /\ f.freed < b.freed

\* Between nodes: fewer actions, then cheaper, then fewer GPUs.
Shorter(f, b) ==
    \/ b = NoPlan
    \/ Len(f.moves) < Len(b.moves)
    \/ Len(f.moves) = Len(b.moves) /\ f.cost < b.cost
    \/ Len(f.moves) = Len(b.moves) /\ f.cost = b.cost /\ f.freed < b.freed

Top   == stack[Len(stack)]
Below == SubSeq(stack, 1, Len(stack) - 1)

Enough == Top.freed >= Deficit(target, node)

Hopeless_ByCost ==          \* equal cost is given up although fewer actions may do
    \/ Top.freed + Gpus(Top.left) < Deficit(target, node)
    \/ best # NoActions /\ Top.cost >= best.cost

\* All that are left would not do, or the best so far is as good already.
Hopeless ==
    \/ Top.freed + Gpus(Top.left) < Deficit(target, node)
    \/ best # NoActions /\ \/ Top.cost > best.cost
                           \/ Top.cost = best.cost /\ Len(Top.moves) >= Len(best.moves)

-----------------------------------------------------------------------------
\* A gang the advice can judge: it needs GPUs, is modelled for all members or none,
\* and is not thought too large for the memory of every GPU.
Advisable(g) ==
    /\ Request(g) > 0
    /\ Known(g) \in {{}, g}
    /\ ~ VramBlamed(g)

\* Nodes that could hold the gang and lack room now.
Hosts(g) ==
    {n \in Node : /\ Advisable(g)
                  /\ nodes.cap[n] >= Request(g) /\ Residual(n) < Request(g)
                  /\ Allows(g, n)}

Begin(g) ==
    /\ target' = g
    /\ todo' = Hosts(g)
    /\ UNCHANGED <<node, stack, best, advice>>

\* Nothing is taken yet.
Start(candidates) ==
    [left |-> candidates, moves |-> <<>>, freed |-> 0, cost |-> 0,
     free |-> [n \in Node |-> Residual(n)], budget |-> policy.allowed]

\* solve_repair_subset begins.
OpenNode ==
    /\ node = NoNode /\ todo # {}
    /\ node' = Min(todo)
    /\ todo' = todo \ {node'}
    /\ best' = NoActions
    /\ stack' = <<Start(Window(target, node'))>>
    /\ UNCHANGED <<target, advice>>

Accept ==
    /\ stack # <<>> /\ Enough
    /\ best' = IF Cheaper(Top, best)
               THEN [moves |-> Top.moves, freed |-> Top.freed, cost |-> Top.cost]
               ELSE best
    /\ stack' = Below
    /\ UNCHANGED <<target, todo, node, advice>>

GiveUp ==
    /\ stack # <<>> /\ ~ Enough /\ Hopeless
    /\ stack' = Below
    /\ UNCHANGED <<target, todo, node, best, advice>>

\* First with the next candidate, then without it.
Branch ==
    /\ stack # <<>> /\ ~ Enough /\ ~ Hopeless
    /\ LET p == CHOOSE p \in Top.left : \A q \in Top.left \ {p} : Before(p, q)
       IN  stack' = Below \o <<Exclude(p, Top)>> \o SetToSeq(Include(p, Top))
    /\ UNCHANGED <<target, todo, node, best, advice>>

CloseNode ==
    /\ node # NoNode /\ stack = <<>>
    /\ LET plan == [node |-> node, moves |-> best.moves,
                    freed |-> best.freed, cost |-> best.cost]
       IN  advice' = IF best # NoActions /\ Shorter(plan, advice) THEN plan ELSE advice
    /\ node' = NoNode
    /\ best' = NoActions
    /\ UNCHANGED <<target, todo, stack>>

Search == OpenNode \/ Accept \/ GiveUp \/ Branch \/ CloseNode
=============================================================================
