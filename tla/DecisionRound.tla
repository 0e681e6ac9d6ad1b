---------------------------- MODULE DecisionRound ----------------------------
(***************************************************************************)
(* A round of the shadow scheduler from the snapshot to the trace          *)
(* (run_one_solve in shadow.rs, without the widening of SolveRound): the   *)
(* waiting pods become a problem, the solver answers it or fails, the      *)
(* answer becomes a decision for each pod, and a gang that found no place  *)
(* is advised on.                                                          *)
(***************************************************************************)
EXTENDS RepairAdvice

VARIABLES
    stage,      \* "solve", "decided", "advise", "done"
    placed      \* the decisions: the node of each pod, or NoNode

vars == <<cluster, stage, placed, search>>

Init ==
    /\ cluster \in Clusters
    /\ stage = "solve"
    /\ placed = [p \in Pod |-> NoNode]
    /\ target = {} /\ todo = {} /\ node = NoNode /\ stack = <<>>
    /\ best = NoActions /\ advice = NoPlan

Decisions(counts) ==
    [p \in Pod |-> IF p \in pods.pending THEN NodeOf(counts, p) ELSE NoNode]

Solve ==
    /\ stage = "solve"
    /\ \E counts \in Solutions : placed' = Decisions(counts)
    /\ stage' = "decided"
    /\ UNCHANGED <<cluster, search>>

\* No usable answer: nothing is placed, and advice is given all the same.
SolveFails ==
    /\ stage = "solve"
    /\ stage' = "decided"
    /\ UNCHANGED <<cluster, placed, search>>

Unplaced(g) == \A p \in g : placed[p] = NoNode

Advise ==
    /\ stage = "decided"
    /\ \E g \in Gangs : Unplaced(g) /\ Begin(g)
    /\ stage' = "advise"
    /\ UNCHANGED <<cluster, placed>>

LookForRoom ==
    /\ stage = "advise"
    /\ Search
    /\ UNCHANGED <<cluster, stage, placed>>

Finish ==
    /\ \/ stage = "decided" /\ \A g \in Gangs : ~ Unplaced(g)
       \/ stage = "advise" /\ todo = {} /\ node = NoNode
    /\ stage' = "done"
    /\ UNCHANGED <<cluster, placed, search>>

Next == Solve \/ SolveFails \/ Advise \/ LookForRoom \/ Finish

Spec == Init /\ [][Next]_vars

-----------------------------------------------------------------------------
\* The pods a node holds when the decisions are carried out.
Holds(n) == RunningOn(n) \cup {p \in pods.pending \ Running : placed[p] = n}

Placed == {p \in pods.pending : placed[p] # NoNode}

\* All members are matched by the same selectors.
Alike(p) == \A q \in Pod : Gang(p) \subseteq pods.repels[q] \/ Gang(p) \cap pods.repels[q] = {}

Apart2(p, q) == p \in pods.repels[q] \/ q \in pods.repels[p]

\* What Kubernetes would say of the decisions, pod by pod, whatever the gangs, pairs
\* and residuals they were made of: each pod is on a node that suits it and whose GPUs
\* have the memory; no node is filled beyond its GPUs; no placed pod is with one that
\* repels it or that it repels, unless selectors tell members of a gang apart; gangs
\* are whole and co-located ones together; no namespace grows beyond its quota.
DecisionsAreAdmissible ==
    /\ \A p \in Placed :
          /\ placed[p] \in pods.suits[p]
          /\ nodes.vram[placed[p]] # Unknown => pods.peak[p] <= nodes.vram[placed[p]]
          /\ \A q \in Holds(placed[p]) \ {p} :
                Alike(p) /\ (q \in Running \/ Alike(q)) => ~ Apart2(p, q)
          /\ \A q \in Running : SameZone(placed[p], pods.at[q]) =>
                /\ q \notin pods.zoneRepels[p]
                /\ Gang(p) = {p} => p \notin pods.zoneRepels[q]
          /\ \A q \in Gang(p) :
                placed[q] # NoNode /\ (pods.colocate[p] => placed[q] = placed[p])
    /\ \A n \in Node : Gpus(Holds(n)) <= Max({nodes.cap[n], Gpus(RunningOn(n))})
    /\ \A s \in Namespace : nodes.quota[s] # Unlimited =>
          Gpus({p \in Running \cup Placed : pods.namespace[p] = s})
             <= Max({nodes.quota[s], Gpus(OfNamespace(s))})

-----------------------------------------------------------------------------
Moved(plan) == {plan.moves[k].pod : k \in DOMAIN plan.moves}

After(plan, n) ==
    (RunningOn(n) \ Moved(plan))
       \cup {plan.moves[k].pod : k \in {k \in DOMAIN plan.moves : plan.moves[k].to = n}}

\* The actions of a plan can be carried out on the cluster the round saw and make
\* the room they promise: every moved pod finds room on a node that suits it, together
\* with all that move there; budgets hold; the whole gang fits afterwards.  A node that
\* is filled beyond its GPUs is an exception: its deficit is not counted.
PlanMakesRoom ==
    advice # NoPlan =>
        /\ \A n \in Node \ {advice.node} :
              Gpus(After(advice, n)) <= Max({nodes.cap[n], Gpus(RunningOn(n))})
        /\ \A k \in DOMAIN advice.moves :
              LET m == advice.moves[k]
              IN  m.to # NoNode =>
                     m.to # advice.node /\ (pods.suits[m.pod] = {} \/ m.to \in pods.suits[m.pod])
        /\ \A s \in Namespace :
              Cardinality({p \in Moved(advice) \cap policy.covers[s] : pods.namespace[p] = s})
                 <= policy.allowed[s]
        /\ Gpus(RunningOn(advice.node)) <= nodes.cap[advice.node] =>
              Gpus(After(advice, advice.node)) + Request(target) <= nodes.cap[advice.node]

Dearest(S) == CHOOSE p \in S : \A q \in S \ {p} : Before(q, p)

\* What comes of taking just these candidates, in order: one frame or none.
Outcome(S) ==
    LET after[T \in SUBSET S] ==
            IF T = {} THEN {Start({})}
            ELSE UNION {Include(Dearest(T), f) : f \in after[T \ {Dearest(T)}]}
    IN  after[S]

\* Cutting the search costs nothing: when a node is done, no set of its candidates that
\* frees enough is cheaper, as cheap with fewer actions, or as short with fewer GPUs.
SearchIsExact ==
    node # NoNode /\ stack = <<>> =>
        \A S \in SUBSET Window(target, node) : \A f \in Outcome(S) :
            f.freed >= Deficit(target, node) => best # NoActions /\ ~ Cheaper(f, best)

\* README.md: repair-plan distinguishes fragmentation from a workload that cannot
\* fit any GPU.  So it frees room only where the members may run.
RoomIsOfUse ==
    advice # NoPlan => \A p \in Known(target) : advice.node \in pods.suits[p]
=============================================================================
