---------------------------- MODULE PendingInput ----------------------------
(***************************************************************************)
(* How the waiting pods become a problem for the solver                    *)
(* (build_pending_input_diagnosed_with_candidate_limit_and_stats in        *)
(* pending_input.rs): pods are grouped into gangs, gangs that cannot be    *)
(* modelled are dropped, the others get the nodes that suit them, and      *)
(* pairs and quotas restrict them together.  The constraints a solution    *)
(* satisfies are those of cpsat_rust.rs; pruning and grouping of nodes are *)
(* in SolveRound.                                                          *)
(***************************************************************************)
EXTENDS GpuCluster, Selections

First(g) == Min(g)          \* members[0], the representative

Agree(g, f) == \A m \in g : f[m] = f[First(g)]

\* A selector that matches every member; one that matches some is not enough.
Matches(selected, g) == g \subseteq selected

SpreadsItself(g) == Cardinality(g) > 1 /\ Matches(pods.repels[First(g)], g)

\* Gangs that are dropped before any node is looked at.
Malformed(g) ==
    \/ ~ (g \subseteq pods.known)
    \/ ~ Agree(g, pods.gpus) \/ ~ Agree(g, pods.suits)
    \/ pods.gpus[First(g)] = 0
    \/ ~ Agree(g, pods.colocate)
    \/ ~ Agree(g, pods.link)
    \/ ~ Agree(g, pods.repels)
    \/ ~ Agree(g, pods.zoneRepels)
    \/ pods.colocate[First(g)] /\ SpreadsItself(g)

\* A co-located gang needs room for all, another one for a member.
Fits(g, n) ==
    Residual(n) >= IF pods.colocate[First(g)] THEN Gpus(g) ELSE pods.gpus[First(g)]

Linked(g, n) == pods.link[First(g)] \in {NoLabel, nodes.island[n]}

Peak(g) == Max({pods.peak[m] : m \in g})

VramFits(g, n) ==
    \/ Peak(g) = Unknown \/ nodes.vram[n] = Unknown
    \/ Peak(g) <= nodes.vram[n]

ClearOfPods_Forward(g, n) == \A p \in RunningOn(n) : p \notin pods.repels[First(g)]

\* Anti-affinity with the pods that run on the node, in both directions.
ClearOfPods(g, n) ==
    \A p \in RunningOn(n) :
        p \notin pods.repels[First(g)] /\ ~ Matches(pods.repels[p], g)

SameZone(n, m) == nodes.zone[n] # NoLabel /\ nodes.zone[n] = nodes.zone[m]

ClearOfZones(g, n) ==
    \A m \in Node : SameZone(n, m) =>
        \A p \in RunningOn(m) :
            p \notin pods.zoneRepels[First(g)] /\ ~ Matches(pods.zoneRepels[p], g)

\* Required affinity: the zone of a peer, if any peer runs in a zone.
NearPeers(g, n) ==
    LET peers == IF Agree(g, pods.attracts) THEN pods.attracts[First(g)] ELSE {}
        zones == {nodes.zone[pods.at[p]] : p \in Running \cap peers} \ {NoLabel}
    IN  zones = {} \/ nodes.zone[n] \in zones

\* Hard topology spread counts what runs; all of a co-located gang is added at once.
SpreadAllows(g, n) ==
    LET rule  == pods.spreads[First(g)]
        skew  == pods.skew[First(g)]
        zones == {nodes.zone[m] : m \in Node} \ {NoLabel}
        count(z) == Cardinality({p \in Running \cap rule :
                        /\ pods.namespace[p] = pods.namespace[First(g)]
                        /\ nodes.zone[pods.at[p]] = z})
        added == IF pods.colocate[First(g)] THEN Cardinality(g) ELSE 1
    IN  (skew > 0 /\ Agree(g, pods.spreads) /\ Agree(g, pods.skew) /\ Matches(rule, g)) =>
            /\ nodes.zone[n] # NoLabel
            /\ count(nodes.zone[n]) + added - Min({count(z) : z \in zones}) <= skew

Feasible(g) ==
    {n \in pods.suits[First(g)] :
        /\ Fits(g, n) /\ Linked(g, n) /\ VramFits(g, n)
        /\ ClearOfPods(g, n) /\ ClearOfZones(g, n)
        /\ NearPeers(g, n) /\ SpreadAllows(g, n)}

\* The workloads the solver gets.
Emitted == {g \in Gangs : ~ Malformed(g) /\ Feasible(g) # {}}

\* The reason given for a gang without a node is its predicted memory, whenever
\* there is a prediction and GPUs would be free.
VramBlamed(g) ==
    /\ g \notin Emitted /\ ~ Malformed(g)
    /\ \E n \in pods.suits[First(g)] : Fits(g, n) /\ Linked(g, n)
    /\ Peak(g) # Unknown

\* anti_affinity_pairs: gangs that may not share a node.
Apart(g, h) == Matches(pods.repels[First(g)], h) \/ Matches(pods.repels[First(h)], g)

OfNamespace(s) == {p \in Running : pods.namespace[p] = s}

\* quota_groups: what the running pods of the namespace leave of its quota.
QuotaLimit(s) == Max({0, nodes.quota[s] - Gpus(OfNamespace(s))})

-----------------------------------------------------------------------------
Total(f) == SumFunction(f)

\* The ways to place one gang, or to leave it: all or none, co-located gangs on one
\* node, gangs that spread themselves with one member on each.
Options(g) ==
    {counts \in [Feasible(g) -> 0..Cardinality(g)] :
        /\ Total(counts) \in {0, Cardinality(g)}
        /\ pods.colocate[First(g)] =>
              Cardinality({n \in Feasible(g) : counts[n] > 0}) <= 1
        /\ SpreadsItself(g) => \A n \in Feasible(g) : counts[n] <= 1}

Assignments == Selections([g \in Emitted |-> Options(g)])

On(counts, g, n) == IF n \in DOMAIN counts[g] THEN counts[g][n] ELSE 0

Solutions ==
    {counts \in Assignments :
        /\ \A n \in Node :
              /\ Total([g \in Emitted |-> On(counts, g, n) * pods.gpus[First(g)]])
                    <= Residual(n)
              /\ \A g, h \in Emitted : g # h /\ Apart(g, h) =>
                    On(counts, g, n) = 0 \/ On(counts, h, n) = 0
        /\ \A s \in Namespace : nodes.quota[s] # Unlimited =>
              Total([g \in {g \in Emitted : pods.namespace[First(g)] = s} |->
                        Total(counts[g]) * pods.gpus[First(g)]])
                 <= QuotaLimit(s)}

\* The replicas of the gang on the nodes up to n.
UpTo(counts, g, n) ==
    SumFunctionOnSet([m \in Node |-> On(counts, g, m)], {m \in Node : m <= n})

Rank(p) == Cardinality({m \in Gang(p) : m < p})

\* build_decision_trace: members in the order of their names take the replicas in
\* the order of the nodes.
NodeOf(counts, p) ==
    LET g    == Gang(p)
        some == {n \in Node : UpTo(counts, g, n) > Rank(p)}
    IN  IF g \in Emitted /\ some # {} THEN Min(some) ELSE NoNode
=============================================================================
