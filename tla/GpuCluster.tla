----------------------------- MODULE GpuCluster -----------------------------
(***************************************************************************)
(* What a round of the shadow scheduler knows of the cluster: the nodes    *)
(* and workloads of the normalized snapshot and the pods that wait.  GPUs  *)
(* stand for every counted resource.  A selector is the set of the pods it *)
(* matches, so labels and namespace scopes need no strings, and a pod has  *)
(* at most one selector of each kind.                                      *)
(***************************************************************************)
EXTENDS Integers, FiniteSets, FiniteSetsExt, Functions

CONSTANTS
    Node, Pod,          \* numbers, in the order of the names
    Namespace,
    Clusters            \* what the snapshot and the watch may show

NoNode   == 0           \* current_node is empty
NoLabel  == 0           \* a node without the topology label
Unknown  == 0           \* no GPU memory known, no prediction, no deadline
NoGang   == 0
Unlimited == -1         \* no quota is configured for the namespace

OfNodes ==
    [cap    : [Node -> Nat],          \* GPUs
     vram   : [Node -> Nat],          \* memory of one of them
     zone   : [Node -> Nat],          \* the topology domain
     island : [Node -> Nat],          \* the GPU topology label
     quota  : [Namespace -> Int]]

OfPods ==
    [known      : SUBSET Pod,             \* pods of the snapshot
     at         : [Pod -> Node \cup {NoNode}],
     pending    : SUBSET Pod,             \* pods of the watch
     namespace  : [Pod -> Namespace],
     gpus       : [Pod -> Nat],           \* 0: a device claim that was not modelled
     peak       : [Pod -> Nat],           \* predicted memory per GPU
     suits      : [Pod -> SUBSET Node],   \* feasible_node_names
     gang       : [Pod -> Nat],
     colocate   : [Pod -> BOOLEAN],
     link       : [Pod -> Nat],           \* required_gpu_topology
     repels     : [Pod -> SUBSET Pod],    \* anti-affinity per node
     zoneRepels : [Pod -> SUBSET Pod],    \* anti-affinity per zone
     attracts   : [Pod -> SUBSET Pod],    \* required affinity per zone
     spreads    : [Pod -> SUBSET Pod],    \* hard topology spread per zone,
     skew       : [Pod -> Nat]]           \* with this maxSkew; 0 is no rule

OfPolicy ==
    [priority : [Pod -> Int],
     value    : [Pod -> Nat],             \* business_value
     latest   : [Pod -> Nat],             \* latest start
     cost     : [Pod -> Nat],             \* repair_disruption_cost
     fixed    : SUBSET Pod,               \* unsafe to evict, pinned, protected or near the end
     migrate  : SUBSET Pod,               \* migration_allowed
     preempt  : SUBSET Pod,               \* preemption_allowed
     covers   : [Namespace -> SUBSET Pod],\* the PodDisruptionBudget of the namespace
     allowed  : [Namespace -> Nat],
     vague    : SUBSET Namespace]         \* its selector is not modelled

ASSUME ClusterAssumption ==
    /\ IsFiniteSet(Node) /\ Node \subseteq Nat \ {NoNode}
    /\ IsFiniteSet(Pod) /\ Pod \subseteq Nat
    /\ \A c \in Clusters :
          /\ c.nodes \in OfNodes
          /\ c.pods \in OfPods
          /\ c.policy \in OfPolicy
          /\ \A p, q \in Pod : c.pods.gang[p] # NoGang /\ c.pods.gang[p] = c.pods.gang[q]
                => c.pods.namespace[p] = c.pods.namespace[q]

VARIABLE cluster

nodes  == cluster.nodes
pods   == cluster.pods
policy == cluster.policy

Gpus(S) == SumFunctionOnSet(pods.gpus, S)

Running == {p \in pods.known : pods.at[p] # NoNode}

RunningOn(n) == {p \in Running : pods.at[p] = n}

\* What the running pods leave; a node that lost GPUs leaves none.
Residual(n) == Max({0, nodes.cap[n] - Gpus(RunningOn(n))})

\* Waiting pods with the same gang key, or a pod of its own.
Gang(p) ==
    IF pods.gang[p] = NoGang
    THEN {p}
    ELSE {q \in pods.pending : pods.gang[q] = pods.gang[p]}

Gangs == {Gang(p) : p \in pods.pending}
=============================================================================
