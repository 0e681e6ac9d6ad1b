----------------------------- MODULE BinderPass -----------------------------
(***************************************************************************)
(* One pass of the binder over any plan a trace may render: the members of *)
(* a group and single pods in any order (decisions follow the uids of the  *)
(* observed pods, watch_state.rs), over pods in any state.                 *)
(***************************************************************************)
EXTENDS Binder

CONSTANTS WorkloadOf,  \* the workload of each pod, or NoGroup
          Target       \* the node the solver chose

ASSUME PlanAssumption ==
    /\ WorkloadOf \in [Pod -> Group \cup {NoGroup}]
    /\ Target \in [Pod -> Node]

\* What may be odd about a pod: not ours to bind, moved since the plan was
\* rendered, or above the canary limit.
Oddity == {"none", "stale", "big"} \cup (Kind \ {"ours"})

PassInit ==
    /\ \E order \in Bijection(1..Cardinality(Pod), Pod), odd \in [Pod -> Oddity] :
          /\ Cardinality({p \in Pod : odd[p] # "none"}) <= 1
          /\ live = [p \in Pod |->
                [uid |-> CHOOSE k \in 1..Cardinality(Pod) : order[k] = p,
                 node |-> NoNode, deleting |-> FALSE,
                 kind |-> IF odd[p] \in Kind THEN odd[p] ELSE "ours"]]
          /\ plan = [k \in 1..Cardinality(Pod) |->
                [pod |-> order[k], uid |-> k,
                 group |-> WorkloadOf[order[k]], node |-> Target[order[k]],
                 gpus |-> IF odd[order[k]] = "big" THEN LowRiskGpus + 1 ELSE 1,
                 ready |-> odd[order[k]] # "stale"]]
    /\ blocked \in BOOLEAN
    /\ nextUid = Cardinality(Pod) + 1
    /\ late = {}
    /\ pc = "next" /\ i = 1
    /\ seen = {} /\ skipped = {}
    /\ cache = [p \in Pod |-> Unread]
    /\ applied = 0
    /\ outcomes = <<>>
    /\ mutations = {} /\ horizon = 0
    /\ faults = 0 /\ changes = 0

PassNext == Step \/ Others

PassSpec == PassInit /\ [][PassNext]_vars
=============================================================================
