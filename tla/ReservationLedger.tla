-------------------------- MODULE ReservationLedger --------------------------
(***************************************************************************)
(* The in-memory reservation ledger (ledger.rs): GPUs and tenant quota     *)
(* committed to bindings that have been decided and are not yet seen in a  *)
(* cluster snapshot.  It is owned by the sequential solve loop; what moves *)
(* between two of its operations is time and the cluster.                  *)
(*                                                                         *)
(* A reservation stores the time it has left, so expires_at > now in the   *)
(* code is left > 0 here.                                                  *)
(***************************************************************************)
EXTENDS Integers, FiniteSets, Functions

CONSTANTS Pod,        \* namespace/name keys
          Node,
          Tenant,     \* namespaces
          NoNode,     \* an empty nodeName
          GpusOf,     \* the GPU request of each pod
          TenantOf,   \* the namespace of each pod
          Capacity,   \* GPUs of each node
          Quota,      \* namespace_gpu_quotas: limits of some tenants
          Ttl,        \* binding_reservation_ttl
          LastId,     \* the largest id, u64::MAX in the code
          MaxUid,     \* bound: identities of a pod
          MaxReserves \* bound: reservations granted

ASSUME LedgerAssumption ==
    /\ IsFiniteSet(Pod)
    /\ NoNode \notin Node
    /\ GpusOf \in [Pod -> Nat]
    /\ TenantOf \in [Pod -> Tenant]
    /\ Capacity \in [Node -> Nat]
    /\ DOMAIN Quota \subseteq Tenant
    /\ \A t \in DOMAIN Quota : Quota[t] \in Nat
    /\ Ttl \in Nat \ {0}
    /\ MaxReserves \in Nat /\ MaxUid \in Nat
    /\ LastId \in Nat /\ LastId > MaxReserves

VARIABLES reservations,  \* id -> [entries, left]
          nextId,
          cluster        \* the latest snapshot: its nodes, and uid and node of its pods

ledger == <<reservations, nextId>>
vars   == <<reservations, nextId, cluster>>

-----------------------------------------------------------------------------
Entry       == [pod : Pod, uid : Nat, node : Node]
Reservation == [entries : SUBSET {e \in Entry : e.uid # 0}, left : 0..Ttl]
Snapshot    == [nodes : SUBSET Node,
                pods  : [Pod -> [uid : Nat, node : Node \cup {NoNode}]]]

Ids == DOMAIN reservations

\* The GPUs a set of entries asks for.  Two reservations may hold equal entries
\* (the same pod planned again), so totals are taken reservation by reservation.
Gpus(entries) == SumFunction([e \in entries |-> GpusOf[e.pod]])

OnNode(entries, n)   == {e \in entries : e.node = n}
OfTenant(entries, t) == {e \in entries : TenantOf[e.pod] = t}

CommittedOn(rs, n) ==
    SumFunction([id \in DOMAIN rs |-> Gpus(OnNode(rs[id].entries, n))])
CommittedFor(rs, t) ==
    SumFunction([id \in DOMAIN rs |-> Gpus(OfTenant(rs[id].entries, t))])

RunningOn(c, n) ==
    SumFunctionOnSet(GpusOf, {p \in Pod : c.pods[p].node = n})
RunningFor(c, t) ==
    SumFunctionOnSet(GpusOf,
                     {p \in Pod : c.pods[p].node # NoNode /\ TenantOf[p] = t})

-----------------------------------------------------------------------------
Unexpired_Lenient(rs) == rs           \* expire forgotten

Unexpired(rs) == Restrict(rs, {id \in DOMAIN rs : rs[id].left > 0})

\* validate_entries: every entry names a pod, an identity and some GPUs.
Valid(entries) == \A e \in entries : e.uid # 0 /\ GpusOf[e.pod] > 0

FitsNodes_IgnoresCommitted(rs, c, entries) ==
    \A n \in {e.node : e \in entries} :
        /\ n \in c.nodes
        /\ Gpus(OnNode(entries, n)) <= Capacity[n] - RunningOn(c, n)

FitsNodes(rs, c, entries) ==
    \A n \in {e.node : e \in entries} :
        /\ n \in c.nodes
        /\ Gpus(OnNode(entries, n))
               <= Capacity[n] - (RunningOn(c, n) + CommittedOn(rs, n))

FitsQuotas_PerReservation(rs, c, entries) ==
    \A t \in {TenantOf[e.pod] : e \in entries} \cap DOMAIN Quota :
        Gpus(OfTenant(entries, t)) <= Quota[t] - RunningFor(c, t)

FitsQuotas(rs, c, entries) ==
    \A t \in {TenantOf[e.pod] : e \in entries} \cap DOMAIN Quota :
        Gpus(OfTenant(entries, t))
            <= Quota[t] - (RunningFor(c, t) + CommittedFor(rs, t))

Reservable(rs, c, entries) ==
    Valid(entries) /\ FitsNodes(rs, c, entries) /\ FitsQuotas(rs, c, entries)

NewId_Count == Cardinality(Ids) + 1       \* numbered by how many there are

NewId == nextId

SaturatingSuccessor_Stays(id) == id

SaturatingSuccessor(id) == IF id = LastId THEN id ELSE id + 1

\* reserve: expired reservations go first, whether or not the new one is taken.
Reserve(entries) ==
    LET rs == Unexpired(reservations)
    IN  IF Reservable(rs, cluster, entries)
        THEN /\ reservations' = [id \in DOMAIN rs \cup {NewId} |->
                    IF id = NewId THEN [entries |-> entries, left |-> Ttl]
                                  ELSE rs[id]]
             /\ nextId' = SaturatingSuccessor(nextId)
        ELSE reservations' = rs /\ UNCHANGED nextId

Expire == reservations' = Unexpired(reservations) /\ UNCHANGED nextId

\* reserve_ready_bindings: a plan with nothing ready only expires.
ReserveReady(entries) == IF entries = {} THEN Expire ELSE Reserve(entries)

Release(id) ==
    /\ reservations' = Restrict(reservations, Ids \ {id})
    /\ UNCHANGED nextId

\* The same pod, still unbound: the only entry worth keeping.
StillOpen_AnyIdentity(c, e) ==
    c.pods[e.pod].uid # 0 /\ c.pods[e.pod].node = NoNode

StillOpen(c, e) ==
    /\ e.uid # 0
    /\ c.pods[e.pod].uid = e.uid
    /\ c.pods[e.pod].node = NoNode

Reconciled_DropsReservation(rs, c) ==     \* one resolved member drops them all
    Restrict(rs, {id \in DOMAIN rs : \A e \in rs[id].entries : StillOpen(c, e)})

Reconciled(rs, c) ==
    LET kept(id) == {e \in rs[id].entries : StillOpen(c, e)}
    IN  [id \in {id \in DOMAIN rs : kept(id) # {}} |->
             [entries |-> kept(id), left |-> rs[id].left]]

ReconcileObserved ==
    /\ reservations' = Reconciled(Unexpired(reservations), cluster)
    /\ UNCHANGED nextId

\* Time passes.
Tick ==
    /\ reservations' = [id \in Ids |->
           [entries |-> reservations[id].entries,
            left    |-> IF reservations[id].left = 0 THEN 0
                                                     ELSE reservations[id].left - 1]]
    /\ UNCHANGED nextId
-----------------------------------------------------------------------------
\* The cluster, as the snapshots show it: pods are created, bound by ksolver or
\* by others, deleted and created again; nodes come and go.
Becomes(p, pod) ==
    cluster' = [nodes |-> cluster.nodes, pods |-> [cluster.pods EXCEPT ![p] = pod]]

Created(p) ==
    /\ cluster.pods[p].uid = 0
    /\ \E u \in 1..MaxUid : Becomes(p, [uid |-> u, node |-> NoNode])

Bound(p) ==
    /\ cluster.pods[p].uid # 0 /\ cluster.pods[p].node = NoNode
    /\ \E n \in cluster.nodes : Becomes(p, [uid |-> cluster.pods[p].uid, node |-> n])

Deleted(p) ==
    /\ cluster.pods[p].uid # 0
    /\ Becomes(p, [uid |-> 0, node |-> NoNode])

NodeComesOrGoes(n) ==
    /\ \A p \in Pod : cluster.pods[p].node # n
    /\ \E nodes \in {cluster.nodes \ {n}, cluster.nodes \cup {n}} :
           cluster' = [nodes |-> nodes, pods |-> cluster.pods]

ClusterChanges ==
    /\ \/ \E p \in Pod : Created(p) \/ Bound(p) \/ Deleted(p)
       \/ \E n \in Node : NodeComesOrGoes(n)
    /\ UNCHANGED ledger

\* A plan names each pod once.
Plans ==
    UNION {{{[pod |-> p, uid |-> uid[p], node |-> node[p]] : p \in pods} :
                uid \in [pods -> 0..MaxUid], node \in [pods -> Node]} :
           pods \in SUBSET Pod}

Init ==
    /\ reservations = [id \in {} |-> [entries |-> {}, left |-> 0]]
    /\ nextId = 1
    /\ cluster = [nodes |-> Node, pods |-> [p \in Pod |-> [uid |-> 1, node |-> NoNode]]]

Next ==
    \/ /\ nextId <= MaxReserves
       /\ \E entries \in Plans : ReserveReady(entries) /\ UNCHANGED cluster
    \/ \E id \in Ids : Release(id) /\ UNCHANGED cluster
    \/ ReconcileObserved /\ UNCHANGED cluster
    \/ Tick /\ UNCHANGED cluster
    \/ ClusterChanges

\* The loop reconciles on every pass, and clocks run.
Fairness ==
    /\ WF_vars(ReconcileObserved /\ UNCHANGED cluster)
    /\ WF_vars(Tick /\ UNCHANGED cluster)

Spec == Init /\ [][Next]_vars /\ Fairness

-----------------------------------------------------------------------------
TypeOK ==
    /\ nextId \in 1..LastId
    /\ Ids \subseteq 1..(nextId - 1)
    /\ reservations \in [Ids -> Reservation]
    /\ cluster \in Snapshot

\* However reservations are granted, lapse and shrink, together they never
\* promise more of a node than it has, nor more than a tenant's quota.
CommittedFits ==
    /\ \A n \in Node : CommittedOn(reservations, n) <= Capacity[n]
    /\ \A t \in DOMAIN Quota : CommittedFor(reservations, t) <= Quota[t]

\* A granted reservation is never replaced or extended by a later one, even
\* after others were released: the id a pass keeps still names its own.
GrantsAreStable ==
    [][\A id \in Ids \cap Ids' :
           /\ reservations'[id].entries \subseteq reservations[id].entries
           /\ reservations'[id].left <= reservations[id].left]_vars

\* Neither reserving nor reconciling drops an entry before its time, unless the
\* snapshot shows its pod bound, gone or replaced.
HeldUntilResolved ==
    [][ReconcileObserved \/ nextId' # nextId =>
           \A id \in Ids : \A e \in reservations[id].entries :
               \/ reservations[id].left = 0
               \/ id \in Ids' /\ e \in reservations'[id].entries
               \/ cluster.pods[e.pod] # [uid |-> e.uid, node |-> NoNode]]_vars

\* No reservation holds its GPUs for ever: what is not observed runs out.
EventuallyFreed ==
    \A id \in 1..MaxReserves : id \in Ids ~> id \notin Ids
=============================================================================
