----------------------------- MODULE ShadowPass -----------------------------
(***************************************************************************)
(* The solve loop of run_shadow with binding armed (shadow.rs): collect a  *)
(* snapshot, reconcile the ledger with it, solve for the pods the watch    *)
(* has seen, reserve the ready part of the plan, apply it (Binder), and    *)
(* keep or release the reservation.  The loop is sequential; the pods, the *)
(* watch, the clock and late POSTs move between its steps, and the process *)
(* may die at any of them.                                                 *)
(*                                                                         *)
(* The solver is an oracle: any placement that fits the snapshot and       *)
(* leaves out no workload that would still fit.  It does not see the       *)
(* ledger.  Only ksolver binds GPU pods here.                              *)
(***************************************************************************)
EXTENDS Binder

CONSTANTS GroupOf,      \* the workload of each pod, or NoGroup
          KindOf,       \* "ours" or "dra"
          GpusOf,       \* gpu_request of each pod; may be 0 for a DRA pod
          Tenant, TenantOf, Capacity, Quota, Ttl,
          LastId        \* bound: reservation ids in use

ASSUME LoopAssumption ==
    /\ GroupOf \in [Pod -> Group \cup {NoGroup}]
    /\ KindOf \in [Pod -> {"ours", "dra"}]
    /\ GpusOf \in [Pod -> Nat]
    /\ TenantOf \in [Pod -> Tenant]
    /\ Capacity \in [Node -> Nat]
    /\ DOMAIN Quota \subseteq Tenant
    /\ \A t \in DOMAIN Quota : Quota[t] \in Nat
    /\ Ttl \in Nat \ {0}
    /\ LastId \in Nat \ {0}

VARIABLES reservations, nextId,  \* binding_ledger
          snapshot,     \* the collected, normalized cluster
          observed,     \* the watch state: uid of each pod seen pending, or 0
          phase,        \* where the loop stands
          held,         \* reservation_id of the pass; 0 is None
          uncovered     \* history: the ledger lost sight of a bind (Unaccounted)

loop    == <<snapshot, observed, phase, held>>
allVars == <<world, locals, faults, reservations, nextId, loop, uncovered>>

Ledger == INSTANCE ReservationLedger
              WITH cluster <- snapshot, MaxUid <- 0, MaxReserves <- 0

-----------------------------------------------------------------------------
\* What a LIST shows.  A pod that is terminating still holds its GPUs.
Listed ==
    [nodes |-> Node,
     pods  |-> [p \in Pod |-> [uid |-> live[p].uid, node |-> live[p].node]]]

\* classify: only unbound pods of ours that are not going away are observed.
Pending(p) ==
    /\ live[p].uid # 0
    /\ live[p].node = NoNode
    /\ ~live[p].deleting
    /\ live[p].kind \in {"ours", "dra"}

WatchDelivers(p) ==
    /\ observed' = [observed EXCEPT ![p] = IF Pending(p) THEN live[p].uid ELSE 0]
    /\ UNCHANGED <<world, locals, faults, reservations, nextId, snapshot, phase,
                   held>>

NoReservations == [id \in {} |-> [entries |-> {}, left |-> 0]]

\* collect_shadow_snapshot, then the ledger is reconciled with what it shows.
\* Ids are only compared, so those above the ones still held are numbered again.
Collect ==
    /\ phase = "idle"
    /\ snapshot' = Listed
    /\ reservations' =
           Ledger!Reconciled(Ledger!Unexpired(reservations), Listed)
    /\ nextId' = Max({0} \cup DOMAIN reservations') + 1
    /\ phase' = "collected"
    /\ UNCHANGED <<world, locals, faults, observed, held>>

CollectFails ==
    /\ phase = "idle"
    /\ faults < MaxFaults /\ faults' = faults + 1
    /\ UNCHANGED <<world, locals, reservations, nextId, loop>>

NothingPending ==
    /\ phase = "collected"
    /\ \A p \in Pod : observed[p] = 0
    /\ phase' = "idle"
    /\ UNCHANGED <<world, locals, faults, reservations, nextId, snapshot,
                   observed, held>>

\* The solve fails, or leadership was lost when it returned.
SolveFails ==
    /\ phase = "collected"
    /\ faults < MaxFaults /\ faults' = faults + 1
    /\ phase' = "idle"
    /\ UNCHANGED <<world, locals, reservations, nextId, snapshot, observed,
                   held>>

-----------------------------------------------------------------------------
Observed == {p \in Pod : observed[p] # 0}

GpusOn(place, n) ==
    SumFunctionOnSet(GpusOf, {p \in DOMAIN place : place[p] = n})

\* Placements the solver may return: they fit beside what runs, and take a
\* workload (a gang, or a single pod) whole or not at all.
Fits(place) ==
    /\ \A n \in Range(place) :
           Ledger!RunningOn(snapshot, n) + GpusOn(place, n) <= Capacity[n]
    /\ \A g \in Group : LET members == {p \in Observed : GroupOf[p] = g}
                        IN  members \subseteq DOMAIN place
                               \/ members \cap DOMAIN place = {}

Placements == UNION {[placed -> Node] : placed \in SUBSET Observed}

Solutions ==
    LET fitting == {place \in Placements : Fits(place)}
    IN  {place \in fitting :
            \A larger \in fitting :
                (DOMAIN place \subseteq DOMAIN larger
                   /\ Restrict(larger, DOMAIN place) = place) => larger = place}

\* assess_binding_readiness against the snapshot the solve started from.
Ready(p) ==
    /\ snapshot.pods[p].uid = observed[p]
    /\ snapshot.pods[p].node = NoNode

\* render_binding_plan: one entry per placed pod, in the order of their uids.
ByUid(S) ==
    {order \in Bijection(1..Cardinality(S), S) :
        \A j, k \in 1..Cardinality(S) :
            j < k => observed[order[j]] < observed[order[k]]}

PlansOf(place) ==
    {[k \in 1..Cardinality(DOMAIN place) |->
         [pod |-> order[k], uid |-> observed[order[k]],
          group |-> GroupOf[order[k]], node |-> place[order[k]],
          gpus |-> GpusOf[order[k]], ready |-> Ready(order[k])]] :
        order \in ByUid(DOMAIN place)}

Reserved(e) == [pod |-> e.pod, uid |-> e.uid, node |-> e.node]

ReadyEntries(p) == {Reserved(e) : e \in {e \in Range(p) : e.ready}}

\* The ledger takes the ready part of the plan and the pass is applied, or it
\* rejects it and every entry is skipped.
Solve ==
    /\ phase = "collected"
    /\ Observed # {}
    /\ nextId < LastId
    /\ \E place \in Solutions, gated \in BOOLEAN : \E p \in PlansOf(place) :
          LET ready == ReadyEntries(p)
              kept  == Ledger!Unexpired(reservations)
          IN  /\ gated => faults < MaxFaults
              /\ faults' = IF gated THEN faults + 1 ELSE faults
              /\ Ledger!ReserveReady(ready)
              /\ IF ready # {} /\ ~Ledger!Reservable(kept, snapshot, ready)
                 THEN /\ phase' = "idle"
                      /\ UNCHANGED <<locals, held>>
                 ELSE /\ StartPass(p, gated)
                      /\ phase' = "applying"
                      /\ held' = IF ready = {} THEN 0 ELSE Ledger!NewId
    /\ UNCHANGED <<world, snapshot, observed>>

Apply ==
    /\ phase = "applying"
    /\ Step
    /\ UNCHANGED <<reservations, nextId, loop>>

BoundCount == Cardinality({k \in DOMAIN outcomes : outcomes[k] = "bound"})

\* The reservation outlives the pass only when something was really bound.
KeepsReservation == ~DryRun /\ BoundCount > 0

Conclude ==
    /\ phase = "applying"
    /\ pc = "done"
    /\ IF held # 0 /\ ~KeepsReservation
       THEN Ledger!Release(held)
       ELSE UNCHANGED <<reservations, nextId>>
    /\ held' = 0
    /\ phase' = "idle"
    /\ StartPass(<<>>, FALSE)             \* the locals of the pass are gone
    /\ UNCHANGED <<world, faults, snapshot, observed>>

\* The process dies and is started again: ledger and watch start empty, and a POST
\* may be left on its way.
Restart ==
    /\ faults < MaxFaults /\ faults' = faults + 1
    /\ \/ UNCHANGED late
       \/ /\ phase = "applying" /\ pc = "post"
          /\ ~DryRun /\ Cardinality(late) < MaxLate
          /\ late' = late \cup {[entry |-> Current, index |-> i, since |-> horizon]}
    /\ StartPass(<<>>, FALSE)
    /\ reservations' = NoReservations /\ nextId' = 1
    /\ observed' = [p \in Pod |-> 0]
    /\ phase' = "idle" /\ held' = 0
    /\ UNCHANGED <<live, nextUid, changes, snapshot>>

TimePasses ==
    /\ Ledger!Tick
    /\ UNCHANGED <<world, locals, faults, loop>>

ClusterMoves ==
    /\ PodsChange \/ \E l \in late : LatePostArrives(l)
    /\ UNCHANGED <<reservations, nextId, loop>>

-----------------------------------------------------------------------------
Init ==
    /\ live = [p \in Pod |-> [uid |-> CHOOSE k \in 1..Cardinality(Pod) :
                                 SetToSeq(Pod)[k] = p,
                              node |-> NoNode, deleting |-> FALSE,
                              kind |-> KindOf[p]]]
    /\ nextUid = Cardinality(Pod) + 1
    /\ late = {} /\ faults = 0 /\ changes = 0
    /\ plan = <<>> /\ blocked = FALSE /\ pc = "next" /\ i = 1
    /\ seen = {} /\ skipped = {} /\ cache = [p \in Pod |-> Unread]
    /\ applied = 0 /\ outcomes = <<>> /\ mutations = {} /\ horizon = 0
    /\ reservations = NoReservations
    /\ nextId = 1
    /\ snapshot = Listed
    /\ observed = [p \in Pod |-> 0]
    /\ phase = "idle" /\ held = 0 /\ uncovered = FALSE

Covered(e) ==
    \E id \in DOMAIN reservations : Reserved(e) \in reservations[id].entries

\* A bind nothing accounts for: its POST is still on its way, or has landed
\* behind the snapshot of the running pass, and no reservation holds its GPUs.
Unaccounted ==
    \/ \E l \in late : ~Covered(l.entry)
    \/ /\ phase # "idle"
       /\ \E p \in Pod :
             /\ live[p].node # NoNode
             /\ snapshot.pods[p].node = NoNode
             /\ ~Covered([pod |-> p, uid |-> live[p].uid, node |-> live[p].node])

Notice == uncovered' = (uncovered \/ Unaccounted')

Loop == Collect \/ CollectFails \/ NothingPending \/ SolveFails \/ Solve
        \/ Apply \/ Conclude

Next ==
    /\ \/ Loop
       \/ \E p \in Pod : WatchDelivers(p)
       \/ Restart
       \/ TimePasses
       \/ ClusterMoves
    /\ Notice

\* The loop runs, the clock runs and the watch delivers.
Fairness ==
    /\ WF_allVars(Loop /\ Notice)
    /\ WF_allVars(TimePasses /\ Notice)
    /\ \A p \in Pod : WF_allVars(WatchDelivers(p) /\ Notice)

Spec == Init /\ [][Next]_allVars /\ Fairness

-----------------------------------------------------------------------------
GpusLive(n) == SumFunctionOnSet(GpusOf, {p \in Pod : live[p].node = n})

\* ledger.rs: what was decided and is not yet observed counts against the node.
NoOvercommit == \A n \in Node : GpusLive(n) <= Capacity[n]

\* No node is overcommitted as long as the ledger holds what the snapshot of the
\* pass does not show, however late POSTs land and whatever is planned meanwhile.
ReservationsHoldNodes == ~uncovered => NoOvercommit

\* Every POST goes out under a reservation of exactly that pod and node, even if
\* its ttl ran out during the pass.
PostsAreReserved == phase = "applying" /\ pc = "post" => Covered(Current)

\* A pod that fits and stays pending is bound in the end: throttling, refusals
\* by reservations of earlier passes and failed calls only delay it.
PendingIsBound ==
    \A p \in Pod : Pending(p) ~> ~Pending(p)
=============================================================================
