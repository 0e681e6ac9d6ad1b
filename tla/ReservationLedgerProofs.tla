----------------------- MODULE ReservationLedgerProofs -----------------------
(***************************************************************************)
(* What the ledger keeps of its promises for any pods, nodes, quotas and   *)
(* ttl.                                                                    *)
(***************************************************************************)
EXTENDS ReservationLedger, Sums

\* A plan's entries are entries, also those without an identity.
LEMMA PlansAreEntries == \A entries \in Plans : entries \subseteq Entry
<1> SUFFICES ASSUME NEW pods \in SUBSET Pod,
                    NEW uid \in [pods -> 0..MaxUid], NEW node \in [pods -> Node]
             PROVE  {[pod |-> p, uid |-> uid[p], node |-> node[p]] : p \in pods}
                       \subseteq Entry
    BY DEF Plans
<1> QED BY LedgerAssumption DEF Entry

(* Dropping expired reservations leaves a well-typed part of the ledger. *)
LEMMA UnexpiredType ==
    ASSUME TypeOK
    PROVE  /\ DOMAIN Unexpired(reservations) \subseteq Ids
           /\ Unexpired(reservations) \in [DOMAIN Unexpired(reservations) -> Reservation]
           /\ \A id \in DOMAIN Unexpired(reservations) :
                  Unexpired(reservations)[id] = reservations[id]
           /\ \A id \in Ids : reservations[id].left > 0 =>
                  id \in DOMAIN Unexpired(reservations)
BY DEF TypeOK, Unexpired, Restrict, Ids

\* Reconciling keeps ids and ages, and of the entries exactly the open ones.
LEMMA ReconciledType ==
    ASSUME TypeOK, NEW rs, rs = Reconciled(Unexpired(reservations), cluster)
    PROVE  /\ DOMAIN rs \subseteq Ids
           /\ rs \in [DOMAIN rs -> Reservation]
           /\ \A id \in DOMAIN rs :
                 /\ rs[id].entries = {e \in reservations[id].entries :
                                         StillOpen(cluster, e)}
                 /\ rs[id].left = reservations[id].left
           /\ \A id \in Ids : \A e \in reservations[id].entries :
                 reservations[id].left > 0 /\ StillOpen(cluster, e)
                    => id \in DOMAIN rs
<1> DEFINE us == Unexpired(reservations)
           kept(id) == {e \in us[id].entries : StillOpen(cluster, e)}
<1>1. /\ DOMAIN us \subseteq Ids
      /\ us \in [DOMAIN us -> Reservation]
      /\ \A id \in DOMAIN us : us[id] = reservations[id]
      /\ \A id \in Ids : reservations[id].left > 0 => id \in DOMAIN us
    BY UnexpiredType
<1>2. rs = [id \in {id \in DOMAIN us : kept(id) # {}} |->
               [entries |-> kept(id), left |-> us[id].left]]
    BY DEF Reconciled
<1>3. \A id \in DOMAIN us : us[id] \in Reservation
    BY <1>1
<1> HIDE DEF us
<1>4. \A id \in DOMAIN rs :
         /\ id \in DOMAIN us
         /\ rs[id] = [entries |-> kept(id), left |-> us[id].left]
    BY <1>2
<1>5. \A id \in DOMAIN rs :
         /\ rs[id] \in Reservation
         /\ rs[id].entries = kept(id)
         /\ rs[id].left = us[id].left
    BY <1>3, <1>4 DEF Reservation
<1>6. rs \in [DOMAIN rs -> Reservation]
    BY <1>2, <1>5
<1>7. \A id \in Ids : \A e \in reservations[id].entries :
         reservations[id].left > 0 /\ StillOpen(cluster, e) => id \in DOMAIN rs
    BY <1>1, <1>2
<1> QED BY <1>1, <1>4, <1>5, <1>6, <1>7

-----------------------------------------------------------------------------
(* The ledger starts empty and well typed. *)
THEOREM InitType == Init => TypeOK
BY LedgerAssumption DEF Init, TypeOK, Ids, Reservation, Snapshot

\* Whatever reserve is asked, it leaves well-formed reservations, with ids below
\* the next one.
LEMMA ReserveType ==
    ASSUME TypeOK, nextId <= MaxReserves, NEW entries \in SUBSET Entry,
           Reserve(entries), UNCHANGED cluster
    PROVE  TypeOK'
<1> DEFINE us == Unexpired(reservations)
<1>1. /\ DOMAIN us \subseteq Ids
      /\ us \in [DOMAIN us -> Reservation]
    BY UnexpiredType
<1>2. cluster' \in Snapshot
    BY DEF TypeOK
<1>3. CASE Reservable(us, cluster, entries)
  <2>1. /\ reservations' = [id \in DOMAIN us \cup {nextId} |->
               IF id = nextId THEN [entries |-> entries, left |-> Ttl] ELSE us[id]]
        /\ nextId' = nextId + 1
    BY <1>3, LedgerAssumption DEF Reserve, NewId, SaturatingSuccessor, TypeOK
  <2>2. [entries |-> entries, left |-> Ttl] \in Reservation
    BY <1>3, LedgerAssumption DEF Reservation, Reservable, Valid
  <2> HIDE DEF us
  <2>3. Ids' = DOMAIN us \cup {nextId}
    BY <2>1 DEF Ids
  <2>4. reservations' \in [Ids' -> Reservation]
    BY <1>1, <2>1, <2>2, <2>3
  <2>5. nextId' \in 1..LastId /\ Ids' \subseteq 1..(nextId' - 1)
    BY <1>1, <2>1, <2>3, LedgerAssumption DEF TypeOK
  <2> QED BY <1>2, <2>4, <2>5 DEF TypeOK
<1>4. CASE ~Reservable(us, cluster, entries)
  <2>1. reservations' = us /\ nextId' = nextId
    BY <1>4 DEF Reserve
  <2> QED BY <1>1, <1>2, <2>1 DEF TypeOK, Ids
<1> QED BY <1>3, <1>4

(* Expiry keeps the types. *)
LEMMA ExpireType ==
    ASSUME TypeOK, Expire, UNCHANGED cluster
    PROVE  TypeOK'
BY UnexpiredType DEF Expire, TypeOK, Ids

(* Every step keeps the types. *)
LEMMA NextType == TypeOK /\ [Next]_vars => TypeOK'
<1> SUFFICES ASSUME TypeOK, [Next]_vars PROVE TypeOK'
    OBVIOUS
<1>1. CASE nextId <= MaxReserves
           /\ \E entries \in Plans : ReserveReady(entries) /\ UNCHANGED cluster
  <2>1. PICK entries \in Plans : ReserveReady(entries) /\ UNCHANGED cluster
    BY <1>1
  <2>2. CASE entries = {}
    BY <2>1, <2>2, ExpireType DEF ReserveReady
  <2>3. CASE entries # {}
    BY <1>1, <2>1, <2>3, PlansAreEntries, ReserveType DEF ReserveReady
  <2> QED BY <2>2, <2>3
<1>2. ASSUME NEW id \in Ids, Release(id), UNCHANGED cluster PROVE TypeOK'
    BY <1>2 DEF Release, TypeOK, Ids, Restrict
<1>3. CASE ReconcileObserved /\ UNCHANGED cluster
    BY <1>3, ReconciledType DEF ReconcileObserved, TypeOK, Ids
<1>4. CASE Tick /\ UNCHANGED cluster
  <2>1. \A id \in Ids : reservations[id] \in Reservation
    BY DEF TypeOK
  <2>2. \A id \in Ids :
           [entries |-> reservations[id].entries,
            left    |-> IF reservations[id].left = 0 THEN 0
                                                     ELSE reservations[id].left - 1]
              \in Reservation
    BY <2>1, LedgerAssumption DEF Reservation
  <2> QED BY <1>4, <2>2 DEF Tick, TypeOK, Ids
<1>5. CASE ClusterChanges
  <2>1. UNCHANGED ledger
    BY <1>5 DEF ClusterChanges
  <2>2. cluster' \in Snapshot
    <3>1. cluster \in Snapshot
      BY DEF TypeOK
    <3>2. ASSUME NEW p \in Pod, Created(p) PROVE cluster' \in Snapshot
      BY <3>1, <3>2, LedgerAssumption DEF Created, Becomes, Snapshot
    <3>3. ASSUME NEW p \in Pod, Bound(p) PROVE cluster' \in Snapshot
      BY <3>1, <3>3 DEF Bound, Becomes, Snapshot
    <3>4. ASSUME NEW p \in Pod, Deleted(p) PROVE cluster' \in Snapshot
      BY <3>1, <3>4 DEF Deleted, Becomes, Snapshot
    <3>5. ASSUME NEW n \in Node, NodeComesOrGoes(n) PROVE cluster' \in Snapshot
      BY <3>1, <3>5 DEF NodeComesOrGoes, Snapshot
    <3> QED BY <1>5, <3>2, <3>3, <3>4, <3>5 DEF ClusterChanges
  <2> QED BY <2>1, <2>2 DEF ledger, TypeOK, Ids
<1>6. CASE UNCHANGED vars
    BY <1>6 DEF vars, TypeOK, Ids
<1> QED BY <1>1, <1>2, <1>3, <1>4, <1>5, <1>6 DEF Next

\* Every reachable ledger is well formed: ids lie below the next one, so none is
\* given out twice.
THEOREM TypeCorrect == Spec => []TypeOK
BY InitType, NextType, PTL DEF Spec

-----------------------------------------------------------------------------
GrantsAreStableStep ==
    \A id \in Ids \cap Ids' :
        /\ reservations'[id].entries \subseteq reservations[id].entries
        /\ reservations'[id].left <= reservations[id].left

(* A reservation only loses entries and time. *)
LEMMA StableStep == TypeOK /\ [Next]_vars => [GrantsAreStableStep]_vars
<1> SUFFICES ASSUME TypeOK, Next,
                    NEW id \in Ids \cap Ids'
             PROVE  /\ reservations'[id].entries \subseteq reservations[id].entries
                    /\ reservations'[id].left <= reservations[id].left
    BY DEF GrantsAreStableStep
<1>1. /\ reservations[id] \in Reservation
      /\ reservations[id].left \in 0..Ttl
      /\ id # nextId
    BY DEF TypeOK, Reservation
<1>2. reservations'[id] = reservations[id] =>
         /\ reservations'[id].entries \subseteq reservations[id].entries
         /\ reservations'[id].left <= reservations[id].left
    BY <1>1, LedgerAssumption
<1>3. CASE \E entries \in Plans : ReserveReady(entries) /\ UNCHANGED cluster
  <2>1. PICK entries \in Plans : ReserveReady(entries)
    BY <1>3
  <2>2. reservations'[id] = Unexpired(reservations)[id]
        /\ id \in DOMAIN Unexpired(reservations)
    BY <1>1, <2>1 DEF ReserveReady, Reserve, Expire, NewId, Ids
  <2> QED BY <1>2, <2>2, UnexpiredType
<1>4. ASSUME NEW other \in Ids, Release(other) PROVE reservations'[id] = reservations[id]
    BY <1>4 DEF Release, Restrict, Ids
<1>5. CASE ReconcileObserved
    BY <1>1, <1>5, ReconciledType, LedgerAssumption DEF ReconcileObserved, Ids
<1>6. CASE Tick
  <2>1. reservations'[id] =
           [entries |-> reservations[id].entries,
            left    |-> IF reservations[id].left = 0 THEN 0
                                                     ELSE reservations[id].left - 1]
    BY <1>6 DEF Tick
  <2> QED BY <1>1, <2>1, LedgerAssumption DEF Reservation
<1>7. CASE ClusterChanges
    BY <1>2, <1>7 DEF ClusterChanges, ledger
<1> QED BY <1>2, <1>3, <1>4, <1>5, <1>6, <1>7 DEF Next

\* A reservation, once granted, is never replaced or extended: the id a pass
\* remembers across its awaits names what it reserved, or nothing.
THEOREM GrantsStable == Spec => GrantsAreStable
<1>1. TypeOK /\ [Next]_vars => [GrantsAreStableStep]_vars
    BY StableStep
<1>2. GrantsAreStable <=> [][GrantsAreStableStep]_vars
    BY PTL DEF GrantsAreStable, GrantsAreStableStep
<1> QED BY <1>1, <1>2, TypeCorrect, PTL DEF Spec

-----------------------------------------------------------------------------
HeldUntilResolvedStep ==
    ReconcileObserved \/ nextId' # nextId =>
        \A id \in Ids : \A e \in reservations[id].entries :
            \/ reservations[id].left = 0
            \/ id \in Ids' /\ e \in reservations'[id].entries
            \/ cluster.pods[e.pod] # [uid |-> e.uid, node |-> NoNode]

(* Neither reconciling nor reserving drops an entry that is open and unexpired. *)
LEMMA HeldStep == TypeOK /\ [Next]_vars => [HeldUntilResolvedStep]_vars
<1> SUFFICES ASSUME TypeOK, Next, ReconcileObserved \/ nextId' # nextId,
                    NEW id \in Ids, NEW e \in reservations[id].entries,
                    reservations[id].left # 0,
                    cluster.pods[e.pod] = [uid |-> e.uid, node |-> NoNode]
             PROVE  id \in Ids' /\ e \in reservations'[id].entries
    BY DEF HeldUntilResolvedStep
<1>1. /\ reservations[id].left > 0
      /\ id # nextId
      /\ e.uid # 0
    BY LedgerAssumption DEF TypeOK, Reservation
<1>2. CASE ReconcileObserved
  <2>1. StillOpen(cluster, e)
    BY <1>1 DEF StillOpen
  <2> QED BY <1>1, <1>2, <2>1, ReconciledType DEF ReconcileObserved, Ids
<1>3. CASE nextId' # nextId
  <2>1. PICK entries \in Plans : ReserveReady(entries)
    BY <1>3 DEF Next, Release, ReconcileObserved, Tick, ClusterChanges, ledger
  <2>2. /\ id \in DOMAIN Unexpired(reservations)
        /\ Unexpired(reservations)[id] = reservations[id]
    BY <1>1, UnexpiredType
  <2>3. id \in Ids' /\ reservations'[id] = Unexpired(reservations)[id]
    BY <1>1, <2>1, <2>2 DEF ReserveReady, Reserve, Expire, NewId, Ids
  <2> QED BY <2>2, <2>3
<1> QED BY <1>2, <1>3

\* No reservation is dropped early, for any number of overlapping ones.
THEOREM HeldUntil == Spec => HeldUntilResolved
<1>1. HeldUntilResolved <=> [][HeldUntilResolvedStep]_vars
    BY PTL DEF HeldUntilResolved, HeldUntilResolvedStep
<1> QED BY <1>1, HeldStep, TypeCorrect, PTL DEF Spec

-----------------------------------------------------------------------------
\* Reservations whose totals can be taken: finitely many, of finitely many entries.
Countable(rs) ==
    /\ IsFiniteSet(DOMAIN rs)
    /\ \A id \in DOMAIN rs : /\ rs[id].entries \subseteq Entry
                             /\ IsFiniteSet(rs[id].entries)

\* An entry asks for GPUs, a total is a number, and some of the entries ask for
\* no more than all of them.
LEMMA GpusOfSome ==
    ASSUME NEW more \in SUBSET Entry, IsFiniteSet(more), NEW some \in SUBSET more
    PROVE  Gpus(some) \in Nat /\ Gpus(more) \in Nat /\ Gpus(some) <= Gpus(more)
<1> DEFINE f == [e \in some |-> GpusOf[e.pod]]
           g == [e \in more |-> GpusOf[e.pod]]
<1>1. \A e \in more : GpusOf[e.pod] \in Nat
  BY LedgerAssumption DEF Entry
<1>2. /\ \A e \in some : f[e] \in Nat /\ f[e] <= g[e]
      /\ \A e \in more : g[e] \in Nat
  BY <1>1
<1>3. Gpus(some) = SumFunctionOnSet(f, some) /\ Gpus(more) = SumFunctionOnSet(g, more)
  BY DEF Gpus, SumFunction
<1>4. IsFiniteSet(some)
  BY FS_Subset
<1> HIDE DEF f, g
<1>5. SumFunctionOnSet(f, some) <= SumFunctionOnSet(g, more)
  BY <1>2, SumGrows
<1>6. SumFunctionOnSet(f, some) \in Nat /\ SumFunctionOnSet(g, more) \in Nat
  BY <1>2, <1>4, SumNat
<1> QED BY <1>3, <1>5, <1>6

(* No entries hold no GPUs. *)
LEMMA NoGpus == Gpus({}) = 0
BY SumEmpty DEF Gpus, SumFunction

\* Totals as sums over the ids.
LEMMA CommittedIsSum ==
    ASSUME NEW rs, Countable(rs), NEW n, NEW t
    PROVE  /\ CommittedOn(rs, n) \in Nat
           /\ CommittedFor(rs, t) \in Nat
           /\ \A id \in DOMAIN rs : /\ Gpus(OnNode(rs[id].entries, n)) \in Nat
                                    /\ Gpus(OfTenant(rs[id].entries, t)) \in Nat
<1> DEFINE f == [id \in DOMAIN rs |-> Gpus(OnNode(rs[id].entries, n))]
           g == [id \in DOMAIN rs |-> Gpus(OfTenant(rs[id].entries, t))]
<1>1. \A id \in DOMAIN rs : /\ Gpus(OnNode(rs[id].entries, n)) \in Nat
                            /\ Gpus(OfTenant(rs[id].entries, t)) \in Nat
  <2> TAKE id \in DOMAIN rs
  <2>1. /\ rs[id].entries \in SUBSET Entry
        /\ IsFiniteSet(rs[id].entries)
        /\ OnNode(rs[id].entries, n) \in SUBSET rs[id].entries
        /\ OfTenant(rs[id].entries, t) \in SUBSET rs[id].entries
    BY DEF Countable, OnNode, OfTenant
  <2> QED BY <2>1, GpusOfSome
<1>2. \A id \in DOMAIN rs : f[id] \in Nat /\ g[id] \in Nat
  BY <1>1
<1>3. /\ CommittedOn(rs, n) = SumFunctionOnSet(f, DOMAIN rs)
      /\ CommittedFor(rs, t) = SumFunctionOnSet(g, DOMAIN rs)
  BY DEF CommittedOn, CommittedFor, SumFunction
<1>4. IsFiniteSet(DOMAIN rs)
  BY DEF Countable
<1> HIDE DEF f, g
<1>5. /\ SumFunctionOnSet(f, DOMAIN rs) \in Nat
      /\ SumFunctionOnSet(g, DOMAIN rs) \in Nat
  BY <1>2, <1>4, SumNat
<1> QED BY <1>1, <1>3, <1>5

\* us holds nothing that rs does not hold.
Within(us, rs) ==
    /\ DOMAIN us \subseteq DOMAIN rs
    /\ \A id \in DOMAIN us : us[id].entries \subseteq rs[id].entries

\* Dropping reservations or entries of them commits no more.
LEMMA LessCommitted ==
    ASSUME NEW rs, Countable(rs), NEW us, Within(us, rs)
    PROVE  /\ Countable(us)
           /\ \A n : CommittedOn(us, n) <= CommittedOn(rs, n)
           /\ \A t : CommittedFor(us, t) <= CommittedFor(rs, t)
<1>1. Countable(us)
  BY FS_Subset DEF Countable, Within
<1>2. ASSUME NEW n PROVE CommittedOn(us, n) <= CommittedOn(rs, n)
  <2> DEFINE f == [id \in DOMAIN us |-> Gpus(OnNode(us[id].entries, n))]
             g == [id \in DOMAIN rs |-> Gpus(OnNode(rs[id].entries, n))]
  <2>1. ASSUME NEW id \in DOMAIN us PROVE f[id] \in Nat /\ f[id] <= g[id]
    <3>1. /\ OnNode(rs[id].entries, n) \in SUBSET Entry
          /\ OnNode(us[id].entries, n) \in SUBSET OnNode(rs[id].entries, n)
          /\ id \in DOMAIN rs
      BY DEF OnNode, Within, Countable
    <3>2. IsFiniteSet(OnNode(rs[id].entries, n))
      BY <3>1, FS_Subset DEF Countable, OnNode
    <3> QED BY <3>1, <3>2, GpusOfSome
  <2>2. \A id \in DOMAIN rs : g[id] \in Nat
    BY CommittedIsSum
  <2>3. /\ CommittedOn(us, n) = SumFunctionOnSet(f, DOMAIN us)
        /\ CommittedOn(rs, n) = SumFunctionOnSet(g, DOMAIN rs)
    BY DEF CommittedOn, SumFunction
  <2> HIDE DEF f, g
  <2> QED BY <2>1, <2>2, <2>3, SumGrows DEF Within, Countable
<1>3. ASSUME NEW t PROVE CommittedFor(us, t) <= CommittedFor(rs, t)
  <2> DEFINE f == [id \in DOMAIN us |-> Gpus(OfTenant(us[id].entries, t))]
             g == [id \in DOMAIN rs |-> Gpus(OfTenant(rs[id].entries, t))]
  <2>1. ASSUME NEW id \in DOMAIN us PROVE f[id] \in Nat /\ f[id] <= g[id]
    <3>1. /\ OfTenant(rs[id].entries, t) \in SUBSET Entry
          /\ OfTenant(us[id].entries, t) \in SUBSET OfTenant(rs[id].entries, t)
          /\ id \in DOMAIN rs
      BY DEF OfTenant, Within, Countable
    <3>2. IsFiniteSet(OfTenant(rs[id].entries, t))
      BY <3>1, FS_Subset DEF Countable, OfTenant
    <3> QED BY <3>1, <3>2, GpusOfSome
  <2>2. \A id \in DOMAIN rs : g[id] \in Nat
    BY CommittedIsSum
  <2>3. /\ CommittedFor(us, t) = SumFunctionOnSet(f, DOMAIN us)
        /\ CommittedFor(rs, t) = SumFunctionOnSet(g, DOMAIN rs)
    BY DEF CommittedFor, SumFunction
  <2> HIDE DEF f, g
  <2> QED BY <2>1, <2>2, <2>3, SumGrows DEF Within, Countable
<1> QED BY <1>1, <1>2, <1>3

\* us and one more reservation, as Reserve grants it.
Granted(us, new, entries) ==
    [id \in DOMAIN us \cup {new} |->
        IF id = new THEN [entries |-> entries, left |-> Ttl] ELSE us[id]]

\* A granted reservation adds what it asks for.
LEMMA OneMoreCommitted ==
    ASSUME NEW us, Countable(us), NEW new, new \notin DOMAIN us,
           NEW entries \in SUBSET Entry, IsFiniteSet(entries),
           NEW rs, rs = Granted(us, new, entries)
    PROVE  /\ Countable(rs)
           /\ \A n : CommittedOn(rs, n) = Gpus(OnNode(entries, n)) + CommittedOn(us, n)
           /\ \A t : CommittedFor(rs, t) = Gpus(OfTenant(entries, t)) + CommittedFor(us, t)
<1>1. /\ DOMAIN rs = DOMAIN us \cup {new}
      /\ rs[new].entries = entries
      /\ \A id \in DOMAIN us : rs[id] = us[id]
  BY DEF Granted
<1>2. Countable(rs)
  BY <1>1, FS_AddElement DEF Countable
<1>3. ASSUME NEW n
      PROVE  CommittedOn(rs, n) = Gpus(OnNode(entries, n)) + CommittedOn(us, n)
  <2> DEFINE f == [id \in DOMAIN us |-> Gpus(OnNode(us[id].entries, n))]
             g == [id \in DOMAIN rs |-> Gpus(OnNode(rs[id].entries, n))]
  <2>1. \A id \in DOMAIN us : g[id] = f[id]
    BY <1>1
  <2>2. g[new] = Gpus(OnNode(entries, n))
    BY <1>1
  <2>3. \A id \in DOMAIN us \cup {new} : g[id] \in Int
    BY <1>1, <1>2, CommittedIsSum
  <2>4. /\ CommittedOn(us, n) = SumFunctionOnSet(f, DOMAIN us)
        /\ CommittedOn(rs, n) = SumFunctionOnSet(g, DOMAIN us \cup {new})
    BY <1>1 DEF CommittedOn, SumFunction
  <2> HIDE DEF f, g
  <2>5. SumFunctionOnSet(g, DOMAIN us \cup {new}) = g[new] + SumFunctionOnSet(g, DOMAIN us)
    BY <2>3, SumInsert DEF Countable
  <2>6. SumFunctionOnSet(g, DOMAIN us) = SumFunctionOnSet(f, DOMAIN us)
    BY <2>1, SumSame DEF Countable
  <2> QED BY <2>2, <2>4, <2>5, <2>6
<1>4. ASSUME NEW t
      PROVE  CommittedFor(rs, t) = Gpus(OfTenant(entries, t)) + CommittedFor(us, t)
  <2> DEFINE f == [id \in DOMAIN us |-> Gpus(OfTenant(us[id].entries, t))]
             g == [id \in DOMAIN rs |-> Gpus(OfTenant(rs[id].entries, t))]
  <2>1. \A id \in DOMAIN us : g[id] = f[id]
    BY <1>1
  <2>2. g[new] = Gpus(OfTenant(entries, t))
    BY <1>1
  <2>3. \A id \in DOMAIN us \cup {new} : g[id] \in Int
    BY <1>1, <1>2, CommittedIsSum
  <2>4. /\ CommittedFor(us, t) = SumFunctionOnSet(f, DOMAIN us)
        /\ CommittedFor(rs, t) = SumFunctionOnSet(g, DOMAIN us \cup {new})
    BY <1>1 DEF CommittedFor, SumFunction
  <2> HIDE DEF f, g
  <2>5. SumFunctionOnSet(g, DOMAIN us \cup {new}) = g[new] + SumFunctionOnSet(g, DOMAIN us)
    BY <2>3, SumInsert DEF Countable
  <2>6. SumFunctionOnSet(g, DOMAIN us) = SumFunctionOnSet(f, DOMAIN us)
    BY <2>1, SumSame DEF Countable
  <2> QED BY <2>2, <2>4, <2>5, <2>6
<1> QED BY <1>2, <1>3, <1>4

\* The GPUs of running pods are no negative number, whatever the snapshot shows.
LEMMA RunningIsNat ==
    \A c, n, t : RunningOn(c, n) \in Nat /\ RunningFor(c, t) \in Nat
<1> TAKE c, n, t
<1> DEFINE on == {p \in Pod : c.pods[p].node = n}
           for == {p \in Pod : c.pods[p].node # NoNode /\ TenantOf[p] = t}
<1>1. /\ IsFiniteSet(on) /\ IsFiniteSet(for)
      /\ \A p \in on : GpusOf[p] \in Nat
      /\ \A p \in for : GpusOf[p] \in Nat
  BY FS_Subset, LedgerAssumption
<1> HIDE DEF on, for
<1>2. SumFunctionOnSet(GpusOf, on) \in Nat /\ SumFunctionOnSet(GpusOf, for) \in Nat
  BY <1>1, SumNat
<1> QED BY <1>2 DEF RunningOn, RunningFor, on, for

\* What reserve accepts fits beside what is committed, on every node and for
\* every tenant, those it does not ask for included.
LEMMA GrantFits ==
    ASSUME NEW us, Countable(us), NEW entries \in SUBSET Entry, IsFiniteSet(entries),
           Reservable(us, cluster, entries)
    PROVE  /\ \A n \in Node : CommittedOn(us, n) <= Capacity[n] =>
                  Gpus(OnNode(entries, n)) + CommittedOn(us, n) <= Capacity[n]
           /\ \A t \in DOMAIN Quota : CommittedFor(us, t) <= Quota[t] =>
                  Gpus(OfTenant(entries, t)) + CommittedFor(us, t) <= Quota[t]
<1>1. ASSUME NEW n \in Node, CommittedOn(us, n) <= Capacity[n]
      PROVE  Gpus(OnNode(entries, n)) + CommittedOn(us, n) <= Capacity[n]
  <2>1. CommittedOn(us, n) \in Nat /\ RunningOn(cluster, n) \in Nat /\ Capacity[n] \in Nat
    BY CommittedIsSum, RunningIsNat, LedgerAssumption
  <2>2. Gpus(OnNode(entries, n)) \in Nat
    BY GpusOfSome DEF OnNode
  <2>3. CASE \E e \in entries : e.node = n
    <3>1. Gpus(OnNode(entries, n))
              <= Capacity[n] - (RunningOn(cluster, n) + CommittedOn(us, n))
      BY <2>3 DEF Reservable, FitsNodes
    <3> QED BY <2>1, <2>2, <3>1
  <2>4. CASE ~ \E e \in entries : e.node = n
    <3>1. OnNode(entries, n) = {}
      BY <2>4 DEF OnNode
    <3>2. Gpus(OnNode(entries, n)) = 0
      BY <3>1, NoGpus, Zenon
    <3> QED BY <1>1, <2>1, <3>2
  <2> QED BY <2>3, <2>4
<1>2. ASSUME NEW t \in DOMAIN Quota, CommittedFor(us, t) <= Quota[t]
      PROVE  Gpus(OfTenant(entries, t)) + CommittedFor(us, t) <= Quota[t]
  <2>1. CommittedFor(us, t) \in Nat /\ RunningFor(cluster, t) \in Nat /\ Quota[t] \in Nat
    BY CommittedIsSum, RunningIsNat, LedgerAssumption
  <2>2. Gpus(OfTenant(entries, t)) \in Nat
    BY GpusOfSome DEF OfTenant
  <2>3. CASE \E e \in entries : TenantOf[e.pod] = t
    <3>1. Gpus(OfTenant(entries, t))
              <= Quota[t] - (RunningFor(cluster, t) + CommittedFor(us, t))
      BY <2>3 DEF Reservable, FitsQuotas
    <3> QED BY <2>1, <2>2, <3>1
  <2>4. CASE ~ \E e \in entries : TenantOf[e.pod] = t
    <3>1. OfTenant(entries, t) = {}
      BY <2>4 DEF OfTenant
    <3>2. Gpus(OfTenant(entries, t)) = 0
      BY <3>1, NoGpus, Zenon
    <3> QED BY <1>2, <2>1, <3>2
  <2> QED BY <2>3, <2>4
<1> QED BY <1>1, <1>2

-----------------------------------------------------------------------------
\* A plan names each pod once, so it is finite.
LEMMA PlansAreFinite == \A entries \in Plans : IsFiniteSet(entries)
<1> SUFFICES ASSUME NEW pods \in SUBSET Pod,
                    NEW uid \in [pods -> 0..MaxUid], NEW node \in [pods -> Node]
             PROVE  IsFiniteSet({[pod |-> p, uid |-> uid[p], node |-> node[p]] : p \in pods})
    BY DEF Plans
<1>1. IsFiniteSet(pods)
  BY FS_Subset, LedgerAssumption
<1> DEFINE f == [p \in pods |-> [pod |-> p, uid |-> uid[p], node |-> node[p]]]
<1>2. {f[p] : p \in pods} = {[pod |-> p, uid |-> uid[p], node |-> node[p]] : p \in pods}
  OBVIOUS
<1>3. f \in Surjection(pods, {f[p] : p \in pods})
  BY DEF Surjection
<1> HIDE DEF f
<1>4. IsFiniteSet({f[p] : p \in pods})
  BY <1>1, <1>3, FS_Surjection
<1> QED BY <1>2, <1>4, Zenon

\* What the ledger commits is within capacity and quota, and can be counted: the
\* invariant every operation preserves.
Solvent == Countable(reservations) /\ CommittedFits

(* A ledger within a solvent one is solvent. *)
LEMMA SmallerIsSolvent ==
    ASSUME TypeOK, Solvent, Within(reservations', reservations)
    PROVE  Solvent'
<1>1. /\ Countable(reservations')
      /\ \A n : CommittedOn(reservations', n) <= CommittedOn(reservations, n)
      /\ \A t : CommittedFor(reservations', t) <= CommittedFor(reservations, t)
  BY LessCommitted DEF Solvent
<1>2. /\ \A n : CommittedOn(reservations, n) \in Nat /\ CommittedOn(reservations', n) \in Nat
      /\ \A t : CommittedFor(reservations, t) \in Nat /\ CommittedFor(reservations', t) \in Nat
  BY <1>1, CommittedIsSum DEF Solvent
<1> QED BY <1>1, <1>2, LedgerAssumption DEF Solvent, CommittedFits

(* What is left after expiry is solvent, and can be counted. *)
LEMMA UnexpiredIsSolvent ==
    ASSUME TypeOK, Solvent, NEW us, us = Unexpired(reservations)
    PROVE  /\ Within(us, reservations)
           /\ Countable(us)
           /\ \A n \in Node : CommittedOn(us, n) <= Capacity[n]
           /\ \A t \in DOMAIN Quota : CommittedFor(us, t) <= Quota[t]
<1>1. Within(us, reservations)
  BY UnexpiredType DEF Within, Ids
<1>2. /\ Countable(us)
      /\ \A n : CommittedOn(us, n) <= CommittedOn(reservations, n)
      /\ \A t : CommittedFor(us, t) <= CommittedFor(reservations, t)
  BY <1>1, LessCommitted DEF Solvent
<1>3. /\ \A n : CommittedOn(reservations, n) \in Nat /\ CommittedOn(us, n) \in Nat
      /\ \A t : CommittedFor(reservations, t) \in Nat /\ CommittedFor(us, t) \in Nat
  BY <1>2, CommittedIsSum DEF Solvent
<1> QED BY <1>1, <1>2, <1>3, LedgerAssumption DEF Solvent, CommittedFits

(* Every step keeps the ledger solvent. *)
LEMMA SolventStep == TypeOK /\ Solvent /\ [Next]_vars => Solvent'
<1> SUFFICES ASSUME TypeOK, Solvent, [Next]_vars PROVE Solvent'
    OBVIOUS
<1> DEFINE us == Unexpired(reservations)
<1>1. CASE \E entries \in Plans : ReserveReady(entries)
  <2>1. PICK entries \in Plans : ReserveReady(entries)
    BY <1>1
  <2>2. CASE reservations' = us
    BY <2>2, UnexpiredIsSolvent, SmallerIsSolvent
  <2>3. CASE Reserve(entries) /\ Reservable(us, cluster, entries)
    <3>1. reservations' = Granted(us, nextId, entries)
      BY <2>3 DEF Reserve, NewId, Granted
    <3>2. nextId \notin DOMAIN us /\ Countable(us)
      BY UnexpiredType, UnexpiredIsSolvent DEF TypeOK
    <3>3. entries \in SUBSET Entry /\ IsFiniteSet(entries)
      BY PlansAreEntries, PlansAreFinite
    <3> HIDE DEF us
    <3>4. /\ Countable(reservations')
          /\ \A n : CommittedOn(reservations', n)
                        = Gpus(OnNode(entries, n)) + CommittedOn(us, n)
          /\ \A t : CommittedFor(reservations', t)
                        = Gpus(OfTenant(entries, t)) + CommittedFor(us, t)
      BY <3>1, <3>2, <3>3, OneMoreCommitted
    <3>5. /\ \A n \in Node : CommittedOn(us, n) <= Capacity[n]
          /\ \A t \in DOMAIN Quota : CommittedFor(us, t) <= Quota[t]
      BY UnexpiredIsSolvent DEF us
    <3>6. /\ \A n \in Node : Gpus(OnNode(entries, n)) + CommittedOn(us, n) <= Capacity[n]
          /\ \A t \in DOMAIN Quota :
                 Gpus(OfTenant(entries, t)) + CommittedFor(us, t) <= Quota[t]
      BY <2>3, <3>2, <3>3, <3>5, GrantFits
    <3> QED BY <3>4, <3>6 DEF Solvent, CommittedFits
  <2> QED BY <2>1, <2>2, <2>3 DEF ReserveReady, Reserve, Expire
<1>2. ASSUME NEW id \in Ids, Release(id) PROVE Solvent'
  <2>1. Within(reservations', reservations)
    BY <1>2 DEF Release, Within, Ids, Restrict
  <2> QED BY <2>1, SmallerIsSolvent
<1>3. CASE ReconcileObserved
  <2>1. Within(reservations', reservations)
    BY <1>3, ReconciledType DEF ReconcileObserved, Within, Ids
  <2> QED BY <2>1, SmallerIsSolvent
<1>4. CASE Tick
  <2>1. Within(reservations', reservations)
    BY <1>4 DEF Tick, Within, Ids
  <2> QED BY <2>1, SmallerIsSolvent
<1>5. CASE UNCHANGED reservations
  <2>1. Within(reservations', reservations)
    BY <1>5 DEF Within
  <2> QED BY <2>1, SmallerIsSolvent
<1> QED BY <1>1, <1>2, <1>3, <1>4, <1>5 DEF Next, ClusterChanges, ledger, vars

(* The empty ledger is solvent. *)
LEMMA InitSolvent == Init => Solvent
<1> SUFFICES ASSUME Init PROVE Solvent
  OBVIOUS
<1>1. DOMAIN reservations = {}
  BY DEF Init
<1>2. Countable(reservations)
  BY <1>1, FS_EmptySet DEF Countable
<1>3. ASSUME NEW n, NEW t
      PROVE  CommittedOn(reservations, n) = 0 /\ CommittedFor(reservations, t) = 0
  <2> DEFINE f == [id \in DOMAIN reservations |-> Gpus(OnNode(reservations[id].entries, n))]
             g == [id \in DOMAIN reservations |-> Gpus(OfTenant(reservations[id].entries, t))]
  <2>1. /\ CommittedOn(reservations, n) = SumFunctionOnSet(f, DOMAIN reservations)
        /\ CommittedFor(reservations, t) = SumFunctionOnSet(g, DOMAIN reservations)
    BY DEF CommittedOn, CommittedFor, SumFunction
  <2> HIDE DEF f, g
  <2>2. /\ SumFunctionOnSet(f, DOMAIN reservations) = SumFunctionOnSet(f, {})
        /\ SumFunctionOnSet(g, DOMAIN reservations) = SumFunctionOnSet(g, {})
    BY <1>1, Zenon
  <2> QED BY <2>1, <2>2, SumEmpty
<1> QED BY <1>2, <1>3, LedgerAssumption DEF Solvent, CommittedFits

\* For any pods, nodes, capacities, quotas and ttl: the open reservations together
\* never promise more GPUs of a node than it has, nor more than a tenant's quota,
\* however many are granted, expire, shrink or are released in between.
THEOREM CommittedAlwaysFits == Spec => []CommittedFits
<1>1. Init => TypeOK /\ Solvent
  BY InitType, InitSolvent
<1>2. (TypeOK /\ Solvent) /\ [Next]_vars => (TypeOK /\ Solvent)'
  BY NextType, SolventStep
<1>3. TypeOK /\ Solvent => CommittedFits
  BY DEF Solvent
<1> QED BY <1>1, <1>2, <1>3, PTL DEF Spec
=============================================================================
