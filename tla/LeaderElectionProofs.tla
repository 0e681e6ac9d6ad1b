------------------------ MODULE LeaderElectionProofs ------------------------
(***************************************************************************)
(* Proofs about LeaderElection and, further down, LeaderTiming: for every  *)
(* set of replicas, every Duration, Interval and clock skew, and without   *)
(* any bound on time or faults other than the constants', the flag is a    *)
(* promise valid for Duration and the Lease itself changes hands only as   *)
(* leader.rs intends.                                                      *)
(*                                                                         *)
(* The properties are not inductive: what a write does depends on what its *)
(* author read, so the invariant says of every write still on its way what *)
(* the Lease must look like for the API server to take it.                 *)
(***************************************************************************)
EXTENDS LeaderTiming, FiniteSetTheorems, TLAPS

Busy(r) == pc[r] \in {"get", "write"}

\* A Lease that nobody of this deployment holds is an initial one; the others
\* carry a renewTime that their holder's clock has reached.
LeaseSound ==
    /\ lease.kind # "held" => lease.holder = Nobody /\ lease.transitions = 0
    /\ lease.holder \notin Replica => lease.renew <= 0
    /\ lease.holder \in Replica =>
          /\ lease.kind = "held"
          /\ lease.renew \in Nat
          /\ lease.renew <= Local(lease.holder)

\* Clocks do not run backwards: an attempt is later than its replica's Lease.
AttemptSound(r) ==
    /\ start[r] <= Local(r)
    /\ Busy(r) /\ lease.holder = r => lease.renew <= start[r]
    /\ pc[r] # "write" => reply[r] = "none"

\* What the API server will store if it takes the write q.
Justified(q) ==
    /\ q \in Request
    /\ q.renew <= Local(q.from)
    /\ q.version <= lease.version
    /\ q.version = lease.version =>
          /\ lease.renew <= q.renew
          /\ q.transitions = IF lease.holder \in {Nobody, q.from}
                             THEN lease.transitions
                             ELSE SaturatingIncrement(lease.transitions)
          /\ lease.holder \in Replica \ {q.from} => lease.renew + Duration < q.renew

RequestSound(r) ==
    pc[r] = "write" =>
       /\ Justified(request[r])
       /\ request[r].from = r
       /\ request[r].renew = start[r]

OrphanSound(q) ==
    /\ Justified(q)
    /\ Busy(q.from) => q.renew <= start[q.from]

\* r wrote the Lease at time t; it still holds it, or the Duration has passed.
Secured(r, t) ==
    \/ /\ lease.kind = "held"
       /\ lease.holder = r
       /\ t <= lease.renew
    \/ \E q \in Replica : Local(q) - t > Duration

FlagSound(r) ==
    /\ is_leader[r] => Secured(r, renewedAt[r])
    /\ reply[r] = "ok" => Secured(r, start[r])

IInv ==
    /\ TypeOK
    /\ LeaseSound
    /\ \A r \in Replica : AttemptSound(r)
    /\ \A r \in Replica : RequestSound(r)
    /\ \A q \in orphans : OrphanSound(q)
    /\ \A r \in Replica : FlagSound(r)
-----------------------------------------------------------------------------
USE ReplicaAssumption, TimeAssumption, BoundAssumption

(* The invariant holds at the start. *)
LEMMA InitialStates == Init => IInv
<1> SUFFICES ASSUME Init PROVE IInv
  OBVIOUS
<1>1. lease \in Lease /\ LeaseSound
  <2>1. lease \in InitialLease
    BY DEF Init
  <2>2. CASE lease = Absent
    BY <2>2 DEF Absent, Lease, LeaseSound, Holder, Time, Missing
  <2>3. CASE lease = Bare
    BY <2>3 DEF Bare, Lease, LeaseSound, Holder, Time, Missing
  <2>4. CASE lease \in Released
    BY <2>4 DEF Released, Lease, LeaseSound, Holder, Time, Missing
  <2> QED BY <2>1, <2>2, <2>3, <2>4 DEF InitialLease
<1>2. TypeOK
  BY <1>1 DEF Init, TypeOK, NoRequest
<1>3. \A r \in Replica : AttemptSound(r) /\ RequestSound(r) /\ FlagSound(r)
  BY DEF Init, AttemptSound, RequestSound, FlagSound, Busy, Local
<1>4. \A q \in orphans : OrphanSound(q)
  BY DEF Init
<1> QED
  BY <1>1, <1>2, <1>3, <1>4 DEF IInv

\* While the Lease stays as it is, time only strengthens what is known of it.
LEMMA LeaseKept ==
  ASSUME TypeOK, LeaseSound, lease' = lease, clock' \in Nat, clock <= clock'
  PROVE  /\ LeaseSound'
         /\ \A q : Justified(q) => Justified(q)'
         /\ \A r \in Replica, t \in Nat : Secured(r, t) => Secured(r, t)'
<1>1. \A r \in Replica : Local(r) \in Nat /\ Local(r)' \in Nat /\ Local(r) <= Local(r)'
  BY DEF Local, TypeOK
<1>2. LeaseSound'
  <2>1. CASE lease.holder \in Replica
    BY <1>1, <2>1 DEF LeaseSound, Local, TypeOK, Lease
  <2>2. CASE lease.holder \notin Replica
    BY <2>2 DEF LeaseSound
  <2> QED BY <2>1, <2>2
<1>3. ASSUME NEW q, Justified(q) PROVE Justified(q)'
  <2>1. q.from \in Replica /\ q.renew \in Nat
    BY <1>3 DEF Justified, Request
  <2>2. q.renew <= Local(q.from)'
    BY <1>1, <1>3, <2>1 DEF Justified
  <2> QED BY <1>3, <2>2 DEF Justified
<1>4. ASSUME NEW r \in Replica, NEW t \in Nat, Secured(r, t) PROVE Secured(r, t)'
  BY <1>1, <1>4 DEF Secured
<1> QED BY <1>2, <1>3, <1>4

\* A justified write that the API server takes leaves a sound Lease, outdates
\* every other write that was on its way, and respects what is secured.
LEMMA WriteLands ==
  ASSUME TypeOK, LeaseSound, clock' = clock,
         NEW q, Justified(q), q.version = lease.version, lease' = Applied(q)
  PROVE  /\ lease' \in Lease
         /\ LeaseSound'
         /\ lease.renew <= lease'.renew
         /\ \A p : Justified(p) => Justified(p)'
         /\ \A r \in Replica, t \in Nat : Secured(r, t) => Secured(r, t)'
<1>1. /\ q.from \in Replica /\ q.renew \in Nat /\ q.transitions \in Nat
      /\ q.version \in Nat /\ q.renew <= Local(q.from)
  BY DEF Justified, Request
<1>2. /\ lease'.kind = "held" /\ lease'.holder = q.from
      /\ lease'.renew = q.renew /\ lease'.version = lease.version + 1
      /\ lease' \in Lease
  BY <1>1 DEF Applied, Lease, Holder, Time
<1>3. LeaseSound'
  BY <1>1, <1>2 DEF LeaseSound, Local
<1>4. ASSUME NEW p, Justified(p) PROVE Justified(p)'
  BY <1>1, <1>2, <1>4 DEF Justified, Request, Local, TypeOK, Lease
<1>5. ASSUME NEW r \in Replica, NEW t \in Nat, Secured(r, t) PROVE Secured(r, t)'
  <2>1. CASE \E p \in Replica : Local(p) - t > Duration
    BY <2>1 DEF Secured, Local
  <2>2. CASE lease.holder = r /\ t <= lease.renew /\ q.from = r
    BY <1>1, <1>2, <2>2 DEF Secured, Justified, LeaseSound, Lease
  <2>3. CASE lease.holder = r /\ t <= lease.renew /\ q.from # r
    <3>1. lease.renew \in Nat /\ lease.renew + Duration < q.renew
      BY <2>3 DEF Justified, LeaseSound
    <3>2. Local(q.from) \in Nat
      BY <1>1 DEF Local, TypeOK
    <3>3. Local(q.from) - t > Duration
      BY <1>1, <2>3, <3>1, <3>2
    <3> QED BY <1>1, <3>3 DEF Secured, Local
  <2> QED BY <1>5, <2>1, <2>2, <2>3 DEF Secured
<1> QED BY <1>2, <1>3, <1>4, <1>5 DEF Justified

-----------------------------------------------------------------------------
\* However an attempt ends - an answer, an error or a crash - its locals go out
\* of scope, a write it leaves behind stays justified, and the flag goes up only
\* after the API server took the write.
LEMMA AttemptEnds ==
  ASSUME IInv, NEW r \in Replica, NEW held \in BOOLEAN, NEW next,
         lease' = lease, clock' = clock, TypeOK',
         DropLocals(r),
         next \in {"sleep", "down"}, pc' = [pc EXCEPT ![r] = next],
         \/ orphans' = orphans
         \/ pc[r] = "write" /\ orphans' = orphans \cup {request[r]},
         held => reply[r] = "ok",
         is_leader' = [is_leader EXCEPT ![r] = held],
         renewedAt' = [renewedAt EXCEPT ![r] = IF held THEN start[r] ELSE 0]
  PROVE  IInv'
<1> USE DEF IInv
<1>1. /\ LeaseSound'
      /\ \A q : Justified(q) => Justified(q)'
      /\ \A s \in Replica, t \in Nat : Secured(s, t) => Secured(s, t)'
  BY LeaseKept DEF TypeOK
<1>2. ASSUME NEW s \in Replica PROVE AttemptSound(s)'
  BY DEF AttemptSound, Busy, DropLocals, Local, TypeOK
<1>3. ASSUME NEW s \in Replica PROVE RequestSound(s)'
  BY <1>1 DEF RequestSound, DropLocals, TypeOK
<1>4. ASSUME NEW q \in orphans' PROVE OrphanSound(q)'
  <2>1. CASE q \in orphans
    BY <1>1, <2>1 DEF OrphanSound, Justified, Request, Busy, DropLocals, TypeOK
  <2>2. CASE pc[r] = "write" /\ q = request[r]
    BY <1>1, <2>2 DEF OrphanSound, RequestSound, Busy, TypeOK
  <2> QED BY <1>4, <2>1, <2>2
<1>5. ASSUME NEW s \in Replica PROVE FlagSound(s)'
  <2>1. CASE s = r
    BY <1>1, <2>1 DEF FlagSound, DropLocals, TypeOK
  <2>2. CASE s # r
    BY <1>1, <2>2 DEF FlagSound, DropLocals, TypeOK
  <2> QED BY <2>1, <2>2
<1> QED BY <1>1, <1>2, <1>3, <1>4, <1>5

(* Every step keeps the invariant. *)
THEOREM Inductive == IInv /\ [Next]_vars => IInv'
<1> SUFFICES ASSUME IInv, [Next]_vars PROVE IInv'
  OBVIOUS
<1> USE DEF IInv
<1>1. ASSUME NEW r \in Replica, BeginAttempt(r) PROVE IInv'
  <2>1. /\ lease' = lease /\ clock' = clock /\ orphans' = orphans
        /\ request' = request /\ reply' = reply /\ is_leader' = is_leader
        /\ renewedAt' = renewedAt
        /\ start' = [start EXCEPT ![r] = Local(r)]
        /\ pc' = [pc EXCEPT ![r] = "get"] /\ pc[r] = "sleep"
    BY <1>1 DEF BeginAttempt
  <2>2. /\ LeaseSound'
        /\ \A q : Justified(q) => Justified(q)'
        /\ \A s \in Replica, t \in Nat : Secured(s, t) => Secured(s, t)'
    BY <2>1, LeaseKept DEF TypeOK
  <2>3. TypeOK'
    BY <1>1 DEF BeginAttempt, TypeOK, Local
  <2>4. ASSUME NEW s \in Replica PROVE AttemptSound(s)'
    BY <2>1 DEF AttemptSound, Busy, Local, TypeOK, LeaseSound
  <2>5. ASSUME NEW s \in Replica PROVE RequestSound(s)'
    BY <2>1, <2>2 DEF RequestSound, TypeOK
  <2>6. ASSUME NEW q \in orphans' PROVE OrphanSound(q)'
    BY <2>1, <2>2 DEF OrphanSound, Busy, Justified, TypeOK
  <2>7. ASSUME NEW s \in Replica PROVE FlagSound(s)'
    BY <2>1, <2>2 DEF FlagSound, AttemptSound, TypeOK
  <2> QED BY <2>2, <2>3, <2>4, <2>5, <2>6, <2>7
<1>2. ASSUME NEW r \in Replica, GetThenWrite(r) PROVE IInv'
  <2>1. /\ lease' = lease /\ clock' = clock /\ orphans' = orphans
        /\ start' = start /\ reply' = reply /\ is_leader' = is_leader
        /\ renewedAt' = renewedAt
        /\ request' = [request EXCEPT ![r] = LeaseObject(lease, r, start[r])]
        /\ pc' = [pc EXCEPT ![r] = "write"] /\ pc[r] = "get"
        /\ MayWrite(lease, r, start[r])
    BY <1>2 DEF GetThenWrite
  <2>2. /\ LeaseSound'
        /\ \A q : Justified(q) => Justified(q)'
        /\ \A s \in Replica, t \in Nat : Secured(s, t) => Secured(s, t)'
    BY <2>1, LeaseKept DEF TypeOK
  <2> DEFINE w == LeaseObject(lease, r, start[r])
  <2>3. w \in Request /\ w.from = r /\ w.renew = start[r]
        /\ w.version = lease.version /\ w.transitions = NextTransitions(lease, r)
    BY DEF LeaseObject, NextTransitions, SaturatingIncrement, Request, TypeOK, Lease
  <2>4. /\ lease.renew <= start[r]
        /\ lease.holder \in Replica \ {r} => lease.renew + Duration < start[r]
    BY <2>1 DEF MayWrite, LeaseExpired, LeaseSound, AttemptSound, Busy, TypeOK,
                Lease, Time, Missing, Local
  <2>5. NextTransitions(lease, r) = IF lease.holder \in {Nobody, r}
                                    THEN lease.transitions
                                    ELSE SaturatingIncrement(lease.transitions)
    BY DEF NextTransitions, LeaseSound
  <2>6. Justified(w)
    BY <2>3, <2>4, <2>5 DEF Justified, AttemptSound, TypeOK, Lease
  <2>7. TypeOK'
    BY <1>2, <2>3 DEF GetThenWrite, TypeOK
  <2>8. ASSUME NEW s \in Replica PROVE AttemptSound(s)'
    BY <2>1 DEF AttemptSound, Busy, Local, TypeOK
  <2>9. ASSUME NEW s \in Replica PROVE RequestSound(s)'
    BY <2>1, <2>2, <2>3, <2>6 DEF RequestSound, TypeOK
  <2>10. ASSUME NEW q \in orphans' PROVE OrphanSound(q)'
    BY <2>1, <2>2 DEF OrphanSound, Busy, Justified, Request, TypeOK
  <2>11. ASSUME NEW s \in Replica PROVE FlagSound(s)'
    BY <2>1, <2>2 DEF FlagSound, TypeOK
  <2> QED BY <2>2, <2>7, <2>8, <2>9, <2>10, <2>11
<1>3. ASSUME NEW r \in Replica, GetThenWait(r) PROVE IInv'
  <2>1. TypeOK'
    BY <1>3 DEF GetThenWait, Finish, DropLocals, TypeOK
  <2> QED
    BY <1>3, <2>1, AttemptEnds DEF GetThenWait, Finish
<1>4. ASSUME NEW r \in Replica, GetFails(r) PROVE IInv'
  <2>1. TypeOK'
    BY <1>4 DEF GetFails, Finish, DropLocals, TypeOK
  <2> QED
    BY <1>4, <2>1, AttemptEnds DEF GetFails, Finish
<1>5. ASSUME NEW r \in Replica, WriteReturns(r) PROVE IInv'
  <2>1. TypeOK'
    BY <1>5 DEF WriteReturns, Finish, DropLocals, TypeOK
  <2> QED
    BY <1>5, <2>1, AttemptEnds DEF WriteReturns, Finish
<1>6. ASSUME NEW r \in Replica, WriteFails(r) PROVE IInv'
  <2>1. request[r] \in Request
    BY <1>6 DEF WriteFails, RequestSound, Justified
  <2>2. TypeOK'
    BY <1>6, <2>1 DEF WriteFails, Abandon, Finish, DropLocals, TypeOK
  <2> QED
    BY <1>6, <2>2, AttemptEnds DEF WriteFails, Abandon, Finish
<1>7. ASSUME NEW r \in Replica, Crash(r) PROVE IInv'
  <2>1. pc[r] = "write" => request[r] \in Request
    BY DEF RequestSound, Justified
  <2>2. TypeOK'
    BY <1>7, <2>1 DEF Crash, Abandon, DropLocals, TypeOK
  <2> QED
    BY <1>7, <2>2, AttemptEnds DEF Crash, Abandon
<1>8. ASSUME NEW r \in Replica, ServerAnswers(r) PROVE IInv'
  <2>1. /\ clock' = clock /\ pc' = pc /\ start' = start /\ orphans' = orphans
        /\ request' = request /\ is_leader' = is_leader
        /\ renewedAt' = renewedAt /\ pc[r] = "write"
    BY <1>8 DEF ServerAnswers
  <2>2. Justified(request[r]) /\ request[r].from = r /\ request[r].renew = start[r]
    BY <2>1 DEF RequestSound
  <2>3. CASE request[r].version = lease.version
    <3>1. lease' = Applied(request[r]) /\ reply' = [reply EXCEPT ![r] = "ok"]
      BY <1>8, <2>3 DEF ServerAnswers
    <3>2. /\ lease' \in Lease
          /\ LeaseSound'
          /\ \A q : Justified(q) => Justified(q)'
          /\ \A s \in Replica, t \in Nat : Secured(s, t) => Secured(s, t)'
      BY <2>1, <2>2, <2>3, <3>1, WriteLands
    <3>3. TypeOK'
      BY <1>8, <3>1, <3>2 DEF ServerAnswers, TypeOK
    <3>4. lease'.holder = r /\ lease'.renew = start[r] /\ lease'.kind = "held"
      BY <2>2, <3>1 DEF Applied
    <3>5. ASSUME NEW s \in Replica PROVE AttemptSound(s)'
      BY <2>1, <3>1, <3>4 DEF AttemptSound, Busy, Local, TypeOK
    <3>6. ASSUME NEW s \in Replica PROVE RequestSound(s)'
      BY <2>1, <3>2 DEF RequestSound
    <3>7. ASSUME NEW q \in orphans' PROVE OrphanSound(q)'
      BY <2>1, <3>2 DEF OrphanSound, Busy
    <3>8. ASSUME NEW s \in Replica PROVE FlagSound(s)'
      BY <2>1, <3>1, <3>2, <3>4 DEF FlagSound, Secured, TypeOK
    <3> QED BY <3>2, <3>3, <3>5, <3>6, <3>7, <3>8
  <2>4. CASE request[r].version # lease.version
    <3>1. lease' = lease /\ reply' = [reply EXCEPT ![r] = "conflict"]
      BY <1>8, <2>4 DEF ServerAnswers
    <3>2. /\ LeaseSound'
          /\ \A q : Justified(q) => Justified(q)'
          /\ \A s \in Replica, t \in Nat : Secured(s, t) => Secured(s, t)'
      BY <2>1, <3>1, LeaseKept DEF TypeOK
    <3>3. TypeOK'
      BY <1>8, <3>1 DEF ServerAnswers, TypeOK
    <3>4. ASSUME NEW s \in Replica PROVE AttemptSound(s)'
      BY <2>1, <3>1 DEF AttemptSound, Busy, Local, TypeOK
    <3>5. ASSUME NEW s \in Replica PROVE RequestSound(s)'
      BY <2>1, <3>2 DEF RequestSound
    <3>6. ASSUME NEW q \in orphans' PROVE OrphanSound(q)'
      BY <2>1, <3>2 DEF OrphanSound, Busy
    <3>7. ASSUME NEW s \in Replica PROVE FlagSound(s)'
      BY <2>1, <3>1, <3>2 DEF FlagSound, TypeOK
    <3> QED BY <3>2, <3>3, <3>4, <3>5, <3>6, <3>7
  <2> QED BY <2>3, <2>4
<1>9. ASSUME NEW p \in orphans, OrphanArrives(p) PROVE IInv'
  <2>1. /\ clock' = clock /\ pc' = pc /\ start' = start
        /\ orphans' = orphans \ {p} /\ request' = request
        /\ reply' = reply /\ is_leader' = is_leader /\ renewedAt' = renewedAt
        /\ lease' = IF p.version = lease.version THEN Applied(p) ELSE lease
    BY <1>9 DEF OrphanArrives
  <2>2. OrphanSound(p) /\ Justified(p)
    BY DEF OrphanSound
  <2>3. /\ lease' \in Lease
        /\ LeaseSound'
        /\ \A q : Justified(q) => Justified(q)'
        /\ \A s \in Replica, t \in Nat : Secured(s, t) => Secured(s, t)'
    BY <2>1, <2>2, WriteLands, LeaseKept DEF TypeOK
  <2>4. TypeOK'
    BY <1>9, <2>3 DEF OrphanArrives, TypeOK
  <2>5. ASSUME NEW s \in Replica PROVE AttemptSound(s)'
    BY <2>1, <2>2 DEF OrphanSound, AttemptSound, Applied, Busy, Local
  <2>6. ASSUME NEW s \in Replica PROVE RequestSound(s)'
    BY <2>1, <2>3 DEF RequestSound
  <2>7. ASSUME NEW q \in orphans' PROVE OrphanSound(q)'
    BY <2>1, <2>3 DEF OrphanSound, Busy
  <2>8. ASSUME NEW s \in Replica PROVE FlagSound(s)'
    BY <2>1, <2>3 DEF FlagSound, TypeOK
  <2> QED BY <2>3, <2>4, <2>5, <2>6, <2>7, <2>8
<1>10. ASSUME \/ Tick
              \/ UNCHANGED vars
              \/ \E r \in Replica : Restart(r)
       PROVE IInv'
  <2>1. /\ lease' = lease /\ start' = start /\ clock' \in Nat /\ clock <= clock'
        /\ orphans' = orphans /\ request' = request /\ reply' = reply
        /\ is_leader' = is_leader /\ renewedAt' = renewedAt
    BY <1>10 DEF Tick, Restart, vars, TypeOK
  <2>2. /\ LeaseSound'
        /\ \A q : Justified(q) => Justified(q)'
        /\ \A s \in Replica, t \in Nat : Secured(s, t) => Secured(s, t)'
    BY <2>1, LeaseKept
  <2>3. TypeOK'
    BY <1>10 DEF Tick, Restart, vars, TypeOK
  <2>4. \A s \in Replica : Busy(s)' => Busy(s) /\ pc'[s] = pc[s]
    BY <1>10 DEF Tick, Restart, vars, TypeOK, Busy
  <2>5. \A s \in Replica : pc'[s] # "write" => pc[s] # "write"
    BY <1>10 DEF Tick, Restart, vars, TypeOK
  <2>6. ASSUME NEW s \in Replica PROVE AttemptSound(s)'
    <3>1. start'[s] <= Local(s)'
      BY <2>1 DEF AttemptSound, Local, TypeOK
    <3> QED BY <2>1, <2>4, <2>5, <3>1 DEF AttemptSound
  <2>7. ASSUME NEW s \in Replica PROVE RequestSound(s)'
    BY <2>1, <2>2, <2>4 DEF RequestSound, Busy
  <2>8. ASSUME NEW q \in orphans' PROVE OrphanSound(q)'
    BY <2>1, <2>2, <2>4 DEF OrphanSound, Justified, Request
  <2>9. ASSUME NEW s \in Replica PROVE FlagSound(s)'
    BY <2>1, <2>2 DEF FlagSound, TypeOK
  <2> QED BY <2>2, <2>3, <2>6, <2>7, <2>8, <2>9
<1> QED
  BY <1>1, <1>2, <1>3, <1>4, <1>5, <1>6, <1>7, <1>8, <1>9, <1>10
     DEF Next, Attempt, Fault

(* The invariant holds in every reachable state. *)
THEOREM Invariance == Spec => []IInv
<1> QED BY InitialStates, Inductive, PTL DEF Spec

-----------------------------------------------------------------------------
\* Every reachable state is well typed.
THEOREM TypeCorrect == Spec => []TypeOK
<1>1. IInv => TypeOK
  BY DEF IInv
<1> QED BY <1>1, Invariance, PTL

\* A replica whose flag went up at most Duration ago, by every clock, holds the
\* Lease: the AtomicBool may be trusted that long, crashes and errors included.
THEOREM FreshLeaders == Spec => []FreshLeaderHoldsLease
<1>1. IInv => FreshLeaderHoldsLease
  <2> SUFFICES ASSUME IInv, NEW r \in Replica, is_leader[r], Unexpired(r)
               PROVE  lease.kind = "held" /\ lease.holder = r
    BY DEF FreshLeaderHoldsLease
  <2>1. Secured(r, renewedAt[r])
    BY DEF IInv, FlagSound
  <2>2. \A q \in Replica : Local(q) - renewedAt[r] \in Int
    BY DEF IInv, TypeOK, Local
  <2>3. ~ \E q \in Replica : Local(q) - renewedAt[r] > Duration
    BY <2>2 DEF Unexpired
  <2> QED BY <2>1, <2>3 DEF Secured
<1> QED BY <1>1, Invariance, PTL

\* No two replicas lead at once while neither has outlived its renewal.
THEOREM NoSplitBrain ==
  Spec => [](\A r, s \in Replica :
                is_leader[r] /\ is_leader[s] /\ Unexpired(r) /\ Unexpired(s)
                   => r = s)
<1>1. FreshLeaderHoldsLease =>
        \A r, s \in Replica :
           is_leader[r] /\ is_leader[s] /\ Unexpired(r) /\ Unexpired(s) => r = s
  BY DEF FreshLeaderHoldsLease
<1> QED BY <1>1, FreshLeaders, PTL

\* What any step may do to the Lease.
LEMMA LeaseSteps ==
  ASSUME IInv, [Next]_vars
  PROVE  \/ lease' = lease
         \/ /\ clock' = clock
            /\ \E q \in Request : /\ Justified(q)
                                  /\ q.version = lease.version
                                  /\ lease' = Applied(q)
<1>1. ASSUME NEW r \in Replica, ServerAnswers(r), lease' # lease
      PROVE  /\ clock' = clock
             /\ \E q \in Request : /\ Justified(q)
                                   /\ q.version = lease.version
                                   /\ lease' = Applied(q)
  BY <1>1 DEF IInv, ServerAnswers, RequestSound, Justified
<1>2. ASSUME NEW p \in orphans, OrphanArrives(p), lease' # lease
      PROVE  /\ clock' = clock
             /\ \E q \in Request : /\ Justified(q)
                                   /\ q.version = lease.version
                                   /\ lease' = Applied(q)
  BY <1>2 DEF IInv, OrphanArrives, OrphanSound, Justified
<1> QED
  BY <1>1, <1>2 DEF Next, Attempt, Fault, vars, Tick, Crash, Restart, GetFails,
     WriteFails, WriteReturns, GetThenWait, GetThenWrite, BeginAttempt

\* renewTime is monotone: no late write brings an older renewal back.
THEOREM RenewMonotone == Spec => RenewTimeNeverGoesBack
<1>1. IInv /\ [Next]_vars => [lease'.renew >= lease.renew]_vars
  <2> SUFFICES ASSUME IInv, [Next]_vars PROVE lease'.renew >= lease.renew
    OBVIOUS
  <2>1. lease.renew \in Int
    BY DEF IInv, TypeOK, Lease, Time, Missing
  <2> QED BY <2>1, LeaseSteps DEF Justified, Applied, Request
<1> QED BY <1>1, Invariance, PTL DEF Spec, RenewTimeNeverGoesBack

\* A holder loses the Lease only to a replica whose clock says it expired.
THEOREM TakeoverSafe == Spec => TakeoverOnlyAfterExpiry
<1> DEFINE Taken == lease'.holder # lease.holder /\ lease.holder \in Replica
           Late  == /\ lease'.holder \in Replica
                    /\ lease.renew + Duration < Local(lease'.holder)
<1>1. IInv /\ [Next]_vars => [Taken => Late]_vars
  <2> SUFFICES ASSUME IInv, [Next]_vars, Taken PROVE Late
    OBVIOUS
  <2>1. PICK q \in Request : /\ Justified(q)
                             /\ q.version = lease.version
                             /\ lease' = Applied(q)
    BY LeaseSteps
  <2>2. lease'.holder = q.from /\ q.from \in Replica
    BY <2>1 DEF Applied, Request
  <2>3. lease.renew + Duration < q.renew /\ q.renew <= Local(q.from)
    BY <2>1, <2>2 DEF Justified
  <2>4. lease.renew \in Int /\ q.renew \in Int /\ Local(q.from) \in Int
    BY <2>2 DEF IInv, TypeOK, Lease, Time, Missing, Request, Local
  <2> QED BY <2>2, <2>3, <2>4
<1> QED BY <1>1, Invariance, PTL DEF Spec, TakeoverOnlyAfterExpiry

\* leaseTransitions moves with the holder and by one.
THEOREM TransitionsCounted == Spec => TransitionsCountTakeovers
<1> DEFINE Counted ==
      lease'.transitions =
         IF lease.holder # Nobody /\ lease'.holder # lease.holder
         THEN SaturatingIncrement(lease.transitions)
         ELSE lease.transitions
<1>1. IInv /\ [Next]_vars => [Counted]_vars
  <2> SUFFICES ASSUME IInv, [Next]_vars PROVE Counted
    OBVIOUS
  <2> QED BY LeaseSteps DEF Justified, Applied, Request
<1> QED BY <1>1, Invariance, PTL DEF Spec, TransitionsCountTakeovers

-----------------------------------------------------------------------------
(***************************************************************************)
(* A leader that is scheduled on time keeps its Lease: for every set of    *)
(* replicas, every Duration and Interval, any latency, clock skew and      *)
(* number of failed calls that Duration leaves room for.                   *)
(*                                                                         *)
(* The argument bounds the age of the holder's last renewal.  An attempt   *)
(* starts at most one Period after the one before, so an attempt that      *)
(* fails costs one Period, and each failure is counted in errors.  A       *)
(* conflict fails without being counted; but the holder's write conflicts  *)
(* only with a write of its own that it gave up, whose failure was.  So    *)
(* the invariant keeps one Period in hand while such a write may land.     *)
(***************************************************************************)

\* What k failed attempts cost.
Slack(k) == k * Period

\* When, in true time, the attempt of r started, or the next one starts.
Due(r) == IF pc[r] = "sleep" THEN wake[r] ELSE start[r] - Skew[r]

LoopOnTime(r) ==
    /\ pc[r] # "down"
    /\ pc[r] = "sleep" => clock <= wake[r]
    /\ Busy(r) => clock <= Due(r) + Latency
    /\ reply[r] # "none" => request[r].version # lease.version

\* A write given up that can still land: nothing but failures since.
OrphanOnTime(q) ==
    /\ pc[q.from] = "write" => q.version <= request[q.from].version
    /\ q.version = lease.version =>
          /\ MayWrite(lease, q.from, q.renew)
          /\ Due(q.from) <= q.renew - Skew[q.from] + Slack(errors)

RequestOnTime(r) ==
    pc[r] = "write" /\ request[r].version = lease.version => MayWrite(lease, r, start[r])

\* The holder's next attempt comes in time; one that is about to learn of a
\* conflict came early enough for another.
HolderOnTime ==
    LET h == lease.holder
        renewed == lease.renew - Skew[h]
    IN  /\ Due(h) <= renewed + Slack(errors + 1)
        /\ pc[h] = "write" /\ request[h].version # lease.version =>
              Due(h) <= renewed + Slack(errors)

OnTimeInv ==
    /\ errors <= MaxErrors
    /\ \A r \in Replica : LoopOnTime(r) /\ RequestOnTime(r)
    /\ \A q \in orphans : OrphanOnTime(q)
    /\ lease.holder \in Replica => HolderOnTime

TInv == IInv /\ (crashes = 0 => OnTimeInv)

-----------------------------------------------------------------------------
USE ReplicaAssumption, TimeAssumption, BoundAssumption, RenewalMarginAssumption

(* An attempt and the sleep after it fit in a period. *)
LEMMA PeriodType == Period \in Nat /\ Period >= Latency + Interval /\ Latency \in Nat
BY DEF Period

(* Each failed renewal costs one period of slack. *)
LEMMA SlackSteps ==
  ASSUME NEW k \in Nat
  PROVE  /\ Slack(k) \in Nat /\ Slack(k + 1) \in Nat
         /\ Slack(k + 1) = Slack(k) + Period
         /\ Slack(k + 2) = Slack(k + 1) + Period
<1>1. Period \in Nat
  BY PeriodType
<1>2. /\ (k + 1) * Period = k * Period + Period
      /\ (k + 2) * Period = (k + 1) * Period + Period
  BY <1>1
<1>3. k * Period \in Nat
  BY <1>1
<1> QED BY <1>1, <1>2, <1>3 DEF Slack

(* The failures that may still come leave a bounded slack. *)
LEMMA SlackBound ==
  ASSUME NEW k \in Nat, k <= MaxErrors
  PROVE  Slack(k + 1) <= (MaxErrors + 1) * Period
<1>1. PICK d \in Nat : MaxErrors + 1 = (k + 1) + d
  <2>1. MaxErrors - k \in Nat /\ MaxErrors + 1 = (k + 1) + (MaxErrors - k)
    OBVIOUS
  <2> QED BY <2>1
<1>2. Period \in Nat
  BY PeriodType
<1>3. d * Period \in Nat
  BY <1>2
<1>4. (MaxErrors + 1) * Period = (k + 1) * Period + d * Period
  BY <1>1, <1>2
<1>5. (k + 1) * Period \in Nat
  BY <1>2
<1> QED BY <1>3, <1>4, <1>5 DEF Slack

\* An expired Lease stays expired.
LEMMA MayWriteLater ==
  ASSUME NEW l \in Lease, NEW r \in Replica, NEW t \in Nat, NEW u \in Nat, t <= u,
         MayWrite(l, r, t)
  PROVE  MayWrite(l, r, u)
BY DEF MayWrite, LeaseExpired, Lease, Time, Missing

\* While its holder is on time nobody else may write the Lease.
LEMMA HolderIsSafe ==
  ASSUME TInv, crashes = 0, lease.holder \in Replica, NEW q, Justified(q),
         q.version = lease.version
  PROVE  q.from = lease.holder
<1> DEFINE h == lease.holder
           renewed == lease.renew - Skew[h]
<1>1. /\ OnTimeInv /\ TypeOK /\ LeaseSound
      /\ q.from \in Replica /\ q.renew \in Nat /\ q.renew <= Local(q.from)
      /\ lease.renew \in Nat /\ clock \in Nat /\ errors \in Nat
      /\ Skew[h] \in Nat /\ Skew[q.from] \in Nat
  BY DEF TInv, IInv, Justified, Request, LeaseSound, TypeOK
<1>2. clock <= Due(h) + Latency
  BY <1>1 DEF OnTimeInv, LoopOnTime, Due, Busy, TypeOK
<1>3. Due(h) <= renewed + Slack(errors + 1)
  BY <1>1 DEF OnTimeInv, HolderOnTime
<1>4. Slack(errors + 1) <= (MaxErrors + 1) * Period /\ Slack(errors + 1) \in Nat
  BY <1>1, SlackBound, SlackSteps DEF OnTimeInv
<1>5. Due(h) \in Int
  BY <1>1 DEF Due, TypeOK
<1>6. (MaxErrors + 1) * Period \in Nat
  BY PeriodType
<1>7. Local(q.from) <= lease.renew + Duration
  <2>1. (MaxErrors + 1) * Period + Latency + Skew[q.from] - Skew[h] <= Duration
    BY <1>1
  <2> QED BY <1>1, <1>2, <1>3, <1>4, <1>5, <1>6, <2>1 DEF Local
<1>8. ~ (lease.renew + Duration < q.renew)
  BY <1>1, <1>7 DEF Local
<1> QED BY <1>1, <1>8 DEF Justified

-----------------------------------------------------------------------------
\* What the invariant says of a state, in one place.
LEMMA Typed ==
  ASSUME TInv
  PROVE  /\ TypeOK /\ LeaseSound
         /\ \A r \in Replica : AttemptSound(r) /\ RequestSound(r)
         /\ \A q \in orphans : OrphanSound(q) /\ q \in Request
         /\ \A r \in Replica : Due(r) \in Int /\ Local(r) \in Nat /\ Skew[r] \in Nat
         /\ clock \in Nat /\ errors \in Nat /\ lease.version \in Nat
         /\ lease.holder \in Replica => lease.renew \in Nat /\ lease.kind = "held"
BY DEF TInv, IInv, Due, Local, TypeOK, LeaseSound, OrphanSound, Justified, Lease

\* An attempt that starts does so when it is due.
LEMMA BeginsOnTime ==
  ASSUME TInv, crashes = 0, NEW r \in Replica, BeginAttempt(r)
  PROVE  OnTimeInv'
<1>1. /\ lease' = lease /\ clock' = clock /\ errors' = errors /\ orphans' = orphans
      /\ request' = request /\ reply' = reply
      /\ start' = [start EXCEPT ![r] = Local(r)]
      /\ wake' = [wake EXCEPT ![r] = 0]
      /\ pc' = [pc EXCEPT ![r] = "get"] /\ pc[r] = "sleep" /\ clock >= wake[r]
  BY DEF BeginAttempt
<1>2. /\ OnTimeInv /\ TypeOK
  BY DEF TInv, IInv
<1>3. \A s \in Replica : Due(s)' = Due(s)
  <2>1. Due(r)' = clock /\ Due(r) = wake[r]
    BY <1>1, <1>2, Typed DEF Due, Local, TypeOK
  <2>2. clock = wake[r]
    BY <1>1, <1>2 DEF OnTimeInv, LoopOnTime, TypeOK
  <2>3. \A s \in Replica \ {r} : Due(s)' = Due(s)
    BY <1>1, <1>2 DEF Due, TypeOK
  <2> QED BY <2>1, <2>2, <2>3
<1>4. ASSUME NEW s \in Replica PROVE LoopOnTime(s)' /\ RequestOnTime(s)'
  BY <1>1, <1>2, <1>3, Typed, PeriodType DEF OnTimeInv, LoopOnTime, RequestOnTime, Busy, Due, TypeOK
<1>5. ASSUME NEW q \in orphans' PROVE OrphanOnTime(q)'
  BY <1>1, <1>2, <1>3, Typed DEF OnTimeInv, OrphanOnTime, Request, TypeOK
<1>6. lease'.holder \in Replica => HolderOnTime'
  BY <1>1, <1>2, <1>3 DEF OnTimeInv, HolderOnTime, TypeOK
<1> QED BY <1>1, <1>2, <1>4, <1>5, <1>6 DEF OnTimeInv

(* A scheduled write keeps the lead within its slack. *)
LEMMA WritesOnTime ==
  ASSUME TInv, crashes = 0, NEW r \in Replica, GetThenWrite(r)
  PROVE  OnTimeInv'
<1>1. /\ lease' = lease /\ clock' = clock /\ errors' = errors /\ orphans' = orphans
      /\ start' = start /\ reply' = reply /\ wake' = wake
      /\ request' = [request EXCEPT ![r] = LeaseObject(lease, r, start[r])]
      /\ pc' = [pc EXCEPT ![r] = "write"] /\ pc[r] = "get"
      /\ MayWrite(lease, r, start[r])
  BY DEF GetThenWrite
<1>2. /\ OnTimeInv /\ TypeOK
  BY DEF TInv, IInv
<1>3. \A s \in Replica : Due(s)' = Due(s)
  BY <1>1, <1>2 DEF Due, TypeOK
<1>4. request'[r].version = lease.version /\ reply[r] = "none"
  BY <1>1, <1>2, Typed DEF LeaseObject, TypeOK, AttemptSound
<1>5. ASSUME NEW s \in Replica PROVE LoopOnTime(s)' /\ RequestOnTime(s)'
  BY <1>1, <1>2, <1>3, <1>4 DEF OnTimeInv, LoopOnTime, RequestOnTime, Busy, TypeOK
<1>6. ASSUME NEW q \in orphans' PROVE OrphanOnTime(q)'
  <2>1. q.version <= lease.version /\ q.from \in Replica
    BY <1>1, Typed DEF OrphanSound, Justified, Request
  <2> QED BY <1>1, <1>2, <1>3, <1>4, <2>1 DEF OnTimeInv, OrphanOnTime, TypeOK
<1>7. lease'.holder \in Replica => HolderOnTime'
  BY <1>1, <1>2, <1>3, <1>4 DEF OnTimeInv, HolderOnTime, TypeOK
<1> QED BY <1>1, <1>2, <1>5, <1>6, <1>7 DEF OnTimeInv

\* However an attempt ends - with a failure that is counted, an answer, or a
\* Lease that may not be written - the next one is due in time.
LEMMA EndsOnTime ==
  ASSUME TInv, crashes = 0, NEW r \in Replica, NEW held, Finish(r, held), Busy(r),
         lease' = lease, clock' = clock,
         \/ /\ errors < MaxErrors /\ errors' = errors + 1
            /\ \/ orphans' = orphans
               \/ pc[r] = "write" /\ orphans' = orphans \cup {request[r]}
         \/ /\ errors' = errors /\ orphans' = orphans
            /\ pc[r] = "write" /\ reply[r] # "none"
         \/ /\ errors' = errors /\ orphans' = orphans
            /\ pc[r] = "get" /\ ~ MayWrite(lease, r, start[r])
  PROVE  OnTimeInv'
<1>1. /\ pc' = [pc EXCEPT ![r] = "sleep"]
      /\ wake' = [wake EXCEPT ![r] = clock + Interval]
      /\ start' = [start EXCEPT ![r] = 0]
      /\ request' = [request EXCEPT ![r] = NoRequest]
      /\ reply' = [reply EXCEPT ![r] = "none"]
  BY DEF Finish, DropLocals
<1>2. /\ OnTimeInv /\ TypeOK
  BY DEF TInv, IInv
<1>3. /\ \A s \in Replica \ {r} : Due(s)' = Due(s)
      /\ Due(r)' = clock + Interval
  BY <1>1, <1>2 DEF Due, TypeOK
<1>4. Due(r)' <= Due(r) + Period
  <2>1. clock <= Due(r) + Latency
    BY <1>2 DEF OnTimeInv, LoopOnTime
  <2> QED BY <1>2, <1>3, <2>1, Typed, PeriodType DEF Period
<1>5. errors' <= MaxErrors /\ errors <= errors' /\ errors' \in {errors, errors + 1}
  BY <1>2, Typed DEF OnTimeInv
<1>6. /\ Slack(errors) <= Slack(errors') /\ Slack(errors + 1) <= Slack(errors' + 1)
      /\ errors' = errors + 1 => /\ Slack(errors') = Slack(errors) + Period
                                 /\ Slack(errors' + 1) = Slack(errors + 1) + Period
      /\ Slack(errors) \in Nat /\ Slack(errors') \in Nat
      /\ Slack(errors + 1) \in Nat /\ Slack(errors' + 1) \in Nat
      /\ Slack(errors + 1) = Slack(errors) + Period
  <2>1. errors \in Nat /\ Period \in Nat
    BY Typed, PeriodType
  <2>2. CASE errors' = errors
    BY <2>1, <2>2, SlackSteps
  <2>3. CASE errors' = errors + 1
    <3>1. errors' + 1 = errors + 2
      BY <2>1, <2>3
    <3>2. Slack(errors' + 1) = Slack(errors + 2)
      BY <3>1
    <3>3. Slack(errors' + 1) \in Nat
      BY <2>1, <2>3, SlackSteps
    <3> QED BY <2>1, <2>3, <3>2, <3>3, SlackSteps
  <2> QED BY <1>5, <2>2, <2>3
<1>7. ASSUME NEW s \in Replica PROVE LoopOnTime(s)' /\ RequestOnTime(s)'
  BY <1>1, <1>2, <1>3, Typed DEF OnTimeInv, LoopOnTime, RequestOnTime, Busy, TypeOK
<1>8. ASSUME NEW q \in orphans' PROVE OrphanOnTime(q)'
  <2>1. CASE q \in orphans /\ q.from # r
    <3>1. q.from \in Replica /\ q.renew \in Nat
      BY <2>1, Typed DEF Request
    <3>2. pc'[q.from] = pc[q.from] /\ request'[q.from] = request[q.from]
          /\ Due(q.from)' = Due(q.from)
      BY <1>1, <1>2, <1>3, <2>1, <3>1 DEF TypeOK
    <3> QED BY <1>2, <1>6, <2>1, <3>1, <3>2, Typed DEF OnTimeInv, OrphanOnTime
  <2>2. CASE q \in orphans /\ q.from = r
    <3>1. pc'[r] # "write" /\ q.renew \in Nat /\ q.renew <= start[r]
      BY <1>1, <1>2, <2>2, Typed DEF Request, OrphanSound, TypeOK
    <3>2. SUFFICES ASSUME q.version = lease.version
                   PROVE  /\ MayWrite(lease, r, q.renew)
                          /\ Due(r)' <= q.renew - Skew[r] + Slack(errors')
      BY <2>2, <3>1 DEF OrphanOnTime
    <3>3. MayWrite(lease, r, q.renew) /\ Due(r) <= q.renew - Skew[r] + Slack(errors)
      BY <1>2, <2>2, <3>2 DEF OnTimeInv, OrphanOnTime
    <3>4. MayWrite(lease, r, start[r])
      BY <1>2, <3>1, <3>3, MayWriteLater DEF TypeOK
    <3>5. ~ (pc[r] = "write" /\ reply[r] # "none")
      <4> SUFFICES ASSUME pc[r] = "write", reply[r] # "none" PROVE FALSE
        OBVIOUS
      <4>1. request[r].version # lease.version /\ q.version <= request[r].version
        BY <1>2, <2>2 DEF OnTimeInv, LoopOnTime, OrphanOnTime
      <4>2. request[r].version <= lease.version /\ request[r].version \in Nat
        BY Typed DEF RequestSound, Justified, Request
      <4>3. q.version \in Nat /\ lease.version \in Nat
        BY <2>2, Typed DEF Request
      <4>4. \A a, b \in Nat : a <= b /\ b <= a => a = b
        OBVIOUS
      <4> QED BY <3>2, <4>1, <4>2, <4>3, <4>4, Zenon
    <3>6. errors' = errors + 1
      BY <3>4, <3>5
    <3>7. Due(r) \in Int /\ Due(r)' \in Int /\ Skew[r] \in Nat
      BY <1>3, Typed
    <3> QED BY <1>4, <1>6, <3>1, <3>3, <3>6, <3>7, PeriodType
  <2>3. CASE q \notin orphans
    <3>1. pc[r] = "write" /\ q = request[r] /\ errors' = errors + 1
      BY <1>8, <2>3
    <3>2. q.from = r /\ q.renew = start[r]
      BY <3>1, Typed DEF RequestSound
    <3>3. pc'[r] # "write"
      BY <1>1, <1>2 DEF TypeOK
    <3>4. q.version = lease.version => MayWrite(lease, r, start[r])
      BY <1>2, <3>1 DEF OnTimeInv, RequestOnTime
    <3>5. Due(r) = start[r] - Skew[r] /\ start[r] \in Nat
      BY <1>2, <3>1 DEF Due, TypeOK
    <3>6. Due(r)' <= start[r] - Skew[r] + Slack(errors')
      <4>1. Due(r)' \in Int /\ Skew[r] \in Nat
        BY <1>3, Typed
      <4> QED BY <1>4, <1>6, <3>1, <3>5, <4>1, PeriodType
    <3> QED BY <3>2, <3>3, <3>4, <3>6 DEF OrphanOnTime
  <2> QED BY <2>1, <2>2, <2>3
<1>9. lease'.holder \in Replica => HolderOnTime'
  <2> SUFFICES ASSUME lease.holder \in Replica PROVE HolderOnTime'
    OBVIOUS
  <2>1. HolderOnTime
    BY <1>2 DEF OnTimeInv
  <2>2. lease.renew \in Nat /\ Skew[lease.holder] \in Nat /\ Due(lease.holder) \in Int
    BY Typed
  <2>3. CASE lease.holder # r
    <3>1. /\ pc'[lease.holder] = pc[lease.holder]
          /\ request'[lease.holder] = request[lease.holder]
          /\ Due(lease.holder)' = Due(lease.holder)
      BY <1>1, <1>2, <1>3, <2>3 DEF TypeOK
    <3> QED BY <1>6, <2>1, <2>2, <3>1 DEF HolderOnTime
  <2>4. CASE lease.holder = r
    <3>1. pc'[r] # "write" /\ Due(r)' \in Int
      BY <1>1, <1>2, <1>3, Typed DEF TypeOK
    <3>2. CASE errors' = errors + 1
      BY <1>4, <1>6, <2>1, <2>2, <2>4, <3>1, <3>2, PeriodType DEF HolderOnTime
    <3>3. CASE errors' = errors
      <4>1. MayWrite(lease, r, start[r])
        BY <2>4, Typed DEF MayWrite
      <4>2. pc[r] = "write" /\ reply[r] # "none"
        BY <3>3, <4>1, Typed
      <4>3. Due(r) <= lease.renew - Skew[r] + Slack(errors)
        BY <1>2, <2>1, <2>4, <4>2 DEF OnTimeInv, LoopOnTime, HolderOnTime
      <4> QED BY <1>4, <1>6, <2>2, <2>4, <3>1, <3>3, <4>3, PeriodType DEF HolderOnTime
    <3> QED BY <1>5, <3>2, <3>3
  <2> QED BY <2>3, <2>4
<1> QED BY <1>5, <1>7, <1>8, <1>9 DEF OnTimeInv

\* A write that lands outdates the others, and makes its author the holder in time.
LEMMA LandsOnTime ==
  ASSUME TInv, crashes = 0, NEW q, Justified(q), q.version = lease.version,
         lease' = Applied(q), Due(q.from) <= q.renew - Skew[q.from] + Slack(errors),
         \/ reply' = reply
         \/ pc[q.from] = "write" /\ reply' = [reply EXCEPT ![q.from] = "ok"],
         orphans' \subseteq orphans,
         UNCHANGED <<clock, pc, start, wake, request, errors>>
  PROVE  OnTimeInv'
<1>1. /\ OnTimeInv /\ TypeOK
  BY DEF TInv, IInv
<1>2. /\ lease'.version = lease.version + 1
      /\ lease'.holder = q.from /\ lease'.renew = q.renew
      /\ q.from \in Replica /\ q.renew \in Nat
  BY DEF Applied, Justified, Request
<1>3. \A s \in Replica : Due(s)' = Due(s)
  BY DEF Due
<1>4. \A s \in Replica : pc[s] = "write" =>
         request[s].version <= lease.version /\ request[s].version \in Nat
  BY Typed DEF RequestSound, Justified, Request
<1>5. ASSUME NEW s \in Replica PROVE LoopOnTime(s)' /\ RequestOnTime(s)'
  <2>1. reply'[s] # "none" => pc[s] = "write"
    BY <1>1, Typed DEF AttemptSound, TypeOK
  <2>2. pc[s] = "write" => request[s].version # lease'.version
    BY <1>2, <1>4, Typed
  <2> QED BY <1>1, <1>3, <2>1, <2>2 DEF OnTimeInv, LoopOnTime, RequestOnTime, Busy
<1>6. ASSUME NEW p \in orphans' PROVE OrphanOnTime(p)'
  <2>1. p.version \in Nat /\ p.version <= lease.version /\ p \in orphans
    BY <1>6, Typed DEF OrphanSound, Justified, Request
  <2>2. p.version # lease'.version
    BY <1>2, <2>1, Typed
  <2> QED BY <1>1, <2>1, <2>2 DEF OnTimeInv, OrphanOnTime
<1>7. HolderOnTime'
  <2>1. Slack(errors + 1) = Slack(errors) + Period /\ Slack(errors) \in Nat
    BY Typed, SlackSteps
  <2>2. Due(q.from) \in Int /\ Skew[q.from] \in Nat
    BY <1>2, Typed
  <2>3. Due(q.from)' = Due(q.from)
    BY <1>2, <1>3
  <2> QED BY <1>2, <2>1, <2>2, <2>3, PeriodType DEF HolderOnTime
<1> QED BY <1>1, <1>5, <1>6, <1>7 DEF OnTimeInv

(* So does the answer of the API server. *)
LEMMA AnswersOnTime ==
  ASSUME TInv, crashes = 0, NEW r \in Replica, ServerAnswers(r)
  PROVE  OnTimeInv'
<1>1. /\ OnTimeInv /\ TypeOK /\ RequestSound(r)
  BY DEF TInv, IInv
<1>2. pc[r] = "write" /\ UNCHANGED <<clock, pc, start, wake, request, errors, orphans>>
  BY DEF ServerAnswers
<1>3. Justified(request[r]) /\ request[r].from = r /\ request[r].renew = start[r]
  BY <1>1, <1>2 DEF RequestSound
<1>4. CASE request[r].version = lease.version
  <2>1. lease' = Applied(request[r]) /\ reply' = [reply EXCEPT ![r] = "ok"]
    BY <1>4 DEF ServerAnswers
  <2>2. Due(r) = start[r] - Skew[r]
    BY <1>2 DEF Due
  <2>3. Due(r) <= start[r] - Skew[r] + Slack(errors)
    BY <2>2, Typed, SlackSteps
  <2> QED BY <1>2, <1>3, <1>4, <2>1, <2>3, LandsOnTime
<1>5. CASE request[r].version # lease.version
  <2>1. lease' = lease /\ reply' = [reply EXCEPT ![r] = "conflict"]
    BY <1>5 DEF ServerAnswers
  <2>2. \A s \in Replica : Due(s)' = Due(s)
    BY <1>2 DEF Due
  <2>3. ASSUME NEW s \in Replica PROVE LoopOnTime(s)' /\ RequestOnTime(s)'
    BY <1>1, <1>2, <1>5, <2>1, <2>2 DEF OnTimeInv, LoopOnTime, RequestOnTime, Busy, TypeOK
  <2>4. ASSUME NEW q \in orphans' PROVE OrphanOnTime(q)'
    <3>1. q.from \in Replica /\ q \in orphans
      BY <1>2, Typed DEF Request
    <3> QED BY <1>1, <1>2, <2>1, <2>2, <3>1 DEF OnTimeInv, OrphanOnTime
  <2>5. lease'.holder \in Replica => HolderOnTime'
    BY <1>1, <1>2, <2>1, <2>2 DEF OnTimeInv, HolderOnTime
  <2> QED BY <1>1, <1>2, <2>3, <2>4, <2>5 DEF OnTimeInv
<1> QED BY <1>4, <1>5

(* So does a late write of an abandoned call. *)
LEMMA OrphanLandsOnTime ==
  ASSUME TInv, crashes = 0, NEW p \in orphans, OrphanArrives(p)
  PROVE  OnTimeInv'
<1>1. /\ OnTimeInv /\ OrphanSound(p) /\ OrphanOnTime(p) /\ Justified(p)
  BY DEF TInv, IInv, OnTimeInv, OrphanSound
<1>2. UNCHANGED <<clock, pc, start, wake, request, reply, errors>>
      /\ orphans' = orphans \ {p}
  BY DEF OrphanArrives
<1>3. CASE p.version = lease.version
  <2>1. lease' = Applied(p)
    BY <1>3 DEF OrphanArrives
  <2> QED BY <1>1, <1>2, <1>3, <2>1, LandsOnTime DEF OrphanOnTime
<1>4. CASE p.version # lease.version
  <2>1. lease' = lease
    BY <1>4 DEF OrphanArrives
  <2>2. \A s \in Replica : Due(s)' = Due(s)
    BY <1>2 DEF Due
  <2>3. ASSUME NEW s \in Replica PROVE LoopOnTime(s)' /\ RequestOnTime(s)'
    BY <1>1, <1>2, <2>1, <2>2 DEF OnTimeInv, LoopOnTime, RequestOnTime, Busy
  <2>4. ASSUME NEW q \in orphans' PROVE OrphanOnTime(q)'
    <3>1. q.from \in Replica /\ q \in orphans
      BY <1>2, Typed DEF Request
    <3> QED BY <1>1, <1>2, <2>1, <2>2, <3>1 DEF OnTimeInv, OrphanOnTime
  <2>5. lease'.holder \in Replica => HolderOnTime'
    BY <1>1, <1>2, <2>1, <2>2 DEF OnTimeInv, HolderOnTime
  <2> QED BY <1>1, <1>2, <2>3, <2>4, <2>5 DEF OnTimeInv
<1> QED BY <1>3, <1>4

(* So does the clock, as long as the schedule is kept. *)
LEMMA TicksOnTime ==
  ASSUME TInv, crashes = 0, TimelyTick
  PROVE  OnTimeInv'
<1>1. /\ OnTimeInv /\ TypeOK
  BY DEF TInv, IInv
<1>2. /\ UNCHANGED <<lease, pc, start, wake, request, reply, orphans, errors>>
      /\ clock' = clock + 1
      /\ \A r \in Replica : OnTime(r)
  BY DEF TimelyTick, Tick
<1>3. \A s \in Replica : Due(s)' = Due(s)
  BY <1>2 DEF Due
<1>4. ASSUME NEW s \in Replica PROVE LoopOnTime(s)' /\ RequestOnTime(s)'
  <2>1. OnTime(s) /\ LoopOnTime(s) /\ RequestOnTime(s)
    BY <1>1, <1>2 DEF OnTimeInv
  <2>2. pc[s] = "sleep" => clock' <= wake[s]
    BY <1>1, <1>2, <2>1 DEF OnTime, TypeOK
  <2>3. Busy(s) => clock' <= Due(s) + Latency
    <3> SUFFICES ASSUME Busy(s) PROVE clock' <= Due(s) + Latency
      OBVIOUS
    <3>1. pc[s] \in {"get", "write"} /\ Due(s) = start[s] - Skew[s]
      BY DEF Busy, Due
    <3>2. Local(s) - start[s] < Latency
      BY <2>1, <3>1, Zenon DEF OnTime
    <3>3. start[s] \in Nat /\ Skew[s] \in Nat
      BY <1>1 DEF TypeOK
    <3> QED BY <1>2, <3>1, <3>2, <3>3, Typed, PeriodType DEF Local
  <2> QED BY <1>2, <1>3, <2>1, <2>2, <2>3 DEF LoopOnTime, RequestOnTime, Busy
<1>5. ASSUME NEW q \in orphans' PROVE OrphanOnTime(q)'
  <2>1. q.from \in Replica /\ q \in orphans
    BY <1>2, Typed DEF Request
  <2> QED BY <1>1, <1>2, <1>3, <2>1 DEF OnTimeInv, OrphanOnTime
<1>6. lease'.holder \in Replica => HolderOnTime'
  BY <1>1, <1>2, <1>3 DEF OnTimeInv, HolderOnTime
<1> QED BY <1>1, <1>2, <1>4, <1>5, <1>6 DEF OnTimeInv

-----------------------------------------------------------------------------
(* The timed invariant holds at the start. *)
LEMMA TimelyInitial == Init => TInv
<1> SUFFICES ASSUME Init PROVE TInv
  OBVIOUS
<1>1. IInv
  BY InitialStates
<1>2. ASSUME NEW r \in Replica PROVE LoopOnTime(r) /\ RequestOnTime(r)
  BY DEF Init, LoopOnTime, RequestOnTime, Busy
<1>3. lease.holder \notin Replica
  BY DEF Init, InitialLease, Absent, Bare, Released
<1> QED BY <1>1, <1>2, <1>3 DEF TInv, OnTimeInv, Init

(* Every step of the timed election keeps it. *)
LEMMA TimelyStep == TInv /\ [TimelyNext]_vars => TInv'
<1> SUFFICES ASSUME TInv, [TimelyNext]_vars PROVE TInv'
  OBVIOUS
<1>1. IInv'
  BY Inductive DEF TInv, TimelyNext, TimelyTick, Next
<1>2. SUFFICES ASSUME crashes' = 0 PROVE OnTimeInv'
  BY <1>1 DEF TInv
<1>3. /\ crashes \in Nat
      /\ \A r \in Replica : ~ Crash(r)
      /\ crashes = 0
  <2>1. crashes \in Nat
    BY DEF TInv, IInv, TypeOK
  <2>2. \A r \in Replica : ~ Crash(r)
    BY <1>2, <2>1 DEF Crash
  <2> QED BY <1>2, <2>1, <2>2 DEF TimelyNext, TimelyTick, Attempt, Fault, BeginAttempt,
             GetThenWrite, GetThenWait, ServerAnswers, WriteReturns, GetFails, WriteFails,
             Restart, OrphanArrives, Tick, vars
<1>4. ASSUME NEW r \in Replica, Attempt(r) PROVE OnTimeInv'
  <2>1. ASSUME GetThenWait(r) PROVE OnTimeInv'
    BY <1>3, <2>1, EndsOnTime DEF GetThenWait, Busy
  <2>2. ASSUME WriteReturns(r) PROVE OnTimeInv'
    BY <1>3, <2>2, EndsOnTime DEF WriteReturns, Busy
  <2> QED BY <1>3, <1>4, <2>1, <2>2, BeginsOnTime, WritesOnTime, AnswersOnTime DEF Attempt
<1>5. ASSUME NEW r \in Replica, Fault(r) PROVE OnTimeInv'
  <2>1. ASSUME GetFails(r) PROVE OnTimeInv'
    BY <1>3, <2>1, EndsOnTime DEF GetFails, Busy
  <2>2. ASSUME WriteFails(r) PROVE OnTimeInv'
    BY <1>3, <2>2, EndsOnTime DEF WriteFails, Abandon, Busy
  <2>3. ASSUME Restart(r) PROVE OnTimeInv'
    BY <1>3, <2>3 DEF Restart, TInv, OnTimeInv, LoopOnTime
  <2> QED BY <1>3, <1>5, <2>1, <2>2, <2>3 DEF Fault
<1>6. ASSUME UNCHANGED vars PROVE OnTimeInv'
  BY <1>3, <1>6 DEF vars, TInv, OnTimeInv, LoopOnTime, RequestOnTime, OrphanOnTime,
                    HolderOnTime, Busy, Due
<1> QED BY <1>3, <1>4, <1>5, <1>6, OrphanLandsOnTime, TicksOnTime DEF TimelyNext

\* Only the holder's own writes land while it is on time.
THEOREM RunningLeaderIsKept == TimelySpec => RunningLeaderKeepsLease
<1>1. ASSUME TInv, [TimelyNext]_vars, lease.holder \in Replica, crashes = 0
      PROVE  lease'.holder = lease.holder
  <2>1. \A q : Justified(q) /\ q.version = lease.version => q.from = lease.holder
    BY <1>1, HolderIsSafe
  <2>2. ASSUME NEW q, Justified(q), q.version = lease.version
        PROVE  Applied(q).holder = lease.holder
    BY <2>1, <2>2 DEF Applied
  <2>3. ASSUME NEW r \in Replica, ServerAnswers(r) PROVE lease'.holder = lease.holder
    BY <1>1, <2>2, <2>3, Typed DEF ServerAnswers, RequestSound
  <2>4. ASSUME NEW q \in orphans, OrphanArrives(q) PROVE lease'.holder = lease.holder
    BY <1>1, <2>2, <2>4, Typed DEF OrphanArrives, OrphanSound
  <2>5. \/ lease' = lease
        \/ \E r \in Replica : ServerAnswers(r)
        \/ \E q \in orphans : OrphanArrives(q)
    BY <1>1 DEF TimelyNext, TimelyTick, Attempt, Fault, BeginAttempt, GetThenWrite,
                GetThenWait, WriteReturns, GetFails, WriteFails, Crash, Restart, Tick, vars
  <2> QED BY <2>3, <2>4, <2>5
<1>2. TInv /\ [TimelyNext]_vars =>
         [lease.holder \in Replica /\ crashes = 0 => lease'.holder = lease.holder]_vars
  BY <1>1
<1> QED BY <1>2, TimelyInitial, TimelyStep, PTL DEF TimelySpec, RunningLeaderKeepsLease

-----------------------------------------------------------------------------
(***************************************************************************)
(* Failover: as long as one replica never crashes, the Lease is renewed    *)
(* within FailoverBound.  Such a replica is prompt: its next attempt is    *)
(* due within the expiry of the last renewal and the Periods that failed   *)
(* calls have cost it.  A conflict costs a Period that errors does not     *)
(* count.  It means that another write landed, and then the Lease was      *)
(* renewed at that write's time: either that time is late enough to pay    *)
(* for the conflict, or the write is one a dead replica left behind; there *)
(* is one Period in hand for it, and any write that could cost a second    *)
(* one is young enough to pay for it.                                      *)
(***************************************************************************)

Awaited(r) == pc[r] = "write" /\ reply[r] = "none"

\* The writes that the API server would still take.
Current ==
    {q \in orphans \cup {request[r] : r \in {s \in Replica : Awaited(s)}} :
        q.version = lease.version}

\* r waits for an answer that can only be a conflict, or is one.
Lost(r) == /\ pc[r] = "write"
           /\ reply[r] # "ok"
           /\ request[r].version # lease.version

\* The next attempt of r comes within k Periods after the Lease expires, or
\* within k Periods after any write that may still land.
InTime(r, k) == Due(r) <= LastRenewal + Duration + Slack(k)
Overtakes(r, k) == \A q \in Current : Due(r) <= q.renew + Slack(k)

Prompt(r) ==
    /\ pc[r] # "down"
    /\ pc[r] = "sleep" => clock <= wake[r]
    /\ Due(r) <= clock + Interval
    /\ reply[r] = "ok" => Due(r) <= LastRenewal
    /\ Lost(r) => InTime(r, errors + 1) /\ Overtakes(r, errors + 1)
    /\ ~Lost(r) => \/ InTime(r, errors + 1)
                   \/ InTime(r, errors + 2) /\ Overtakes(r, errors + 2)

AttemptTimely(r) ==
    /\ Busy(r) => clock <= Due(r) + Latency
    /\ reply[r] = "conflict" => request[r].version # lease.version

FailoverInv ==
    /\ IInv
    /\ errors <= MaxErrors
    /\ \A r \in Replica : AttemptTimely(r)
    /\ \E S \in SUBSET Replica : /\ Cardinality(S) <= crashes
                                 /\ \A r \in Replica \ S : Prompt(r)

\* What the invariant says of a state, in one place.
LEMMA FailoverTypes ==
  ASSUME FailoverInv
  PROVE  /\ IInv /\ TypeOK /\ LeaseSound
         /\ \A r \in Replica : AttemptSound(r) /\ RequestSound(r) /\ AttemptTimely(r)
         /\ \A q \in orphans : Justified(q)
         /\ \A r \in Replica : Due(r) \in Int /\ Skew[r] \in Nat
         /\ clock \in Nat /\ errors \in Nat /\ lease.version \in Nat
         /\ errors <= MaxErrors /\ crashes \in Nat
         /\ LastRenewal \in Nat
         /\ Slack(errors) \in Nat /\ Slack(errors + 1) \in Nat
         /\ Slack(errors + 2) \in Nat
         /\ Slack(errors + 1) = Slack(errors) + Period
         /\ Slack(errors + 2) = Slack(errors + 1) + Period
<1>1. /\ IInv /\ TypeOK /\ LeaseSound /\ errors <= MaxErrors
      /\ \A r \in Replica : AttemptSound(r) /\ RequestSound(r) /\ AttemptTimely(r)
      /\ \A q \in orphans : Justified(q)
  BY DEF FailoverInv, IInv, OrphanSound
<1>2. errors \in Nat /\ crashes \in Nat /\ clock \in Nat /\ lease \in Lease
  BY <1>1 DEF TypeOK
<1>3. LastRenewal \in Nat /\ lease.version \in Nat
  BY <1>2 DEF LastRenewal, Lease, Time, Missing
<1>4. \A r \in Replica : Due(r) \in Int /\ Skew[r] \in Nat
  BY <1>1 DEF Due, TypeOK
<1>5. /\ Slack(errors) \in Nat /\ Slack(errors + 1) \in Nat
      /\ Slack(errors + 1) = Slack(errors) + Period
      /\ Slack(errors + 2) = Slack(errors + 1) + Period
  BY <1>2, SlackSteps
<1>6. Slack(errors + 2) \in Nat
  BY <1>5, PeriodType
<1> QED BY <1>1, <1>2, <1>3, <1>4, <1>5, <1>6

\* Duration leaves room for one Period and one attempt.
LEMMA RoomForOne == Replica # {} => Period + Latency <= Duration
<1> SUFFICES ASSUME NEW r \in Replica PROVE Period + Latency <= Duration
  OBVIOUS
<1>1. (MaxErrors + 1) * Period + Latency + Skew[r] - Skew[r] <= Duration
  OBVIOUS
<1>2. Period \in Nat /\ Latency \in Nat /\ Skew[r] \in Nat
  BY PeriodType
<1>3. (MaxErrors + 1) * Period = MaxErrors * Period + Period
  BY <1>2
<1>4. MaxErrors * Period \in Nat
  BY <1>2
<1> QED BY <1>1, <1>2, <1>3, <1>4

\* A write that may still land is justified, and was authored in its renewTime.
LEMMA CurrentFacts ==
  ASSUME FailoverInv, NEW q \in Current
  PROVE  /\ Justified(q) /\ q.version = lease.version
         /\ q.renew \in Nat /\ q.from \in Replica
         /\ LastRenewal <= q.renew
<1>1. Justified(q) /\ q.version = lease.version
  BY FailoverTypes DEF Current, Awaited, RequestSound
<1>2. q.renew \in Nat /\ q.from \in Replica /\ lease.renew <= q.renew
  BY <1>1 DEF Justified, Request
<1> QED BY <1>1, <1>2 DEF LastRenewal

\* What a step leaves as it was for r: its loop, and its prospects, if the only
\* writes added are recent ones.
LEMMA StaysPrompt ==
  ASSUME FailoverInv, NEW r \in Replica, Prompt(r),
         lease' = lease, clock' \in Nat, clock <= clock',
         pc'[r] = pc[r], wake'[r] = wake[r], start'[r] = start[r],
         request'[r] = request[r],
         pc[r] = "sleep" => clock' <= wake[r],
         \/ reply'[r] = reply[r]
         \/ reply[r] = "none" /\ reply'[r] = "conflict",
         errors' \in {errors, errors + 1},
         \A q \in Current' \ Current : q.renew \in Nat /\ clock <= q.renew + Latency
  PROVE  Prompt(r)'
<1>1. /\ Due(r)' = Due(r) /\ Due(r) \in Int /\ LastRenewal' = LastRenewal
      /\ Due(r) <= clock + Interval /\ clock \in Nat
  BY FailoverTypes DEF Due, LastRenewal, Prompt
<1>2. /\ errors' \in Nat /\ Slack(errors' + 1) >= Slack(errors + 1)
      /\ Slack(errors' + 2) >= Slack(errors + 2)
      /\ Slack(errors' + 1) \in Nat /\ Slack(errors' + 2) \in Nat
      /\ Slack(errors' + 2) = Slack(errors' + 1) + Period
      /\ Slack(errors' + 1) >= Period
  <2>1. CASE errors' = errors
    BY <2>1, FailoverTypes, PeriodType
  <2>2. CASE errors' = errors + 1
    <3>1. /\ errors' \in Nat /\ errors' + 1 = errors + 2 /\ errors' + 2 = (errors + 1) + 2
          /\ errors + 1 \in Nat /\ (errors + 1) + 1 = errors + 2
      BY <2>2, FailoverTypes
    <3>2. Slack((errors + 1) + 2) = Slack((errors + 1) + 1) + Period
      BY <3>1, SlackSteps
    <3>3. /\ Slack(errors' + 1) = Slack(errors + 2)
          /\ Slack(errors' + 2) = Slack(errors + 2) + Period
      BY <3>1, <3>2
    <3> QED BY <3>1, <3>3, FailoverTypes, PeriodType
  <2> QED BY <2>1, <2>2
<1>3. Lost(r)' <=> Lost(r)
  BY DEF Lost
<1>4. InTime(r, errors + 1) => InTime(r, errors + 1)'
  BY <1>1, <1>2, FailoverTypes DEF InTime
<1>5. InTime(r, errors + 2) => InTime(r, errors + 2)'
  BY <1>1, <1>2, FailoverTypes DEF InTime
<1>6. ASSUME Lost(r), NEW q \in Current' PROVE Due(r)' <= q.renew + Slack(errors + 1)'
  <2>1. CASE q \in Current
    <3>1. Due(r) <= q.renew + Slack(errors + 1) /\ q.renew \in Nat
      BY <1>6, <2>1, CurrentFacts DEF Prompt, Overtakes
    <3> QED BY <1>1, <1>2, <3>1, FailoverTypes
  <2>2. CASE q \notin Current
    <3>1. Due(r) <= clock
      <4>1. Due(r) = start[r] - Skew[r] /\ start[r] <= Local(r) /\ start[r] \in Nat
        BY <1>6, FailoverTypes DEF Lost, Due, AttemptSound, TypeOK
      <4> QED BY <1>1, <4>1, FailoverTypes DEF Local
    <3>2. q.renew \in Nat /\ clock <= q.renew + Latency
      BY <1>6, <2>2
    <3> QED BY <1>1, <1>2, <3>1, <3>2, PeriodType
  <2> QED BY <2>1, <2>2
<1>7. ASSUME Overtakes(r, errors + 2), NEW q \in Current'
      PROVE  Due(r)' <= q.renew + Slack(errors + 2)'
  <2>1. CASE q \in Current
    <3>1. Due(r) <= q.renew + Slack(errors + 2) /\ q.renew \in Nat
      BY <1>7, <2>1, CurrentFacts DEF Overtakes
    <3> QED BY <1>1, <1>2, <3>1, FailoverTypes
  <2>2. CASE q \notin Current
    <3>1. q.renew \in Nat /\ clock <= q.renew + Latency
      BY <1>7, <2>2
    <3> QED BY <1>1, <1>2, <3>1, PeriodType DEF Period
  <2> QED BY <2>1, <2>2
<1>8. Due(r)' <= clock' + Interval
  BY <1>1
<1>9. reply'[r] = "ok" => Due(r)' <= LastRenewal'
  BY <1>1 DEF Prompt
<1>10. CASE Lost(r)
  <2>1. InTime(r, errors + 1)' /\ Overtakes(r, errors + 1)'
    BY <1>4, <1>6, <1>10 DEF Prompt, Overtakes
  <2> QED BY <1>3, <1>8, <1>9, <1>10, <2>1 DEF Prompt
<1>11. CASE ~ Lost(r)
  <2>1. \/ InTime(r, errors + 1)'
        \/ InTime(r, errors + 2)' /\ Overtakes(r, errors + 2)'
    BY <1>4, <1>5, <1>7, <1>11 DEF Prompt, Overtakes
  <2> QED BY <1>3, <1>8, <1>9, <1>11, <2>1 DEF Prompt
<1> QED BY <1>10, <1>11

\* A landing renews the Lease, and outdates every other write.
LEMMA Landing ==
  ASSUME FailoverInv, NEW q \in Current, lease' = Applied(q),
         errors' = errors, clock' = clock, orphans' \subseteq orphans,
         request' = request, pc' = pc, start' = start, wake' = wake,
         \A r \in Replica : \/ reply'[r] = reply[r]
                            \/ /\ reply[r] = "none" /\ reply'[r] = "ok"
                               /\ q = request[r] /\ pc[r] = "write"
  PROVE  /\ \A r \in Replica : Prompt(r) => Prompt(r)'
         /\ \A r \in Replica : AttemptTimely(r)'
<1>1. /\ Justified(q) /\ q.version = lease.version /\ q.renew \in Nat
      /\ q.from \in Replica /\ LastRenewal <= q.renew
  BY CurrentFacts
<1>2. /\ lease'.version = lease.version + 1 /\ lease'.renew = q.renew
      /\ LastRenewal' = q.renew
  BY <1>1 DEF Applied, LastRenewal, Missing
<1>3. \A r \in Replica : pc[r] = "write" =>
         request[r].version <= lease.version /\ request[r].version \in Nat
  BY FailoverTypes DEF RequestSound, Justified, Request
<1>4. \A p \in orphans : p.version <= lease.version /\ p.version \in Nat
  BY FailoverTypes DEF Justified, Request
<1>5. Current' = {}
  BY <1>2, <1>3, <1>4, FailoverTypes DEF Current, Awaited
<1>6. \A r \in Replica : Due(r)' = Due(r)
  BY DEF Due
<1>7. ASSUME NEW r \in Replica PROVE AttemptTimely(r)'
  <2>1. Busy(r)' = Busy(r) /\ AttemptTimely(r)
    BY FailoverTypes DEF Busy
  <2>2. reply'[r] = "conflict" => pc[r] = "write"
    BY FailoverTypes DEF AttemptSound
  <2> QED BY <1>2, <1>3, <1>6, <2>1, <2>2, FailoverTypes DEF AttemptTimely
<1>8. ASSUME NEW r \in Replica, Prompt(r) PROVE Prompt(r)'
  <2>1. InTime(r, errors + 1)'
    <3>1. CASE InTime(r, errors + 1)
      BY <1>1, <1>2, <1>6, <3>1, FailoverTypes DEF InTime
    <3>2. CASE Overtakes(r, errors + 2)
      <4>1. Due(r) <= q.renew + Slack(errors + 2)
        BY <3>2 DEF Overtakes
      <4>2. Period <= Duration
        BY RoomForOne, PeriodType
      <4>3. Due(r)' <= LastRenewal' + Duration + Slack(errors + 1)
        BY <1>1, <1>2, <1>6, <4>1, <4>2, FailoverTypes, PeriodType
      <4> QED BY <4>3 DEF InTime
    <3> QED BY <1>8, <3>1, <3>2 DEF Prompt
  <2>2. Overtakes(r, errors + 1)'
    BY <1>5 DEF Overtakes
  <2>3. reply'[r] = "ok" => Due(r)' <= LastRenewal'
    <3>1. CASE reply[r] = "ok"
      BY <1>1, <1>2, <1>6, <1>8, <3>1, FailoverTypes DEF Prompt
    <3>2. CASE q = request[r] /\ pc[r] = "write"
      <4>1. q.renew = start[r] /\ Due(r) = start[r] - Skew[r]
        BY <3>2, FailoverTypes DEF RequestSound, Due
      <4> QED BY <1>1, <1>2, <1>6, <4>1, FailoverTypes
    <3> QED BY <3>1, <3>2
  <2> QED BY <1>6, <1>8, <2>1, <2>2, <2>3 DEF Prompt
<1> QED BY <1>7, <1>8

\* However the attempt of r ends, short of a crash, r stays prompt: a counted
\* failure, an answer, or a Lease that has not expired.
LEMMA EndsPromptly ==
  ASSUME FailoverInv, NEW r \in Replica, Prompt(r), NEW held, Finish(r, held), Busy(r),
         lease' = lease, clock' = clock, Current' \subseteq Current,
         \/ errors' = errors + 1
         \/ errors' = errors /\ pc[r] = "write" /\ reply[r] # "none"
         \/ errors' = errors /\ pc[r] = "get" /\ ~ MayWrite(lease, r, start[r])
  PROVE  Prompt(r)'
<1>1. /\ pc'[r] = "sleep" /\ wake'[r] = clock + Interval /\ reply'[r] = "none"
  BY FailoverTypes DEF Finish, DropLocals, TypeOK
<1>2. /\ Due(r)' = clock + Interval /\ LastRenewal' = LastRenewal /\ ~ Lost(r)'
  BY <1>1 DEF Due, LastRenewal, Lost
<1>3. Due(r)' <= Due(r) + Period
  <2>1. clock <= Due(r) + Latency
    BY FailoverTypes DEF AttemptTimely
  <2> QED BY <1>2, <2>1, FailoverTypes, PeriodType DEF Period
<1>4. SUFFICES \/ InTime(r, errors + 1)'
               \/ InTime(r, errors + 2)' /\ Overtakes(r, errors + 2)'
  BY <1>1, <1>2, FailoverTypes DEF Prompt
<1>5. /\ Due(r) \in Int /\ Due(r)' \in Int
  BY <1>2, FailoverTypes
<1>6. CASE errors' = errors + 1
  <2>1. errors + 1 \in Nat /\ (errors + 1) + 1 = errors + 2 /\ (errors + 1) + 2 = errors' + 2
        /\ errors' + 1 = errors + 2
    BY <1>6, FailoverTypes
  <2>2. Slack((errors + 1) + 2) = Slack((errors + 1) + 1) + Period
    BY <2>1, SlackSteps
  <2>3. Slack(errors' + 1) = Slack(errors + 2) /\ Slack(errors' + 2) = Slack(errors + 2) + Period
    BY <2>1, <2>2
  <2>4. InTime(r, errors + 1) => InTime(r, errors + 1)'
    BY <1>2, <1>3, <1>5, <2>3, FailoverTypes, PeriodType DEF InTime
  <2>5. InTime(r, errors + 2) => InTime(r, errors + 2)'
    BY <1>2, <1>3, <1>5, <2>3, FailoverTypes, PeriodType DEF InTime
  <2>6. ASSUME Overtakes(r, errors + 2), NEW q \in Current'
        PROVE  Due(r)' <= q.renew + Slack(errors + 2)'
    <3>1. Due(r) <= q.renew + Slack(errors + 2) /\ q.renew \in Nat
      BY <2>6, CurrentFacts DEF Overtakes
    <3> QED BY <1>3, <1>5, <2>3, <3>1, FailoverTypes, PeriodType
  <2> QED BY <2>4, <2>5, <2>6 DEF Prompt, Overtakes
<1>7. CASE errors' = errors /\ pc[r] = "write" /\ reply[r] = "ok"
  <2>1. Due(r) <= LastRenewal
    BY <1>7 DEF Prompt
  <2> QED BY <1>2, <1>3, <1>5, <1>7, <2>1, FailoverTypes, PeriodType DEF InTime
<1>8. CASE errors' = errors /\ pc[r] = "write" /\ reply[r] = "conflict"
  <2>1. InTime(r, errors + 1) /\ Overtakes(r, errors + 1)
    BY <1>8, FailoverTypes DEF Prompt, Lost, AttemptTimely
  <2>2. InTime(r, errors + 2)'
    BY <1>2, <1>3, <1>5, <1>8, <2>1, FailoverTypes, PeriodType DEF InTime
  <2>3. ASSUME NEW q \in Current' PROVE Due(r)' <= q.renew + Slack(errors + 2)'
    <3>1. Due(r) <= q.renew + Slack(errors + 1) /\ q.renew \in Nat
      BY <2>1, CurrentFacts DEF Overtakes
    <3> QED BY <1>3, <1>5, <1>8, <3>1, FailoverTypes, PeriodType
  <2> QED BY <2>2, <2>3 DEF Overtakes
<1>9. CASE errors' = errors /\ pc[r] = "get" /\ ~ MayWrite(lease, r, start[r])
  <2>1. lease.renew \in Nat /\ start[r] - lease.renew <= Duration /\ start[r] \in Nat
    BY <1>9, FailoverTypes DEF MayWrite, LeaseExpired, TypeOK, Lease, Time
  <2>2. Due(r) = start[r] - Skew[r] /\ LastRenewal = lease.renew
    BY <1>9, <2>1 DEF Due, LastRenewal, Missing
  <2> QED BY <1>2, <1>3, <1>5, <1>9, <2>1, <2>2, FailoverTypes, PeriodType DEF InTime
<1> QED BY <1>6, <1>7, <1>8, <1>9, FailoverTypes DEF TypeOK

\* Every attempt starts when its sleep ends and takes at most Latency.
LEMMA AttemptsStayTimely ==
  ASSUME FailoverInv, [TimelyNext]_vars
  PROVE  \A r \in Replica : AttemptTimely(r)'
<1> SUFFICES ASSUME NEW r \in Replica PROVE AttemptTimely(r)'
  OBVIOUS
<1>1. AttemptTimely(r) /\ TypeOK /\ AttemptSound(r)
  BY FailoverTypes
<1>2. ASSUME ServerAnswers(r) \/ (\E s \in Replica : ServerAnswers(s))
                             \/ (\E q \in orphans : OrphanArrives(q))
      PROVE  AttemptTimely(r)'
  <2>1. UNCHANGED <<clock, pc, start, wake, request, errors>>
    BY <1>2 DEF ServerAnswers, OrphanArrives
  <2>2. Busy(r)' => clock' <= Due(r)' + Latency
    BY <1>1, <2>1 DEF AttemptTimely, Busy, Due
  <2>3. lease'.version = lease.version \/ lease'.version = lease.version + 1
    BY <1>2, FailoverTypes DEF ServerAnswers, OrphanArrives, Applied, Justified, RequestSound
  <2>4. ASSUME reply'[r] = "conflict" PROVE request'[r].version # lease'.version
    <3>1. CASE reply[r] = "conflict"
      <4>1. /\ request[r].version # lease.version /\ request[r].version <= lease.version
            /\ request[r].version \in Nat /\ lease.version \in Nat
        BY <1>1, <3>1, FailoverTypes DEF AttemptTimely, AttemptSound, RequestSound,
                                         Justified, Request
      <4> QED BY <2>1, <2>3, <4>1
    <3>2. CASE reply[r] # "conflict"
      BY <1>1, <1>2, <2>1, <2>4, <3>2 DEF ServerAnswers, OrphanArrives, TypeOK
    <3> QED BY <3>1, <3>2
  <2> QED BY <2>2, <2>4 DEF AttemptTimely
<1>3. ASSUME NEW s \in Replica, BeginAttempt(s) PROVE AttemptTimely(r)'
  <2>1. CASE s = r
    <3>1. Due(r)' = clock /\ clock' = clock /\ reply'[r] = "none"
      BY <1>1, <1>3, <2>1, FailoverTypes
         DEF BeginAttempt, Due, Local, TypeOK, AttemptSound
    <3> QED BY <3>1, FailoverTypes, PeriodType DEF AttemptTimely
  <2>2. CASE s # r
    BY <1>1, <1>3, <2>2 DEF BeginAttempt, AttemptTimely, Busy, Due, TypeOK
  <2> QED BY <2>1, <2>2
<1>4. ASSUME NEW s \in Replica, GetThenWrite(s) PROVE AttemptTimely(r)'
  <2>1. CASE s = r
    BY <1>1, <1>4, <2>1 DEF GetThenWrite, AttemptTimely, AttemptSound, Busy, Due, TypeOK
  <2>2. CASE s # r
    BY <1>1, <1>4, <2>2 DEF GetThenWrite, AttemptTimely, Busy, Due, TypeOK
  <2> QED BY <2>1, <2>2
<1>5. ASSUME NEW s \in Replica,
             \/ GetThenWait(s) \/ GetFails(s) \/ WriteFails(s)
             \/ WriteReturns(s) \/ Crash(s)
      PROVE  AttemptTimely(r)'
  <2>1. /\ lease' = lease /\ clock' = clock /\ DropLocals(s)
        /\ wake' = [wake EXCEPT ![s] = wake'[s]]
        /\ \E next \in {"sleep", "down"} : pc' = [pc EXCEPT ![s] = next]
    BY <1>1, <1>5 DEF GetThenWait, GetFails, WriteFails, WriteReturns, Crash, Finish, TypeOK
  <2>2. CASE s = r
    BY <1>1, <2>1, <2>2 DEF AttemptTimely, Busy, DropLocals, TypeOK
  <2>3. CASE s # r
    BY <1>1, <2>1, <2>3 DEF AttemptTimely, Busy, Due, DropLocals, TypeOK
  <2> QED BY <2>2, <2>3
<1>6. ASSUME NEW s \in Replica, Restart(s) PROVE AttemptTimely(r)'
  BY <1>1, <1>6 DEF Restart, AttemptTimely, Busy, Due, TypeOK
<1>7. ASSUME TimelyTick PROVE AttemptTimely(r)'
  <2>1. /\ clock' = clock + 1 /\ OnTime(r)
        /\ UNCHANGED <<lease, pc, start, wake, request, reply>>
    BY <1>7 DEF TimelyTick, Tick
  <2>2. Busy(r) => clock' <= Due(r) + Latency
    <3> SUFFICES ASSUME Busy(r) PROVE clock' <= Due(r) + Latency
      OBVIOUS
    <3>1. pc[r] \in {"get", "write"} /\ Due(r) = start[r] - Skew[r]
      BY DEF Busy, Due
    <3>2. Local(r) - start[r] < Latency
      BY <2>1, <3>1, Zenon DEF OnTime
    <3>3. start[r] \in Nat /\ Skew[r] \in Nat /\ clock \in Nat
      BY <1>1 DEF TypeOK
    <3> QED BY <2>1, <3>1, <3>2, <3>3, PeriodType DEF Local
  <2> QED BY <1>1, <2>1, <2>2 DEF AttemptTimely, Busy, Due
<1>8. ASSUME UNCHANGED vars PROVE AttemptTimely(r)'
  BY <1>1, <1>8 DEF vars, AttemptTimely, Busy, Due
<1> QED BY <1>2, <1>3, <1>4, <1>5, <1>6, <1>7, <1>8 DEF TimelyNext, Attempt, Fault

\* No other process, fault, late write or tick makes a running replica late.
LEMMA RunningStaysPrompt ==
  ASSUME FailoverInv, [TimelyNext]_vars, NEW r \in Replica, Prompt(r), ~ Crash(r)
  PROVE  Prompt(r)'
<1>1. TypeOK /\ AttemptSound(r) /\ clock \in Nat
  BY FailoverTypes
<1>2. ASSUME NEW s \in Replica, ServerAnswers(s) PROVE Prompt(r)'
  <2>1. UNCHANGED <<clock, pc, start, wake, request, errors, orphans>>
        /\ pc[s] = "write" /\ reply[s] = "none"
    BY <1>2 DEF ServerAnswers
  <2>2. CASE request[s].version = lease.version
    <3>1. lease' = Applied(request[s]) /\ reply' = [reply EXCEPT ![s] = "ok"]
      BY <1>2, <2>2 DEF ServerAnswers
    <3>2. request[s] \in Current
      BY <2>1, <2>2 DEF Current, Awaited
    <3>3. \A p \in Replica : \/ reply'[p] = reply[p]
                             \/ /\ reply[p] = "none" /\ reply'[p] = "ok"
                                /\ request[s] = request[p] /\ pc[p] = "write"
      BY <1>1, <2>1, <3>1 DEF TypeOK
    <3> QED BY <2>1, <3>1, <3>2, <3>3, Landing
  <2>3. CASE request[s].version # lease.version
    <3>1. lease' = lease /\ reply' = [reply EXCEPT ![s] = "conflict"]
      BY <1>2, <2>3 DEF ServerAnswers
    <3>2. reply'[r] = reply[r] \/ (reply[r] = "none" /\ reply'[r] = "conflict")
      BY <1>1, <2>1, <3>1 DEF TypeOK
    <3>3. Current' \subseteq Current
      BY <1>1, <2>1, <3>1 DEF Current, Awaited, TypeOK
    <3>4. pc[r] = "sleep" => clock' <= wake[r]
      BY <2>1 DEF Prompt
    <3> QED BY <1>1, <2>1, <3>1, <3>2, <3>3, <3>4, StaysPrompt
  <2> QED BY <2>2, <2>3
<1>3. ASSUME NEW q \in orphans, OrphanArrives(q) PROVE Prompt(r)'
  <2>1. /\ UNCHANGED <<clock, pc, start, wake, request, errors, reply>>
        /\ orphans' = orphans \ {q}
    BY <1>3 DEF OrphanArrives
  <2>2. CASE q.version = lease.version
    <3>1. lease' = Applied(q) /\ q \in Current
      BY <1>3, <2>2 DEF OrphanArrives, Current
    <3> QED BY <2>1, <3>1, Landing
  <2>3. CASE q.version # lease.version
    <3>1. lease' = lease
      BY <1>3, <2>3 DEF OrphanArrives
    <3>2. Current' \subseteq Current
      BY <2>1, <3>1 DEF Current, Awaited
    <3>3. pc[r] = "sleep" => clock' <= wake[r]
      BY <2>1 DEF Prompt
    <3> QED BY <1>1, <2>1, <3>1, <3>2, <3>3, StaysPrompt
  <2> QED BY <2>2, <2>3
<1>4. ASSUME BeginAttempt(r) PROVE Prompt(r)'
  <2>1. /\ UNCHANGED <<clock, lease, request, reply, orphans, errors>>
        /\ start'[r] = Local(r) /\ pc'[r] = "get" /\ pc[r] = "sleep"
        /\ clock >= wake[r]
        /\ \A s \in Replica : pc'[s] = pc[s] \/ (pc[s] = "sleep" /\ pc'[s] = "get")
    BY <1>1, <1>4 DEF BeginAttempt, TypeOK
  <2>2. Due(r)' = Due(r)
    <3>1. Due(r) = wake[r] /\ clock = wake[r]
      BY <1>1, <2>1 DEF Due, Prompt, TypeOK
    <3>2. Due(r)' = clock
      BY <2>1, FailoverTypes DEF Due, Local
    <3> QED BY <3>1, <3>2
  <2>3. Current' = Current
    BY <2>1 DEF Current, Awaited
  <2>4. ~ Lost(r) /\ ~ Lost(r)'
    BY <2>1 DEF Lost
  <2>5. LastRenewal' = LastRenewal
    BY <2>1 DEF LastRenewal
  <2>6. \/ InTime(r, errors + 1)'
        \/ InTime(r, errors + 2)' /\ Overtakes(r, errors + 2)'
    BY <2>1, <2>2, <2>3, <2>4, <2>5 DEF Prompt, InTime, Overtakes
  <2> QED BY <1>1, <2>1, <2>2, <2>4, <2>5, <2>6 DEF Prompt
<1>5. ASSUME NEW s \in Replica, GetThenWrite(s) PROVE Prompt(r)'
  <2>1. /\ UNCHANGED <<clock, lease, start, wake, reply, orphans, errors>>
        /\ request' = [request EXCEPT ![s] = LeaseObject(lease, s, start[s])]
        /\ pc' = [pc EXCEPT ![s] = "write"] /\ pc[s] = "get"
    BY <1>5 DEF GetThenWrite
  <2>2. ASSUME NEW q \in Current' \ Current
        PROVE  q.renew \in Nat /\ clock <= q.renew + Latency
    <3>1. q = LeaseObject(lease, s, start[s])
      BY <1>1, <2>1, <2>2 DEF Current, Awaited, TypeOK
    <3>2. q.renew = start[s] /\ Due(s) = start[s] - Skew[s] /\ start[s] \in Nat
      BY <1>1, <2>1, <3>1 DEF LeaseObject, Due, TypeOK
    <3>3. clock <= Due(s) + Latency
      BY <2>1, FailoverTypes DEF AttemptTimely, Busy
    <3> QED BY <1>1, <3>2, <3>3, FailoverTypes, PeriodType
  <2>3. CASE s # r
    <3>1. pc'[r] = pc[r] /\ request'[r] = request[r]
      BY <1>1, <2>1, <2>3 DEF TypeOK
    <3>2. pc[r] = "sleep" => clock' <= wake[r]
      BY <2>1 DEF Prompt
    <3> QED BY <1>1, <2>1, <2>2, <3>1, <3>2, StaysPrompt
  <2>4. CASE s = r
    <3>1. /\ pc'[r] = "write" /\ request'[r].version = lease.version
          /\ pc[r] = "get" /\ reply[r] = "none"
      BY <1>1, <2>1, <2>4 DEF LeaseObject, TypeOK, AttemptSound
    <3>2. ~ Lost(r) /\ ~ Lost(r)'
      BY <2>1, <3>1 DEF Lost
    <3>3. Due(r)' = Due(r) /\ LastRenewal' = LastRenewal
      BY <2>1, <3>1 DEF Due, LastRenewal
    <3>4. ASSUME Overtakes(r, errors + 2), NEW q \in Current'
          PROVE  Due(r) <= q.renew + Slack(errors + 2)
      <4>1. CASE q \in Current
        BY <3>4, <4>1 DEF Overtakes
      <4>2. CASE q \notin Current
        <5>1. q.renew \in Nat /\ clock <= q.renew + Latency
          BY <2>2, <3>4, <4>2
        <5>2. Due(r) <= clock + Interval
          BY DEF Prompt
        <5> QED BY <1>1, <5>1, <5>2, FailoverTypes, PeriodType DEF Period
      <4> QED BY <4>1, <4>2
    <3>5. \/ InTime(r, errors + 1)'
          \/ InTime(r, errors + 2)' /\ Overtakes(r, errors + 2)'
      BY <2>1, <3>2, <3>3, <3>4 DEF Prompt, InTime, Overtakes
    <3> QED BY <2>1, <3>1, <3>2, <3>3, <3>5 DEF Prompt
  <2> QED BY <2>3, <2>4
<1>6. ASSUME NEW s \in Replica,
             \/ GetThenWait(s) \/ GetFails(s) \/ WriteFails(s)
             \/ WriteReturns(s) \/ Crash(s)
      PROVE  Prompt(r)'
  <2>1. /\ lease' = lease /\ clock' = clock /\ DropLocals(s)
        /\ wake' = [wake EXCEPT ![s] = wake'[s]]
        /\ \E next \in {"sleep", "down"} : pc' = [pc EXCEPT ![s] = next]
        /\ errors' = errors \/ errors' = errors + 1
        /\ orphans' = orphans \/ (Awaited(s) /\ orphans' = orphans \cup {request[s]})
    BY <1>1, <1>6 DEF GetThenWait, GetFails, WriteFails, WriteReturns, Crash, Finish,
                      Abandon, Awaited, TypeOK
  <2>2. Current' \subseteq Current
    <3>1. \A p \in Replica : Awaited(p)' => Awaited(p) /\ request'[p] = request[p]
      BY <1>1, <2>1 DEF Awaited, DropLocals, TypeOK
    <3> QED BY <2>1, <3>1 DEF Current
  <2>3. CASE s # r
    <3>1. /\ pc'[r] = pc[r] /\ wake'[r] = wake[r] /\ start'[r] = start[r]
          /\ request'[r] = request[r] /\ reply'[r] = reply[r]
      BY <1>1, <2>1, <2>3 DEF DropLocals, TypeOK
    <3>2. pc[r] = "sleep" => clock' <= wake[r]
      BY <2>1 DEF Prompt
    <3> QED BY <1>1, <2>1, <2>2, <3>1, <3>2, StaysPrompt
  <2>4. CASE s = r
    <3>1. PICK held : Finish(r, held)
      BY <1>6, <2>4 DEF GetThenWait, GetFails, WriteFails, WriteReturns
    <3>2. /\ Busy(r)
          /\ \/ errors' = errors + 1
             \/ errors' = errors /\ pc[r] = "write" /\ reply[r] # "none"
             \/ errors' = errors /\ pc[r] = "get" /\ ~ MayWrite(lease, r, start[r])
      BY <1>6, <2>4 DEF GetThenWait, GetFails, WriteFails, WriteReturns, Busy
    <3> QED BY <2>1, <2>2, <3>1, <3>2, EndsPromptly
  <2> QED BY <2>3, <2>4
<1>7. ASSUME \/ TimelyTick
             \/ UNCHANGED vars
             \/ \E s \in Replica \ {r} : Restart(s) \/ BeginAttempt(s)
      PROVE  Prompt(r)'
  <2>1. /\ UNCHANGED <<lease, request, reply, orphans, errors>>
        /\ pc'[r] = pc[r] /\ wake'[r] = wake[r] /\ start'[r] = start[r]
        /\ clock' \in Nat /\ clock <= clock'
        /\ \A s \in Replica : Awaited(s)' => Awaited(s)
    BY <1>1, <1>7 DEF TimelyTick, Tick, vars, Restart, BeginAttempt, TypeOK, Awaited
  <2>2. pc[r] = "sleep" => clock' <= wake[r]
    <3>1. CASE TimelyTick
      BY <1>1, <3>1 DEF TimelyTick, Tick, OnTime, TypeOK
    <3>2. CASE clock' = clock
      BY <3>2 DEF Prompt
    <3> QED BY <1>7, <3>1, <3>2 DEF vars, Restart, BeginAttempt
  <2>3. Current' \subseteq Current
    BY <2>1 DEF Current
  <2> QED BY <2>1, <2>2, <2>3, StaysPrompt
<1>8. ~ Restart(r)
  BY DEF Restart, Prompt
<1> QED
  BY <1>2, <1>3, <1>4, <1>5, <1>6, <1>7, <1>8 DEF TimelyNext, Attempt, Fault

(* The failover invariant holds at the start. *)
LEMMA FailoverInitial == Init => FailoverInv
<1> SUFFICES ASSUME Init PROVE FailoverInv
  OBVIOUS
<1>1. IInv /\ errors <= MaxErrors /\ crashes = 0
  BY InitialStates DEF Init
<1>2. ASSUME NEW r \in Replica PROVE AttemptTimely(r)
  BY DEF Init, AttemptTimely, Busy
<1>3. ASSUME NEW r \in Replica PROVE Prompt(r)
  <2>1. Due(r) = 0 /\ pc[r] = "sleep" /\ wake[r] = 0 /\ clock = 0 /\ reply[r] = "none"
        /\ errors = 0
    BY DEF Init, Due
  <2>2. LastRenewal \in Nat
    BY <1>1 DEF IInv, TypeOK, LastRenewal, Lease, Time, Missing
  <2>3. Slack(errors + 1) \in Nat
    BY <2>1, SlackSteps
  <2>4. InTime(r, errors + 1)
    BY <2>1, <2>2, <2>3 DEF InTime
  <2> QED BY <2>1, <2>4 DEF Prompt, Lost
<1>4. {} \in SUBSET Replica /\ Cardinality({}) <= crashes
  BY <1>1, FS_EmptySet
<1> QED BY <1>1, <1>2, <1>3, <1>4 DEF FailoverInv

(* Every step of the timed election keeps it. *)
LEMMA FailoverStep == FailoverInv /\ [TimelyNext]_vars => FailoverInv'
<1> SUFFICES ASSUME FailoverInv, [TimelyNext]_vars PROVE FailoverInv'
  OBVIOUS
<1>1. IInv'
  BY Inductive DEF FailoverInv, TimelyNext, TimelyTick, Next
<1>2. errors' <= MaxErrors
  <2>1. errors' = errors \/ (errors < MaxErrors /\ errors' = errors + 1)
    BY DEF TimelyNext, TimelyTick, Tick, Attempt, Fault, BeginAttempt,
           GetThenWrite, GetThenWait, ServerAnswers, WriteReturns, GetFails,
           WriteFails, Crash, Restart, OrphanArrives, vars
  <2>2. errors \in Nat /\ errors <= MaxErrors
    BY FailoverTypes
  <2> QED BY <2>1, <2>2
<1>3. PICK S \in SUBSET Replica : /\ Cardinality(S) <= crashes
                                  /\ \A r \in Replica \ S : Prompt(r)
  BY DEF FailoverInv
<1>4. IsFiniteSet(S)
  BY <1>3, FS_Subset
<1>5. CASE \E r \in Replica : Crash(r)
  <2>1. PICK r \in Replica : Crash(r)
    BY <1>5
  <2>2. crashes' = crashes + 1
    BY <2>1 DEF Crash
  <2>3. \A s \in Replica \ {r} : ~ Crash(s)
    BY <2>1, FailoverTypes DEF Crash, TypeOK
  <2>4. \A s \in Replica \ (S \cup {r}) : Prompt(s)'
    BY <1>3, <2>3, RunningStaysPrompt
  <2>5. Cardinality(S \cup {r}) <= crashes'
    <3>1. Cardinality(S) \in Nat /\ crashes \in Nat
      BY <1>4, FS_CardinalityType, FailoverTypes
    <3>2. Cardinality(S \cup {r}) = IF r \in S THEN Cardinality(S) ELSE Cardinality(S) + 1
      BY <1>4, FS_AddElement
    <3> QED BY <1>3, <2>2, <3>1, <3>2
  <2> QED BY <1>1, <1>2, <1>3, <2>4, <2>5, AttemptsStayTimely DEF FailoverInv
<1>6. CASE ~ \E r \in Replica : Crash(r)
  <2>1. \A s \in Replica \ S : Prompt(s)'
    BY <1>3, <1>6, RunningStaysPrompt
  <2>2. crashes' = crashes
    BY <1>6 DEF TimelyNext, TimelyTick, Tick, Attempt, Fault, BeginAttempt,
     GetThenWrite, GetThenWait, ServerAnswers, WriteReturns, GetFails, WriteFails,
     Restart, OrphanArrives, vars
  <2> QED BY <1>1, <1>2, <1>3, <2>1, <2>2, AttemptsStayTimely DEF FailoverInv
<1> QED BY <1>5, <1>6

\* While one replica has not crashed, the Lease is never older than
\* FailoverBound, whatever the other replicas and their late writes do.
THEOREM LeaderIsReplaced == TimelySpec => []LeaseRenewedInTime
<1>1. FailoverInv => LeaseRenewedInTime
  <2> SUFFICES ASSUME FailoverInv, crashes < Cardinality(Replica)
               PROVE  clock <= LastRenewal + FailoverBound
    BY DEF LeaseRenewedInTime
  <2>1. PICK S \in SUBSET Replica : /\ Cardinality(S) <= crashes
                                    /\ \A r \in Replica \ S : Prompt(r)
    BY DEF FailoverInv
  <2>2. PICK r \in Replica \ S : Prompt(r)
    <3>1. Cardinality(S) \in Nat /\ Cardinality(Replica) \in Nat
      BY <2>1, FS_Subset, FS_CardinalityType
    <3>2. S # Replica
      BY <2>1, <3>1, FailoverTypes
    <3> QED BY <2>1, <3>2
  <2>3. clock <= Due(r) + Latency
    BY <2>2, FailoverTypes, PeriodType DEF Prompt, AttemptTimely, Busy, Due, TypeOK
  <2>4. Due(r) <= LastRenewal + Duration + Slack(errors + 2)
    BY <2>2, FailoverTypes, PeriodType DEF Prompt, InTime
  <2>5. Slack(errors + 2) <= (MaxErrors + 2) * Period
    <3>1. Slack(errors + 1) <= (MaxErrors + 1) * Period
      BY FailoverTypes, SlackBound
    <3>2. (MaxErrors + 2) * Period = (MaxErrors + 1) * Period + Period
      BY PeriodType
    <3>3. (MaxErrors + 1) * Period \in Nat
      BY PeriodType
    <3> QED BY <3>1, <3>2, <3>3, FailoverTypes, PeriodType
  <2>6. (MaxErrors + 2) * Period \in Nat
    BY PeriodType
  <2> QED BY <2>2, <2>3, <2>4, <2>5, <2>6, FailoverTypes, PeriodType DEF FailoverBound
<1> QED BY <1>1, FailoverInitial, FailoverStep, PTL DEF TimelySpec

\* The schedule only restricts: what holds of Spec holds of TimelySpec.
THEOREM TimelyIsElection == TimelySpec => Spec
<1>1. [TimelyNext]_vars => [Next]_vars
  BY DEF TimelyNext, TimelyTick, Next
<1> QED BY <1>1, PTL DEF TimelySpec, Spec
=============================================================================
