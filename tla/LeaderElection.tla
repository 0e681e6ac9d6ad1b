--------------------------- MODULE LeaderElection ---------------------------
(***************************************************************************)
(* Lease-based leader election of the shadow scheduler (leader.rs).        *)
(*                                                                         *)
(* Every replica runs one loop: sample its clock, GET the Lease, decide    *)
(* from what it read, then create or replace the Lease under the resource  *)
(* version it read, and store the outcome in an AtomicBool that the solve  *)
(* loop reads at any time.  The Kubernetes API server is external: it      *)
(* applies a write only under the current resource version, it may fail a  *)
(* call, and a call that failed for the caller may still be applied later. *)
(*                                                                         *)
(* Replica identities are assumed to be distinct (config.rs documents the  *)
(* identity as one per replica), so a replica is its identity.             *)
(***************************************************************************)
EXTENDS Integers, FiniteSets

CONSTANTS Replica,        \* the scheduler replicas, by identity
          Former,         \* the identity of a replica that no longer runs
          Nobody,         \* an empty holderIdentity
          Duration,       \* DEFAULT_LEASE_DURATION_SECONDS
          Interval,       \* DEFAULT_RENEW_INTERVAL_SECONDS
          Skew,           \* how far each replica's clock is ahead of `clock'
          MaxTransitions, \* i32::MAX, where saturating_add stops counting
          MaxClock,       \* bound: ticks of a behaviour
          MaxErrors,      \* bound: failed API calls of a behaviour
          MaxCrashes      \* bound: process crashes of a behaviour

ASSUME ReplicaAssumption ==
    /\ IsFiniteSet(Replica)
    /\ Former \notin Replica
    /\ Nobody \notin Replica
    /\ Nobody # Former

ASSUME TimeAssumption ==
    /\ Duration \in Nat \ {0}
    /\ Interval \in Nat \ {0}
    /\ Skew \in [Replica -> Nat]
    /\ MaxTransitions \in Nat

ASSUME BoundAssumption ==
    /\ MaxClock \in Nat
    /\ MaxErrors \in Nat
    /\ MaxCrashes \in Nat

VARIABLES
    clock,      \* true time, in ticks
    lease,      \* the coordination.k8s.io Lease stored in the API server
    pc,         \* where each replica's loop stands
    start,      \* `now' of the current attempt, by the replica's own clock
    wake,       \* when the sleep between two attempts ends
    request,    \* the write a replica waits for
    reply,      \* what the API server answered to it
    orphans,    \* writes whose caller stopped waiting, still on their way
    is_leader,  \* the AtomicBool the solve loop reads
    renewedAt,  \* history: `now' of the attempt that raised the flag
    errors,     \* failed API calls so far
    crashes     \* process crashes so far

vars == <<clock, lease, pc, start, wake, request, reply, orphans, is_leader,
          renewedAt, errors, crashes>>

Holder  == Replica \cup {Former, Nobody}
Missing == -1                    \* a Lease without renewTime
Time    == Nat \cup {Missing}

\* The Lease: "absent" (GET answers 404), "bare" (no spec), or "held".
Lease == [kind : {"absent", "bare", "held"}, holder : Holder, renew : Time,
          transitions : Nat, version : Nat]

Absent == [kind |-> "absent", holder |-> Nobody, renew |-> Missing,
           transitions |-> 0, version |-> 0]

\* A create (version 0) or a replace under the version that was read.
Request == [from : Replica, renew : Nat, transitions : Nat, version : Nat]

NoRequest == [from |-> Nobody, renew |-> 0, transitions |-> 0, version |-> 0]

Local(r) == clock + Skew[r]

-----------------------------------------------------------------------------
\* The decision: pure functions of the Lease that was read.

\* Mutants: the operands of the age swapped; the boundary instant included.
LeaseExpired_Swapped(l, now) == l.renew = Missing \/ l.renew - now > Duration
LeaseExpired_Inclusive(l, now) == l.renew = Missing \/ now - l.renew >= Duration

LeaseExpired(l, now) == l.renew = Missing \/ now - l.renew > Duration

SaturatingIncrement(n) == IF n < MaxTransitions THEN n + 1 ELSE n

\* Mutant: an expired holder keeps its successors waiting.
MayWrite_NeverExpires(l, r, now) == l.kind # "held" \/ l.holder \in {Nobody, r}

\* A replica may write when nobody else holds an unexpired Lease.
MayWrite(l, r, now) ==
    \/ l.kind # "held"
    \/ l.holder \in {Nobody, r}
    \/ LeaseExpired(l, now)

\* Mutant: a renewal counts as a transition too.
NextTransitions_CountsRenewals(l, r) ==
    IF l.kind # "held" THEN 0 ELSE SaturatingIncrement(l.transitions)

\* Only taking the Lease over from another holder counts as a transition.
NextTransitions(l, r) ==
    IF l.kind # "held" THEN 0
    ELSE IF l.holder \in {Nobody, r} THEN l.transitions
    ELSE SaturatingIncrement(l.transitions)

\* Mutant: the write leaves renewTime unset.
LeaseObject_Unstamped(l, r, now) ==
    [from |-> r, renew |-> Missing, transitions |-> NextTransitions(l, r),
     version |-> l.version]

LeaseObject(l, r, now) ==
    [from |-> r, renew |-> now, transitions |-> NextTransitions(l, r),
     version |-> l.version]

-----------------------------------------------------------------------------
\* Leases that an earlier deployment can have left behind: one created without
\* a spec, or one whose holder is gone.
Bare == [kind |-> "bare", holder |-> Nobody, renew |-> Missing,
         transitions |-> 0, version |-> 1]

Released == [kind : {"held"}, holder : {Former, Nobody}, renew : {Missing, 0},
             transitions : {0}, version : {1}]

InitialLease == {Absent, Bare} \cup Released

Init ==
    /\ clock = 0
    /\ lease \in InitialLease
    /\ pc = [r \in Replica |-> "sleep"]
    /\ start = [r \in Replica |-> 0]
    /\ wake = [r \in Replica |-> 0]
    /\ request = [r \in Replica |-> NoRequest]
    /\ reply = [r \in Replica |-> "none"]
    /\ orphans = {}
    /\ is_leader = [r \in Replica |-> FALSE]
    /\ renewedAt = [r \in Replica |-> 0]
    /\ errors = 0
    /\ crashes = 0

-----------------------------------------------------------------------------
\* The locals of an attempt go out of scope when it ends.
DropLocals(r) ==
    /\ start' = [start EXCEPT ![r] = 0]
    /\ request' = [request EXCEPT ![r] = NoRequest]
    /\ reply' = [reply EXCEPT ![r] = "none"]

\* Mutant: the loop sleeps for the lease's duration.
Finish_SleepsDuration(r, held) ==
    /\ is_leader' = [is_leader EXCEPT ![r] = held]
    /\ renewedAt' = [renewedAt EXCEPT ![r] = IF held THEN start[r] ELSE 0]
    /\ pc' = [pc EXCEPT ![r] = "sleep"]
    /\ wake' = [wake EXCEPT ![r] = clock + Duration]
    /\ DropLocals(r)

\* The end of an attempt: store the flag, then sleep.
Finish(r, held) ==
    /\ is_leader' = [is_leader EXCEPT ![r] = held]
    /\ renewedAt' = [renewedAt EXCEPT ![r] = IF held THEN start[r] ELSE 0]
    /\ pc' = [pc EXCEPT ![r] = "sleep"]
    /\ wake' = [wake EXCEPT ![r] = clock + Interval]
    /\ DropLocals(r)

\* `now' is sampled before the GET and stamps the write that follows it.
BeginAttempt(r) ==
    /\ pc[r] = "sleep"
    /\ clock >= wake[r]
    /\ start' = [start EXCEPT ![r] = Local(r)]
    /\ wake' = [wake EXCEPT ![r] = 0]
    /\ pc' = [pc EXCEPT ![r] = "get"]
    /\ UNCHANGED <<clock, lease, request, reply, orphans, is_leader,
                   renewedAt, errors, crashes>>

\* The GET answers and the Lease may be written: send the write.
GetThenWrite(r) ==
    /\ pc[r] = "get"
    /\ MayWrite(lease, r, start[r])
    /\ request' = [request EXCEPT ![r] = LeaseObject(lease, r, start[r])]
    /\ pc' = [pc EXCEPT ![r] = "write"]
    /\ UNCHANGED <<clock, lease, start, wake, reply, orphans, is_leader,
                   renewedAt, errors, crashes>>

\* The GET answers with a Lease somebody else holds.
GetThenWait(r) ==
    /\ pc[r] = "get"
    /\ ~MayWrite(lease, r, start[r])
    /\ Finish(r, FALSE)
    /\ UNCHANGED <<clock, lease, orphans, errors, crashes>>

GetFails(r) ==
    /\ pc[r] = "get"
    /\ errors < MaxErrors
    /\ errors' = errors + 1
    /\ Finish(r, FALSE)
    /\ UNCHANGED <<clock, lease, orphans, crashes>>

\* What the API server stores when it applies a write.
Applied(q) ==
    [kind |-> "held", holder |-> q.from, renew |-> q.renew,
     transitions |-> q.transitions, version |-> q.version + 1]

\* The API server takes the write under the version it names, or answers 409.
ServerAnswers(r) ==
    /\ pc[r] = "write"
    /\ reply[r] = "none"
    /\ IF request[r].version = lease.version
       THEN /\ lease' = Applied(request[r])
            /\ reply' = [reply EXCEPT ![r] = "ok"]
       ELSE /\ reply' = [reply EXCEPT ![r] = "conflict"]
            /\ UNCHANGED lease
    /\ UNCHANGED <<clock, pc, start, wake, request, orphans, is_leader,
                   renewedAt, errors, crashes>>

\* Mutant: the 409 of a lost race counts as holding the Lease.
WriteReturns_ConflictHolds(r) ==
    /\ pc[r] = "write"
    /\ reply[r] # "none"
    /\ Finish(r, TRUE)
    /\ UNCHANGED <<clock, lease, orphans, errors, crashes>>

WriteReturns(r) ==
    /\ pc[r] = "write"
    /\ reply[r] # "none"
    /\ Finish(r, reply[r] = "ok")
    /\ UNCHANGED <<clock, lease, orphans, errors, crashes>>

\* The caller stops waiting: the write is lost, already applied, or on its way.
Abandon(r) ==
    \/ UNCHANGED orphans
    \/ /\ pc[r] = "write" /\ reply[r] = "none"
       /\ orphans' = orphans \cup {request[r]}

WriteFails(r) ==
    /\ pc[r] = "write"
    /\ errors < MaxErrors
    /\ errors' = errors + 1
    /\ Abandon(r)
    /\ Finish(r, FALSE)
    /\ UNCHANGED <<clock, lease, crashes>>

\* A write nobody waits for any more reaches the API server.
OrphanArrives(q) ==
    /\ orphans' = orphans \ {q}
    /\ lease' = IF q.version = lease.version THEN Applied(q) ELSE lease
    /\ UNCHANGED <<clock, pc, start, wake, request, reply, is_leader,
                   renewedAt, errors, crashes>>

Crash(r) ==
    /\ pc[r] # "down"
    /\ crashes < MaxCrashes
    /\ crashes' = crashes + 1
    /\ Abandon(r)
    /\ DropLocals(r)
    /\ pc' = [pc EXCEPT ![r] = "down"]
    /\ wake' = [wake EXCEPT ![r] = 0]
    /\ is_leader' = [is_leader EXCEPT ![r] = FALSE]
    /\ renewedAt' = [renewedAt EXCEPT ![r] = 0]
    /\ UNCHANGED <<clock, lease, errors>>

\* spawn: the flag starts false and the loop starts with an attempt.
Restart(r) ==
    /\ pc[r] = "down"
    /\ pc' = [pc EXCEPT ![r] = "sleep"]
    /\ UNCHANGED <<clock, lease, start, wake, request, reply, orphans,
                   is_leader, renewedAt, errors, crashes>>

Tick ==
    /\ clock < MaxClock
    /\ clock' = clock + 1
    /\ UNCHANGED <<lease, pc, start, wake, request, reply, orphans, is_leader,
                   renewedAt, errors, crashes>>

\* What one attempt does, its failures aside.
Attempt(r) ==
    \/ BeginAttempt(r)
    \/ GetThenWrite(r)
    \/ GetThenWait(r)
    \/ ServerAnswers(r)
    \/ WriteReturns(r)

Fault(r) == GetFails(r) \/ WriteFails(r) \/ Crash(r) \/ Restart(r)

Next ==
    \/ \E r \in Replica : Attempt(r) \/ Fault(r)
    \/ \E q \in orphans : OrphanArrives(q)
    \/ Tick

Spec == Init /\ [][Next]_vars

-----------------------------------------------------------------------------
TypeOK ==
    /\ clock \in Nat
    /\ lease \in Lease
    /\ pc \in [Replica -> {"sleep", "get", "write", "down"}]
    /\ start \in [Replica -> Nat]
    /\ wake \in [Replica -> Nat]
    /\ request \in [Replica -> Request \cup {NoRequest}]
    /\ reply \in [Replica -> {"none", "ok", "conflict"}]
    /\ orphans \subseteq Request
    /\ is_leader \in [Replica -> BOOLEAN]
    /\ renewedAt \in [Replica -> Nat]
    /\ errors \in Nat
    /\ crashes \in Nat

\* The flag is a promise with an expiry date: until some replica's clock has
\* passed the Duration after the renewal that set it, a replica whose flag is
\* up really holds the Lease (leader.rs stores the flag after the write and
\* takes a Lease over only when it expired by the taker's clock).
Unexpired(r) == \A q \in Replica : Local(q) - renewedAt[r] <= Duration

FreshLeaderHoldsLease ==
    \A r \in Replica :
        is_leader[r] /\ Unexpired(r) => lease.kind = "held" /\ lease.holder = r

\* No step, late or retried write included, takes a Lease away from a holder
\* before the Duration after its last renewal, by the clock of the taker.
TakeoverOnlyAfterExpiry ==
    [][lease'.holder # lease.holder /\ lease.holder \in Replica
          => /\ lease'.holder \in Replica
             /\ lease.renew + Duration < Local(lease'.holder)]_vars

\* renewTime never moves back, whatever the order in which writes arrive.
RenewTimeNeverGoesBack == [][lease'.renew >= lease.renew]_vars

\* leaseTransitions counts every change of holder exactly once.
TransitionsCountTakeovers ==
    [][lease'.transitions =
          IF lease.holder # Nobody /\ lease'.holder # lease.holder
          THEN SaturatingIncrement(lease.transitions)
          ELSE lease.transitions]_vars
=============================================================================
