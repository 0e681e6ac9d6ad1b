---------------------------- MODULE LeaderTiming ----------------------------
(***************************************************************************)
(* The election loop of leader.rs when it is scheduled on time: a sleep    *)
(* ends when it should, and an attempt - the GET, the write and its answer *)
(* - takes at most Latency ticks.  Under that assumption the constants of  *)
(* leader.rs (renew every Interval, expire after Duration) promise two     *)
(* things a test cannot wait for: a running leader is not displaced by     *)
(* MaxErrors failed calls, and a dead one is replaced within a bound.      *)
(***************************************************************************)
EXTENDS LeaderElection

CONSTANT Latency          \* the longest an attempt takes

Period == Interval + Latency

\* 15 s, renewed every 5 s, leaves this much room for failed renewals, and for
\* clocks that differ.
ASSUME RenewalMarginAssumption ==
    /\ Latency \in Nat
    /\ \A r, q \in Replica :
          (MaxErrors + 1) * Period + Latency + Skew[q] - Skew[r] <= Duration

\* Time may not pass a sleep that has ended or an attempt that is due.
OnTime(r) ==
    /\ pc[r] = "sleep" => clock < wake[r]
    /\ pc[r] \in {"get", "write"} => Local(r) - start[r] < Latency

TimelyTick == Tick /\ \A r \in Replica : OnTime(r)

TimelyNext ==
    \/ \E r \in Replica : Attempt(r) \/ Fault(r)
    \/ \E q \in orphans : OrphanArrives(q)
    \/ TimelyTick

TimelySpec == Init /\ [][TimelyNext]_vars

-----------------------------------------------------------------------------
\* While no process dies, the Lease stays with the replica that holds it, even
\* though MaxErrors of its renewals fail and other replicas keep polling.
RunningLeaderKeepsLease ==
    [][lease.holder \in Replica /\ crashes = 0
          => lease'.holder = lease.holder]_vars

\* As long as one replica runs, the Lease is never left unrenewed for longer
\* than its expiry, plus the attempts that may fail, plus one that a late write
\* of a dead leader can turn into a conflict, plus the one that succeeds.
FailoverBound == Duration + (MaxErrors + 2) * Period + Latency

LastRenewal == IF lease.renew = Missing THEN 0 ELSE lease.renew

LeaseRenewedInTime ==
    crashes < Cardinality(Replica) => clock <= LastRenewal + FailoverBound
=============================================================================
