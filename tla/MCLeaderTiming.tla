--------------------------- MODULE MCLeaderTiming ---------------------------
(* Two replicas with synchronised clocks, scheduled on time. *)
EXTENDS LeaderTiming, TLC

CONSTANTS r1, r2

MCSkew == r1 :> 0 @@ r2 :> 0

\* With equal clocks the replicas are interchangeable.
ReplicaSymmetry == Permutations({r1, r2})
=============================================================================
