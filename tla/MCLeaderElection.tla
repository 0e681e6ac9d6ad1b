-------------------------- MODULE MCLeaderElection --------------------------
(* Two replicas whose clocks differ by one tick, in any phase of the loop. *)
EXTENDS LeaderElection, TLC

CONSTANTS r1, r2

MCSkew == r1 :> 0 @@ r2 :> 1
=============================================================================
