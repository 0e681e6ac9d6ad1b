------------------------------ MODULE MCLedger ------------------------------
(* Two tenants share two nodes; one of them has a quota. *)
EXTENDS ReservationLedger, TLC

CONSTANTS a, b, n1, n2, red, blue

MCGpusOf   == a :> 1 @@ b :> 2
MCTenantOf == a :> red @@ b :> blue
MCCapacity == n1 :> 2 @@ n2 :> 3
MCQuota    == red :> 1
=============================================================================
