------------------------------ MODULE MCBinder ------------------------------
(* A gang of two and a single pod, in every order. *)
EXTENDS BinderPass, TLC

CONSTANTS a, b, single, gang, solo, n1, n2

MCWorkloadOf == a :> gang @@ b :> gang @@ single :> solo
MCTarget  == a :> n1 @@ b :> n2 @@ single :> n1
=============================================================================
