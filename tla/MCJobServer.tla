----------------------------- MODULE MCJobServer -----------------------------
(* Two pages, each with an analysis of its own. *)
EXTENDS JobServer

CONSTANTS p1, p2
=============================================================================
