------------------------------ MODULE MCPromos ------------------------------
(* One freebet and one boost, a single bet and a parlay. *)
EXTENDS Promos

CONSTANTS free, boost, single, multi
=============================================================================
