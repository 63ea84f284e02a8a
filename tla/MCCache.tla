------------------------------- MODULE MCCache -------------------------------
(* The cache on four addresses, two answers and capacities from -1 to 3,   *)
(* with the history of use.                                                *)
EXTENDS CacheUse

(* Refused, disabled, and smaller than the number of addresses. *)
CapacityRange == -1..3

=============================================================================
