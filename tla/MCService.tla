------------------------------ MODULE MCService ------------------------------
(***************************************************************************)
(* Two requests and a cache of one entry at most. The eviction counter is  *)
(* reduced to a width of one, because nothing here depends on it.          *)
(***************************************************************************)
EXTENDS Service, TLC

Responses == Response

(* Refused, disabled and one entry. *)
Capacities == -1..1

Symmetry == Permutations(Request) \cup Permutations(Addr)

=============================================================================
