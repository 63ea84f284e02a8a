---------------------------- MODULE MCGeoDatabase ----------------------------
(***************************************************************************)
(* Two clients, and the four readers that can be open at once: the handles *)
(* of both databases and the two a reload opens. Clients, readers and      *)
(* builds are interchangeable, which the safety run uses. The liveness run *)
(* has no broken files: a lookup that fails returns like any other.        *)
(***************************************************************************)
EXTENDS GeoDatabase, TLC

Symmetry ==
  Permutations(Client) \cup Permutations(Handle) \cup Permutations(Build)

=============================================================================
