------------------------------ MODULE MCUpdater ------------------------------
(***************************************************************************)
(* Two builds of each edition, an interval of a few retries, and a process *)
(* that ends once.                                                         *)
(***************************************************************************)
EXTENDS Updater

=============================================================================
