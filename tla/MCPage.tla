------------------------------- MODULE MCPage -------------------------------
(***************************************************************************)
(* Pages, JSON and field endpoints on the instance of MCService.           *)
(***************************************************************************)
EXTENDS Page, MCService

=============================================================================
