----------------------------- MODULE MCHubChain ------------------------------
(***************************************************************************)
(* The ticks of a run.                                                     *)
(***************************************************************************)
EXTENDS HubChain

OneTick == 1 .. 1

=============================================================================
