------------------------------ MODULE MCAgent --------------------------------
(***************************************************************************)
(* An instance of Agent for TLC.                                           *)
(***************************************************************************)
EXTENDS Agent

CONSTANTS w1, reporter, main
=============================================================================
