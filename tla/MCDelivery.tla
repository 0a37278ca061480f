----------------------------- MODULE MCDelivery ------------------------------
(***************************************************************************)
(* An instance of Delivery for TLC.                                        *)
(***************************************************************************)
EXTENDS Delivery

CONSTANTS w1, w2
=============================================================================
