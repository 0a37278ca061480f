------------------------------ MODULE MCConfig ------------------------------
(***************************************************************************)
(* Instance of Config for TLC.                                             *)
(***************************************************************************)
EXTENDS Config, TLC

CONSTANTS t1, t2, p1, p2

MCNumbers == {-5, 0, 7}
MCDurations == {-2000, 1500, 9000}

MCSymmetry == Permutations(Texts) \union Permutations(Paths)
=============================================================================
