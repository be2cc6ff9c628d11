------------------------------ MODULE MCRounds ------------------------------
(***************************************************************************)
(* Rounds for TLC.  The lanes of all pools are permuted together.          *)
(***************************************************************************)
EXTENDS Rounds, TLC

LaneSymmetry == Permutations(Lane)
=============================================================================
