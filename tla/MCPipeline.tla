----------------------------- MODULE MCPipeline -----------------------------
(***************************************************************************)
(* Instances of Pipeline for TLC.  Lanes are interchangeable.              *)
(***************************************************************************)
EXTENDS Pipeline, TLC

LaneSymmetry == Permutations(Lane)
=============================================================================
