----------------------------- MODULE MCPodMeta -----------------------------
(***************************************************************************)
(* Instances of PodMeta for TLC.                                           *)
(***************************************************************************)
EXTENDS PodMeta, TLC

CONSTANTS a, b

Symmetry == Permutations({a, b})
=============================================================================
