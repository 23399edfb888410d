----------------------------- MODULE MCStreams -----------------------------
(***************************************************************************)
(* Instances of Streams for TLC.                                           *)
(***************************************************************************)
EXTENDS Streams, TLC

CONSTANTS a, b

Symmetry == Permutations({a, b})
=============================================================================
