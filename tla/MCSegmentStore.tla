-------------------------- MODULE MCSegmentStore --------------------------
(***************************************************************************)
(* Instances of SegmentStore for TLC.                                      *)
(***************************************************************************)
EXTENDS SegmentStore, TLC

CONSTANTS c1, w1, w2

\* One container whose stream can be restarted while the old writer lives.
OneContainer == (w1 :> c1) @@ (w2 :> c1)

\* One stream, never restarted before its writer has closed.
OneWriter == (w1 :> c1)

Symmetry == Permutations(Inodes)
=============================================================================
