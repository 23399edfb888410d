---- MODULE MCLogIndex ----
(* LogIndex on a small instance. *)
EXTENDS LogIndex
CONSTANTS k1, s1, w1, w2

OneKey     == {k1}
OneSegment == {s1}
TwoWriters == {w1, w2}
====
