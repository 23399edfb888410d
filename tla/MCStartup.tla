----------------------------- MODULE MCStartup -----------------------------
(* Two legacy files: one of two days, out of order, and one without a timestamp. *)
EXTENDS Startup

TwoFiles == <<<<1, 2, 1>>, <<NoTime>>>>
=============================================================================
