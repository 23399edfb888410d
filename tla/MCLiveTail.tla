---------------------------- MODULE MCLiveTail -----------------------------
EXTENDS LiveTail
=============================================================================
