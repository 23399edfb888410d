----------------------------- MODULE LogReads ------------------------------
(***************************************************************************)
(* What the readers of stored lines share: the range of time they are      *)
(* asked for, and the listing of a pod's segments.                         *)
(***************************************************************************)
EXTENDS LogStore

VARIABLES
    request,        \* "pages", "workload" (its pages), "index" (the pages of a value),
                    \* "download" or "search"
    span            \* the first and last timestamp asked for

readVars == <<request, span>>

ReadsInit ==
    /\ request \in {"pages", "workload", "index", "download", "search"}
    /\ span \in {<<1, MaxTime>>, <<2, MaxTime>>}

None == <<>>

Set(s) == {s[i] : i \in DOMAIN s}

\* matchesTimeRange.
Matches(line) == span[1] <= line.ts /\ line.ts <= span[2]

\* podChunks: the segments by day, then container.
Chunks == InOrder(DOMAIN seg)
=============================================================================
