----------------------------- MODULE IndexPages -----------------------------
(***************************************************************************)
(* GetLogs of an index (internal/indexes): a client that pages through the *)
(* lines that have a value, while the store changes.  A page token is the  *)
(* number of a line, in the order of time, among those there are at the    *)
(* time of the request.                                                    *)
(*                                                                         *)
(* The manager's lock is held throughout, so that the references are those *)
(* there were when it was taken: here one of every line that had been      *)
(* written, in that order (LogIndex has what may be missing or stale).     *)
(* Left out: lines whose timestamp does not parse, indexes that are        *)
(* deleted and shards that cannot be read.  Offsets count lines.           *)
(***************************************************************************)
EXTENDS LogPages

VARIABLES
    fileSizes,      \* segment -> how long it was found to be, -1 if it was not found
    entries         \* the entries of the page that are still to be read

indexVars == <<fileSizes, entries>>

IndexInit == fileSizes = <<>> /\ entries = <<>>

\* The shard's references, as <<timestamp, number, segment, offset>>.
References ==
    {<<At(p).ts, At(p).id, <<p[1], p[2]>>, p[4]>> : p \in {q \in Positions : At(q).id <= top}}

Unchecked == {r \in References : r[3] \notin DOMAIN fileSizes}

Available == {r \in References : r[4] <= fileSizes[r[3]]}

\* <-m.ready and m.mu.Lock.
AskIndex(k) ==
    /\ Asks(k) /\ pc' = "stat"
    /\ UNCHANGED <<chunks, start, at, scan, lines, heap, matching, answer, indexVars>>

\* readReferencePageLocked: at the first reference to a file, os.Stat.
StatFile ==
    /\ pc = "stat"
    /\ \E r \in Unchecked :
        /\ \A x \in Unchecked : r[2] <= x[2]
        /\ fileSizes' = [s \in DOMAIN fileSizes \cup {r[3]} |->
                            IF s # r[3] THEN fileSizes[s]
                            ELSE IF s \in DOMAIN seg THEN Len(Content(s)) ELSE -1]
    /\ UNCHANGED <<pageVars, entries>>

\* In the order of the shard.
EntryPosition(a, b) == a[2] < b[2]

\* sortableEntryLess: by time, then in the order of the shard.
EntryLess(a, b) == a[1] < b[1] \/ (a[1] = b[1] /\ a[2] < b[2])

Place(r) == Cardinality({x \in Available : EntryLess(x, r)})

Greater(m, n) == IF m > n THEN m ELSE n

\* ... and the page, of the references whose line is there: the last ones, or those
\* from the token's number on, with the token of the next page.
SelectPage ==
    /\ pc = "stat" /\ Unchecked = {}
    /\ LET total == Cardinality(Available)
           asked == IF Token = None THEN 0 ELSE Token[2]
           first == IF kind = "last" THEN Greater(0, total - PageSize) ELSE asked
           page  == {r \in Available : Place(r) \in first..(first + PageSize - 1)}
           end   == first + Cardinality(page)
       IN  IF asked > total THEN Err /\ fileSizes' = <<>> /\ UNCHANGED entries ELSE
           /\ pc' = "entry" /\ start' = <<first>>
           /\ at' = IF end < total THEN <<"number", end>> ELSE None
           /\ entries' = [i \in 1..Cardinality(page) |->
                            CHOOSE r \in page : Place(r) = first + i - 1]
           /\ UNCHANGED <<kind, top, chunks, scan, lines, heap, matching, answer, asks, fileSizes>>

\* readReferencedLine, of the next entry; a line that cannot be read is left out.
ReadEntry ==
    /\ pc = "entry" /\ entries # <<>> /\ entries' = Tail(entries)
    /\ LET r == Head(entries)
       IN  lines' = IF r[3] \in DOMAIN seg /\ r[4] <= Len(Content(r[3]))
                    THEN Append(lines, Content(r[3])[r[4]]) ELSE lines
    /\ UNCHANGED <<pc, kind, top, chunks, start, at, scan, heap, matching, answer, asks, fileSizes>>

IndexAnswer ==
    /\ pc = "entry" /\ entries = <<>>
    /\ Answer(TRUE, lines, at,
              IF start[1] > 0 THEN <<"number", Greater(0, start[1] - PageSize)>> ELSE None)
    /\ fileSizes' = <<>> /\ UNCHANGED entries

IndexNext ==
    \/ \E k \in {"first", "last", "next", "prev"} : AskIndex(k)
    \/ StatFile \/ SelectPage \/ ReadEntry \/ IndexAnswer

-----------------------------------------------------------------------------
Earlier(a, b) == Below(<<a.ts, a.id>>, <<b.ts, b.id>>)

\* The lines that have been shown before and are again, and those between the page
\* and the one it was asked from.
Repeated == Set(answer.lines) \cap Set(answer.from)

Skipped ==
    {p \in Old :
        /\ answer.from # <<>> /\ answer.lines # <<>>
        /\ \A a \in Set(answer.from) :
              IF answer.kind = "next" THEN Earlier(a, At(p)) ELSE Earlier(At(p), a)
        /\ \A b \in Set(answer.lines) :
              IF answer.kind = "next" THEN Earlier(At(p), b) ELSE Earlier(b, At(p))}

Seen == Set(answer.lines) \cup (IF answer.kind \in {"next", "prev"} THEN Set(answer.from) ELSE {})

\* A page of an index is in time order and leaves out no line between two of its
\* own.  From one to the next, numbers shift by the lines that have gone or come in
\* between, and by no more: going forwards, so many lines at most are left out or
\* shown twice; going backwards likewise, but for the oldest page, which is always
\* a full one (manager.go:375).  So many may be missing, too, where there is no token
\* for more.  But not if a file has been made again: references to the one
\* before it then are of other lines.
IndexPagesNear ==
    Answered /\ request = "index" /\ NoneMadeAgain =>
        LET page == answer.lines
            gone == Cardinality({p \in Positions \ Stored : At(p).id <= answer.top})
            come == Cardinality({p \in Positions : At(p).id \in (FirstLines + 1)..answer.top})
            oldest == \A p \in Old : \E b \in Set(page) : ~Earlier(At(p), b)
        IN  /\ \A i, j \in DOMAIN page : i < j => Earlier(page[i], page[j])
            /\ ~\E p \in Old : \E a, b \in Set(page) :
                    At(p) \notin Set(page) /\ Earlier(a, At(p)) /\ Earlier(At(p), b)
            /\ answer.kind = "next" =>
                    Cardinality(Skipped) <= gone /\ Cardinality(Repeated) <= come
            /\ answer.kind = "prev" =>
                    Cardinality(Skipped) <= come /\ (Cardinality(Repeated) <= gone \/ oldest)
            /\ answer.next = None /\ Seen # {} =>
                    Cardinality({p \in Old : \A a \in Seen : Earlier(a, At(p))}) <= gone
            /\ answer.prev = None /\ Seen # {} =>
                    Cardinality({p \in Old : \A a \in Seen : Earlier(At(p), a)}) <= come

\* The previous page is one of older lines: what a client has shown so far and what
\* it puts before it are different lines (IndexPanel.tsx:127), if none has gone.
PreviousIsOlder ==
    Answered /\ request = "index" /\ answer.kind = "prev" /\ changes = 0 => Repeated = {}
=============================================================================
