----------------------------- MODULE LogPages ------------------------------
(***************************************************************************)
(* GetLogs and GetWorkloadLogs (internal/api): a client that pages through *)
(* the lines of a pod or a workload, forwards and backwards, while the     *)
(* store changes between its requests and within them.  The lines of one   *)
(* container are paged by byte offsets, those of several by timestamps.    *)
(*                                                                         *)
(* A file is read in one step, up to where the request stops reading it:   *)
(* files only grow, and one that is open outlives its name, so a read that *)
(* takes its time finds nothing else.  Offsets count lines.  Lines whose   *)
(* timestamp does not parse, cancelled requests and page sizes beyond the  *)
(* limits are left out.                                                    *)
(***************************************************************************)
EXTENDS LogReads

CONSTANTS
    PageSize,
    MaxAsks         \* bound on the requests of the client

ASSUME PagesAssumption == PageSize \in Nat \ {0} /\ MaxAsks \in Nat

VARIABLES
    pc, kind,       \* where the request is, and what it asks for
    top,            \* how many lines had been written when it came
    chunks,         \* podChunks
    start, at,      \* where its page starts, and the reader is: <<chunk, offset>>
                    \* (once the page is read, at is the token of the next one)
    scan,           \* findChunkPageStartBefore: <<chunk, offset, lines to find>>
    lines,          \* the page so far
    heap, matching, \* mergedLogsPage's heap, and its matchingCount
    answer,         \* what the client was last answered
    asks

pageVars == <<pc, kind, top, chunks, start, at, scan, lines, heap, matching, answer, asks>>

NoAnswer == [kind |-> "none", merged |-> FALSE, lines |-> <<>>, next |-> None, prev |-> None,
             top |-> 0, from |-> <<>>]

Whole == -1     \* an offset still to be taken from the file's size

PagesInit ==
    /\ pc = "idle" /\ kind = "none" /\ top = 0
    /\ chunks = <<>> /\ start = None /\ at = None /\ scan = None /\ lines = <<>>
    /\ heap = {} /\ matching = 0 /\ answer = NoAnswer /\ asks = 0

Idle ==
    /\ pc' = "idle" /\ kind' = "none" /\ top' = 0 /\ chunks' = <<>> /\ start' = None
    /\ at' = None /\ scan' = None /\ lines' = <<>> /\ heap' = {} /\ matching' = 0

\* An error: the client keeps the answer it has, and may ask again.
Err == Idle /\ UNCHANGED <<answer, asks>>

Answer(merged, page, next, prev) ==
    /\ answer' = [kind |-> kind, merged |-> merged, lines |-> page, next |-> next,
                  prev |-> prev, top |-> top, from |-> answer.lines]
    /\ Idle /\ UNCHANGED asks

Token == CASE kind = "next" -> answer.next [] kind = "prev" -> answer.prev [] OTHER -> None

\* A request comes: for the first page or the last, or the one next to the last answer.
Asks(k) ==
    /\ pc = "idle" /\ asks < MaxAsks /\ asks' = asks + 1
    /\ k = "next" => answer.next # None
    /\ k = "prev" => answer.prev # None
    /\ kind' = k /\ top' = written

Ask(k) ==
    /\ Asks(k) /\ pc' = "dispatch" /\ chunks' = Chunks
    /\ UNCHANGED <<start, at, scan, lines, heap, matching, answer>>

\* A workload's lines are merged, and those of a pod of several containers.
Merges == request = "workload" \/ Cardinality({s[2] : s \in Set(chunks)}) > 1

\* GetLogs up to its first read: by which path, and from where.  A token of the
\* other path, or of a segment that is gone, is refused.  (os.Stat, for the last
\* page, needs the last file to be there still.)  A merge lists the segments anew.
Dispatch ==
    /\ pc = "dispatch"
    /\ LET merged == Merges
           known  == {i \in DOMAIN chunks : Token # None /\ Token[2] = chunks[i]}
           foreign == Token # None /\ (Token[1] = "offset") = merged
           gone == ~merged /\ (\/ Token # None /\ known = {}
                               \/ kind = "last" /\ chunks[Len(chunks)] \notin DOMAIN seg)
           refused == (chunks = <<>> /\ request = "pages") \/ foreign \/ gone
       IN  IF refused THEN Err ELSE
           /\ \/ /\ merged
                 /\ pc' = "merge" /\ chunks' = Chunks /\ at' = <<1, 0>> /\ UNCHANGED <<start, scan>>
              \/ /\ ~merged /\ kind = "last"
                 /\ pc' = "scan" /\ UNCHANGED <<chunks, start, at>>
                 /\ scan' = <<Len(chunks), Len(Content(chunks[Len(chunks)])), PageSize>>
              \/ /\ ~merged /\ kind # "last"
                 /\ start' = IF Token = None THEN <<1, 0>>
                             ELSE <<CHOOSE i \in known : TRUE, Token[3]>>
                 /\ pc' = "read" /\ at' = start' /\ UNCHANGED <<chunks, scan>>
           /\ UNCHANGED <<kind, top, lines, heap, matching, answer, asks>>

-----------------------------------------------------------------------------
(* By offsets: one container. *)

\* Without a count for the lines of a file that is too short.
BackwardGreedy(end, need) ==
    CASE end = 0    -> <<0, 0>>
      [] need < end -> <<end - need, need>>
      [] OTHER      -> <<0, 0>>

\* scanBackwardInFile: the offset `need' lines before `end', and how many lines it
\* says it went over.  Reaching the start of the file it counts one too few.
Backward(end, need) ==
    CASE end = 0    -> <<0, 0>>
      [] need < end -> <<end - need, need>>
      [] OTHER      -> <<0, end - 1>>

\* The offset is of a longer file, in whose place there is another.
Beyond ==
    chunks[scan[1]] \in DOMAIN seg /\ scan[2] > Len(Content(chunks[scan[1]]))

\* findChunkPageStartBefore, one file; one that has vanished is passed over, and
\* one cannot be read from beyond its end.
ScanFile ==
    /\ pc \in {"scan", "prev"}
    /\ LET here == chunks[scan[1]]
           gone == here \notin DOMAIN seg
           end  == IF scan[2] = Whole THEN Len(Content(here)) ELSE scan[2]
           found == IF gone THEN <<0, 0>> ELSE Backward(end, scan[3])
           rest == scan[3] - found[2]
           back == IF rest = 0 THEN <<scan[1], found[1]>>
                   ELSE IF scan[1] = 1 THEN <<1, 0>> ELSE None
       IN  IF Beyond THEN Err
           ELSE IF back = None
           THEN /\ scan' = <<scan[1] - 1, Whole, rest>>
                /\ UNCHANGED <<pc, kind, top, chunks, start, at, lines, heap, matching,
                               answer, asks>>
           ELSE IF pc = "scan"
           THEN /\ pc' = "read" /\ start' = back /\ at' = back /\ scan' = None
                /\ UNCHANGED <<kind, top, chunks, lines, heap, matching, answer, asks>>
           ELSE Answer(FALSE, lines, at, <<"offset", chunks[back[1]], back[2]>>)

\* Where the lines are in a file, after an offset, that the page may take, in order.
ToTake(all, offset) == InOrder({<<i>> : i \in {j \in DOMAIN all : j > offset /\ Matches(all[j])}})

\* Where it starts.
PositionBefore(segment, offset) == <<"offset", segment, offset - 1>>

\* position: where the line last read ends, as a token.
Position(segment, offset) == <<"offset", segment, offset>>

\* In the current file alone.
HasMoreHere(offset, size) == offset < size

\* hasMoreAfterCurrent.
HasMore(offset, size) == offset < size \/ at[1] < Len(chunks)

\* The page is complete; unless it starts with the first line, the start of the
\* one before it is looked for.
PageRead(page, next) ==
    IF start = <<1, 0>> THEN Answer(FALSE, page, next, None)
    ELSE /\ pc' = "prev" /\ lines' = page /\ at' = next
         /\ scan' = <<start[1], start[2], PageSize>>
         /\ UNCHANGED <<kind, top, chunks, start, heap, matching, answer, asks>>

\* The reader: readLine until the page is full or the file ends.
ReadFile ==
    /\ pc = "read"
    /\ LET here == chunks[at[1]]
           all  == Content(here)
           take == ToTake(all, at[2])
           room == PageSize - Len(lines)
           full == Len(take) >= room
           last == take[room][1]
           page == lines \o [k \in 1..(IF full THEN room ELSE Len(take)) |-> all[take[k][1]]]
       IN  IF here \notin DOMAIN seg THEN Err
           ELSE IF full
           THEN PageRead(page, IF HasMore(last, Len(all)) THEN Position(here, last) ELSE None)
           ELSE IF at[1] < Len(chunks)
           THEN /\ at' = <<at[1] + 1, 0>> /\ lines' = page
                /\ UNCHANGED <<pc, kind, top, chunks, start, scan, heap, matching,
                               answer, asks>>
           ELSE PageRead(page, None)

-----------------------------------------------------------------------------
(* By timestamps: several containers, or a workload (mergedLogsPage). *)

\* encodeForwardNanosToken, encodeBackwardNanosToken.
ForwardToken(ts)  == <<"after", ts>>
BackwardToken(ts) == <<"before", ts>>

Reversed == kind = "last" \/ (Token # None /\ Token[1] = "before")

Eligible(line) ==
    /\ Matches(line)
    /\ Token # None => IF Token[1] = "after" THEN line.ts > Token[2] ELSE line.ts < Token[2]

\* The first ones, always.
KeptAnyhow(entries) ==
    {e \in entries : Cardinality({x \in entries : Below(x, e)}) < PageSize}

\* The heap keeps the PageSize entries that come first, or last if reversed.
Kept(entries) ==
    {e \in entries : Cardinality({x \in entries : IF Reversed THEN Below(e, x) ELSE Below(x, e)})
                        < PageSize}

\* One file of the scan; one that has vanished is passed over.
MergeFile ==
    /\ pc = "merge" /\ at[1] <= Len(chunks)
    /\ LET here == chunks[at[1]]
           all == IF here \in DOMAIN seg THEN Content(here) ELSE <<>>
           new == {<<all[i].ts, at[1], i, all[i].id>> : i \in {j \in DOMAIN all : Eligible(all[j])}}
       IN  heap' = Kept(heap \cup new) /\ matching' = matching + Cardinality(new)
    /\ at' = <<at[1] + 1, 0>>
    /\ UNCHANGED <<pc, kind, top, chunks, start, scan, lines, answer, asks>>

MergeAnswer ==
    /\ pc = "merge" /\ at[1] > Len(chunks)
    /\ LET sorted == InOrder(heap)
           page == [i \in DOMAIN sorted |-> [id |-> sorted[i][4], ts |-> sorted[i][1]]]
           more == matching > Len(page)
           newer == IF Reversed THEN Token # None ELSE more
           older == IF Reversed THEN more ELSE Token # None
       IN  Answer(TRUE, page,
                  IF newer /\ page # <<>> THEN ForwardToken(page[Len(page)].ts) ELSE None,
                  IF older /\ page # <<>> THEN BackwardToken(page[1].ts) ELSE None)

PagesNext ==
    \/ \E k \in {"first", "last", "next", "prev"} : Ask(k)
    \/ Dispatch \/ ScanFile \/ ReadFile \/ MergeFile \/ MergeAnswer

-----------------------------------------------------------------------------
(* What is promised of an answer, of the lines that were there when it was asked for. *)

Answered == pc = "idle" /\ answer.kind # "none"

Old == {p \in Stored : At(p).id <= answer.top /\ Matches(At(p))}

Where(S) == {p \in Positions : \E line \in S : line.id = At(p).id}

First(s) == {s[i] : i \in {1} \cap DOMAIN s}
Final(s) == {s[i] : i \in {Len(s)} \cap DOMAIN s}

\* Paging forwards by offsets leaves out no line and shows none twice: not
\* within a page, and not between a page and the next, whatever is written or
\* removed in the meantime (paging_test.go:112).  (But of a file made again in the
\* place of one that was removed, what is before the offset of the token.)
OffsetPagesSkipNothing ==
    Answered /\ ~answer.merged =>
        LET page == Set(answer.lines)
            last == IF answer.kind = "next" THEN Final(answer.from) ELSE {}
        IN  /\ \A i, j \in DOMAIN answer.lines : i < j => answer.lines[i] # answer.lines[j]
            /\ answer.kind = "next" => page \cap Set(answer.from) = {}
            /\ \A p \in Old : At(p) \notin page /\ p[3] = 1 =>
                ~\E a \in Where(page \cup last), b \in Where(page) : Below(a, p) /\ Below(p, b)

NoneMadeAgain == \A f \in DOMAIN data : f[2] = 1

\* Paging backwards by offsets shows no line of the page it comes from, unless
\* it has come to the first line of all or a file between the two has gone, and
\* leaves out fewer lines than there are segments: one for each start of a file that
\* the count went over (log_service.go:513), beside those whose place a newer line has
\* taken (newer than the last page's request, or than what was stored at first where
\* there is a token).  But not if a file has been made again: a token then is a place
\* in another one.
BackwardPagesNear ==
    Answered /\ ~answer.merged /\ answer.kind \in {"last", "prev"} /\ span[1] = 1 /\ NoneMadeAgain =>
        LET page == Set(answer.lines)
            next == IF answer.kind = "prev" THEN First(answer.from) ELSE {}
            since == IF answer.kind = "prev" THEN FirstLines ELSE answer.top
            missed == {p \in Old : /\ At(p).id <= since
                                   /\ Where(page) # {} /\ \A a \in Where(page) : Below(a, p)
                                   /\ \A b \in Where(next) : Below(p, b)}
        IN  /\ answer.kind = "prev" /\ page \cap Set(answer.from) # {} =>
                \/ ~\E p \in Old : At(p).id <= FirstLines /\ \A a \in Where(page) : Below(p, a)
                \/ \E p \in Positions \ Stored : /\ \E a \in Where(page) : Below(a, p)
                                                 /\ \A b \in Where(next) : Below(p, b)
            /\ Cardinality(missed) < Cardinality(Days)
                    + Cardinality({line \in page : line.id > since})

\* A merged page is in time order, and no line that belongs in it is left out
\* for one further from the point it was asked for (workload_service.go:142).
MergedPagesExact ==
    Answered /\ answer.merged /\ request # "index" =>
        LET page == answer.lines
            back == answer.kind \in {"last", "prev"}
            asked(t) == /\ answer.kind = "next" => \A line \in Final(answer.from) : t > line.ts
                        /\ answer.kind = "prev" => \A line \in First(answer.from) : t < line.ts
        IN  /\ \A i, j \in DOMAIN page : i < j => page[i].ts <= page[j].ts /\ page[i] # page[j]
            /\ \A i \in DOMAIN page : asked(page[i].ts)
            /\ \A p \in Old : At(p) \notin Set(page) /\ asked(At(p).ts) =>
                /\ Len(page) = PageSize
                /\ \A line \in Set(page) : IF back THEN At(p).ts <= line.ts ELSE At(p).ts >= line.ts

\* No token means there is no more: an answer without a next (previous) page's
\* token is not followed (preceded) by a line the client has not been shown; by
\* timestamps, of another time (log_service.proto:132).  (But of a file made again
\* in the place of one that was removed, a page that is empty.)
EndsAreEnds ==
    LET seen == Set(answer.lines)
                    \cup (IF answer.kind \in {"next", "prev"} THEN Set(answer.from) ELSE {})
        before(p, a) == IF answer.merged THEN At(p).ts < At(a).ts ELSE Below(p, a)
    IN  Answered /\ request # "index" /\ Where(seen) # {} =>
        /\ answer.next = None /\ (answer.kind # "prev" \/ answer.lines # <<>>) =>
            ~\E p \in Old : /\ answer.merged \/ answer.lines # <<>> \/ p[3] = 1
                           /\ \A a \in Where(seen) : before(a, p)
        /\ answer.prev = None /\ (answer.kind # "next" \/ answer.lines # <<>>) =>
            ~\E p \in Old : \A a \in Where(seen) : before(p, a)

\* The last page holds the newest line (log_service.proto:122).
LastPageIsNewest ==
    Answered /\ ~answer.merged /\ answer.kind = "last" =>
        ~\E p \in Old : \A a \in Where(Set(answer.lines)) : Below(a, p)
=============================================================================
