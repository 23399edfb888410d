----------------------------- MODULE Download ------------------------------
(***************************************************************************)
(* GET /download (internal/api/download.go): the lines of all containers   *)
(* of a pod or workload, merged by time into one response, while writers   *)
(* append and segments are removed.                                        *)
(*                                                                         *)
(* An iterator is its container's segments as they were listed, the one it *)
(* reads with the file it has open, and how many lines of it it has read.  *)
(* A refill is one step: a file grows, and one it has come to the end of   *)
(* is not read again.  Failing writes to the client are left out.          *)
(***************************************************************************)
EXTENDS LogReads

VARIABLES
    download,       \* where the handler is: "start", "list", "open", "fill", "merge"
                    \* or its outcome: "whole", "cut", "error", "not found"
    asked,          \* the last line that had been written when it was asked
    left,           \* the containers still to be listed, or sources to be filled
    iterators,
    peeked,         \* the merge heap: <<timestamp, order of peeking, source, line>>
    counter,        \* the lines peeked so far
    body            \* the lines sent

downloadVars == <<download, asked, left, iterators, peeked, counter, body>>

DownloadInit ==
    /\ download = "start" /\ asked = 0 /\ left = {} /\ iterators = <<>>
    /\ peeked = {} /\ counter = 0 /\ body = <<>>

Least(S) == CHOOSE n \in S : \A m \in S : n <= m

\* ListContainers; the directory of a container that never had a segment has none.
AskDownload ==
    /\ download = "start" /\ asked' = written
    /\ left' = {s[2] : s \in DOMAIN seg} /\ download' = "list"
    /\ UNCHANGED <<iterators, peeked, counter, body>>

\* newPodLineIterator's podChunks, for the next container.
ListChunks ==
    /\ download = "list" /\ left # {}
    /\ LET own == {s \in DOMAIN seg : s[2] = Least(left)}
       IN  IF own = {} THEN UNCHANGED <<download, iterators>>
           ELSE /\ download' = "open"
                /\ iterators' = Append(iterators,
                        [chunks |-> InOrder(own), at |-> 1, file |-> 0, offset |-> 0])
    /\ left' = left \ {Least(left)}
    /\ UNCHANGED <<asked, peeked, counter, body>>

\* openChunkReader: its first segment must still be there.
OpenFirst ==
    /\ download = "open"
    /\ LET n == Len(iterators)
           first == iterators[n].chunks[1]
       IN  IF first \in DOMAIN seg
           THEN download' = "list" /\ iterators' = [iterators EXCEPT ![n].file = seg[first]]
           ELSE download' = "error" /\ UNCHANGED iterators
    /\ UNCHANGED <<asked, left, peeked, counter, body>>

Listed ==
    /\ download = "list" /\ left = {}
    /\ download' = IF iterators = <<>> THEN "not found" ELSE "fill"
    /\ left' = DOMAIN iterators
    /\ UNCHANGED <<asked, iterators, peeked, counter, body>>

\* The file an iterator reads as its k-th.
Opened(it, k) == IF k = it.at THEN <<it.chunks[k], it.file>> ELSE <<it.chunks[k], seg[it.chunks[k]]>>

\* The lines it has before it, as <<segment, index>>, and the segments among them
\* that it cannot open any more.
Gone(it)  == {k \in it.at + 1..Len(it.chunks) : it.chunks[k] \notin DOMAIN seg}

Ahead(it) == {p \in (it.at..Len(it.chunks)) \X (1..MaxLines) :
                /\ p[1] \notin Gone(it) /\ p[2] \in DOMAIN data[Opened(it, p[1])]
                /\ p[1] = it.at => p[2] > it.offset
                /\ Matches(data[Opened(it, p[1])][p[2]])}

\* refill: podLineIterator.next, and the line goes on the heap; or the handler
\* ends without a word when a segment it comes to is gone.
Refill(source, heap) ==
    LET it   == iterators[source]
        next == CHOOSE p \in Ahead(it) : ~\E q \in Ahead(it) : Below(q, p)
        file == Opened(it, next[1])
    IN  IF Gone(it) # {} /\ (Ahead(it) = {} \/ Least(Gone(it)) < next[1])
        THEN download' = "cut" /\ peeked' = heap /\ UNCHANGED <<iterators, counter>>
        ELSE IF Ahead(it) = {}
        THEN peeked' = heap /\ UNCHANGED <<download, iterators, counter>>
        ELSE /\ iterators' = [iterators EXCEPT ![source] =
                                [@ EXCEPT !.at = next[1], !.file = file[2], !.offset = next[2]]]
             /\ peeked' = heap \cup {<<data[file][next[2]].ts, counter, source, data[file][next[2]].id>>}
             /\ counter' = counter + 1 /\ UNCHANGED download

Fill ==
    /\ download = "fill"
    /\ IF left = {} THEN download' = "merge" /\ UNCHANGED <<left, iterators, peeked, counter>>
       ELSE Refill(Least(left), peeked) /\ left' = left \ {Least(left)}
    /\ UNCHANGED <<asked, body>>

\* By the order they were peeked in alone.
MergeByOrder ==
    /\ download = "merge" /\ peeked # {}
    /\ LET item == CHOOSE x \in peeked : \A y \in peeked : x[2] <= y[2]
       IN  /\ body' = Append(body, [id |-> item[4], ts |-> item[1]])
           /\ Refill(item[3], peeked \ {item})
    /\ UNCHANGED <<asked, left>>

\* Pop the earliest line, send it, and refill from where it came.
Merge ==
    /\ download = "merge" /\ peeked # {}
    /\ LET item == CHOOSE x \in peeked : ~\E y \in peeked : Below(y, x)
       IN  /\ body' = Append(body, [id |-> item[4], ts |-> item[1]])
           /\ Refill(item[3], peeked \ {item})
    /\ UNCHANGED <<asked, left>>

Merged ==
    /\ download = "merge" /\ peeked = {} /\ download' = "whole"
    /\ UNCHANGED <<asked, left, iterators, peeked, counter, body>>

DownloadEnded == download \in {"whole", "cut", "error", "not found"}

DownloadNext == AskDownload \/ ListChunks \/ OpenFirst \/ Listed \/ Fill \/ Merge \/ Merged

-----------------------------------------------------------------------------

\* Each container's lines come in the order of its files, none comes twice, and
\* a line comes after a later one only if it does so in its own container, too
\* (download.go:182).
DownloadInOrder ==
    DownloadEnded => \A i, j \in DOMAIN body : i < j =>
        /\ body[i] # body[j]
        /\ \A p, q \in Positions : At(p) = body[i] /\ At(q) = body[j] =>
            /\ p[2] = q[2] => Below(p, q)
            /\ body[i].ts > body[j].ts =>
                \E x \in Positions : x[2] = q[2] /\ Below(x, q) /\ At(x).ts >= body[i].ts

\* A download that is not cut short has every line of the range that had been
\* written when it was asked for and is still stored.
DownloadWhole ==
    download = "whole" =>
        \A p \in Stored : At(p).id <= asked /\ Matches(At(p)) => At(p) \in Set(body)

\* What is downloaded is in order, and it is all there is unless the download is cut
\* short by a segment that goes (download.go:182).
DownloadExact == DownloadInOrder /\ DownloadWhole
=============================================================================
