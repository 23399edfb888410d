---------------------------- MODULE PagesProofs ----------------------------
(***************************************************************************)
(* Proofs about the pages by offsets of PodLogs, and about where pages end *)
(* (PodLogsProofs has those about what a page merged by time holds): for   *)
(* any containers, days, lines and page size, going forwards they leave    *)
(* out no line and show none twice; going backwards they leave out fewer   *)
(* lines than there are segments; and where there is no token for a next   *)
(* or previous page, there is nothing more.                                *)
(***************************************************************************)
EXTENDS PodLogsProofs

-----------------------------------------------------------------------------
(* The inductive invariant of pages by offsets. *)

Places(S) == {p \in Positions : At(p) \in S}

\* The line that a page is asked to follow.
Last(k, L) == IF k = "next" THEN Final(L) ELSE {}

Known(S) == \A line \in S : \E p \in Positions : At(p) = line

\* The lines of a page are in the order of their places, ...
Ascending(L) ==
    \A i, j \in 1..Len(L) : i < j =>
        \A p, q \in Positions : At(p) = L[i] /\ At(q) = L[j] => Below(p, q)

After(L, last) == \A a \in Places(last), b \in Places(Set(L)) : Below(a, b)

\* ... and none between them is left out, ...
Unbroken(L, last, n) ==
    \A p \in Positions : Remains(p, n) /\ p[3] = 1 /\ At(p) \notin Set(L) =>
        ~\E a \in Places(Set(L) \cup last), b \in Places(Set(L)) : Below(a, p) /\ Below(p, b)

\* ... nor one after them or before them, if that is where the page ends.
NoneAfter(L, last, n) ==
    \A p \in Positions : Remains(p, n) /\ (L # <<>> \/ p[3] = 1) /\ Places(Set(L) \cup last) # {} =>
        \E a \in Places(Set(L) \cup last) : ~Below(a, p)

NoneBefore(L, n) == \A p \in Positions : Remains(p, n) => \E a \in Places(Set(L)) : ~Below(p, a)

\* The token is the place of the last line.
TokenOf(L, token) ==
    token # None =>
        /\ L # <<>> /\ token[3] \in Int
        /\ \A p \in Places(Final(L)) : SegmentOf(p) = token[2] /\ p[4] = token[3]

PageInv(L, last, n, next) ==
    /\ L \in Seq([id : Nat, ts : Times])
    /\ Known(Set(L)) /\ Ascending(L) /\ Known(last) /\ After(L, last) /\ Unbroken(L, last, n)
    /\ TokenOf(L, next)
    /\ next = None => NoneAfter(L, last, n)

OffsetAnswerInv ==
    /\ answer.kind = "none" => answer.next = None /\ answer.prev = None
    /\ answer.kind # "none" /\ ~answer.merged =>
        /\ PageInv(answer.lines, Last(answer.kind, answer.from), answer.top, answer.next)
        /\ answer.kind = "next" =>
              answer.from \in Seq([id : Nat, ts : Times]) /\ Known(Set(answer.from)) /\ Ascending(answer.from)
        /\ answer.prev = None =>
              NoneBefore(answer.lines, answer.top) \/ (answer.kind = "next" /\ answer.lines = <<>>)
        /\ answer.prev # None => answer.prev[3] \in Int

\* The segments are listed in their order, those there were when the request came.
ListInv ==
    /\ chunks \in Seq(Segments)
    /\ \A i, j \in 1..Len(chunks) : i < j => Below(chunks[i], chunks[j])
    /\ \A p \in Positions : Remains(p, top) => ListedBefore(p, Len(chunks) + 1)

Past(p, c) ==
    \E k \in 1..Len(chunks) :
        chunks[k] = SegmentOf(p) /\ (k > c[1] \/ (k = c[1] /\ p[4] > c[2]))

StartInv ==
    /\ start[1] \in 1..Len(chunks) /\ start[2] \in Int
    /\ \A a \in Places(Last(kind, answer.lines)) :
          chunks[start[1]] = SegmentOf(a) /\ a[4] = start[2]
    /\ start = <<1, 0>> => kind # "next"
    /\ start = <<start[1], start[2]>>

\* What has been read, from the start of the page up to a place.
ReadTo(L, c) ==
    /\ L \in Seq([id : Nat, ts : Times])
    /\ Known(Set(L)) /\ Ascending(L) /\ After(L, Last(kind, answer.lines))
    /\ \A p \in Places(Set(L)) : Past(p, start) /\ ~Past(p, c)
    /\ \A p \in Positions : Remains(p, top) /\ Past(p, start) => Past(p, c) \/ At(p) \in Set(L)
    /\ \A p \in Positions, q \in Places(Set(L)) :
          Remains(p, top) /\ SegmentOf(p) = SegmentOf(q) => p[3] = q[3]

\* A request by offsets follows an answer by offsets.
OffsetRequestInv ==
    /\ pc \in {"idle", "dispatch", "scan"} => lines = <<>>
    /\ pc \in {"dispatch", "scan", "read", "prev"} => ListInv
    /\ pc \in {"scan", "read", "prev"} => (kind \in {"next", "prev"} => answer.kind # "none" /\ ~answer.merged)
    /\ pc = "scan" => kind = "last" /\ scan[1] \in 1..Len(chunks)
    /\ pc \in {"scan", "prev"} => scan[2] \in Int /\ scan[3] \in Int
    /\ pc = "read" =>
          /\ StartInv /\ Len(lines) < PageSize
          /\ at[1] \in 1..Len(chunks) /\ at[2] \in Int
          /\ at[1] > start[1] => at[2] = 0
          /\ at[1] = start[1] => at[2] = start[2]
          /\ at[1] >= start[1]
          /\ ReadTo(lines, at)
    /\ pc = "prev" => PageInv(lines, Last(kind, answer.lines), top, at)

OffsetsInv ==
    /\ request = "index" => answer.merged \/ answer.kind = "none"
    /\ request # "index" => OffsetAnswerInv /\ OffsetRequestInv

\* The files of a name go on being numbered, up to the one it has now.
LEMMA FilesMove ==
    ASSUME StoreInv, LinesInv, FilesInv, StoreNext
    PROVE  FilesInv'
<1>1. ASSUME NEW s \in Segments, CreateSegment(s) PROVE FilesInv'
  <2> PICK file : file = 1 + Cardinality(FilesNamed(s))
    OBVIOUS
  <2>1. /\ seg' = [x \in DOMAIN seg \cup {s} |-> IF x = s THEN file ELSE seg[x]]
        /\ data' = [f \in DOMAIN data \cup {<<s, file>>} |->
                        IF f = <<s, file>> THEN <<>> ELSE data[f]]
        /\ s \notin DOMAIN seg /\ written' = written /\ changes' = changes + 1
    BY <1>1 DEF CreateSegment, Change, FilesNamed
  <2>2. Cardinality(FilesNamed(s)) \in Nat
    <3>1. FilesNamed(s) \in SUBSET DOMAIN data /\ IsFiniteSet(DOMAIN data)
      BY DEF FilesNamed, StoreInv
    <3> QED BY <3>1, FS_Subset, FS_CardinalityType
  <2>3. ASSUME NEW f \in DOMAIN data', f[1] \in DOMAIN seg' PROVE f[2] <= seg'[f[1]]
    <3>1. CASE f = <<s, file>>
      <4>1. f[1] = s /\ f[2] = file /\ seg'[s] = file /\ file \in Nat
        BY <2>1, <2>2, <3>1
      <4> QED BY <4>1
    <3>2. CASE f # <<s, file>> /\ f[1] = s
      <4>1. f \in DOMAIN data /\ seg'[s] = file
        BY <2>1, <3>2
      <4>2. f[2] <= Cardinality(FilesNamed(s)) /\ f[2] \in Nat
        BY <3>2, <4>1 DEF StoreInv
      <4> QED BY <2>2, <3>2, <4>1, <4>2
    <3>3. CASE f[1] # s
      <4>1. f \in DOMAIN data /\ f[1] \in DOMAIN seg /\ seg'[f[1]] = seg[f[1]]
        BY <2>1, <2>3, <3>3
      <4> QED BY <4>1 DEF FilesInv
    <3> QED BY <3>1, <3>2, <3>3
  <2>4. ASSUME NEW f \in DOMAIN data', NEW k \in DOMAIN data'[f] PROVE k <= written
    <3>1. CASE f = <<s, file>>
      <4>1. DOMAIN data'[f] = {}
        BY <2>1, <3>1, EmptySeq
      <4> QED BY <4>1
    <3>2. CASE f # <<s, file>>
      <4>1. f \in DOMAIN data /\ data'[f] = data[f]
        BY <2>1, <3>2
      <4> QED BY <4>1 DEF FilesInv
    <3> QED BY <3>1, <3>2
  <2>5. written' <= FirstLines + changes'
    BY <2>1, StoreAssumption DEF FilesInv, StoreInv, LinesInv
  <2> QED BY <2>1, <2>3, <2>4, <2>5 DEF FilesInv
<1>2. ASSUME NEW s \in Segments, DeleteSegment(s) PROVE FilesInv'
  <2>1. /\ seg' = [x \in DOMAIN seg \ {s} |-> seg[x]]
        /\ data' = data /\ written' = written /\ changes' = changes + 1
    BY <1>2 DEF DeleteSegment, Change
  <2>2. written' <= FirstLines + changes'
    BY <2>1, StoreAssumption DEF FilesInv, StoreInv, LinesInv
  <2> QED BY <2>1, <2>2 DEF FilesInv
<1>3. ASSUME NEW c \in Containers, NEW t \in Times, AppendLine(c, t) PROVE FilesInv'
  <2> PICK f0 : f0 = <<<<Day(t), c>>, seg[<<Day(t), c>>]>>
    OBVIOUS
  <2> PICK line : line = [id |-> written + 1, ts |-> t]
    OBVIOUS
  <2>1. /\ data' = [data EXCEPT ![f0] = Append(@, line)] /\ seg' = seg
        /\ f0 \in DOMAIN data /\ written' = written + 1 /\ changes' = changes + 1
    BY <1>3 DEF AppendLine, Change, StoreInv
  <2>2. DOMAIN data' = DOMAIN data /\ data'[f0] = Append(data[f0], line)
        /\ \A f \in DOMAIN data : f # f0 => data'[f] = data[f]
    BY <2>1 DEF StoreInv
  <2>3. written \in Nat
    BY DEF StoreInv
  <2>4. ASSUME NEW f \in DOMAIN data, NEW k \in DOMAIN data'[f] PROVE k <= written + 1
    <3>1. \A j \in DOMAIN data[f] : j <= written
      BY DEF FilesInv
    <3>2. IsSequence(data[f]) /\ Len(data[f]) \in Nat /\ DOMAIN data[f] = 1..Len(data[f])
      BY LengthOf DEF StoreInv
    <3>3. Len(data[f]) <= written
      BY <2>3, <3>1, <3>2
    <3>4. DOMAIN data'[f] \in SUBSET (DOMAIN data[f] \cup {Len(data[f]) + 1})
      <4>1. CASE f = f0
        <5>1. DOMAIN Append(data[f], line) = DOMAIN data[f] \cup {Len(data[f]) + 1}
          BY <3>2, LongerSequence
        <5> QED BY <2>2, <4>1, <5>1
      <4> QED BY <2>2, <4>1
    <3> QED BY <2>3, <3>2, <3>3, <3>4
  <2>5. written' <= FirstLines + changes'
    BY <2>1, StoreAssumption DEF FilesInv, StoreInv, LinesInv
  <2> QED BY <2>1, <2>2, <2>4, <2>5 DEF FilesInv
<1> QED BY <1>1, <1>2, <1>3 DEF StoreNext

\* A line is where it is, and numbered, once.
LEMMA OneNumber ==
    ASSUME StoreInv, LinesInv, NEW p \in Positions, NEW q \in Positions, At(p).id = At(q).id
    PROVE  p = q
<1> PICK f : f = <<SegmentOf(p), p[3]>>
  OBVIOUS
<1> PICK g : g = <<SegmentOf(q), q[3]>>
  OBVIOUS
<1>1. f \in DOMAIN data /\ p[4] \in DOMAIN data[f] /\ At(p) = data[f][p[4]]
  BY PlaceHas
<1>2. g \in DOMAIN data /\ q[4] \in DOMAIN data[g] /\ At(q) = data[g][q[4]]
  BY PlaceHas
<1>3. f = g /\ p[4] = q[4]
  BY <1>1, <1>2 DEF LinesInv
<1>4. data[f][p[4]] = data[g][q[4]]
  BY <1>3
<1>5. At(p) = At(q)
  BY <1>1, <1>2, <1>4
<1> QED BY <1>5, OnePlace

\* Where lines are that were read: their places, and no other.
LEMMA WhereIs ==
    ASSUME StoreInv, LinesInv, NEW S, Known(S)
    PROVE  Where(S) = Places(S)
<1>1. ASSUME NEW p \in Positions, NEW line \in S, line.id = At(p).id PROVE At(p) \in S
  <2>1. PICK q \in Positions : At(q) = line
    BY DEF Known
  <2>2. p = q
    BY <1>1, <2>1, OneNumber
  <2> QED BY <2>1, <2>2
<1> QED BY <1>1 DEF Where, Places

Unique == StoreInv /\ LinesInv => \A p, q \in Positions : At(p) = At(q) => p = q

\* Two places do not hold the same line, after a step either.
LEMMA OnePlaceNext == Unique'
<1>1. Unique
  BY OnePlace DEF Unique
<1> QED BY <1>1, PTL

\* Places stay as the store changes.
LEMMA KnownStays ==
    ASSUME StoreInv', LinesInv', Grows, NEW S, Known(S)
    PROVE  Known(S)' /\ Places(S)' = Places(S)
<1>1. \A p \in Positions : p \in Positions' /\ At(p)' = At(p)
  BY PlacesStay
<1>2. Known(S)'
  BY <1>1 DEF Known
<1>3. ASSUME NEW p \in Positions', At(p)' \in S PROVE p \in Positions /\ At(p) \in S
  <2> PICK line \in S : line = At(p)'
    BY <1>3
  <2>1. PICK q \in Positions : At(q) = line
    BY DEF Known
  <2>2. q \in Positions' /\ At(q)' = At(p)'
    BY <1>1, <2>1
  <2>3. p = q
    BY <2>2, OnePlaceNext DEF Unique
  <2> QED BY <1>1, <2>1, <2>3
<1>4. \A p \in Positions : At(p) \in S => At(p)' \in S /\ p \in Positions'
  BY <1>1
<1>5. Places(S)' = Places(S)
  <2>1. \A p : p \in Places(S)' <=> p \in Positions' /\ At(p)' \in S
    BY DEF Places
  <2>2. \A p : p \in Places(S) <=> p \in Positions /\ At(p) \in S
    BY DEF Places
  <2> QED BY <1>3, <1>4, <2>1, <2>2
<1> QED BY <1>2, <1>5

\* The store grows, and what appears in it is new.
Moves ==
    /\ StoreInv' /\ LinesInv' /\ Grows
    /\ UNCHANGED span
    /\ \A x \in DOMAIN seg' \ DOMAIN seg : DOMAIN data'[<<x, seg'[x]>>] = {}

\* What is there after a step, of what had been written, was there before it.
LEMMA StillRemains ==
    ASSUME Moves, NEW n \in Nat, n <= written, NEW p \in Positions', Remains(p, n)'
    PROVE  p \in Positions /\ Remains(p, n) /\ At(p)' = At(p)
BY RemainsStay DEF Moves

\* A list's last line is on it.
LEMMA FinalOf == ASSUME NEW L PROVE Final(L) \in SUBSET Set(L)
BY DEF Final, Set

\* A page stays in order: its lines do not move.
LEMMA AscendingStays ==
    ASSUME Moves, NEW L \in Seq([id : Nat, ts : Times]), Known(Set(L)), Ascending(L)
    PROVE  Ascending(L)'
<1>1. Places(Set(L))' = Places(Set(L))
  BY KnownStays DEF Moves
<1>2. \A p \in Positions : At(p)' = At(p)
  BY PlacesStay DEF Moves
<1>3. ASSUME NEW i \in 1..Len(L), NEW p \in Positions', At(p)' = L[i]
      PROVE  p \in Positions /\ At(p) = L[i]
  <2>1. DOMAIN L = 1..Len(L)
    BY LenProperties
  <2>2. L[i] \in Set(L)
    BY <2>1 DEF Set
  <2>3. p \in Places(Set(L))'
    BY <1>3, <2>2 DEF Places
  <2>4. p \in Positions
    BY <1>1, <2>3 DEF Places
  <2> QED BY <1>2, <1>3, <2>4
<1> QED BY <1>3 DEF Ascending

\* What holds of a page by offsets goes on holding, whatever the store does.
LEMMA PageStays ==
    ASSUME Moves, NEW L, NEW last, NEW n \in Nat, n <= written, NEW next, PageInv(L, last, n, next)
    PROVE  PageInv(L, last, n, next)'
<1>1. /\ L \in Seq([id : Nat, ts : Times]) /\ Known(Set(L)) /\ Ascending(L) /\ Known(last)
      /\ After(L, last) /\ Unbroken(L, last, n) /\ TokenOf(L, next)
      /\ next = None => NoneAfter(L, last, n)
  BY DEF PageInv
<1> PICK S : S = Set(L) \cup last
  OBVIOUS
<1>2. Known(S) /\ Known(Final(L))
  BY <1>1, FinalOf DEF Known
<1>3. StoreInv' /\ LinesInv' /\ Grows
  BY DEF Moves
<1>4. /\ Known(Set(L))' /\ Places(Set(L))' = Places(Set(L))
      /\ Known(last)' /\ Places(last)' = Places(last)
      /\ Places(S)' = Places(S) /\ Places(Final(L))' = Places(Final(L))
  <2>1. Known(Set(L))' /\ Places(Set(L))' = Places(Set(L))
    <3> PICK T : T = Set(L)
      OBVIOUS
    <3>1. Known(T)
      BY <1>1
    <3>2. Known(T)' /\ Places(T)' = Places(T)
      BY <1>3, <3>1, KnownStays
    <3> QED BY <3>2
  <2>2. Known(last)' /\ Places(last)' = Places(last)
    BY <1>1, <1>3, KnownStays
  <2>3. Places(S)' = Places(S)
    BY <1>2, <1>3, KnownStays
  <2>4. Places(Final(L))' = Places(Final(L))
    <3> PICK T : T = Final(L)
      OBVIOUS
    <3>1. Known(T)
      BY <1>2
    <3>2. Places(T)' = Places(T)
      BY <1>3, <3>1, KnownStays
    <3> QED BY <3>2
  <2> QED BY <2>1, <2>2, <2>3, <2>4
<1>5. ASSUME NEW p \in Positions', Remains(p, n)'
      PROVE  p \in Positions /\ Remains(p, n) /\ At(p)' = At(p)
  BY <1>5, StillRemains
<1>6. Ascending(L)'
  BY <1>1, AscendingStays
<1>7. After(L, last)'
  BY <1>1, <1>4 DEF After
<1>8. Unbroken(L, last, n)'
  <2> SUFFICES ASSUME NEW p \in Positions', Remains(p, n)', p[3] = 1, At(p)' \notin Set(L),
                      NEW a \in Places(S)', NEW b \in Places(Set(L))', Below(a, p), Below(p, b)
               PROVE  FALSE
    BY DEF Unbroken
  <2>1. p \in Positions /\ Remains(p, n) /\ At(p) \notin Set(L)
    BY <1>5
  <2>2. a \in Places(Set(L) \cup last) /\ b \in Places(Set(L))
    BY <1>4
  <2> QED BY <1>1, <2>1, <2>2 DEF Unbroken
<1>9. TokenOf(L, next)'
  BY <1>1, <1>4 DEF TokenOf, SegmentOf
<1>10. ASSUME next = None PROVE NoneAfter(L, last, n)'
  <2> SUFFICES ASSUME NEW p \in Positions', Remains(p, n)', L # <<>> \/ p[3] = 1, Places(S)' # {}
               PROVE  \E a \in Places(S)' : ~Below(a, p)
    BY DEF NoneAfter
  <2>1. p \in Positions /\ Remains(p, n)
    BY <1>5
  <2>2. \E a \in Places(S) : ~Below(a, p)
    BY <1>1, <1>4, <1>10, <2>1 DEF NoneAfter
  <2> QED BY <1>4, <2>2
<1> QED BY <1>1, <1>4, <1>6, <1>7, <1>8, <1>9, <1>10 DEF PageInv

\* The line the page follows, if it is a next page, is in the store.
LEMMA LastKnown ==
    ASSUME OffsetAnswerInv, OffsetRequestInv, pc \in {"scan", "read", "prev"}
    PROVE  Known(Last(kind, answer.lines))
<1>1. CASE kind = "next"
  <2>1. Known(Set(answer.lines))
    BY <1>1 DEF OffsetAnswerInv, OffsetRequestInv, PageInv
  <2>2. Last(kind, answer.lines) \in SUBSET Set(answer.lines)
    BY <1>1, FinalOf DEF Last
  <2> QED BY <2>1, <2>2 DEF Known
<1>2. CASE kind # "next"
  BY <1>2 DEF Last, Known
<1> QED BY <1>1, <1>2

\* So what holds of an answer goes on holding.
LEMMA AnswerRests ==
    ASSUME Moves, UNCHANGED answer, AnswerInv, OffsetAnswerInv
    PROVE  OffsetAnswerInv'
<1> PICK n \in Nat : n = answer.top /\ n <= written
  BY DEF AnswerInv
<1> PICK L : L = answer.lines
  OBVIOUS
<1> PICK last : last = Last(answer.kind, answer.from)
  OBVIOUS
<1>1. Last(answer.kind, answer.from)' = last
  OBVIOUS
<1> SUFFICES ASSUME answer.kind # "none", ~answer.merged
             PROVE  (/\ PageInv(answer.lines, Last(answer.kind, answer.from), answer.top, answer.next)
                     /\ answer.kind = "next" =>
                           /\ answer.from \in Seq([id : Nat, ts : Times])
                           /\ Known(Set(answer.from)) /\ Ascending(answer.from)
                     /\ answer.prev = None =>
                           \/ NoneBefore(answer.lines, answer.top)
                           \/ answer.kind = "next" /\ answer.lines = <<>>
                     /\ answer.prev # None => answer.prev[3] \in Int)'
  BY DEF OffsetAnswerInv
<1>3. /\ PageInv(L, last, n, answer.next)
      /\ answer.kind = "next" =>
            /\ answer.from \in Seq([id : Nat, ts : Times])
            /\ Known(Set(answer.from)) /\ Ascending(answer.from)
      /\ answer.prev = None => NoneBefore(L, n) \/ (answer.kind = "next" /\ L = <<>>)
      /\ answer.prev # None => answer.prev[3] \in Int
  BY DEF OffsetAnswerInv
<1>4. PageInv(answer.lines, Last(answer.kind, answer.from), answer.top, answer.next)'
  <2> PICK next : next = answer.next
    OBVIOUS
  <2>1. PageInv(L, last, n, next)
    BY <1>3
  <2>2. PageInv(L, last, n, next)'
    BY <2>1, PageStays
  <2> QED BY <1>1, <2>2
<1>5. ASSUME answer.kind = "next"
      PROVE  (answer.from \in Seq([id : Nat, ts : Times])
              /\ Known(Set(answer.from)) /\ Ascending(answer.from))'
  <2> PICK F : F = answer.from
    OBVIOUS
  <2>1. F \in Seq([id : Nat, ts : Times]) /\ Known(Set(F)) /\ Ascending(F)
    BY <1>3, <1>5
  <2>2. Ascending(F)'
    BY <2>1, AscendingStays
  <2> PICK T : T = Set(F)
    OBVIOUS
  <2>3. Known(T)'
    BY <2>1, KnownStays DEF Moves
  <2> QED BY <2>1, <2>2, <2>3 DEF Set
<1>6. ASSUME NoneBefore(L, n) PROVE NoneBefore(answer.lines, answer.top)'
  <2> PICK T : T = Set(L)
    OBVIOUS
  <2>1. Known(T)
    BY <1>3 DEF PageInv
  <2>2. Places(T)' = Places(T)
    BY <2>1, KnownStays DEF Moves
  <2>3. ASSUME NEW p \in Positions', Remains(p, n)' PROVE \E a \in Places(T)' : ~Below(p, a)
    <3>1. p \in Positions /\ Remains(p, n)
      BY <2>3, StillRemains
    <3> QED BY <1>6, <2>2, <3>1 DEF NoneBefore
  <2>4. NoneBefore(L, n)'
    BY <2>3 DEF NoneBefore
  <2> QED BY <2>4
<1> QED BY <1>3, <1>4, <1>5, <1>6

\* And what holds of a page that is being read.
LEMMA ReadRests ==
    ASSUME Moves, UNCHANGED <<top, kind, chunks, start, answer>>, top \in Nat, top <= written,
           NEW L, NEW c, ReadTo(L, c), Known(Last(kind, answer.lines))
    PROVE  ReadTo(L, c)'
<1> PICK n \in Nat : n = top /\ n <= written
  OBVIOUS
<1> PICK T : T = Set(L)
  OBVIOUS
<1> PICK last : last = Last(kind, answer.lines)
  OBVIOUS
<1>1. UNCHANGED <<top, kind, chunks, start, answer>>
  OBVIOUS
<1>2. /\ L \in Seq([id : Nat, ts : Times]) /\ Known(T) /\ Ascending(L) /\ After(L, last)
      /\ \A p \in Places(T) : Past(p, start) /\ ~Past(p, c)
      /\ \A p \in Positions : Remains(p, n) /\ Past(p, start) => Past(p, c) \/ At(p) \in T
      /\ \A p \in Positions, q \in Places(T) :
            Remains(p, n) /\ SegmentOf(p) = SegmentOf(q) => p[3] = q[3]
  BY DEF ReadTo
<1>3. /\ Known(T)' /\ Places(T)' = Places(T) /\ Places(last)' = Places(last)
      /\ Last(kind, answer.lines)' = last
  <2>1. Known(last)
    OBVIOUS
  <2>2. Places(last)' = Places(last)
    BY <2>1, KnownStays DEF Moves
  <2> QED BY <1>1, <1>2, <2>2, KnownStays DEF Moves
<1>4. ASSUME NEW p \in Positions', Remains(p, n)'
      PROVE  p \in Positions /\ Remains(p, n) /\ At(p)' = At(p)
  BY <1>4, StillRemains
<1>5. \A p, d : Past(p, d)' <=> Past(p, d)
  BY <1>1 DEF Past, SegmentOf
<1>6. Ascending(L)'
  BY <1>2, AscendingStays
<1>7. After(L, last)'
  BY <1>2, <1>3 DEF After
<1>8. (\A p \in Places(Set(L)) : Past(p, start) /\ ~Past(p, c))'
  <2>1. \A p : Past(p, start)' <=> Past(p, start)
    BY <1>1 DEF Past, SegmentOf
  <2> QED BY <1>2, <1>3, <1>5, <2>1
<1>9. (\A p \in Positions : Remains(p, top) /\ Past(p, start) => Past(p, c) \/ At(p) \in Set(L))'
  <2> SUFFICES ASSUME NEW p \in Positions', Remains(p, top)', Past(p, start)'
               PROVE  Past(p, c)' \/ At(p)' \in T
    OBVIOUS
  <2>1. Remains(p, n)'
    BY <1>1 DEF Remains
  <2>2. Past(p, start)
    BY <1>1 DEF Past, SegmentOf
  <2> QED BY <1>2, <1>4, <1>5, <2>1, <2>2
<1>10. (\A p \in Positions, q \in Places(Set(L)) :
           Remains(p, top) /\ SegmentOf(p) = SegmentOf(q) => p[3] = q[3])'
  <2> SUFFICES ASSUME NEW p \in Positions', NEW q \in Places(T)', Remains(p, top)',
                      SegmentOf(p) = SegmentOf(q)
               PROVE  p[3] = q[3]
    BY DEF SegmentOf
  <2>1. Remains(p, n)'
    BY <1>1 DEF Remains
  <2> QED BY <1>2, <1>3, <1>4, <2>1
<1>11. Known(Set(L))' /\ After(L, Last(kind, answer.lines))'
  BY <1>3, <1>7
<1> QED BY <1>2, <1>6, <1>8, <1>9, <1>10, <1>11 DEF ReadTo

\* The store changes: what is read, and was answered, is as it was.
LEMMA OffsetsRest ==
    ASSUME PagesInv, OffsetsInv, Moves, UNCHANGED <<request, pageVars>>
    PROVE  OffsetsInv'
<1>1. UNCHANGED <<request, pc, kind, top, chunks, start, at, scan, lines, answer>>
  BY DEF pageVars
<1> SUFFICES ASSUME request # "index" PROVE OffsetAnswerInv' /\ OffsetRequestInv'
  BY <1>1 DEF OffsetsInv
<1>2. AnswerInv /\ RequestInv /\ OffsetAnswerInv /\ OffsetRequestInv
  BY DEF PagesInv, OffsetsInv
<1>3. OffsetAnswerInv'
  BY <1>1, <1>2, AnswerRests
<1>4. ASSUME pc # "idle" PROVE top \in Nat /\ top <= written
  BY <1>2, <1>4 DEF RequestInv
<1>5. ASSUME pc \in {"dispatch", "scan", "read", "prev"} PROVE ListInv'
  <2>1. ListInv
    BY <1>2, <1>5 DEF OffsetRequestInv
  <2> PICK n \in Nat : n = top /\ n <= written
    BY <1>4, <1>5
  <2>2. ASSUME NEW p \in Positions', Remains(p, top)' PROVE ListedBefore(p, Len(chunks) + 1)'
    <3>1. Remains(p, n)'
      BY <1>1, <2>2 DEF Remains
    <3>2. p \in Positions /\ Remains(p, n)
      BY <3>1, StillRemains
    <3>3. ListedBefore(p, Len(chunks) + 1)
      BY <2>1, <3>2 DEF ListInv
    <3> QED BY <1>1, <3>3 DEF ListedBefore, SegmentOf
  <2> QED BY <1>1, <2>1, <2>2 DEF ListInv
<1>6. ASSUME pc = "read" PROVE StartInv' /\ ReadTo(lines, at)'
  <2>1. StartInv /\ ReadTo(lines, at) /\ Known(Last(kind, answer.lines))
    BY <1>2, <1>6, LastKnown DEF OffsetRequestInv
  <2>2. ReadTo(lines, at)'
    <3> PICK L : L = lines
      OBVIOUS
    <3> PICK c : c = at
      OBVIOUS
    <3>1. ReadTo(L, c)'
      BY <1>1, <1>4, <1>6, <2>1, ReadRests
    <3> QED BY <1>1, <3>1
  <2>3. Places(Last(kind, answer.lines))' = Places(Last(kind, answer.lines))
    <3> PICK last : last = Last(kind, answer.lines)
      OBVIOUS
    <3>1. Known(last)
      BY <2>1
    <3>2. Places(last)' = Places(last)
      BY <3>1, KnownStays DEF Moves
    <3>3. Last(kind, answer.lines)' = last
      BY <1>1
    <3> QED BY <3>2, <3>3
  <2> QED BY <1>1, <2>1, <2>2, <2>3 DEF StartInv, SegmentOf
<1>7. ASSUME pc = "prev" PROVE PageInv(lines, Last(kind, answer.lines), top, at)'
  <2> PICK L : L = lines
    OBVIOUS
  <2> PICK n \in Nat : n = top /\ n <= written
    BY <1>4, <1>7
  <2> PICK last : last = Last(kind, answer.lines)
    OBVIOUS
  <2> PICK next : next = at
    OBVIOUS
  <2>1. PageInv(L, last, n, next)
    BY <1>2, <1>7 DEF OffsetRequestInv
  <2>2. PageInv(L, last, n, next)'
    BY <2>1, PageStays
  <2>3. Last(kind, answer.lines)' = last
    BY <1>1
  <2> QED BY <1>1, <2>2, <2>3
<1> QED BY <1>1, <1>2, <1>3, <1>5, <1>6, <1>7 DEF OffsetRequestInv

-----------------------------------------------------------------------------
(* A file is read. *)

Singles == {<<i>> : i \in Int}

\* Numbers are ordered as tuples of one.
LEMMA SinglesOrdered == Ordered(Singles)
<1>1. ASSUME NEW x \in Singles, NEW y \in Singles PROVE Below(x, y) <=> x[1] < y[1]
  <2>1. Len(x) = 1 /\ x[1] \in Int /\ y[1] \in Int
    BY DEF Singles
  <2>2. Below(x, y) <=> \E i \in 1..1 : x[i] < y[i] /\ \A j \in 1..(i - 1) : x[j] = y[j]
    BY <2>1 DEF Below
  <2>3. \A j \in 1..(1 - 1) : x[j] = y[j]
    OBVIOUS
  <2>4. 1 \in 1..1 /\ \A i \in 1..1 : i = 1
    OBVIOUS
  <2> QED BY <2>2, <2>3, <2>4, Zenon
<1>2. \A x \in Singles : x[1] \in Int /\ x = <<x[1]>>
  BY DEF Singles
<1>3. ASSUME NEW x \in Singles, NEW y \in Singles, NEW z \in Singles
      PROVE  /\ Below(x, y) \/ Below(y, x) \/ x = y
             /\ ~Below(x, x)
             /\ Below(x, y) /\ Below(y, z) => Below(x, z)
  <2>1. /\ Below(x, y) <=> x[1] < y[1]
        /\ Below(y, x) <=> y[1] < x[1]
        /\ Below(y, z) <=> y[1] < z[1]
        /\ Below(x, z) <=> x[1] < z[1]
        /\ Below(x, x) <=> x[1] < x[1]
    BY <1>1
  <2>2. x[1] \in Int /\ y[1] \in Int /\ z[1] \in Int
    BY <1>2
  <2>3. x[1] = y[1] => x = y
    BY <1>2
  <2> QED BY <2>1, <2>2, <2>3
<1> QED BY <1>3 DEF Ordered

\* ... and so is what is in them.
LEMMA SinglesBelow ==
    ASSUME NEW x \in Singles, NEW y \in Singles, Below(x, y)
    PROVE  x[1] < y[1]
<1>1. Len(x) = 1 /\ x[1] \in Int /\ y[1] \in Int
  BY DEF Singles
<1> QED BY <1>1 DEF Below

\* What there is to take of a file, line by line.
Takes(take, all, offset) ==
    /\ Len(take) \in Nat
    /\ \A k \in 1..Len(take) :
          take[k][1] \in DOMAIN all /\ take[k][1] > offset /\ Matches(all[take[k][1]])
    /\ \A j, k \in 1..Len(take) : j < k => take[j][1] < take[k][1]
    /\ \A i \in DOMAIN all : i > offset /\ Matches(all[i]) =>
          \E k \in 1..Len(take) : take[k][1] = i

\* InOrder as a function that increases and reaches every member.
LEMMA ListOf ==
    ASSUME NEW S, IsFiniteSet(S), Ordered(S), NEW take, take = InOrder(S)
    PROVE  \E m \in Nat :
              /\ take \in [1..m -> S]
              /\ \A i, j \in 1..m : i < j => Below(take[i], take[j])
              /\ \A x \in S : \E i \in 1..m : take[i] = x
<1>1. /\ Cardinality(S) \in Nat /\ InOrder(S) \in [1..Cardinality(S) -> S]
      /\ \A i, j \in 1..Cardinality(S) : i < j => Below(InOrder(S)[i], InOrder(S)[j])
      /\ \A x \in S : \E i \in 1..Cardinality(S) : InOrder(S)[i] = x
  BY InOrderLists, Zenon
<1> QED BY <1>1

\* ToTake lists the lines after an offset that match, in the order of the file.
LEMMA TakesInOrder ==
    ASSUME NEW all, NEW n \in Nat, DOMAIN all = 1..n, NEW offset \in Int
    PROVE  Takes(ToTake(all, offset), all, offset)
<1>1. PICK J : J = {j \in DOMAIN all : j > offset /\ Matches(all[j])}
  OBVIOUS
<1>2. PICK S : S = {<<i>> : i \in J}
  OBVIOUS
<1>3. PICK take : take = InOrder(S)
  OBVIOUS
<1>4. J \in SUBSET (1..n) /\ IsFiniteSet(J)
  <2>1. IsFiniteSet(1..n)
    <3>1. 1 \in Int /\ n \in Int
      OBVIOUS
    <3> QED BY <3>1, FS_Interval
  <2>2. J \in SUBSET (1..n)
    BY <1>1
  <2> QED BY <2>1, <2>2, FS_Subset
<1>5. IsFiniteSet(S)
  <2> DEFINE g == [i \in J |-> <<i>>]
  <2>1. g \in [J -> S] /\ \A x \in S : \E i \in J : g[i] = x
    BY <1>2
  <2> HIDE DEF g
  <2>2. g \in Surjection(J, S)
    BY <2>1 DEF Surjection
  <2> QED BY <1>4, <2>2, FS_Surjection
<1>6. S \in SUBSET Singles /\ Ordered(S)
  <2>1. S \in SUBSET Singles
    BY <1>2, <1>4 DEF Singles
  <2> QED BY <2>1, SinglesOrdered DEF Ordered
<1>7. PICK m \in Nat :
          /\ take \in [1..m -> S]
          /\ \A i, j \in 1..m : i < j => Below(take[i], take[j])
          /\ \A x \in S : \E i \in 1..m : take[i] = x
  BY <1>3, <1>5, <1>6, ListOf, SMTT(30)
<1>8. Len(take) = m
  BY <1>7, FunctionSequence
<1>9. ASSUME NEW k \in 1..m PROVE take[k] \in S /\ take[k][1] \in J
  <2>1. take[k] \in S
    BY <1>7
  <2>2. PICK i \in J : take[k] = <<i>>
    BY <1>2, <2>1
  <2> QED BY <2>1, <2>2
<1>10. ASSUME NEW j \in 1..m, NEW k \in 1..m, j < k PROVE take[j][1] < take[k][1]
  <2>1. take[j] \in Singles /\ take[k] \in Singles /\ Below(take[j], take[k])
    BY <1>6, <1>7, <1>9, <1>10
  <2> QED BY <2>1, SinglesBelow
<1>11. ASSUME NEW i \in J PROVE \E k \in 1..m : take[k][1] = i
  <2>1. <<i>> \in S /\ <<i>>[1] = i
    BY <1>2
  <2>2. PICK k \in 1..m : take[k] = <<i>>
    BY <1>7, <2>1
  <2> QED BY <2>1, <2>2, Zenon
<1>12. Takes(take, all, offset)
  BY <1>1, <1>7, <1>8, <1>9, <1>10, <1>11 DEF Takes
<1>13. ToTake(all, offset) = take
  BY <1>1, <1>2, <1>3 DEF ToTake
<1> QED BY <1>12, <1>13

\* A line of the file that is stored has its place.
LEMMA PlaceIn ==
    ASSUME StoreInv, LinesInv, FilesInv, NEW s \in DOMAIN seg, NEW i \in DOMAIN Content(s)
    PROVE  \E p \in Positions : /\ SegmentOf(p) = s /\ p[3] = seg[s] /\ p[4] = i
                                /\ At(p) = Content(s)[i]
<1> PICK f : f = <<s, seg[s]>>
  OBVIOUS
<1>1. f \in DOMAIN data /\ Content(s) = data[f] /\ f[1] = s /\ f[2] = seg[s]
  BY DEF StoreInv, Content
<1>2. i \in 1..MaxLines
  <2>1. IsSequence(data[f]) /\ DOMAIN data[f] = 1..Len(data[f]) /\ Len(data[f]) \in Nat
    BY <1>1, LengthOf DEF StoreInv
  <2>2. i <= written /\ i \in Nat /\ i >= 1
    BY <1>1, <2>1 DEF FilesInv
  <2>3. written <= FirstLines + changes /\ changes <= MaxChanges /\ changes \in Nat /\ written \in Nat
    BY DEF FilesInv, LinesInv, StoreInv
  <2> QED BY <2>2, <2>3, StoreAssumption DEF MaxLines
<1> PICK p : p = <<f[1][1], f[1][2], f[2], i>>
  OBVIOUS
<1>3. p \in Positions /\ At(p) = data[f][i]
  BY <1>1, <1>2, PlaceOf
<1>4. SegmentOf(p) = s
  <2>1. s \in Segments
    BY DEF StoreInv
  <2>2. s = <<s[1], s[2]>>
    BY <2>1, DayTyped
  <2> QED BY <1>1, <2>2 DEF SegmentOf
<1> QED BY <1>1, <1>3, <1>4

-----------------------------------------------------------------------------
(* Pages by offsets: where a place is, in the order of the segments listed. *)

\* A segment is a pair of numbers.
LEMMA SegmentPair == ASSUME NEW s \in Segments PROVE s \in Int \X Int
<1>1. s[1] \in Int /\ s[2] \in Nat /\ s = <<s[1], s[2]>>
  BY DayTyped
<1> QED BY <1>1

\* A segment is listed once.
LEMMA ListedOnce ==
    ASSUME ListInv, NEW i \in 1..Len(chunks), NEW j \in 1..Len(chunks), chunks[i] = chunks[j]
    PROVE  i = j
<1>1. chunks \in Seq(Segments) /\ Len(chunks) \in Nat
  BY DEF ListInv
<1>2. chunks[i] \in Segments
  BY <1>1
<1>3. chunks[i] \in Int \X Int
  BY <1>2, SegmentPair
<1>4. ~Below(chunks[i], chunks[i])
  BY <1>3, PairsOrdered DEF Ordered
<1>5. ~(i < j) /\ ~(j < i)
  BY <1>4 DEF ListInv
<1> QED BY <1>1, <1>5

\* Whether a place is past a point of the list, by the number of its segment there.
LEMMA PastIs ==
    ASSUME ListInv, NEW p, NEW k \in 1..Len(chunks), chunks[k] = SegmentOf(p), NEW c
    PROVE  Past(p, c) <=> k > c[1] \/ (k = c[1] /\ p[4] > c[2])
<1>1. \A j \in 1..Len(chunks) : chunks[j] = SegmentOf(p) => j = k
  BY ListedOnce
<1> QED BY <1>1 DEF Past

\* A place in a segment listed before is before, ...
LEMMA SegmentsBelow ==
    ASSUME StoreInv, LinesInv, ListInv, NEW p \in Positions, NEW q \in Positions,
           NEW i \in 1..Len(chunks), NEW j \in 1..Len(chunks),
           chunks[i] = SegmentOf(p), chunks[j] = SegmentOf(q), i < j
    PROVE  Below(p, q)
<1>1. Below(SegmentOf(p), SegmentOf(q))
  <2>1. Below(chunks[i], chunks[j])
    BY DEF ListInv
  <2> QED BY <2>1, Zenon
<1>2. p \in Fours /\ q \in Fours
  BY PlaceHas
<1>3. p[1] < q[1] \/ (p[1] = q[1] /\ p[2] < q[2])
  <2> PICK x : x = SegmentOf(p)
    OBVIOUS
  <2> PICK y : y = SegmentOf(q)
    OBVIOUS
  <2>1. x \in Int \X Int /\ y \in Int \X Int /\ x[1] = p[1] /\ x[2] = p[2] /\ y[1] = q[1] /\ y[2] = q[2]
    BY <1>2 DEF Fours, SegmentOf
  <2>2. Below(x, y)
    BY <1>1
  <2>3. x[1] < y[1] \/ (x[1] = y[1] /\ x[2] < y[2])
    BY <2>1, <2>2, BelowPairs
  <2> QED BY <2>1, <2>3
<1> QED BY <1>2, <1>3, BelowFours

\* ... and so is one in an earlier file of its name, or earlier in it.
LEMMA FilesBelow ==
    ASSUME StoreInv, LinesInv, NEW p \in Positions, NEW q \in Positions,
           SegmentOf(p) = SegmentOf(q), p[3] < q[3] \/ (p[3] = q[3] /\ p[4] < q[4])
    PROVE  Below(p, q)
<1>1. p \in Fours /\ q \in Fours
  BY PlaceHas
<1>2. p[1] = q[1] /\ p[2] = q[2]
  BY DEF SegmentOf
<1> QED BY <1>1, <1>2, BelowFours

\* A place in a file that is stored is in the last of its name.
LEMMA StoredLast ==
    ASSUME StoreInv, LinesInv, FilesInv, NEW p \in Positions, SegmentOf(p) \in DOMAIN seg
    PROVE  p[3] <= seg[SegmentOf(p)] /\ p[3] \in Nat /\ seg[SegmentOf(p)] \in Nat
<1> PICK f : f = <<SegmentOf(p), p[3]>>
  OBVIOUS
<1>1. f \in DOMAIN data /\ f[1] = SegmentOf(p) /\ f[2] = p[3] /\ p[3] \in Nat
  BY PlaceHas
<1>2. f[2] <= seg[f[1]]
  BY <1>1 DEF FilesInv
<1>3. seg[SegmentOf(p)] \in Nat
  BY DEF StoreInv
<1> QED BY <1>1, <1>2, <1>3

\* A line that remains is in a segment there is, and matches.
LEMMA RemainsIn ==
    ASSUME NEW p, NEW n, Remains(p, n)
    PROVE  /\ p \in Positions /\ SegmentOf(p) \in DOMAIN seg /\ seg[SegmentOf(p)] = p[3]
           /\ At(p).id <= n /\ Matches(At(p))
BY DEF Remains, Stored, SegmentOf

-----------------------------------------------------------------------------
(* A page by offsets is read on, in a file. *)

AtIn ==
    /\ at[1] \in 1..Len(chunks) /\ at[2] \in Int
    /\ at[1] > start[1] => at[2] = 0
    /\ at[1] = start[1] => at[2] = start[2]
    /\ at[1] >= start[1]

\* A file is read on, ...
Reading(all, take) ==
    /\ StoreInv /\ LinesInv /\ FilesInv /\ ListInv /\ StartInv /\ AtIn /\ ReadTo(lines, at)
    /\ chunks[at[1]] \in DOMAIN seg
    /\ all = Content(chunks[at[1]])
    /\ Takes(take, all, at[2])

\* ... some lines of it are added to the page, ...
Extended(page, all, take, m) == page = lines \o [k \in 1..m |-> all[take[k][1]]]

\* ... and so the reader gets to the next segment, or to the last line it took.
Gets(c, take, m) ==
    /\ m \in 0..Len(take)
    /\ c[1] \in Int /\ c[2] \in Int
    /\ \/ c[1] = at[1] + 1 /\ c[2] = 0 /\ m = Len(take)
       \/ c[1] = at[1] /\ m >= 1 /\ c[2] = take[m][1]

New(all, take, k) == all[take[k][1]]

\* A line taken from a file is in the store.
LEMMA NewIs ==
    ASSUME NEW all, NEW take, Reading(all, take), NEW k \in 1..Len(take)
    PROVE  \E q \in Positions : At(q) = New(all, take, k)
<1>1. PICK s \in DOMAIN seg : s = chunks[at[1]] /\ all = Content(s)
  BY DEF Reading
<1>2. take[k][1] \in DOMAIN Content(s)
  BY <1>1 DEF Reading, Takes
<1>3. PICK q \in Positions : At(q) = Content(s)[take[k][1]]
  BY <1>2, PlaceIn DEF Reading
<1> QED BY <1>1, <1>3 DEF New

\* ... in that file, where it was taken, after the offset.
LEMMA NewAt ==
    ASSUME NEW all, NEW take, Reading(all, take), NEW k \in 1..Len(take),
           NEW p \in Positions, At(p) = New(all, take, k)
    PROVE  /\ SegmentOf(p) = chunks[at[1]] /\ p[3] = seg[SegmentOf(p)]
           /\ p[4] = take[k][1] /\ p[4] > at[2] /\ p[4] \in Nat
<1>1. PICK s \in DOMAIN seg : s = chunks[at[1]] /\ all = Content(s)
  BY DEF Reading
<1>2. take[k][1] \in DOMAIN Content(s) /\ take[k][1] > at[2]
  BY <1>1 DEF Reading, Takes
<1>3. PICK q \in Positions : /\ SegmentOf(q) = s /\ q[3] = seg[s] /\ q[4] = take[k][1]
                             /\ At(q) = Content(s)[take[k][1]]
  BY <1>2, PlaceIn DEF Reading
<1>4. p = q
  <2>1. At(p) = At(q)
    BY <1>1, <1>3 DEF New
  <2> QED BY <2>1, OnePlace DEF Reading
<1>5. q[4] \in Nat
  BY PlaceHas DEF Reading
<1> QED BY <1>1, <1>2, <1>3, <1>4, <1>5

\* What is stored of it, after where the reader was, is there to take.
LEMMA TakenAt ==
    ASSUME NEW all, NEW take, Reading(all, take), NEW p, Remains(p, top),
           SegmentOf(p) = chunks[at[1]], p[4] > at[2]
    PROVE  \E k \in 1..Len(take) : take[k][1] = p[4] /\ At(p) = New(all, take, k)
<1>1. /\ p \in Positions /\ SegmentOf(p) \in DOMAIN seg /\ seg[SegmentOf(p)] = p[3]
      /\ Matches(At(p))
  BY RemainsIn
<1> PICK f : f = <<SegmentOf(p), p[3]>>
  OBVIOUS
<1>2. p[4] \in DOMAIN data[f] /\ At(p) = data[f][p[4]]
  BY <1>1, PlaceHas DEF Reading
<1>3. data[f] = all
  BY <1>1 DEF Reading, Content
<1>4. p[4] \in DOMAIN all /\ At(p) = all[p[4]] /\ Matches(all[p[4]])
  BY <1>1, <1>2, <1>3
<1>5. PICK k \in 1..Len(take) : take[k][1] = p[4]
  BY <1>4 DEF Reading, Takes
<1> QED BY <1>4, <1>5 DEF New

\* Each line of the page was on it, or is new.
LEMMA PageLines ==
    ASSUME NEW all, NEW take, Reading(all, take), NEW m \in 0..Len(take),
           NEW page, Extended(page, all, take, m)
    PROVE  /\ m \in Nat
           /\ \A i \in 1..Len(page) :
                 \/ i \in 1..Len(lines) /\ page[i] = lines[i]
                 \/ i - Len(lines) \in 1..m /\ page[i] = New(all, take, i - Len(lines))
<1> PICK T : T = [id : Nat, ts : Times]
  OBVIOUS
<1>1. lines \in Seq(T) /\ Len(lines) \in Nat /\ DOMAIN lines = 1..Len(lines)
  <2>1. lines \in Seq(T)
    BY DEF Reading, ReadTo
  <2> QED BY <2>1, LenProperties
<1>2. m \in Nat /\ \A k \in 1..m : k \in 1..Len(take)
  BY DEF Reading, Takes
<1>3. ASSUME NEW k \in 1..m PROVE New(all, take, k) \in T
  <2>1. PICK q \in Positions : At(q) = New(all, take, k)
    BY <1>2, NewIs
  <2> QED BY <2>1, PlaceHas DEF Reading
<1>4. PICK new : new = [k \in 1..m |-> all[take[k][1]]]
  OBVIOUS
<1>5. new \in [1..m -> T] /\ \A k \in 1..m : new[k] = New(all, take, k)
  BY <1>3, <1>4 DEF New
<1>6. new \in Seq(T) /\ Len(new) = m
  BY <1>2, <1>5, FunctionSequence
<1>7. page = lines \o new
  BY <1>4 DEF Extended
<1>8. /\ page \in Seq(T) /\ Len(page) = Len(lines) + m
      /\ \A i \in 1..Len(lines) + m :
            page[i] = IF i <= Len(lines) THEN lines[i] ELSE new[i - Len(lines)]
  <2> HIDE DEF New
  <2>1. /\ lines \o new \in Seq(T) /\ Len(lines \o new) = Len(lines) + Len(new)
        /\ \A i \in 1..Len(lines) + Len(new) :
            (lines \o new)[i] = IF i <= Len(lines) THEN lines[i] ELSE new[i - Len(lines)]
    BY <1>1, <1>6, ConcatProperties
  <2> QED BY <1>6, <1>7, <2>1
<1>9. DOMAIN page = 1..Len(page)
  BY <1>8, LenProperties
<1>10. ASSUME NEW i \in 1..Len(page)
       PROVE  \/ i \in 1..Len(lines) /\ page[i] = lines[i]
              \/ i - Len(lines) \in 1..m /\ page[i] = New(all, take, i - Len(lines))
  <2>1. i \in 1..Len(lines) + m
    BY <1>8
  <2>2. CASE i <= Len(lines)
    BY <1>1, <1>2, <1>8, <2>1, <2>2
  <2>3. CASE ~(i <= Len(lines))
    <3>1. page[i] = new[i - Len(lines)] /\ i - Len(lines) \in 1..m
      BY <1>1, <1>2, <1>8, <2>1, <2>3
    <3> QED BY <1>5, <3>1
  <2> QED BY <2>2, <2>3
<1> QED BY <1>2, <1>10

\* A line of the page is one that was on it, or one of the file.
LEMMA PageHas ==
    ASSUME NEW all, NEW take, Reading(all, take), NEW m \in 0..Len(take),
           NEW page, Extended(page, all, take, m)
    PROVE  /\ page \in Seq([id : Nat, ts : Times]) /\ Len(lines) \in Nat /\ m \in Nat
           /\ Len(page) = Len(lines) + m
           /\ \A i \in 1..Len(page) :
                 \/ i \in 1..Len(lines) /\ page[i] = lines[i]
                 \/ i - Len(lines) \in 1..m /\ page[i] = New(all, take, i - Len(lines))
           /\ \A line : line \in Set(page) <=>
                 line \in Set(lines) \/ \E k \in 1..m : line = New(all, take, k)
<1> PICK T : T = [id : Nat, ts : Times]
  OBVIOUS
<1>1. lines \in Seq(T) /\ Len(lines) \in Nat /\ DOMAIN lines = 1..Len(lines)
  <2>1. lines \in Seq(T)
    BY DEF Reading, ReadTo
  <2> QED BY <2>1, LenProperties
<1>2. m \in Nat /\ \A k \in 1..m : k \in 1..Len(take)
  BY DEF Reading, Takes
<1>3. ASSUME NEW k \in 1..m PROVE New(all, take, k) \in T
  <2>1. PICK q \in Positions : At(q) = New(all, take, k)
    BY <1>2, NewIs
  <2> QED BY <2>1, PlaceHas DEF Reading
<1>4. PICK new : new = [k \in 1..m |-> all[take[k][1]]]
  OBVIOUS
<1>5. new \in [1..m -> T] /\ \A k \in 1..m : new[k] = New(all, take, k)
  BY <1>3, <1>4 DEF New
<1>6. new \in Seq(T) /\ Len(new) = m
  BY <1>2, <1>5, FunctionSequence
<1>7. page = lines \o new
  BY <1>4 DEF Extended
<1>8. /\ page \in Seq(T) /\ Len(page) = Len(lines) + m
      /\ \A i \in 1..Len(lines) + m :
            page[i] = IF i <= Len(lines) THEN lines[i] ELSE new[i - Len(lines)]
  <2> HIDE DEF New
  <2>1. /\ lines \o new \in Seq(T) /\ Len(lines \o new) = Len(lines) + Len(new)
        /\ \A i \in 1..Len(lines) + Len(new) :
            (lines \o new)[i] = IF i <= Len(lines) THEN lines[i] ELSE new[i - Len(lines)]
    BY <1>1, <1>6, ConcatProperties
  <2> QED BY <1>6, <1>7, <2>1
<1>9. DOMAIN page = 1..Len(page)
  BY <1>8, LenProperties
<1>10. ASSUME NEW i \in 1..Len(page)
       PROVE  \/ i \in 1..Len(lines) /\ page[i] = lines[i]
              \/ i - Len(lines) \in 1..m /\ page[i] = New(all, take, i - Len(lines))
  <2>1. i \in 1..Len(lines) + m
    BY <1>8
  <2>2. CASE i <= Len(lines)
    BY <1>1, <1>2, <1>8, <2>1, <2>2
  <2>3. CASE ~(i <= Len(lines))
    <3>1. page[i] = new[i - Len(lines)] /\ i - Len(lines) \in 1..m
      BY <1>1, <1>2, <1>8, <2>1, <2>3
    <3> QED BY <1>5, <3>1
  <2> QED BY <2>2, <2>3
<1>11. ASSUME NEW line, line \in Set(page)
       PROVE  line \in Set(lines) \/ \E k \in 1..m : line = New(all, take, k)
  <2>1. PICK i \in 1..Len(page) : line = page[i]
    BY <1>9, <1>11 DEF Set
  <2> QED BY <1>1, <1>10, <2>1 DEF Set
<1>12. ASSUME NEW i \in DOMAIN lines PROVE lines[i] \in Set(page)
  <2>1. i \in 1..Len(page) /\ page[i] = lines[i]
    BY <1>1, <1>2, <1>8, SMTT(30)
  <2> QED BY <1>9, <2>1 DEF Set
<1>13. ASSUME NEW k \in 1..m PROVE New(all, take, k) \in Set(page)
  <2>1. Len(lines) + k \in 1..Len(page) /\ page[Len(lines) + k] = New(all, take, k)
    <3> PICK i : i = Len(lines) + k
      OBVIOUS
    <3>1. i \in 1..Len(lines) + m /\ ~(i <= Len(lines)) /\ i - Len(lines) = k
      BY <1>1, <1>2
    <3>2. page[i] = new[i - Len(lines)]
      BY <1>8, <3>1
    <3> QED BY <1>5, <1>8, <3>1, <3>2
  <2> QED BY <1>9, <2>1 DEF Set
<1>14. \A line : line \in Set(page) <=>
          line \in Set(lines) \/ \E k \in 1..m : line = New(all, take, k)
  BY <1>11, <1>12, <1>13 DEF Set
<1> QED BY <1>1, <1>2, <1>8, <1>10, <1>14

\* Where the lines that were on the page are: in the segments before.
LEMMA ReadBefore ==
    ASSUME NEW all, NEW take, Reading(all, take), NEW p \in Places(Set(lines))
    PROVE  \E i \in 1..Len(chunks) : chunks[i] = SegmentOf(p) /\ i < at[1]
<1>1. /\ p \in Positions /\ Past(p, start) /\ ~Past(p, at)
  BY DEF Reading, ReadTo, Places
<1>2. PICK i \in 1..Len(chunks) :
          chunks[i] = SegmentOf(p) /\ (i > start[1] \/ (i = start[1] /\ p[4] > start[2]))
  BY <1>1 DEF Past
<1>3. ~(i > at[1] \/ (i = at[1] /\ p[4] > at[2]))
  BY <1>1, <1>2 DEF Past
<1>4. p[4] \in Nat /\ p[4] >= 1
  <2>1. StoreInv /\ LinesInv
    BY DEF Reading
  <2>2. p[4] \in Nat /\ p[4] \in 1..MaxLines
    BY <1>1, <2>1, PlaceHas
  <2> QED BY <2>2
<1>5. start[1] \in Int /\ start[2] \in Int /\ at[1] \in Int /\ at[2] \in Int /\ i \in Int
  BY DEF Reading, AtIn, StartInv
<1>6. i # at[1]
  <2>1. CASE at[1] = start[1]
    <3>1. at[2] = start[2]
      BY <2>1 DEF Reading, AtIn
    <3> QED BY <1>2, <1>3, <1>5, <2>1, <3>1
  <2>2. CASE at[1] > start[1]
    <3>1. at[2] = 0
      BY <2>2 DEF Reading, AtIn
    <3> QED BY <1>3, <1>4, <3>1
  <2> QED BY <1>5, <2>1, <2>2 DEF Reading, AtIn
<1> QED BY <1>2, <1>3, <1>5, <1>6

\* The page stays in order, ...
LEMMA PageAscends ==
    ASSUME NEW all, NEW take, Reading(all, take), NEW m \in 0..Len(take),
           NEW page, Extended(page, all, take, m)
    PROVE  Ascending(page)
<1> SUFFICES ASSUME NEW i \in 1..Len(page), NEW j \in 1..Len(page), i < j,
                    NEW p \in Positions, NEW q \in Positions, At(p) = page[i], At(q) = page[j]
             PROVE  Below(p, q)
  BY DEF Ascending
<1> PICK n \in Nat : n = Len(lines)
  BY PageHas
<1>1. /\ m \in Nat /\ Len(take) \in Nat
      /\ (i \in 1..n /\ page[i] = lines[i])
            \/ (i - n \in 1..m /\ page[i] = New(all, take, i - n))
      /\ (j \in 1..n /\ page[j] = lines[j])
            \/ (j - n \in 1..m /\ page[j] = New(all, take, j - n))
  <2>1. /\ m \in Nat
        /\ \A x \in 1..Len(page) :
              \/ x \in 1..Len(lines) /\ page[x] = lines[x]
              \/ x - Len(lines) \in 1..m /\ page[x] = New(all, take, x - Len(lines))
    BY PageLines
  <2>2. Len(take) \in Nat
    BY DEF Reading, Takes
  <2> QED BY <2>1, <2>2, Zenon
<1>2. CASE i \in 1..n /\ page[i] = lines[i] /\ j \in 1..n /\ page[j] = lines[j]
  BY <1>2 DEF Reading, ReadTo, Ascending
<1>3. CASE i \in 1..n /\ page[i] = lines[i] /\ j - n \in 1..m /\ page[j] = New(all, take, j - n)
  <2>1. p \in Places(Set(lines))
    <3>1. lines[i] \in Set(lines)
      <4>1. DOMAIN lines = 1..Len(lines)
        BY LenProperties DEF Reading, ReadTo
      <4> QED BY <1>3, <4>1 DEF Set
    <3> QED BY <1>3, <3>1 DEF Places
  <2>2. PICK x \in 1..Len(chunks) : chunks[x] = SegmentOf(p) /\ x < at[1]
    BY <2>1, ReadBefore
  <2> PICK k \in 1..Len(take) : k = j - n
    BY <1>1, <1>3
  <2>3. SegmentOf(q) = chunks[at[1]]
    BY <1>3, NewAt, SMTT(30)
  <2> QED BY <2>2, <2>3, SegmentsBelow DEF Reading, AtIn
<1>4. CASE i - n \in 1..m /\ page[i] = New(all, take, i - n)
           /\ j - n \in 1..m /\ page[j] = New(all, take, j - n)
  <2> PICK k \in 1..Len(take) : k = i - n
    BY <1>1, <1>4
  <2> PICK l \in 1..Len(take) : l = j - n
    BY <1>1, <1>4
  <2>0. At(p) = New(all, take, k) /\ At(q) = New(all, take, l)
    BY <1>4
  <2>1. SegmentOf(p) = chunks[at[1]] /\ p[3] = seg[SegmentOf(p)] /\ p[4] = take[k][1]
    BY <2>0, NewAt
  <2>2. SegmentOf(q) = chunks[at[1]] /\ q[3] = seg[SegmentOf(q)] /\ q[4] = take[l][1]
    BY <2>0, NewAt
  <2>3. k < l
    BY <1>1
  <2>4. take[k][1] < take[l][1]
    BY <2>3 DEF Reading, Takes
  <2>5. p[3] = q[3] /\ p[4] < q[4] /\ SegmentOf(p) = SegmentOf(q)
    BY <2>1, <2>2, <2>4
  <2> QED BY <2>5, FilesBelow DEF Reading
<1> QED BY <1>1, <1>2, <1>3, <1>4

\* ... and after the line it is to follow.
LEMMA PageFollows ==
    ASSUME NEW all, NEW take, Reading(all, take), NEW k \in 1..Len(take),
           NEW a \in Places(Last(kind, answer.lines)), NEW b \in Positions, At(b) = New(all, take, k)
    PROVE  Below(a, b)
<1>1. /\ a \in Positions /\ chunks[start[1]] = SegmentOf(a) /\ a[4] = start[2]
      /\ start[1] \in 1..Len(chunks) /\ start[2] \in Int
  BY DEF Reading, StartInv, Places
<1>2. SegmentOf(b) = chunks[at[1]] /\ b[3] = seg[SegmentOf(b)] /\ b[4] > at[2]
  BY NewAt
<1>3. at[1] \in 1..Len(chunks) /\ at[1] >= start[1]
  BY DEF Reading, AtIn
<1>4. CASE at[1] > start[1]
  BY <1>1, <1>2, <1>3, <1>4, SegmentsBelow DEF Reading
<1>5. CASE at[1] = start[1]
  <2>1. at[2] = start[2]
    BY <1>5 DEF Reading, AtIn
  <2>2. SegmentOf(a) = SegmentOf(b) /\ a[4] < b[4]
    <3>1. b[4] \in Nat
      BY PlaceHas DEF Reading
    <3> QED BY <1>1, <1>2, <1>5, <2>1, <3>1
  <2>3. a[3] <= seg[SegmentOf(a)] /\ a[3] \in Nat /\ seg[SegmentOf(a)] \in Nat
    <3>1. SegmentOf(a) \in DOMAIN seg
      BY <1>1, <1>5 DEF Reading
    <3> QED BY <1>1, <3>1, StoredLast DEF Reading
  <2>4. a[3] < b[3] \/ a[3] = b[3]
    BY <1>2, <2>2, <2>3
  <2> QED BY <1>1, <2>2, <2>4, FilesBelow DEF Reading
<1> QED BY <1>1, <1>3, <1>4, <1>5

\* The reader goes forwards: what it had not gone past, and the lines it took.
LEMMA GoesOn ==
    ASSUME NEW all, NEW take, Reading(all, take), NEW m, NEW c, Gets(c, take, m),
           NEW p \in Positions, NEW i \in 1..Len(chunks), chunks[i] = SegmentOf(p)
    PROVE  /\ Past(p, c) => Past(p, at)
           /\ Past(p, at) /\ ~Past(p, c) => i = at[1] /\ p[4] > at[2] /\ (p[4] <= c[2] \/ m = Len(take))
           /\ i = at[1] /\ (p[4] <= c[2] \/ c[1] > at[1]) => ~Past(p, c)
<1>1. /\ at[1] \in Int /\ at[2] \in Int /\ i \in Int /\ c[1] \in Int /\ c[2] \in Int
  BY DEF Reading, AtIn, Gets
<1>2. p[4] \in Nat /\ p[4] >= 1
  <2>1. StoreInv /\ LinesInv
    BY DEF Reading
  <2>2. p[4] \in Nat /\ p[4] \in 1..MaxLines
    BY <2>1, PlaceHas
  <2> QED BY <2>2
<1>3. /\ Past(p, c) <=> i > c[1] \/ (i = c[1] /\ p[4] > c[2])
      /\ Past(p, at) <=> i > at[1] \/ (i = at[1] /\ p[4] > at[2])
  BY PastIs DEF Reading
<1>4. CASE c[1] = at[1] + 1 /\ c[2] = 0 /\ m = Len(take)
  <2>1. Past(p, c) => i > at[1]
    <3>1. Past(p, c) => i >= c[1]
      BY <1>1, <1>3
    <3> QED BY <1>1, <1>4, <3>1
  <2>2. Past(p, at) /\ ~Past(p, c) => i = at[1] /\ p[4] > at[2]
    BY <1>1, <1>2, <1>3, <1>4
  <2>3. i = at[1] => ~Past(p, c)
    BY <1>1, <1>3, <1>4
  <2> QED BY <1>3, <1>4, <2>1, <2>2, <2>3
<1>5. CASE c[1] = at[1] /\ m >= 1 /\ c[2] = take[m][1]
  <2>1. m \in 1..Len(take)
    BY <1>5 DEF Gets, Reading, Takes
  <2>2. c[2] > at[2]
    BY <1>5, <2>1 DEF Reading, Takes
  <2> QED BY <1>1, <1>2, <1>3, <1>5, <2>2
<1> QED BY <1>4, <1>5 DEF Gets

\* ... and between the page's start and where the reader then is.
LEMMA NewGone ==
    ASSUME NEW all, NEW take, Reading(all, take), NEW m, NEW c, Gets(c, take, m),
           NEW k \in 1..m, NEW p \in Positions, At(p) = New(all, take, k)
    PROVE  Past(p, start) /\ ~Past(p, c)
<1>1. m \in 0..Len(take) /\ Len(take) \in Nat
  BY DEF Gets, Reading, Takes
<1>2. k \in 1..Len(take)
  BY <1>1
<1>3. SegmentOf(p) = chunks[at[1]] /\ p[4] = take[k][1] /\ p[4] > at[2] /\ p[4] \in Nat
  BY <1>2, NewAt
<1>4. at[1] \in 1..Len(chunks) /\ at[1] >= start[1] /\ (at[1] = start[1] => at[2] = start[2])
  BY DEF Reading, AtIn
<1>5. Past(p, start)
  <2>1. start[1] \in 1..Len(chunks)
    BY DEF Reading, StartInv
  <2>2. at[1] > start[1] \/ (at[1] = start[1] /\ p[4] > start[2])
    BY <1>3, <1>4, <2>1
  <2> QED BY <1>3, <1>4, <2>2 DEF Past
<1>6. p[4] <= c[2] \/ c[1] > at[1]
  <2>1. CASE c[1] = at[1] + 1
    BY <1>4, <2>1
  <2>2. CASE c[1] = at[1] /\ m >= 1 /\ c[2] = take[m][1]
    <3>1. m \in 1..Len(take) /\ m \in Nat /\ (k < m \/ k = m)
      BY <1>1, <2>2
    <3>2. k < m => take[k][1] < take[m][1]
      BY <1>2, <3>1 DEF Reading, Takes
    <3>3. c[2] \in Int
      BY DEF Gets
    <3> QED BY <1>3, <2>2, <3>1, <3>2, <3>3
  <2> QED BY <2>1, <2>2 DEF Gets
<1>7. ~Past(p, c)
  <2> PICK i \in 1..Len(chunks) : i = at[1]
    BY <1>4
  <2>1. chunks[i] = SegmentOf(p)
    BY <1>3
  <2> QED BY <1>6, <2>1, GoesOn
<1> QED BY <1>5, <1>7

\* What is left out of the page so far is ahead.
LEMMA ReadOn ==
    ASSUME NEW all, NEW take, Reading(all, take), NEW m, NEW c, Gets(c, take, m),
           NEW page, Extended(page, all, take, m)
    PROVE  ReadTo(page, c)
<1>1. m \in 0..Len(take) /\ Len(take) \in Nat
  BY DEF Gets, Reading, Takes
<1>2. \A k \in 1..m : k \in 1..Len(take)
  BY <1>1
<1>3. /\ page \in Seq([id : Nat, ts : Times])
      /\ \A line : line \in Set(page) <=>
            line \in Set(lines) \/ \E k \in 1..m : line = New(all, take, k)
  <2>1. page \in Seq([id : Nat, ts : Times])
    BY <1>1, PageHas
  <2>2. \A line : line \in Set(page) <=>
            line \in Set(lines) \/ \E k \in 1..m : line = New(all, take, k)
    BY <1>1, PageHas
  <2> QED BY <2>1, <2>2
<1>4. /\ Known(Set(lines)) /\ After(lines, Last(kind, answer.lines))
      /\ \A p \in Places(Set(lines)) : Past(p, start) /\ ~Past(p, at)
      /\ \A p \in Positions : Remains(p, top) /\ Past(p, start) => Past(p, at) \/ At(p) \in Set(lines)
      /\ \A p \in Positions, q \in Places(Set(lines)) :
            Remains(p, top) /\ SegmentOf(p) = SegmentOf(q) => p[3] = q[3]
  BY DEF Reading, ReadTo
<1>5. ASSUME NEW p \in Places(Set(page))
      PROVE  /\ p \in Positions
             /\ p \in Places(Set(lines)) \/ \E k \in 1..m : At(p) = New(all, take, k)
  BY <1>3 DEF Places
<1>6. Known(Set(page))
  <2>1. ASSUME NEW line \in Set(page) PROVE \E p \in Positions : At(p) = line
    <3>1. CASE line \in Set(lines)
      BY <1>4, <3>1 DEF Known
    <3>2. CASE \E k \in 1..m : line = New(all, take, k)
      BY <1>2, <3>2, NewIs
    <3> QED BY <1>3, <3>1, <3>2
  <2> QED BY <2>1 DEF Known
<1>7. Ascending(page)
  BY <1>1, PageAscends
<1>8. After(page, Last(kind, answer.lines))
  <2>1. ASSUME NEW a \in Places(Last(kind, answer.lines)), NEW b \in Places(Set(page))
        PROVE  Below(a, b)
    <3>1. CASE b \in Places(Set(lines))
      BY <1>4, <3>1 DEF After
    <3>2. CASE \E k \in 1..m : At(b) = New(all, take, k)
      <4>1. b \in Positions
        BY <1>5
      <4> QED BY <1>2, <3>2, <4>1, PageFollows
    <3> QED BY <1>5, <3>1, <3>2
  <2> QED BY <2>1 DEF After
<1>9. ASSUME NEW p \in Places(Set(page)) PROVE Past(p, start) /\ ~Past(p, c)
  <2>1. CASE p \in Places(Set(lines))
    <3>1. p \in Positions /\ Past(p, start) /\ ~Past(p, at)
      BY <1>4, <1>5, <2>1
    <3>2. PICK i \in 1..Len(chunks) : chunks[i] = SegmentOf(p)
      BY <3>1 DEF Past
    <3> QED BY <3>1, <3>2, GoesOn
  <2>2. CASE \E k \in 1..m : At(p) = New(all, take, k)
    BY <1>5, <2>2, NewGone
  <2> QED BY <1>5, <2>1, <2>2
<1>10. ASSUME NEW p \in Positions, Remains(p, top), Past(p, start), ~Past(p, c)
       PROVE  At(p) \in Set(page)
  <2>1. CASE At(p) \in Set(lines)
    BY <1>3, <2>1
  <2>2. CASE Past(p, at)
    <3>1. PICK i \in 1..Len(chunks) : chunks[i] = SegmentOf(p)
      BY <1>10 DEF Past
    <3>2. i = at[1] /\ p[4] > at[2] /\ (p[4] <= c[2] \/ m = Len(take))
      BY <1>10, <2>2, <3>1, GoesOn
    <3>3. PICK k \in 1..Len(take) : take[k][1] = p[4] /\ At(p) = New(all, take, k)
      BY <1>10, <3>1, <3>2, TakenAt
    <3>4. k \in 1..m
      <4>1. CASE m = Len(take)
        BY <4>1
      <4>2. CASE m >= 1 /\ c[2] = take[m][1] /\ p[4] <= c[2]
        <5>1. m \in 1..Len(take) /\ m \in Nat
          BY <1>1, <4>2
        <5>2. m < k => take[m][1] < take[k][1]
          BY <5>1 DEF Reading, Takes
        <5>3. p[4] \in Nat /\ c[2] \in Int
          BY PlaceHas DEF Reading, Gets
        <5>4. ~(m < k)
          BY <3>3, <4>2, <5>2, <5>3
        <5> QED BY <5>1, <5>4
      <4> QED BY <3>2, <4>1, <4>2 DEF Gets
    <3> QED BY <1>3, <3>3, <3>4
  <2> QED BY <1>4, <1>10, <2>1, <2>2
<1>11. ASSUME NEW p \in Positions, NEW q \in Places(Set(page)), Remains(p, top),
              SegmentOf(p) = SegmentOf(q)
       PROVE  p[3] = q[3]
  <2>1. CASE q \in Places(Set(lines))
    BY <1>4, <1>11, <2>1
  <2>2. CASE \E k \in 1..m : At(q) = New(all, take, k)
    <3>1. q[3] = seg[SegmentOf(q)]
      BY <1>2, <1>5, <2>2, NewAt
    <3>2. seg[SegmentOf(p)] = p[3]
      BY <1>11, RemainsIn
    <3> QED BY <1>11, <3>1, <3>2
  <2> QED BY <1>5, <2>1, <2>2
<1> QED BY <1>3, <1>6, <1>7, <1>8, <1>9, <1>10, <1>11 DEF ReadTo

-----------------------------------------------------------------------------
(* A page by offsets is complete. *)

\* The order of places is that of their segments, ...
LEMMA BelowListed ==
    ASSUME StoreInv, LinesInv, ListInv, NEW p \in Positions, NEW q \in Positions,
           NEW i \in 1..Len(chunks), NEW j \in 1..Len(chunks),
           chunks[i] = SegmentOf(p), chunks[j] = SegmentOf(q), Below(p, q)
    PROVE  i <= j
<1>1. p \in Fours /\ q \in Fours
  BY PlaceHas
<1>2. ~Below(q, p)
  BY <1>1, FoursOrdered DEF Ordered
<1>3. ~(j < i)
  BY <1>2, SegmentsBelow
<1> QED BY <1>3 DEF ListInv

\* ... and in a file that of its lines.
LEMMA BelowIn ==
    ASSUME StoreInv, LinesInv, NEW p \in Positions, NEW q \in Positions,
           SegmentOf(p) = SegmentOf(q), p[3] = q[3], Below(p, q)
    PROVE  p[4] < q[4]
<1>1. p \in Fours /\ q \in Fours
  BY PlaceHas
<1>2. p[1] = q[1] /\ p[2] = q[2]
  BY DEF SegmentOf
<1>3. /\ p[1] \in Int /\ p[2] \in Int /\ p[3] \in Int
      /\ q[1] \in Int /\ q[2] \in Int /\ q[3] \in Int
  BY <1>1 DEF Fours
<1> QED BY <1>1, <1>2, <1>3, BelowFours

\* A page read up to a place.
ReadUp(page, c) ==
    /\ StoreInv /\ LinesInv /\ FilesInv /\ ListInv /\ StartInv /\ ReadTo(page, c)
    /\ c[1] \in Int /\ c[2] \in Int

\* A line on the page is between the page's start and where the reader is.
LEMMA ReadIs ==
    ASSUME NEW page, NEW c, ReadUp(page, c), NEW a \in Places(Set(page))
    PROVE  a \in Positions /\ At(a) \in Set(page) /\ Past(a, start) /\ ~Past(a, c)
BY DEF ReadUp, ReadTo, Places

\* A line that was there at the request is in a segment that was listed.
LEMMA IsListed ==
    ASSUME ListInv, NEW p, Remains(p, top)
    PROVE  \E i \in 1..Len(chunks) : chunks[i] = SegmentOf(p)
<1>1. p \in Positions
  BY RemainsIn
<1> QED BY <1>1 DEF ListInv, ListedBefore

\* What is after a line of the page in its file, or after it at all if its segment was
\* not made again, is past the start of the page.
LEMMA PastStart ==
    ASSUME NEW page, NEW c, ReadUp(page, c), NEW p, Remains(p, top),
           NEW a \in Places(Set(page) \cup Last(kind, answer.lines)), Below(a, p),
           p[3] = 1 \/ a \in Places(Set(page))
    PROVE  Past(p, start)
<1>1. p \in Positions /\ a \in Positions
  BY RemainsIn DEF Places
<1>2. PICK i \in 1..Len(chunks) : chunks[i] = SegmentOf(p)
  BY IsListed DEF ReadUp
<1>3. start[1] \in Int /\ start[2] \in Int /\ start[1] \in 1..Len(chunks)
  BY DEF ReadUp, StartInv
<1>4. PICK j \in 1..Len(chunks) :
          /\ chunks[j] = SegmentOf(a)
          /\ j > start[1] \/ (j = start[1] /\ a[4] >= start[2])
  <2>1. CASE a \in Places(Set(page))
    <3>1. Past(a, start)
      BY <2>1, ReadIs
    <3>2. PICK j \in 1..Len(chunks) :
              chunks[j] = SegmentOf(a) /\ (j > start[1] \/ (j = start[1] /\ a[4] > start[2]))
      BY <3>1 DEF Past
    <3>3. a[4] \in Nat
      BY <1>1, PlaceHas DEF ReadUp
    <3> QED BY <1>3, <3>2, <3>3
  <2>2. CASE a \notin Places(Set(page))
    <3>1. a \in Places(Last(kind, answer.lines))
      BY <2>2 DEF Places
    <3>2. chunks[start[1]] = SegmentOf(a) /\ a[4] = start[2]
      BY <3>1 DEF ReadUp, StartInv
    <3> QED BY <1>3, <3>2
  <2> QED BY <2>1, <2>2
<1>5. j <= i
  BY <1>1, <1>2, <1>4, BelowListed DEF ReadUp
<1>6. CASE j < i
  <2>1. i > start[1]
    BY <1>3, <1>4, <1>6
  <2> QED BY <1>2, <2>1 DEF Past
<1>7. CASE j = i
  <2>1. SegmentOf(a) = SegmentOf(p)
    BY <1>2, <1>4, <1>7
  <2>2. a[3] = p[3]
    <3>1. CASE a \in Places(Set(page))
      BY <1>1, <2>1, <3>1 DEF ReadUp, ReadTo
    <3>2. CASE p[3] = 1
      <4>1. SegmentOf(a) \in DOMAIN seg /\ seg[SegmentOf(a)] = p[3]
        BY <2>1, RemainsIn
      <4>2. a[3] <= seg[SegmentOf(a)] /\ a[3] \in Nat
        BY <1>1, <4>1, StoredLast DEF ReadUp
      <4>3. a[3] >= 1
        <5> PICK f : f = <<SegmentOf(a), a[3]>>
          OBVIOUS
        <5>1. f \in DOMAIN data /\ f[2] = a[3]
          BY <1>1, PlaceHas DEF ReadUp
        <5> QED BY <5>1 DEF ReadUp, LinesInv
      <4> QED BY <3>2, <4>1, <4>2, <4>3
    <3> QED BY <3>1, <3>2
  <2>3. a[4] < p[4]
    BY <1>1, <2>1, <2>2, BelowIn DEF ReadUp
  <2>4. a[4] \in Nat /\ p[4] \in Nat
    BY <1>1, PlaceHas DEF ReadUp
  <2>5. i > start[1] \/ (i = start[1] /\ p[4] > start[2])
    BY <1>3, <1>4, <1>7, <2>3, <2>4
  <2> QED BY <1>2, <2>5 DEF Past
<1> QED BY <1>5, <1>6, <1>7

\* What is before a line of the page, if its segment was not made again or has that
\* line, is not past its end.
LEMMA NotPastEnd ==
    ASSUME NEW page, NEW c, ReadUp(page, c), NEW p, Remains(p, top),
           NEW b \in Places(Set(page)), Below(p, b)
    PROVE  ~Past(p, c)
<1>1. p \in Positions /\ b \in Positions /\ Past(b, start) /\ ~Past(b, c)
  BY RemainsIn, ReadIs
<1>2. PICK i \in 1..Len(chunks) : chunks[i] = SegmentOf(p)
  BY IsListed DEF ReadUp
<1>3. PICK j \in 1..Len(chunks) : chunks[j] = SegmentOf(b)
  BY <1>1 DEF Past
<1>4. /\ Past(p, c) <=> i > c[1] \/ (i = c[1] /\ p[4] > c[2])
      /\ Past(b, c) <=> j > c[1] \/ (j = c[1] /\ b[4] > c[2])
  BY <1>2, <1>3, PastIs DEF ReadUp
<1>5. i <= j
  BY <1>1, <1>2, <1>3, BelowListed DEF ReadUp
<1>6. c[1] \in Int /\ c[2] \in Int /\ p[4] \in Nat /\ b[4] \in Nat /\ i \in Int /\ j \in Int
  <2>1. StoreInv /\ LinesInv /\ c[1] \in Int /\ c[2] \in Int
    BY DEF ReadUp
  <2>2. p[4] \in Nat /\ b[4] \in Nat
    BY <1>1, <2>1, PlaceHas
  <2> QED BY <2>1, <2>2
<1>7. CASE i < j
  BY <1>1, <1>4, <1>6, <1>7
<1>8. CASE i = j
  <2>1. SegmentOf(p) = SegmentOf(b)
    BY <1>2, <1>3, <1>8
  <2>2. p[3] = b[3]
    BY <1>1, <2>1 DEF ReadUp, ReadTo
  <2>3. p[4] < b[4]
    BY <1>1, <2>1, <2>2, BelowIn DEF ReadUp
  <2> QED BY <1>1, <1>4, <1>6, <1>8, <2>3
<1> QED BY <1>5, <1>6, <1>7, <1>8

\* So the page leaves out no line between two of its own, or after the one it follows.
LEMMA PageUnbroken ==
    ASSUME NEW page, NEW c, ReadUp(page, c)
    PROVE  Unbroken(page, Last(kind, answer.lines), top)
<1> SUFFICES ASSUME NEW p \in Positions, Remains(p, top), p[3] = 1, At(p) \notin Set(page),
                    NEW a \in Places(Set(page) \cup Last(kind, answer.lines)),
                    NEW b \in Places(Set(page)), Below(a, p), Below(p, b)
             PROVE  FALSE
  BY DEF Unbroken
<1>1. Past(p, start)
  BY PastStart
<1>2. ~Past(p, c)
  BY NotPastEnd
<1> QED BY <1>1, <1>2 DEF ReadUp, ReadTo

\* Nothing is left to read: there is nothing after the page.
LEMMA PageIsLast ==
    ASSUME NEW page, NEW c, ReadUp(page, c), \A p \in Positions : Remains(p, top) => ~Past(p, c)
    PROVE  NoneAfter(page, Last(kind, answer.lines), top)
<1> SUFFICES ASSUME NEW p \in Positions, Remains(p, top), page # <<>> \/ p[3] = 1,
                    Places(Set(page) \cup Last(kind, answer.lines)) # {},
                    \A a \in Places(Set(page) \cup Last(kind, answer.lines)) : Below(a, p)
             PROVE  FALSE
  BY DEF NoneAfter
<1>1. ASSUME Past(p, start), page # <<>> PROVE FALSE
  <2>1. At(p) \in Set(page)
    BY <1>1 DEF ReadUp, ReadTo
  <2>2. p \in Places(Set(page) \cup Last(kind, answer.lines))
    BY <2>1 DEF Places
  <2>3. ~Below(p, p)
    <3>1. p \in Fours
      BY PlaceHas DEF ReadUp
    <3> QED BY <3>1, FoursOrdered DEF Ordered
  <2> QED BY <2>2, <2>3
<1>2. CASE page # <<>>
  <2>1. PICK a : a \in Places(Set(page))
    <3>1. page[1] \in Set(page)
      <4>1. Len(page) \in Nat /\ Len(page) # 0 /\ DOMAIN page = 1..Len(page)
        BY <1>2, LenProperties, EmptySeq DEF ReadUp, ReadTo
      <4> QED BY <4>1 DEF Set
    <3> QED BY <3>1 DEF ReadUp, ReadTo, Known, Places
  <2>2. a \in Places(Set(page) \cup Last(kind, answer.lines))
    BY <2>1 DEF Places
  <2>3. Past(p, start)
    BY <2>1, <2>2, PastStart
  <2> QED BY <1>1, <1>2, <2>3
<1>3. CASE page = <<>>
  <2>1. PICK a : a \in Places(Set(page) \cup Last(kind, answer.lines))
    OBVIOUS
  <2>2. Past(p, start)
    BY <1>3, <2>1, PastStart
  <2>3. At(p) \in Set(page)
    BY <2>2 DEF ReadUp, ReadTo
  <2> QED BY <1>3, <2>3 DEF Set
<1> QED BY <1>2, <1>3

\* It was read from the first line on: there is nothing before the page.
LEMMA PageIsFirst ==
    ASSUME NEW page, NEW c, ReadUp(page, c), start = <<1, 0>>,
           page # <<>> \/ \A p \in Positions : Remains(p, top) => ~Past(p, c)
    PROVE  NoneBefore(page, top)
<1> SUFFICES ASSUME NEW p \in Positions, Remains(p, top),
                    \A a \in Places(Set(page)) : Below(p, a)
             PROVE  FALSE
  BY DEF NoneBefore
<1>1. PICK i \in 1..Len(chunks) : chunks[i] = SegmentOf(p)
  BY IsListed DEF ReadUp
<1>2. Past(p, start)
  <2>1. p[4] \in Nat /\ p[4] >= 1
    <3>1. StoreInv /\ LinesInv
      BY DEF ReadUp
    <3>2. p[4] \in Nat /\ p[4] \in 1..MaxLines
      BY <3>1, PlaceHas
    <3> QED BY <3>2
  <2>2. i > start[1] \/ (i = start[1] /\ p[4] > start[2])
    BY <1>1, <2>1
  <2> QED BY <1>1, <2>2 DEF Past
<1>3. ~Past(p, c)
  <2>1. CASE page # <<>>
    <3>1. PICK a : a \in Places(Set(page))
      <4>1. page[1] \in Set(page)
        <5>1. Len(page) \in Nat /\ Len(page) # 0 /\ DOMAIN page = 1..Len(page)
          BY <2>1, LenProperties, EmptySeq DEF ReadUp, ReadTo
        <5> QED BY <5>1 DEF Set
      <4> QED BY <4>1 DEF ReadUp, ReadTo, Known, Places
    <3> QED BY <3>1, NotPastEnd
  <2> QED BY <2>1
<1>4. p \in Places(Set(page))
  BY <1>2, <1>3 DEF ReadUp, ReadTo, Places
<1>5. ~Below(p, p)
  <2>1. p \in Fours
    BY PlaceHas DEF ReadUp
  <2> QED BY <2>1, FoursOrdered DEF Ordered
<1> QED BY <1>4, <1>5

-----------------------------------------------------------------------------
(* The steps of a request by offsets. *)

\* A step that leaves the store as it is is one that only adds to it.
LEMMA StandsStill ==
    ASSUME StoreInv, LinesInv, UNCHANGED <<storeVars, readVars>>
    PROVE  Moves
<1>1. UNCHANGED <<seg, data, written, changes, span>>
  BY DEF storeVars, readVars
<1>2. StoreInv' /\ LinesInv'
  <2>1. \A s : FilesNamed(s)' = FilesNamed(s)
    BY <1>1 DEF FilesNamed
  <2> QED BY <1>1, <2>1, StoreStays DEF LinesInv, storeVars
<1>3. Grows
  BY <1>1 DEF Grows, StoreInv
<1>4. DOMAIN seg' \ DOMAIN seg = {}
  BY <1>1
<1> QED BY <1>1, <1>2, <1>3, <1>4 DEF Moves

\* The list stays complete for the lines there were at the request.
LEMMA ListStays ==
    ASSUME Moves, UNCHANGED <<top, chunks>>, top \in Nat, top <= written, ListInv
    PROVE  ListInv'
<1> PICK n \in Nat : n = top /\ n <= written
  OBVIOUS
<1>1. ASSUME NEW p \in Positions', Remains(p, top)' PROVE ListedBefore(p, Len(chunks) + 1)'
  <2>1. Remains(p, n)'
    BY <1>1 DEF Remains
  <2>2. p \in Positions /\ Remains(p, n)
    BY <2>1, StillRemains
  <2>3. ListedBefore(p, Len(chunks) + 1)
    BY <2>2 DEF ListInv
  <2> QED BY <2>3 DEF ListedBefore, SegmentOf
<1> QED BY <1>1 DEF ListInv

\* The page's start stays right.
LEMMA StartStays ==
    ASSUME Moves, UNCHANGED <<kind, chunks, start, answer>>, StartInv, Known(Last(kind, answer.lines))
    PROVE  StartInv'
<1>1. Places(Last(kind, answer.lines))' = Places(Last(kind, answer.lines))
  <2> PICK last : last = Last(kind, answer.lines)
    OBVIOUS
  <2>1. Known(last)
    OBVIOUS
  <2>2. Places(last)' = Places(last)
    BY <2>1, KnownStays DEF Moves
  <2>3. Last(kind, answer.lines)' = last
    OBVIOUS
  <2> QED BY <2>2, <2>3
<1> QED BY <1>1 DEF StartInv, SegmentOf

\* The page, once read, stays right.
LEMMA PageStaysOf ==
    ASSUME Moves, UNCHANGED <<kind, top, answer>>, top \in Nat, top <= written,
           NEW L, NEW next, PageInv(L, Last(kind, answer.lines), top, next)
    PROVE  PageInv(L, Last(kind, answer.lines), top, next)'
<1> PICK n \in Nat : n = top /\ n <= written
  OBVIOUS
<1> PICK last : last = Last(kind, answer.lines)
  OBVIOUS
<1>1. PageInv(L, last, n, next)'
  BY PageStays
<1>2. Last(kind, answer.lines)' = last /\ top' = n
  OBVIOUS
<1> QED BY <1>1, <1>2

\* Where a request stands.
Asking ==
    /\ StoreInv /\ LinesInv /\ FilesInv /\ AnswerInv /\ RequestInv
    /\ OffsetAnswerInv /\ OffsetRequestInv
    /\ Moves

\* A page by offsets is answered as it was read.
LEMMA OffsetsAnswered ==
    ASSUME Asking, pc \in {"scan", "read", "prev"},
           NEW page, NEW next, NEW prev, Answer(FALSE, page, next, prev),
           PageInv(page, Last(kind, answer.lines), top, next),
           prev = None => NoneBefore(page, top), prev # None => prev[3] \in Int
    PROVE  OffsetAnswerInv' /\ OffsetRequestInv'
<1> PICK k : k = kind
  OBVIOUS
<1> PICK n \in Nat : n = top /\ n <= written
  BY DEF Asking, RequestInv
<1> PICK F : F = answer.lines
  OBVIOUS
<1>1. /\ answer' = [kind |-> k, merged |-> FALSE, lines |-> page, next |-> next,
                    prev |-> prev, top |-> n, from |-> F]
      /\ pc' = "idle" /\ lines' = <<>>
  BY DEF Answer, Idle
<1>2. OffsetRequestInv'
  BY <1>1 DEF OffsetRequestInv
<1> PICK last : last = Last(k, F)
  OBVIOUS
<1>3. PageInv(page, last, n, next)'
  BY PageStays DEF Asking
<1>4. Last(answer.kind, answer.from)' = last
  BY <1>1
<1>5. ASSUME k = "next" PROVE (F \in Seq([id : Nat, ts : Times]) /\ Known(Set(F)) /\ Ascending(F))'
  <2>1. F \in Seq([id : Nat, ts : Times]) /\ Known(Set(F)) /\ Ascending(F)
    BY <1>5 DEF Asking, OffsetRequestInv, OffsetAnswerInv, PageInv
  <2>2. Ascending(F)'
    BY <2>1, AscendingStays DEF Asking
  <2> PICK T : T = Set(F)
    OBVIOUS
  <2>3. Known(T)'
    BY <2>1, KnownStays DEF Asking, Moves
  <2> QED BY <2>1, <2>2, <2>3 DEF Set
<1>6. ASSUME prev = None PROVE NoneBefore(page, n)'
  <2> PICK T : T = Set(page)
    OBVIOUS
  <2>1. Known(T) /\ NoneBefore(page, n)
    BY <1>6 DEF PageInv
  <2>2. Places(T)' = Places(T)
    BY <2>1, KnownStays DEF Asking, Moves
  <2>3. ASSUME NEW p \in Positions', Remains(p, n)' PROVE \E a \in Places(T)' : ~Below(p, a)
    <3>1. p \in Positions /\ Remains(p, n)
      BY <2>3, StillRemains DEF Asking
    <3> QED BY <2>1, <2>2, <3>1 DEF NoneBefore
  <2> QED BY <2>3 DEF NoneBefore
<1>7. /\ answer'.kind = k /\ answer'.merged = FALSE /\ answer'.lines = page /\ answer'.next = next
      /\ answer'.prev = prev /\ answer'.top = n /\ answer'.from = F
  BY <1>1
<1>8. k # "none"
  BY DEF Asking, RequestInv
<1>9. PageInv(answer.lines, Last(answer.kind, answer.from), answer.top, answer.next)'
  BY <1>3, <1>4, <1>7
<1>10. (answer.kind = "next" =>
          answer.from \in Seq([id : Nat, ts : Times]) /\ Known(Set(answer.from)) /\ Ascending(answer.from))'
  BY <1>5, <1>7
<1>11. (answer.prev = None => NoneBefore(answer.lines, answer.top))'
  BY <1>6, <1>7
<1>12. OffsetAnswerInv'
  BY <1>7, <1>8, <1>9, <1>10, <1>11 DEF OffsetAnswerInv
<1> QED BY <1>2, <1>12

\* Nothing is answered.
LEMMA NoneAnswered ==
    ASSUME Asking, UNCHANGED answer, pc' = "merge" \/ (pc' = "idle" /\ lines' = <<>>)
    PROVE  OffsetAnswerInv' /\ OffsetRequestInv'
<1>1. OffsetAnswerInv'
  BY AnswerRests DEF Asking
<1>2. OffsetRequestInv'
  BY DEF OffsetRequestInv
<1> QED BY <1>1, <1>2

\* A page that is complete is answered, or looks for the start of the one before.
LEMMA OffsetsPageRead ==
    ASSUME Asking, pc = "read", NEW page, NEW next, PageRead(page, next),
           PageInv(page, Last(kind, answer.lines), top, next),
           start = <<1, 0>> => NoneBefore(page, top)
    PROVE  OffsetAnswerInv' /\ OffsetRequestInv'
<1>1. CASE start = <<1, 0>>
  <2>1. Answer(FALSE, page, next, None)
    BY <1>1 DEF PageRead
  <2> QED BY <1>1, <2>1, OffsetsAnswered
<1>2. CASE start # <<1, 0>>
  <2>1. /\ pc' = "prev" /\ lines' = page /\ at' = next
        /\ scan' = <<start[1], start[2], PageSize>>
        /\ UNCHANGED <<kind, top, chunks, start, answer>>
    BY <1>2 DEF PageRead
  <2>2. top \in Nat /\ top <= written
    BY DEF Asking, RequestInv
  <2>3. PageInv(page, Last(kind, answer.lines), top, next)'
    BY <2>1, <2>2, PageStaysOf DEF Asking
  <2>4. OffsetAnswerInv' /\ ListInv'
    <3>1. OffsetAnswerInv'
      BY <2>1, AnswerRests DEF Asking
    <3>2. ListInv
      BY DEF Asking, OffsetRequestInv
    <3>3. ListInv'
      BY <2>1, <2>2, <3>2, ListStays DEF Asking
    <3> QED BY <3>1, <3>3
  <2>5. scan'[2] \in Int /\ scan'[3] \in Int
    <3>1. start[2] \in Int
      BY DEF Asking, OffsetRequestInv, StartInv
    <3> QED BY <2>1, <3>1, PagesAssumption
  <2>6. kind' \in {"next", "prev"} => answer'.kind # "none" /\ ~answer'.merged
    BY <2>1 DEF Asking, OffsetRequestInv
  <2>7. PageInv(lines, Last(kind, answer.lines), top, at)'
    BY <2>1, <2>3
  <2>8. OffsetRequestInv'
    BY <2>1, <2>4, <2>5, <2>6, <2>7 DEF OffsetRequestInv
  <2> QED BY <2>4, <2>8
<1> QED BY <1>1, <1>2

\* ReadFile, in the terms of the lemmas: how many lines it takes, and what then.
LEMMA FileRead ==
    ASSUME ReadFile, chunks[at[1]] \in DOMAIN seg
    PROVE  \E all, take, page, m :
              /\ all = Content(chunks[at[1]]) /\ take = ToTake(all, at[2])
              /\ Extended(page, all, take, m)
              /\ \/ /\ m = PageSize - Len(lines) /\ Len(take) >= m
                    /\ PageRead(page, IF HasMore(take[m][1], Len(all))
                                      THEN Position(chunks[at[1]], take[m][1]) ELSE None)
                 \/ /\ m = Len(take) /\ ~(Len(take) >= PageSize - Len(lines))
                    /\ \/ /\ at[1] < Len(chunks) /\ at' = <<at[1] + 1, 0>> /\ lines' = page
                          /\ UNCHANGED <<pc, kind, top, chunks, start, scan, answer>>
                       \/ ~(at[1] < Len(chunks)) /\ PageRead(page, None)
<1>1. PICK all : all = Content(chunks[at[1]])
  OBVIOUS
<1>2. PICK take : take = ToTake(all, at[2])
  OBVIOUS
<1>3. PICK room : room = PageSize - Len(lines)
  OBVIOUS
<1>4. CASE Len(take) >= room
  <2>1. PICK page : page = lines \o [k \in 1..room |-> all[take[k][1]]]
    BY Zenon
  <2>2. PageRead(page, IF HasMore(take[room][1], Len(all))
                       THEN Position(chunks[at[1]], take[room][1]) ELSE None)
    BY <1>1, <1>2, <1>3, <1>4, <2>1, Zenon DEF ReadFile
  <2>3. Extended(page, all, take, room)
    BY <2>1 DEF Extended
  <2> QED BY <1>1, <1>2, <1>3, <1>4, <2>2, <2>3
<1>5. CASE ~(Len(take) >= room)
  <2>1. PICK page : page = lines \o [k \in 1..Len(take) |-> all[take[k][1]]]
    BY Zenon
  <2>2. \/ /\ at[1] < Len(chunks) /\ at' = <<at[1] + 1, 0>> /\ lines' = page
           /\ UNCHANGED <<pc, kind, top, chunks, start, scan, answer>>
        \/ ~(at[1] < Len(chunks)) /\ PageRead(page, None)
    BY <1>1, <1>2, <1>3, <1>5, <2>1, Zenon DEF ReadFile
  <2>3. Extended(page, all, take, Len(take))
    BY <2>1 DEF Extended
  <2> QED BY <1>1, <1>2, <1>3, <1>5, <2>2, <2>3
<1> QED BY <1>4, <1>5

\* They can be used of it.
LEMMA IsReading ==
    ASSUME Asking, pc = "read", chunks[at[1]] \in DOMAIN seg, NEW all, NEW take,
           all = Content(chunks[at[1]]), take = ToTake(all, at[2])
    PROVE  /\ Reading(all, take) /\ Len(all) \in Nat /\ DOMAIN all = 1..Len(all)
           /\ Len(lines) \in Nat /\ Len(lines) < PageSize
<1>1. StoreInv /\ LinesInv /\ FilesInv /\ ListInv /\ StartInv /\ AtIn /\ ReadTo(lines, at)
      /\ Len(lines) < PageSize
  BY DEF Asking, OffsetRequestInv, AtIn
<1>2. Len(all) \in Nat /\ DOMAIN all = 1..Len(all)
  <2> PICK f : f = <<chunks[at[1]], seg[chunks[at[1]]]>>
    OBVIOUS
  <2>1. f \in DOMAIN data /\ all = data[f]
    BY <1>1 DEF StoreInv, Content
  <2> QED BY <1>1, <2>1, LengthOf DEF StoreInv
<1>3. Takes(take, all, at[2])
  <2>1. at[2] \in Int
    BY <1>1 DEF AtIn
  <2> QED BY <1>2, <2>1, TakesInOrder
<1>4. Len(lines) \in Nat
  <2>1. lines \in Seq([id : Nat, ts : Times])
    BY <1>1 DEF ReadTo
  <2> QED BY <2>1
<1> QED BY <1>1, <1>2, <1>3, <1>4 DEF Reading

\* A page read up to a point has what is promised of it, with the token of that point.
LEMMA PageComplete ==
    ASSUME Asking, pc = "read", NEW page, NEW c, ReadUp(page, c), NEW next, TokenOf(page, next),
           next = None => \A p \in Positions : Remains(p, top) => ~Past(p, c)
    PROVE  PageInv(page, Last(kind, answer.lines), top, next)
<1>1. Known(Last(kind, answer.lines))
  BY LastKnown DEF Asking
<1>2. /\ page \in Seq([id : Nat, ts : Times]) /\ Known(Set(page)) /\ Ascending(page)
      /\ After(page, Last(kind, answer.lines))
  BY DEF ReadUp, ReadTo
<1>3. Unbroken(page, Last(kind, answer.lines), top)
  BY PageUnbroken
<1>4. next = None => NoneAfter(page, Last(kind, answer.lines), top)
  BY PageIsLast
<1> QED BY <1>1, <1>2, <1>3, <1>4 DEF PageInv

\* The page is full, ...
LEMMA PageFull ==
    ASSUME Asking, pc = "read", NEW all, NEW take, Reading(all, take),
           Len(all) \in Nat, DOMAIN all = 1..Len(all), Len(lines) \in Nat, Len(lines) < PageSize,
           NEW m, m = PageSize - Len(lines), Len(take) >= m, NEW page, Extended(page, all, take, m),
           NEW next, PageRead(page, next),
           next = IF HasMore(take[m][1], Len(all)) THEN Position(chunks[at[1]], take[m][1]) ELSE None
    PROVE  OffsetAnswerInv' /\ OffsetRequestInv'
<1>1. m \in Nat /\ m >= 1 /\ Len(take) \in Nat
  <2>1. PageSize \in Nat
    BY PagesAssumption
  <2>2. Len(take) \in Nat
    BY DEF Reading, Takes
  <2> QED BY <2>1, <2>2
<1>2. m \in 1..Len(take) /\ m \in 0..Len(take)
  BY <1>1
<1>3. take[m][1] \in DOMAIN all /\ take[m][1] \in Int
  BY <1>2 DEF Reading, Takes
<1>4. PICK c : c = <<at[1], take[m][1]>>
  OBVIOUS
<1>5. c[1] = at[1] /\ c[2] = take[m][1] /\ c[1] \in Int /\ c[2] \in Int /\ at[1] \in Int
  BY <1>3, <1>4 DEF Reading, AtIn
<1>6. Gets(c, take, m)
  BY <1>1, <1>2, <1>5 DEF Gets
<1>7. ReadUp(page, c)
  <2>1. ReadTo(page, c)
    BY <1>6, ReadOn
  <2> QED BY <1>5, <2>1 DEF ReadUp, Reading
<1>8. Len(page) = Len(lines) + m
  BY <1>2, PageHas
<1>9. page # <<>>
  <2>1. Len(page) # 0
    BY <1>1, <1>8
  <2> QED BY <2>1
<1>10. TokenOf(page, next)
  <2> SUFFICES ASSUME next # None
               PROVE  /\ next[3] \in Int
                      /\ \A p \in Places(Final(page)) : SegmentOf(p) = next[2] /\ p[4] = next[3]
    BY <1>9 DEF TokenOf
  <2>1. next[2] = chunks[at[1]] /\ next[3] = take[m][1]
    BY DEF Position
  <2>2. ASSUME NEW p \in Places(Final(page)) PROVE SegmentOf(p) = chunks[at[1]] /\ p[4] = take[m][1]
    <3>1. p \in Positions /\ At(p) = page[Len(page)]
      BY <2>2 DEF Places, Final
    <3>2. page[Len(page)] = New(all, take, m)
      <4>1. \A i \in 1..Len(page) :
                 \/ i \in 1..Len(lines) /\ page[i] = lines[i]
                 \/ i - Len(lines) \in 1..m /\ page[i] = New(all, take, i - Len(lines))
        BY <1>2, PageLines
      <4>2. PICK i \in 1..Len(page) : i = Len(page) /\ i \notin 1..Len(lines) /\ i - Len(lines) = m
        BY <1>1, <1>8
      <4> QED BY <4>1, <4>2
    <3> QED BY <1>2, <3>1, <3>2, NewAt
  <2> QED BY <1>3, <2>1, <2>2
<1>11. ASSUME next = None, NEW p \in Positions, Remains(p, top) PROVE ~Past(p, c)
  <2>1. ~HasMore(take[m][1], Len(all))
    BY <1>11 DEF Position, None
  <2>2. ~(take[m][1] < Len(all)) /\ ~(at[1] < Len(chunks))
    BY <2>1 DEF HasMore
  <2>3. PICK i \in 1..Len(chunks) : chunks[i] = SegmentOf(p)
    BY <1>11, IsListed DEF Reading
  <2>4. Past(p, c) <=> i > c[1] \/ (i = c[1] /\ p[4] > c[2])
    BY <2>3, PastIs DEF Reading
  <2>5. ~(i > c[1])
    <3>1. Len(chunks) \in Nat
      BY DEF Reading, ListInv
    <3> QED BY <1>5, <2>2, <3>1
  <2>6. ASSUME i = c[1] PROVE ~(p[4] > c[2])
    <3>1. SegmentOf(p) = chunks[at[1]]
      BY <1>5, <2>3, <2>6
    <3>2. seg[SegmentOf(p)] = p[3]
      BY <1>11, RemainsIn
    <3> PICK f : f = <<SegmentOf(p), p[3]>>
      OBVIOUS
    <3>3. p[4] \in DOMAIN data[f] /\ p[4] \in Nat
      BY PlaceHas DEF Reading
    <3>4. data[f] = all
      BY <3>1, <3>2 DEF Reading, Content
    <3>5. p[4] <= Len(all)
      BY <3>3, <3>4
    <3> QED BY <1>3, <1>5, <2>2, <3>3, <3>5
  <2> QED BY <2>4, <2>5, <2>6
<1>12. PageInv(page, Last(kind, answer.lines), top, next)
  BY <1>7, <1>10, <1>11, PageComplete
<1>13. start = <<1, 0>> => NoneBefore(page, top)
  BY <1>7, <1>9, PageIsFirst
<1> QED BY <1>12, <1>13, OffsetsPageRead

\* ... or the file ends before it is.
LEMMA FileEnds ==
    ASSUME Asking, pc = "read", NEW all, NEW take, Reading(all, take),
           Len(lines) \in Nat, Len(lines) < PageSize,
           NEW m, m = Len(take), ~(Len(take) >= PageSize - Len(lines)),
           NEW page, Extended(page, all, take, m),
           \/ /\ at[1] < Len(chunks) /\ at' = <<at[1] + 1, 0>> /\ lines' = page
              /\ UNCHANGED <<pc, kind, top, chunks, start, scan, answer>>
           \/ ~(at[1] < Len(chunks)) /\ PageRead(page, None)
    PROVE  OffsetAnswerInv' /\ OffsetRequestInv'
<1>1. PageSize \in Nat /\ m \in Nat /\ m \in 0..Len(take) /\ Len(lines) + m < PageSize
  <2>1. PageSize \in Nat
    BY PagesAssumption
  <2>2. Len(take) \in Nat
    BY DEF Reading, Takes
  <2> QED BY <2>1, <2>2
<1>2. PICK c : c = <<at[1] + 1, 0>>
  OBVIOUS
<1>3. c[1] = at[1] + 1 /\ c[2] = 0 /\ c[1] \in Int /\ c[2] \in Int /\ at[1] \in 1..Len(chunks)
      /\ at[1] \in Int /\ Len(chunks) \in Nat
  BY <1>2 DEF Reading, AtIn, ListInv
<1>4. Gets(c, take, m)
  BY <1>1, <1>3 DEF Gets
<1>5. ReadTo(page, c)
  BY <1>4, ReadOn
<1>6. CASE /\ at[1] < Len(chunks) /\ at' = <<at[1] + 1, 0>> /\ lines' = page
           /\ UNCHANGED <<pc, kind, top, chunks, start, scan, answer>>
  <2>1. OffsetAnswerInv'
    BY <1>6, AnswerRests DEF Asking
  <2>2. top \in Nat /\ top <= written
    BY DEF Asking, RequestInv
  <2>3. ListInv'
    BY <1>6, <2>2, ListStays DEF Asking, Reading
  <2>4. Known(Last(kind, answer.lines))
    BY LastKnown DEF Asking
  <2>5. StartInv'
    BY <1>6, <2>4, StartStays DEF Asking, Reading
  <2>6. ReadTo(page, c)'
    BY <1>5, <1>6, <2>2, <2>4, ReadRests DEF Asking
  <2>7. ReadTo(lines, at)'
    BY <1>2, <1>6, <2>6
  <2>8. Len(page) = Len(lines) + m
    BY <1>1, PageHas
  <2>9. kind' \in {"next", "prev"} => answer'.kind # "none" /\ ~answer'.merged
    BY <1>6 DEF Asking, OffsetRequestInv
  <2>10. /\ at'[1] \in 1..Len(chunks') /\ at'[2] = 0 /\ at'[1] > start'[1]
    <3>1. at'[1] = at[1] + 1 /\ at'[2] = 0
      BY <1>6
    <3>2. at[1] >= start[1] /\ start[1] \in Int
      BY DEF Reading, AtIn, StartInv
    <3>3. at[1] + 1 \in 1..Len(chunks) /\ at[1] + 1 > start[1]
      BY <1>3, <1>6, <3>2
    <3> QED BY <1>6, <3>1, <3>3
  <2>11. start'[1] \in Int /\ at'[1] \in Int
    BY <1>6, <2>10 DEF Reading, StartInv
  <2>12. Len(lines') < PageSize
    BY <1>1, <1>6, <2>8
  <2>13. pc' = "read"
    BY <1>6
  <2>14. at'[2] \in Int /\ ~(at'[1] = start'[1]) /\ at'[1] >= start'[1]
    BY <2>10, <2>11
  <2>15. OffsetRequestInv'
    BY <2>3, <2>5, <2>7, <2>9, <2>10, <2>12, <2>13, <2>14 DEF OffsetRequestInv
  <2> QED BY <2>1, <2>15
<1>7. CASE ~(at[1] < Len(chunks)) /\ PageRead(page, None)
  <2>1. ReadUp(page, c)
    BY <1>3, <1>5 DEF ReadUp, Reading
  <2>2. ASSUME NEW p \in Positions, Remains(p, top) PROVE ~Past(p, c)
    <3>1. PICK i \in 1..Len(chunks) : chunks[i] = SegmentOf(p)
      BY <2>2, IsListed DEF Reading
    <3>2. Past(p, c) <=> i > c[1] \/ (i = c[1] /\ p[4] > c[2])
      BY <3>1, PastIs DEF Reading
    <3>3. i < c[1]
      BY <1>3, <1>7
    <3> QED BY <1>3, <3>2, <3>3
  <2>3. TokenOf(page, None)
    BY DEF TokenOf
  <2>4. PageInv(page, Last(kind, answer.lines), top, None)
    BY <2>1, <2>2, <2>3, PageComplete
  <2>5. start = <<1, 0>> => NoneBefore(page, top)
    BY <2>1, <2>2, PageIsFirst, SMTT(30)
  <2> QED BY <1>7, <2>4, <2>5, OffsetsPageRead
<1> QED BY <1>6, <1>7

\* A file is read: the page goes on in the next one, or is complete.
LEMMA ReadFileOffsets ==
    ASSUME Asking, ReadFile
    PROVE  OffsetAnswerInv' /\ OffsetRequestInv'
<1>1. pc = "read"
  BY DEF ReadFile
<1>2. CASE chunks[at[1]] \notin DOMAIN seg
  <2>1. Err
    BY <1>2 DEF ReadFile
  <2> QED BY <2>1, NoneAnswered DEF Err, Idle
<1>3. CASE chunks[at[1]] \in DOMAIN seg
  <2>1. PICK all, take, page, m :
              /\ all = Content(chunks[at[1]]) /\ take = ToTake(all, at[2])
              /\ Extended(page, all, take, m)
              /\ \/ /\ m = PageSize - Len(lines) /\ Len(take) >= m
                    /\ PageRead(page, IF HasMore(take[m][1], Len(all))
                                      THEN Position(chunks[at[1]], take[m][1]) ELSE None)
                 \/ /\ m = Len(take) /\ ~(Len(take) >= PageSize - Len(lines))
                    /\ \/ /\ at[1] < Len(chunks) /\ at' = <<at[1] + 1, 0>> /\ lines' = page
                          /\ UNCHANGED <<pc, kind, top, chunks, start, scan, answer>>
                       \/ ~(at[1] < Len(chunks)) /\ PageRead(page, None)
    BY <1>3, FileRead
  <2>2. /\ Reading(all, take) /\ Len(all) \in Nat /\ DOMAIN all = 1..Len(all)
        /\ Len(lines) \in Nat /\ Len(lines) < PageSize
    BY <1>1, <1>3, <2>1, IsReading
  <2>3. CASE /\ m = PageSize - Len(lines) /\ Len(take) >= m
             /\ PageRead(page, IF HasMore(take[m][1], Len(all))
                               THEN Position(chunks[at[1]], take[m][1]) ELSE None)
    <3>1. PICK next : next = IF HasMore(take[m][1], Len(all))
                             THEN Position(chunks[at[1]], take[m][1]) ELSE None
      OBVIOUS
    <3>2. PageRead(page, next)
      BY <2>3, <3>1
    <3> QED BY <1>1, <2>1, <2>2, <2>3, <3>1, <3>2, PageFull
  <2>4. CASE /\ m = Len(take) /\ ~(Len(take) >= PageSize - Len(lines))
             /\ \/ /\ at[1] < Len(chunks) /\ at' = <<at[1] + 1, 0>> /\ lines' = page
                   /\ UNCHANGED <<pc, kind, top, chunks, start, scan, answer>>
                \/ ~(at[1] < Len(chunks)) /\ PageRead(page, None)
    BY <1>1, <2>1, <2>2, <2>4, FileEnds
  <2> QED BY <2>1, <2>3, <2>4
<1> QED BY <1>2, <1>3, SMTT(30)

\* A page of no line is read up to its start.
LEMMA NothingRead == ReadTo(<<>>, start)
<1>1. Set(<<>>) = {}
  BY DEF Set
<1>2. Places({}) = {} /\ Known({})
  BY DEF Places, Known
<1>3. Len(<<>>) = 0 /\ <<>> \in Seq([id : Nat, ts : Times])
  OBVIOUS
<1>4. Ascending(<<>>)
  BY <1>3 DEF Ascending
<1>5. After(<<>>, Last(kind, answer.lines))
  BY <1>1, <1>2 DEF After
<1> QED BY <1>1, <1>2, <1>3, <1>4, <1>5 DEF ReadTo

\* After a step, too.
LEMMA NothingReadNext == ReadTo(<<>>, start)'
BY NothingRead, PTL

\* A request comes to read.
LEMMA StartsToRead ==
    ASSUME Asking, ListInv, pc' = "read", start' = <<start'[1], start'[2]>>, at' = start',
           UNCHANGED <<kind, top, chunks, lines, answer>>, lines = <<>>, pc # "idle",
           start'[1] \in 1..Len(chunks), start'[2] \in Int,
           kind = "next" => start' # <<1, 0>>,
           kind \in {"next", "prev"} => answer.kind # "none" /\ ~answer.merged,
           \A a \in Places(Last(kind, answer.lines)) :
              chunks[start'[1]] = SegmentOf(a) /\ a[4] = start'[2]
    PROVE  OffsetAnswerInv' /\ OffsetRequestInv'
<1>1. OffsetAnswerInv'
  BY AnswerRests DEF Asking
<1>2. top \in Nat /\ top <= written
  BY DEF Asking, RequestInv
<1>3. ListInv'
  BY <1>2, ListStays DEF Asking
<1>4. Known(Last(kind, answer.lines))
  <2>1. CASE kind = "next"
    <3>1. Known(Set(answer.lines))
      BY <2>1 DEF Asking, OffsetAnswerInv, PageInv
    <3>2. Last(kind, answer.lines) \in SUBSET Set(answer.lines)
      BY <2>1, FinalOf DEF Last
    <3> QED BY <3>1, <3>2 DEF Known
  <2>2. CASE kind # "next"
    BY <2>2 DEF Last, Known
  <2> QED BY <2>1, <2>2
<1>5. Places(Last(kind, answer.lines))' = Places(Last(kind, answer.lines))
  <2> PICK last : last = Last(kind, answer.lines)
    OBVIOUS
  <2>1. Known(last)
    BY <1>4
  <2>2. Places(last)' = Places(last)
    BY <2>1, KnownStays DEF Asking, Moves
  <2>3. Last(kind, answer.lines)' = last
    OBVIOUS
  <2> QED BY <2>2, <2>3
<1>6. StartInv'
  <2>1. (\A a \in Places(Last(kind, answer.lines)) :
            chunks[start[1]] = SegmentOf(a) /\ a[4] = start[2])'
    BY <1>5 DEF SegmentOf
  <2>2. start'[1] \in 1..Len(chunks') /\ start'[2] \in Int
    OBVIOUS
  <2>3. start' = <<1, 0>> => kind' # "next"
    OBVIOUS
  <2>4. start' = <<start'[1], start'[2]>>
    OBVIOUS
  <2> QED BY <2>1, <2>2, <2>3, <2>4 DEF StartInv
<1>7. ReadTo(lines, at)'
  <2>1. lines' = <<>> /\ at' = start'
    OBVIOUS
  <2> QED BY <2>1, NothingReadNext
<1>8. Len(lines') < PageSize
  BY PagesAssumption
<1>9. /\ at'[1] \in 1..Len(chunks') /\ at'[2] \in Int /\ at'[1] >= start'[1]
      /\ at'[1] > start'[1] => at'[2] = 0
      /\ at'[1] = start'[1] => at'[2] = start'[2]
  OBVIOUS
<1>10. kind' \in {"next", "prev"} => answer'.kind # "none" /\ ~answer'.merged
  OBVIOUS
<1>11. OffsetRequestInv'
  BY <1>3, <1>6, <1>7, <1>8, <1>9, <1>10 DEF OffsetRequestInv
<1> QED BY <1>1, <1>11

\* Offsets counted backwards are numbers.
LEMMA BackwardInt ==
    ASSUME NEW end \in Int, NEW need \in Int
    PROVE  Backward(end, need)[1] \in Int /\ Backward(end, need)[2] \in Int
BY DEF Backward

\* What findChunkPageStartBefore finds in a file.
LEMMA FileScanned ==
    ASSUME ScanFile, ~Beyond
    PROVE  \E found :
              /\ found = <<0, 0>>
                 \/ \E end : /\ found = Backward(end, scan[3])
                             /\ \/ end = scan[2]
                                \/ chunks[scan[1]] \in DOMAIN seg /\ end = Len(Content(chunks[scan[1]]))
              /\ \/ /\ scan[1] # 1 /\ scan' = <<scan[1] - 1, Whole, scan[3] - found[2]>>
                    /\ UNCHANGED <<pc, kind, top, chunks, start, at, lines, answer>>
                 \/ \E back :
                       /\ back = <<scan[1], found[1]>> \/ back = <<1, 0>>
                       /\ \/ /\ pc = "scan" /\ pc' = "read" /\ start' = back /\ at' = back
                             /\ UNCHANGED <<kind, top, chunks, lines, answer>>
                          \/ /\ pc = "prev"
                             /\ Answer(FALSE, lines, at, <<"offset", chunks[back[1]], back[2]>>)
<1>1. PICK gone \in BOOLEAN : gone = (chunks[scan[1]] \notin DOMAIN seg)
  OBVIOUS
<1>2. PICK end : end = IF scan[2] = Whole THEN Len(Content(chunks[scan[1]])) ELSE scan[2]
  OBVIOUS
<1>3. PICK found : found = IF gone THEN <<0, 0>> ELSE Backward(end, scan[3])
  OBVIOUS
<1>4. PICK back : back = IF scan[3] - found[2] = 0 THEN <<scan[1], found[1]>>
                         ELSE IF scan[1] = 1 THEN <<1, 0>> ELSE None
  OBVIOUS
<1>5. IF back = None
      THEN /\ scan' = <<scan[1] - 1, Whole, scan[3] - found[2]>>
           /\ UNCHANGED <<pc, kind, top, chunks, start, at, lines, heap, matching, answer, asks>>
      ELSE IF pc = "scan"
      THEN /\ pc' = "read" /\ start' = back /\ at' = back /\ scan' = None
           /\ UNCHANGED <<kind, top, chunks, lines, heap, matching, answer, asks>>
      ELSE Answer(FALSE, lines, at, <<"offset", chunks[back[1]], back[2]>>)
  BY <1>1, <1>2, <1>3, <1>4 DEF ScanFile
<1>6. pc \in {"scan", "prev"}
  BY DEF ScanFile
<1>7. \/ found = <<0, 0>>
      \/ \E e : /\ found = Backward(e, scan[3])
                /\ \/ e = scan[2]
                   \/ chunks[scan[1]] \in DOMAIN seg /\ e = Len(Content(chunks[scan[1]]))
  BY <1>1, <1>2, <1>3
<1>8. back = None => scan[1] # 1
  BY <1>4 DEF None
<1>9. back # None => back = <<scan[1], found[1]>> \/ back = <<1, 0>>
  BY <1>4
<1>10. CASE back = None
  BY <1>5, <1>7, <1>8, <1>10
<1>11. CASE back # None
  <2>1. \/ /\ pc = "scan" /\ pc' = "read" /\ start' = back /\ at' = back
           /\ UNCHANGED <<kind, top, chunks, lines, answer>>
        \/ /\ pc = "prev"
           /\ Answer(FALSE, lines, at, <<"offset", chunks[back[1]], back[2]>>)
    BY <1>5, <1>6, <1>11
  <2> QED BY <1>7, <1>9, <1>11, <2>1
<1> QED BY <1>10, <1>11

\* The start of a page is looked for in a file.
LEMMA ScanFileOffsets ==
    ASSUME Asking, ScanFile
    PROVE  OffsetAnswerInv' /\ OffsetRequestInv'
<1>0. CASE Beyond
  <2>1. Err
    BY <1>0 DEF ScanFile
  <2> QED BY <2>1, NoneAnswered DEF Err, Idle
<1> SUFFICES ASSUME ~Beyond PROVE OffsetAnswerInv' /\ OffsetRequestInv'
  BY <1>0
<1>1. pc \in {"scan", "prev"}
  BY DEF ScanFile
<1>2. PICK found :
          /\ found = <<0, 0>>
             \/ \E end : /\ found = Backward(end, scan[3])
                         /\ \/ end = scan[2]
                            \/ chunks[scan[1]] \in DOMAIN seg /\ end = Len(Content(chunks[scan[1]]))
          /\ \/ /\ scan[1] # 1 /\ scan' = <<scan[1] - 1, Whole, scan[3] - found[2]>>
                /\ UNCHANGED <<pc, kind, top, chunks, start, at, lines, answer>>
             \/ \E back :
                   /\ back = <<scan[1], found[1]>> \/ back = <<1, 0>>
                   /\ \/ /\ pc = "scan" /\ pc' = "read" /\ start' = back /\ at' = back
                         /\ UNCHANGED <<kind, top, chunks, lines, answer>>
                      \/ /\ pc = "prev"
                         /\ Answer(FALSE, lines, at, <<"offset", chunks[back[1]], back[2]>>)
  BY FileScanned
<1>3. /\ ListInv /\ scan[2] \in Int /\ scan[3] \in Int
      /\ kind \in {"next", "prev"} => answer.kind # "none" /\ ~answer.merged
      /\ pc = "scan" => kind = "last" /\ scan[1] \in 1..Len(chunks) /\ lines = <<>>
      /\ pc = "prev" => PageInv(lines, Last(kind, answer.lines), top, at)
  BY <1>1 DEF Asking, OffsetRequestInv
<1>4. found[1] \in Int /\ found[2] \in Int
  <2>1. CASE found = <<0, 0>>
    BY <2>1
  <2>2. ASSUME NEW end, found = Backward(end, scan[3]),
               \/ end = scan[2]
               \/ chunks[scan[1]] \in DOMAIN seg /\ end = Len(Content(chunks[scan[1]]))
        PROVE  found[1] \in Int /\ found[2] \in Int
    <3>1. end \in Int
      <4>1. CASE chunks[scan[1]] \in DOMAIN seg /\ end = Len(Content(chunks[scan[1]]))
        <5> PICK f : f = <<chunks[scan[1]], seg[chunks[scan[1]]]>>
          OBVIOUS
        <5>1. f \in DOMAIN data /\ end = Len(data[f])
          BY <4>1 DEF Asking, StoreInv, Content
        <5>2. Len(data[f]) \in Nat
          BY <5>1, LengthOf DEF Asking, StoreInv
        <5> QED BY <5>1, <5>2
      <4> QED BY <1>3, <2>2, <4>1
    <3> QED BY <1>3, <2>2, <3>1, BackwardInt
  <2> QED BY <1>2, <2>1, <2>2
<1>5. top \in Nat /\ top <= written
  BY <1>1 DEF Asking, RequestInv
<1>6. CASE /\ scan[1] # 1 /\ scan' = <<scan[1] - 1, Whole, scan[3] - found[2]>>
           /\ UNCHANGED <<pc, kind, top, chunks, start, at, lines, answer>>
  <2>1. OffsetAnswerInv'
    BY <1>6, AnswerRests DEF Asking
  <2>2. ListInv'
    BY <1>3, <1>5, <1>6, ListStays DEF Asking
  <2>3. scan'[2] \in Int /\ scan'[3] \in Int /\ scan'[1] = scan[1] - 1
    BY <1>3, <1>4, <1>6 DEF Whole
  <2>4. pc' = "scan" => kind' = "last" /\ scan'[1] \in 1..Len(chunks') /\ lines' = <<>>
    <3>1. Len(chunks) \in Nat
      BY <1>3 DEF ListInv
    <3> QED BY <1>3, <1>6, <2>3, <3>1
  <2>5. ASSUME pc' = "prev" PROVE PageInv(lines, Last(kind, answer.lines), top, at)'
    <3> PICK L : L = lines
      OBVIOUS
    <3> PICK next : next = at
      OBVIOUS
    <3>1. PageInv(L, Last(kind, answer.lines), top, next)
      BY <1>3, <1>6, <2>5
    <3>2. PageInv(L, Last(kind, answer.lines), top, next)'
      BY <1>5, <1>6, <3>1, PageStaysOf DEF Asking
    <3>3. lines' = L /\ at' = next
      BY <1>6
    <3> QED BY <3>2, <3>3
  <2>6. kind' \in {"next", "prev"} => answer'.kind # "none" /\ ~answer'.merged
    BY <1>3, <1>6
  <2>7. pc' \in {"scan", "prev"}
    BY <1>1, <1>6
  <2>8. OffsetRequestInv'
    BY <2>2, <2>3, <2>4, <2>5, <2>6, <2>7 DEF OffsetRequestInv
  <2> QED BY <2>1, <2>8
<1>7. ASSUME NEW back, back = <<scan[1], found[1]>> \/ back = <<1, 0>>,
             pc = "scan", pc' = "read", start' = back, at' = back,
             UNCHANGED <<kind, top, chunks, lines, answer>>
      PROVE  OffsetAnswerInv' /\ OffsetRequestInv'
  <2>1. back = <<back[1], back[2]>> /\ back[1] \in 1..Len(chunks) /\ back[2] \in Int
    <3>1. Len(chunks) \in Nat
      BY <1>3 DEF ListInv
    <3>2. 1 \in 1..Len(chunks) /\ scan[1] \in 1..Len(chunks)
      BY <1>3, <1>7, <3>1
    <3> QED BY <1>4, <1>7, <3>2
  <2>2. kind = "last" /\ lines = <<>>
    BY <1>3, <1>7
  <2>3. Places(Last(kind, answer.lines)) = {}
    BY <2>2 DEF Last, Places
  <2> QED BY <1>3, <1>7, <2>1, <2>2, <2>3, StartsToRead
<1>8. ASSUME NEW back, back = <<scan[1], found[1]>> \/ back = <<1, 0>>, pc = "prev",
             Answer(FALSE, lines, at, <<"offset", chunks[back[1]], back[2]>>)
      PROVE  OffsetAnswerInv' /\ OffsetRequestInv'
  <2>1. PICK prev : prev = <<"offset", chunks[back[1]], back[2]>>
    OBVIOUS
  <2>2. prev # None /\ prev[3] = back[2]
    BY <2>1 DEF None
  <2>3. back[2] \in Int
    BY <1>4, <1>8
  <2>4. Answer(FALSE, lines, at, prev)
    BY <1>8, <2>1
  <2>5. PageInv(lines, Last(kind, answer.lines), top, at)
    BY <1>3, <1>8
  <2> PICK L : L = lines
    OBVIOUS
  <2> PICK next : next = at
    OBVIOUS
  <2>6. Answer(FALSE, L, next, prev) /\ PageInv(L, Last(kind, answer.lines), top, next)
    BY <2>4, <2>5
  <2> QED BY <1>8, <2>2, <2>3, <2>6, OffsetsAnswered
<1> QED BY <1>2, <1>6, <1>7, <1>8

\* A request comes.
LEMMA AskOffsets ==
    ASSUME Asking, UNCHANGED storeVars, NEW k \in {"first", "last", "next", "prev"}, Ask(k)
    PROVE  OffsetAnswerInv' /\ OffsetRequestInv'
<1>1. /\ pc = "idle" /\ pc' = "dispatch" /\ chunks' = Chunks /\ top' = written
      /\ UNCHANGED <<answer, lines, seg>>
  BY DEF Ask, Asks, storeVars
<1>2. OffsetAnswerInv'
  BY <1>1, AnswerRests DEF Asking
<1>3. lines' = <<>>
  BY <1>1 DEF Asking, OffsetRequestInv
<1> PICK listed : listed = Chunks
  OBVIOUS
<1>4. /\ listed \in Seq(Segments) /\ Len(listed) \in Nat
      /\ \A i, j \in 1..Len(listed) : i < j => Below(listed[i], listed[j])
      /\ \A s \in DOMAIN seg : \E i \in 1..Len(listed) : listed[i] = s
  BY ChunksListed DEF Asking
<1>5. chunks' = listed
  BY <1>1
<1>6. ASSUME NEW p \in Positions', Remains(p, top)' PROVE ListedBefore(p, Len(chunks) + 1)'
  <2>1. SegmentOf(p) \in DOMAIN seg
    BY <1>1, <1>6 DEF Remains, Stored, SegmentOf
  <2>2. PICK i \in 1..Len(listed) : listed[i] = SegmentOf(p)
    BY <1>4, <2>1
  <2>3. i < Len(listed) + 1
    BY <1>4
  <2> QED BY <1>5, <2>2, <2>3 DEF ListedBefore, SegmentOf
<1>7. ListInv'
  BY <1>4, <1>5, <1>6 DEF ListInv
<1>8. OffsetRequestInv'
  BY <1>1, <1>3, <1>7 DEF OffsetRequestInv
<1> QED BY <1>2, <1>8

\* A token of a page by offsets comes from an answer by offsets.
LEMMA TokenIs ==
    ASSUME Asking, pc = "dispatch", Token # None, Token[1] = "offset"
    PROVE  /\ kind \in {"next", "prev"} /\ answer.kind # "none" /\ ~answer.merged
           /\ Token[3] \in Int
           /\ kind = "next" =>
                 /\ Places(Final(answer.lines)) # {}
                 /\ \A a \in Places(Final(answer.lines)) : SegmentOf(a) = Token[2] /\ a[4] = Token[3]
<1>1. \/ kind = "next" /\ Token = answer.next
      \/ kind = "prev" /\ Token = answer.prev
  BY DEF Token
<1>2. answer.kind # "none"
  BY <1>1 DEF Asking, OffsetAnswerInv
<1>3. ~answer.merged
  <2> SUFFICES ASSUME answer.merged PROVE FALSE
    OBVIOUS
  <2>1. \/ Token = ForwardToken(answer.lines[Len(answer.lines)].ts)
        \/ Token = BackwardToken(answer.lines[1].ts)
    BY <1>1 DEF Asking, AnswerInv
  <2>2. Token[1] = "after" \/ Token[1] = "before"
    BY <2>1 DEF ForwardToken, BackwardToken
  <2> QED BY <2>2
<1>4. PageInv(answer.lines, Last(answer.kind, answer.from), answer.top, answer.next)
  BY <1>2, <1>3 DEF Asking, OffsetAnswerInv
<1>5. CASE kind = "prev" /\ Token = answer.prev
  <2>1. Token[3] \in Int
    BY <1>2, <1>3, <1>5 DEF Asking, OffsetAnswerInv
  <2> QED BY <1>2, <1>3, <1>5, <2>1
<1>6. CASE kind = "next" /\ Token = answer.next
  <2>1. /\ answer.lines # <<>> /\ Token[3] \in Int
        /\ \A a \in Places(Final(answer.lines)) : SegmentOf(a) = Token[2] /\ a[4] = Token[3]
        /\ answer.lines \in Seq([id : Nat, ts : Times]) /\ Known(Set(answer.lines))
    BY <1>4, <1>6 DEF PageInv, TokenOf
  <2>2. PICK line \in Final(answer.lines) : line \in Set(answer.lines)
    <3>1. /\ Len(answer.lines) \in Nat /\ Len(answer.lines) # 0
          /\ DOMAIN answer.lines = 1..Len(answer.lines)
      BY <2>1, LenProperties, EmptySeq
    <3>2. answer.lines[Len(answer.lines)] \in Final(answer.lines)
      BY <3>1 DEF Final
    <3> QED BY <3>2, FinalOf
  <2>3. Places(Final(answer.lines)) # {}
    BY <2>1, <2>2 DEF Known, Places
  <2> QED BY <1>2, <1>3, <1>6, <2>1, <2>3
<1> QED BY <1>1, <1>5, <1>6

\* The ways a request goes.
LEMMA WaysToGo ==
    ASSUME Dispatch, request \in {"pages", "workload"}
    PROVE  \/ Err
           \/ pc' = "merge" /\ UNCHANGED answer
           \/ /\ chunks # <<>> /\ UNCHANGED <<kind, top, chunks, lines, answer>>
              /\ Token # None => Token[1] = "offset"
              /\ \/ /\ kind = "last" /\ pc' = "scan" /\ chunks[Len(chunks)] \in DOMAIN seg
                    /\ scan' = <<Len(chunks), Len(Content(chunks[Len(chunks)])), PageSize>>
                 \/ /\ kind # "last" /\ pc' = "read" /\ at' = start'
                    /\ IF Token = None THEN start' = <<1, 0>>
                       ELSE \E i \in DOMAIN chunks : Token[2] = chunks[i] /\ start' = <<i, Token[3]>>
<1>1. PICK merged \in BOOLEAN : merged = Merges
  BY DEF Merges
<1>2. PICK known : known = {i \in DOMAIN chunks : Token # None /\ Token[2] = chunks[i]}
  OBVIOUS
<1>3. PICK foreign \in BOOLEAN : foreign = (Token # None /\ (Token[1] = "offset") = merged)
  OBVIOUS
<1>4. PICK gone \in BOOLEAN :
          gone = (~merged /\ (\/ Token # None /\ known = {}
                              \/ kind = "last" /\ chunks[Len(chunks)] \notin DOMAIN seg))
  OBVIOUS
<1>5. \/ Err
      \/ /\ ~((chunks = <<>> /\ request = "pages") \/ foreign \/ gone)
         /\ \/ merged /\ pc' = "merge"
            \/ /\ ~merged /\ kind = "last" /\ pc' = "scan" /\ UNCHANGED chunks
               /\ scan' = <<Len(chunks), Len(Content(chunks[Len(chunks)])), PageSize>>
            \/ /\ ~merged /\ kind # "last" /\ pc' = "read" /\ at' = start' /\ UNCHANGED chunks
               /\ start' = IF Token = None THEN <<1, 0>>
                           ELSE <<CHOOSE i \in known : TRUE, Token[3]>>
         /\ UNCHANGED <<kind, top, lines, answer>>
  BY <1>1, <1>2, <1>3, <1>4 DEF Dispatch
<1>6. ~merged => request = "pages"
  BY <1>1 DEF Merges
<1>7. ~merged /\ ~foreign /\ Token # None => Token[1] = "offset"
  BY <1>3
<1>8. CASE ~gone /\ ~merged
  <2>1. /\ Token # None => known # {}
        /\ kind = "last" => chunks[Len(chunks)] \in DOMAIN seg
    BY <1>4, <1>8
  <2>2. ASSUME Token # None PROVE (CHOOSE i \in known : TRUE) \in known
    BY <2>1, <2>2
  <2>3. ASSUME Token # None
        PROVE  (CHOOSE i \in known : TRUE) \in DOMAIN chunks /\ Token[2] = chunks[CHOOSE i \in known : TRUE]
    BY <1>2, <2>2, <2>3
  <2> QED BY <1>5, <1>6, <1>7, <1>8, <2>1, <2>3
<1>9. CASE gone \/ merged
  BY <1>5, <1>9, <1>4
<1> QED BY <1>8, <1>9

\* A page by offsets starts at its token, or at the first line of the list.
LEMMA DispatchOffsets ==
    ASSUME Asking, Dispatch, request \in {"pages", "workload"}
    PROVE  OffsetAnswerInv' /\ OffsetRequestInv'
<1>1. /\ pc = "dispatch" /\ lines = <<>> /\ ListInv /\ top \in Nat /\ top <= written
      /\ kind \in {"first", "last", "next", "prev"}
      /\ kind = "next" => answer.next # None
      /\ kind = "prev" => answer.prev # None
  BY DEF Dispatch, Asking, OffsetRequestInv, RequestInv
<1>2. CASE Err \/ (pc' = "merge" /\ UNCHANGED answer)
  BY <1>2, NoneAnswered DEF Err, Idle
<1>3. ASSUME chunks # <<>>, UNCHANGED <<kind, top, chunks, lines, answer>>,
             kind = "last", pc' = "scan", chunks[Len(chunks)] \in DOMAIN seg,
             scan' = <<Len(chunks), Len(Content(chunks[Len(chunks)])), PageSize>>
      PROVE  OffsetAnswerInv' /\ OffsetRequestInv'
  <2>1. OffsetAnswerInv'
    BY <1>3, AnswerRests DEF Asking
  <2>2. ListInv'
    BY <1>1, <1>3, ListStays DEF Asking
  <2>3. scan'[1] \in 1..Len(chunks)
    <3>1. Len(chunks) \in Nat /\ Len(chunks) # 0
      BY <1>1, <1>3, EmptySeq DEF ListInv
    <3> QED BY <1>3, <3>1
  <2>4. scan'[2] \in Int
    <3> PICK f : f = <<chunks[Len(chunks)], seg[chunks[Len(chunks)]]>>
      OBVIOUS
    <3>1. f \in DOMAIN data /\ scan'[2] = Len(data[f])
      BY <1>3 DEF Asking, StoreInv, Content
    <3>2. Len(data[f]) \in Nat
      BY <3>1, LengthOf DEF Asking, StoreInv
    <3> QED BY <3>1, <3>2
  <2>5. scan'[3] \in Int
    BY <1>3, PagesAssumption
  <2>6. OffsetRequestInv'
    BY <1>1, <1>3, <2>2, <2>3, <2>4, <2>5 DEF OffsetRequestInv
  <2> QED BY <2>1, <2>6
<1>4. ASSUME chunks # <<>>, UNCHANGED <<kind, top, chunks, lines, answer>>,
             Token # None => Token[1] = "offset", kind # "last", pc' = "read", at' = start',
             IF Token = None THEN start' = <<1, 0>>
             ELSE \E i \in DOMAIN chunks : Token[2] = chunks[i] /\ start' = <<i, Token[3]>>
      PROVE  OffsetAnswerInv' /\ OffsetRequestInv'
  <2>1. Len(chunks) \in Nat /\ Len(chunks) # 0 /\ DOMAIN chunks = 1..Len(chunks)
    BY <1>1, <1>4, EmptySeq, LenProperties DEF ListInv
  <2>2. CASE Token = None
    <3>1. kind = "first"
      BY <1>1, <1>4, <2>2 DEF Token
    <3>2. start' = <<1, 0>> /\ 1 \in 1..Len(chunks)
      BY <1>4, <2>1, <2>2
    <3>3. start' = <<start'[1], start'[2]>> /\ start'[1] \in 1..Len(chunks) /\ start'[2] \in Int
      BY <3>2
    <3>4. Places(Last(kind, answer.lines)) = {}
      BY <3>1 DEF Last, Places
    <3> QED BY <1>1, <1>4, <3>1, <3>3, <3>4, StartsToRead
  <2>3. CASE Token # None
    <3>1. PICK i \in 1..Len(chunks) : Token[2] = chunks[i] /\ start' = <<i, Token[3]>>
      BY <1>4, <2>1, <2>3
    <3>2. /\ kind \in {"next", "prev"} /\ answer.kind # "none" /\ ~answer.merged
          /\ Token[3] \in Int
          /\ kind = "next" =>
                /\ Places(Final(answer.lines)) # {}
                /\ \A a \in Places(Final(answer.lines)) : SegmentOf(a) = Token[2] /\ a[4] = Token[3]
      BY <1>1, <1>4, <2>3, TokenIs
    <3>3. start'[1] = i /\ start'[2] = Token[3] /\ start' = <<start'[1], start'[2]>>
      BY <3>1
    <3>4. ASSUME NEW a \in Places(Last(kind, answer.lines))
          PROVE  chunks[start'[1]] = SegmentOf(a) /\ a[4] = start'[2]
      <4>1. kind = "next" /\ a \in Places(Final(answer.lines))
        BY DEF Last, Places
      <4> QED BY <3>1, <3>2, <3>3, <4>1
    <3>5. ASSUME kind = "next" PROVE start' # <<1, 0>>
      <4>1. PICK a \in Positions : a[4] = Token[3]
        BY <3>2, <3>5 DEF Places
      <4>2. a[4] \in 1..MaxLines /\ a[4] \in Nat
        BY PlaceHas DEF Asking
      <4>3. Token[3] # 0
        BY <4>1, <4>2
      <4> QED BY <3>3, <4>3
    <3> QED BY <1>1, <1>4, <3>2, <3>3, <3>4, <3>5, StartsToRead
  <2> QED BY <2>2, <2>3
<1> QED BY <1>2, <1>3, <1>4, WaysToGo

\* A merge leaves pages by offsets alone, and answers none.
LEMMA MergeOffsets ==
    ASSUME Asking, MergeFile \/ MergeAnswer
    PROVE  OffsetAnswerInv' /\ OffsetRequestInv'
<1>1. CASE MergeFile
  BY <1>1, NoneAnswered DEF MergeFile
<1>2. CASE MergeAnswer
  <2>1. pc = "merge" /\ kind # "none"
    BY <1>2 DEF MergeAnswer, Asking, RequestInv
  <2>2. PICK page, next, prev : Answer(TRUE, page, next, prev)
    BY <1>2 DEF MergeAnswer
  <2>3. answer'.kind = kind /\ answer'.merged = TRUE /\ pc' = "idle" /\ lines' = <<>>
    BY <2>2 DEF Answer, Idle
  <2> QED BY <2>1, <2>3 DEF OffsetAnswerInv, OffsetRequestInv
<1> QED BY <1>1, <1>2

\* Every step of a request for pages keeps the invariant.
LEMMA PageOffsets ==
    ASSUME StoreInv, LinesInv, FilesInv, PagesInv, OffsetsInv, Page
    PROVE  OffsetsInv'
<1>1. request \in {"pages", "workload"} /\ PagesNext /\ UNCHANGED <<storeVars, readVars>>
  BY DEF Page
<1>2. Moves
  BY <1>1, StandsStill
<1>3. Asking
  BY <1>1, <1>2 DEF Asking, PagesInv, OffsetsInv
<1>4. OffsetAnswerInv' /\ OffsetRequestInv'
  <2>1. CASE \E k \in {"first", "last", "next", "prev"} : Ask(k)
    BY <1>1, <1>3, <2>1, AskOffsets
  <2>2. CASE Dispatch
    BY <1>1, <1>3, <2>2, DispatchOffsets
  <2>3. CASE ScanFile
    BY <1>3, <2>3, ScanFileOffsets
  <2>4. CASE ReadFile
    BY <1>3, <2>4, ReadFileOffsets
  <2>5. CASE MergeFile \/ MergeAnswer
    BY <1>3, <2>5, MergeOffsets
  <2> QED BY <1>1, <2>1, <2>2, <2>3, <2>4, <2>5 DEF PagesNext
<1>5. request' # "index"
  BY <1>1 DEF readVars
<1> QED BY <1>4, <1>5 DEF OffsetsInv

\* Those of an index leave it alone.
LEMMA IndexOffsets ==
    ASSUME OffsetsInv, IndexPage
    PROVE  OffsetsInv'
<1>1. request = "index" /\ request' = request /\ IndexNext
  BY DEF IndexPage, readVars
<1>2. CASE UNCHANGED answer
  BY <1>1, <1>2 DEF OffsetsInv
<1>3. CASE IndexAnswer
  <2>1. PICK page, next, prev : Answer(TRUE, page, next, prev)
    BY <1>3 DEF IndexAnswer
  <2>2. answer'.merged = TRUE
    BY <2>1 DEF Answer
  <2> QED BY <1>1, <2>2 DEF OffsetsInv
<1> QED BY <1>1, <1>2, <1>3 DEF IndexNext, AskIndex, StatFile, SelectPage, ReadEntry, Err, pageVars

\* The invariant holds at first.
LEMMA OffsetsStart == Init => FilesInv /\ OffsetsInv
<1> SUFFICES ASSUME Init PROVE FilesInv /\ OffsetsInv
  OBVIOUS
<1>1. FilesInv /\ pc = "idle" /\ lines = <<>> /\ answer = NoAnswer
  BY StoreStarts DEF Init, PagesInit
<1>2. answer.kind = "none" /\ answer.next = None /\ answer.prev = None
  BY <1>1 DEF NoAnswer
<1> QED BY <1>1, <1>2 DEF OffsetsInv, OffsetAnswerInv, OffsetRequestInv

\* What a request by offsets has read, and was answered, whatever the store does while
\* it runs and afterwards (GetLogs and findChunkPageStartBefore of log_service.go).
THEOREM OffsetsInvariant == Spec => [](FilesInv /\ OffsetsInv)
<1> DEFINE Inv == StoreInv /\ LinesInv /\ PagesInv
           JInv == FilesInv /\ OffsetsInv
<1>1. Init => JInv
  BY OffsetsStart
<1>2. Inv /\ Inv' /\ JInv /\ [Next]_vars => JInv'
  <2> SUFFICES ASSUME StoreInv, LinesInv, PagesInv, StoreInv', LinesInv', FilesInv, OffsetsInv,
                      [Next]_vars
               PROVE  FilesInv' /\ OffsetsInv'
    OBVIOUS
  <2>1. CASE Store
    <3>1. StoreNext /\ UNCHANGED <<request, span, pageVars>>
      BY <2>1 DEF Store, readVars
    <3>2. FilesInv'
      BY <3>1, FilesMove
    <3>3. Grows /\ \A x \in DOMAIN seg' \ DOMAIN seg : DOMAIN data'[<<x, seg'[x]>>] = {}
      BY <3>1, StoreMoves, LinesMove
    <3>4. Moves
      BY <3>1, <3>3 DEF Moves
    <3> QED BY <3>1, <3>2, <3>4, OffsetsRest
  <2>2. CASE ~Store
    <3>1. UNCHANGED <<storeVars, readVars>>
      BY <2>2 DEF Next, Page, IndexPage, Fetch, Find, Done, vars
    <3>2. FilesInv'
      BY <3>1 DEF FilesInv, storeVars
    <3>3. CASE Page
      BY <3>2, <3>3, PageOffsets
    <3>4. CASE IndexPage
      BY <3>2, <3>4, IndexOffsets
    <3>5. CASE Fetch \/ Find \/ Done \/ UNCHANGED vars
      <4>1. UNCHANGED <<request, pageVars>>
        BY <3>5 DEF Fetch, Find, Done, vars, readVars
      <4>2. Moves
        BY <3>1, StandsStill
      <4> QED BY <3>2, <4>1, <4>2, OffsetsRest
    <3> QED BY <2>2, <3>3, <3>4, <3>5 DEF Next
  <2> QED BY <2>1, <2>2
<1> HIDE DEF Inv, JInv
<1>3. Spec => []Inv
  BY PagesInvariant DEF Inv
<1>4. Spec => []JInv
  BY <1>1, <1>2, <1>3, PTL DEF Spec
<1> QED BY <1>4 DEF JInv

\* A page in order shows no line twice.
LEMMA AscendingOnce ==
    ASSUME StoreInv, LinesInv, NEW L, Known(Set(L)), Ascending(L), DOMAIN L = 1..Len(L),
           NEW i \in DOMAIN L, NEW j \in DOMAIN L, i < j
    PROVE  L[i] # L[j]
<1> SUFFICES ASSUME L[i] = L[j] PROVE FALSE
  OBVIOUS
<1>1. L[i] \in Set(L)
  BY DEF Set
<1>2. PICK p \in Positions : At(p) = L[i]
  BY <1>1 DEF Known
<1>3. Below(p, p)
  BY <1>2 DEF Ascending
<1>4. ~Below(p, p)
  <2>1. p \in Fours
    BY PlaceHas
  <2> QED BY <2>1, FoursOrdered DEF Ordered
<1> QED BY <1>3, <1>4

\* A page that comes after the last line of another has none of its lines.
LEMMA AfterApart ==
    ASSUME StoreInv, LinesInv, NEW L, NEW F \in Seq([id : Nat, ts : Times]),
           Known(Set(F)), Ascending(F), After(L, Final(F))
    PROVE  Set(L) \cap Set(F) = {}
<1> SUFFICES ASSUME NEW line, line \in Set(L), line \in Set(F) PROVE FALSE
  OBVIOUS
<1>1. Len(F) \in Nat /\ DOMAIN F = 1..Len(F)
  BY LenProperties
<1>2. PICK i \in 1..Len(F) : F[i] = line
  BY <1>1 DEF Set
<1>3. PICK b \in Positions : At(b) = line
  BY DEF Known
<1>4. Len(F) \in 1..Len(F) /\ F[Len(F)] \in Final(F) /\ F[Len(F)] \in Set(F)
  BY <1>1, <1>2 DEF Final, Set
<1>5. PICK a \in Positions : At(a) = F[Len(F)]
  BY <1>4 DEF Known
<1>6. Below(a, b)
  <2>1. a \in Places(Final(F)) /\ b \in Places(Set(L))
    BY <1>3, <1>4, <1>5 DEF Places
  <2> QED BY <2>1 DEF After
<1>7. a \in Fours /\ b \in Fours
  BY PlaceHas
<1>8. CASE i < Len(F)
  <2>1. Below(b, a)
    BY <1>2, <1>3, <1>4, <1>5, <1>8 DEF Ascending
  <2> QED BY <1>6, <1>7, <2>1, FoursOrdered DEF Ordered
<1>9. CASE i = Len(F)
  <2>1. a = b
    BY <1>2, <1>3, <1>5, <1>9, OnePlace, SMTT(30)
  <2> QED BY <1>6, <1>7, <2>1, FoursOrdered DEF Ordered
<1>10. i < Len(F) \/ i = Len(F)
  <2> PICK n \in Nat : n = Len(F)
    BY <1>1, Zenon
  <2>1. i \in 1..n
    BY <1>2
  <2> QED BY <2>1, SMTT(30)
<1> QED BY <1>8, <1>9, <1>10

\* What the invariant says of an answer by offsets.
LEMMA OffsetAnswerIs ==
    ASSUME OffsetsInv, Answered, ~answer.merged
    PROVE  /\ request # "index"
           /\ PageInv(answer.lines, Last(answer.kind, answer.from), answer.top, answer.next)
           /\ answer.kind = "next" =>
                 answer.from \in Seq([id : Nat, ts : Times]) /\ Known(Set(answer.from)) /\ Ascending(answer.from)
BY DEF OffsetsInv, OffsetAnswerInv, Answered

\* Paging forwards by offsets leaves out no line and shows none twice: not within a
\* page, and not between a page and the next, whatever is written or removed in the
\* meantime (GetLogs of log_service.go; paging_test.go:112).
THEOREM OffsetPages == Spec => []OffsetPagesSkipNothing
<1>1. StoreInv /\ LinesInv /\ OffsetsInv => OffsetPagesSkipNothing
  <2> SUFFICES ASSUME StoreInv, LinesInv, OffsetsInv, Answered, ~answer.merged
               PROVE  LET page == Set(answer.lines)
                          last == IF answer.kind = "next" THEN Final(answer.from) ELSE {}
                      IN  /\ \A i, j \in DOMAIN answer.lines : i < j => answer.lines[i] # answer.lines[j]
                          /\ answer.kind = "next" => page \cap Set(answer.from) = {}
                          /\ \A p \in Old : At(p) \notin page /\ p[3] = 1 =>
                              ~\E a \in Where(page \cup last), b \in Where(page) : Below(a, p) /\ Below(p, b)
    BY DEF OffsetPagesSkipNothing
  <2>1. PICK L : L = answer.lines
    OBVIOUS
  <2>2. PICK F : F = answer.from
    OBVIOUS
  <2>3. PICK last : last = IF answer.kind = "next" THEN Final(answer.from) ELSE {}
    OBVIOUS
  <2>4. Last(answer.kind, answer.from) = last
    BY <2>3 DEF Last
  <2>5. PageInv(L, last, answer.top, answer.next)
    BY <2>1, <2>4, OffsetAnswerIs
  <2>6. /\ L \in Seq([id : Nat, ts : Times]) /\ Known(Set(L)) /\ Ascending(L) /\ Known(last)
        /\ After(L, last) /\ Unbroken(L, last, answer.top)
    BY <2>5 DEF PageInv
  <2>7. DOMAIN L = 1..Len(L)
    BY <2>6, LenProperties
  <2>8. \A i, j \in DOMAIN L : i < j => L[i] # L[j]
    BY <2>6, <2>7, AscendingOnce
  <2>9. ASSUME answer.kind = "next" PROVE Set(L) \cap Set(F) = {}
    <3>1. F \in Seq([id : Nat, ts : Times]) /\ Known(Set(F)) /\ Ascending(F)
      BY <2>2, <2>9, OffsetAnswerIs
    <3>2. After(L, Final(F))
      BY <2>2, <2>3, <2>6, <2>9
    <3> QED BY <3>1, <3>2, AfterApart
  <2>10. ASSUME NEW p \in Old, At(p) \notin Set(L), p[3] = 1,
                NEW a \in Where(Set(L) \cup last), NEW b \in Where(Set(L)), Below(a, p), Below(p, b)
         PROVE  FALSE
    <3>1. p \in Positions /\ Remains(p, answer.top)
      BY DEF Old, Stored, Remains
    <3>2. Where(Set(L)) = Places(Set(L))
      BY <2>6, WhereIs
    <3>3. Where(Set(L) \cup last) = Places(Set(L) \cup last)
      <4>1. Known(Set(L) \cup last)
        BY <2>6 DEF Known
      <4> QED BY <4>1, WhereIs
    <3> QED BY <2>6, <2>10, <3>1, <3>2, <3>3 DEF Unbroken
  <2>11. /\ \A i, j \in DOMAIN L : i < j => L[i] # L[j]
         /\ answer.kind = "next" => Set(L) \cap Set(F) = {}
         /\ \A p \in Old : At(p) \notin Set(L) /\ p[3] = 1 =>
              ~\E a \in Where(Set(L) \cup last), b \in Where(Set(L)) : Below(a, p) /\ Below(p, b)
    BY <2>8, <2>9, <2>10
  <2> QED BY <2>1, <2>2, <2>3, <2>11
<1> QED BY <1>1, PagesInvariant, OffsetsInvariant, PTL

-----------------------------------------------------------------------------
(* The inductive invariant of where the pages end. *)

\* A merge that has kept all that it counted has kept every line there was.
CountInv ==
    /\ matching \in Nat /\ Cardinality(heap) <= matching
    /\ matching = Cardinality(heap) =>
          \A p \in Positions : Remains(p, top) /\ Eligible(At(p)) /\ ListedBefore(p, at[1]) =>
              \E e \in heap : Line(e) = At(p)

\* Of what the client has seen with an answer, and the one it was asked from, something
\* is as late (as early) as any line there was.
NoneLater ==
    \A p \in Positions : Remains(p, answer.top) /\ Seen # {} => \E line \in Seen : At(p).ts <= line.ts

NoneEarlier ==
    \A p \in Positions : Remains(p, answer.top) /\ Seen # {} => \E line \in Seen : At(p).ts >= line.ts

MergedEnds ==
    answer.kind # "none" /\ answer.merged =>
        /\ Known(Seen)
        /\ answer.next = None /\ (answer.kind # "prev" \/ answer.lines # <<>>) => NoneLater
        /\ answer.prev = None /\ (answer.kind # "next" \/ answer.lines # <<>>) => NoneEarlier

EndsInv ==
    request # "index" =>
        /\ pc \in {"idle", "dispatch"} => matching = 0
        /\ pc = "merge" => CountInv
        /\ MergedEnds

\* What holds of a merged answer goes on holding.
LEMMA MergedEndsRest ==
    ASSUME Moves, UNCHANGED answer, AnswerInv, MergedEnds
    PROVE  MergedEnds'
<1> PICK n \in Nat : n = answer.top /\ n <= written
  BY DEF AnswerInv
<1> PICK S : S = Seen
  OBVIOUS
<1>1. Seen' = S
  BY DEF Seen, Set
<1> SUFFICES ASSUME answer.kind # "none", answer.merged
             PROVE  (/\ Known(Seen)
                     /\ answer.next = None /\ (answer.kind # "prev" \/ answer.lines # <<>>) => NoneLater
                     /\ answer.prev = None /\ (answer.kind # "next" \/ answer.lines # <<>>) => NoneEarlier)'
  BY DEF MergedEnds
<1>2. Known(Seen)'
  <2>1. Known(S)
    BY DEF MergedEnds
  <2>2. Known(S)'
    BY <2>1, KnownStays DEF Moves
  <2> QED BY <1>1, <2>2
<1>3. ASSUME NEW p \in Positions', Remains(p, answer.top)'
      PROVE  p \in Positions /\ Remains(p, answer.top) /\ At(p)' = At(p)
  <2>1. Remains(p, n)'
    BY <1>3 DEF Remains
  <2> QED BY <2>1, StillRemains
<1>4. ASSUME NoneLater PROVE NoneLater'
  BY <1>1, <1>3, <1>4 DEF NoneLater
<1>5. ASSUME NoneEarlier PROVE NoneEarlier'
  BY <1>1, <1>3, <1>5 DEF NoneEarlier
<1> QED BY <1>2, <1>4, <1>5 DEF MergedEnds

\* The count goes on being right: no line there was at the request comes back.
LEMMA CountRests ==
    ASSUME Moves, UNCHANGED pageVars, top \in Nat, top <= written, CountInv
    PROVE  CountInv'
<1> PICK n \in Nat : n = top /\ n <= written
  OBVIOUS
<1>1. UNCHANGED <<kind, top, chunks, at, heap, matching, answer, span>>
  BY DEF pageVars, Moves
<1>2. matching \in Nat /\ Cardinality(heap) <= matching
  BY DEF CountInv
<1>3. ASSUME matching = Cardinality(heap), NEW p \in Positions', Remains(p, top)', Eligible(At(p))',
             ListedBefore(p, at[1])'
      PROVE  \E e \in heap : Line(e) = At(p)'
  <2>1. p \in Positions /\ Remains(p, n) /\ At(p)' = At(p)
    <3>1. Remains(p, n)'
      BY <1>1, <1>3 DEF Remains
    <3> QED BY <3>1, StillRemains
  <2>2. Eligible(At(p))
    <3> PICK x : x = At(p)
      OBVIOUS
    <3>1. At(p)' = x /\ Token' = Token
      BY <1>1, <2>1 DEF Token
    <3>2. Eligible(x)'
      BY <1>3, <3>1 DEF Eligible, Matches
    <3>3. Eligible(x)' <=> Eligible(x)
      BY <1>1, <3>1 DEF Eligible, Matches
    <3> QED BY <3>2, <3>3
  <2>3. ListedBefore(p, at[1])
    BY <1>1, <1>3 DEF ListedBefore, SegmentOf
  <2> QED BY <1>3, <2>1, <2>2, <2>3 DEF CountInv
<1> QED BY <1>1, <1>2, <1>3 DEF CountInv, Line

\* What is added to the heap is counted, and nothing is counted twice.
LEMMA AddedUp ==
    ASSUME NEW H, NEW A, NEW K, NEW m \in Nat, IsFiniteSet(H), IsFiniteSet(A), H \cap A = {},
           K \in SUBSET (H \cup A), Cardinality(H) <= m
    PROVE  /\ m + Cardinality(A) \in Nat /\ Cardinality(K) <= m + Cardinality(A)
           /\ m + Cardinality(A) = Cardinality(K) => m = Cardinality(H) /\ K = H \cup A
<1>1. /\ Cardinality(H) \in Nat /\ Cardinality(A) \in Nat /\ IsFiniteSet(H \cup A)
  <2>1. IsFiniteSet(H \cup A)
    BY FS_Union
  <2> QED BY <2>1, FS_CardinalityType
<1>2. Cardinality(H \cup A) = Cardinality(H) + Cardinality(A)
  <2>1. Cardinality(H \cup A) = Cardinality(H) + Cardinality(A) - Cardinality(H \cap A)
    BY FS_Union
  <2>2. Cardinality(H \cap A) = 0
    BY FS_EmptySet
  <2> QED BY <1>1, <2>1, <2>2
<1>3. /\ IsFiniteSet(K) /\ Cardinality(K) <= Cardinality(H \cup A)
      /\ Cardinality(K) = Cardinality(H \cup A) => K = H \cup A
  BY <1>1, FS_Subset
<1>4. Cardinality(K) \in Nat
  BY <1>3, FS_CardinalityType
<1> QED BY <1>1, <1>2, <1>3, <1>4

\* A file is merged: all that it adds is counted.
LEMMA MergeFileCounts ==
    ASSUME StoreInv, LinesInv, MergeInv, CountInv, UNCHANGED <<storeVars, readVars>>, MergeFile
    PROVE  CountInv'
<1> PICK c : c = at[1]
  OBVIOUS
<1> PICK here : here = chunks[c]
  OBVIOUS
<1>1. PICK all : all = IF here \in DOMAIN seg THEN Content(here) ELSE <<>>
  OBVIOUS
<1>2. PICK J : J = {j \in DOMAIN all : Eligible(all[j])}
  OBVIOUS
<1>3. PICK new : new = {<<all[i].ts, c, i, all[i].id>> : i \in J}
  BY ZenonT(40)
<1>4. PICK K : K = Kept(heap \cup new)
  OBVIOUS
<1>5. /\ heap' = K /\ at' = <<c + 1, 0>> /\ matching' = matching + Cardinality(new)
      /\ UNCHANGED <<kind, top, chunks, answer, seg, data, written, span>> /\ c \in Nat
  <2>1. /\ heap' = K /\ at' = <<c + 1, 0>> /\ matching' = matching + Cardinality(new)
        /\ UNCHANGED <<kind, top, chunks, answer>>
    BY <1>1, <1>2, <1>3, <1>4 DEF MergeFile
  <2>2. c \in Nat
    <3>1. c \in 1..Len(chunks) + 1 /\ Len(chunks) \in Nat
      BY DEF MergeInv
    <3> QED BY <3>1
  <2> QED BY <2>1, <2>2, SMTT(30) DEF storeVars, readVars
<1>6. /\ Len(chunks) \in Nat /\ c \in 1..Len(chunks) /\ here \in Segments
  <2>1. chunks \in Seq(Segments) /\ c \in 1..Len(chunks) + 1 /\ c <= Len(chunks)
    BY DEF MergeInv, MergeFile
  <2>2. Len(chunks) \in Nat
    BY <2>1
  <2>3. c \in 1..Len(chunks)
    BY <2>1, <2>2
  <2> QED BY <2>1, <2>2, <2>3, ElementOfSeq
<1>7. /\ DOMAIN all = 1..Len(all) /\ Len(all) \in Nat
      /\ \A i \in DOMAIN all : all[i] \in [id : Nat, ts : Times]
      /\ here \in DOMAIN seg => all = data[<<here, seg[here]>>]
  <2>1. CASE here \in DOMAIN seg
    <3>1. <<here, seg[here]>> \in DOMAIN data /\ all = data[<<here, seg[here]>>]
      BY <1>1, <2>1 DEF Content, StoreInv
    <3> PICK f \in DOMAIN data : f = <<here, seg[here]>>
      BY <3>1
    <3>2. IsSequence(data[f]) /\ \A k \in DOMAIN data[f] : data[f][k] \in [id : Nat, ts : Times]
      BY DEF StoreInv, LinesInv
    <3>3. all = data[f]
      BY <3>1
    <3>4. Len(all) \in Nat /\ DOMAIN all = 1..Len(all)
      BY <3>2, <3>3, LengthOf
    <3> QED BY <3>1, <3>2, <3>3, <3>4
  <2>2. CASE here \notin DOMAIN seg
    <3>1. all = <<>>
      BY <1>1, <2>2
    <3>2. Len(all) = 0 /\ DOMAIN all = 1..0
      BY <3>1
    <3>3. \A i \in 1..0 : FALSE
      OBVIOUS
    <3> QED BY <2>2, <3>2, <3>3
  <2> QED BY <2>1, <2>2
<1>8. IsFiniteSet(new)
  <2>1. IsFiniteSet(1..Len(all))
    <3>1. 1 \in Int /\ Len(all) \in Int
      BY <1>7
    <3> QED BY <3>1, FS_Interval
  <2>2. J \in SUBSET (1..Len(all))
    BY <1>2, <1>7
  <2>3. IsFiniteSet(J)
    BY <2>1, <2>2, FS_Subset
  <2> DEFINE g == [i \in J |-> <<all[i].ts, c, i, all[i].id>>]
  <2>4. g \in [J -> new] /\ \A t \in new : \E i \in J : g[i] = t
    BY <1>3
  <2> HIDE DEF g
  <2>5. g \in Surjection(J, new)
    BY <2>4 DEF Surjection
  <2> QED BY <2>3, <2>5, FS_Surjection
<1>9. heap \cap new = {}
  <2> SUFFICES ASSUME NEW e \in heap, e \in new PROVE FALSE
    OBVIOUS
  <2>1. PICK i \in J : e = <<all[i].ts, c, i, all[i].id>>
    BY <1>3
  <2>2. e[2] = c
    BY <2>1
  <2>3. e[2] < c
    BY DEF MergeInv
  <2> QED BY <1>5, <2>2, <2>3
<1>10. /\ IsFiniteSet(heap) /\ K \in SUBSET (heap \cup new)
      /\ matching \in Nat /\ Cardinality(heap) <= matching
  BY <1>4 DEF Kept, MergeInv, CountInv
<1>11. /\ matching' \in Nat /\ Cardinality(K) <= matching'
       /\ matching' = Cardinality(K) => matching = Cardinality(heap) /\ K = heap \cup new
  <2>1. /\ matching + Cardinality(new) \in Nat /\ Cardinality(K) <= matching + Cardinality(new)
        /\ matching + Cardinality(new) = Cardinality(K) =>
              matching = Cardinality(heap) /\ K = heap \cup new
    BY <1>8, <1>9, <1>10, AddedUp, Zenon
  <2> QED BY <1>5, <2>1
<1>12. /\ Positions' = Positions /\ \A p : At(p)' = At(p) /\ (Remains(p, top)' <=> Remains(p, top))
      /\ \A x : Eligible(x)' <=> Eligible(x)
      /\ \A p, n : ListedBefore(p, n)' <=> ListedBefore(p, n)
  <2>1. Positions' = Positions /\ \A p : At(p)' = At(p)
    BY <1>5 DEF Positions, At
  <2>2. \A p : Remains(p, top)' <=> Remains(p, top)
    BY <1>5, <2>1 DEF Remains, Stored, Matches
  <2>3. Token' = Token
    BY <1>5 DEF Token
  <2>4. \A x : Eligible(x)' <=> Eligible(x)
    BY <1>5, <2>3 DEF Eligible, Matches
  <2>5. \A p, n : ListedBefore(p, n)' <=> ListedBefore(p, n)
    BY <1>5 DEF ListedBefore, SegmentOf
  <2> QED BY <2>1, <2>2, <2>4, <2>5
<1>13. ASSUME matching' = Cardinality(K), NEW p \in Positions, Remains(p, top), Eligible(At(p)),
             ListedBefore(p, c + 1)
      PROVE  \E e \in K : Line(e) = At(p)
  <2>1. matching = Cardinality(heap) /\ K = heap \cup new
    BY <1>11, <1>13
  <2>2. PICK k \in 1..Len(chunks) : k < c + 1 /\ chunks[k] = SegmentOf(p)
    BY <1>13 DEF ListedBefore
  <2>3. CASE k = c
    <3>1. here \in DOMAIN seg /\ seg[here] = p[3] /\ here = SegmentOf(p)
      BY <1>13, <2>2, <2>3 DEF Remains, Stored, SegmentOf
    <3>2. p[4] \in DOMAIN all /\ At(p) = all[p[4]]
      <4>1. /\ p[4] \in DOMAIN data[<<SegmentOf(p), p[3]>>]
            /\ At(p) = data[<<SegmentOf(p), p[3]>>][p[4]]
        BY PlaceHas
      <4> QED BY <1>7, <3>1, <4>1
    <3> PICK i \in J : i = p[4]
      BY <1>2, <1>13, <3>2
    <3> PICK x \in new : x = <<all[i].ts, c, i, all[i].id>>
      BY <1>3
    <3>3. Line(x) = At(p)
      <4>1. i \in DOMAIN all
        BY <1>2
      <4>2. all[i] \in [id : Nat, ts : Times]
        BY <1>7, <4>1
      <4>3. all[i] = [id |-> all[i].id, ts |-> all[i].ts]
        BY <4>2
      <4> QED BY <3>2, <4>3 DEF Line
    <3> QED BY <2>1, <3>3
  <2>4. CASE k # c
    <3>1. ListedBefore(p, c)
      <4>1. k < c
        BY <1>5, <1>6, <2>2, <2>4
      <4> QED BY <2>2, <4>1 DEF ListedBefore
    <3>2. \E e \in heap : Line(e) = At(p)
      BY <1>13, <2>1, <3>1 DEF CountInv
    <3> QED BY <2>1, <3>2
  <2> QED BY <2>3, <2>4
<1>14. ASSUME matching' = Cardinality(heap'), NEW p \in Positions', Remains(p, top)',
              Eligible(At(p))', ListedBefore(p, at[1])'
       PROVE  (\E e \in heap : Line(e) = At(p))'
  <2> PICK x : x = At(p)
    OBVIOUS
  <2>1. p \in Positions /\ Remains(p, top) /\ At(p)' = x
    BY <1>12, <1>14
  <2>2. Eligible(x)
    <3>1. Eligible(x)'
      BY <1>14, <2>1 DEF Eligible, Matches
    <3> QED BY <1>12, <3>1
  <2>3. ListedBefore(p, c + 1)
    BY <1>5, <1>14 DEF ListedBefore, SegmentOf
  <2>4. \E e \in K : Line(e) = x
    BY <1>5, <1>13, <1>14, <2>1, <2>2, <2>3
  <2> QED BY <1>5, <2>1, <2>4 DEF Line
<1> QED BY <1>5, <1>11, <1>14 DEF CountInv

\* An entry of the heap is a line in the store.
LEMMA EntryKnown ==
    ASSUME StoreInv, LinesInv, FilesInv, NEW e, Entry(e)
    PROVE  \E p \in Positions : At(p) = Line(e)
<1>1. PICK f \in DOMAIN data : e[3] \in DOMAIN data[f] /\ data[f][e[3]] = Line(e)
  BY DEF Entry
<1>2. e[3] \in 1..MaxLines
  <2> PICK k : k = e[3]
    OBVIOUS
  <2>1. k \in 1..Len(data[f]) /\ Len(data[f]) \in Nat
    BY <1>1, LengthOf DEF StoreInv
  <2>2. k <= written /\ written <= FirstLines + changes
    BY <1>1 DEF FilesInv
  <2>3. written \in Nat /\ changes \in Nat /\ changes <= MaxChanges
    BY DEF StoreInv, LinesInv
  <2> QED BY <2>1, <2>2, <2>3, StoreAssumption DEF MaxLines
<1> QED BY <1>1, <1>2, PlaceOf

\* How a merge is answered, and which tokens it is answered with.
LEMMA MergeAnswered ==
    ASSUME MergeAnswer, NEW page, page = PageOf(heap)
    PROVE  /\ pc = "merge" /\ at[1] > Len(chunks)
           /\ answer'.kind = kind /\ answer'.merged = TRUE /\ answer'.lines = page
           /\ answer'.top = top /\ answer'.from = answer.lines
           /\ answer'.next = None /\ page # <<>> =>
                 IF Reversed THEN Token = None ELSE ~(matching > Len(page))
           /\ answer'.prev = None /\ page # <<>> =>
                 IF Reversed THEN ~(matching > Len(page)) ELSE Token = None
           /\ pc' = "idle" /\ matching' = 0
<1> DEFINE more(s) == matching > Len(s)
           newer(s) == IF Reversed THEN Token # None ELSE more(s)
           older(s) == IF Reversed THEN more(s) ELSE Token # None
           next(s) == IF newer(s) /\ s # <<>> THEN ForwardToken(s[Len(s)].ts) ELSE None
           prev(s) == IF older(s) /\ s # <<>> THEN BackwardToken(s[1].ts) ELSE None
<1>1. pc = "merge" /\ at[1] > Len(chunks) /\ Answer(TRUE, page, next(page), prev(page))
  <2>1. /\ pc = "merge" /\ at[1] > Len(chunks)
        /\ Answer(TRUE, PageOf(heap), next(PageOf(heap)), prev(PageOf(heap)))
    BY Zenon DEF MergeAnswer, PageOf
  <2> HIDE DEF next, prev
  <2> QED BY <2>1
<1>2. /\ ForwardToken(page[Len(page)].ts) # None
      /\ BackwardToken(page[1].ts) # None
  BY DEF ForwardToken, BackwardToken, None
<1>3. next(page) = None /\ page # <<>> => ~newer(page)
  <2> HIDE DEF newer
  <2> QED BY <1>2
<1>4. prev(page) = None /\ page # <<>> => ~older(page)
  <2> HIDE DEF older
  <2> QED BY <1>2
<1>5. newer(page) <=> IF Reversed THEN Token # None ELSE matching > Len(page)
  OBVIOUS
<1>6. older(page) <=> IF Reversed THEN matching > Len(page) ELSE Token # None
  OBVIOUS
<1> HIDE DEF next, prev, newer, older
<1>7. /\ answer'.kind = kind /\ answer'.merged = TRUE /\ answer'.lines = page
      /\ answer'.top = top /\ answer'.from = answer.lines
      /\ answer'.next = next(page) /\ answer'.prev = prev(page)
      /\ pc' = "idle" /\ matching' = 0
  BY <1>1 DEF Answer, Idle
<1>8. answer'.next = None /\ page # <<>> => IF Reversed THEN Token = None ELSE ~(matching > Len(page))
  BY <1>3, <1>5, <1>7
<1>9. answer'.prev = None /\ page # <<>> => IF Reversed THEN ~(matching > Len(page)) ELSE Token = None
  BY <1>4, <1>6, <1>7
<1> QED BY <1>1, <1>7, <1>8, <1>9

\* A line is on the page, or before where it starts, or after where it ends.
LEMMA MergeShows ==
    ASSUME StoreInv, LinesInv, AnswerInv, RequestInv, MergeInv, CountInv,
           pc = "merge", at[1] > Len(chunks), NEW page, page = PageOf(heap),
           NEW p \in Positions, Remains(p, top)
    PROVE  \/ At(p) \in Set(page)
           \/ /\ kind = "next" /\ answer.lines[Len(answer.lines)] \in Set(answer.lines)
              /\ At(p).ts <= answer.lines[Len(answer.lines)].ts
           \/ /\ kind = "prev" /\ answer.lines[1] \in Set(answer.lines)
              /\ At(p).ts >= answer.lines[1].ts
           \/ /\ page # <<>> /\ matching > Len(page)
              /\ \A line \in Set(page) : IF Reversed THEN At(p).ts <= line.ts ELSE At(p).ts >= line.ts
<1>1. /\ DOMAIN page = 1..Len(page) /\ Len(page) \in Nat /\ Len(page) = Cardinality(heap)
      /\ \A i \in 1..Len(page) : \E e \in heap : page[i] = Line(e)
      /\ \A e \in heap : \E i \in 1..Len(page) : page[i] = Line(e)
  BY PageListed, ZenonT(40)
<1>2. At(p).ts \in Int /\ Matches(At(p))
  <2>1. At(p) \in [id : Nat, ts : Times]
    BY PlaceHas
  <2>2. At(p).ts \in Times
    BY <2>1
  <2>3. Matches(At(p))
    BY DEF Remains
  <2> QED BY <2>2, <2>3, TimesInt
<1>3. CASE Eligible(At(p))
  <2>1. ListedBefore(p, at[1])
    <3>1. ListedBefore(p, Len(chunks) + 1)
      BY DEF MergeInv
    <3>2. at[1] = Len(chunks) + 1
      <4>1. at[1] \in 1..Len(chunks) + 1 /\ chunks \in Seq(Segments)
        BY DEF MergeInv
      <4>2. Len(chunks) \in Nat
        BY <4>1
      <4> QED BY <4>1, <4>2
    <3> QED BY <3>1, <3>2
  <2>2. ASSUME NEW e \in heap, Line(e) = At(p) PROVE At(p) \in Set(page)
    BY <1>1, <2>2 DEF Set
  <2>3. CASE Outdone(p) /\ matching # Cardinality(heap)
    <3>1. /\ Cardinality(heap) = PageSize
          /\ \A e \in heap : IF Reversed THEN At(p).ts <= e[1] ELSE At(p).ts >= e[1]
      BY <2>3 DEF Outdone
    <3>2. page # <<>>
      <4>1. Len(page) # 0
        BY <1>1, <3>1, PagesAssumption
      <4> QED BY <4>1
    <3>3. matching > Len(page)
      BY <1>1, <2>3 DEF CountInv
    <3>4. ASSUME NEW x \in Set(page)
          PROVE  IF Reversed THEN At(p).ts <= x.ts ELSE At(p).ts >= x.ts
      <4>1. PICK e \in heap : x = Line(e)
        BY <1>1 DEF Set
      <4>2. x.ts = e[1]
        BY <4>1 DEF Line
      <4> QED BY <3>1, <4>2
    <3> QED BY <3>2, <3>3, <3>4
  <2>4. CASE matching = Cardinality(heap)
    <3>1. \E e \in heap : Line(e) = At(p)
      BY <1>3, <2>1, <2>4 DEF CountInv
    <3> QED BY <2>2, <3>1
  <2>5. (\E e \in heap : Line(e) = At(p)) \/ Outdone(p)
    BY <1>3, <2>1 DEF MergeInv
  <2> QED BY <2>2, <2>3, <2>4, <2>5
<1>4. CASE ~Eligible(At(p))
  <2>1. Token # None /\ ~IF Token[1] = "after" THEN At(p).ts > Token[2] ELSE At(p).ts < Token[2]
    BY <1>2, <1>4 DEF Eligible
  <2>2. answer.merged /\ answer.lines \in Seq([id : Nat, ts : Times])
    BY <2>1 DEF MergeInv, AnswerInv
  <2>3. ASSUME NEW k \in 1..Len(answer.lines)
        PROVE  answer.lines[k] \in Set(answer.lines) /\ answer.lines[k].ts \in Int
    <3>1. DOMAIN answer.lines = 1..Len(answer.lines)
      BY <2>2, LenProperties
    <3>2. answer.lines[k] \in [id : Nat, ts : Times]
      BY <2>2, ElementOfSeq
    <3>3. answer.lines[k].ts \in Times
      BY <3>2
    <3> QED BY <3>1, <3>3, TimesInt DEF Set
  <2>4. answer.lines # <<>>
    <3>1. \/ Token = answer.next /\ answer.next # None
          \/ Token = answer.prev /\ answer.prev # None
      BY <2>1 DEF Token
    <3> QED BY <2>2, <3>1 DEF AnswerInv
  <2>5. 1 \in 1..Len(answer.lines) /\ Len(answer.lines) \in 1..Len(answer.lines)
    BY <2>2, <2>4
  <2>6. CASE kind = "next"
    <3> PICK t : t = answer.lines[Len(answer.lines)].ts
      OBVIOUS
    <3>1. Token[1] = "after" /\ Token[2] = t
      BY <2>6, TokenTimes
    <3>2. t \in Int /\ ~(At(p).ts > t)
      BY <2>1, <2>3, <2>5, <3>1
    <3>3. At(p).ts <= t
      BY <1>2, <3>2
    <3> QED BY <2>3, <2>5, <2>6, <3>3
  <2>7. CASE kind = "prev"
    <3> PICK t : t = answer.lines[1].ts
      OBVIOUS
    <3>1. Token[1] # "after" /\ Token[2] = t
      <4>1. Token[1] = "before" /\ Token[2] = t
        BY <2>7, TokenTimes
      <4> QED BY <4>1
    <3>2. t \in Int /\ ~(At(p).ts < t)
      BY <2>1, <2>3, <2>5, <3>1
    <3>3. At(p).ts >= t
      BY <1>2, <3>2
    <3> QED BY <2>3, <2>5, <2>7, <3>3
  <2> QED BY <2>1, <2>6, <2>7, TokenTimes
<1> QED BY <1>3, <1>4

\* A merge answers: with no token, it kept all it counted, and has passed every file.
LEMMA MergeAnswerEnds ==
    ASSUME Asking, MergeInv, CountInv, MergedEnds, UNCHANGED <<storeVars, readVars>>, MergeAnswer
    PROVE  MergedEnds'
<1> PICK page : page = PageOf(heap)
  OBVIOUS
<1> PICK old : old = answer.lines
  OBVIOUS
<1>1. /\ pc = "merge" /\ at[1] > Len(chunks)
      /\ answer'.kind = kind /\ answer'.lines = page
      /\ answer'.top = top /\ answer'.from = old
      /\ answer'.next = None /\ page # <<>> =>
            IF Reversed THEN Token = None ELSE ~(matching > Len(page))
      /\ answer'.prev = None /\ page # <<>> =>
            IF Reversed THEN ~(matching > Len(page)) ELSE Token = None
  BY MergeAnswered
<1> PICK S : S = Set(page) \cup (IF kind \in {"next", "prev"} THEN Set(old) ELSE {})
  OBVIOUS
<1>2. Seen' = S
  BY <1>1 DEF Seen, Set
<1>3. Positions' = Positions /\ \A p : At(p)' = At(p) /\ (Remains(p, answer.top)' <=> Remains(p, top))
  <2>1. UNCHANGED <<seg, data, written, span>>
    BY DEF storeVars, readVars
  <2>2. Positions' = Positions /\ \A p : At(p)' = At(p)
    BY <2>1 DEF Positions, At
  <2> QED BY <1>1, <2>1, <2>2 DEF Remains, Stored, Matches
<1>4. /\ kind = "next" => Token # None
      /\ kind = "prev" => Token # None
      /\ Reversed <=> kind \in {"last", "prev"}
  BY <1>1, TokenTimes DEF Asking
<1>5. Known(S)
  <2>1. Known(Set(page))
    <3> SUFFICES ASSUME NEW x \in Set(page) PROVE \E p \in Positions : At(p) = x
      BY DEF Known
    <3>1. /\ DOMAIN page = 1..Len(page)
          /\ \A i \in 1..Len(page) : \E e \in heap : page[i] = Line(e)
      BY PageListed, Zenon DEF Asking
    <3>2. PICK e \in heap : x = Line(e)
      BY <3>1 DEF Set
    <3>3. Entry(e)
      BY DEF MergeInv
    <3> QED BY <3>2, <3>3, EntryKnown DEF Asking
  <2>2. ASSUME kind \in {"next", "prev"} PROVE Known(Set(old))
    <3>1. \/ Token = answer.next /\ answer.next # None
          \/ Token = answer.prev /\ answer.prev # None
      BY <1>4, <2>2 DEF Token
    <3>2. answer.kind # "none"
      BY <3>1 DEF Asking, OffsetAnswerInv
    <3>3. answer.merged
      BY <3>1 DEF MergeInv
    <3>4. Known(Seen)
      BY <3>2, <3>3 DEF MergedEnds
    <3> QED BY <3>4 DEF Known, Seen
  <2>3. CASE kind \in {"next", "prev"}
    <3>1. Known(Set(old))
      BY <2>2, <2>3
    <3> QED BY <2>1, <2>3, <3>1 DEF Known
  <2>4. CASE kind \notin {"next", "prev"}
    BY <2>1, <2>4
  <2> QED BY <2>3, <2>4
<1>6. Known(Seen)'
  BY <1>2, <1>3, <1>5 DEF Known
<1>7. ASSUME NEW p \in Positions, Remains(p, top)
      PROVE  \/ At(p) \in Set(page)
             \/ kind = "next" /\ \E line \in Set(old) : At(p).ts <= line.ts
             \/ kind = "prev" /\ \E line \in Set(old) : At(p).ts >= line.ts
             \/ /\ page # <<>> /\ matching > Len(page)
                /\ \E line \in Set(page) : IF Reversed THEN At(p).ts <= line.ts ELSE At(p).ts >= line.ts
  <2>1. \/ At(p) \in Set(page)
        \/ /\ kind = "next" /\ old[Len(old)] \in Set(old)
           /\ At(p).ts <= old[Len(old)].ts
        \/ /\ kind = "prev" /\ old[1] \in Set(old)
           /\ At(p).ts >= old[1].ts
        \/ /\ page # <<>> /\ matching > Len(page)
           /\ \A line \in Set(page) : IF Reversed THEN At(p).ts <= line.ts ELSE At(p).ts >= line.ts
    BY <1>1, <1>7, MergeShows DEF Asking
  <2>2. ASSUME page # <<>> PROVE \E line : line \in Set(page)
    <3>1. page \in Seq([id : Nat, ts : Times]) /\ DOMAIN page = 1..Len(page)
      BY PageListed, Zenon DEF Asking
    <3>2. 1 \in DOMAIN page
      BY <2>2, <3>1
    <3> QED BY <3>2 DEF Set
  <2> QED BY <2>1, <2>2
<1>8. ASSUME NEW p \in Positions PROVE At(p).ts <= At(p).ts /\ At(p).ts >= At(p).ts
  <2>1. At(p) \in [id : Nat, ts : Times]
    BY PlaceHas DEF Asking
  <2>2. At(p).ts \in Times
    BY <2>1
  <2> PICK t : t = At(p).ts
    OBVIOUS
  <2>3. t \in Int
    BY <2>2, TimesInt
  <2>4. t <= t /\ t >= t
    BY <2>3
  <2> QED BY <2>4
<1>9. ASSUME answer'.next = None, kind # "prev" \/ page # <<>>, NEW p \in Positions, Remains(p, top)
      PROVE  \E line \in S : At(p).ts <= line.ts
  <2>1. CASE At(p) \in Set(page)
    BY <1>8, <2>1
  <2>2. CASE kind = "next" /\ \E line \in Set(old) : At(p).ts <= line.ts
    BY <2>2
  <2>3. kind # "prev"
    BY <1>1, <1>4, <1>9
  <2>4. CASE /\ page # <<>> /\ matching > Len(page)
             /\ \E line \in Set(page) : IF Reversed THEN At(p).ts <= line.ts ELSE At(p).ts >= line.ts
    BY <1>1, <1>9, <2>4
  <2> QED BY <1>7, <1>9, <2>1, <2>2, <2>3, <2>4
<1>10. ASSUME answer'.prev = None, kind # "next" \/ page # <<>>, NEW p \in Positions, Remains(p, top)
       PROVE  \E line \in S : At(p).ts >= line.ts
  <2>1. CASE At(p) \in Set(page)
    BY <1>8, <2>1
  <2>2. CASE kind = "prev" /\ \E line \in Set(old) : At(p).ts >= line.ts
    BY <2>2
  <2>3. kind # "next"
    BY <1>1, <1>4, <1>10
  <2>4. CASE /\ page # <<>> /\ matching > Len(page)
             /\ \E line \in Set(page) : IF Reversed THEN At(p).ts <= line.ts ELSE At(p).ts >= line.ts
    BY <1>1, <1>10, <2>4
  <2> QED BY <1>7, <1>10, <2>1, <2>2, <2>3, <2>4
<1>11. (answer.next = None /\ (answer.kind # "prev" \/ answer.lines # <<>>) => NoneLater)'
  BY <1>1, <1>2, <1>3, <1>9 DEF NoneLater
<1>12. (answer.prev = None /\ (answer.kind # "next" \/ answer.lines # <<>>) => NoneEarlier)'
  BY <1>1, <1>2, <1>3, <1>10 DEF NoneEarlier
<1> QED BY <1>6, <1>11, <1>12 DEF MergedEnds

\* Every step of a request for pages keeps the invariant.
LEMMA PageEnds ==
    ASSUME StoreInv, LinesInv, FilesInv, PagesInv, OffsetsInv, EndsInv, Page
    PROVE  EndsInv'
<1>1. request \in {"pages", "workload"} /\ PagesNext /\ UNCHANGED <<storeVars, readVars>>
  BY DEF Page
<1>2. Moves
  BY <1>1, StandsStill
<1>3. Asking
  BY <1>1, <1>2 DEF Asking, PagesInv, OffsetsInv
<1>4. /\ pc \in {"idle", "dispatch"} => matching = 0
      /\ pc = "merge" => CountInv /\ MergeInv
      /\ MergedEnds
  BY <1>1 DEF EndsInv, PagesInv
<1>5. UNCHANGED answer => MergedEnds'
  BY <1>2, <1>3, <1>4, MergedEndsRest DEF Asking
<1>6. ASSUME NEW page, NEW next, NEW prev, Answer(FALSE, page, next, prev)
      PROVE  MergedEnds' /\ pc' = "idle" /\ matching' = 0
  <2>1. answer'.merged = FALSE /\ pc' = "idle" /\ matching' = 0
    BY <1>6 DEF Answer, Idle
  <2> QED BY <2>1 DEF MergedEnds
<1>7. CASE Err
  BY <1>5, <1>7 DEF EndsInv, Err, Idle
<1>8. CASE pc' \notin {"idle", "dispatch", "merge"} /\ UNCHANGED answer
  BY <1>5, <1>8 DEF EndsInv
<1>9. CASE \E k \in {"first", "last", "next", "prev"} : Ask(k)
  <2>1. pc = "idle" /\ pc' = "dispatch" /\ UNCHANGED <<matching, answer>>
    BY <1>9 DEF Ask, Asks
  <2> QED BY <1>4, <1>5, <2>1 DEF EndsInv
<1>10. CASE Dispatch
  <2>1. CASE pc' = "merge" /\ at' = <<1, 0>> /\ UNCHANGED <<heap, matching, answer>>
    <3>1. heap = {} /\ matching = 0
      BY <1>3, <1>4, <1>10 DEF Asking, RequestInv, Dispatch
    <3>2. Cardinality(heap') = 0 /\ matching' = 0
      BY <2>1, <3>1, FS_EmptySet
    <3>3. \A p : ~ListedBefore(p, at[1])'
      BY <2>1 DEF ListedBefore
    <3>4. CountInv'
      BY <3>2, <3>3 DEF CountInv
    <3> QED BY <1>5, <2>1, <3>4 DEF EndsInv
  <2> QED BY <1>7, <1>8, <1>10, <2>1 DEF Dispatch
<1>11. CASE ScanFile
  <2>1. pc \in {"scan", "prev"}
    BY <1>11 DEF ScanFile
  <2>2. CASE UNCHANGED answer /\ pc' \in {"scan", "prev", "read"}
    BY <1>8, <2>2, SMTT(30)
  <2>3. ASSUME NEW back, Answer(FALSE, lines, at, <<"offset", chunks[back[1]], back[2]>>)
        PROVE  EndsInv'
    BY <1>6, <2>3, ZenonT(40) DEF EndsInv
  <2> QED BY <1>7, <1>11, <2>1, <2>2, <2>3 DEF ScanFile
<1>12. CASE ReadFile
  <2>1. pc = "read"
    BY <1>12 DEF ReadFile
  <2>2. ASSUME NEW page, NEW next, PageRead(page, next) PROVE EndsInv'
    <3>1. CASE Answer(FALSE, page, next, None)
      BY <1>6, <3>1 DEF EndsInv
    <3>2. CASE pc' = "prev" /\ UNCHANGED answer
      BY <1>8, <3>2
    <3> QED BY <2>2, <3>1, <3>2 DEF PageRead
  <2>3. CASE UNCHANGED <<pc, answer>>
    BY <1>8, <2>1, <2>3
  <2> QED BY <1>7, <1>12, <2>2, <2>3, SMTT(30) DEF ReadFile
<1>13. CASE MergeFile
  <2>1. pc = "merge" /\ pc' = "merge" /\ UNCHANGED answer
    BY <1>13 DEF MergeFile
  <2>2. CountInv'
    BY <1>1, <1>3, <1>4, <1>13, <2>1, MergeFileCounts DEF Asking
  <2> QED BY <1>5, <2>1, <2>2 DEF EndsInv
<1>14. CASE MergeAnswer
  <2>1. pc = "merge" /\ pc' = "idle" /\ matching' = 0
    <3> PICK page : page = PageOf(heap)
      OBVIOUS
    <3> QED BY <1>14, MergeAnswered
  <2>2. MergedEnds'
    BY <1>1, <1>3, <1>4, <1>14, <2>1, MergeAnswerEnds
  <2> QED BY <2>1, <2>2 DEF EndsInv
<1> QED BY <1>1, <1>9, <1>10, <1>11, <1>12, <1>13, <1>14 DEF PagesNext

\* What a merge has counted, and where the pages that it answered end, whatever the store
\* does while it runs and afterwards (mergedLogsPage of log_service.go).
THEOREM EndsInvariant == Spec => []EndsInv
<1> DEFINE Inv == StoreInv /\ LinesInv /\ PagesInv
           JInv == FilesInv /\ OffsetsInv
<1>1. Init => EndsInv
  <2> SUFFICES ASSUME Init PROVE EndsInv
    OBVIOUS
  <2>1. pc = "idle" /\ matching = 0 /\ answer = NoAnswer
    BY DEF Init, PagesInit
  <2> QED BY <2>1 DEF EndsInv, MergedEnds, NoAnswer
<1>2. Inv /\ JInv /\ Inv' /\ EndsInv /\ [Next]_vars => EndsInv'
  <2> SUFFICES ASSUME StoreInv, LinesInv, PagesInv, FilesInv, OffsetsInv, StoreInv', LinesInv',
                      EndsInv, [Next]_vars
               PROVE  EndsInv'
    OBVIOUS
  <2>1. ASSUME Moves, UNCHANGED <<request, pageVars>> PROVE EndsInv'
    <3> SUFFICES ASSUME request # "index" PROVE EndsInv'
      BY <2>1 DEF EndsInv
    <3>1. UNCHANGED <<pc, matching, answer>> /\ AnswerInv /\ RequestInv /\ MergedEnds
      BY <2>1 DEF EndsInv, PagesInv, pageVars
    <3>2. MergedEnds'
      BY <2>1, <3>1, MergedEndsRest
    <3>3. ASSUME pc = "merge" PROVE CountInv'
      <4>1. top \in Nat /\ top <= written /\ CountInv
        BY <3>1, <3>3 DEF RequestInv, EndsInv
      <4> QED BY <2>1, <4>1, CountRests
    <3> QED BY <3>1, <3>2, <3>3 DEF EndsInv
  <2>2. CASE Store
    <3>1. StoreNext /\ UNCHANGED <<request, span, pageVars>>
      BY <2>2 DEF Store, readVars
    <3>2. Grows /\ \A x \in DOMAIN seg' \ DOMAIN seg : DOMAIN data'[<<x, seg'[x]>>] = {}
      BY <3>1, StoreMoves, LinesMove
    <3>3. Moves
      BY <3>1, <3>2 DEF Moves
    <3> QED BY <2>1, <3>1, <3>3
  <2>3. CASE Page
    BY <2>3, PageEnds
  <2>4. CASE IndexPage
    BY <2>4 DEF EndsInv, IndexPage, readVars
  <2>5. CASE Fetch \/ Find \/ Done \/ UNCHANGED vars
    <3>1. UNCHANGED <<storeVars, readVars, pageVars>>
      BY <2>5 DEF Fetch, Find, Done, vars
    <3>2. Moves
      BY <3>1, StandsStill
    <3>3. request' = request
      BY <3>1 DEF readVars
    <3> QED BY <2>1, <3>1, <3>2, <3>3
  <2> QED BY <2>2, <2>3, <2>4, <2>5 DEF Next
<1> HIDE DEF Inv, JInv
<1>3. Spec => []Inv
  BY PagesInvariant DEF Inv
<1>4. Spec => []JInv
  BY OffsetsInvariant DEF JInv
<1> QED BY <1>1, <1>2, <1>3, <1>4, PTL DEF Spec

\* A place of a line that has been seen is one of those that the property speaks of.
LEMMA SeenWhere ==
    ASSUME NEW S, Known(S), NEW line \in S
    PROVE  \E a \in Where(S) : At(a) = line
BY DEF Known, Where

\* No token means there is no more: an answer without a next (previous) page's token is
\* not followed (preceded) by a line the client has not been shown (hasMoreAfterCurrent,
\* mergedLogsPage of log_service.go; log_service.proto:132).
THEOREM PagesEnd == Spec => []EndsAreEnds
<1> DEFINE Inv == StoreInv /\ LinesInv /\ OffsetsInv /\ EndsInv
<1>1. Inv => EndsAreEnds
  <2> SUFFICES ASSUME StoreInv, LinesInv, OffsetsInv, EndsInv, Answered, request # "index",
                      Where(Seen) # {}
               PROVE  LET bef(p, a) == IF answer.merged THEN At(p).ts < At(a).ts ELSE Below(p, a)
                      IN  /\ answer.next = None /\ (answer.kind # "prev" \/ answer.lines # <<>>) =>
                              ~\E p \in Old : /\ answer.merged \/ answer.lines # <<>> \/ p[3] = 1
                                             /\ \A a \in Where(Seen) : bef(a, p)
                          /\ answer.prev = None /\ (answer.kind # "next" \/ answer.lines # <<>>) =>
                              ~\E p \in Old : \A a \in Where(Seen) : bef(p, a)
    BY DEF EndsAreEnds, Seen
  <2>1. answer.kind # "none"
    BY DEF Answered
  <2>2. \A p \in Old : p \in Positions /\ Remains(p, answer.top)
    BY DEF Old, Stored, Remains
  <2>3. Seen # {}
    BY DEF Where
  <2>4. CASE answer.merged
    <3>1. /\ Known(Seen)
          /\ answer.next = None /\ (answer.kind # "prev" \/ answer.lines # <<>>) => NoneLater
          /\ answer.prev = None /\ (answer.kind # "next" \/ answer.lines # <<>>) => NoneEarlier
      BY <2>1, <2>4 DEF EndsInv, MergedEnds
    <3>2. ASSUME NEW p \in Positions PROVE At(p).ts \in Int
      <4>1. At(p) \in [id : Nat, ts : Times]
        BY PlaceHas
      <4>2. At(p).ts \in Times
        BY <4>1
      <4> QED BY <4>2, TimesInt
    <3>3. ASSUME NoneLater, NEW p \in Old, \A a \in Where(Seen) : At(a).ts < At(p).ts PROVE FALSE
      <4>1. PICK line \in Seen : At(p).ts <= line.ts
        BY <2>2, <2>3, <3>3 DEF NoneLater
      <4>2. PICK a \in Where(Seen) : At(a) = line
        BY <3>1, SeenWhere
      <4>3. a \in Positions /\ p \in Positions
        BY <2>2 DEF Where
      <4>4. At(a).ts < At(p).ts /\ At(p).ts <= At(a).ts
        BY <3>3, <4>1, <4>2
      <4> QED BY <3>2, <4>3, <4>4
    <3>4. ASSUME NoneEarlier, NEW p \in Old, \A a \in Where(Seen) : At(p).ts < At(a).ts PROVE FALSE
      <4>1. PICK line \in Seen : At(p).ts >= line.ts
        BY <2>2, <2>3, <3>4 DEF NoneEarlier
      <4>2. PICK a \in Where(Seen) : At(a) = line
        BY <3>1, SeenWhere
      <4>3. a \in Positions /\ p \in Positions
        BY <2>2 DEF Where
      <4>4. At(p).ts < At(a).ts /\ At(p).ts >= At(a).ts
        BY <3>4, <4>1, <4>2
      <4> QED BY <3>2, <4>3, <4>4
    <3> QED BY <2>4, <3>1, <3>3, <3>4
  <2>5. CASE ~answer.merged
    <3> PICK L : L = answer.lines
      OBVIOUS
    <3> PICK last : last = Last(answer.kind, answer.from)
      OBVIOUS
    <3>1. /\ Known(Set(L)) /\ Known(last)
          /\ answer.next = None => NoneAfter(L, last, answer.top)
      BY <2>5, OffsetAnswerIs DEF PageInv
    <3>2. answer.prev = None => NoneBefore(L, answer.top) \/ (answer.kind = "next" /\ L = <<>>)
      BY <2>1, <2>5 DEF OffsetsInv, OffsetAnswerInv
    <3>3. ASSUME NEW S, S \in SUBSET Seen, NEW a \in Places(S) PROVE a \in Where(Seen)
      BY <3>3 DEF Places, Where
    <3>4. Set(L) \cup last \in SUBSET Seen
      BY FinalOf DEF Seen, Last
    <3>5. ASSUME answer.next = None, answer.kind # "prev" \/ L # <<>>, NEW p \in Old,
                 L # <<>> \/ p[3] = 1, \A a \in Where(Seen) : Below(a, p)
          PROVE  FALSE
      <4>1. Places(Set(L) \cup last) # {}
        <5>1. \E line : line \in Set(L) \cup last
          <6>1. CASE L # <<>>
            <7>1. L \in Seq([id : Nat, ts : Times])
              BY <2>5, OffsetAnswerIs DEF PageInv
            <7>2. 1 \in DOMAIN L
              BY <6>1, <7>1
            <7> QED BY <7>2 DEF Set
          <6>2. CASE L = <<>>
            <7>1. Set(L) = {}
              BY <6>2, EmptySeq DEF Set
            <7>2. answer.kind = "next" /\ Set(answer.from) # {}
              BY <2>3, <3>5, <6>2, <7>1 DEF Seen
            <7>3. answer.from \in Seq([id : Nat, ts : Times])
              BY <2>5, <7>2, OffsetAnswerIs
            <7>4. Len(answer.from) \in DOMAIN answer.from
              <8>1. DOMAIN answer.from = 1..Len(answer.from) /\ Len(answer.from) \in Nat
                BY <7>3, LenProperties
              <8>2. \E i : i \in DOMAIN answer.from
                BY <7>2 DEF Set
              <8> QED BY <8>1, <8>2
            <7>5. answer.from[Len(answer.from)] \in last
              BY <7>2, <7>4 DEF Last, Final
            <7> QED BY <7>5
          <6> QED BY <6>1, <6>2
        <5>2. Known(Set(L) \cup last)
          BY <3>1 DEF Known
        <5> QED BY <5>1, <5>2 DEF Known, Places
      <4>2. PICK a \in Places(Set(L) \cup last) : ~Below(a, p)
        BY <2>2, <3>1, <3>5, <4>1 DEF NoneAfter
      <4> QED BY <3>3, <3>4, <3>5, <4>2
    <3>6. ASSUME NoneBefore(L, answer.top), NEW p \in Old, \A a \in Where(Seen) : Below(p, a) PROVE FALSE
      <4>1. PICK a \in Places(Set(L)) : ~Below(p, a)
        BY <2>2, <3>6 DEF NoneBefore
      <4>2. Set(L) \in SUBSET Seen
        BY <3>4
      <4> QED BY <3>3, <3>6, <4>1, <4>2
    <3> QED BY <2>5, <3>2, <3>5, <3>6
  <2> QED BY <2>4, <2>5
<1> HIDE DEF Inv
<1>2. Spec => []Inv
  BY PagesInvariant, OffsetsInvariant, EndsInvariant, PTL DEF Inv
<1> QED BY <1>1, <1>2, PTL

-----------------------------------------------------------------------------
(* The inductive invariant of paging backwards by offsets. *)

\* While no file has been made again, and of any time.
Once == NoneMadeAgain /\ span[1] = 1

\* Of the lines that there were, those before the line that a page is asked from.
Precedes(p, S) == \A b \in Places(S) : Below(p, b)

Due(n, S) == {p \in Positions : Remains(p, n) /\ Precedes(p, S)}

\* Which those are, for a request: up to which line, and before which.
Since(k, n) == IF k = "prev" THEN FirstLines ELSE n
Upto(k, F) == IF k = "prev" THEN First(F) ELSE {}

\* There are no more of them than this where the page begins.
Most == PageSize + Cardinality(Days) - 1

\* A file has lines up to an offset.
Within(s, o) == o \in Nat /\ \A i \in 1..o : <<s[1], s[2], 1, i>> \in Positions

\* Of a token t for the page before L: not too many are after it, ...
AfterToken(p, t) == Below(t[2], SegmentOf(p)) \/ (SegmentOf(p) = t[2] /\ p[4] > t[3])

Between(t, L) == {p \in Due(FirstLines, First(L)) : AfterToken(p, t)}

\* ... and enough to fill the page, with a line right after it, or there is nothing before.
Filling(t, L, n) ==
    {p \in Positions : At(p).id <= n /\ AfterToken(p, t) /\ Precedes(p, First(L))}

NextTo(p, s, o, n) == At(p).id <= n /\ SegmentOf(p) = s /\ p[4] = o + 1

Fills(t, L, n) ==
    \/ \A p \in Positions : Remains(p, FirstLines) => AfterToken(p, t)
    \/ L = <<>>
    \/ PageSize <= Cardinality(Filling(t, L, n)) /\ \E p \in Positions : NextTo(p, t[2], t[3], n)

TokenBack(t, L, n) ==
    Within(t[2], t[3]) /\ Cardinality(Between(t, L)) <= Most /\ Fills(t, L, n)

\* What is promised of a page L for k that was asked from F: how many are after it, ...
Missed(n, S, L) ==
    {p \in Due(n, S) : Places(Set(L)) # {} /\ \A a \in Places(Set(L)) : Below(a, p)}

Newer(n, L) == {line \in Set(L) : line.id > n}

PageNear(k, L, F, n) ==
    k \in {"last", "prev"} =>
        Cardinality(Missed(Since(k, n), Upto(k, F), L)) < Cardinality(Days)
                                                            + Cardinality(Newer(Since(k, n), L))

\* ... and when it may show lines of F.
Apart(k, L, F) ==
    k = "prev" /\ Set(L) \cap Set(F) # {} =>
        \/ \A p \in Positions : Remains(p, FirstLines) => \E a \in Places(Set(L)) : ~Below(p, a)
        \/ \E p \in Positions \ Stored :
              (\E a \in Places(Set(L)) : Below(a, p)) /\ Precedes(p, First(F))

\* Those past a point of the list of segments, ...
Owed(n, S, c) == {p \in Due(n, S) : Past(p, c)}

\* ... which a scan for the start of a page has reached: it has counted them, but for
\* one of each file.
Reached(sc) == IF sc[2] = Whole THEN <<sc[1] + 1, 0>> ELSE <<sc[1], sc[2]>>

ScanInv(n, S, sc) ==
    /\ sc[1] \in 1..Len(chunks) /\ sc[2] \in Nat \cup {Whole} /\ sc[3] \in 1..PageSize
    /\ sc[2] # Whole => Within(chunks[sc[1]], sc[2])
    /\ Cardinality(Owed(n, S, Reached(sc))) <= PageSize - sc[3] + Len(chunks) - sc[1]

\* It counts no line that is not before the page L it is for.
Counted(L, c) == {p \in Positions : Past(p, c) /\ Precedes(p, First(L))}

PrevInv(L, sc) ==
    /\ start[1] \in 1..Len(chunks)
    /\ IF sc[2] = Whole THEN sc[1] < start[1] ELSE sc[1] = start[1] /\ sc[2] = start[2]
    /\ \A b \in Places(First(L)) : Past(b, start)
    /\ L # <<>> => PageSize - sc[3] <= Cardinality(Counted(L, Reached(sc)))

\* While a page is read, what it has already and what is ahead are as many.
Had(n, S, L) == {p \in Places(Set(L)) : At(p).id <= n /\ Precedes(p, S)}

ReadBack(L, c) ==
    /\ kind \in {"last", "prev"} =>
          Cardinality(Owed(Since(kind, top), Upto(kind, answer.lines), c))
             + Cardinality(Had(Since(kind, top), Upto(kind, answer.lines), L)) <= Most
    /\ kind = "prev" /\ c[1] > start[1] =>
          \A p \in Positions : NextTo(p, chunks[start[1]], start[2], top) => At(p) \in Set(L)

AnswerBack ==
    answer.kind # "none" /\ ~answer.merged =>
        /\ FirstLines <= answer.top
        /\ answer.kind = "prev" => Known(First(answer.from))
        /\ answer.next # None => Within(answer.next[2], answer.next[3])
        /\ answer.prev # None => TokenBack(answer.prev, answer.lines, written)
        /\ PageNear(answer.kind, answer.lines, answer.from, answer.top)
        /\ Apart(answer.kind, answer.lines, answer.from)

RequestBack ==
    /\ FirstLines <= written /\ span[2] = MaxTime
    /\ pc # "idle" => FirstLines <= top
    /\ pc \in {"dispatch", "read"} /\ kind = "prev" /\ ~answer.merged =>
          TokenBack(answer.prev, answer.lines, top)
    /\ pc \in {"scan", "read", "prev"} => Len(chunks) <= Cardinality(Days)
    /\ pc = "read" => Within(chunks[start[1]], start[2])
    /\ pc = "scan" => ScanInv(top, {}, scan)
    /\ pc = "read" =>
          /\ ReadBack(lines, at)
          /\ kind = "prev" => chunks[start[1]] = answer.prev[2] /\ start[2] = answer.prev[3]
    /\ pc = "prev" =>
          /\ ScanInv(FirstLines, First(lines), scan) /\ PrevInv(lines, scan)
          /\ at # None => Within(at[2], at[3])
          /\ PageNear(kind, lines, answer.lines, top) /\ Apart(kind, lines, answer.lines)

BackInv == request # "index" /\ Once => AnswerBack /\ RequestBack

-----------------------------------------------------------------------------
(* Counting places. *)

\* There are as many segments of a container as there are days, at most.
LEMMA DaysFinite == IsFiniteSet(Days) /\ Cardinality(Days) \in Nat /\ 1 <= Cardinality(Days)
<1> DEFINE f == [t \in Times |-> Day(t)]
<1>1. IsFiniteSet(Times) /\ 1 \in Times
  BY FS_Interval, StoreAssumption DEF Times
<1>2. f \in Surjection(Times, Days)
  BY DEF Surjection, Days
<1>3. IsFiniteSet(Days)
  BY <1>1, <1>2, FS_Surjection
<1>4. Days # {}
  BY <1>1 DEF Days
<1>5. Cardinality(Days) \in Nat /\ Cardinality(Days) # 0
  BY <1>3, <1>4, FS_CardinalityType, FS_EmptySet
<1> QED BY <1>3, <1>5

\* There are finitely many lines in the store.
LEMMA PositionsFinite ==
    ASSUME StoreInv, LinesInv
    PROVE  IsFiniteSet(Positions)
<1> PICK T : T = (DOMAIN data) \X (1..MaxLines)
  OBVIOUS
<1>1. IsFiniteSet(T)
  <2>1. MaxLines \in Int
    BY StoreAssumption DEF MaxLines
  <2>2. IsFiniteSet(1..MaxLines)
    BY <2>1, FS_Interval
  <2>3. IsFiniteSet(DOMAIN data)
    BY DEF StoreInv
  <2> QED BY <2>2, <2>3, FS_Product
<1> DEFINE f == [p \in Positions |-> <<<<SegmentOf(p), p[3]>>, p[4]>>]
<1>2. f \in [Positions -> T]
  BY PlaceHas
<1>3. ASSUME NEW p \in Positions, NEW q \in Positions, f[p] = f[q] PROVE p = q
  <2>1. SegmentOf(p) = SegmentOf(q) /\ p[3] = q[3] /\ p[4] = q[4]
    BY <1>3
  <2> QED BY <2>1, PlaceHas DEF SegmentOf
<1>4. f \in Injection(Positions, T)
  BY <1>2, <1>3 DEF Injection, IsInjective
<1> QED BY <1>1, <1>4, FS_Injection

\* So is every set of them.
LEMMA PlacesFinite ==
    ASSUME StoreInv, LinesInv, NEW S \in SUBSET Positions
    PROVE  IsFiniteSet(S) /\ Cardinality(S) \in Nat
BY PositionsFinite, FS_Subset, FS_CardinalityType

\* A set of places is not larger than one that has them all.
LEMMA PlacesWithin ==
    ASSUME StoreInv, LinesInv, NEW S \in SUBSET Positions, NEW T \in SUBSET S
    PROVE  Cardinality(T) <= Cardinality(S)
BY PlacesFinite, FS_Subset

\* Two sets apart add up.
LEMMA PlacesAdd ==
    ASSUME StoreInv, LinesInv, NEW S \in SUBSET Positions, NEW T \in SUBSET Positions
    PROVE  /\ Cardinality(S \cup T) <= Cardinality(S) + Cardinality(T)
           /\ S \cap T = {} => Cardinality(S \cup T) = Cardinality(S) + Cardinality(T)
<1>1. IsFiniteSet(S) /\ IsFiniteSet(T) /\ Cardinality(S) \in Nat /\ Cardinality(T) \in Nat
  BY PlacesFinite
<1>2. Cardinality(S \cup T) = Cardinality(S) + Cardinality(T) - Cardinality(S \cap T)
  BY <1>1, FS_Union
<1>3. Cardinality(S \cap T) \in Nat /\ (S \cap T = {} => Cardinality(S \cap T) = 0)
  BY <1>1, PlacesFinite, FS_EmptySet
<1> QED BY <1>1, <1>2, <1>3

\* No file has been made again: each place is in the first of its name.
LEMMA OncePlace ==
    ASSUME StoreInv, LinesInv, Once, NEW p \in Positions
    PROVE  p[3] = 1 /\ p = <<p[1], p[2], 1, p[4]>>
<1>1. <<SegmentOf(p), p[3]>> \in DOMAIN data /\ p = <<p[1], p[2], p[3], p[4]>>
  BY PlaceHas
<1> PICK f \in DOMAIN data : f = <<SegmentOf(p), p[3]>>
  BY <1>1
<1>2. f[2] = 1
  BY DEF Once, NoneMadeAgain
<1>3. p[3] = 1
  BY <1>2
<1> QED BY <1>1, <1>3

\* ... and two places of a segment are told apart by the line's number there.
LEMMA OnceSame ==
    ASSUME StoreInv, LinesInv, Once, NEW p \in Positions, NEW q \in Positions,
           SegmentOf(p) = SegmentOf(q), p[4] = q[4]
    PROVE  p = q
BY OncePlace DEF SegmentOf

\* Between two offsets of a file there are no more lines than that, ...
LEMMA InFile ==
    ASSUME StoreInv, LinesInv, Once, NEW s, NEW lo \in Nat, NEW hi \in Nat, lo <= hi,
           NEW S \in SUBSET Positions, \A p \in S : SegmentOf(p) = s /\ p[4] > lo /\ p[4] <= hi
    PROVE  Cardinality(S) <= hi - lo
<1> PICK T : T = (lo + 1)..hi
  OBVIOUS
<1>1. IsFiniteSet(T) /\ Cardinality(T) = hi - lo
  <2> PICK a \in Int : a = lo + 1
    OBVIOUS
  <2>1. IsFiniteSet(a..hi) /\ Cardinality(a..hi) = IF a > hi THEN 0 ELSE hi - a + 1
    BY FS_Interval
  <2> QED BY <2>1
<1> DEFINE f == [p \in S |-> p[4]]
<1>2. f \in [S -> T]
  <2>1. \A p \in S : p[4] \in Nat /\ p[4] > lo /\ p[4] <= hi
    BY PlaceHas
  <2>2. \A p \in S : p[4] \in T
    BY <2>1
  <2> QED BY <2>2
<1>3. \A p, q \in S : f[p] = f[q] => p = q
  BY OnceSame
<1>4. f \in Injection(S, T)
  BY <1>2, <1>3 DEF Injection, IsInjective
<1> QED BY <1>1, <1>4, FS_Injection

\* ... and so many, if the file is so long.
LEMMA InFileAll ==
    ASSUME StoreInv, LinesInv, NEW s, NEW lo \in Nat, NEW hi \in Nat, lo <= hi,
           NEW S \in SUBSET Positions, \A i \in (lo + 1)..hi : <<s[1], s[2], 1, i>> \in S
    PROVE  hi - lo <= Cardinality(S)
<1> PICK T : T = (lo + 1)..hi
  OBVIOUS
<1>1. IsFiniteSet(T) /\ Cardinality(T) = hi - lo
  <2> PICK a \in Int : a = lo + 1
    OBVIOUS
  <2>1. IsFiniteSet(a..hi) /\ Cardinality(a..hi) = IF a > hi THEN 0 ELSE hi - a + 1
    BY FS_Interval
  <2> QED BY <2>1
<1> DEFINE f == [i \in T |-> <<s[1], s[2], 1, i>>]
<1>2. f \in Injection(T, S)
  BY DEF Injection, IsInjective
<1>3. IsFiniteSet(S)
  BY PlacesFinite
<1> QED BY <1>1, <1>2, <1>3, FS_Injection

\* Every line is of a time that is asked for.
LEMMA AllMatch ==
    ASSUME StoreInv, LinesInv, Once, span[2] = MaxTime, NEW p \in Positions
    PROVE  Matches(At(p))
<1> PICK f : f = <<SegmentOf(p), p[3]>>
  OBVIOUS
<1>1. f \in DOMAIN data /\ p[4] \in DOMAIN data[f] /\ At(p) = data[f][p[4]]
  BY PlaceHas
<1>2. At(p).ts \in Times
  BY <1>1 DEF LinesInv
<1> QED BY <1>2 DEF Matches, Once, Times

\* Every line is one of those written.
LEMMA AllWritten ==
    ASSUME StoreInv, LinesInv, NEW p \in Positions
    PROVE  At(p).id \in Nat /\ At(p).id <= written
<1> PICK f : f = <<SegmentOf(p), p[3]>>
  OBVIOUS
<1>1. f \in DOMAIN data /\ p[4] \in DOMAIN data[f] /\ At(p) = data[f][p[4]]
  BY PlaceHas
<1> QED BY <1>1 DEF StoreInv, LineOf

-----------------------------------------------------------------------------
(* What the store does to them. *)

\* If no file has been made again after a step, none had before.
LEMMA OnceStays == ASSUME Grows, UNCHANGED span, Once' PROVE Once
BY DEF Grows, Once, NoneMadeAgain

PlacesAreFinite == StoreInv /\ LinesInv => IsFiniteSet(Positions)

\* There are finitely many lines after a step, too.
LEMMA PlacesFiniteNext == PlacesAreFinite'
<1>1. PlacesAreFinite
  BY PositionsFinite DEF PlacesAreFinite
<1> QED BY <1>1, PTL

\* A line that had been written was where it is.
LEMMA OldPlace ==
    ASSUME Moves, NEW p \in Positions', At(p)'.id <= written
    PROVE  p \in Positions /\ At(p)' = At(p)
<1> PICK f : f = <<<<p[1], p[2]>>, p[3]>>
  OBVIOUS
<1>1. f \in DOMAIN data' /\ p[4] \in DOMAIN data'[f] /\ At(p)' = data'[f][p[4]]
      /\ p \in Days \X Containers \X (1..MaxChanges + 1) \X (1..MaxLines)
  BY DEF Positions, At
<1>2. f \in DOMAIN data /\ p[4] \in DOMAIN data[f]
  <2> SUFFICES ASSUME ~(f \in DOMAIN data /\ p[4] \in DOMAIN data[f]) PROVE FALSE
    OBVIOUS
  <2>1. data'[f][p[4]].id > written
    BY <1>1 DEF Moves, Grows
  <2>2. data'[f][p[4]].id \in Nat
    BY <1>1 DEF Moves, LinesInv
  <2>3. written \in Nat
    BY DEF Moves, Grows
  <2> QED BY <1>1, <2>1, <2>2, <2>3
<1>3. p \in Positions
  BY <1>1, <1>2 DEF Positions
<1> QED BY <1>3, PlacesStay DEF Moves

\* Which lines are before those of a page does not change.
LEMMA PrecedesStays ==
    ASSUME Moves, NEW S, Known(S), NEW p
    PROVE  Precedes(p, S)' <=> Precedes(p, S)
<1>1. Places(S)' = Places(S)
  BY KnownStays DEF Moves
<1>2. Precedes(p, S)' <=> \A b \in Places(S)' : Below(p, b)
  BY DEF Precedes
<1> QED BY <1>1, <1>2 DEF Precedes

\* Lines that were due stay so as long as they are stored, and none comes to be due.
LEMMA DueStays ==
    ASSUME Moves, NEW n \in Nat, n <= written, NEW S, Known(S)
    PROVE  Due(n, S)' \in SUBSET Due(n, S)
<1> SUFFICES ASSUME NEW p \in Positions', Remains(p, n)', Precedes(p, S)' PROVE p \in Due(n, S)
  BY DEF Due
<1>1. p \in Positions /\ Remains(p, n)
  BY StillRemains
<1> QED BY <1>1, PrecedesStays DEF Due

\* What is due is in the store.
LEMMA DueIs ==
    ASSUME NEW n, NEW S, NEW p \in Due(n, S)
    PROVE  p \in Positions /\ Remains(p, n) /\ Precedes(p, S)
BY DEF Due

\* The first line of a page that is known is known.
LEMMA FirstKnown == ASSUME NEW L, Known(Set(L)) PROVE Known(First(L)) /\ First(L) \in SUBSET Set(L)
BY DEF Known, First, Set

\* A token goes on being as near as it was.
LEMMA TokenStays ==
    ASSUME StoreInv, LinesInv, Moves, NEW t, NEW L, Known(First(L)), FirstLines <= written,
           NEW n \in Nat, NEW m \in Nat, n <= m, TokenBack(t, L, n)
    PROVE  TokenBack(t, L, m)'
<1> PICK S : S = First(L)
  OBVIOUS
<1>1. FirstLines \in Nat
  BY StoreAssumption
<1>2. \A p \in Positions : p \in Positions' /\ At(p)' = At(p)
  BY PlacesStay DEF Moves
<1>3. Within(t[2], t[3])'
  BY <1>2 DEF TokenBack, Within
<1>4. Cardinality(Between(t, L))' <= Most
  <2> PICK B : B = Between(t, L)
    OBVIOUS
  <2> PICK C : C = Between(t, L)'
    OBVIOUS
  <2>1. Due(FirstLines, S)' \in SUBSET Due(FirstLines, S)
    BY <1>1, DueStays
  <2>2. C \in SUBSET B
    BY <2>1 DEF Between, AfterToken
  <2>3. B \in SUBSET Positions
    BY DEF Between, Due
  <2>4. Cardinality(C) \in Nat /\ Cardinality(B) \in Nat /\ Cardinality(C) <= Cardinality(B)
    <3>1. C \in SUBSET Positions
      BY <2>2, <2>3
    <3> QED BY <2>2, <2>3, <3>1, PlacesFinite, PlacesWithin
  <2>5. Cardinality(B) <= Most
    BY DEF TokenBack
  <2>6. Most \in Int
    BY DaysFinite, PagesAssumption DEF Most
  <2>7. Cardinality(C) <= Most
    BY <2>4, <2>5, <2>6
  <2> QED BY <2>7
<1>5. Fills(t, L, m)'
  <2>1. CASE \A p \in Positions : Remains(p, FirstLines) => AfterToken(p, t)
    <3>1. ASSUME NEW p \in Positions', Remains(p, FirstLines)' PROVE AfterToken(p, t)
      BY <1>1, <2>1, <3>1, StillRemains
    <3>2. (\A p \in Positions : Remains(p, FirstLines) => AfterToken(p, t))'
      BY <3>1 DEF AfterToken, SegmentOf
    <3> QED BY <3>2 DEF Fills
  <2>2. CASE L = <<>>
    BY <2>2 DEF Fills
  <2>3. CASE /\ PageSize <= Cardinality(Filling(t, L, n))
             /\ \E p \in Positions : NextTo(p, t[2], t[3], n)
    <3> PICK B : B = Filling(t, L, n)
      OBVIOUS
    <3> PICK C : C = Filling(t, L, m)'
      OBVIOUS
    <3>1. ASSUME NEW p \in Positions, At(p).id <= n PROVE p \in Positions' /\ At(p)'.id <= m
      <4>1. At(p).id \in Nat
        BY AllWritten
      <4>2. At(p).id <= m
        BY <3>1, <4>1
      <4> QED BY <1>2, <4>2
    <3>2. ASSUME NEW p \in B PROVE p \in C
      <4>1. p \in Positions /\ At(p).id <= n /\ AfterToken(p, t) /\ Precedes(p, S)
        BY DEF Filling
      <4>2. p \in Positions' /\ At(p)'.id <= m /\ AfterToken(p, t)
        BY <3>1, <4>1
      <4>3. Precedes(p, S)'
        BY <4>1, PrecedesStays
      <4> QED BY <4>2, <4>3 DEF Filling, AfterToken, SegmentOf
    <3>3. IsFiniteSet(C)
      <4> PICK P : P = Positions'
        OBVIOUS
      <4>1. IsFiniteSet(P)
        BY PlacesFiniteNext DEF PlacesAreFinite, Moves
      <4>2. C \in SUBSET P
        BY DEF Filling
      <4> QED BY <4>1, <4>2, FS_Subset
    <3>4. Cardinality(C) \in Nat /\ Cardinality(B) \in Nat /\ Cardinality(B) <= Cardinality(C)
      <4>1. B \in SUBSET C
        BY <3>2
      <4> QED BY <3>3, <4>1, FS_Subset, FS_CardinalityType
    <3>5. PageSize <= Cardinality(C)
      <4>1. PageSize <= Cardinality(B) /\ PageSize \in Int
        BY <2>3, PagesAssumption
      <4> QED BY <3>4, <4>1
    <3>6. (\E p \in Positions : NextTo(p, t[2], t[3], m))'
      <4> PICK p \in Positions : NextTo(p, t[2], t[3], n)
        BY <2>3
      <4>1. p \in Positions' /\ At(p)'.id <= m
        BY <3>1 DEF NextTo
      <4> QED BY <4>1 DEF NextTo, SegmentOf
    <3> QED BY <3>5, <3>6 DEF Fills
  <2> QED BY <2>1, <2>2, <2>3 DEF TokenBack, Fills
<1> QED BY <1>3, <1>4, <1>5 DEF TokenBack

\* A set of due lines shrinks.
LEMMA OwedStays ==
    ASSUME StoreInv, LinesInv, Moves, UNCHANGED chunks, NEW n \in Nat, n <= written,
           NEW S, Known(S), NEW c
    PROVE  /\ Cardinality(Owed(n, S, c))' \in Nat /\ Cardinality(Owed(n, S, c)) \in Nat
           /\ Cardinality(Owed(n, S, c))' <= Cardinality(Owed(n, S, c))
<1> PICK B : B = Owed(n, S, c)
  OBVIOUS
<1> PICK C : C = Owed(n, S, c)'
  OBVIOUS
<1>1. Due(n, S)' \in SUBSET Due(n, S)
  BY DueStays
<1>2. C \in SUBSET B /\ B \in SUBSET Positions
  BY <1>1 DEF Owed, Due, Past, SegmentOf
<1>3. C \in SUBSET Positions
  BY <1>2
<1>4. Cardinality(C) \in Nat /\ Cardinality(B) \in Nat /\ Cardinality(C) <= Cardinality(B)
  BY <1>2, <1>3, PlacesFinite, PlacesWithin
<1> QED BY <1>4

\* The lines of a page go on being near those that it was asked from.
LEMMA PageNearStays ==
    ASSUME StoreInv, LinesInv, Moves, NEW k, NEW L, Known(Set(L)), NEW F,
           k = "prev" => Known(First(F)), FirstLines <= written,
           NEW n \in Nat, n <= written, PageNear(k, L, F, n)
    PROVE  PageNear(k, L, F, n)'
<1> SUFFICES ASSUME k \in {"last", "prev"} PROVE PageNear(k, L, F, n)'
  BY DEF PageNear
<1> PICK m \in Nat : m = Since(k, n) /\ m <= written
  BY StoreAssumption DEF Since
<1> PICK S : S = Upto(k, F)
  OBVIOUS
<1> PICK T : T = Set(L)
  OBVIOUS
<1>1. Known(S)
  BY DEF Upto, Known
<1>2. Places(T)' = Places(T) /\ Due(m, S)' \in SUBSET Due(m, S)
  BY <1>1, KnownStays, DueStays DEF Moves
<1> PICK B : B = Missed(m, S, L)
  OBVIOUS
<1> PICK C : C = Missed(m, S, L)'
  OBVIOUS
<1>3. C \in SUBSET B /\ B \in SUBSET Positions
  <2>1. C = {p \in Due(m, S)' : Places(T)' # {} /\ \A a \in Places(T)' : Below(a, p)}
    BY DEF Missed
  <2>2. B = {p \in Due(m, S) : Places(T) # {} /\ \A a \in Places(T) : Below(a, p)}
    BY DEF Missed
  <2> QED BY <1>2, <2>1, <2>2 DEF Due
<1>4. Cardinality(C) \in Nat /\ Cardinality(B) \in Nat /\ Cardinality(C) <= Cardinality(B)
  <2>1. C \in SUBSET Positions
    BY <1>3
  <2> QED BY <1>3, <2>1, PlacesFinite, PlacesWithin
<1> PICK d : d = Cardinality(Days) + Cardinality(Newer(m, L))
  OBVIOUS
<1>5. Cardinality(B) < d
  BY DEF PageNear
<1>6. Cardinality(C) < d
  <2>1. Cardinality(Newer(m, L)) \in Nat
    <3>1. IsFiniteSet(Newer(m, L))
      <4>1. Newer(m, L) \in SUBSET T
        BY DEF Newer
      <4>2. IsFiniteSet(T)
        <5> DEFINE f == [p \in Places(T) |-> At(p)]
        <5>1. IsFiniteSet(Places(T))
          BY PlacesFinite DEF Places
        <5>2. f \in Surjection(Places(T), T)
          BY DEF Places, Known, Surjection
        <5> QED BY <5>1, <5>2, FS_Surjection
      <4> QED BY <4>1, <4>2, FS_Subset
    <3> QED BY <3>1, FS_CardinalityType
  <2>2. d \in Int
    BY <2>1, DaysFinite
  <2> QED BY <1>4, <1>5, <2>2
<1>7. Since(k, n)' = m /\ Upto(k, F)' = S
  BY DEF Since, Upto, First
<1>8. Cardinality(Missed(m, S, L))' < Cardinality(Days) + Cardinality(Newer(m, L))
  BY <1>6
<1> QED BY <1>7, <1>8 DEF PageNear, Newer, Set

\* ... and apart from them.
LEMMA ApartStays ==
    ASSUME StoreInv, LinesInv, Moves, Once, span[2] = MaxTime, NEW k, NEW L, Known(Set(L)), NEW F,
           k = "prev" => Known(First(F)), FirstLines <= written, Apart(k, L, F)
    PROVE  Apart(k, L, F)'
<1> PICK T : T = Set(L)
  OBVIOUS
<1> PICK S : S = First(F)
  OBVIOUS
<1> SUFFICES ASSUME k = "prev", T \cap Set(F) # {} PROVE Apart(k, L, F)'
  BY DEF Apart, Set
<1>1. Places(T)' = Places(T)
  BY KnownStays DEF Moves
<1>2. CASE \A p \in Positions : Remains(p, FirstLines) => \E a \in Places(T) : ~Below(p, a)
  <2>1. ASSUME NEW p \in Positions', Remains(p, FirstLines)'
        PROVE  \E a \in Places(T)' : ~Below(p, a)
    <3>1. p \in Positions /\ Remains(p, FirstLines)
      BY <2>1, StillRemains, StoreAssumption
    <3> QED BY <1>1, <1>2, <3>1
  <2> QED BY <2>1 DEF Apart, Set
<1>3. CASE \E p \in Positions \ Stored : (\E a \in Places(T) : Below(a, p)) /\ Precedes(p, S)
  <2> PICK p \in Positions \ Stored : (\E a \in Places(T) : Below(a, p)) /\ Precedes(p, S)
    BY <1>3
  <2>1. p \in Positions' /\ At(p)' = At(p)
    BY PlacesStay DEF Moves
  <2>2. p \notin Stored'
    <3> SUFFICES ASSUME p \in Stored' PROVE FALSE
      OBVIOUS
    <3> PICK n \in Nat : n = written
      BY DEF StoreInv
    <3>1. At(p).id <= n /\ Matches(At(p))
      BY AllMatch, AllWritten
    <3>2. Matches(At(p))'
      BY <2>1, <3>1 DEF Matches, Moves
    <3>3. Remains(p, n)'
      BY <2>1, <3>1, <3>2 DEF Remains
    <3>4. Remains(p, n)
      BY <2>1, <3>3, StillRemains
    <3> QED BY <3>4 DEF Remains
  <2>3. Precedes(p, S)'
    BY PrecedesStays
  <2>4. \E a \in Places(T)' : Below(a, p)
    BY <1>1
  <2>5. (\E q \in Positions \ Stored : (\E a \in Places(T) : Below(a, q)) /\ Precedes(q, S))'
    BY <2>1, <2>2, <2>3, <2>4
  <2> QED BY <2>5 DEF Apart, First, Set
<1> QED BY <1>2, <1>3 DEF Apart

\* A scan goes on having counted what it has gone over.
LEMMA ScanStays ==
    ASSUME StoreInv, LinesInv, Moves, UNCHANGED chunks, chunks \in Seq(Segments),
           NEW n \in Nat, n <= written, NEW S, Known(S), NEW sc, ScanInv(n, S, sc)
    PROVE  ScanInv(n, S, sc)'
<1>1. (sc[1] \in 1..Len(chunks) /\ sc[2] \in Nat \cup {Whole} /\ sc[3] \in 1..PageSize)'
  BY DEF ScanInv
<1>2. (sc[2] # Whole => Within(chunks[sc[1]], sc[2]))'
  <2>1. \A p \in Positions : p \in Positions'
    BY PlacesStay DEF Moves
  <2> QED BY <2>1 DEF ScanInv, Within
<1> PICK c : c = Reached(sc)
  OBVIOUS
<1>3. Cardinality(Owed(n, S, c))' <= PageSize - sc[3] + Len(chunks) - sc[1]
  <2> PICK x : x = Cardinality(Owed(n, S, c))'
    OBVIOUS
  <2> PICK y : y = Cardinality(Owed(n, S, c))
    OBVIOUS
  <2>1. x \in Nat /\ y \in Nat /\ x <= y
    BY OwedStays
  <2>2. y <= PageSize - sc[3] + Len(chunks) - sc[1]
    BY DEF ScanInv
  <2>3. PageSize - sc[3] + Len(chunks) - sc[1] \in Int
    BY LenProperties, PagesAssumption DEF ScanInv
  <2> QED BY <2>1, <2>2, <2>3
<1>4. Reached(sc)' = c
  BY DEF Reached
<1>5. (Cardinality(Owed(n, S, Reached(sc))) <= PageSize - sc[3] + Len(chunks) - sc[1])'
  BY <1>3, <1>4
<1> QED BY <1>1, <1>2, <1>5 DEF ScanInv

\* ... and only what is before the page.
LEMMA PrevStays ==
    ASSUME StoreInv, LinesInv, Moves, UNCHANGED <<chunks, start>>, NEW L, Known(First(L)), NEW sc,
           sc[3] \in Int, PrevInv(L, sc)
    PROVE  PrevInv(L, sc)'
<1> PICK S : S = First(L)
  OBVIOUS
<1>1. Places(S)' = Places(S)
  BY KnownStays DEF Moves
<1>2. \A b \in Places(S)' : Past(b, start)'
  BY <1>1 DEF PrevInv, Past, SegmentOf
<1>3. ASSUME L # <<>> PROVE PageSize - sc[3] <= Cardinality(Counted(L, Reached(sc)))'
  <2> PICK c : c = Reached(sc)
    OBVIOUS
  <2> PICK B : B = Counted(L, c)
    OBVIOUS
  <2> PICK C : C = Counted(L, c)'
    OBVIOUS
  <2>1. ASSUME NEW p \in B PROVE p \in C
    <3>1. p \in Positions /\ Past(p, c) /\ Precedes(p, S)
      BY DEF Counted
    <3>2. p \in Positions' /\ Precedes(p, S)'
      BY <3>1, PlacesStay, PrecedesStays DEF Moves
    <3>3. Past(p, c)'
      BY <3>1 DEF Past, SegmentOf
    <3> QED BY <3>2, <3>3 DEF Counted
  <2>2. IsFiniteSet(C)
    <3> PICK P : P = Positions'
      OBVIOUS
    <3>1. IsFiniteSet(P)
      BY PlacesFiniteNext DEF PlacesAreFinite, Moves
    <3>2. C \in SUBSET P
      BY DEF Counted
    <3> QED BY <3>1, <3>2, FS_Subset
  <2>3. Cardinality(C) \in Nat /\ Cardinality(B) \in Nat /\ Cardinality(B) <= Cardinality(C)
    <3>1. B \in SUBSET C
      BY <2>1
    <3> QED BY <2>2, <3>1, FS_Subset, FS_CardinalityType
  <2>4. PageSize - sc[3] <= Cardinality(B)
    BY <1>3 DEF PrevInv
  <2>5. PageSize - sc[3] <= Cardinality(C)
    BY <2>3, <2>4, PagesAssumption
  <2>6. Reached(sc)' = c
    BY DEF Reached
  <2> QED BY <2>5, <2>6
<1>4. (start[1] \in 1..Len(chunks)
       /\ IF sc[2] = Whole THEN sc[1] < start[1] ELSE sc[1] = start[1] /\ sc[2] = start[2])'
  BY DEF PrevInv
<1>5. (\A b \in Places(First(L)) : Past(b, start))'
  BY <1>2 DEF First
<1> QED BY <1>3, <1>4, <1>5 DEF PrevInv

\* What a page has already stays on it, and no more lines come to be due.
LEMMA ReadStays ==
    ASSUME StoreInv, LinesInv, Moves, UNCHANGED <<chunks, start, kind, top, answer>>,
           top \in Nat, top <= written, FirstLines <= written, NEW L, Known(Set(L)),
           kind = "prev" => Known(First(answer.lines)), NEW c, ReadBack(L, c)
    PROVE  ReadBack(L, c)'
<1> PICK m \in Nat : m = Since(kind, top) /\ m <= written
  BY StoreAssumption DEF Since
<1> PICK S : S = Upto(kind, answer.lines)
  OBVIOUS
<1>1. Since(kind, top)' = m /\ Upto(kind, answer.lines)' = S
  BY DEF Since, Upto, First
<1>2. Known(S)
  BY DEF Upto, Known
<1> PICK T : T = Set(L)
  OBVIOUS
<1>3. Had(m, S, L)' = Had(m, S, L)
  <2>1. Places(T)' = Places(T)
    BY KnownStays DEF Moves
  <2>2. ASSUME NEW p \in Places(T) PROVE (At(p).id <= m /\ Precedes(p, S))' <=> At(p).id <= m /\ Precedes(p, S)
    <3>1. At(p)' = At(p)
      BY PlacesStay DEF Moves, Places
    <3>2. Precedes(p, S)' <=> Precedes(p, S)
      BY <1>2, PrecedesStays
    <3> QED BY <3>1, <3>2
  <2>3. Had(m, S, L) = {p \in Places(T) : At(p).id <= m /\ Precedes(p, S)}
    BY DEF Had
  <2>4. Had(m, S, L)' = {p \in Places(T)' : At(p)'.id <= m /\ Precedes(p, S)'}
    BY DEF Had
  <2> QED BY <2>1, <2>2, <2>3, <2>4
<1>4. ASSUME kind \in {"last", "prev"}
      PROVE  Cardinality(Owed(m, S, c))' + Cardinality(Had(m, S, L))' <= Most
  <2> PICK x : x = Cardinality(Owed(m, S, c))'
    OBVIOUS
  <2> PICK y : y = Cardinality(Owed(m, S, c))
    OBVIOUS
  <2> PICK z : z = Cardinality(Had(m, S, L))
    OBVIOUS
  <2>1. x \in Nat /\ y \in Nat /\ x <= y
    BY <1>2, OwedStays
  <2>2. y + z <= Most
    BY <1>4 DEF ReadBack
  <2>3. z \in Nat
    BY PlacesFinite DEF Had, Places
  <2>4. Most \in Int
    BY DaysFinite, PagesAssumption DEF Most
  <2>5. x + z <= Most
    BY <2>1, <2>2, <2>3, <2>4
  <2> QED BY <1>3, <2>5
<1>5. ASSUME kind = "prev", c[1] > start[1], NEW p \in Positions',
             NextTo(p, chunks[start[1]], start[2], top)'
      PROVE  At(p)' \in T
  <2>1. At(p)'.id <= top
    BY <1>5 DEF NextTo
  <2>2. p \in Positions /\ At(p)' = At(p)
    <3>1. At(p)'.id \in Nat
      <4> PICK f : f = <<<<p[1], p[2]>>, p[3]>>
        OBVIOUS
      <4>1. f \in DOMAIN data' /\ p[4] \in DOMAIN data'[f] /\ At(p)' = data'[f][p[4]]
        BY DEF Positions, At
      <4> QED BY <4>1 DEF Moves, LinesInv
    <3>2. At(p)'.id <= written
      BY <2>1, <3>1 DEF Moves, Grows
    <3> QED BY <3>2, OldPlace
  <2>3. NextTo(p, chunks[start[1]], start[2], top)
    BY <1>5, <2>1, <2>2 DEF NextTo, SegmentOf
  <2> QED BY <1>5, <2>2, <2>3 DEF ReadBack
<1>6. (kind \in {"last", "prev"} =>
          Cardinality(Owed(Since(kind, top), Upto(kind, answer.lines), c))
             + Cardinality(Had(Since(kind, top), Upto(kind, answer.lines), L)) <= Most)'
  BY <1>1, <1>4 DEF Most
<1>7. (kind = "prev" /\ c[1] > start[1] =>
          \A p \in Positions : NextTo(p, chunks[start[1]], start[2], top) => At(p) \in Set(L))'
  BY <1>5 DEF Set
<1> QED BY <1>6, <1>7 DEF ReadBack

\* Where a request stands that pages by offsets.
Backing == Asking /\ Once /\ AnswerBack /\ RequestBack

\* What the rest of the invariant says of the answer by offsets that the client has.
LEMMA AnswerIs ==
    ASSUME Backing, answer.kind # "none", ~answer.merged
    PROVE  /\ answer.top \in Nat /\ answer.top <= written
           /\ answer.lines \in Seq([id : Nat, ts : Times])
           /\ Known(Set(answer.lines)) /\ Ascending(answer.lines) /\ Known(First(answer.lines))
<1>1. Known(Set(answer.lines)) /\ Ascending(answer.lines) /\ answer.lines \in Seq([id : Nat, ts : Times])
  BY DEF Backing, Asking, OffsetAnswerInv, PageInv
<1>2. Known(First(answer.lines))
  BY <1>1, FirstKnown
<1>3. answer.top \in Nat /\ answer.top <= written
  BY DEF Backing, Asking, AnswerInv
<1> QED BY <1>1, <1>2, <1>3

\* A page before another is of an answer by offsets.
LEMMA AskedFrom ==
    ASSUME Backing, pc # "idle", kind = "prev", pc = "dispatch" => ~answer.merged, pc # "merge",
           pc \in {"dispatch", "scan", "read", "prev"}
    PROVE  answer.kind # "none" /\ ~answer.merged /\ answer.prev # None
<1>1. answer.prev # None
  BY DEF Backing, Asking, RequestInv
<1>2. answer.kind # "none"
  BY <1>1 DEF Backing, Asking, OffsetAnswerInv
<1>3. ~answer.merged
  BY DEF Backing, Asking, OffsetRequestInv
<1> QED BY <1>1, <1>2, <1>3

\* The answer that the client has goes on being right.
LEMMA AnswerKept ==
    ASSUME Backing, UNCHANGED answer
    PROVE  AnswerBack'
<1> SUFFICES ASSUME answer.kind # "none", ~answer.merged
             PROVE  (/\ FirstLines <= answer.top
                     /\ answer.kind = "prev" => Known(First(answer.from))
                     /\ answer.next # None => Within(answer.next[2], answer.next[3])
                     /\ answer.prev # None => TokenBack(answer.prev, answer.lines, written)
                     /\ PageNear(answer.kind, answer.lines, answer.from, answer.top)
                     /\ Apart(answer.kind, answer.lines, answer.from))'
  BY DEF AnswerBack
<1>1. /\ StoreInv /\ LinesInv /\ Moves /\ Once /\ span[2] = MaxTime /\ FirstLines <= written
      /\ written \in Nat /\ written' \in Nat /\ written <= written'
  BY DEF Backing, Asking, RequestBack, Moves, Grows
<1> PICK n \in Nat : n = answer.top /\ n <= written
  BY AnswerIs
<1> PICK k : k = answer.kind
  OBVIOUS
<1> PICK L : L = answer.lines
  OBVIOUS
<1> PICK F : F = answer.from
  OBVIOUS
<1> PICK next : next = answer.next
  OBVIOUS
<1> PICK prev : prev = answer.prev
  OBVIOUS
<1>2. /\ answer' = answer /\ answer'.kind = k /\ answer'.lines = L /\ answer'.from = F
      /\ answer'.next = next /\ answer'.prev = prev /\ answer'.top = n
  OBVIOUS
<1>3. /\ FirstLines <= n
      /\ k = "prev" => Known(First(F))
      /\ next # None => Within(next[2], next[3])
      /\ prev # None => TokenBack(prev, L, written)
      /\ PageNear(k, L, F, n) /\ Apart(k, L, F)
  BY DEF Backing, AnswerBack
<1>4. Known(Set(L)) /\ Known(First(L))
  BY AnswerIs
<1>5. PageNear(k, L, F, n)'
  BY <1>1, <1>3, <1>4, PageNearStays
<1>6. Apart(k, L, F)'
  BY <1>1, <1>3, <1>4, ApartStays
<1>7. ASSUME prev # None PROVE TokenBack(prev, L, written)'
  <2> PICK i \in Nat : i = written
    BY <1>1
  <2> PICK j \in Nat : j = written'
    BY <1>1
  <2>1. i <= j
    BY <1>1
  <2>2. TokenBack(prev, L, i)
    BY <1>3, <1>7
  <2>3. TokenBack(prev, L, j)'
    BY <1>1, <1>4, <2>1, <2>2, TokenStays
  <2> QED BY <2>3
<1>8. ASSUME next # None PROVE Within(next[2], next[3])'
  <2>1. \A p \in Positions : p \in Positions'
    BY <1>1, PlacesStay DEF Moves
  <2> QED BY <1>3, <1>8, <2>1 DEF Within
<1>9. ASSUME k = "prev" PROVE Known(First(F))'
  <2> PICK S : S = First(F)
    OBVIOUS
  <2>1. Known(S)'
    BY <1>1, <1>3, <1>9, KnownStays DEF Moves
  <2> QED BY <2>1 DEF First
<1>10. PageNear(answer.kind, answer.lines, answer.from, answer.top)'
  BY <1>2, <1>5
<1>11. Apart(answer.kind, answer.lines, answer.from)'
  BY <1>2, <1>6
<1>12. (answer.prev # None => TokenBack(answer.prev, answer.lines, written))'
  BY <1>2, <1>7
<1>13. (answer.next # None => Within(answer.next[2], answer.next[3]))'
  BY <1>2, <1>8
<1>14. (answer.kind = "prev" => Known(First(answer.from)))'
  BY <1>2, <1>9
<1> QED BY <1>2, <1>3, <1>10, <1>11, <1>12, <1>13, <1>14

\* An offset into a file stays one.
LEMMA WithinStays ==
    ASSUME Moves, NEW s, NEW o, Within(s, o)
    PROVE  Within(s, o)'
<1>1. \A p \in Positions : p \in Positions'
  BY PlacesStay DEF Moves
<1> QED BY <1>1 DEF Within

\* What goes on holding at a request, whatever its step is.
LEMMA SameBounds ==
    ASSUME Backing
    PROVE  (FirstLines <= written /\ span[2] = MaxTime)'
<1>1. /\ FirstLines <= written /\ span[2] = MaxTime /\ span' = span
      /\ written \in Nat /\ written' \in Nat /\ written <= written'
  BY DEF Backing, Asking, RequestBack, Moves, Grows
<1> QED BY <1>1, StoreAssumption

\* While the start of the page before is looked for, what is promised of the page that
\* was read, and has been counted, stays so.
LEMMA PrevKept ==
    ASSUME Backing, pc = "prev", UNCHANGED <<kind, top, chunks, start, at, lines, answer>>,
           NEW sc, ScanInv(FirstLines, First(lines), sc), PrevInv(lines, sc)
    PROVE  (/\ ScanInv(FirstLines, First(lines), sc) /\ PrevInv(lines, sc)
            /\ at # None => Within(at[2], at[3])
            /\ PageNear(kind, lines, answer.lines, top) /\ Apart(kind, lines, answer.lines))'
<1>1. /\ StoreInv /\ LinesInv /\ Moves /\ Once /\ span[2] = MaxTime /\ FirstLines <= written
      /\ written \in Nat /\ top \in Nat /\ top <= written
  BY DEF Backing, Asking, RequestBack, RequestInv, Moves, Grows
<1> PICK L : L = lines
  OBVIOUS
<1> PICK S : S = First(L)
  OBVIOUS
<1> PICK k : k = kind
  OBVIOUS
<1> PICK F : F = answer.lines
  OBVIOUS
<1> PICK n \in Nat : n = top /\ n <= written
  BY <1>1
<1> PICK t : t = at
  OBVIOUS
<1>2. /\ ScanInv(FirstLines, S, sc) /\ PrevInv(L, sc) /\ (t # None => Within(t[2], t[3]))
      /\ PageNear(k, L, F, n) /\ Apart(k, L, F)
  BY DEF Backing, RequestBack
<1>3. Known(Set(L)) /\ Known(S) /\ chunks \in Seq(Segments)
  <2>1. Known(Set(L)) /\ chunks \in Seq(Segments)
    BY DEF Backing, Asking, OffsetRequestInv, PageInv, ListInv
  <2> QED BY <2>1, FirstKnown
<1>4. k = "prev" => Known(First(F))
  BY AskedFrom, AnswerIs
<1>5. ScanInv(FirstLines, S, sc)'
  BY <1>1, <1>2, <1>3, ScanStays, StoreAssumption
<1>6. PrevInv(L, sc)'
  <2>1. sc[3] \in Int
    BY <1>2, PagesAssumption DEF ScanInv
  <2> QED BY <1>1, <1>2, <1>3, <2>1, PrevStays
<1>7. t # None => Within(t[2], t[3])'
  BY <1>1, <1>2, WithinStays
<1>8. PageNear(k, L, F, n)'
  BY <1>1, <1>2, <1>3, <1>4, PageNearStays
<1>9. Apart(k, L, F)'
  BY <1>1, <1>2, <1>3, <1>4, ApartStays
<1>10. lines' = L /\ kind' = k /\ answer'.lines = F /\ top' = n /\ at' = t /\ First(lines)' = S
  BY DEF First
<1>11. (ScanInv(FirstLines, First(lines), sc) /\ PrevInv(lines, sc))'
  BY <1>5, <1>6, <1>10
<1>12. (at # None => Within(at[2], at[3]))'
  BY <1>7, <1>10
<1>13. (PageNear(kind, lines, answer.lines, top) /\ Apart(kind, lines, answer.lines))'
  BY <1>8, <1>9, <1>10
<1> QED BY <1>11, <1>12, <1>13

\* The store changes: what a request has counted and read is as it was.
LEMMA RequestKept ==
    ASSUME Backing, UNCHANGED <<request, pageVars>>
    PROVE  RequestBack'
<1>1. /\ StoreInv /\ LinesInv /\ Moves /\ Once /\ span[2] = MaxTime /\ FirstLines <= written
      /\ written \in Nat
  BY DEF Backing, Asking, RequestBack, Moves, Grows
<1>2. UNCHANGED <<pc, kind, top, chunks, start, at, scan, lines, answer>>
  BY DEF pageVars
<1>3. (pc # "idle" => FirstLines <= top)' /\ (pc # "idle" => top \in Nat /\ top <= written)
  BY <1>2 DEF Backing, RequestBack, Asking, RequestInv
<1>4. (pc \in {"dispatch", "read"} /\ kind = "prev" /\ ~answer.merged =>
          TokenBack(answer.prev, answer.lines, top))'
  <2> SUFFICES ASSUME pc \in {"dispatch", "read"}, kind = "prev", ~answer.merged
               PROVE  TokenBack(answer.prev, answer.lines, top)'
    BY <1>2
  <2> PICK t : t = answer.prev
    OBVIOUS
  <2> PICK L : L = answer.lines
    OBVIOUS
  <2> PICK n \in Nat : n = top
    BY <1>3
  <2>1. Known(First(L))
    BY AskedFrom, AnswerIs
  <2>2. TokenBack(t, L, n)
    BY DEF Backing, RequestBack
  <2>3. TokenBack(t, L, n)'
    BY <1>1, <2>1, <2>2, TokenStays
  <2> QED BY <1>2, <2>3
<1>5. (pc \in {"scan", "read", "prev"} => Len(chunks) <= Cardinality(Days))'
  BY <1>2 DEF Backing, RequestBack
<1>6. (pc = "read" => Within(chunks[start[1]], start[2]))'
  <2> SUFFICES ASSUME pc = "read" PROVE Within(chunks[start[1]], start[2])'
    BY <1>2
  <2> PICK s : s = chunks[start[1]]
    OBVIOUS
  <2> PICK o : o = start[2]
    OBVIOUS
  <2>1. Within(s, o)
    BY DEF Backing, RequestBack
  <2> QED BY <1>1, <1>2, <2>1, WithinStays
<1>7. (pc = "scan" => ScanInv(top, {}, scan))'
  <2> SUFFICES ASSUME pc = "scan" PROVE ScanInv(top, {}, scan)'
    BY <1>2
  <2> PICK n \in Nat : n = top /\ n <= written
    BY <1>3
  <2> PICK sc : sc = scan
    OBVIOUS
  <2>1. ScanInv(n, {}, sc)
    BY DEF Backing, RequestBack
  <2>2. chunks \in Seq(Segments)
    BY DEF Backing, Asking, OffsetRequestInv, ListInv
  <2>3. Known({})
    BY DEF Known
  <2>4. ScanInv(n, {}, sc)'
    BY <1>1, <1>2, <2>1, <2>2, <2>3, ScanStays
  <2> QED BY <1>2, <2>4
<1>8. (pc = "read" =>
          /\ ReadBack(lines, at)
          /\ kind = "prev" => chunks[start[1]] = answer.prev[2] /\ start[2] = answer.prev[3])'
  <2> SUFFICES ASSUME pc = "read"
               PROVE  (/\ ReadBack(lines, at)
                       /\ kind = "prev" => chunks[start[1]] = answer.prev[2] /\ start[2] = answer.prev[3])'
    BY <1>2
  <2> PICK L : L = lines
    OBVIOUS
  <2> PICK c : c = at
    OBVIOUS
  <2>1. ReadBack(L, c) /\ (kind = "prev" => chunks[start[1]] = answer.prev[2] /\ start[2] = answer.prev[3])
    BY DEF Backing, RequestBack
  <2>2. Known(Set(L))
    BY DEF Backing, Asking, OffsetRequestInv, ReadTo
  <2>3. kind = "prev" => Known(First(answer.lines))
    BY AskedFrom, AnswerIs
  <2>4. ReadBack(L, c)'
    BY <1>1, <1>2, <1>3, <2>1, <2>2, <2>3, ReadStays
  <2> QED BY <1>2, <2>1, <2>4
<1>9. (pc = "prev" =>
          /\ ScanInv(FirstLines, First(lines), scan) /\ PrevInv(lines, scan)
          /\ at # None => Within(at[2], at[3])
          /\ PageNear(kind, lines, answer.lines, top) /\ Apart(kind, lines, answer.lines))'
  <2> SUFFICES ASSUME pc = "prev"
               PROVE  (/\ ScanInv(FirstLines, First(lines), scan) /\ PrevInv(lines, scan)
                       /\ at # None => Within(at[2], at[3])
                       /\ PageNear(kind, lines, answer.lines, top) /\ Apart(kind, lines, answer.lines))'
    BY <1>2
  <2> PICK sc : sc = scan
    OBVIOUS
  <2>1. ScanInv(FirstLines, First(lines), sc) /\ PrevInv(lines, sc)
    BY DEF Backing, RequestBack
  <2>2. (/\ ScanInv(FirstLines, First(lines), sc) /\ PrevInv(lines, sc)
         /\ at # None => Within(at[2], at[3])
         /\ PageNear(kind, lines, answer.lines, top) /\ Apart(kind, lines, answer.lines))'
    BY <1>2, <2>1, PrevKept
  <2> QED BY <1>2, <2>2
<1> QED BY <1>3, <1>4, <1>5, <1>6, <1>7, <1>8, <1>9, SameBounds DEF RequestBack

-----------------------------------------------------------------------------
(* A request comes, and goes its way. *)

\* No answer comes, and nothing of the request is left.
LEMMA BackToIdle ==
    ASSUME Backing, UNCHANGED answer, pc' = "idle" \/ (pc' = "merge" /\ pc # "idle" /\ top' = top)
    PROVE  AnswerBack' /\ RequestBack'
<1>1. AnswerBack'
  BY AnswerKept
<1>2. (pc # "idle" => FirstLines <= top)'
  BY DEF Backing, RequestBack
<1>3. pc' \notin {"dispatch", "scan", "read", "prev"}
  OBVIOUS
<1> QED BY <1>1, <1>2, <1>3, SameBounds DEF RequestBack

\* A request comes: its token is the one that was answered.
LEMMA AskBack ==
    ASSUME Backing, UNCHANGED storeVars, NEW k, Ask(k)
    PROVE  AnswerBack' /\ RequestBack'
<1>1. /\ pc' = "dispatch" /\ kind' = k /\ top' = written /\ answer' = answer
      /\ k = "prev" => answer.prev # None
  BY DEF Ask, Asks
<1>2. StoreInv /\ LinesInv /\ Moves /\ FirstLines <= written /\ written \in Nat
  BY DEF Backing, Asking, RequestBack, Moves, Grows
<1>3. (kind = "prev" /\ ~answer.merged => TokenBack(answer.prev, answer.lines, top))'
  <2> SUFFICES ASSUME k = "prev", ~answer.merged PROVE TokenBack(answer.prev, answer.lines, top)'
    BY <1>1
  <2>1. answer.kind # "none" /\ answer.prev # None
    BY <1>1 DEF Backing, Asking, OffsetAnswerInv
  <2> PICK t : t = answer.prev
    OBVIOUS
  <2> PICK L : L = answer.lines
    OBVIOUS
  <2> PICK n \in Nat : n = written
    BY <1>2
  <2>2. TokenBack(t, L, n)
    BY <2>1 DEF Backing, AnswerBack
  <2>3. Known(First(L))
    BY <2>1, AnswerIs
  <2>4. TokenBack(t, L, n)'
    BY <1>2, <2>2, <2>3, TokenStays
  <2> QED BY <1>1, <2>4
<1>4. (FirstLines <= top)'
  BY <1>1, <1>2
<1>5. pc' \notin {"idle", "scan", "read", "prev"}
  BY <1>1
<1>6. RequestBack'
  BY <1>3, <1>4, <1>5, SameBounds DEF RequestBack
<1> QED BY <1>1, <1>6, AnswerKept

\* A set of one at most.
LEMMA OneAtMost ==
    ASSUME NEW X, IsFiniteSet(X), ~(Cardinality(X) > 1), NEW a \in X, NEW b \in X
    PROVE  a = b
<1>1. Cardinality(X) \in Nat
  BY FS_CardinalityType
<1>2. Cardinality(X) # 0
  BY FS_EmptySet
<1>3. Cardinality(X) = 1
  BY <1>1, <1>2
<1> PICK x : X = {x}
  BY <1>3, FS_Singleton
<1> QED OBVIOUS

\* One container has a segment a day.
LEMMA ListLength ==
    ASSUME ListInv, ~(Cardinality({s[2] : s \in Set(chunks)}) > 1)
    PROVE  Len(chunks) <= Cardinality(Days)
<1> PICK X : X = {s[2] : s \in Set(chunks)}
  OBVIOUS
<1>1. /\ Len(chunks) \in Nat /\ DOMAIN chunks = 1..Len(chunks)
      /\ \A i \in 1..Len(chunks) : chunks[i] \in Segments
  BY LenProperties DEF ListInv
<1> PICK T : T = 1..Len(chunks)
  OBVIOUS
<1>2. IsFiniteSet(T) /\ Cardinality(T) = Len(chunks)
  BY <1>1, FS_Interval
<1>3. IsFiniteSet(X)
  <2> DEFINE g == [i \in T |-> chunks[i][2]]
  <2>1. g \in Surjection(T, X)
    BY <1>1 DEF Surjection, Set
  <2> QED BY <1>2, <2>1, FS_Surjection
<1> DEFINE f == [i \in T |-> chunks[i][1]]
<1>4. f \in [T -> Days]
  BY <1>1 DEF Segments
<1>5. ASSUME NEW i \in T, NEW j \in T, f[i] = f[j] PROVE i = j
  <2>1. chunks[i][2] \in X /\ chunks[j][2] \in X
    BY <1>1 DEF Set
  <2>2. chunks[i][2] = chunks[j][2]
    BY <1>3, <2>1, OneAtMost
  <2>3. chunks[i] = chunks[j]
    BY <1>1, <1>5, <2>2 DEF Segments
  <2> QED BY <2>3, ListedOnce
<1>6. f \in Injection(T, Days)
  BY <1>4, <1>5 DEF Injection, IsInjective
<1> QED BY <1>2, <1>6, DaysFinite, FS_Injection

\* A page by offsets is of one container.
LEMMA DispatchOne ==
    ASSUME Dispatch
    PROVE  /\ pc = "dispatch" /\ (pc' = "idle" \/ top' = top)
           /\ pc' \in {"scan", "read"} => ~(Cardinality({s[2] : s \in Set(chunks)}) > 1)
           /\ pc' = "idle" => answer' = answer
BY DEF Dispatch, Err, Idle, Merges

\* The lines of a file have their places, up to each of them.
LEMMA ContentWithin ==
    ASSUME StoreInv, LinesInv, FilesInv, Once, NEW s \in DOMAIN seg
    PROVE  /\ Len(Content(s)) \in Nat /\ DOMAIN Content(s) = 1..Len(Content(s))
           /\ \A o \in 0..Len(Content(s)) : Within(s, o)
<1> PICK f : f = <<s, seg[s]>>
  OBVIOUS
<1>1. f \in DOMAIN data /\ Content(s) = data[f] /\ IsSequence(data[f])
  BY DEF StoreInv, Content
<1>2. f[2] = 1
  BY <1>1 DEF Once, NoneMadeAgain
<1>3. Len(Content(s)) \in Nat /\ DOMAIN Content(s) = 1..Len(Content(s))
  BY <1>1, LenProperties DEF IsSequence
<1>4. ASSUME NEW i \in DOMAIN Content(s) PROVE <<s[1], s[2], 1, i>> \in Positions
  <2> PICK p \in Positions : SegmentOf(p) = s /\ p[4] = i
    BY PlaceIn
  <2>1. p = <<p[1], p[2], 1, p[4]>>
    BY OncePlace
  <2>2. s[1] = p[1] /\ s[2] = p[2]
    BY DEF SegmentOf
  <2> QED BY <2>1, <2>2
<1>5. ASSUME NEW o \in 0..Len(Content(s)) PROVE Within(s, o)
  <2>1. \A i \in 1..o : i \in DOMAIN Content(s)
    BY <1>3
  <2>2. o \in Nat
    BY <1>3
  <2> QED BY <1>4, <2>1, <2>2 DEF Within
<1> QED BY <1>3, <1>5

\* A line that is stored is in its file.
LEMMA StoredIn ==
    ASSUME StoreInv, LinesInv, NEW p \in Positions, NEW n, Remains(p, n)
    PROVE  SegmentOf(p) \in DOMAIN seg /\ p[4] \in DOMAIN Content(SegmentOf(p))
<1>1. SegmentOf(p) \in DOMAIN seg /\ seg[SegmentOf(p)] = p[3]
  BY RemainsIn
<1>2. p[4] \in DOMAIN data[<<SegmentOf(p), p[3]>>]
  BY PlaceHas
<1> QED BY <1>1, <1>2 DEF Content

\* The last page: its start is looked for from the end of the last file.
LEMMA DispatchLast ==
    ASSUME Backing, pc = "dispatch", kind = "last", chunks # <<>>, chunks[Len(chunks)] \in DOMAIN seg,
           NEW sc, sc = <<Len(chunks), Len(Content(chunks[Len(chunks)])), PageSize>>
    PROVE  ScanInv(top, {}, sc)
<1>1. /\ StoreInv /\ LinesInv /\ FilesInv /\ Once /\ ListInv
  BY DEF Backing, Asking, OffsetRequestInv
<1>2. Len(chunks) \in Nat /\ Len(chunks) \in 1..Len(chunks)
  <2>1. Len(chunks) \in Nat /\ DOMAIN chunks = 1..Len(chunks)
    BY <1>1, LenProperties DEF ListInv
  <2>2. Len(chunks) # 0
    BY <1>1, EmptySeq DEF ListInv
  <2> QED BY <2>1, <2>2
<1> PICK s \in DOMAIN seg : s = chunks[Len(chunks)]
  OBVIOUS
<1> PICK e : e = Len(Content(s))
  OBVIOUS
<1>3. e \in Nat /\ DOMAIN Content(s) = 1..e /\ Within(s, e)
  BY <1>1, ContentWithin
<1>4. sc[1] = Len(chunks) /\ sc[2] = e /\ sc[3] = PageSize /\ e # Whole
  BY <1>3 DEF Whole
<1>5. Owed(top, {}, Reached(sc)) = {}
  <2> SUFFICES ASSUME NEW p \in Due(top, {}), Past(p, <<Len(chunks), e>>) PROVE FALSE
    BY <1>4 DEF Owed, Reached
  <2>1. p \in Positions /\ Remains(p, top)
    BY DueIs
  <2> PICK k \in 1..Len(chunks) : /\ chunks[k] = SegmentOf(p)
                                  /\ k > Len(chunks) \/ (k = Len(chunks) /\ p[4] > e)
    BY DEF Past
  <2>2. k = Len(chunks) /\ p[4] > e
    BY <1>2
  <2>3. p[4] \in 1..e
    BY <1>1, <1>3, <2>1, <2>2, StoredIn
  <2> QED BY <1>3, <2>2, <2>3
<1>6. Cardinality(Owed(top, {}, Reached(sc))) = 0
  BY <1>5, FS_EmptySet
<1>7. 0 <= PageSize - sc[3] + Len(chunks) - sc[1] /\ sc[3] \in 1..PageSize
  BY <1>2, <1>4, PagesAssumption
<1> QED BY <1>2, <1>3, <1>4, <1>6, <1>7 DEF ScanInv

\* What is past the token's place is after the token.
LEMMA PastToken ==
    ASSUME ListInv, NEW i \in 1..Len(chunks), NEW t, chunks[i] = t[2], NEW p, Past(p, <<i, t[3]>>)
    PROVE  AfterToken(p, t)
<1> PICK k \in 1..Len(chunks) : chunks[k] = SegmentOf(p) /\ (k > i \/ (k = i /\ p[4] > t[3]))
  BY DEF Past
<1>1. CASE k > i
  BY <1>1 DEF ListInv, AfterToken
<1>2. CASE k = i /\ p[4] > t[3]
  BY <1>2 DEF AfterToken
<1> QED BY <1>1, <1>2

\* A page before another starts with no more lines ahead than its token promised.
LEMMA DispatchOwed ==
    ASSUME Backing, pc = "dispatch", kind = "prev", ~answer.merged,
           NEW i \in 1..Len(chunks), answer.prev[2] = chunks[i], NEW c, c = <<i, answer.prev[3]>>
    PROVE  Cardinality(Owed(FirstLines, First(answer.lines), c)) <= Most
<1>1. StoreInv /\ LinesInv /\ ListInv
  BY DEF Backing, Asking, OffsetRequestInv
<1> PICK t : t = answer.prev
  OBVIOUS
<1> PICK S : S = First(answer.lines)
  OBVIOUS
<1>2. TokenBack(t, answer.lines, top)
  BY DEF Backing, RequestBack
<1>3. Between(t, answer.lines) \in SUBSET Positions
  BY DEF Between, Due
<1>4. ASSUME NEW p \in Owed(FirstLines, S, c) PROVE p \in Between(t, answer.lines)
  <2>1. p \in Due(FirstLines, S) /\ Past(p, <<i, t[3]>>)
    BY DEF Owed
  <2>2. AfterToken(p, t)
    BY <1>1, <2>1, PastToken
  <2> QED BY <2>1, <2>2 DEF Between
<1>5. Cardinality(Owed(FirstLines, S, c)) <= Cardinality(Between(t, answer.lines))
  <2>1. Owed(FirstLines, S, c) \in SUBSET Between(t, answer.lines)
    BY <1>4
  <2> QED BY <1>1, <1>3, <2>1, PlacesWithin
<1>6. Cardinality(Owed(FirstLines, S, c)) \in Nat /\ Cardinality(Between(t, answer.lines)) \in Nat
  <2>1. Owed(FirstLines, S, c) \in SUBSET Positions
    BY DEF Owed, Due
  <2> QED BY <1>1, <1>3, <2>1, PlacesFinite
<1>7. Cardinality(Between(t, answer.lines)) <= Most /\ Most \in Int
  BY <1>2, DaysFinite, PagesAssumption DEF TokenBack, Most
<1> QED BY <1>5, <1>6, <1>7

\* So a page that begins to be read goes on having no more lines ahead than it may.
LEMMA StartsEmpty ==
    ASSUME StoreInv, LinesInv, Moves, UNCHANGED chunks, NEW n \in Nat, n <= written,
           NEW S, Known(S), NEW c, Cardinality(Owed(n, S, c)) <= Most
    PROVE  (Cardinality(Owed(n, S, c)) + Cardinality(Had(n, S, <<>>)) <= Most)'
<1>1. /\ Cardinality(Owed(n, S, c))' \in Nat /\ Cardinality(Owed(n, S, c)) \in Nat
      /\ Cardinality(Owed(n, S, c))' <= Cardinality(Owed(n, S, c))
  BY OwedStays
<1>2. Most \in Int /\ Most' = Most
  BY DaysFinite, PagesAssumption DEF Most
<1>3. Cardinality(Owed(n, S, c))' <= Most
  BY <1>1, <1>2
<1>4. Had(n, S, <<>>)' = {}
  <2>1. Set(<<>>) = {}
    BY EmptySeq DEF Set
  <2> QED BY <2>1 DEF Had, Places, Set
<1>5. Cardinality(Had(n, S, <<>>))' = 0
  BY <1>4, FS_EmptySet
<1>6. Cardinality(Owed(n, S, c))' + Cardinality(Had(n, S, <<>>))' <= Most
  BY <1>1, <1>2, <1>3, <1>5
<1> QED BY <1>2, <1>6

\* The offset where a page starts is within its file.
LEMMA DispatchWithin ==
    ASSUME Backing, pc = "dispatch", chunks # <<>>, kind # "last", Token # None => Token[1] = "offset",
           NEW c, IF Token = None THEN c = <<1, 0>>
                  ELSE \E i \in DOMAIN chunks : Token[2] = chunks[i] /\ c = <<i, Token[3]>>
    PROVE  /\ c = <<c[1], c[2]>> /\ c[1] \in 1..Len(chunks) /\ Within(chunks[c[1]], c[2])
           /\ kind = "prev" => chunks[c[1]] = answer.prev[2] /\ c[2] = answer.prev[3]
<1>1. chunks \in Seq(Segments) /\ Len(chunks) \in Nat /\ DOMAIN chunks = 1..Len(chunks)
  BY LenProperties DEF Backing, Asking, OffsetRequestInv, ListInv
<1>2. CASE Token = None
  <2>1. 1 \in 1..Len(chunks)
    BY <1>1, EmptySeq
  <2>2. Within(chunks[1], 0)
    BY DEF Within
  <2>3. kind # "prev"
    BY <1>2 DEF Backing, Asking, RequestInv, Token
  <2> QED BY <1>2, <2>1, <2>2, <2>3
<1>3. CASE Token # None
  <2> PICK i \in DOMAIN chunks : Token[2] = chunks[i] /\ c = <<i, Token[3]>>
    BY <1>3
  <2>1. kind \in {"next", "prev"} /\ answer.kind # "none" /\ ~answer.merged
    BY <1>3, TokenIs DEF Backing
  <2>2. Within(Token[2], Token[3])
    <3>1. CASE kind = "next"
      BY <1>3, <2>1, <3>1 DEF Token, Backing, AnswerBack
    <3>2. CASE kind = "prev"
      BY <1>3, <2>1, <3>2 DEF Token, Backing, AnswerBack, TokenBack
    <3> QED BY <2>1, <3>1, <3>2
  <2>3. kind = "prev" => Token = answer.prev
    BY DEF Token
  <2> QED BY <1>1, <2>2, <2>3
<1> QED BY <1>2, <1>3

\* A request goes its way.
LEMMA DispatchBack ==
    ASSUME Backing, Dispatch, request \in {"pages", "workload"}
    PROVE  AnswerBack' /\ RequestBack'
<1>1. /\ pc = "dispatch" /\ (pc' = "idle" \/ top' = top)
      /\ pc' \in {"scan", "read"} => ~(Cardinality({s[2] : s \in Set(chunks)}) > 1)
      /\ pc' = "idle" => answer' = answer
  BY DispatchOne
<1>2. /\ StoreInv /\ LinesInv /\ Moves /\ ListInv /\ lines = <<>> /\ FirstLines <= written
      /\ written \in Nat /\ top \in Nat /\ top <= written /\ FirstLines <= top
      /\ kind \in {"first", "last", "next", "prev"}
      /\ chunks \in Seq(Segments)
  BY <1>1 DEF Backing, Asking, OffsetRequestInv, RequestBack, RequestInv, Moves, Grows, ListInv
<1>3. \/ Err
      \/ pc' = "merge" /\ UNCHANGED answer
      \/ /\ chunks # <<>> /\ UNCHANGED <<kind, top, chunks, lines, answer>>
         /\ Token # None => Token[1] = "offset"
         /\ \/ /\ kind = "last" /\ pc' = "scan" /\ chunks[Len(chunks)] \in DOMAIN seg
               /\ scan' = <<Len(chunks), Len(Content(chunks[Len(chunks)])), PageSize>>
            \/ /\ kind # "last" /\ pc' = "read" /\ at' = start'
               /\ IF Token = None THEN start' = <<1, 0>>
                  ELSE \E i \in DOMAIN chunks : Token[2] = chunks[i] /\ start' = <<i, Token[3]>>
  BY WaysToGo
<1>4. CASE Err
  <2>1. pc' = "idle" /\ UNCHANGED answer
    BY <1>4 DEF Err, Idle
  <2> QED BY <2>1, BackToIdle
<1>5. CASE pc' = "merge" /\ UNCHANGED answer
  BY <1>1, <1>5, BackToIdle
<1>6. CASE /\ chunks # <<>> /\ UNCHANGED <<kind, top, chunks, lines, answer>>
           /\ kind = "last" /\ pc' = "scan" /\ chunks[Len(chunks)] \in DOMAIN seg
           /\ scan' = <<Len(chunks), Len(Content(chunks[Len(chunks)])), PageSize>>
  <2> PICK sc : sc = scan'
    OBVIOUS
  <2> PICK n \in Nat : n = top /\ n <= written
    BY <1>2
  <2>1. ScanInv(n, {}, sc)
    BY <1>1, <1>6, DispatchLast
  <2>2. Known({})
    BY DEF Known
  <2>3. ScanInv(n, {}, sc)'
    BY <1>2, <1>6, <2>1, <2>2, ScanStays
  <2>4. ScanInv(top, {}, scan)'
    BY <1>6, <2>3
  <2>5. Len(chunks)' <= Cardinality(Days)
    BY <1>1, <1>2, <1>6, ListLength
  <2>6. (pc \in {"scan", "read", "prev"} => Len(chunks) <= Cardinality(Days))'
    BY <2>5
  <2>7. pc' = "scan" /\ (FirstLines <= top)'
    BY <1>2, <1>6
  <2>8. RequestBack'
    BY <2>4, <2>6, <2>7, SameBounds DEF RequestBack
  <2> QED BY <1>6, <2>8, AnswerKept
<1>7. CASE /\ chunks # <<>> /\ UNCHANGED <<kind, top, chunks, lines, answer>>
           /\ Token # None => Token[1] = "offset"
           /\ kind # "last" /\ pc' = "read" /\ at' = start'
           /\ IF Token = None THEN start' = <<1, 0>>
              ELSE \E i \in DOMAIN chunks : Token[2] = chunks[i] /\ start' = <<i, Token[3]>>
  <2> PICK c : c = start'
    OBVIOUS
  <2> PICK n \in Nat : n = top /\ n <= written
    BY <1>2
  <2> PICK k : k = kind
    OBVIOUS
  <2> PICK F : F = answer.lines
    OBVIOUS
  <2> PICK t : t = answer.prev
    OBVIOUS
  <2>1. /\ c = <<c[1], c[2]>> /\ c[1] \in 1..Len(chunks) /\ Within(chunks[c[1]], c[2])
        /\ k = "prev" => chunks[c[1]] = t[2] /\ c[2] = t[3]
    BY <1>1, <1>7, DispatchWithin
  <2>2. k = "prev" => answer.kind # "none" /\ ~answer.merged
    <3>1. k = "prev" => Token # None
      BY <1>1 DEF Token, Backing, Asking, RequestInv
    <3> QED BY <1>1, <1>7, <3>1, TokenIs DEF Backing
  <2>3. ASSUME k = "prev" PROVE TokenBack(t, F, n)'
    <3>1. TokenBack(t, F, n)
      BY <1>1, <2>2, <2>3 DEF Backing, RequestBack
    <3>2. Known(First(F))
      BY <2>2, <2>3, AnswerIs
    <3> QED BY <1>2, <3>1, <3>2, TokenStays
  <2>4. (pc \in {"dispatch", "read"} /\ kind = "prev" /\ ~answer.merged =>
            TokenBack(answer.prev, answer.lines, top))'
    BY <1>7, <2>3
  <2>5. Within(chunks[start[1]], start[2])'
    <3> PICK s : s = chunks[c[1]]
      OBVIOUS
    <3> PICK o : o = c[2]
      OBVIOUS
    <3>1. Within(s, o)'
      BY <1>2, <2>1, WithinStays
    <3> QED BY <1>7, <3>1
  <2>6. ReadBack(lines, at)'
    <3>1. ~(c[1] > c[1])
      BY <2>1
    <3>2. ASSUME k = "prev"
          PROVE  (Cardinality(Owed(FirstLines, First(F), c)) + Cardinality(Had(FirstLines, First(F), <<>>)) <= Most)'
      <4> PICK S : S = First(F)
        OBVIOUS
      <4>1. Cardinality(Owed(FirstLines, S, c)) <= Most
        BY <1>1, <1>7, <2>1, <2>2, <3>2, DispatchOwed
      <4>2. Known(S)
        BY <2>2, <3>2, AnswerIs
      <4>3. (Cardinality(Owed(FirstLines, S, c)) + Cardinality(Had(FirstLines, S, <<>>)) <= Most)'
        BY <1>2, <1>7, <4>1, <4>2, StartsEmpty, StoreAssumption
      <4> QED BY <4>3 DEF First
    <3>3. /\ kind' = k /\ at' = c /\ start' = c /\ lines' = <<>> /\ answer'.lines = F /\ k # "last"
          /\ k = "prev" => Since(kind, top)' = FirstLines /\ Upto(kind, answer.lines)' = First(F)
      BY <1>2, <1>7 DEF Since, Upto, First
    <3>4. (kind \in {"last", "prev"} =>
              Cardinality(Owed(Since(kind, top), Upto(kind, answer.lines), at))
                 + Cardinality(Had(Since(kind, top), Upto(kind, answer.lines), lines)) <= Most)'
      BY <3>2, <3>3 DEF First
    <3>5. ~(at[1] > start[1])'
      BY <3>1, <3>3
    <3> QED BY <3>4, <3>5 DEF ReadBack
  <2>7. (kind = "prev" => chunks[start[1]] = answer.prev[2] /\ start[2] = answer.prev[3])'
    BY <1>7, <2>1
  <2>8. (pc \in {"scan", "read", "prev"} => Len(chunks) <= Cardinality(Days))'
    BY <1>1, <1>2, <1>7, ListLength
  <2>9. pc' = "read" /\ (FirstLines <= top)'
    BY <1>2, <1>7
  <2>10. RequestBack'
    BY <2>4, <2>5, <2>6, <2>7, <2>8, <2>9, SameBounds DEF RequestBack
  <2> QED BY <1>7, <2>10, AnswerKept
<1> QED BY <1>3, <1>4, <1>5, <1>6, <1>7

-----------------------------------------------------------------------------
(* A file is scanned for the start of a page. *)

\* How long it is as far as it is scanned, how many lines are still to be found in
\* those before it, and from which offset on they need not be.
EndOf(sc) == IF sc[2] = Whole THEN Len(Content(chunks[sc[1]])) ELSE sc[2]

Scans(sc, lo, rest) ==
    \/ /\ chunks[sc[1]] \notin DOMAIN seg \/ EndOf(sc) = 0
       /\ lo = 0 /\ rest = sc[3]
    \/ /\ chunks[sc[1]] \in DOMAIN seg /\ EndOf(sc) # 0 /\ sc[3] < EndOf(sc)
       /\ lo = EndOf(sc) - sc[3] /\ rest = 0
    \/ /\ chunks[sc[1]] \in DOMAIN seg /\ EndOf(sc) # 0 /\ ~(sc[3] < EndOf(sc))
       /\ lo = 0 /\ rest = sc[3] - EndOf(sc) + 1

\* Where a scan stands.
Scanning(n, S, sc) ==
    /\ StoreInv /\ LinesInv /\ FilesInv /\ Once /\ ListInv /\ ScanInv(n, S, sc)

\* The numbers of a scan.
LEMMA ScanTyped ==
    ASSUME NEW n, NEW S, NEW sc, Scanning(n, S, sc)
    PROVE  /\ sc[1] \in 1..Len(chunks) /\ sc[1] \in Nat /\ Len(chunks) \in Nat
           /\ sc[3] \in Nat /\ sc[3] >= 1 /\ sc[3] <= PageSize /\ PageSize \in Nat
           /\ chunks[sc[1]] \in DOMAIN seg =>
                 EndOf(sc) \in Nat /\ Within(chunks[sc[1]], EndOf(sc))
           /\ sc[2] # Whole => EndOf(sc) = sc[2] /\ sc[2] \in Nat
           /\ sc[2] = Whole => EndOf(sc) = Len(Content(chunks[sc[1]]))
<1>1. Len(chunks) \in Nat
  BY LenProperties DEF Scanning, ListInv
<1>2. sc[1] \in 1..Len(chunks) /\ sc[2] \in Nat \cup {Whole} /\ sc[3] \in 1..PageSize
      /\ (sc[2] # Whole => Within(chunks[sc[1]], sc[2]))
  BY DEF Scanning, ScanInv
<1>3. ASSUME chunks[sc[1]] \in DOMAIN seg PROVE EndOf(sc) \in Nat /\ Within(chunks[sc[1]], EndOf(sc))
  <2> PICK s \in DOMAIN seg : s = chunks[sc[1]]
    BY <1>3
  <2>1. Len(Content(s)) \in Nat /\ Len(Content(s)) \in 0..Len(Content(s))
        /\ Within(s, Len(Content(s)))
    <3>1. Len(Content(s)) \in Nat /\ \A o \in 0..Len(Content(s)) : Within(s, o)
      BY ContentWithin DEF Scanning
    <3> QED BY <3>1
  <2> QED BY <1>2, <2>1 DEF EndOf
<1> QED BY <1>1, <1>2, <1>3, PagesAssumption DEF EndOf

\* What findChunkPageStartBefore finds in a file, and what it does then.
LEMMA ScanWays ==
    ASSUME NEW n, NEW S, Scanning(n, S, scan), ScanFile, ~Beyond
    PROVE  \E lo, rest :
              /\ Scans(scan, lo, rest)
              /\ \/ /\ rest # 0 /\ scan[1] # 1 /\ scan' = <<scan[1] - 1, Whole, rest>>
                    /\ UNCHANGED <<pc, kind, top, chunks, start, at, lines, answer>>
                 \/ \E back :
                       /\ \/ rest = 0 /\ back = <<scan[1], lo>>
                          \/ rest # 0 /\ scan[1] = 1 /\ back = <<1, 0>>
                       /\ \/ /\ pc = "scan" /\ pc' = "read" /\ start' = back /\ at' = back
                             /\ UNCHANGED <<kind, top, chunks, lines, answer>>
                          \/ /\ pc = "prev"
                             /\ Answer(FALSE, lines, at, <<"offset", chunks[back[1]], back[2]>>)
<1>1. PICK gone \in BOOLEAN : gone = (chunks[scan[1]] \notin DOMAIN seg)
  OBVIOUS
<1>2. PICK end : end = IF scan[2] = Whole THEN Len(Content(chunks[scan[1]])) ELSE scan[2]
  OBVIOUS
<1>3. PICK found : found = IF gone THEN <<0, 0>> ELSE Backward(end, scan[3])
  OBVIOUS
<1>4. PICK back : back = IF scan[3] - found[2] = 0 THEN <<scan[1], found[1]>>
                         ELSE IF scan[1] = 1 THEN <<1, 0>> ELSE None
  OBVIOUS
<1>5. IF back = None
      THEN /\ scan' = <<scan[1] - 1, Whole, scan[3] - found[2]>>
           /\ UNCHANGED <<pc, kind, top, chunks, start, at, lines, heap, matching, answer, asks>>
      ELSE IF pc = "scan"
      THEN /\ pc' = "read" /\ start' = back /\ at' = back /\ scan' = None
           /\ UNCHANGED <<kind, top, chunks, lines, heap, matching, answer, asks>>
      ELSE Answer(FALSE, lines, at, <<"offset", chunks[back[1]], back[2]>>)
  BY <1>1, <1>2, <1>3, <1>4 DEF ScanFile
<1> PICK here : here = chunks[scan[1]]
  OBVIOUS
<1>6. PICK rest : rest = scan[3] - found[2]
  OBVIOUS
<1>7. end = EndOf(scan) /\ found = IF here \notin DOMAIN seg THEN <<0, 0>> ELSE Backward(end, scan[3])
  BY <1>1, <1>2, <1>3 DEF EndOf
<1>8. pc \in {"scan", "prev"}
  BY DEF ScanFile
<1>9. \/ /\ rest # 0 /\ scan[1] # 1 /\ scan' = <<scan[1] - 1, Whole, rest>>
         /\ UNCHANGED <<pc, kind, top, chunks, start, at, lines, answer>>
      \/ \E p :
            /\ \/ rest = 0 /\ p = <<scan[1], found[1]>>
               \/ rest # 0 /\ scan[1] = 1 /\ p = <<1, 0>>
            /\ \/ /\ pc = "scan" /\ pc' = "read" /\ start' = p /\ at' = p
                  /\ UNCHANGED <<kind, top, chunks, lines, answer>>
               \/ /\ pc = "prev"
                  /\ Answer(FALSE, lines, at, <<"offset", chunks[p[1]], p[2]>>)
  <2>1. \/ rest = 0 /\ back = <<scan[1], found[1]>>
        \/ rest # 0 /\ scan[1] = 1 /\ back = <<1, 0>>
        \/ rest # 0 /\ scan[1] # 1 /\ back = None
    BY <1>4, <1>6
  <2>2. \A a, b : <<a, b>> # None
    BY DEF None
  <2>3. CASE back = None
    BY <1>5, <1>6, <2>1, <2>2, <2>3
  <2>4. CASE back # None
    <3>1. \/ /\ pc = "scan" /\ pc' = "read" /\ start' = back /\ at' = back
             /\ UNCHANGED <<kind, top, chunks, lines, answer>>
          \/ /\ pc = "prev"
             /\ Answer(FALSE, lines, at, <<"offset", chunks[back[1]], back[2]>>)
      BY <1>5, <1>8, <2>4
    <3> QED BY <2>1, <2>4, <3>1
  <2> QED BY <2>3, <2>4
<1>10. scan[3] \in Nat /\ (here \in DOMAIN seg => end \in Nat)
  BY <1>7, ScanTyped
<1>11. Scans(scan, found[1], rest)
  <2>1. CASE here \notin DOMAIN seg
    <3>1. found[1] = 0 /\ rest = scan[3]
      BY <1>10, <1>6, <1>7, <2>1
    <3> QED BY <1>7, <2>1, <3>1 DEF Scans
  <2>2. CASE here \in DOMAIN seg /\ end = 0
    <3>1. found = <<0, 0>>
      BY <1>10, <1>7, <2>2 DEF Backward
    <3>2. found[1] = 0 /\ rest = scan[3]
      BY <1>10, <1>6, <3>1
    <3> QED BY <1>7, <2>2, <3>2 DEF Scans
  <2>3. CASE here \in DOMAIN seg /\ end # 0 /\ scan[3] < end
    <3>1. found = <<end - scan[3], scan[3]>>
      BY <1>10, <1>7, <2>3 DEF Backward
    <3>2. found[1] = end - scan[3] /\ rest = 0
      BY <1>10, <1>6, <3>1
    <3> QED BY <1>7, <2>3, <3>2 DEF Scans
  <2>4. CASE here \in DOMAIN seg /\ end # 0 /\ ~(scan[3] < end)
    <3>1. found = <<0, end - 1>>
      BY <1>10, <1>7, <2>4 DEF Backward
    <3>2. found[1] = 0 /\ rest = scan[3] - end + 1
      BY <1>10, <1>6, <2>4, <3>1
    <3> QED BY <1>7, <2>4, <3>2 DEF Scans
  <2> QED BY <2>1, <2>2, <2>3, <2>4
<1> QED BY <1>8, <1>9, <1>11

\* What a file adds to the lines due beyond the point reached: no more than it has there.
LEMMA ScanAdds ==
    ASSUME NEW n, NEW S, NEW sc, Scanning(n, S, sc), chunks[sc[1]] \in DOMAIN seg,
           NEW lo \in Nat, lo <= EndOf(sc)
    PROVE  Cardinality(Owed(n, S, <<sc[1], lo>>))
              <= Cardinality(Owed(n, S, Reached(sc))) + (EndOf(sc) - lo)
<1> PICK c \in Nat : c = sc[1]
  BY ScanTyped
<1> PICK s : s = chunks[c]
  OBVIOUS
<1> PICK end \in Nat : end = EndOf(sc)
  BY ScanTyped
<1>1. StoreInv /\ LinesInv /\ FilesInv /\ Once /\ ListInv
  BY DEF Scanning
<1> PICK O : O = Owed(n, S, <<c, lo>>)
  OBVIOUS
<1> PICK B : B = Owed(n, S, Reached(sc))
  OBVIOUS
<1> PICK A : A = {p \in O : SegmentOf(p) = s /\ p[4] > lo /\ p[4] <= end}
  OBVIOUS
<1>2. ASSUME NEW p \in O, p \notin B PROVE p \in A
  <2>1. p \in Due(n, S) /\ Past(p, <<c, lo>>) /\ p \in Positions /\ Remains(p, n)
    BY DEF Owed, Due
  <2> PICK k \in 1..Len(chunks) : chunks[k] = SegmentOf(p) /\ (k > c \/ (k = c /\ p[4] > lo))
    BY <2>1 DEF Past
  <2>2. ~Past(p, Reached(sc))
    BY <1>2, <2>1 DEF Owed
  <2>3. p[4] \in Nat /\ p[4] >= 1 /\ k \in Nat
    <3>1. p[4] \in Nat /\ p[4] \in 1..MaxLines
      BY <1>1, <2>1, PlaceHas
    <3>2. Len(chunks) \in Nat
      BY ScanTyped
    <3> QED BY <3>1, <3>2
  <2>4. CASE sc[2] = Whole
    <3>1. ~(k > c + 1) /\ ~(k = c + 1 /\ p[4] > 0)
      BY <2>2, <2>4 DEF Reached, Past
    <3>2. k = c /\ p[4] > lo
      BY <2>3, <3>1
    <3>3. p[4] \in DOMAIN Content(s)
      BY <1>1, <2>1, <3>2, StoredIn
    <3>4. p[4] <= end
      <4>1. s \in DOMAIN seg /\ end = Len(Content(s))
        BY <2>4, ScanTyped
      <4>2. DOMAIN Content(s) = 1..end
        BY <1>1, <4>1, ContentWithin
      <4> QED BY <3>3, <4>2
    <3> QED BY <3>2, <3>4
  <2>5. CASE sc[2] # Whole
    <3>1. ~(k > c) /\ ~(k = c /\ p[4] > end)
      BY <2>2, <2>5, ScanTyped DEF Reached, Past
    <3> QED BY <2>3, <3>1
  <2> QED BY <2>4, <2>5
<1>3. O \in SUBSET Positions /\ B \in SUBSET Positions /\ A \in SUBSET Positions
  BY DEF Owed, Due
<1>4. Cardinality(A) <= end - lo
  BY <1>1, <1>3, InFile
<1>5. Cardinality(O) <= Cardinality(B \cup A)
  <2>1. O \in SUBSET (B \cup A) /\ B \cup A \in SUBSET Positions
    BY <1>2, <1>3
  <2> QED BY <1>1, <2>1, PlacesWithin
<1>6. Cardinality(B \cup A) <= Cardinality(B) + Cardinality(A)
  BY <1>1, <1>3, PlacesAdd
<1>7. Cardinality(A) \in Nat /\ Cardinality(B) \in Nat /\ Cardinality(O) \in Nat
      /\ Cardinality(B \cup A) \in Nat
  <2>1. B \cup A \in SUBSET Positions
    BY <1>3
  <2> QED BY <1>1, <1>3, <2>1, PlacesFinite
<1>8. Cardinality(O) <= Cardinality(B) + (end - lo)
  BY <1>4, <1>5, <1>6, <1>7
<1> QED BY <1>8

\* A file that is gone adds nothing.
LEMMA ScanAddsNone ==
    ASSUME NEW n, NEW S, NEW sc, Scanning(n, S, sc), chunks[sc[1]] \notin DOMAIN seg
    PROVE  Cardinality(Owed(n, S, <<sc[1], 0>>)) <= Cardinality(Owed(n, S, Reached(sc)))
<1> PICK c \in Nat : c = sc[1]
  BY ScanTyped
<1>1. StoreInv /\ LinesInv /\ FilesInv /\ Once /\ ListInv
  BY DEF Scanning
<1> PICK O : O = Owed(n, S, <<c, 0>>)
  OBVIOUS
<1> PICK B : B = Owed(n, S, Reached(sc))
  OBVIOUS
<1>2. ASSUME NEW p \in O PROVE p \in B
  <2>1. p \in Due(n, S) /\ Past(p, <<c, 0>>) /\ p \in Positions /\ Remains(p, n)
    BY DEF Owed, Due
  <2> PICK k \in 1..Len(chunks) : chunks[k] = SegmentOf(p) /\ (k > c \/ (k = c /\ p[4] > 0))
    BY <2>1 DEF Past
  <2>2. p[4] \in Nat /\ p[4] >= 1 /\ k \in Nat
    <3>1. p[4] \in Nat /\ p[4] \in 1..MaxLines
      BY <1>1, <2>1, PlaceHas
    <3>2. Len(chunks) \in Nat
      BY ScanTyped
    <3> QED BY <3>1, <3>2
  <2>3. k # c
    BY <1>1, <2>1, StoredIn
  <2>4. k > c /\ (k > c + 1 \/ (k = c + 1 /\ p[4] > 0))
    BY <2>2, <2>3
  <2>5. Past(p, Reached(sc))
    BY <2>4 DEF Past, Reached
  <2> QED BY <2>1, <2>5 DEF Owed
<1>3. O \in SUBSET B /\ B \in SUBSET Positions
  BY <1>2 DEF Owed, Due
<1> QED BY <1>1, <1>3, PlacesWithin

\* What is after a token is past its place, if it is listed.
LEMMA TokenPast ==
    ASSUME ListInv, NEW i \in 1..Len(chunks), NEW t, chunks[i] = t[2],
           NEW p, NEW k \in 1..Len(chunks), chunks[k] = SegmentOf(p), AfterToken(p, t)
    PROVE  Past(p, <<i, t[3]>>)
<1>1. Len(chunks) \in Nat /\ \A j \in 1..Len(chunks) : chunks[j] \in Int \X Int
  BY LenProperties, SegmentPair DEF ListInv
<1>2. CASE Below(t[2], SegmentOf(p))
  <2>1. ~(k < i)
    <3>1. k < i => Below(chunks[k], chunks[i])
      BY DEF ListInv
    <3> QED BY <1>1, <1>2, <3>1, PairsOrdered DEF Ordered
  <2>2. k # i
    BY <1>1, <1>2, PairsOrdered DEF Ordered
  <2>3. k > i
    BY <1>1, <2>1, <2>2
  <2> QED BY <2>3 DEF Past
<1>3. CASE SegmentOf(p) = t[2] /\ p[4] > t[3]
  <2>1. k = i
    BY <1>3, ListedOnce
  <2> QED BY <1>3, <2>1 DEF Past
<1> QED BY <1>2, <1>3 DEF AfterToken

\* Sums.
LEMMA CountSums ==
    ASSUME NEW x \in Nat, NEW y \in Nat, NEW size \in Nat, NEW need \in Nat, NEW len \in Nat,
           NEW c \in Nat, NEW e \in Nat, x <= size - need + len - c
    PROVE  /\ y <= x => y <= size - need + len - c + 1
           /\ y <= x + (e - (e - need)) => y <= size - 0 + len - c + 0
OBVIOUS

LEMMA CountSum ==
    ASSUME NEW x \in Nat, NEW y \in Nat, NEW size \in Nat, NEW need \in Nat, NEW len \in Nat,
           NEW c \in Nat, NEW e \in Nat, x <= size - need + len - c, y <= x + (e - 0)
    PROVE  y <= size - (need - e + 1) + len - c + 1
OBVIOUS

LEMMA PlacesLeft ==
    ASSUME NEW e \in Nat, NEW l \in Nat, NEW need \in Nat, need >= 1, need < e, l = e - need
    PROVE  l <= e /\ l + 1 \in 1..e /\ \A i \in 1..l : i \in 1..e
OBVIOUS

LEMMA FoundSums ==
    ASSUME NEW b \in Nat, NEW d \in Nat, NEW size \in Nat, NEW need \in Nat, NEW e \in Nat,
           size - need <= b
    PROVE  b + (e - 0) <= d => size - (need - e + 1) <= d
OBVIOUS

\* The lines due beyond where a scan gets to are those it has counted, and one of each
\* file but the one it has found the start of the page in.
LEMMA ScanCount ==
    ASSUME NEW n, NEW S, NEW sc, Scanning(n, S, sc), NEW lo, NEW rest, Scans(sc, lo, rest)
    PROVE  /\ lo \in Nat /\ rest \in Nat /\ rest <= sc[3] /\ (rest # 0 => lo = 0)
           /\ Within(chunks[sc[1]], lo)
           /\ rest = 0 => <<chunks[sc[1]][1], chunks[sc[1]][2], 1, lo + 1>> \in Positions
           /\ Cardinality(Owed(n, S, <<sc[1], lo>>))
                 <= PageSize - rest + Len(chunks) - sc[1] + (IF rest = 0 THEN 0 ELSE 1)
<1> PICK c \in Nat : c = sc[1]
  BY ScanTyped
<1> PICK need \in Nat : need = sc[3] /\ need >= 1
  BY ScanTyped
<1> PICK s : s = chunks[c]
  OBVIOUS
<1> PICK end : end = EndOf(sc)
  OBVIOUS
<1> PICK len \in Nat : len = Len(chunks)
  BY ScanTyped
<1> PICK size \in Nat : size = PageSize
  BY PagesAssumption
<1>0. Cardinality(Owed(n, S, Reached(sc))) \in Nat /\ Cardinality(Owed(n, S, <<c, lo>>)) \in Nat
  <2>1. Owed(n, S, Reached(sc)) \in SUBSET Positions /\ Owed(n, S, <<c, lo>>) \in SUBSET Positions
    BY DEF Owed, Due
  <2> QED BY <2>1, PlacesFinite DEF Scanning
<1> PICK x \in Nat : x = Cardinality(Owed(n, S, Reached(sc)))
  BY <1>0
<1> PICK y \in Nat : y = Cardinality(Owed(n, S, <<c, lo>>))
  BY <1>0
<1>1. x <= size - need + len - c
  BY DEF Scanning, ScanInv
<1>2. s \in DOMAIN seg => end \in Nat /\ Within(s, end)
  BY ScanTyped
<1>3. ASSUME s \in DOMAIN seg, lo \in Nat, lo <= end PROVE y <= x + (end - lo)
  BY <1>3, ScanAdds
<1>4. CASE (s \notin DOMAIN seg \/ end = 0) /\ lo = 0 /\ rest = need
  <2>1. y <= x
    <3>1. CASE s \notin DOMAIN seg
      BY <1>4, <3>1, ScanAddsNone
    <3>2. CASE s \in DOMAIN seg /\ end = 0
      <4>1. y <= x + (0 - 0)
        BY <1>3, <1>4, <3>2
      <4> QED BY <4>1
    <3> QED BY <1>4, <3>1, <3>2
  <2>2. y <= size - need + len - c + 1
    BY <1>1, <2>1, 0 \in Nat, CountSums, ZenonT(60)
  <2>3. Within(s, 0)
    BY DEF Within
  <2>4. rest = need /\ lo = 0 /\ need # 0
    BY <1>4
  <2> QED BY <2>2, <2>3, <2>4
<1>5. CASE s \in DOMAIN seg /\ end # 0 /\ need < end /\ lo = end - need /\ rest = 0
  <2> PICK e \in Nat : e = end
    BY <1>2, <1>5
  <2> PICK l \in Nat : l = e - need
    BY <1>5, SMTT(30)
  <2>1. lo = l /\ l <= e /\ l + 1 \in 1..e /\ \A i \in 1..l : i \in 1..e
    <3>1. need >= 1
      BY ScanTyped
    <3>2. lo = l /\ need < e /\ l = e - need
      BY <1>5
    <3> QED BY <3>1, <3>2, PlacesLeft, ZenonT(60)
  <2>2. y <= x + (e - l)
    BY <1>3, <1>5, <2>1
  <2>3. y <= size - 0 + len - c + 0
    <3>1. y <= x + (e - (e - need))
      BY <2>2
    <3> QED BY <1>1, <3>1, CountSums, ZenonT(60)
  <2>4. Within(s, e)
    BY <1>2, <1>5
  <2>5. Within(s, l) /\ <<s[1], s[2], 1, l + 1>> \in Positions
    BY <2>1, <2>4 DEF Within
  <2> QED BY <1>5, <2>1, <2>3, <2>5
<1>6. CASE s \in DOMAIN seg /\ end # 0 /\ ~(need < end) /\ lo = 0 /\ rest = need - end + 1
  <2> PICK e \in Nat : e = end
    BY <1>2, <1>6
  <2>2. y <= x + (e - 0)
    BY <1>3, <1>6
  <2>3. y <= size - (need - e + 1) + len - c + 1
    BY <1>1, <2>2, CountSum, ZenonT(60)
  <2>1. rest \in Nat /\ rest # 0 /\ rest <= need /\ rest = need - e + 1
    BY <1>6, SMTT(60)
  <2>4. Within(s, 0)
    BY DEF Within
  <2> QED BY <1>6, <2>1, <2>3, <2>4
<1> QED BY <1>4, <1>5, <1>6 DEF Scans

\* So they are not too many, where a page begins.
LEMMA ScanMost ==
    ASSUME NEW n, NEW S, NEW sc, Scanning(n, S, sc), NEW lo, NEW rest, Scans(sc, lo, rest),
           Len(chunks) <= Cardinality(Days)
    PROVE  Cardinality(Owed(n, S, <<sc[1], lo>>)) <= Most
<1> PICK y \in Nat : y = Cardinality(Owed(n, S, <<sc[1], lo>>))
  <2>1. Owed(n, S, <<sc[1], lo>>) \in SUBSET Positions
    BY DEF Owed, Due
  <2> QED BY <2>1, PlacesFinite DEF Scanning
<1>1. rest \in Nat /\ y <= PageSize - rest + Len(chunks) - sc[1] + (IF rest = 0 THEN 0 ELSE 1)
  BY ScanCount
<1>2. sc[1] \in Nat /\ sc[1] >= 1 /\ Len(chunks) \in Nat /\ PageSize \in Nat
  BY ScanTyped
<1>3. Cardinality(Days) \in Nat
  BY DaysFinite
<1>4. y <= PageSize + Cardinality(Days) - 1
  <2>1. CASE rest = 0
    BY <1>1, <1>2, <1>3, <2>1
  <2>2. CASE rest # 0
    BY <1>1, <1>2, <1>3, <2>2, SMTT(30)
  <2> QED BY <2>1, <2>2
<1> QED BY <1>4 DEF Most

\* The lines that a scan has counted are there, before the page that it is for.
LEMMA ScanFound ==
    ASSUME NEW n, NEW S, NEW sc, Scanning(n, S, sc), NEW lo, NEW rest, Scans(sc, lo, rest),
           NEW L, L # <<>>, PrevInv(L, sc)
    PROVE  PageSize - rest <= Cardinality(Counted(L, <<sc[1], lo>>))
<1> PICK c \in Nat : c = sc[1]
  BY ScanTyped
<1> PICK need \in Nat : need = sc[3] /\ need >= 1
  BY ScanTyped
<1> PICK s : s = chunks[c]
  OBVIOUS
<1> PICK end : end = EndOf(sc)
  OBVIOUS
<1> PICK B : B = Counted(L, Reached(sc))
  OBVIOUS
<1> PICK C : C = Counted(L, <<c, lo>>)
  OBVIOUS
<1>1. StoreInv /\ LinesInv /\ FilesInv /\ Once /\ ListInv
  BY DEF Scanning
<1>2. s \in DOMAIN seg => end \in Nat /\ Within(s, end)
  BY ScanTyped
<1>3. lo \in Nat /\ rest \in Nat /\ (s \in DOMAIN seg => lo <= end)
      /\ (s \notin DOMAIN seg => lo = 0)
  <2>1. lo \in Nat /\ rest \in Nat
    BY ScanCount
  <2>2. CASE lo = 0
    BY <1>2, <2>1, <2>2
  <2>3. CASE lo # 0
    BY <1>2, <2>1, <2>3 DEF Scans
  <2> QED BY <2>1, <2>2, <2>3
<1>4. B \in SUBSET Positions /\ C \in SUBSET Positions
  BY DEF Counted
<1>5. PageSize - need <= Cardinality(B)
  BY DEF PrevInv
<1>6. Len(chunks) \in Nat /\ PageSize \in Nat /\ c \in 1..Len(chunks)
  BY ScanTyped
<1>7. ASSUME NEW p \in B PROVE p \in C
  <2>1. p \in Positions /\ Past(p, Reached(sc)) /\ Precedes(p, First(L))
    BY DEF Counted
  <2>2. p[4] \in Nat /\ p[4] >= 1
    <3>1. p[4] \in Nat /\ p[4] \in 1..MaxLines
      BY <1>1, <2>1, PlaceHas
    <3> QED BY <3>1
  <2>3. Past(p, <<c, lo>>)
    <3>1. CASE sc[2] = Whole
      <4> PICK k \in 1..Len(chunks) : chunks[k] = SegmentOf(p) /\ (k > c + 1 \/ (k = c + 1 /\ p[4] > 0))
        BY <2>1, <3>1 DEF Past, Reached
      <4>1. k > c
        BY <1>6
      <4> QED BY <4>1 DEF Past
    <3>2. CASE sc[2] # Whole
      <4>1. end = sc[2] /\ end \in Nat
        BY <3>2, ScanTyped
      <4> PICK k \in 1..Len(chunks) : chunks[k] = SegmentOf(p) /\ (k > c \/ (k = c /\ p[4] > end))
        BY <2>1, <3>2, <4>1 DEF Past, Reached
      <4>2. lo <= end
        BY <1>3, <4>1
      <4>3. k > c \/ (k = c /\ p[4] > lo)
        BY <1>3, <2>2, <4>1, <4>2
      <4> QED BY <4>3 DEF Past
    <3> QED BY <3>1, <3>2
  <2> QED BY <2>1, <2>3 DEF Counted
<1>8. Cardinality(B) \in Nat /\ Cardinality(C) \in Nat /\ Cardinality(B) <= Cardinality(C)
  <2>1. B \in SUBSET C
    BY <1>7
  <2> QED BY <1>1, <1>4, <2>1, PlacesFinite, PlacesWithin
<1>9. CASE (s \notin DOMAIN seg \/ end = 0) /\ lo = 0 /\ rest = need
  BY <1>5, <1>6, <1>8, <1>9
<1>10. ASSUME s \in DOMAIN seg PROVE Cardinality(B) + (end - lo) <= Cardinality(C)
  <2> PICK A : A = {p \in Positions : SegmentOf(p) = s /\ p[4] > lo /\ p[4] <= end}
    OBVIOUS
  <2>1. end \in Nat /\ lo <= end /\ Within(s, end)
    BY <1>2, <1>3, <1>10
  <2>2. ASSUME NEW p \in A PROVE p \in C
    <3>1. p \in Positions /\ SegmentOf(p) = s /\ p[4] > lo /\ p[4] <= end /\ p[4] \in Nat
      BY <1>1, PlaceHas
    <3>2. Past(p, <<c, lo>>)
      BY <1>6, <3>1 DEF Past
    <3>3. ASSUME NEW b \in Places(First(L)) PROVE Below(p, b)
      <4>1. b \in Positions /\ b[4] \in Nat
        BY <1>1, PlaceHas DEF Places
      <4>2. Past(b, start)
        BY DEF PrevInv
      <4> PICK k \in 1..Len(chunks) :
             chunks[k] = SegmentOf(b) /\ (k > start[1] \/ (k = start[1] /\ b[4] > start[2]))
        BY <4>2 DEF Past
      <4>3. start[1] \in Nat /\ k \in Nat
        BY <1>6 DEF PrevInv
      <4>4. CASE c < k
        BY <1>1, <1>6, <3>1, <4>1, <4>4, SegmentsBelow
      <4>5. CASE ~(c < k)
        <5>1. c <= start[1] /\ (sc[2] = Whole => c < start[1])
              /\ (sc[2] # Whole => c = start[1] /\ sc[2] = start[2])
          BY <4>3 DEF PrevInv
        <5>2. c = k /\ k = start[1] /\ b[4] > start[2] /\ sc[2] # Whole
          BY <4>3, <4>5, <5>1
        <5>3. end = start[2]
          BY <5>1, <5>2, ScanTyped
        <5>4. p[4] < b[4]
          BY <2>1, <3>1, <4>1, <5>2, <5>3
        <5>5. p[3] = 1 /\ b[3] = 1 /\ SegmentOf(p) = SegmentOf(b)
          BY <1>1, <3>1, <4>1, <5>2, OncePlace
        <5> QED BY <1>1, <3>1, <4>1, <5>4, <5>5, FilesBelow
      <4> QED BY <4>4, <4>5
    <3> QED BY <3>1, <3>2, <3>3 DEF Counted, Precedes
  <2>3. ASSUME NEW p \in A, p \in B PROVE FALSE
    <3>1. p \in Positions /\ SegmentOf(p) = s /\ p[4] <= end /\ p[4] \in Nat
      BY <1>1, PlaceHas
    <3>2. Past(p, Reached(sc))
      BY <2>3 DEF Counted
    <3>3. CASE sc[2] = Whole
      <4> PICK k \in 1..Len(chunks) : chunks[k] = SegmentOf(p) /\ (k > c + 1 \/ (k = c + 1 /\ p[4] > 0))
        BY <3>2, <3>3 DEF Past, Reached
      <4>1. k = c
        BY <1>1, <1>6, <3>1, ListedOnce
      <4> QED BY <1>6, <4>1
    <3>4. CASE sc[2] # Whole
      <4>1. end = sc[2]
        BY <3>4, ScanTyped
      <4> PICK k \in 1..Len(chunks) : chunks[k] = SegmentOf(p) /\ (k > c \/ (k = c /\ p[4] > end))
        BY <3>2, <3>4, <4>1 DEF Past, Reached
      <4>2. k = c
        BY <1>1, <1>6, <3>1, ListedOnce
      <4> QED BY <1>6, <2>1, <3>1, <4>2
    <3> QED BY <3>3, <3>4
  <2>4. end - lo <= Cardinality(A)
    <3>1. ASSUME NEW i \in (lo + 1)..end PROVE <<s[1], s[2], 1, i>> \in A
      <4>1. i \in 1..end /\ i > lo /\ i <= end
        BY <1>3, <2>1
      <4>2. <<s[1], s[2], 1, i>> \in Positions
        BY <2>1, <4>1 DEF Within
      <4>3. s \in Int \X Int
        BY <1>1, <1>10, SegmentPair DEF StoreInv
      <4>4. SegmentOf(<<s[1], s[2], 1, i>>) = s
        BY <4>3 DEF SegmentOf
      <4> QED BY <4>1, <4>2, <4>4
    <3>2. A \in SUBSET Positions
      OBVIOUS
    <3> QED BY <1>1, <1>3, <2>1, <3>1, <3>2, InFileAll
  <2>5. A \in SUBSET Positions /\ B \cap A = {} /\ (B \cup A) \in SUBSET C
    BY <1>7, <2>2, <2>3
  <2>6. Cardinality(B \cup A) = Cardinality(B) + Cardinality(A) /\ Cardinality(B \cup A) <= Cardinality(C)
    BY <1>1, <1>4, <2>5, PlacesAdd, PlacesWithin
  <2>7. Cardinality(A) \in Nat /\ Cardinality(B) \in Nat /\ Cardinality(C) \in Nat
    BY <1>1, <1>4, <2>5, PlacesFinite
  <2> QED BY <1>3, <2>1, <2>4, <2>6, <2>7
<1>11. CASE s \in DOMAIN seg /\ end # 0 /\ need < end /\ lo = end - need /\ rest = 0
  <2> PICK e \in Nat : e = end
    BY <1>2, <1>11
  <2> PICK b \in Nat, d \in Nat, size \in Nat :
         b = Cardinality(B) /\ d = Cardinality(C) /\ size = PageSize
    BY <1>6, <1>8
  <2>1. b + (e - lo) <= d /\ lo = e - need /\ size - need <= b
    BY <1>5, <1>10, <1>11
  <2>2. size - 0 <= d
    BY <2>1, SMTT(60)
  <2> QED BY <1>11, <2>2
<1>12. CASE s \in DOMAIN seg /\ end # 0 /\ ~(need < end) /\ lo = 0 /\ rest = need - end + 1
  <2> PICK e \in Nat : e = end
    BY <1>2, <1>12
  <2> PICK b \in Nat, d \in Nat, size \in Nat :
         b = Cardinality(B) /\ d = Cardinality(C) /\ size = PageSize
    BY <1>6, <1>8
  <2>1. b + (e - 0) <= d /\ size - need <= b
    BY <1>5, <1>10, <1>12
  <2>2. size - (need - e + 1) <= d
    BY <2>1, FoundSums
  <2> QED BY <1>12, <2>2
<1> QED BY <1>9, <1>11, <1>12 DEF Scans

\* What was there at first is listed.
LEMMA DueListed ==
    ASSUME StoreInv, LinesInv, ListInv, top \in Nat, FirstLines <= top,
           NEW p, Remains(p, FirstLines)
    PROVE  Remains(p, top) /\ \E k \in 1..Len(chunks) : chunks[k] = SegmentOf(p)
<1>1. p \in Positions /\ At(p).id <= FirstLines
  BY RemainsIn
<1>2. At(p).id \in Nat
  BY <1>1, AllWritten
<1>3. At(p).id <= top
  BY <1>1, <1>2, StoreAssumption
<1>4. Remains(p, top)
  BY <1>3 DEF Remains
<1> QED BY <1>4, IsListed

\* Where a scan ends there is a token for the page before.
LEMMA TokenFound ==
    ASSUME NEW L, NEW sc, Scanning(FirstLines, First(L), sc), PrevInv(L, sc),
           NEW lo, NEW rest, Scans(sc, lo, rest), rest = 0 \/ sc[1] = 1,
           Len(chunks) <= Cardinality(Days), top \in Nat, FirstLines <= top,
           NEW t, t = <<"offset", chunks[sc[1]], lo>>
    PROVE  TokenBack(t, L, written)
<1> PICK c \in 1..Len(chunks) : c = sc[1]
  BY ScanTyped
<1> PICK s : s = chunks[c]
  OBVIOUS
<1>1. t[2] = s /\ t[3] = lo /\ chunks[c] = t[2]
  OBVIOUS
<1>2. StoreInv /\ LinesInv /\ FilesInv /\ Once /\ ListInv
  BY DEF Scanning
<1>3. lo \in Nat /\ rest \in Nat /\ Within(s, lo) /\ (rest # 0 => lo = 0)
      /\ (rest = 0 => <<s[1], s[2], 1, lo + 1>> \in Positions)
  BY ScanCount
<1> PICK X : X = Owed(FirstLines, First(L), <<c, lo>>)
  OBVIOUS
<1>4. Cardinality(X) <= Most
  BY ScanMost
<1>5. Cardinality(Between(t, L)) <= Most
  <2>1. ASSUME NEW p \in Between(t, L) PROVE p \in X
    <3>1. p \in Due(FirstLines, First(L)) /\ AfterToken(p, t)
      BY DEF Between
    <3>2. Remains(p, FirstLines)
      BY <3>1, DueIs
    <3> PICK k \in 1..Len(chunks) : chunks[k] = SegmentOf(p)
      BY <1>2, <3>2, DueListed
    <3>3. Past(p, <<c, t[3]>>)
      BY <1>1, <1>2, <3>1, TokenPast
    <3> QED BY <1>1, <3>1, <3>3 DEF Owed
  <2>2. X \in SUBSET Positions /\ Between(t, L) \in SUBSET X
    BY <2>1 DEF Owed, Due
  <2>3. Cardinality(Between(t, L)) <= Cardinality(X)
    BY <1>2, <2>2, PlacesWithin
  <2>4. Cardinality(X) \in Nat /\ Cardinality(Between(t, L)) \in Nat /\ Most \in Int
    <3>1. Between(t, L) \in SUBSET Positions
      BY <2>2
    <3>2. Most \in Int
      BY PagesAssumption, DaysFinite DEF Most
    <3> QED BY <1>2, <2>2, <3>1, <3>2, PlacesFinite
  <2> QED BY <1>4, <2>3, <2>4
<1>6. CASE rest # 0
  <2>1. lo = 0 /\ c = 1
    BY <1>3, <1>6
  <2>2. ASSUME NEW p \in Positions, Remains(p, FirstLines) PROVE AfterToken(p, t)
    <3> PICK k \in 1..Len(chunks) : chunks[k] = SegmentOf(p)
      BY <1>2, <2>2, DueListed
    <3>1. p[4] \in Nat /\ p[4] \in 1..MaxLines
      BY <1>2, PlaceHas
    <3>2. k > 1 \/ (k = 1 /\ p[4] > 0)
      BY <3>1
    <3>3. Past(p, <<c, t[3]>>)
      BY <1>1, <2>1, <3>2 DEF Past
    <3> QED BY <1>1, <1>2, <3>3, PastToken
  <2> QED BY <1>1, <1>3, <1>5, <2>2 DEF TokenBack, Fills
<1>7. CASE L = <<>>
  BY <1>1, <1>3, <1>5, <1>7 DEF TokenBack, Fills
<1>8. CASE rest = 0 /\ L # <<>>
  <2> PICK B : B = Counted(L, <<c, lo>>)
    OBVIOUS
  <2>1. PageSize - rest <= Cardinality(B)
    BY <1>8, ScanFound
  <2>2. ASSUME NEW p \in B PROVE p \in Filling(t, L, written)
    <3>1. p \in Positions /\ Past(p, <<c, lo>>) /\ Precedes(p, First(L))
      BY DEF Counted
    <3>2. AfterToken(p, t)
      BY <1>1, <1>2, <3>1, PastToken
    <3>3. At(p).id <= written
      BY <1>2, <3>1, AllWritten
    <3> QED BY <3>1, <3>2, <3>3 DEF Filling
  <2>3. Filling(t, L, written) \in SUBSET Positions /\ B \in SUBSET Filling(t, L, written)
    BY <2>2 DEF Filling
  <2>4. Cardinality(B) <= Cardinality(Filling(t, L, written))
    BY <1>2, <2>3, PlacesWithin
  <2>5. B \in SUBSET Positions
    BY <2>3
  <2>6. Cardinality(B) \in Nat /\ Cardinality(Filling(t, L, written)) \in Nat /\ PageSize \in Nat
    BY <1>2, <2>3, <2>5, PlacesFinite, PagesAssumption
  <2>7. PageSize <= Cardinality(Filling(t, L, written))
    BY <1>8, <2>1, <2>4, <2>6
  <2>8. \E p \in Positions : NextTo(p, t[2], t[3], written)
    <3> PICK p : p = <<s[1], s[2], 1, lo + 1>>
      OBVIOUS
    <3>1. p \in Positions
      BY <1>3, <1>8
    <3>2. At(p).id <= written
      BY <1>2, <3>1, AllWritten
    <3>3. s \in Int \X Int
      BY <1>2, SegmentPair, LenProperties DEF ListInv
    <3>4. SegmentOf(p) = s /\ p[4] = lo + 1
      BY <3>3 DEF SegmentOf
    <3> QED BY <1>1, <3>1, <3>2, <3>4 DEF NextTo
  <2> QED BY <1>1, <1>3, <1>5, <2>7, <2>8 DEF TokenBack, Fills
<1> QED BY <1>6, <1>7, <1>8

\* An answer by offsets: what is promised of its page holds of it.
LEMMA AnswersBack ==
    ASSUME Backing, pc \in {"scan", "read", "prev"},
           NEW page, NEW next, NEW prev, Answer(FALSE, page, next, prev), Known(Set(page)),
           next # None => Within(next[2], next[3]),
           prev # None => TokenBack(prev, page, written),
           PageNear(kind, page, answer.lines, top), Apart(kind, page, answer.lines)
    PROVE  AnswerBack' /\ RequestBack'
<1>1. /\ StoreInv /\ LinesInv /\ Moves /\ Once /\ span[2] = MaxTime /\ FirstLines <= written
      /\ written \in Nat /\ written' \in Nat /\ written <= written'
  BY DEF Backing, Asking, RequestBack, Moves, Grows
<1>2. top \in Nat /\ top <= written /\ FirstLines <= top
  BY DEF Backing, Asking, RequestInv, RequestBack
<1> PICK n \in Nat : n = top
  BY <1>2
<1> PICK k : k = kind
  OBVIOUS
<1> PICK F : F = answer.lines
  OBVIOUS
<1>3. /\ pc' = "idle"
      /\ answer' = [kind |-> k, merged |-> FALSE, lines |-> page, next |-> next, prev |-> prev,
                    top |-> n, from |-> F]
  BY DEF Answer, Idle
<1>4. /\ answer'.kind = k /\ answer'.lines = page /\ answer'.from = F
      /\ answer'.next = next /\ answer'.prev = prev /\ answer'.top = n
  BY <1>3
<1>5. k = "prev" => Known(First(F))
  BY AskedFrom, AnswerIs
<1>6. Known(First(page))
  BY FirstKnown
<1>7. PageNear(k, page, F, n)'
  BY <1>1, <1>2, <1>5, PageNearStays
<1>8. Apart(k, page, F)'
  BY <1>1, <1>5, ApartStays
<1>9. ASSUME prev # None PROVE TokenBack(prev, page, written)'
  <2> PICK i \in Nat : i = written
    BY <1>1
  <2> PICK j \in Nat : j = written'
    BY <1>1
  <2>1. i <= j
    BY <1>1
  <2>2. TokenBack(prev, page, i)
    BY <1>9
  <2>3. TokenBack(prev, page, j)'
    BY <1>1, <1>6, <2>1, <2>2, TokenStays
  <2> QED BY <2>3
<1>10. ASSUME next # None PROVE Within(next[2], next[3])'
  BY <1>1, <1>10, WithinStays
<1>11. ASSUME k = "prev" PROVE Known(First(F))'
  <2> PICK S : S = First(F)
    OBVIOUS
  <2>1. Known(S)'
    BY <1>1, <1>5, <1>11, KnownStays DEF Moves
  <2> QED BY <2>1 DEF First
<1>12. PageNear(answer.kind, answer.lines, answer.from, answer.top)'
  BY <1>4, <1>7
<1>13. Apart(answer.kind, answer.lines, answer.from)'
  BY <1>4, <1>8
<1>14. (answer.prev # None => TokenBack(answer.prev, answer.lines, written))'
  BY <1>4, <1>9
<1>15. (answer.next # None => Within(answer.next[2], answer.next[3]))'
  BY <1>4, <1>10
<1>16. (answer.kind = "prev" => Known(First(answer.from)))'
  BY <1>4, <1>11
<1>17. (FirstLines <= answer.top)'
  BY <1>2, <1>4
<1>18. AnswerBack'
  BY <1>12, <1>13, <1>14, <1>15, <1>16, <1>17 DEF AnswerBack
<1>19. RequestBack'
  BY <1>3, SameBounds DEF RequestBack
<1> QED BY <1>18, <1>19

\* A scan that has not found enough goes on in the file before.
LEMMA ScanGoesOn ==
    ASSUME NEW n, NEW S, NEW sc, Scanning(n, S, sc), NEW lo, NEW rest, Scans(sc, lo, rest),
           rest # 0, sc[1] # 1, NEW sc2, sc2 = <<sc[1] - 1, Whole, rest>>
    PROVE  ScanInv(n, S, sc2) /\ \A L : PrevInv(L, sc) => PrevInv(L, sc2)
<1> PICK c \in Nat : c = sc[1]
  BY ScanTyped
<1>1. c \in 1..Len(chunks) /\ Len(chunks) \in Nat /\ c # 1 /\ c - 1 \in 1..Len(chunks)
  BY ScanTyped
<1>2. lo = 0 /\ rest \in Nat /\ rest <= sc[3] /\ sc[3] <= PageSize /\ sc[3] \in Nat /\ PageSize \in Nat
  BY ScanCount, ScanTyped
<1> PICK r \in Nat : r = rest
  BY <1>2
<1>3. r \in 1..PageSize
  BY <1>2
<1>4. sc2[1] = c - 1 /\ sc2[2] = Whole /\ sc2[3] = r
  OBVIOUS
<1>5. Reached(sc2) = <<c, 0>>
  <2>1. c - 1 + 1 = c
    OBVIOUS
  <2> QED BY <1>4, <2>1 DEF Reached
<1>6. ScanInv(n, S, sc2)
  <2>1. Cardinality(Owed(n, S, <<c, 0>>)) <= PageSize - r + Len(chunks) - c + 1
    BY <1>2, ScanCount
  <2>2. Owed(n, S, <<c, 0>>) \in SUBSET Positions
    BY DEF Owed, Due
  <2>3. Cardinality(Owed(n, S, <<c, 0>>)) \in Nat
    BY <2>2, PlacesFinite DEF Scanning
  <2>4. PageSize - r + Len(chunks) - c + 1 = PageSize - r + Len(chunks) - (c - 1)
    BY <1>1, <1>2
  <2>5. Cardinality(Owed(n, S, Reached(sc2))) <= PageSize - sc2[3] + Len(chunks) - sc2[1]
    BY <1>4, <1>5, <2>1, <2>4
  <2> QED BY <1>1, <1>3, <1>4, <2>5 DEF ScanInv
<1>7. ASSUME NEW L, PrevInv(L, sc) PROVE PrevInv(L, sc2)
  <2>1. sc2[1] < start[1]
    <3>1. start[1] \in Nat /\ (sc[1] < start[1] \/ sc[1] = start[1])
      BY <1>1, <1>7 DEF PrevInv
    <3> QED BY <1>4, <3>1
  <2>2. ASSUME L # <<>> PROVE PageSize - sc2[3] <= Cardinality(Counted(L, Reached(sc2)))
    <3>1. PageSize - rest <= Cardinality(Counted(L, <<c, 0>>))
      BY <1>2, <1>7, <2>2, ScanFound
    <3> QED BY <1>4, <1>5, <3>1
  <2> QED BY <1>4, <1>7, <2>1, <2>2 DEF PrevInv
<1> QED BY <1>6, <1>7

\* The start of a page, or of the one before, is looked for in a file.
LEMMA ScanFileBack ==
    ASSUME Backing, ScanFile
    PROVE  AnswerBack' /\ RequestBack'
<1>0. CASE Beyond
  <2>1. Err
    BY <1>0 DEF ScanFile
  <2> QED BY <2>1, BackToIdle DEF Err, Idle
<1> SUFFICES ASSUME ~Beyond PROVE AnswerBack' /\ RequestBack'
  BY <1>0
<1>1. /\ StoreInv /\ LinesInv /\ FilesInv /\ Moves /\ Once /\ ListInv
      /\ FirstLines <= written /\ chunks \in Seq(Segments) /\ pc \in {"scan", "prev"}
      /\ Len(chunks) <= Cardinality(Days)
  BY DEF Backing, Asking, OffsetRequestInv, RequestBack, ListInv, ScanFile
<1>2. top \in Nat /\ top <= written /\ FirstLines <= top
  BY <1>1 DEF Backing, Asking, RequestInv, RequestBack
<1>3. CASE pc = "scan"
  <2>1. kind = "last" /\ lines = <<>> /\ Scanning(top, {}, scan)
    BY <1>1, <1>3 DEF Backing, Asking, OffsetRequestInv, RequestBack, Scanning
  <2> PICK lo, rest :
        /\ Scans(scan, lo, rest)
        /\ \/ /\ rest # 0 /\ scan[1] # 1 /\ scan' = <<scan[1] - 1, Whole, rest>>
              /\ UNCHANGED <<pc, kind, top, chunks, start, at, lines, answer>>
           \/ \E back :
                 /\ \/ rest = 0 /\ back = <<scan[1], lo>>
                    \/ rest # 0 /\ scan[1] = 1 /\ back = <<1, 0>>
                 /\ \/ /\ pc = "scan" /\ pc' = "read" /\ start' = back /\ at' = back
                       /\ UNCHANGED <<kind, top, chunks, lines, answer>>
                    \/ /\ pc = "prev"
                       /\ Answer(FALSE, lines, at, <<"offset", chunks[back[1]], back[2]>>)
    BY <2>1, ScanWays
  <2> PICK n \in Nat : n = top
    BY <1>2
  <2>2. CASE /\ rest # 0 /\ scan[1] # 1 /\ scan' = <<scan[1] - 1, Whole, rest>>
             /\ UNCHANGED <<pc, kind, top, chunks, start, at, lines, answer>>
    <3>1. AnswerBack'
      BY <2>2, AnswerKept
    <3> PICK sc : sc = <<scan[1] - 1, Whole, rest>>
      OBVIOUS
    <3>2. ScanInv(n, {}, sc)
      BY <2>1, <2>2, ScanGoesOn
    <3>3. ScanInv(n, {}, sc)'
      <4>1. Known({})
        BY DEF Known
      <4> QED BY <1>1, <1>2, <2>2, <3>2, <4>1, ScanStays
    <3>4. ScanInv(top, {}, scan)'
      BY <2>2, <3>3
    <3>5. RequestBack'
      BY <1>1, <1>2, <1>3, <2>2, <3>4, SameBounds DEF RequestBack
    <3> QED BY <3>1, <3>5
  <2>3. CASE \E back :
               /\ \/ rest = 0 /\ back = <<scan[1], lo>>
                  \/ rest # 0 /\ scan[1] = 1 /\ back = <<1, 0>>
               /\ pc' = "read" /\ start' = back /\ at' = back
               /\ UNCHANGED <<kind, top, chunks, lines, answer>>
    <3>1. lo \in Nat /\ (rest # 0 => lo = 0) /\ Within(chunks[scan[1]], lo)
      BY <2>1, ScanCount
    <3> PICK c \in 1..Len(chunks) : c = scan[1]
      BY <2>1, ScanTyped
    <3> PICK b : b = <<c, lo>>
      OBVIOUS
    <3>2. /\ start' = b /\ at' = b /\ pc' = "read"
          /\ UNCHANGED <<kind, top, chunks, lines, answer>>
      BY <2>3, <3>1
    <3>3. AnswerBack'
      BY <3>2, AnswerKept
    <3>4. Cardinality(Owed(n, {}, b)) <= Most
      BY <1>1, <2>1, ScanMost
    <3>5. (Cardinality(Owed(n, {}, b)) + Cardinality(Had(n, {}, <<>>)) <= Most)'
      <4>1. Known({})
        BY DEF Known
      <4> QED BY <1>1, <1>2, <3>2, <3>4, <4>1, StartsEmpty
    <3> PICK s : s = chunks[c]
      OBVIOUS
    <3>6. Within(s, lo)'
      BY <1>1, <3>1, WithinStays
    <3>7. (Within(chunks[start[1]], start[2]))'
      BY <3>2, <3>6
    <3>8. ReadBack(lines, at)'
      <4>1. kind' = "last" /\ lines' = <<>> /\ at' = b /\ top' = n
        BY <2>1, <3>2
      <4> QED BY <3>5, <4>1 DEF ReadBack, Since, Upto
    <3>9. RequestBack'
      <4>1. kind' = "last"
        BY <2>1, <3>2
      <4> QED BY <1>1, <1>2, <3>2, <3>7, <3>8, <4>1, SameBounds DEF RequestBack
    <3> QED BY <3>3, <3>9
  <2> QED BY <1>3, <2>2, <2>3
<1>4. CASE pc = "prev"
  <2>1. /\ Scanning(FirstLines, First(lines), scan) /\ PrevInv(lines, scan)
        /\ at # None => Within(at[2], at[3])
        /\ PageNear(kind, lines, answer.lines, top) /\ Apart(kind, lines, answer.lines)
        /\ Known(Set(lines))
    BY <1>1, <1>4 DEF Backing, Asking, OffsetRequestInv, RequestBack, Scanning, PageInv
  <2> PICK lo, rest :
        /\ Scans(scan, lo, rest)
        /\ \/ /\ rest # 0 /\ scan[1] # 1 /\ scan' = <<scan[1] - 1, Whole, rest>>
              /\ UNCHANGED <<pc, kind, top, chunks, start, at, lines, answer>>
           \/ \E back :
                 /\ \/ rest = 0 /\ back = <<scan[1], lo>>
                    \/ rest # 0 /\ scan[1] = 1 /\ back = <<1, 0>>
                 /\ \/ /\ pc = "scan" /\ pc' = "read" /\ start' = back /\ at' = back
                       /\ UNCHANGED <<kind, top, chunks, lines, answer>>
                    \/ /\ pc = "prev"
                       /\ Answer(FALSE, lines, at, <<"offset", chunks[back[1]], back[2]>>)
    BY <2>1, ScanWays
  <2>2. CASE /\ rest # 0 /\ scan[1] # 1 /\ scan' = <<scan[1] - 1, Whole, rest>>
             /\ UNCHANGED <<pc, kind, top, chunks, start, at, lines, answer>>
    <3>1. AnswerBack'
      BY <2>2, AnswerKept
    <3> PICK sc : sc = <<scan[1] - 1, Whole, rest>>
      OBVIOUS
    <3>2. ScanInv(FirstLines, First(lines), sc) /\ PrevInv(lines, sc)
      BY <2>1, <2>2, ScanGoesOn
    <3>3. (/\ ScanInv(FirstLines, First(lines), sc) /\ PrevInv(lines, sc)
           /\ at # None => Within(at[2], at[3])
           /\ PageNear(kind, lines, answer.lines, top) /\ Apart(kind, lines, answer.lines))'
      BY <1>4, <2>2, <3>2, PrevKept
    <3>4. (/\ ScanInv(FirstLines, First(lines), scan) /\ PrevInv(lines, scan))'
      BY <2>2, <3>3
    <3>5. RequestBack'
      BY <1>1, <1>2, <1>4, <2>2, <3>3, <3>4, SameBounds DEF RequestBack
    <3> QED BY <3>1, <3>5
  <2>3. CASE \E back :
               /\ \/ rest = 0 /\ back = <<scan[1], lo>>
                  \/ rest # 0 /\ scan[1] = 1 /\ back = <<1, 0>>
               /\ Answer(FALSE, lines, at, <<"offset", chunks[back[1]], back[2]>>)
    <3>1. lo \in Nat /\ (rest # 0 => lo = 0)
      BY <2>1, ScanCount
    <3> PICK t : t = <<"offset", chunks[scan[1]], lo>>
      OBVIOUS
    <3>2. Answer(FALSE, lines, at, t) /\ (rest = 0 \/ scan[1] = 1)
      <4> PICK back : /\ \/ rest = 0 /\ back = <<scan[1], lo>>
                         \/ rest # 0 /\ scan[1] = 1 /\ back = <<1, 0>>
                      /\ Answer(FALSE, lines, at, <<"offset", chunks[back[1]], back[2]>>)
        BY <2>3
      <4>1. back[1] = scan[1] /\ back[2] = lo
        BY <3>1
      <4>2. <<"offset", chunks[back[1]], back[2]>> = t
        BY <4>1
      <4>3. Answer(FALSE, lines, at, t)
        BY <4>2, Zenon
      <4>4. rest = 0 \/ scan[1] = 1
        OBVIOUS
      <4> QED BY <4>3, <4>4
    <3>3. TokenBack(t, lines, written)
      BY <1>1, <1>2, <2>1, <3>2, TokenFound
    <3> QED BY <1>4, <2>1, <3>2, <3>3, AnswersBack
  <2> QED BY <1>4, <2>2, <2>3
<1> QED BY <1>1, <1>3, <1>4

-----------------------------------------------------------------------------
(* A page is read, and its lines counted. *)

\* Places are ordered.
LEMMA PlacesOrder ==
    ASSUME StoreInv, LinesInv, NEW p \in Positions, NEW q \in Positions
    PROVE  /\ Below(p, q) \/ Below(q, p) \/ p = q
           /\ ~Below(p, p) /\ ~(Below(p, q) /\ Below(q, p))
           /\ \A r \in Positions : Below(p, q) /\ Below(q, r) => Below(p, r)
<1>1. \A r \in Positions : r \in Fours
  BY PlaceHas
<1>2. p \in Fours /\ q \in Fours
  BY <1>1
<1>3. /\ Below(p, q) \/ Below(q, p) \/ p = q
      /\ ~Below(p, p) /\ ~(Below(p, q) /\ Below(q, p))
  BY <1>2, FoursOrdered DEF Ordered
<1>4. \A r \in Positions : Below(p, q) /\ Below(q, r) => Below(p, r)
  BY <1>1, <1>2, FoursOrdered DEF Ordered
<1> QED BY <1>3, <1>4

\* A set of lines has as many places as it has lines.
LEMMA PlacesOf ==
    ASSUME StoreInv, LinesInv, NEW T, Known(T)
    PROVE  /\ IsFiniteSet(T) /\ Cardinality(T) \in Nat /\ Places(T) \in SUBSET Positions
           /\ Cardinality(Places(T)) = Cardinality(T)
<1> PICK P : P = Places(T)
  OBVIOUS
<1>1. P \in SUBSET Positions /\ \A p \in P : At(p) \in T
  BY DEF Places
<1>2. IsFiniteSet(P) /\ Cardinality(P) \in Nat
  BY <1>1, PlacesFinite
<1> PICK f : f = [p \in P |-> At(p)]
  OBVIOUS
<1>3. f \in Surjection(P, T)
  <2>1. f \in [P -> T]
    BY <1>1
  <2>2. ASSUME NEW line \in T PROVE \E p \in P : f[p] = line
    <3> PICK p \in Positions : At(p) = line
      BY DEF Known
    <3>1. p \in P
      BY DEF Places
    <3> QED BY <3>1
  <2> QED BY <2>1, <2>2 DEF Surjection
<1>4. f \in Injection(P, T)
  <2>1. f \in [P -> T]
    BY <1>1
  <2>2. ASSUME NEW p \in P, NEW q \in P, f[p] = f[q] PROVE p = q
    <3>1. p \in Positions /\ q \in Positions /\ At(p) = At(q)
      BY <1>1, <2>2
    <3> QED BY <3>1, OnePlace
  <2> QED BY <2>1, <2>2 DEF Injection, IsInjective
<1>5. IsFiniteSet(T) /\ Cardinality(T) <= Cardinality(P)
  BY <1>2, <1>3, FS_Surjection
<1>6. Cardinality(P) <= Cardinality(T)
  BY <1>4, <1>5, FS_Injection
<1>7. Cardinality(T) \in Nat
  BY <1>5, FS_CardinalityType
<1> QED BY <1>1, <1>2, <1>5, <1>6, <1>7

\* A page has as many places as it is long.
LEMMA PagePlaces ==
    ASSUME StoreInv, LinesInv, NEW L \in Seq([id : Nat, ts : Times]), Known(Set(L)), Ascending(L)
    PROVE  Cardinality(Places(Set(L))) = Len(L)
<1> PICK n \in Nat : n = Len(L)
  BY LenProperties
<1>1. DOMAIN L = 1..n /\ n = Len(L)
  BY LenProperties
<1> PICK S : S = Set(L)
  OBVIOUS
<1> PICK f : f = [i \in 1..n |-> L[i]]
  OBVIOUS
<1>2. f \in Surjection(1..n, S)
  BY <1>1 DEF Set, Surjection
<1>3. f \in Injection(1..n, S)
  <2>1. f \in [1..n -> S]
    BY <1>1 DEF Set
  <2>2. ASSUME NEW i \in 1..n, NEW j \in 1..n, f[i] = f[j] PROVE i = j
    <3>1. L[i] = L[j]
      BY <2>2
    <3>2. ~(i < j) /\ ~(j < i)
      BY <1>1, <3>1, AscendingOnce
    <3> QED BY <3>2
  <2> QED BY <2>1, <2>2 DEF Injection, IsInjective
<1>4. IsFiniteSet(1..n) /\ Cardinality(1..n) = n
  <2>1. 1 \in Int /\ n \in Int
    OBVIOUS
  <2>2. IsFiniteSet(1..n) /\ Cardinality(1..n) = IF 1 > n THEN 0 ELSE n - 1 + 1
    BY <2>1, FS_Interval
  <2> QED BY <2>2
<1>5. IsFiniteSet(S) /\ Cardinality(S) <= n
  BY <1>2, <1>4, FS_Surjection
<1>6. n <= Cardinality(S)
  BY <1>3, <1>4, <1>5, FS_Injection
<1>7. Cardinality(S) \in Nat /\ Cardinality(Places(S)) = Cardinality(S)
  BY PlacesOf
<1> QED BY <1>1, <1>5, <1>6, <1>7

\* A line of a file that is there remains.
LEMMA RemainsHere ==
    ASSUME StoreInv, LinesInv, Once, span[2] = MaxTime,
           NEW p \in Positions, SegmentOf(p) \in DOMAIN seg, NEW n, At(p).id <= n
    PROVE  Remains(p, n)
<1> PICK s : s = SegmentOf(p)
  OBVIOUS
<1>1. p[3] = 1
  BY OncePlace
<1>2. <<s, seg[s]>> \in DOMAIN data
  BY DEF StoreInv
<1>3. <<s, seg[s]>>[2] = 1
  BY <1>2 DEF Once, NoneMadeAgain
<1>4. p \in Stored
  BY <1>1, <1>3 DEF Stored, SegmentOf
<1> QED BY <1>4, AllMatch DEF Remains

\* The reader takes no more lines than it goes past.
LEMMA ReadCount ==
    ASSUME NEW all, NEW take, Reading(all, take), NEW m, NEW c, Gets(c, take, m),
           NEW page, Extended(page, all, take, m), NEW n, NEW S
    PROVE  Cardinality(Owed(n, S, c)) + Cardinality(Had(n, S, page))
              <= Cardinality(Owed(n, S, at)) + Cardinality(Had(n, S, lines))
<1> PICK O : O = Owed(n, S, at)
  OBVIOUS
<1> PICK P : P = Owed(n, S, c)
  OBVIOUS
<1> PICK G : G = Had(n, S, lines)
  OBVIOUS
<1> PICK H : H = Had(n, S, page)
  OBVIOUS
<1> PICK D : D = H \ G
  OBVIOUS
<1>1. StoreInv /\ LinesInv /\ FilesInv /\ ListInv /\ at[1] \in 1..Len(chunks) /\ m \in 0..Len(take)
  BY DEF Reading, AtIn, Gets
<1>2. /\ O \in SUBSET Positions /\ P \in SUBSET Positions /\ G \in SUBSET Positions
      /\ H \in SUBSET Positions /\ D \in SUBSET Positions
  BY DEF Owed, Due, Had, Places
<1>3. ASSUME NEW p \in D PROVE p \in O /\ p \notin P
  <2>1. p \in Positions /\ At(p) \in Set(page) /\ At(p).id <= n /\ Precedes(p, S) /\ At(p) \notin Set(lines)
    BY DEF Had, Places
  <2> PICK k \in 1..m : At(p) = New(all, take, k)
    BY <1>1, <2>1, PageHas
  <2>2. k \in 1..Len(take)
    BY <1>1
  <2>3. SegmentOf(p) = chunks[at[1]] /\ p[3] = seg[SegmentOf(p)] /\ p[4] > at[2]
    BY <2>1, <2>2, NewAt
  <2>4. Past(p, at)
    BY <1>1, <2>3 DEF Past
  <2>5. Remains(p, n)
    <3>1. chunks[at[1]] \in DOMAIN seg /\ Matches(At(p))
      BY <2>2 DEF Reading, Takes, New
    <3> QED BY <2>1, <2>3, <3>1 DEF Remains, Stored, SegmentOf
  <2>6. ~Past(p, c)
    BY <2>1, NewGone
  <2> QED BY <2>1, <2>4, <2>5, <2>6 DEF Owed, Due
<1>4. ASSUME NEW p \in P PROVE p \in O
  <2>1. p \in Due(n, S) /\ Past(p, c) /\ p \in Positions
    BY DEF Owed, Due
  <2> PICK i \in 1..Len(chunks) : chunks[i] = SegmentOf(p)
    BY <2>1 DEF Past
  <2>2. Past(p, at)
    BY <2>1, GoesOn
  <2> QED BY <2>1, <2>2 DEF Owed
<1>5. (P \cup D) \in SUBSET O /\ P \cap D = {} /\ H \in SUBSET (G \cup D) /\ (G \cup D) \in SUBSET Positions
  BY <1>2, <1>3, <1>4
<1>6. /\ Cardinality(P \cup D) = Cardinality(P) + Cardinality(D)
      /\ Cardinality(G \cup D) <= Cardinality(G) + Cardinality(D)
  BY <1>1, <1>2, <1>5, PlacesAdd
<1>7. Cardinality(P \cup D) <= Cardinality(O) /\ Cardinality(H) <= Cardinality(G \cup D)
  BY <1>1, <1>2, <1>5, PlacesWithin
<1>8. /\ Cardinality(O) \in Nat /\ Cardinality(P) \in Nat /\ Cardinality(G) \in Nat
      /\ Cardinality(H) \in Nat /\ Cardinality(D) \in Nat /\ Cardinality(G \cup D) \in Nat
  BY <1>1, <1>2, <1>5, PlacesFinite
<1>9. \A o, q, g, h, d, e \in Nat : q + d <= o /\ h <= e /\ e <= g + d => q + h <= o + g
  OBVIOUS
<1>10. Cardinality(P) + Cardinality(D) <= Cardinality(O)
  BY <1>6, <1>7
<1>11. Cardinality(P) + Cardinality(H) <= Cardinality(O) + Cardinality(G)
  BY <1>6, <1>7, <1>8, <1>9, <1>10, Zenon
<1> QED BY <1>11

\* The line right after where a page starts is the first that it takes.
LEMMA TakesNext ==
    ASSUME NEW all, NEW take, Reading(all, take), Once, span[2] = MaxTime,
           NEW m, NEW c, Gets(c, take, m), NEW page, Extended(page, all, take, m),
           kind = "prev", ReadBack(lines, at),
           NEW p \in Positions, NextTo(p, chunks[start[1]], start[2], top)
    PROVE  At(p) \in Set(page)
<1>1. /\ StoreInv /\ LinesInv /\ FilesInv /\ ListInv /\ at[1] \in 1..Len(chunks) /\ m \in 0..Len(take)
      /\ start[1] \in 1..Len(chunks) /\ at[1] >= start[1]
      /\ (at[1] = start[1] => at[2] = start[2]) /\ at[2] \in Int /\ Len(take) \in Nat
  BY DEF Reading, AtIn, Gets, StartInv, Takes
<1>2. CASE at[1] > start[1]
  <2>1. At(p) \in Set(lines)
    BY <1>2 DEF ReadBack
  <2> QED BY <1>1, <2>1, PageHas
<1>3. CASE at[1] = start[1]
  <2>1. At(p).id <= top /\ SegmentOf(p) = chunks[at[1]] /\ p[4] = at[2] + 1
    BY <1>1, <1>3 DEF NextTo
  <2>2. Remains(p, top)
    BY <1>1, <2>1, RemainsHere DEF Reading
  <2>3. p[4] > at[2]
    BY <1>1, <2>1
  <2> PICK k \in 1..Len(take) : take[k][1] = p[4] /\ At(p) = New(all, take, k)
    BY <2>1, <2>2, <2>3, TakenAt
  <2>4. k \in 1..m
    <3>1. CASE m = Len(take)
      BY <3>1
    <3>2. CASE m >= 1
      <4>1. 1 \in 1..Len(take)
        BY <1>1, <3>2
      <4> PICK o : o = take[1][1]
        OBVIOUS
      <4>2. o \in Int /\ o > at[2]
        <5>1. o \in DOMAIN all /\ o > at[2]
          BY <4>1 DEF Reading, Takes
        <5> PICK q \in Positions : At(q) = New(all, take, 1)
          BY <4>1, NewIs
        <5>2. q[4] = o /\ q[4] \in Nat
          BY <4>1, NewAt
        <5> QED BY <5>1, <5>2
      <4>3. ~(1 < k)
        <5>1. 1 < k => o < take[k][1]
          BY <4>1 DEF Reading, Takes
        <5> QED BY <1>1, <2>1, <4>2, <5>1
      <4> QED BY <1>1, <3>2, <4>3
    <3> QED BY <3>1, <3>2 DEF Gets
  <2> QED BY <1>1, <2>4, PageHas
<1>4. at[1] \in Int /\ start[1] \in Int
  BY <1>1
<1> QED BY <1>1, <1>2, <1>3, <1>4

\* A page that is full, or has all there is, is near enough to where it was asked from.
LEMMA ReadNear ==
    ASSUME NEW page, NEW c, ReadUp(page, c), top \in Nat, NEW n \in Nat, n <= top, NEW S,
           Cardinality(Owed(n, S, c)) + Cardinality(Had(n, S, page)) <= Most,
           Len(page) = PageSize \/ \A p \in Positions : Remains(p, top) => ~Past(p, c)
    PROVE  Cardinality(Missed(n, S, page)) < Cardinality(Days) + Cardinality(Newer(n, page))
<1> PICK M : M = Missed(n, S, page)
  OBVIOUS
<1> PICK O : O = Owed(n, S, c)
  OBVIOUS
<1> PICK H : H = Had(n, S, page)
  OBVIOUS
<1> PICK N : N = Newer(n, page)
  OBVIOUS
<1> PICK W : W = Places(Set(page))
  OBVIOUS
<1>1. /\ StoreInv /\ LinesInv /\ FilesInv /\ ListInv /\ ReadTo(page, c)
      /\ page \in Seq([id : Nat, ts : Times]) /\ Known(Set(page)) /\ Ascending(page)
  BY DEF ReadUp, ReadTo
<1>2. /\ M \in SUBSET Positions /\ O \in SUBSET Positions /\ H \in SUBSET Positions
      /\ W \in SUBSET Positions
  BY DEF Missed, Owed, Due, Had, Places
<1>3. ASSUME NEW p, Remains(p, n) PROVE Remains(p, top)
  <2>1. p \in Positions /\ At(p).id <= n
    BY <1>3, RemainsIn
  <2>2. At(p).id \in Nat
    BY <1>1, <2>1, AllWritten
  <2>3. At(p).id <= top
    BY <2>1, <2>2
  <2> QED BY <1>3, <2>3 DEF Remains
<1>4. ASSUME NEW p \in M PROVE p \in O
  <2>1. p \in Positions /\ p \in Due(n, S) /\ Remains(p, n) /\ W # {} /\ \A a \in W : Below(a, p)
    BY <1>2, DueIs DEF Missed
  <2> PICK a \in W : Below(a, p)
    BY <2>1
  <2>2. Remains(p, top)
    BY <1>3, <2>1
  <2>3. Past(p, start)
    BY <2>2, PastStart DEF Places
  <2>4. p \notin W
    BY <1>1, <2>1, PlacesOrder
  <2>5. At(p) \notin Set(page)
    BY <2>1, <2>4 DEF Places
  <2>6. Past(p, c)
    BY <1>1, <2>1, <2>2, <2>3, <2>5 DEF ReadTo
  <2> QED BY <2>1, <2>6 DEF Owed
<1>5. Cardinality(M) <= Cardinality(O)
  <2>1. M \in SUBSET O
    BY <1>4
  <2> QED BY <1>1, <1>2, <2>1, PlacesWithin
<1>6. Known(N)
  BY <1>1 DEF Newer, Known
<1>7. /\ Cardinality(M) \in Nat /\ Cardinality(O) \in Nat /\ Cardinality(H) \in Nat
      /\ Cardinality(W) \in Nat /\ Cardinality(N) \in Nat /\ Cardinality(Places(N)) = Cardinality(N)
      /\ Cardinality(Days) \in Nat /\ 1 <= Cardinality(Days) /\ PageSize \in Nat
  BY <1>1, <1>2, <1>6, PlacesFinite, PlacesOf, DaysFinite, PagesAssumption
<1>8. CASE M = {}
  <2>1. Cardinality(M) = 0
    BY <1>8, FS_EmptySet
  <2> QED BY <1>7, <2>1
<1>9. CASE M # {} /\ Len(page) = PageSize
  <2> PICK p \in M : TRUE
    BY <1>9
  <2>1. p \in Positions /\ p \in Due(n, S) /\ \A a \in W : Below(a, p)
    BY <1>2 DEF Missed
  <2>2. ASSUME NEW a \in W PROVE Precedes(a, S)
    <3>1. a \in Positions /\ Below(a, p) /\ Precedes(p, S)
      BY <1>2, <2>1, DueIs
    <3>2. ASSUME NEW b \in Places(S) PROVE Below(a, b)
      <4>1. b \in Positions /\ Below(p, b)
        BY <3>1, <3>2 DEF Places, Precedes
      <4> QED BY <1>1, <2>1, <3>1, <4>1, PlacesOrder
    <3> QED BY <3>2 DEF Precedes
  <2>3. ASSUME NEW a \in W PROVE a \in H \cup Places(N)
    <3>1. a \in Positions /\ At(a) \in Set(page) /\ Precedes(a, S)
      BY <2>2 DEF Places
    <3>2. At(a).id \in Nat
      BY <1>1, <3>1, AllWritten
    <3>3. CASE At(a).id <= n
      BY <3>1, <3>3 DEF Had, Places
    <3>4. CASE At(a).id > n
      BY <3>1, <3>4 DEF Newer, Places
    <3> QED BY <3>2, <3>3, <3>4
  <2>4. Places(N) \in SUBSET Positions /\ (H \cup Places(N)) \in SUBSET Positions
        /\ W \in SUBSET (H \cup Places(N))
    BY <1>2, <2>3 DEF Places
  <2>5. Cardinality(W) <= Cardinality(H \cup Places(N))
    BY <1>1, <2>4, PlacesWithin
  <2>6. Cardinality(H \cup Places(N)) <= Cardinality(H) + Cardinality(Places(N))
    BY <1>1, <1>2, <2>4, PlacesAdd
  <2>7. Cardinality(W) = PageSize
    BY <1>1, <1>9, PagePlaces
  <2>8. Cardinality(H \cup Places(N)) \in Nat
    BY <1>1, <2>4, PlacesFinite
  <2>9. Cardinality(O) + Cardinality(H) <= PageSize + Cardinality(Days) - 1
    BY DEF Most
  <2>10. \A m, o, h, k, u, d, size \in Nat :
            m <= o /\ o + h <= size + d - 1 /\ size <= u /\ u <= h + k => m < d + k
    OBVIOUS
  <2>11. /\ PageSize <= Cardinality(H \cup Places(N))
         /\ Cardinality(H \cup Places(N)) <= Cardinality(H) + Cardinality(N)
    BY <1>7, <2>5, <2>6, <2>7
  <2> QED BY <1>5, <1>7, <2>8, <2>9, <2>10, <2>11, Zenon
<1>10. CASE M # {} /\ \A p \in Positions : Remains(p, top) => ~Past(p, c)
  <2> PICK p \in M : TRUE
    BY <1>10
  <2>1. p \in Due(n, S) /\ Past(p, c)
    BY <1>4 DEF Owed
  <2>2. Remains(p, top) /\ p \in Positions
    BY <1>3, <2>1, DueIs
  <2> QED BY <1>10, <2>1, <2>2
<1> QED BY <1>8, <1>9, <1>10

\* What is in a segment after another's is after what is in that one.
LEMMA SegmentsAfter ==
    ASSUME StoreInv, LinesInv, NEW q \in Positions, NEW p \in Positions,
           Below(SegmentOf(q), SegmentOf(p))
    PROVE  Below(q, p)
<1>1. q \in Fours /\ p \in Fours
  BY PlaceHas
<1>2. SegmentOf(q) \in Int \X Int /\ SegmentOf(p) \in Int \X Int
  BY PlaceHas, SegmentPair
<1>3. SegmentOf(q)[1] < SegmentOf(p)[1]
      \/ (SegmentOf(q)[1] = SegmentOf(p)[1] /\ SegmentOf(q)[2] < SegmentOf(p)[2])
  BY <1>2, BelowPairs
<1>4. q[1] < p[1] \/ (q[1] = p[1] /\ q[2] < p[2])
  BY <1>3 DEF SegmentOf
<1> QED BY <1>1, <1>4, BelowFours

\* A line that was there, after the page's start and before a line of it, is on it.
LEMMA OnPage ==
    ASSUME NEW page, NEW c, ReadUp(page, c), NEW p, Remains(p, top), Past(p, start),
           NEW b \in Places(Set(page)), Below(p, b)
    PROVE  p \in Places(Set(page))
<1>1. p \in Positions /\ ~Past(p, c)
  BY RemainsIn, NotPastEnd
<1>2. At(p) \in Set(page)
  BY <1>1 DEF ReadUp, ReadTo
<1> QED BY <1>1, <1>2 DEF Places

\* A page before another has no line of it, unless it has the first line of all or a
\* file between the two is gone.
LEMMA ReadApart ==
    ASSUME NEW page, NEW c, ReadUp(page, c), Once, span[2] = MaxTime, top \in Nat, FirstLines <= top,
           Len(page) <= PageSize,
           NEW F \in Seq([id : Nat, ts : Times]), Known(Set(F)), Ascending(F),
           NEW t, TokenBack(t, F, top), chunks[start[1]] = t[2], start[2] = t[3],
           \A p \in Positions : NextTo(p, t[2], t[3], top) => At(p) \in Set(page)
    PROVE  Apart("prev", page, F)
<1> PICK W : W = Places(Set(page))
  OBVIOUS
<1>1. /\ StoreInv /\ LinesInv /\ FilesInv /\ ListInv /\ ReadTo(page, c)
      /\ start[1] \in 1..Len(chunks) /\ start = <<start[1], start[2]>>
      /\ page \in Seq([id : Nat, ts : Times]) /\ Known(Set(page)) /\ Ascending(page)
  BY DEF ReadUp, ReadTo, StartInv
<1> SUFFICES ASSUME Set(page) \cap Set(F) # {}
             PROVE  \/ \A p \in Positions : Remains(p, FirstLines) => \E a \in W : ~Below(p, a)
                    \/ \E p \in Positions \ Stored : (\E a \in W : Below(a, p)) /\ Precedes(p, First(F))
  BY DEF Apart
<1> PICK line : line \in Set(page) /\ line \in Set(F)
  OBVIOUS
<1> PICK x \in Positions : At(x) = line
  BY <1>1 DEF Known
<1>2. x \in W
  BY DEF Places
<1>3. ASSUME NEW p, Remains(p, top), AfterToken(p, t) PROVE Past(p, start)
  <2> PICK k \in 1..Len(chunks) : chunks[k] = SegmentOf(p)
    BY <1>1, <1>3, IsListed
  <2> QED BY <1>1, <1>3, TokenPast
<1>4. CASE \A p \in Positions : Remains(p, FirstLines) => AfterToken(p, t)
  <2>1. ASSUME NEW p \in Positions, Remains(p, FirstLines) PROVE \E a \in W : ~Below(p, a)
    <3> SUFFICES ASSUME \A a \in W : Below(p, a)
                 PROVE  FALSE
      OBVIOUS
    <3>1. Remains(p, top)
      BY <1>1, <2>1, DueListed
    <3>2. Past(p, start) /\ Below(p, x)
      BY <1>2, <1>3, <1>4, <2>1, <3>1
    <3>3. p \in W
      BY <1>2, <3>1, <3>2, OnPage
    <3> QED BY <1>1, <3>3, PlacesOrder
  <2> QED BY <2>1
<1>5. CASE F = <<>>
  <2>1. Set(F) = {}
    BY <1>5 DEF Set
  <2> QED BY <2>1
<1>6. CASE F # <<>> /\ PageSize <= Cardinality(Filling(t, F, top)) /\ \E q \in Positions : NextTo(q, t[2], t[3], top)
  <2> PICK q \in Positions : NextTo(q, t[2], t[3], top)
    BY <1>6
  <2> PICK b \in Positions : b \in Places(First(F)) /\ (x = b \/ Below(b, x))
    <3> PICK n \in Nat : n = Len(F)
      BY LenProperties
    <3>1. DOMAIN F = 1..n
      BY LenProperties
    <3> PICK j \in 1..n : F[j] = line
      BY <3>1 DEF Set
    <3>2. 1 \in 1..n
      OBVIOUS
    <3>3. F[1] \in Set(F) /\ F[1] \in First(F)
      BY <3>1, <3>2 DEF Set, First
    <3> PICK a \in Positions : At(a) = F[1]
      BY <3>3 DEF Known
    <3>4. a \in Places(First(F))
      BY <3>3 DEF Places
    <3>5. CASE j = 1
      <4>1. x = a
        BY <1>1, <3>5, OnePlace
      <4> QED BY <3>4, <4>1
    <3>6. CASE j # 1
      <4>1. 1 < j
        BY <3>6
      <4>2. Below(a, x)
        BY <3>2, <4>1 DEF Ascending
      <4> QED BY <3>4, <4>2
    <3> QED BY <3>5, <3>6
  <2> PICK X : X = Filling(t, F, top)
    OBVIOUS
  <2>1. X \in SUBSET Positions /\ W \in SUBSET Positions
    BY DEF Filling, Places
  <2>2. x \notin X
    <3>1. ~Below(x, b)
      BY <1>1, PlacesOrder
    <3> QED BY <3>1 DEF Filling, Precedes
  <2>3. \E p \in X : p \notin W
    <3> SUFFICES ASSUME X \in SUBSET W
                 PROVE  FALSE
      OBVIOUS
    <3>1. Cardinality(W) = Len(page)
      BY <1>1, PagePlaces
    <3>2. X \in SUBSET (W \ {x}) /\ (W \ {x}) \in SUBSET Positions /\ {x} \in SUBSET Positions
      BY <2>1, <2>2
    <3>3. Cardinality(X) <= Cardinality(W \ {x})
      BY <1>1, <3>2, PlacesWithin
    <3>4. Cardinality((W \ {x}) \cup {x}) = Cardinality(W \ {x}) + Cardinality({x})
      <4>1. (W \ {x}) \cap {x} = {}
        OBVIOUS
      <4> QED BY <1>1, <3>2, <4>1, PlacesAdd
    <3>5. (W \ {x}) \cup {x} = W
      BY <1>2
    <3>6. Cardinality({x}) = 1
      BY FS_Singleton
    <3>7. /\ Cardinality(W) \in Nat /\ Cardinality(W \ {x}) \in Nat /\ Cardinality(X) \in Nat
          /\ PageSize \in Nat
      BY <1>1, <2>1, <3>2, PlacesFinite, PagesAssumption
    <3>8. Cardinality(W) = Cardinality(W \ {x}) + 1 /\ Cardinality(W) <= PageSize
      BY <3>1, <3>4, <3>5, <3>6
    <3>9. \A w, v, y, size \in Nat : ~(size <= y /\ y <= v /\ w = v + 1 /\ w <= size)
      OBVIOUS
    <3> QED BY <1>6, <3>3, <3>7, <3>8, <3>9, Zenon
  <2> PICK p \in X : p \notin W
    BY <2>3
  <2>4. p \in Positions /\ At(p).id <= top /\ AfterToken(p, t) /\ Precedes(p, First(F))
    BY DEF Filling
  <2>5. p \notin Stored
    <3> SUFFICES ASSUME p \in Stored
                 PROVE  FALSE
      OBVIOUS
    <3>1. Remains(p, top)
      BY <1>1, <2>4, AllMatch DEF Remains
    <3>2. Past(p, start)
      BY <1>3, <2>4, <3>1
    <3>3. Below(p, x)
      <4>1. Below(p, b)
        BY <2>4 DEF Precedes
      <4> QED BY <1>1, <2>4, <4>1, PlacesOrder
    <3> QED BY <1>2, <3>1, <3>2, <3>3, OnPage
  <2>6. q \in W
    <3>1. At(q) \in Set(page)
      OBVIOUS
    <3> QED BY <3>1 DEF Places
  <2>7. Below(q, p)
    <3>1. SegmentOf(q) = t[2] /\ q[4] = t[3] + 1
      BY DEF NextTo
    <3>2. CASE Below(t[2], SegmentOf(p))
      BY <1>1, <2>4, <3>1, <3>2, SegmentsAfter
    <3>3. CASE SegmentOf(p) = t[2] /\ p[4] > t[3]
      <4>1. p[3] = 1 /\ q[3] = 1 /\ p[4] \in Nat /\ q[4] \in Nat
        BY <1>1, <2>4, OncePlace, PlaceHas
      <4>2. p[4] # q[4]
        BY <1>1, <2>4, <2>6, <3>1, <3>3, OnceSame
      <4>3. t[3] \in Nat
        BY DEF TokenBack, Within
      <4>4. q[4] < p[4]
        BY <3>1, <3>3, <4>1, <4>2, <4>3
      <4> QED BY <1>1, <2>4, <3>1, <3>3, <4>1, <4>4, FilesBelow
    <3> QED BY <2>4, <3>2, <3>3 DEF AfterToken
  <2> QED BY <2>4, <2>5, <2>6, <2>7
<1> QED BY <1>4, <1>5, <1>6 DEF TokenBack, Fills

\* The start of the page before is looked for from where the page starts.
LEMMA PrevStarts ==
    ASSUME NEW page, NEW c, ReadUp(page, c), top \in Nat, FirstLines <= top,
           Within(chunks[start[1]], start[2]),
           page # <<>> \/ \A p \in Positions : Remains(p, top) => ~Past(p, c),
           NEW sc, sc = <<start[1], start[2], PageSize>>
    PROVE  ScanInv(FirstLines, First(page), sc) /\ PrevInv(page, sc)
<1>1. /\ StoreInv /\ LinesInv /\ FilesInv /\ ListInv /\ ReadTo(page, c)
      /\ start[1] \in 1..Len(chunks) /\ start = <<start[1], start[2]>>
      /\ page \in Seq([id : Nat, ts : Times]) /\ Known(Set(page)) /\ Ascending(page)
  BY DEF ReadUp, ReadTo, StartInv
<1>2. Len(chunks) \in Nat /\ PageSize \in 1..PageSize /\ PageSize \in Nat
  BY <1>1, LenProperties, PagesAssumption DEF ListInv
<1>3. sc[1] = start[1] /\ sc[2] = start[2] /\ sc[3] = PageSize /\ start[2] \in Nat /\ sc[2] # Whole
  BY DEF Within, Whole
<1>4. Reached(sc) = start
  BY <1>1, <1>3 DEF Reached
<1>5. First(page) \in SUBSET Set(page)
  BY <1>1, FirstKnown
<1>6. Owed(FirstLines, First(page), start) = {}
  <2> SUFFICES ASSUME NEW p \in Owed(FirstLines, First(page), start)
               PROVE  FALSE
    OBVIOUS
  <2>1. p \in Positions /\ Remains(p, FirstLines) /\ Precedes(p, First(page)) /\ Past(p, start)
    BY DueIs DEF Owed
  <2>2. Remains(p, top)
    BY <1>1, <2>1, DueListed
  <2>3. CASE page = <<>>
    <3>1. Set(page) = {}
      BY <2>3 DEF Set
    <3>2. Past(p, c)
      BY <1>1, <2>1, <2>2, <3>1 DEF ReadTo
    <3> QED BY <2>1, <2>2, <2>3, <3>2
  <2>4. CASE page # <<>>
    <3> PICK n \in Nat : n = Len(page)
      BY <1>1, LenProperties
    <3>1. DOMAIN page = 1..n /\ n # 0
      BY <1>1, <2>4, LenProperties, EmptySeq
    <3>2. 1 \in 1..n /\ 1 \in DOMAIN page
      BY <3>1
    <3>3. page[1] \in Set(page) /\ page[1] \in First(page)
      BY <3>2 DEF Set, First
    <3> PICK b \in Positions : At(b) = page[1]
      BY <1>1, <3>3 DEF Known
    <3>4. b \in Places(First(page)) /\ b \in Places(Set(page))
      BY <3>3 DEF Places
    <3>5. Below(p, b)
      BY <2>1, <3>4 DEF Precedes
    <3>6. At(p) \in Set(page)
      BY <2>1, <2>2, <3>4, <3>5, OnPage DEF Places
    <3> PICK j \in 1..n : page[j] = At(p)
      BY <3>1, <3>6 DEF Set
    <3>7. CASE j = 1
      <4>1. p = b
        BY <1>1, <2>1, <3>7, OnePlace
      <4> QED BY <1>1, <3>5, <4>1, PlacesOrder
    <3>8. CASE j # 1
      <4>1. 1 < j
        BY <3>8
      <4>2. Below(b, p)
        BY <1>1, <2>1, <3>2, <4>1 DEF Ascending
      <4> QED BY <1>1, <2>1, <3>5, <4>2, PlacesOrder
    <3> QED BY <3>7, <3>8
  <2> QED BY <2>3, <2>4
<1>7. ScanInv(FirstLines, First(page), sc)
  <2>1. Cardinality(Owed(FirstLines, First(page), Reached(sc))) = 0
    BY <1>4, <1>6, FS_EmptySet
  <2>2. 0 <= PageSize - PageSize + Len(chunks) - start[1]
    BY <1>1, <1>2
  <2> QED BY <1>1, <1>2, <1>3, <2>1, <2>2 DEF ScanInv
<1>8. PrevInv(page, sc)
  <2>1. ASSUME NEW b \in Places(First(page)) PROVE Past(b, start)
    <3>1. b \in Places(Set(page))
      BY <1>5 DEF Places
    <3> QED BY <3>1, ReadIs
  <2>2. PageSize - sc[3] <= Cardinality(Counted(page, Reached(sc)))
    <3>1. Counted(page, Reached(sc)) \in SUBSET Positions
      BY DEF Counted
    <3>2. Cardinality(Counted(page, Reached(sc))) \in Nat
      BY <1>1, <3>1, PlacesFinite
    <3> QED BY <1>2, <1>3, <3>2
  <2> QED BY <1>1, <1>3, <2>1, <2>2 DEF PrevInv
<1> QED BY <1>7, <1>8

\* A page is complete, and near enough.
LEMMA PageReadBack ==
    ASSUME Backing, pc = "read", NEW page, NEW c, ReadUp(page, c), NEW next, PageRead(page, next),
           page # <<>> \/ \A p \in Positions : Remains(p, top) => ~Past(p, c),
           next # None => Within(next[2], next[3]),
           PageNear(kind, page, answer.lines, top), Apart(kind, page, answer.lines)
    PROVE  AnswerBack' /\ RequestBack'
<1>1. /\ StoreInv /\ LinesInv /\ Moves /\ Once /\ span[2] = MaxTime /\ FirstLines <= written
      /\ chunks \in Seq(Segments) /\ Len(chunks) <= Cardinality(Days)
      /\ Within(chunks[start[1]], start[2]) /\ Known(Set(page))
  BY DEF Backing, Asking, RequestBack, ReadUp, ReadTo, ListInv
<1>2. top \in Nat /\ top <= written /\ FirstLines <= top
  BY DEF Backing, Asking, RequestInv, RequestBack
<1>3. CASE start = <<1, 0>>
  <2>1. Answer(FALSE, page, next, None)
    BY <1>3 DEF PageRead
  <2> QED BY <1>1, <2>1, AnswersBack
<1>4. CASE start # <<1, 0>>
  <2> PICK sc : sc = <<start[1], start[2], PageSize>>
    OBVIOUS
  <2> PICK n \in Nat : n = top
    BY <1>2
  <2> PICK k : k = kind
    OBVIOUS
  <2> PICK F : F = answer.lines
    OBVIOUS
  <2>1. /\ pc' = "prev" /\ lines' = page /\ at' = next /\ scan' = sc
        /\ UNCHANGED <<kind, top, chunks, start, answer>>
    BY <1>4 DEF PageRead
  <2>2. ScanInv(FirstLines, First(page), sc) /\ PrevInv(page, sc)
    BY <1>1, <1>2, PrevStarts
  <2> PICK S : S = First(page)
    OBVIOUS
  <2>3. Known(S)
    BY <1>1, FirstKnown
  <2>4. ScanInv(FirstLines, S, sc)'
    BY <1>1, <2>1, <2>2, <2>3, ScanStays, StoreAssumption
  <2>5. PrevInv(page, sc)'
    <3>1. sc[3] \in Int
      BY PagesAssumption
    <3> QED BY <1>1, <2>1, <2>2, <2>3, <3>1, PrevStays
  <2>6. k = "prev" => Known(First(F))
    BY AskedFrom, AnswerIs
  <2>7. PageNear(k, page, F, n)'
    BY <1>1, <1>2, <2>6, PageNearStays
  <2>8. Apart(k, page, F)'
    BY <1>1, <2>6, ApartStays
  <2>9. (at # None => Within(at[2], at[3]))'
    <3>1. ASSUME next # None PROVE Within(next[2], next[3])'
      BY <1>1, <3>1, WithinStays
    <3> QED BY <2>1, <3>1
  <2>10. (ScanInv(FirstLines, First(lines), scan) /\ PrevInv(lines, scan))'
    <3>1. ScanInv(FirstLines, First(page), sc)'
      BY <2>4 DEF First
    <3> QED BY <2>1, <2>5, <3>1
  <2>11. (PageNear(kind, lines, answer.lines, top) /\ Apart(kind, lines, answer.lines))'
    BY <2>1, <2>7, <2>8
  <2>12. RequestBack'
    BY <1>1, <1>2, <2>1, <2>9, <2>10, <2>11, SameBounds DEF RequestBack
  <2>13. AnswerBack'
    BY <2>1, AnswerKept
  <2> QED BY <2>12, <2>13
<1> QED BY <1>3, <1>4

\* A file is read on: what the page has, and what is ahead of it, are no more than they were.
LEMMA ReadOnBack ==
    ASSUME Backing, pc = "read", NEW all, NEW take, Reading(all, take), NEW m, NEW c,
           Gets(c, take, m), NEW page, Extended(page, all, take, m)
    PROVE  ReadBack(page, c) /\ ReadUp(page, c)
           /\ (kind = "prev" =>
                  \A p \in Positions : NextTo(p, chunks[start[1]], start[2], top) => At(p) \in Set(page))
<1>1. ReadBack(lines, at) /\ Once /\ span[2] = MaxTime /\ StoreInv /\ LinesInv
  BY DEF Backing, Asking, RequestBack
<1>2. ReadUp(page, c)
  <2>1. ReadTo(page, c)
    BY ReadOn
  <2> QED BY <2>1 DEF ReadUp, Reading, Gets
<1>3. ASSUME kind = "prev", NEW p \in Positions, NextTo(p, chunks[start[1]], start[2], top)
      PROVE  At(p) \in Set(page)
  BY <1>1, <1>3, TakesNext
<1>4. ASSUME kind \in {"last", "prev"}
      PROVE  Cardinality(Owed(Since(kind, top), Upto(kind, answer.lines), c))
                + Cardinality(Had(Since(kind, top), Upto(kind, answer.lines), page)) <= Most
  <2> PICK n : n = Since(kind, top)
    OBVIOUS
  <2> PICK S : S = Upto(kind, answer.lines)
    OBVIOUS
  <2>1. Cardinality(Owed(n, S, c)) + Cardinality(Had(n, S, page))
           <= Cardinality(Owed(n, S, at)) + Cardinality(Had(n, S, lines))
    BY ReadCount
  <2>2. Cardinality(Owed(n, S, at)) + Cardinality(Had(n, S, lines)) <= Most
    BY <1>1, <1>4 DEF ReadBack
  <2>3. /\ Owed(n, S, c) \in SUBSET Positions /\ Had(n, S, page) \in SUBSET Positions
        /\ Owed(n, S, at) \in SUBSET Positions /\ Had(n, S, lines) \in SUBSET Positions
    BY DEF Owed, Due, Had, Places
  <2>4. /\ Cardinality(Owed(n, S, c)) \in Nat /\ Cardinality(Had(n, S, page)) \in Nat
        /\ Cardinality(Owed(n, S, at)) \in Nat /\ Cardinality(Had(n, S, lines)) \in Nat
    BY <1>1, <2>3, PlacesFinite
  <2>5. Most \in Int
    BY PagesAssumption, DaysFinite DEF Most
  <2>6. \A x, y, z, w \in Nat, v \in Int : x + y <= z + w /\ z + w <= v => x + y <= v
    OBVIOUS
  <2>7. Cardinality(Owed(n, S, c)) + Cardinality(Had(n, S, page)) <= Most
    BY <2>1, <2>2, <2>4, <2>5, <2>6, Zenon
  <2> QED BY <2>7
<1> QED BY <1>2, <1>3, <1>4 DEF ReadBack

\* So a page that is full then, or has all there is, has what is promised of it.
LEMMA ReadIsNear ==
    ASSUME Backing, pc = "read", NEW all, NEW take, Reading(all, take),
           Len(lines) \in Nat, Len(lines) < PageSize,
           NEW m, NEW c, Gets(c, take, m), NEW page, Extended(page, all, take, m),
           \/ m = PageSize - Len(lines)
           \/ m < PageSize - Len(lines) /\ \A p \in Positions : Remains(p, top) => ~Past(p, c)
    PROVE  /\ ReadUp(page, c)
           /\ page # <<>> \/ \A p \in Positions : Remains(p, top) => ~Past(p, c)
           /\ PageNear(kind, page, answer.lines, top) /\ Apart(kind, page, answer.lines)
<1>1. ReadBack(page, c) /\ ReadUp(page, c)
  BY ReadOnBack
<1>2. Once /\ span[2] = MaxTime /\ top \in Nat /\ FirstLines <= top /\ FirstLines \in Nat
  BY StoreAssumption DEF Backing, Asking, RequestInv, RequestBack
<1>3. PageSize \in Nat /\ PageSize >= 1
  BY PagesAssumption
<1>4. /\ m \in Nat /\ Len(page) = Len(lines) + m /\ Len(page) \in Nat /\ Len(page) <= PageSize
      /\ Len(page) = PageSize \/ \A p \in Positions : Remains(p, top) => ~Past(p, c)
  <2>1. m \in 0..Len(take)
    BY DEF Gets
  <2>2. m \in Nat /\ Len(page) = Len(lines) + m
    BY <2>1, PageHas
  <2> QED BY <1>3, <2>2
<1>5. page # <<>> \/ \A p \in Positions : Remains(p, top) => ~Past(p, c)
  BY <1>3, <1>4, EmptySeq
<1>6. PageNear(kind, page, answer.lines, top)
  <2> SUFFICES ASSUME kind \in {"last", "prev"}
               PROVE  Cardinality(Missed(Since(kind, top), Upto(kind, answer.lines), page))
                         < Cardinality(Days) + Cardinality(Newer(Since(kind, top), page))
    BY DEF PageNear
  <2> PICK n \in Nat : n = Since(kind, top) /\ n <= top
    BY <1>2 DEF Since
  <2> PICK S : S = Upto(kind, answer.lines)
    OBVIOUS
  <2>1. Cardinality(Owed(n, S, c)) + Cardinality(Had(n, S, page)) <= Most
    BY <1>1 DEF ReadBack
  <2>2. Cardinality(Missed(n, S, page)) < Cardinality(Days) + Cardinality(Newer(n, page))
    BY <1>1, <1>2, <1>4, <2>1, ReadNear
  <2> QED BY <2>2
<1>7. Apart(kind, page, answer.lines)
  <2>1. CASE kind = "prev"
    <3>1. answer.kind # "none" /\ ~answer.merged
      BY <2>1, AskedFrom
    <3> PICK F : F = answer.lines
      OBVIOUS
    <3> PICK t : t = answer.prev
      OBVIOUS
    <3>2. F \in Seq([id : Nat, ts : Times]) /\ Known(Set(F)) /\ Ascending(F)
      BY <3>1, AnswerIs
    <3>3. TokenBack(t, F, top) /\ chunks[start[1]] = t[2] /\ start[2] = t[3]
      BY <2>1, <3>1 DEF Backing, RequestBack
    <3>4. \A p \in Positions : NextTo(p, t[2], t[3], top) => At(p) \in Set(page)
      BY <2>1, <3>3, ReadOnBack
    <3>5. Apart("prev", page, F)
      BY <1>1, <1>2, <1>4, <3>2, <3>3, <3>4, ReadApart
    <3> QED BY <2>1, <3>5
  <2>2. CASE kind # "prev"
    BY <2>2 DEF Apart
  <2> QED BY <2>1, <2>2
<1> QED BY <1>1, <1>5, <1>6, <1>7

\* A page that goes on in the next file.
LEMMA ReadGoesOn ==
    ASSUME Backing, pc = "read", NEW page, NEW c, ReadUp(page, c), ReadBack(page, c),
           at' = c, lines' = page, UNCHANGED <<pc, kind, top, chunks, start, scan, answer>>
    PROVE  AnswerBack' /\ RequestBack'
<1>1. /\ StoreInv /\ LinesInv /\ Moves /\ Once /\ FirstLines <= written
      /\ Len(chunks) <= Cardinality(Days) /\ Within(chunks[start[1]], start[2]) /\ Known(Set(page))
  BY DEF Backing, Asking, RequestBack, ReadUp, ReadTo
<1>2. top \in Nat /\ top <= written /\ FirstLines <= top
  BY DEF Backing, Asking, RequestInv, RequestBack
<1>3. kind = "prev" => answer.kind # "none" /\ ~answer.merged /\ Known(First(answer.lines))
  BY AskedFrom, AnswerIs
<1>4. ReadBack(page, c)'
  BY <1>1, <1>2, <1>3, ReadStays
<1>5. ReadBack(lines, at)'
  BY <1>4
<1>6. (Within(chunks[start[1]], start[2]))'
  <2> PICK s : s = chunks[start[1]]
    OBVIOUS
  <2> PICK o : o = start[2]
    OBVIOUS
  <2>1. Within(s, o)'
    BY <1>1, WithinStays
  <2> QED BY <2>1
<1>7. (pc \in {"dispatch", "read"} /\ kind = "prev" /\ ~answer.merged =>
          TokenBack(answer.prev, answer.lines, top))'
  <2> SUFFICES ASSUME kind = "prev"
               PROVE  TokenBack(answer.prev, answer.lines, top)'
    OBVIOUS
  <2> PICK t : t = answer.prev
    OBVIOUS
  <2> PICK F : F = answer.lines
    OBVIOUS
  <2> PICK n \in Nat : n = top
    BY <1>2
  <2>1. TokenBack(t, F, n)
    BY <1>3 DEF Backing, RequestBack
  <2>2. TokenBack(t, F, n)'
    BY <1>1, <1>3, <2>1, TokenStays
  <2> QED BY <2>2
<1>8. (kind = "prev" => chunks[start[1]] = answer.prev[2] /\ start[2] = answer.prev[3])'
  BY DEF Backing, RequestBack
<1>9. RequestBack'
  BY <1>1, <1>2, <1>5, <1>6, <1>7, <1>8, SameBounds DEF RequestBack
<1> QED BY <1>9, AnswerKept

\* A file is read: the page goes on in the next one, or is complete.
LEMMA ReadFileBack ==
    ASSUME Backing, ReadFile
    PROVE  AnswerBack' /\ RequestBack'
<1>1. Asking /\ pc = "read" /\ StoreInv /\ LinesInv /\ FilesInv /\ Once
  BY DEF Backing, Asking, ReadFile
<1>2. CASE chunks[at[1]] \notin DOMAIN seg
  <2>1. Err
    BY <1>2 DEF ReadFile
  <2> QED BY <2>1, BackToIdle DEF Err, Idle
<1>3. CASE chunks[at[1]] \in DOMAIN seg
  <2> PICK all, take, page, m :
              /\ all = Content(chunks[at[1]]) /\ take = ToTake(all, at[2])
              /\ Extended(page, all, take, m)
              /\ \/ /\ m = PageSize - Len(lines) /\ Len(take) >= m
                    /\ PageRead(page, IF HasMore(take[m][1], Len(all))
                                      THEN Position(chunks[at[1]], take[m][1]) ELSE None)
                 \/ /\ m = Len(take) /\ ~(Len(take) >= PageSize - Len(lines))
                    /\ \/ /\ at[1] < Len(chunks) /\ at' = <<at[1] + 1, 0>> /\ lines' = page
                          /\ UNCHANGED <<pc, kind, top, chunks, start, scan, answer>>
                       \/ ~(at[1] < Len(chunks)) /\ PageRead(page, None)
    BY <1>3, FileRead
  <2>1. /\ Reading(all, take) /\ Len(all) \in Nat /\ DOMAIN all = 1..Len(all)
        /\ Len(lines) \in Nat /\ Len(lines) < PageSize
    BY <1>1, <1>3, IsReading, SMTT(30)
  <2>2. /\ at[1] \in 1..Len(chunks) /\ at[1] \in Int /\ at[2] \in Int /\ Len(take) \in Nat
        /\ PageSize \in Nat /\ Len(chunks) \in Nat
    <3>1. chunks \in Seq(Segments)
      BY <2>1, SMTT(30) DEF Reading, ListInv
    <3> QED BY <2>1, <3>1, LenProperties, PagesAssumption DEF Reading, AtIn, Takes
  <2>3. CASE /\ m = PageSize - Len(lines) /\ Len(take) >= m
             /\ PageRead(page, IF HasMore(take[m][1], Len(all))
                               THEN Position(chunks[at[1]], take[m][1]) ELSE None)
    <3> PICK here : here = chunks[at[1]]
      OBVIOUS
    <3> PICK last : last = take[m][1]
      OBVIOUS
    <3> PICK next : next = IF HasMore(last, Len(all)) THEN Position(here, last) ELSE None
      OBVIOUS
    <3>1. PageRead(page, next)
      BY <2>3
    <3>2. m \in 1..Len(take)
      BY <2>1, <2>2, <2>3, SMTT(30)
    <3>3. last \in 1..Len(all)
      BY <2>1, <3>2 DEF Reading, Takes
    <3> PICK c : c = <<at[1], last>>
      OBVIOUS
    <3>4. Gets(c, take, m)
      BY <2>2, <3>2, <3>3, SMTT(30) DEF Gets
    <3>5. /\ ReadUp(page, c)
          /\ page # <<>> \/ \A p \in Positions : Remains(p, top) => ~Past(p, c)
          /\ PageNear(kind, page, answer.lines, top) /\ Apart(kind, page, answer.lines)
      BY <1>1, <2>1, <2>3, <3>4, ReadIsNear, SMTT(30)
    <3>6. next # None => Within(next[2], next[3])
      <4>1. Within(here, last)
        <5>1. here \in DOMAIN seg /\ last \in 0..Len(Content(here))
          BY <1>3, <3>3
        <5> QED BY <1>1, <5>1, ContentWithin
      <4>2. next = None \/ next = <<"offset", here, last>>
        BY DEF Position
      <4> QED BY <4>1, <4>2
    <3> QED BY <1>1, <3>1, <3>5, <3>6, PageReadBack
  <2>4. CASE m = Len(take) /\ ~(Len(take) >= PageSize - Len(lines))
    <3> PICK c : c = <<at[1] + 1, 0>>
      OBVIOUS
    <3>1. Gets(c, take, m) /\ m < PageSize - Len(lines)
      BY <2>1, <2>2, <2>4 DEF Gets
    <3>2. CASE /\ at' = c /\ lines' = page
               /\ UNCHANGED <<pc, kind, top, chunks, start, scan, answer>>
      <4>1. ReadUp(page, c) /\ ReadBack(page, c)
        BY <1>1, <2>1, <3>1, ReadOnBack
      <4> QED BY <1>1, <3>2, <4>1, ReadGoesOn
    <3>3. CASE ~(at[1] < Len(chunks)) /\ PageRead(page, None)
      <4>1. \A p \in Positions : Remains(p, top) => ~Past(p, c)
        BY <2>2, <3>3 DEF Past
      <4>2. /\ ReadUp(page, c)
            /\ PageNear(kind, page, answer.lines, top) /\ Apart(kind, page, answer.lines)
        BY <1>1, <2>1, <3>1, <4>1, ReadIsNear
      <4> QED BY <1>1, <3>3, <4>1, <4>2, PageReadBack
    <3> QED BY <2>4, <3>2, <3>3
  <2> QED BY <2>3, <2>4
<1> QED BY <1>2, <1>3

-----------------------------------------------------------------------------
(* Paging backwards by offsets keeps near. *)

\* A merge has nothing to do with it.
LEMMA MergeBack ==
    ASSUME Backing, MergeFile \/ MergeAnswer
    PROVE  AnswerBack' /\ RequestBack'
<1>1. CASE MergeFile
  <2>1. pc = "merge" /\ pc' = "merge" /\ UNCHANGED <<top, answer>>
    BY <1>1 DEF MergeFile
  <2> QED BY <2>1, BackToIdle
<1>2. CASE MergeAnswer
  <2>1. PICK page, next, prev : Answer(TRUE, page, next, prev)
    BY <1>2 DEF MergeAnswer
  <2>2. answer'.merged = TRUE /\ pc' = "idle"
    BY <2>1 DEF Answer, Idle
  <2> QED BY <2>2, SameBounds DEF AnswerBack, RequestBack
<1> QED BY <1>1, <1>2

\* Every step of a request for pages keeps the invariant.
LEMMA PageBack ==
    ASSUME StoreInv, LinesInv, FilesInv, PagesInv, OffsetsInv, BackInv, Page
    PROVE  BackInv'
<1> SUFFICES ASSUME Once' PROVE AnswerBack' /\ RequestBack'
  BY DEF BackInv
<1>1. request \in {"pages", "workload"} /\ PagesNext /\ UNCHANGED <<storeVars, readVars>>
  BY DEF Page
<1>2. Moves
  BY <1>1, StandsStill
<1>3. Once
  BY <1>2, OnceStays DEF Moves
<1>4. Backing
  BY <1>1, <1>2, <1>3 DEF Backing, Asking, PagesInv, OffsetsInv, BackInv
<1>5. CASE \E k \in {"first", "last", "next", "prev"} : Ask(k)
  BY <1>1, <1>4, <1>5, AskBack
<1>6. CASE Dispatch
  BY <1>1, <1>4, <1>6, DispatchBack
<1>7. CASE ScanFile
  BY <1>4, <1>7, ScanFileBack
<1>8. CASE ReadFile
  BY <1>4, <1>8, ReadFileBack
<1>9. CASE MergeFile \/ MergeAnswer
  BY <1>4, <1>9, MergeBack
<1> QED BY <1>1, <1>5, <1>6, <1>7, <1>8, <1>9 DEF PagesNext

\* So does what goes on beside it.
LEMMA BackRests ==
    ASSUME StoreInv, LinesInv, FilesInv, PagesInv, OffsetsInv, BackInv,
           Moves, UNCHANGED <<request, pageVars>>
    PROVE  BackInv'
<1> SUFFICES ASSUME request # "index", Once' PROVE AnswerBack' /\ RequestBack'
  BY DEF BackInv
<1>1. Once
  BY OnceStays DEF Moves
<1>2. Backing
  BY <1>1 DEF Backing, Asking, PagesInv, OffsetsInv, BackInv
<1>3. UNCHANGED answer
  BY DEF pageVars
<1> QED BY <1>2, <1>3, AnswerKept, RequestKept

\* The invariant holds at first.
LEMMA BackStarts == Init => BackInv
<1> SUFFICES ASSUME Init PROVE BackInv
  OBVIOUS
<1>1. pc = "idle" /\ answer = NoAnswer
  BY DEF Init, PagesInit
<1>2. answer.kind = "none"
  BY <1>1 DEF NoAnswer
<1>3. FirstLines <= written
  BY StoreAssumption DEF Init, StoreInit
<1>4. span[2] = MaxTime
  BY DEF Init, ReadsInit
<1> QED BY <1>1, <1>2, <1>3, <1>4 DEF BackInv, AnswerBack, RequestBack

\* What a request has counted before the page it reads, and what it was answered,
\* whatever the store does while it runs and afterwards (findChunkPageStart and
\* findChunkPageStartBefore of log_service.go).
THEOREM BackInvariant == Spec => []BackInv
<1> DEFINE Inv == StoreInv /\ LinesInv /\ PagesInv
           JInv == FilesInv /\ OffsetsInv
<1>1. Inv /\ JInv /\ Inv' /\ BackInv /\ [Next]_vars => BackInv'
  <2> SUFFICES ASSUME StoreInv, LinesInv, PagesInv, FilesInv, OffsetsInv, StoreInv', LinesInv',
                      BackInv, [Next]_vars
               PROVE  BackInv'
    OBVIOUS
  <2>1. CASE Store
    <3>1. StoreNext /\ UNCHANGED <<request, span, pageVars>>
      BY <2>1 DEF Store, readVars
    <3>2. Grows /\ \A x \in DOMAIN seg' \ DOMAIN seg : DOMAIN data'[<<x, seg'[x]>>] = {}
      BY <3>1, StoreMoves, LinesMove
    <3>3. Moves
      BY <3>1, <3>2 DEF Moves
    <3> QED BY <3>1, <3>3, BackRests
  <2>2. CASE Page
    BY <2>2, PageBack
  <2>3. CASE IndexPage
    BY <2>3 DEF BackInv, IndexPage, readVars
  <2>4. CASE Fetch \/ Find \/ Done \/ UNCHANGED vars
    <3>1. UNCHANGED <<storeVars, readVars, pageVars>>
      BY <2>4 DEF Fetch, Find, Done, vars
    <3>2. Moves
      BY <3>1, StandsStill
    <3>3. request' = request
      BY <3>1 DEF readVars
    <3> QED BY <3>1, <3>2, <3>3, BackRests
  <2> QED BY <2>1, <2>2, <2>3, <2>4 DEF Next
<1> HIDE DEF Inv, JInv
<1>2. Spec => []Inv
  BY PagesInvariant DEF Inv
<1>3. Spec => []JInv
  BY OffsetsInvariant DEF JInv
<1> QED BY <1>1, <1>2, <1>3, BackStarts, PTL DEF Spec

\* What the invariant says of a page that was asked for backwards.
LEMMA BackAnswerIs ==
    ASSUME StoreInv, LinesInv, PagesInv, OffsetsInv, BackInv, Answered, ~answer.merged,
           span[1] = 1, NoneMadeAgain
    PROVE  /\ FirstLines <= answer.top /\ answer.top \in Nat
           /\ Known(Set(answer.lines))
           /\ answer.kind = "prev" => Known(First(answer.from))
           /\ PageNear(answer.kind, answer.lines, answer.from, answer.top)
           /\ Apart(answer.kind, answer.lines, answer.from)
<1>1. request # "index" /\ Known(Set(answer.lines))
  BY OffsetAnswerIs DEF PageInv
<1>2. AnswerBack
  BY <1>1 DEF BackInv, Once
<1>3. answer.top \in Nat
  BY <1>1 DEF PagesInv, AnswerInv, Answered
<1> QED BY <1>1, <1>2, <1>3 DEF AnswerBack, Answered

\* Paging backwards by offsets shows no line of the page it comes from, but where it
\* has come to the first line of all or a file between the two has gone, and leaves
\* out fewer lines than there are segments, beside those whose place a newer line has
\* taken, while no file is made again (GetLogs, findChunkPageStart and
\* findChunkPageStartBefore of log_service.go, which count one line too many in a
\* file: log_service.go:513).
THEOREM BackwardNear == Spec => []BackwardPagesNear
<1>1. StoreInv /\ LinesInv /\ PagesInv /\ OffsetsInv /\ BackInv => BackwardPagesNear
  <2> SUFFICES ASSUME StoreInv, LinesInv, PagesInv, OffsetsInv, BackInv,
                      Answered, ~answer.merged, answer.kind \in {"last", "prev"},
                      span[1] = 1, NoneMadeAgain
               PROVE  LET page == Set(answer.lines)
                          next == IF answer.kind = "prev" THEN First(answer.from) ELSE {}
                          since == IF answer.kind = "prev" THEN FirstLines ELSE answer.top
                          missed == {p \in Old : /\ At(p).id <= since
                                                 /\ Where(page) # {} /\ \A a \in Where(page) : Below(a, p)
                                                 /\ \A b \in Where(next) : Below(p, b)}
                      IN  /\ answer.kind = "prev" /\ page \cap Set(answer.from) # {} =>
                              \/ ~\E p \in Old : At(p).id <= FirstLines /\ \A a \in Where(page) : Below(p, a)
                              \/ \E p \in Positions \ Stored : /\ \E a \in Where(page) : Below(a, p)
                                                               /\ \A b \in Where(next) : Below(p, b)
                          /\ Cardinality(missed) < Cardinality(Days)
                                  + Cardinality({line \in page : line.id > since})
    BY DEF BackwardPagesNear
  <2>1. PICK k : k = answer.kind
    OBVIOUS
  <2>2. PICK L : L = answer.lines
    OBVIOUS
  <2>3. PICK F : F = answer.from
    OBVIOUS
  <2>4. PICK n : n = answer.top
    OBVIOUS
  <2>5. PICK next : next = IF k = "prev" THEN First(F) ELSE {}
    OBVIOUS
  <2>6. PICK since : since = IF k = "prev" THEN FirstLines ELSE n
    OBVIOUS
  <2>7. PICK missed : missed = {p \in Old : /\ At(p).id <= since
                                            /\ Where(Set(L)) # {} /\ \A a \in Where(Set(L)) : Below(a, p)
                                            /\ \A b \in Where(next) : Below(p, b)}
    OBVIOUS
  <2>8. since = Since(k, n) /\ next = Upto(k, F)
    BY <2>5, <2>6 DEF Since, Upto
  <2>9. /\ FirstLines <= n /\ n \in Nat /\ Known(Set(L)) /\ (k = "prev" => Known(First(F)))
        /\ PageNear(k, L, F, n) /\ Apart(k, L, F)
    BY <2>1, <2>2, <2>3, <2>4, BackAnswerIs
  <2>10. Where(Set(L)) = Places(Set(L))
    BY <2>9, WhereIs
  <2>11. Where(next) = Places(next)
    <3>1. Known(next)
      BY <2>5, <2>9 DEF Known
    <3> QED BY <3>1, WhereIs
  <2>12. FirstLines \in Nat /\ since \in Nat /\ since <= n
    BY <2>6, <2>9, StoreAssumption
  <2>13. ASSUME NEW p, NEW m \in Nat, m <= n
         PROVE  Remains(p, m) <=> p \in Old /\ At(p).id <= m
    <3>1. CASE p \in Stored
      <4>1. p \in Positions
        BY <3>1 DEF Stored
      <4>2. PICK i \in Nat : i = At(p).id
        BY <4>1, AllWritten
      <4>3. i <= m => i <= n
        BY <2>9, <2>13
      <4> QED BY <2>4, <4>2, <4>3 DEF Remains, Old
    <3> QED BY <3>1 DEF Remains, Old
  <2>14. missed = Missed(Since(k, n), Upto(k, F), L)
    <3>1. \A p : p \in missed <=>
            /\ Remains(p, since) /\ Places(Set(L)) # {} /\ \A a \in Places(Set(L)) : Below(a, p)
            /\ \A b \in Places(next) : Below(p, b)
      BY <2>7, <2>10, <2>11, <2>12, <2>13
    <3>2. \A p : p \in Missed(since, next, L) <=>
            /\ Remains(p, since) /\ Places(Set(L)) # {} /\ \A a \in Places(Set(L)) : Below(a, p)
            /\ \A b \in Places(next) : Below(p, b)
      BY RemainsIn DEF Missed, Due, Precedes
    <3> QED BY <2>8, <3>1, <3>2
  <2>15. Cardinality(missed) < Cardinality(Days) + Cardinality({line \in Set(L) : line.id > since})
    BY <2>1, <2>8, <2>9, <2>14 DEF PageNear, Newer
  <2>16. ASSUME k = "prev", Set(L) \cap Set(F) # {}
         PROVE  \/ ~\E p \in Old : At(p).id <= FirstLines /\ \A a \in Where(Set(L)) : Below(p, a)
                \/ \E p \in Positions \ Stored : /\ \E a \in Where(Set(L)) : Below(a, p)
                                                 /\ \A b \in Where(next) : Below(p, b)
    <3>1. CASE \A p \in Positions : Remains(p, FirstLines) => \E a \in Places(Set(L)) : ~Below(p, a)
      <4>1. ASSUME NEW p \in Old, At(p).id <= FirstLines PROVE ~\A a \in Places(Set(L)) : Below(p, a)
        <5>1. Remains(p, FirstLines)
          BY <2>9, <2>12, <2>13, <4>1
        <5> QED BY <3>1, <5>1, RemainsIn
      <4> QED BY <2>10, <4>1
    <3>2. CASE \E p \in Positions \ Stored :
                 (\E a \in Places(Set(L)) : Below(a, p)) /\ Precedes(p, First(F))
      <4>1. next = First(F)
        BY <2>5, <2>16
      <4> QED BY <2>10, <2>11, <3>2, <4>1 DEF Precedes
    <3> QED BY <2>9, <2>16, <3>1, <3>2 DEF Apart
  <2> QED BY <2>1, <2>2, <2>3, <2>4, <2>5, <2>6, <2>7, <2>15, <2>16
<1> QED BY <1>1, PagesInvariant, OffsetsInvariant, BackInvariant, PTL
=============================================================================
