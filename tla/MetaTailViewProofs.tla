------------------------ MODULE MetaTailViewProofs ------------------------
(***************************************************************************)
(* Proofs about three modules that have nothing to do with each other.     *)
(* LiveTail: for any containers, days, lines, changes and capacity of the  *)
(* channel, what the client gets of a container is as LineFeed says: where *)
(* a tail reads next follows what its tailer has handed on last, which     *)
(* follows what is before it in the channel, and that what was sent.       *)
(* PodMeta: for any set of containers, and any number of failing calls and *)
(* restarts, no update of meta.json is lost and the file is never half     *)
(* written.  LogView: for any workloads, indexes, pages and streamed       *)
(* lines, and whatever is clicked, what is shown is the log of what is     *)
(* selected.                                                               *)
(***************************************************************************)
EXTENDS LiveTail, PodMeta, LogView, FiniteSetTheorems, SequenceTheorems, TLAPS

\* Whoever is inside an update holds metaMu.
LockHeld == \A a \in Actors : upc[a] \in Holding => metaMu = a

\* What an update is about to write has its own fact and every noted one.
ValuesCurrent ==
    \A a \in Actors :
        /\ upc[a] \in {"mkdir", "create", "write", "rename"} => noted \cup {a} \subseteq val[a]
        /\ upc[a] = "rename" => tmpFile = "whole" /\ tmp = val[a]

MetaInv == LockHeld /\ ValuesCurrent /\ UpdatesKept /\ MetaWhole

-----------------------------------------------------------------------------
(* A pod's directory: typing. *)

\* Every step keeps the types.
LEMMA StepTyped == TypeOK /\ [MetaNext]_metaVars => TypeOK'
<1> SUFFICES ASSUME TypeOK, [MetaNext]_metaVars PROVE TypeOK'
  OBVIOUS
<1> USE DEF Holding, Files
<1>1. ASSUME PodAdded \/ SpawnStreams \/ PodDeleted PROVE TypeOK'
  <2>1. PodHandler \in Actors
    BY DEF Actors
  <2> QED BY <1>1, <2>1 DEF PodAdded, SpawnStreams, PodDeleted, TypeOK, fileVars, podVars,
             updateVars, guardVars, sweepVars, boundVars, historyVars
<1>2. ASSUME NEW c \in PodContainers, ContainerEnds(c) \/ StoreLine(c) \/ GuardDeletes(c)
      PROVE  TypeOK'
  <2>1. c \in Actors
    BY DEF Actors
  <2> QED BY <1>2, <2>1 DEF ContainerEnds, StoreLine, GuardDeletes, TypeOK, fileVars, podVars,
             updateVars, guardVars, sweepVars, boundVars, historyVars
<1>3. ASSUME NEW a \in Actors, Lock(a) \/ ReadMeta(a) \/ MkdirAll(a) PROVE TypeOK'
  BY <1>3 DEF Lock, ReadMeta, MkdirAll, TypeOK, fileVars, podVars,
     updateVars, guardVars, sweepVars, boundVars, historyVars
<1>4. ASSUME NEW a \in Actors, CreateTmp(a) \/ WriteTmp(a) \/ Rename(a) PROVE TypeOK'
  BY <1>4 DEF CreateTmp, WriteTmp, Rename, TypeOK, fileVars, podVars,
     updateVars, guardVars, sweepVars, boundVars, historyVars
<1>5. ASSUME NEW a \in Actors, CallFails(a) \/ DirGone(a) PROVE TypeOK'
  BY <1>5, PodMetaAssumption DEF CallFails, DirGone, Failed, TypeOK, fileVars, podVars,
     guardVars, sweepVars, historyVars
<1>6. ASSUME GuardContainer \/ GuardList \/ GuardMeta \/ GuardDir PROVE TypeOK'
  BY <1>6 DEF GuardContainer, GuardList, GuardMeta, GuardDir, RemoveMeta, RemoveDir, TypeOK,
     fileVars, podVars, updateVars, guardVars, sweepVars, boundVars, historyVars
<1>7. ASSUME NEW c \in PodContainers, SweepContainer(c) PROVE TypeOK'
  BY <1>7 DEF SweepContainer, TypeOK, podVars, updateVars, guardVars, boundVars, historyVars
<1>8. ASSUME SweepLook \/ SweepList \/ SweepMeta \/ SweepDir PROVE TypeOK'
  BY <1>8 DEF SweepLook, SweepList, SweepMeta, SweepDir, RemoveMeta, RemoveDir, TypeOK,
     fileVars, podVars, updateVars, guardVars, sweepVars, boundVars, historyVars
<1>9. ASSUME Crash PROVE TypeOK'
  BY <1>9, PodMetaAssumption DEF Crash, TypeOK, fileVars
<1>10. ASSUME UNCHANGED metaVars PROVE TypeOK'
  BY <1>10 DEF metaVars, TypeOK, fileVars, podVars, updateVars, guardVars, sweepVars, boundVars,
     historyVars
<1> QED BY <1>1, <1>2, <1>3, <1>4, <1>5, <1>6, <1>7, <1>8, <1>9, <1>10
        DEF MetaNext, UpdateStep, GuardStep, SweepStep

\* The variables hold what the files and Go's types allow.
THEOREM Typing == MetaSpec => []TypeOK
<1>1. MetaInit => TypeOK
  BY DEF MetaInit, TypeOK, Files, Holding
<1> QED BY <1>1, StepTyped, PTL DEF MetaSpec

-----------------------------------------------------------------------------
(* Its inductive invariant, one lemma per kind of step. *)

\* An update: only the holder of metaMu takes it.
LEMMA UpdateKeeps ==
    ASSUME TypeOK, MetaInv, NEW a \in Actors, UpdateStep(a)
    PROVE  MetaInv'
<1> USE DEF Holding
<1>1. ASSUME NEW b \in Actors, b # a PROVE upc'[b] = upc[b] /\ val'[b] = val[b]
  BY <1>1 DEF UpdateStep, Lock, ReadMeta, MkdirAll, CreateTmp, WriteTmp, Rename, CallFails,
     DirGone, Failed, TypeOK
<1>2. CASE Lock(a)
  BY <1>2, PodMetaAssumption DEF Lock, MetaInv, LockHeld, ValuesCurrent, UpdatesKept, MetaWhole,
     TypeOK, fileVars, historyVars
<1>3. CASE ~Lock(a)
  <2>1. metaMu = a /\ upc[a] \in Holding
    BY <1>3 DEF UpdateStep, ReadMeta, MkdirAll, CreateTmp, WriteTmp, Rename, CallFails, DirGone,
       MetaInv, LockHeld
  <2>2. ASSUME NEW b \in Actors, b # a PROVE upc'[b] \notin Holding
    BY <1>1, <2>1, <2>2 DEF MetaInv, LockHeld
  <2>3. CASE ReadMeta(a)
    <3>1. val'[a] = meta \cup {a} /\ noted' = noted /\ upc'[a] = "mkdir"
      BY <2>3 DEF ReadMeta, TypeOK, historyVars
    <3> QED BY <2>1, <2>2, <2>3, <3>1
            DEF ReadMeta, MetaInv, LockHeld, ValuesCurrent, UpdatesKept, MetaWhole, fileVars,
            historyVars
  <2>4. CASE MkdirAll(a) \/ CreateTmp(a) \/ WriteTmp(a)
    <3>1. upc'[a] \in {"create", "write", "rename"} /\ UNCHANGED <<val, noted, meta, metaFile, metaMu>>
      BY <2>4 DEF MkdirAll, CreateTmp, WriteTmp, historyVars, TypeOK
    <3>2. upc'[a] = "rename" => tmpFile' = "whole" /\ tmp' = val'[a]
      BY <2>4 DEF MkdirAll, CreateTmp, WriteTmp, TypeOK
    <3>3. noted \cup {a} \subseteq val[a]
      BY <2>4 DEF MkdirAll, CreateTmp, WriteTmp, MetaInv, ValuesCurrent
    <3> QED BY <2>1, <2>2, <3>1, <3>2, <3>3 DEF MetaInv, LockHeld, ValuesCurrent, UpdatesKept,
            MetaWhole
  <2>5. CASE Rename(a)
    <3>1. upc'[a] = "done" /\ meta' = tmp /\ metaFile' = "whole" /\ noted' = noted \cup {a}
          /\ noted \cup {a} \subseteq tmp
      BY <2>5 DEF Rename, MetaInv, ValuesCurrent, TypeOK
    <3> QED BY <2>2, <3>1 DEF MetaInv, LockHeld, ValuesCurrent, UpdatesKept, MetaWhole
  <2>6. CASE CallFails(a) \/ DirGone(a)
    <3>1. upc'[a] = "failed" /\ UNCHANGED <<meta, metaFile, noted>>
      BY <2>6 DEF CallFails, DirGone, Failed, TypeOK, fileVars, historyVars
    <3> QED BY <2>2, <3>1 DEF MetaInv, LockHeld, ValuesCurrent, UpdatesKept, MetaWhole
  <2> QED BY <1>3, <2>3, <2>4, <2>5, <2>6 DEF UpdateStep
<1> QED BY <1>2, <1>3

\* A removal: it does not touch what the updates keep for themselves, and
\* nothing is noted after it.
LEMMA RemovalKeeps ==
    ASSUME MetaInv, UNCHANGED <<updateVars, tmpFile, tmp>>,
           RemoveMeta \/ UNCHANGED <<metaFile, meta, noted>>
    PROVE  MetaInv'
BY DEF MetaInv, LockHeld, ValuesCurrent, UpdatesKept, MetaWhole, RemoveMeta, updateVars

\* Any other step of a goroutine moves it outside the updates.
LEMMA OutsideKeeps ==
    ASSUME MetaInv, UNCHANGED <<metaFile, meta, tmpFile, tmp, noted, metaMu, val>>,
           \A a \in Actors : upc'[a] = upc[a] \/ upc'[a] \notin Holding
    PROVE  MetaInv'
BY DEF MetaInv, LockHeld, ValuesCurrent, UpdatesKept, MetaWhole, Holding

\* Every step keeps it.
LEMMA MetaInvStep == TypeOK /\ MetaInv /\ [MetaNext]_metaVars => MetaInv'
<1> SUFFICES ASSUME TypeOK, MetaInv, [MetaNext]_metaVars PROVE MetaInv'
  OBVIOUS
<1>1. ASSUME \/ PodAdded \/ SpawnStreams \/ PodDeleted
             \/ \E c \in PodContainers : ContainerEnds(c) \/ StoreLine(c)
      PROVE  MetaInv'
  <2>1. UNCHANGED <<metaFile, meta, tmpFile, tmp, noted, metaMu, val>>
    BY <1>1 DEF PodAdded, SpawnStreams, PodDeleted, ContainerEnds, StoreLine, fileVars, updateVars,
       historyVars
  <2>2. \A a \in Actors : upc'[a] = upc[a] \/ upc'[a] \notin Holding
    BY <1>1 DEF PodAdded, SpawnStreams, PodDeleted, ContainerEnds, StoreLine, updateVars, Holding,
       TypeOK
  <2> QED BY <2>1, <2>2, OutsideKeeps
<1>2. ASSUME NEW a \in Actors, UpdateStep(a) PROVE MetaInv'
  BY <1>2, UpdateKeeps
<1>3. ASSUME (\E c \in PodContainers : GuardDeletes(c)) \/ GuardStep \/ SweepStep PROVE MetaInv'
  <2>1. UNCHANGED <<updateVars, tmpFile, tmp>> /\ (RemoveMeta \/ UNCHANGED <<metaFile, meta, noted>>)
    BY <1>3 DEF GuardDeletes, GuardStep, GuardContainer, GuardList, GuardMeta, GuardDir,
       SweepStep, SweepLook, SweepList, SweepContainer, SweepMeta, SweepDir, fileVars,
       historyVars
  <2> QED BY <2>1, RemovalKeeps
<1>4. ASSUME Crash PROVE MetaInv'
  BY <1>4 DEF Crash, MetaInv, LockHeld, ValuesCurrent, UpdatesKept, MetaWhole, Holding, fileVars
<1>5. ASSUME UNCHANGED metaVars PROVE MetaInv'
  BY <1>5, OutsideKeeps DEF metaVars, fileVars, updateVars, historyVars
<1> QED BY <1>1, <1>2, <1>3, <1>4, <1>5 DEF MetaNext

\* Whoever updates meta.json has it to itself, and writes no less than it says (layout.go).
THEOREM MetaInvariant == MetaSpec => []MetaInv
<1>1. MetaInit => MetaInv
  BY DEF MetaInit, MetaInv, LockHeld, ValuesCurrent, UpdatesKept, MetaWhole, Holding
<1> QED BY <1>1, Typing, MetaInvStep, PTL DEF MetaSpec

\* No owner or container name recorded in meta.json since it was last removed
\* is lost to a concurrent update, a failed write or a crash (layout.go:166-171).
THEOREM NoUpdateLost == MetaSpec => []UpdatesKept
BY MetaInvariant, PTL DEF MetaInv

\* meta.json is absent or whole at every moment, crashes included
\* (layout.go:150-164).
THEOREM NeverHalfWritten == MetaSpec => []MetaWhole
BY MetaInvariant, PTL DEF MetaInv

\* meta.json keeps what was recorded and can be read at every moment
\* (layout.go:150-171).
THEOREM MetaIsKept == MetaSpec => []MetaKept
<1>1. UpdatesKept /\ MetaWhole => MetaKept
  BY DEF MetaKept
<1> QED BY <1>1, NoUpdateLost, NeverHalfWritten, PTL

-----------------------------------------------------------------------------
(* The inductive invariant of the log view. *)

Shown       == Views \X {"page", "line"} \X Nat
Requests    == [of : Views, aborted : BOOLEAN]
LiveStreams == [of : Views, buffer : Seq(Shown), aborted : BOOLEAN]

ViewTyped ==
    /\ sel \in SUBSET Views /\ lines \in Seq(Shown) /\ prevPageToken \in 0..LastPage
    /\ loads \in SUBSET Requests /\ older \in SUBSET [of : Views, page : 1..LastPage]
    /\ streams \in SUBSET LiveStreams /\ sent \in Nat

\* At most one is selected.  What has not been aborted is of what is selected: requests
\* while it is not live, and then a stream.
RequestsInv ==
    /\ \A v, w \in sel : v = w
    /\ \A l \in loads : ~l.aborted => sel = {l.of} /\ ~liveEnabled
    /\ \A s \in streams : ~s.aborted => sel = {s.of} /\ liveEnabled
    /\ \A s, t \in streams : ~s.aborted /\ ~t.aborted => s = t

\* A buffer has lines of its stream in their order.
Buffered(s) ==
    /\ \A i \in 1..Len(s.buffer) :
          s.buffer[i][1] = s.of /\ s.buffer[i][2] = "line" /\ s.buffer[i][3] <= sent
    /\ \A i, j \in 1..Len(s.buffer) : i < j => s.buffer[i][3] < s.buffer[j][3]

\* A stream that has not been aborted has newer ones than those shown.
Newer(s) ==
    ~s.aborted /\ ~strayed =>
        \A i \in 1..Len(lines), j \in 1..Len(s.buffer) :
            lines[i][2] = "line" => lines[i][3] < s.buffer[j][3]

BuffersInv ==
    /\ \A i \in 1..Len(lines) : lines[i][2] = "line" => lines[i][3] <= sent
    /\ \A s \in streams : Buffered(s) /\ Newer(s)

ViewInv == ViewTyped /\ RequestsInv /\ BuffersInv /\ ShownIsSelected

-----------------------------------------------------------------------------
(* The log view. *)

\* What Aborted makes of requests or streams.
LEMMA AbortedAre ==
    ASSUME NEW T, NEW S \in SUBSET T,
           \A r \in T : [r EXCEPT !.aborted = TRUE] \in T /\ [r EXCEPT !.aborted = TRUE].aborted
    PROVE  Aborted(S) \in SUBSET T /\ \A r \in Aborted(S) : r.aborted
BY DEF Aborted

\* So for requests, ...
LEMMA AbortedRequests ==
    ASSUME NEW S \in SUBSET Requests
    PROVE  Aborted(S) \in SUBSET Requests /\ \A r \in Aborted(S) : r.aborted
<1>1. \A r \in Requests :
          [r EXCEPT !.aborted = TRUE] \in Requests /\ [r EXCEPT !.aborted = TRUE].aborted
  BY DEF Requests
<1> QED BY <1>1, AbortedAre

\* New requests are not aborted yet.
LEMMA LoadsAre ==
    ASSUME NEW S \in SUBSET Requests, NEW new \in SUBSET Views
    PROVE  S \cup {[of |-> v, aborted |-> FALSE] : v \in new} \in SUBSET Requests
<1>1. \A v \in Views : [of |-> v, aborted |-> FALSE] \in Requests
  BY DEF Requests
<1> QED BY <1>1

\* ... and for streams, whose buffers stay.
LEMMA AbortedStreams ==
    ASSUME NEW S \in SUBSET LiveStreams
    PROVE  /\ Aborted(S) \in SUBSET LiveStreams /\ \A r \in Aborted(S) : r.aborted
           /\ \A r \in Aborted(S) : \E s \in S : r.of = s.of /\ r.buffer = s.buffer
<1>1. \A r \in LiveStreams :
          [r EXCEPT !.aborted = TRUE] \in LiveStreams /\ [r EXCEPT !.aborted = TRUE].aborted
  BY DEF LiveStreams
<1>2. \A r \in LiveStreams :
          /\ [r EXCEPT !.aborted = TRUE].of = r.of
          /\ [r EXCEPT !.aborted = TRUE].buffer = r.buffer
  BY DEF LiveStreams
<1> QED BY <1>1, <1>2, AbortedAre DEF Aborted

\* What is shown, with the number of its pages.
ShownWith(p, L, of, token) ==
    /\ \A i \in 1..Len(L) : of = {L[i][1]}
    /\ \A i \in 1..p : L[i][2] = "page" /\ L[i][3] = token + i
    /\ \A i \in p + 1..Len(L) : L[i][2] = "line" /\ (i > p + 1 => L[i - 1][3] < L[i][3])
    /\ p = 0 => token = 0
    /\ p > 0 => token + p = Newest(L[1][1])

\* The property in these terms.
LEMMA ShownMeans ==
    ShownIsSelected <=>
        (strayed \/ \E p \in 0..Len(lines) : ShownWith(p, lines, sel, prevPageToken))
BY DEF ShownIsSelected, ShownWith

\* And after a step.
LEMMA ShownNext ==
    (ShownIsSelected <=>
        (strayed \/ \E p \in 0..Len(lines) : ShownWith(p, lines, sel, prevPageToken)))'
BY ShownMeans, PTL

\* Lines of a buffer are added.
LEMMA LinesAdded ==
    ASSUME ViewInv, ~strayed, NEW s \in streams, ~s.aborted
    PROVE  /\ lines \o s.buffer \in Seq(Shown)
           /\ \E p \in 0..Len(lines \o s.buffer) :
                 ShownWith(p, lines \o s.buffer, sel, prevPageToken)
<1> PICK b : b = s.buffer
  OBVIOUS
<1> PICK L : L = lines \o b
  OBVIOUS
<1>1. b \in Seq(Shown) /\ lines \in Seq(Shown) /\ sel = {s.of}
  BY DEF ViewInv, ViewTyped, LiveStreams, RequestsInv
<1>2. /\ L \in Seq(Shown) /\ Len(L) = Len(lines) + Len(b) /\ Len(lines) \in Nat /\ Len(b) \in Nat
      /\ \A i \in 1..Len(lines) : L[i] = lines[i]
      /\ \A i \in 1..Len(b) : L[Len(lines) + i] = b[i]
  BY <1>1, ConcatProperties, LenProperties
<1>3. PICK p \in 0..Len(lines) : ShownWith(p, lines, sel, prevPageToken)
  BY ShownMeans DEF ViewInv
<1>4. /\ \A i \in 1..Len(b) : b[i][1] = s.of /\ b[i][2] = "line"
      /\ \A i, j \in 1..Len(b) : i < j => b[i][3] < b[j][3]
      /\ \A i \in 1..Len(lines), j \in 1..Len(b) : lines[i][2] = "line" => lines[i][3] < b[j][3]
  BY DEF ViewInv, BuffersInv, Buffered, Newer
<1>5. ASSUME NEW i \in 1..Len(L) PROVE sel = {L[i][1]}
  <2>1. CASE i \in 1..Len(lines)
    BY <1>2, <1>3, <2>1 DEF ShownWith
  <2>2. CASE i \notin 1..Len(lines)
    <3>1. i - Len(lines) \in 1..Len(b) /\ L[i] = b[i - Len(lines)]
      BY <1>2, <2>2
    <3> QED BY <1>1, <1>4, <3>1
  <2> QED BY <2>1, <2>2
<1>6. ASSUME NEW i \in 1..p PROVE L[i][2] = "page" /\ L[i][3] = prevPageToken + i
  BY <1>2, <1>3 DEF ShownWith
<1>7. ASSUME NEW i \in p + 1..Len(L)
      PROVE  L[i][2] = "line" /\ (i > p + 1 => L[i - 1][3] < L[i][3])
  <2>1. CASE i \in 1..Len(lines)
    <3>1. i \in p + 1..Len(lines)
      BY <2>1
    <3>2. lines[i][2] = "line" /\ (i > p + 1 => lines[i - 1][3] < lines[i][3])
      BY <1>3, <3>1 DEF ShownWith
    <3>3. i > p + 1 => i - 1 \in 1..Len(lines)
      BY <2>1
    <3> QED BY <1>2, <2>1, <3>2, <3>3
  <2>2. CASE i \notin 1..Len(lines)
    <3>1. i - Len(lines) \in 1..Len(b) /\ L[i] = b[i - Len(lines)]
      BY <1>2, <2>2
    <3>2. ASSUME i > p + 1 PROVE L[i - 1][3] < L[i][3]
      <4>1. CASE i - Len(lines) = 1
        <5>1. i - 1 = Len(lines) /\ i - 1 \in 1..Len(lines) /\ i - 1 \in p + 1..Len(lines)
          BY <1>2, <3>2, <4>1
        <5>2. lines[i - 1][2] = "line" /\ L[i - 1] = lines[i - 1]
          BY <1>2, <1>3, <5>1 DEF ShownWith
        <5> QED BY <1>4, <3>1, <5>1, <5>2
      <4>2. CASE i - Len(lines) # 1
        <5>1. i - 1 - Len(lines) \in 1..Len(b) /\ i - 1 - Len(lines) < i - Len(lines)
          <6>1. i \in Int /\ Len(lines) \in Int /\ Len(b) \in Int
            BY <1>2
          <6>2. i - Len(lines) \in 1..Len(b)
            BY <3>1
          <6> QED BY <4>2, <6>1, <6>2
        <5>2. L[i - 1] = b[i - 1 - Len(lines)]
          BY <1>2, <5>1
        <5> QED BY <1>4, <3>1, <5>1, <5>2
      <4> QED BY <4>1, <4>2
    <3> QED BY <1>4, <3>1, <3>2
  <2> QED BY <2>1, <2>2
<1>8. p > 0 => L[1] = lines[1]
  BY <1>2
<1>9. ShownWith(p, L, sel, prevPageToken)
  BY <1>3, <1>5, <1>6, <1>7, <1>8 DEF ShownWith
<1> QED BY <1>2, <1>9

\* A new selection: nothing is shown, and what was asked for is aborted.
LEMMA ResetKeeps ==
    ASSUME ViewInv, NEW new \in SUBSET Views, \A v, w \in new : v = w, Reset(new)
    PROVE  ViewInv'
<1>1. /\ sel' = new /\ lines' = <<>> /\ prevPageToken' = 0 /\ ~strayed' /\ ~liveEnabled'
      /\ loads' = Aborted(loads) \cup {[of |-> v, aborted |-> FALSE] : v \in new}
      /\ streams' = Aborted(streams) /\ older' = older /\ sent' = sent
  BY DEF Reset, Load
<1>2. /\ Aborted(loads) \in SUBSET Requests /\ \A r \in Aborted(loads) : r.aborted
      /\ Aborted(streams) \in SUBSET LiveStreams /\ \A r \in Aborted(streams) : r.aborted
      /\ \A r \in Aborted(streams) : \E s \in streams : r.of = s.of /\ r.buffer = s.buffer
  BY AbortedRequests, AbortedStreams DEF ViewInv, ViewTyped
<1>3. ViewTyped'
  <2>1. 0 \in 0..LastPage /\ <<>> \in Seq(Shown)
    BY ViewAssumption
  <2>2. loads' \in SUBSET Requests
    BY <1>1, <1>2, LoadsAre
  <2> QED BY <1>1, <1>2, <2>1, <2>2 DEF ViewInv, ViewTyped
<1>4. RequestsInv'
  <2>1. ASSUME NEW l \in loads', ~l.aborted PROVE sel' = {l.of}
    <3>1. PICK v \in new : l = [of |-> v, aborted |-> FALSE]
      BY <1>1, <1>2, <2>1
    <3> QED BY <1>1, <3>1
  <2> QED BY <1>1, <1>2, <2>1 DEF RequestsInv
<1>5. BuffersInv'
  <2>1. Len(lines') = 0
    BY <1>1
  <2>2. ASSUME NEW r \in streams' PROVE Buffered(r)' /\ Newer(r)'
    <3>1. PICK s \in streams : r.of = s.of /\ r.buffer = s.buffer
      BY <1>1, <1>2
    <3> QED BY <1>1, <1>2, <3>1, SMTT(30) DEF ViewInv, BuffersInv, Buffered, Newer
  <2> QED BY <2>1, <2>2 DEF BuffersInv
<1>6. ShownIsSelected'
  BY <1>1 DEF ShownIsSelected
<1> QED BY <1>3, <1>4, <1>5, <1>6 DEF ViewInv

\* The user goes live: the requests are aborted, and there is one stream.
LEMMA GoLiveKeeps ==
    ASSUME ViewInv, GoLive
    PROVE  ViewInv'
<1>1. /\ UNCHANGED <<sel, lines, prevPageToken, older, sent, strayed>>
      /\ ~liveEnabled /\ liveEnabled' /\ loads' = Aborted(loads)
      /\ streams' = streams \cup {[of |-> v, buffer |-> <<>>, aborted |-> FALSE] : v \in sel}
  BY DEF GoLive
<1>2. Aborted(loads) \in SUBSET Requests /\ \A r \in Aborted(loads) : r.aborted
  BY AbortedRequests DEF ViewInv, ViewTyped
<1>3. \A s \in streams : s.aborted
  BY <1>1 DEF ViewInv, RequestsInv
<1>4. \A s \in streams' : \/ s \in streams
                          \/ \E v \in sel : s = [of |-> v, buffer |-> <<>>, aborted |-> FALSE]
  BY <1>1
<1>5. ViewTyped'
  <2>1. ASSUME NEW v \in sel PROVE [of |-> v, buffer |-> <<>>, aborted |-> FALSE] \in LiveStreams
    BY DEF LiveStreams, ViewInv, ViewTyped
  <2>2. streams' \in SUBSET LiveStreams
    BY <1>4, <2>1 DEF ViewInv, ViewTyped
  <2> QED BY <1>1, <1>2, <2>2 DEF ViewInv, ViewTyped
<1>6. RequestsInv'
  <2>1. \A v, w \in sel : v = w
    BY DEF ViewInv, RequestsInv
  <2>2. ASSUME NEW s \in streams', ~s.aborted
        PROVE  \E v \in sel : s = [of |-> v, buffer |-> <<>>, aborted |-> FALSE]
    BY <1>3, <1>4, <2>2
  <2>3. ASSUME NEW s \in streams', ~s.aborted PROVE sel = {s.of}
    <3>1. PICK v \in sel : s = [of |-> v, buffer |-> <<>>, aborted |-> FALSE]
      BY <2>2, <2>3
    <3>2. s.of = v
      BY <3>1
    <3> QED BY <2>1, <3>2
  <2>4. ASSUME NEW s \in streams', NEW t \in streams', ~s.aborted, ~t.aborted PROVE s = t
    <3>1. PICK v \in sel : s = [of |-> v, buffer |-> <<>>, aborted |-> FALSE]
      BY <2>2, <2>4
    <3>2. PICK w \in sel : t = [of |-> w, buffer |-> <<>>, aborted |-> FALSE]
      BY <2>2, <2>4
    <3>3. v = w
      BY <2>1
    <3> QED BY <3>1, <3>2, <3>3, Zenon
  <2> QED BY <1>1, <1>2, <2>1, <2>3, <2>4 DEF RequestsInv
<1>7. BuffersInv'
  <2>1. ASSUME NEW s \in streams' PROVE Buffered(s)' /\ Newer(s)'
    <3>1. CASE s \in streams
      BY <1>1, <3>1 DEF ViewInv, BuffersInv, Buffered, Newer
    <3>2. CASE \E v \in sel : s = [of |-> v, buffer |-> <<>>, aborted |-> FALSE]
      <4>1. Len(s.buffer) = 0
        BY <3>2
      <4> QED BY <4>1 DEF Buffered, Newer
    <3> QED BY <1>4, <3>1, <3>2
  <2> QED BY <1>1, <2>1 DEF ViewInv, BuffersInv
<1>8. ShownIsSelected'
  BY <1>1 DEF ViewInv, ShownIsSelected
<1> QED BY <1>5, <1>6, <1>7, <1>8 DEF ViewInv

\* The stream is aborted, and a page is asked for.
LEMMA RemountKeeps ==
    ASSUME ViewInv, Remount
    PROVE  ViewInv'
<1>1. /\ UNCHANGED <<sel, lines, prevPageToken, older, sent, strayed>>
      /\ ~liveEnabled' /\ streams' = Aborted(streams)
      /\ loads' = Aborted(loads) \cup {[of |-> v, aborted |-> FALSE] : v \in sel}
  BY DEF Remount, Load
<1>2. /\ Aborted(loads) \in SUBSET Requests /\ \A r \in Aborted(loads) : r.aborted
      /\ Aborted(streams) \in SUBSET LiveStreams /\ \A r \in Aborted(streams) : r.aborted
      /\ \A r \in Aborted(streams) : \E s \in streams : r.of = s.of /\ r.buffer = s.buffer
  BY AbortedRequests, AbortedStreams DEF ViewInv, ViewTyped
<1>3. ViewTyped'
  <2>1. sel \in SUBSET Views
    BY DEF ViewInv, ViewTyped
  <2>2. loads' \in SUBSET Requests
    BY <1>1, <1>2, <2>1, LoadsAre
  <2> QED BY <1>1, <1>2, <2>2 DEF ViewInv, ViewTyped
<1>4. RequestsInv'
  <2>1. ASSUME NEW l \in loads', ~l.aborted PROVE sel' = {l.of}
    <3>1. PICK v \in sel : l = [of |-> v, aborted |-> FALSE]
      BY <1>1, <1>2, <2>1
    <3>2. sel = {v}
      BY DEF ViewInv, RequestsInv
    <3> QED BY <1>1, <3>1, <3>2
  <2> QED BY <1>1, <1>2, <2>1 DEF ViewInv, RequestsInv
<1>5. BuffersInv'
  <2>1. ASSUME NEW r \in streams' PROVE Buffered(r)' /\ Newer(r)'
    <3>1. PICK s \in streams : r.of = s.of /\ r.buffer = s.buffer
      BY <1>1, <1>2
    <3> QED BY <1>1, <1>2, <3>1 DEF ViewInv, BuffersInv, Buffered, Newer
  <2> QED BY <1>1, <2>1 DEF ViewInv, BuffersInv
<1>6. ShownIsSelected'
  BY <1>1 DEF ViewInv, ShownIsSelected
<1> QED BY <1>3, <1>4, <1>5, <1>6 DEF ViewInv

\* What is shown is replaced: by a page of what is selected, or by nothing.
LEMMA ReplacedKeeps ==
    ASSUME ViewInv, NEW l \in loads, loads' = loads \ {l},
           UNCHANGED <<sel, liveEnabled, older, streams, sent>>, ~strayed',
           \/ ~l.aborted /\ lines' = <<Page(l.of, Newest(l.of))>> /\ prevPageToken' = Newest(l.of) - 1
           \/ lines' = <<>> /\ prevPageToken' = 0
    PROVE  ViewInv'
<1>1. LastPage \in Nat \ {0, 1} /\ l.of \in Views
  BY ViewAssumption DEF ViewInv, ViewTyped, Requests
<1>2. Newest(l.of) \in 1..LastPage
  BY <1>1 DEF Newest
<1>3. ViewTyped'
  <2>1. Page(l.of, Newest(l.of)) \in Shown
    BY <1>1, <1>2 DEF Page, Shown
  <2>2. <<Page(l.of, Newest(l.of))>> \in Seq(Shown) /\ <<>> \in Seq(Shown)
    BY <2>1
  <2>3. Newest(l.of) - 1 \in 0..LastPage /\ 0 \in 0..LastPage
    BY <1>1, <1>2
  <2> QED BY <2>2, <2>3 DEF ViewInv, ViewTyped
<1>4. RequestsInv'
  BY DEF ViewInv, RequestsInv
<1>5. \A i \in 1..Len(lines') : lines'[i][2] = "page"
  BY DEF Page
<1>6. BuffersInv'
  <2>1. \A i \in 1..Len(lines') : lines'[i][2] # "line"
    BY <1>5
  <2>2. ASSUME NEW s \in streams' PROVE Buffered(s)' /\ Newer(s)'
    BY <2>1 DEF ViewInv, BuffersInv, Buffered, Newer
  <2> QED BY <2>1, <2>2 DEF BuffersInv
<1>7. ShownIsSelected'
  <2>1. CASE lines' = <<>> /\ prevPageToken' = 0
    BY <2>1 DEF ShownIsSelected
  <2>2. CASE ~l.aborted /\ lines' = <<Page(l.of, Newest(l.of))>> /\ prevPageToken' = Newest(l.of) - 1
    <3>1. sel' = {l.of}
      BY <2>2 DEF ViewInv, RequestsInv
    <3>2. Len(lines') = 1 /\ lines'[1] = <<l.of, "page", Newest(l.of)>>
      BY <2>2 DEF Page
    <3>3. Newest(l.of) \in Int
      BY <1>1, <1>2
    <3>4. ShownWith(1, lines', sel', prevPageToken')
      BY <2>2, <3>1, <3>2, <3>3 DEF ShownWith
    <3>5. 1 \in 0..Len(lines')
      BY <3>2
    <3> QED BY <3>4, <3>5, ShownNext
  <2> QED BY <2>1, <2>2
<1> QED BY <1>3, <1>4, <1>6, <1>7 DEF ViewInv

\* A request is over, and changes nothing that is shown.
LEMMA RequestEnds ==
    ASSUME ViewInv, NEW l \in loads, loads' = loads \ {l},
           UNCHANGED <<sel, liveEnabled, older, streams, sent, strayed, lines, prevPageToken>>
    PROVE  ViewInv'
<1>1. ViewTyped'
  BY DEF ViewInv, ViewTyped
<1>2. RequestsInv'
  BY DEF ViewInv, RequestsInv
<1>3. BuffersInv'
  BY DEF ViewInv, BuffersInv, Buffered, Newer
<1>4. ShownIsSelected'
  BY DEF ViewInv, ShownIsSelected
<1> QED BY <1>1, <1>2, <1>3, <1>4 DEF ViewInv

\* An older page comes: above what is shown, if that is what it was asked for.
LEMMA OlderKeeps ==
    ASSUME ViewInv, NEW o \in older, OlderLoaded(o)
    PROVE  ViewInv'
<1> PICK L : L = <<Page(o.of, o.page)>> \o lines
  OBVIOUS
<1>1. /\ UNCHANGED <<sel, liveEnabled, loads, streams, sent>> /\ older' = {}
      /\ lines' = L /\ prevPageToken' = o.page - 1
      /\ strayed' = (strayed \/ sel # {o.of} \/ prevPageToken # o.page)
  BY DEF OlderLoaded
<1>2. /\ LastPage \in Nat /\ o.of \in Views /\ o.page \in 1..LastPage
      /\ lines \in Seq(Shown) /\ prevPageToken \in 0..LastPage
  BY ViewAssumption DEF ViewInv, ViewTyped
<1>3. /\ L \in Seq(Shown) /\ Len(L) = Len(lines) + 1 /\ Len(lines) \in Nat
      /\ L[1] = <<o.of, "page", o.page>>
      /\ \A i \in 1..Len(lines) : L[i + 1] = lines[i]
  <2>1. Page(o.of, o.page) = <<o.of, "page", o.page>> /\ Page(o.of, o.page) \in Shown
    BY <1>2 DEF Page, Shown
  <2>2. <<Page(o.of, o.page)>> \in Seq(Shown) /\ Len(<<Page(o.of, o.page)>>) = 1
    BY <2>1
  <2> QED BY <1>2, <2>1, <2>2, ConcatProperties, LenProperties
<1>4. ViewTyped'
  <2>1. o.page - 1 \in 0..LastPage
    BY <1>2
  <2> QED BY <1>1, <1>3, <2>1 DEF ViewInv, ViewTyped
<1>5. RequestsInv'
  BY <1>1 DEF ViewInv, RequestsInv
<1>6. ASSUME NEW i \in 1..Len(L), L[i][2] = "line"
      PROVE  i - 1 \in 1..Len(lines) /\ L[i] = lines[i - 1]
  BY <1>3, <1>6
<1>7. BuffersInv'
  <2>1. \A i \in 1..Len(L) : L[i][2] = "line" => L[i][3] <= sent
    BY <1>6 DEF ViewInv, BuffersInv
  <2>2. ASSUME NEW s \in streams PROVE Buffered(s)' /\ Newer(s)'
    <3>1. Buffered(s)'
      BY <1>1 DEF ViewInv, BuffersInv, Buffered
    <3>2. ASSUME ~s.aborted, ~strayed', NEW i \in 1..Len(L), NEW j \in 1..Len(s.buffer), L[i][2] = "line"
          PROVE  L[i][3] < s.buffer[j][3]
      <4>1. i - 1 \in 1..Len(lines) /\ L[i] = lines[i - 1]
        BY <1>6, <3>2
      <4>2. ~strayed
        BY <1>1, <3>2
      <4> QED BY <3>2, <4>1, <4>2 DEF ViewInv, BuffersInv, Newer
    <3> QED BY <1>1, <3>1, <3>2 DEF Newer
  <2> QED BY <1>1, <2>1, <2>2 DEF BuffersInv
<1>8. ShownIsSelected'
  <2> SUFFICES ASSUME ~strayed' PROVE \E p \in 0..Len(lines') : ShownWith(p, lines', sel', prevPageToken')
    BY ShownNext
  <2>1. ~strayed /\ sel = {o.of} /\ prevPageToken = o.page
    BY <1>1
  <2>2. PICK p \in 0..Len(lines) : ShownWith(p, lines, sel, prevPageToken)
    BY <2>1, ShownMeans DEF ViewInv
  <2>3. p \in 1..Len(lines)
    BY <1>2, <2>1, <2>2 DEF ShownWith
  <2>4. ASSUME NEW i \in 1..Len(L) PROVE sel = {L[i][1]}
    <3>1. CASE i = 1
      BY <1>3, <2>1, <3>1
    <3>2. CASE i # 1
      <4>1. i - 1 \in 1..Len(lines) /\ L[i] = lines[i - 1]
        BY <1>3, <3>2
      <4> QED BY <2>2, <4>1 DEF ShownWith
    <3> QED BY <3>1, <3>2
  <2>5. ASSUME NEW i \in 1..p + 1 PROVE L[i][2] = "page" /\ L[i][3] = o.page - 1 + i
    <3>1. CASE i = 1
      BY <1>2, <1>3, <3>1
    <3>2. CASE i # 1
      <4>1. i - 1 \in 1..p /\ i - 1 \in 1..Len(lines) /\ i = (i - 1) + 1
        BY <2>3, <3>2
      <4>2. L[i] = lines[i - 1]
        BY <1>3, <4>1
      <4>3. lines[i - 1][2] = "page" /\ lines[i - 1][3] = prevPageToken + (i - 1)
        BY <2>2, <4>1 DEF ShownWith
      <4>4. o.page \in Int /\ i \in Int
        BY <1>2
      <4>5. L[i][2] = "page" /\ L[i][3] = o.page + (i - 1)
        BY <2>1, <4>2, <4>3
      <4> QED BY <4>4, <4>5
    <3> QED BY <3>1, <3>2
  <2>6. ASSUME NEW i \in (p + 1) + 1..Len(L)
        PROVE  L[i][2] = "line" /\ (i > (p + 1) + 1 => L[i - 1][3] < L[i][3])
    <3>1. i - 1 \in p + 1..Len(lines) /\ i - 1 \in 1..Len(lines) /\ i = (i - 1) + 1
      BY <1>3, <2>3
    <3>2. L[i] = lines[i - 1]
      BY <1>3, <3>1
    <3>3. lines[i - 1][2] = "line" /\ (i - 1 > p + 1 => lines[i - 1 - 1][3] < lines[i - 1][3])
      BY <2>2, <3>1 DEF ShownWith
    <3>4. ASSUME i > (p + 1) + 1 PROVE i - 1 > p + 1 /\ L[i - 1] = lines[i - 1 - 1]
      <4>1. i - 1 - 1 \in 1..Len(lines) /\ i - 1 = (i - 1 - 1) + 1 /\ i - 1 > p + 1
        BY <1>3, <2>3, <3>4
      <4> QED BY <1>3, <4>1
    <3> QED BY <3>2, <3>3, <3>4
  <2>7. (o.page - 1) + (p + 1) = Newest(L[1][1])
    <3>1. prevPageToken + p = Newest(lines[1][1]) /\ sel = {lines[1][1]}
      BY <2>2, <2>3 DEF ShownWith
    <3>2. L[1][1] = lines[1][1]
      <4>1. L[1][1] = o.of
        BY <1>3
      <4>2. lines[1][1] \in sel
        BY <3>1
      <4> QED BY <2>1, <4>1, <4>2
    <3> QED BY <1>2, <2>1, <2>3, <3>1, <3>2
  <2>8. p + 1 \in 0..Len(L) /\ p + 1 # 0
    BY <1>3, <2>3
  <2>9. ShownWith(p + 1, L, sel, o.page - 1)
    BY <2>4, <2>5, <2>6, <2>7, <2>8 DEF ShownWith
  <2> QED BY <1>1, <2>8, <2>9
<1> QED BY <1>4, <1>5, <1>7, <1>8 DEF ViewInv

\* A streamed line is buffered: the newest of all.
LEMMA LineKeeps ==
    ASSUME ViewInv, NEW s \in streams, LineArrives(s)
    PROVE  ViewInv'
<1> PICK n : n = sent + 1
  OBVIOUS
<1> PICK b : b = Append(s.buffer, <<s.of, "line", n>>)
  OBVIOUS
<1> PICK t : t = [s EXCEPT !.buffer = b]
  OBVIOUS
<1>1. /\ UNCHANGED <<sel, lines, prevPageToken, liveEnabled, loads, older, strayed>>
      /\ ~s.aborted /\ sent' = n /\ streams' = (streams \ {s}) \cup {t}
  BY DEF LineArrives
<1>2. s \in LiveStreams /\ sent \in Nat /\ n \in Nat
  BY DEF ViewInv, ViewTyped
<1>3. s.of \in Views /\ s.buffer \in Seq(Shown) /\ <<s.of, "line", n>> \in Shown
  BY <1>2 DEF LiveStreams, Shown
<1>4. /\ b \in Seq(Shown) /\ Len(s.buffer) \in Nat /\ Len(b) = Len(s.buffer) + 1
      /\ b[Len(s.buffer) + 1] = <<s.of, "line", n>>
      /\ \A i \in 1..Len(s.buffer) : b[i] = s.buffer[i]
  BY <1>3, AppendProperties, LenProperties
<1>5. t \in LiveStreams /\ t.of = s.of /\ t.buffer = b /\ t.aborted = s.aborted
  BY <1>2, <1>4 DEF LiveStreams
<1>6. ViewTyped'
  BY <1>1, <1>2, <1>5 DEF ViewInv, ViewTyped
<1>7. RequestsInv'
  <2>1. \A r \in streams' : ~r.aborted => r = t
    BY <1>1 DEF ViewInv, RequestsInv
  <2>2. sel = {t.of} /\ liveEnabled
    BY <1>1, <1>5 DEF ViewInv, RequestsInv
  <2> QED BY <1>1, <2>1, <2>2 DEF ViewInv, RequestsInv
<1>8. BuffersInv'
  <2>1. \A i \in 1..Len(lines) : lines[i][2] = "line" => lines[i][3] <= sent /\ lines[i] \in Shown
    BY DEF ViewInv, BuffersInv, ViewTyped
  <2>2. \A i \in 1..Len(lines) : lines[i][2] = "line" => lines[i][3] < n
    BY <1>2, <2>1 DEF Shown
  <2>3. ASSUME NEW r \in streams \ {s} PROVE Buffered(r)' /\ Newer(r)'
    <3>1. Buffered(r) /\ r.aborted /\ r.buffer \in Seq(Shown)
      BY <1>1 DEF ViewInv, BuffersInv, RequestsInv, ViewTyped, LiveStreams
    <3>2. \A i \in 1..Len(r.buffer) : r.buffer[i][3] <= n
      <4>1. \A i \in 1..Len(r.buffer) : r.buffer[i] \in Shown /\ r.buffer[i][3] <= sent
        BY <3>1 DEF Buffered
      <4> QED BY <1>2, <4>1 DEF Shown
    <3> QED BY <1>1, <3>1, <3>2 DEF Buffered, Newer
  <2>4. \A i \in 1..Len(s.buffer) :
            /\ s.buffer[i] \in Shown /\ s.buffer[i][1] = s.of /\ s.buffer[i][2] = "line"
            /\ s.buffer[i][3] <= sent
    BY <1>3 DEF ViewInv, BuffersInv, Buffered
  <2>5. \A i \in 1..Len(s.buffer) : s.buffer[i][3] < n
    BY <1>2, <2>4 DEF Shown
  <2>6. \A i \in 1..Len(b) : b[i][1] = s.of /\ b[i][2] = "line" /\ b[i][3] <= n
    <3> SUFFICES ASSUME NEW i \in 1..Len(b) PROVE b[i][1] = s.of /\ b[i][2] = "line" /\ b[i][3] <= n
      OBVIOUS
    <3>1. CASE i \in 1..Len(s.buffer)
      <4>1. s.buffer[i][3] \in Nat /\ s.buffer[i][3] < n /\ b[i] = s.buffer[i]
        BY <1>4, <2>4, <2>5, <3>1 DEF Shown
      <4> QED BY <1>2, <2>4, <3>1, <4>1
    <3>2. CASE i \notin 1..Len(s.buffer)
      <4>1. i = Len(s.buffer) + 1
        BY <1>4, <3>2
      <4> QED BY <1>2, <1>4, <4>1
    <3> QED BY <3>1, <3>2
  <2>7. ASSUME NEW i \in 1..Len(b), NEW j \in 1..Len(b), i < j PROVE b[i][3] < b[j][3]
    <3>1. i \in 1..Len(s.buffer) /\ b[i] = s.buffer[i]
      BY <1>4, <2>7
    <3>2. CASE j \in 1..Len(s.buffer)
      BY <1>4, <2>7, <3>1, <3>2 DEF ViewInv, BuffersInv, Buffered
    <3>3. CASE j \notin 1..Len(s.buffer)
      <4>1. j = Len(s.buffer) + 1
        BY <1>4, <3>3
      <4> QED BY <1>4, <2>5, <3>1, <4>1
    <3> QED BY <3>2, <3>3
  <2>8. Buffered(t)'
    BY <1>1, <1>5, <2>6, <2>7, SMTT(30) DEF Buffered
  <2>9. ASSUME ~strayed, NEW i \in 1..Len(lines), NEW j \in 1..Len(b), lines[i][2] = "line"
        PROVE  lines[i][3] < b[j][3]
    <3>1. CASE j \in 1..Len(s.buffer)
      BY <1>1, <1>4, <2>9, <3>1 DEF ViewInv, BuffersInv, Newer
    <3>2. CASE j \notin 1..Len(s.buffer)
      <4>1. j = Len(s.buffer) + 1
        BY <1>4, <3>2
      <4> QED BY <1>4, <2>2, <2>9, <4>1
    <3> QED BY <3>1, <3>2
  <2>10. Newer(t)'
    BY <1>1, <1>5, <2>9 DEF Newer
  <2>11. \A i \in 1..Len(lines') : lines'[i][2] = "line" => lines'[i][3] <= sent'
    <3>1. \A i \in 1..Len(lines) : lines[i][2] = "line" => lines[i][3] <= n
      BY <1>2, <2>1 DEF Shown
    <3> QED BY <1>1, <3>1
  <2> QED BY <1>1, <2>3, <2>8, <2>10, <2>11 DEF BuffersInv
<1>9. ShownIsSelected'
  BY <1>1 DEF ViewInv, ShownIsSelected
<1> QED BY <1>6, <1>7, <1>8, <1>9 DEF ViewInv

\* Buffered lines are shown, on a frame or at the end of their stream.
LEMMA FlushKeeps ==
    ASSUME ViewInv, NEW s \in streams,
           UNCHANGED <<sel, prevPageToken, liveEnabled, loads, older, sent>>,
           lines' = lines \o s.buffer, strayed' <=> (strayed \/ (s.aborted /\ s.buffer # <<>>)),
           \/ streams' = streams \ {s}
           \/ streams' = (streams \ {s}) \cup {[s EXCEPT !.buffer = <<>>]}
    PROVE  ViewInv'
<1> PICK L : L = lines \o s.buffer
  OBVIOUS
<1> PICK t : t = [s EXCEPT !.buffer = <<>>]
  OBVIOUS
<1>1. s \in LiveStreams /\ s.buffer \in Seq(Shown) /\ lines \in Seq(Shown)
  BY DEF ViewInv, ViewTyped, LiveStreams
<1>2. /\ L \in Seq(Shown) /\ Len(L) = Len(lines) + Len(s.buffer)
      /\ Len(lines) \in Nat /\ Len(s.buffer) \in Nat
      /\ \A i \in 1..Len(lines) : L[i] = lines[i]
      /\ \A i \in 1..Len(s.buffer) : L[Len(lines) + i] = s.buffer[i]
  BY <1>1, ConcatProperties, LenProperties
<1>3. t \in LiveStreams /\ t.of = s.of /\ t.buffer = <<>> /\ t.aborted = s.aborted
  <2>1. <<>> \in Seq(Shown)
    OBVIOUS
  <2> QED BY <1>1, <2>1 DEF LiveStreams
<1>4. \A r \in streams' : r \in streams \ {s} \/ r = t
  OBVIOUS
<1>5. ViewTyped'
  <2>1. streams' \in SUBSET LiveStreams
    BY <1>3, <1>4 DEF ViewInv, ViewTyped
  <2> QED BY <1>2, <2>1 DEF ViewInv, ViewTyped
<1>6. RequestsInv'
  <2>1. ASSUME NEW r \in streams', ~r.aborted PROVE sel = {r.of} /\ liveEnabled
    BY <1>3, <1>4, <2>1 DEF ViewInv, RequestsInv
  <2>2. ASSUME NEW r \in streams', NEW x \in streams', ~r.aborted, ~x.aborted PROVE r = x
    BY <1>3, <1>4, <2>2 DEF ViewInv, RequestsInv
  <2> QED BY <2>1, <2>2 DEF ViewInv, RequestsInv
<1>7. ASSUME NEW i \in 1..Len(L)
      PROVE  \/ i \in 1..Len(lines) /\ L[i] = lines[i]
             \/ i - Len(lines) \in 1..Len(s.buffer) /\ L[i] = s.buffer[i - Len(lines)]
  <2>1. CASE i \in 1..Len(lines)
    BY <1>2, <2>1
  <2>2. CASE i \notin 1..Len(lines)
    <3>1. i \in 1..(Len(lines) + Len(s.buffer)) /\ Len(lines) \in Nat /\ Len(s.buffer) \in Nat
      BY <1>2
    <3>2. i - Len(lines) \in 1..Len(s.buffer) /\ i = Len(lines) + (i - Len(lines))
      BY <2>2, <3>1, SMTT(30)
    <3>3. L[Len(lines) + (i - Len(lines))] = s.buffer[i - Len(lines)]
      BY <1>2, <3>2
    <3> QED BY <3>2, <3>3
  <2> QED BY <2>1, <2>2
<1>8. BuffersInv'
  <2>1. ASSUME NEW i \in 1..Len(L), L[i][2] = "line" PROVE L[i][3] <= sent
    BY <1>7, <2>1 DEF ViewInv, BuffersInv, Buffered
  <2>2. ASSUME NEW r \in streams' PROVE Buffered(r)' /\ Newer(r)'
    <3>1. CASE r = t
      <4>1. Len(r.buffer) = 0
        BY <1>3, <3>1
      <4> QED BY <4>1 DEF Buffered, Newer
    <3>2. CASE r \in streams \ {s}
      <4>1. Buffered(r)'
        BY <3>2 DEF ViewInv, BuffersInv, Buffered
      <4>2. ASSUME ~r.aborted, ~strayed' PROVE Len(s.buffer) = 0
        <5>1. s.aborted
          BY <3>2, <4>2 DEF ViewInv, RequestsInv
        <5>2. s.buffer = <<>>
          BY <4>2, <5>1
        <5> QED BY <5>2
      <4>3. ASSUME ~r.aborted, ~strayed', NEW i \in 1..Len(L), NEW j \in 1..Len(r.buffer), L[i][2] = "line"
            PROVE  L[i][3] < r.buffer[j][3]
        <5>1. i \in 1..Len(lines) /\ L[i] = lines[i]
          BY <1>7, <4>2, <4>3
        <5> QED BY <3>2, <4>3, <5>1 DEF ViewInv, BuffersInv, Newer
      <4> QED BY <4>1, <4>3 DEF Newer
    <3> QED BY <1>4, <3>1, <3>2
  <2> QED BY <2>1, <2>2 DEF BuffersInv
<1>9. ShownIsSelected'
  <2> SUFFICES ASSUME ~strayed' PROVE \E p \in 0..Len(L) : ShownWith(p, L, sel, prevPageToken)
    BY ShownNext
  <2>1. CASE ~s.aborted
    BY <2>1, LinesAdded
  <2>2. CASE s.aborted
    <3>1. s.buffer = <<>> /\ ~strayed
      BY <2>2
    <3>2. L = lines
      BY <1>1, <3>1, ConcatEmptySeq
    <3> QED BY <3>1, <3>2, ShownMeans DEF ViewInv
  <2> QED BY <2>1, <2>2
<1> QED BY <1>5, <1>6, <1>8, <1>9 DEF ViewInv

\* Whatever is clicked, and in whatever order answers and streamed lines come.
LEMMA ViewStep ==
    ASSUME ViewInv, [ViewNext]_viewVars
    PROVE  ViewInv'
<1>1. CASE UNCHANGED viewVars
  <2>1. UNCHANGED <<sel, liveEnabled, older, streams, sent, strayed, lines, prevPageToken, loads>>
    BY <1>1 DEF viewVars
  <2>2. ViewTyped' /\ RequestsInv' /\ ShownIsSelected'
    BY <2>1 DEF ViewInv, ViewTyped, RequestsInv, ShownIsSelected
  <2>3. BuffersInv'
    BY <2>1 DEF ViewInv, BuffersInv, Buffered, Newer
  <2> QED BY <2>2, <2>3 DEF ViewInv
<1>2. ASSUME NEW w \in Workloads, NEW narrow \in BOOLEAN, SetSelectedWorkload(w, narrow)
      PROVE  ViewInv'
  <2>1. {[view |-> w, narrow |-> narrow]} \in SUBSET Views
    BY DEF Views
  <2>2. Reset({[view |-> w, narrow |-> narrow]})
    BY <1>2 DEF SetSelectedWorkload
  <2> QED BY <2>1, <2>2, ResetKeeps
<1>3. ASSUME NEW v \in Values, SetSelectedIndexValue(v) PROVE ViewInv'
  <2>1. {[view |-> v, narrow |-> FALSE]} \in SUBSET Views
    BY DEF Views
  <2>2. Reset({[view |-> v, narrow |-> FALSE]})
    BY <1>3 DEF SetSelectedIndexValue
  <2> QED BY <2>1, <2>2, ResetKeeps
<1>4. CASE SetSelectedIndex \/ LeaveIndexMode
  <2>1. Reset({})
    BY <1>4 DEF SetSelectedIndex, LeaveIndexMode
  <2> QED BY <2>1, ResetKeeps
<1>5. CASE GoLive
  BY <1>5, GoLiveKeeps
<1>6. CASE GoBack \/ Revisit
  BY <1>6, RemountKeeps DEF GoBack, Revisit
<1>7. CASE LoadOlder
  <2>1. /\ UNCHANGED <<sel, lines, prevPageToken, liveEnabled, loads, streams, sent, strayed>>
        /\ prevPageToken # 0 /\ older' = {[of |-> v, page |-> prevPageToken] : v \in sel}
    BY <1>7 DEF LoadOlder
  <2>2. ViewTyped'
    <3>1. prevPageToken \in 1..LastPage /\ sel \in SUBSET Views
      BY <2>1, ViewAssumption DEF ViewInv, ViewTyped
    <3>2. \A v \in Views : [of |-> v, page |-> prevPageToken] \in [of : Views, page : 1..LastPage]
      BY <3>1
    <3>3. older' \in SUBSET [of : Views, page : 1..LastPage]
      BY <2>1, <3>1, <3>2
    <3> QED BY <2>1, <3>3 DEF ViewInv, ViewTyped
  <2>3. RequestsInv' /\ ShownIsSelected'
    BY <2>1 DEF ViewInv, RequestsInv, ShownIsSelected
  <2>4. BuffersInv'
    BY <2>1 DEF ViewInv, BuffersInv, Buffered, Newer
  <2> QED BY <2>2, <2>3, <2>4 DEF ViewInv
<1>8. ASSUME NEW l \in loads, Loaded(l) PROVE ViewInv'
  <2>1. CASE l.aborted
    BY <1>8, <2>1, RequestEnds DEF Loaded
  <2>2. CASE ~l.aborted
    BY <1>8, <2>2, ReplacedKeeps DEF Loaded
  <2> QED BY <2>1, <2>2
<1>9. ASSUME NEW l \in loads, LoadFails(l) PROVE ViewInv'
  <2>1. CASE l.aborted \/ l.of.view \notin Values
    BY <1>9, <2>1, RequestEnds DEF LoadFails
  <2>2. CASE ~l.aborted /\ l.of.view \in Values
    BY <1>9, <2>2, ReplacedKeeps DEF LoadFails
  <2> QED BY <2>1, <2>2
<1>10. ASSUME NEW o \in older, OlderLoaded(o) PROVE ViewInv'
  BY <1>10, OlderKeeps
<1>11. CASE OlderFails
  <2>1. UNCHANGED <<sel, lines, prevPageToken, liveEnabled, loads, streams, sent, strayed>> /\ older' = {}
    BY <1>11 DEF OlderFails
  <2>2. ViewTyped' /\ RequestsInv' /\ ShownIsSelected'
    BY <2>1 DEF ViewInv, ViewTyped, RequestsInv, ShownIsSelected
  <2>3. BuffersInv'
    BY <2>1 DEF ViewInv, BuffersInv, Buffered, Newer
  <2> QED BY <2>2, <2>3 DEF ViewInv
<1>12. ASSUME NEW s \in streams, LineArrives(s) PROVE ViewInv'
  BY <1>12, LineKeeps
<1>13. ASSUME NEW s \in streams, Frame(s) PROVE ViewInv'
  BY <1>13, FlushKeeps DEF Frame
<1>14. ASSUME NEW s \in streams, StreamOver(s) PROVE ViewInv'
  BY <1>14, FlushKeeps DEF StreamOver
<1> QED
  BY <1>1, <1>2, <1>3, <1>4, <1>5, <1>6, <1>7, <1>8, <1>9, <1>10, <1>11, <1>12, <1>13, <1>14
     DEF ViewNext, User, Answer

\* What is asked for and streamed is of what is selected, unless it has been aborted
\* (useWorkloadLogHistory, useWorkloadLogStream, useIndexLogHistory and logStore.ts).
THEOREM ViewInvariant == ViewSpec => []ViewInv
<1>1. ViewInit => ViewInv
  <2> SUFFICES ASSUME ViewInit PROVE ViewInv
    OBVIOUS
  <2>1. /\ sel = {} /\ lines = <<>> /\ prevPageToken = 0 /\ loads = {} /\ older = {}
        /\ streams = {} /\ sent = 0
    BY DEF ViewInit
  <2>2. 0 \in 0..LastPage /\ <<>> \in Seq(Shown) /\ Len(lines) = 0
    BY <2>1, ViewAssumption
  <2>3. ViewTyped
    BY <2>1, <2>2 DEF ViewTyped
  <2>4. RequestsInv /\ BuffersInv
    BY <2>1, <2>2 DEF RequestsInv, BuffersInv
  <2>5. ShownIsSelected
    BY <2>1, <2>2 DEF ShownIsSelected
  <2> QED BY <2>3, <2>4, <2>5 DEF ViewInv
<1> QED BY <1>1, ViewStep, PTL DEF ViewSpec

\* What is shown is the log of what is selected, in order and up to the newest page, but
\* for what loadOlder or an aborted stream brings too late (LogPanel.tsx:71,
\* useWorkloadLogStream.ts:53).
THEOREM ViewShowsSelected == ViewSpec => []ShownIsSelected
BY ViewInvariant, PTL DEF ViewInv

-----------------------------------------------------------------------------
(* Least and greatest numbers. *)

\* By the pigeonhole principle: n -> n + 1 would be a one-to-one map of the members
\* below one that is missing into themselves, and would not reach 0.
LEMMA SetInduction ==
    ASSUME NEW K \in SUBSET Nat, 0 \in K, \A k \in K : k + 1 \in K
    PROVE  K = Nat
<1> SUFFICES ASSUME NEW n \in Nat, n \notin K PROVE FALSE
  OBVIOUS
<1> DEFINE B == {k \in K : k < n}
           succ == [k \in B |-> k + 1]
<1>1. IsFiniteSet(B)
  <2>1. ASSUME NEW k \in B PROVE k \in Nat /\ k <= n
    BY <2>1
  <2> HIDE DEF B
  <2>2. B \in SUBSET Nat
    BY <2>1
  <2> QED BY <2>1, <2>2, FS_BoundedSetOfNaturals
<1>2. succ \in Injection(B, B)
  <2>1. \A k \in B : k + 1 \in B /\ k \in Nat
    OBVIOUS
  <2>2. succ \in [B -> B] /\ \A k \in B : succ[k] = k + 1
    BY <2>1
  <2>3. \A j, k \in B : succ[j] = succ[k] => j = k
    BY <2>1, <2>2
  <2> HIDE DEF succ, B
  <2> QED BY <2>2, <2>3 DEF Injection, IsInjective
<1>3. succ \in Surjection(B, B)
  BY <1>1, <1>2, FS_Injection
<1>4. 0 \in B
  OBVIOUS
<1>5. PICK k \in B : succ[k] = 0
  BY <1>3, <1>4 DEF Surjection
<1> QED BY <1>5

LEMMA LeastExists ==
    ASSUME NEW S \in SUBSET Nat, S # {}
    PROVE  \E n \in S : \A m \in S : n <= m
<1> SUFFICES ASSUME \A n \in S : \E m \in S : m < n PROVE FALSE
  OBVIOUS
<1> DEFINE K == {k \in Nat : \A n \in S : k <= n}
<1>1. 0 \in K /\ \A k \in K : k + 1 \in K
  OBVIOUS
<1>2. K = Nat
  <2> HIDE DEF K
  <2>1. K \in SUBSET Nat
    BY DEF K
  <2> QED BY <1>1, <2>1, SetInduction
<1>3. PICK n \in S : TRUE
  OBVIOUS
<1>4. n + 1 \in K
  BY <1>2, <1>3
<1> QED BY <1>4

LEMMA LeastOf ==
    ASSUME NEW S \in SUBSET Containers, S # {}
    PROVE  Least(S) \in S
BY LeastExists, StoreAssumption DEF Least

LEMMA DayTyped ==
    ASSUME NEW s \in Segments
    PROVE  s[1] \in 0..MaxTime /\ s[2] \in Containers /\ s = <<s[1], s[2]>>
<1>1. ASSUME NEW t \in Times PROVE Day(t) \in 0..MaxTime
  BY <1>1, StoreAssumption DEF Times, Day
<1> QED BY <1>1 DEF Segments, Days

\* The latest segment of a container is the last of its days'.
LEMMA LatestIs ==
    ASSUME NEW c \in Containers, DOMAIN seg \subseteq Segments, Latest(c) # <<>>
    PROVE  /\ Latest(c) \in DOMAIN seg /\ Latest(c)[2] = c
           /\ \A s \in DOMAIN seg : s[2] = c => s[1] <= Latest(c)[1]
<1> DEFINE own == {s \in DOMAIN seg : s[2] = c}
           left == {n \in Nat : \E s \in own : n = MaxTime - s[1]}
<1>1. own # {}
  BY DEF Latest
<1>2. ASSUME NEW s \in own PROVE MaxTime - s[1] \in left /\ s[1] \in Nat
  BY DayTyped, StoreAssumption
<1>3. left \in SUBSET Nat /\ left # {}
  BY <1>1, <1>2
<1>4. PICK n \in left : \A m \in left : n <= m
  BY <1>3, LeastExists
<1>5. PICK s \in own : n = MaxTime - s[1]
  BY <1>4
<1>6. ASSUME NEW x \in own PROVE x[1] <= s[1]
  <2>1. n <= MaxTime - x[1] /\ x[1] \in Nat /\ s[1] \in Nat
    BY <1>2, <1>4
  <2> QED BY <1>5, <2>1, StoreAssumption
<1>7. Latest(c) \in own /\ \A x \in own : x[1] <= Latest(c)[1]
  BY <1>1, <1>5, <1>6 DEF Latest
<1> QED BY <1>7

-----------------------------------------------------------------------------
(* The inductive invariant. *)

\* Where a line is, as LineFeed has it.
Places == Days \X (1..(MaxChanges + 1)) \X (1..MaxLines)

\* The tailer that follows c.
Of(c) == IF rpc = "StreamLogs" THEN Containers ELSE {c}

FilesNamed(s) == {f \in DOMAIN data : f[1] = s}

IsSequence(s) == s \in Seq({s[k] : k \in DOMAIN s})

\* A file's lines are a sequence, no longer than the changes so far allow, and a
\* segment has no more files.
StoreInv ==
    /\ seg \in [DOMAIN seg -> 1..(MaxChanges + 1)] /\ DOMAIN seg \subseteq Segments
    /\ \A s \in DOMAIN seg : <<s, seg[s]>> \in DOMAIN data
    /\ data = [f \in DOMAIN data |-> data[f]]
    /\ DOMAIN data \subseteq Segments \X (1..(MaxChanges + 1))
    /\ \A f \in DOMAIN data :
          IsSequence(data[f]) /\ Len(data[f]) <= FirstLines + changes
    /\ \A s \in Segments :
          IsFiniteSet(FilesNamed(s)) /\ Cardinality(FilesNamed(s)) <= changes + 1
    /\ changes \in 0..MaxChanges

TailerStates == [pc : {"start", "begin", "drain", "wait", "follow", "ended"},
                 left : SUBSET Containers, latest : Segments \cup {<<>>}]

\* A pass has containers left that have a tail, and the segment to be opened is one
\* of theirs.
InPass(g, t) ==
    /\ t.pc \in {"begin", "follow", "drain"} => t.left # {} /\ t.left \subseteq g \cap DOMAIN tails
    /\ t.pc \in {"begin", "follow", "drain", "wait"} => g \cap DOMAIN tails # {}
    /\ t.latest # <<>> => t.pc \in {"begin", "follow"} /\ t.latest[2] \in t.left

Tails == [path : Segments \cup {<<>>}, file : 0..(MaxChanges + 1), pos : Nat]

TailerInv ==
    /\ rpc \in {"StreamLogs", "StreamWorkloadLogs"}
    /\ tailer \in [Tailers -> TailerStates] /\ \A g \in Tailers : InPass(g, tailer[g])
    /\ DOMAIN tails \subseteq Containers /\ tails \in [DOMAIN tails -> Tails]
    /\ lineCh \in Seq(Containers \X Places) /\ (rpc = "StreamLogs" => lineCh = <<>>)
    /\ got \in [Containers -> Places \cup {<<>>}]
    /\ removed \subseteq Containers

\* A tail has a file of its container open, whose name is there yet if the container
\* has lost no segment; ...
TailOpen(c) ==
    tails[c].path # <<>> =>
        /\ tails[c].path[2] = c /\ <<tails[c].path, tails[c].file>> \in DOMAIN data
        /\ c \in removed \/ tails[c].path \in DOMAIN seg

\* ... then the segment to be opened is there too, and a later one.
IsLater(s) ==
    \/ s[2] \in removed
    \/ s \in DOMAIN seg /\ (tails[s[2]].path = <<>> \/ tails[s[2]].path[1] < s[1])

OpenInv ==
    /\ \A c \in DOMAIN tails : TailOpen(c)
    /\ \A g \in Tailers : tailer[g].latest # <<>> => IsLater(tailer[g].latest)

\* place may be sent of c after last, as LineFeed has it.
After(c, last, place) ==
    \/ last = <<>>
    \/ last[1] = place[1] /\ last[2] = place[2] /\ place[3] = last[3] + 1
    \/ place[3] = 1 /\ (place[1] > last[1] \/ c \in removed)

\* The last place that the tailer of c has handed on.
Sent(c, place) ==
    \/ place = got[c] /\ \A i \in 1..Len(lineCh) : lineCh[i][1] # c
    \/ \E i \in 1..Len(lineCh) :
          lineCh[i] = <<c, place>> /\ \A k \in i + 1..Len(lineCh) : lineCh[k][1] # c

\* The place of the line a tail reads next.
Ahead(c) == <<tails[c].path[1], tails[c].file, tails[c].pos + 1>>

\* What is in the channel follows what has been sent, ...
ChannelFirst ==
    \A i \in 1..Len(lineCh) :
        (\A k \in 1..i - 1 : lineCh[k][1] # lineCh[i][1]) =>
            After(lineCh[i][1], got[lineCh[i][1]], lineCh[i][2])

\* ... and each line in it the one before, ...
ChannelNext ==
    \A i, j \in 1..Len(lineCh) :
        /\ i < j /\ lineCh[i][1] = lineCh[j][1]
        /\ \A k \in i + 1..j - 1 : lineCh[k][1] # lineCh[i][1]
        => After(lineCh[i][1], lineCh[i][2], lineCh[j][2])

\* ... and what is read next the last of them.  Before the first pass over the open
\* files there is none.
ReadNext(c, place) ==
    \/ place = <<>>
    \/ /\ c \in DOMAIN tails /\ tails[c].path # <<>>
       /\ tailer[Of(c)].pc \notin {"start", "begin"}
       /\ After(c, place, Ahead(c))

FeedInv ==
    /\ ChannelFirst /\ ChannelNext
    /\ \A c \in Containers, place \in Places \cup {<<>>} : Sent(c, place) => ReadNext(c, place)

TailInv == StoreInv /\ TailerInv /\ OpenInv /\ FeedInv


-----------------------------------------------------------------------------
(* The store. *)

LEMMA SequenceOf ==
    ASSUME NEW m \in Nat, NEW s, s = [k \in 1..m |-> s[k]]
    PROVE  IsSequence(s) /\ Len(s) = m
<1> DEFINE S == {s[k] : k \in DOMAIN s}
<1>1. DOMAIN s = 1..m
  OBVIOUS
<1>2. s \in [1..m -> S]
  BY <1>1
<1>3. s \in Seq(S)
  BY <1>2, SeqDef
<1>4. DOMAIN s = 1..Len(s) /\ Len(s) \in Nat
  BY <1>3, LenProperties
<1> QED BY <1>1, <1>3, <1>4 DEF IsSequence

LEMMA LengthOf == ASSUME NEW s, IsSequence(s) PROVE Len(s) \in Nat
BY LenProperties DEF IsSequence

LEMMA LongerSequence ==
    ASSUME NEW s, IsSequence(s), NEW e
    PROVE  Len(Append(s, e)) = Len(s) + 1 /\ IsSequence(Append(s, e))
<1> DEFINE S == {s[k] : k \in DOMAIN s} \cup {e}
           t == Append(s, e)
<1>1. s \in Seq(S) /\ e \in S
  <2>1. {s[k] : k \in DOMAIN s} \subseteq S
    OBVIOUS
  <2> QED BY <2>1, SeqMonotonic DEF IsSequence
<1> HIDE DEF S
<1>2. t \in Seq(S) /\ Len(t) = Len(s) + 1 /\ Len(s) \in Nat /\ Len(t) \in Nat
  BY <1>1
<1>3. t \in [1..Len(t) -> S]
  BY <1>2, LenProperties
<1> QED BY <1>2, <1>3, SequenceOf

LEMMA CreateStore ==
    ASSUME StoreInv, NEW s \in Segments, CreateSegment(s)
    PROVE  StoreInv' /\ DOMAIN data \subseteq DOMAIN data' /\ DOMAIN seg \subseteq DOMAIN seg'
<1> DEFINE file == 1 + Cardinality(FilesNamed(s))
<1>1. /\ changes \in 0..MaxChanges /\ changes < MaxChanges /\ changes' = changes + 1
      /\ MaxChanges \in Nat
  BY StoreAssumption DEF CreateSegment, Change, StoreInv
<1>2. /\ IsFiniteSet(FilesNamed(s)) /\ Cardinality(FilesNamed(s)) \in Nat
      /\ Cardinality(FilesNamed(s)) <= changes + 1
  BY FS_CardinalityType DEF StoreInv
<1>3. /\ seg' = [x \in DOMAIN seg \cup {s} |-> IF x = s THEN file ELSE seg[x]]
      /\ data' = [f \in DOMAIN data \cup {<<s, file>>} |->
                    IF f = <<s, file>> THEN <<>> ELSE data[f]]
  BY DEF CreateSegment, FilesNamed
<1>4. file \in Nat /\ 1 <= file /\ file <= changes' + 1
  BY <1>1, <1>2
<1> HIDE DEF file
<1>5. file \in 1..(MaxChanges + 1)
  BY <1>1, <1>4
<1>6. seg' \in [DOMAIN seg' -> 1..(MaxChanges + 1)] /\ DOMAIN seg' \subseteq Segments
  BY <1>3, <1>5 DEF StoreInv
<1>7. \A x \in DOMAIN seg' : <<x, seg'[x]>> \in DOMAIN data'
  BY <1>3 DEF StoreInv
<1>8. /\ DOMAIN data' \subseteq Segments \X (1..(MaxChanges + 1))
      /\ data' = [f \in DOMAIN data' |-> data'[f]]
  BY <1>3, <1>5 DEF StoreInv
<1>9. ASSUME NEW f \in DOMAIN data'
      PROVE  /\ IsSequence(data'[f])
             /\ Len(data'[f]) <= FirstLines + changes'
  <2>1. CASE f = <<s, file>>
    <3>1. data'[f] = <<>>
      BY <1>3, <2>1
    <3>2. 0 <= FirstLines + changes'
      BY <1>1, StoreAssumption
    <3> QED BY <3>1, <3>2, EmptySeq DEF IsSequence
  <2>2. CASE f # <<s, file>>
    <3>1. f \in DOMAIN data /\ data'[f] = data[f]
      BY <1>3, <2>2
    <3>2. /\ IsSequence(data[f])
          /\ Len(data[f]) <= FirstLines + changes
      BY <3>1 DEF StoreInv
    <3>3. Len(data[f]) \in Nat
      BY <3>2, LengthOf
    <3> QED BY <1>1, <3>1, <3>2, <3>3, StoreAssumption
  <2> QED BY <2>1, <2>2
<1>10. ASSUME NEW x \in Segments
       PROVE  IsFiniteSet(FilesNamed(x)') /\ Cardinality(FilesNamed(x)') <= changes' + 1
  <2>1. /\ IsFiniteSet(FilesNamed(x)) /\ Cardinality(FilesNamed(x)) \in Nat
        /\ Cardinality(FilesNamed(x)) <= changes + 1
    BY FS_CardinalityType DEF StoreInv
  <2>2. FilesNamed(x)' \subseteq FilesNamed(x) \cup {<<s, file>>}
    BY <1>3 DEF FilesNamed
  <2> DEFINE more == FilesNamed(x) \cup {<<s, file>>}
  <2>3. IsFiniteSet(more) /\ Cardinality(more) \in Nat /\ Cardinality(more) <= changes + 2
    <3>1. /\ IsFiniteSet(more)
          /\ Cardinality(more) = IF <<s, file>> \in FilesNamed(x) THEN Cardinality(FilesNamed(x))
                                 ELSE Cardinality(FilesNamed(x)) + 1
      BY <2>1, FS_AddElement
    <3> HIDE DEF more
    <3> QED BY <1>1, <2>1, <3>1
  <2>4. /\ IsFiniteSet(FilesNamed(x)') /\ Cardinality(FilesNamed(x)') \in Nat
        /\ Cardinality(FilesNamed(x)') <= Cardinality(more)
    BY <2>2, <2>3, FS_Subset, FS_CardinalityType
  <2> QED BY <1>1, <2>3, <2>4
<1>11. DOMAIN data \subseteq DOMAIN data' /\ DOMAIN seg \subseteq DOMAIN seg'
  BY <1>3
<1>12. changes' \in 0..MaxChanges
  BY <1>1
<1> QED BY <1>6, <1>7, <1>8, <1>9, <1>10, <1>11, <1>12 DEF StoreInv

LEMMA AppendStore ==
    ASSUME StoreInv, NEW c \in Containers, NEW t \in Times, AppendLine(c, t)
    PROVE  StoreInv' /\ DOMAIN data' = DOMAIN data /\ seg' = seg
<1> DEFINE f0 == <<<<Day(t), c>>, seg[<<Day(t), c>>]>>
           line == [id |-> written + 1, ts |-> t]
<1>1. /\ changes \in 0..MaxChanges /\ changes < MaxChanges /\ changes' = changes + 1
      /\ MaxChanges \in Nat
  BY StoreAssumption DEF AppendLine, Change, StoreInv
<1>2. /\ data' = [data EXCEPT ![f0] = Append(@, line)] /\ seg' = seg
      /\ f0 \in DOMAIN data
  BY DEF AppendLine, StoreInv
<1> HIDE DEF f0, line
<1>3. /\ DOMAIN data' = DOMAIN data /\ data' = [f \in DOMAIN data' |-> data'[f]]
      /\ \A f \in DOMAIN data : data'[f] = IF f = f0 THEN Append(data[f], line) ELSE data[f]
  BY <1>2 DEF StoreInv
<1>4. ASSUME NEW f \in DOMAIN data'
      PROVE  /\ IsSequence(data'[f])
             /\ Len(data'[f]) <= FirstLines + changes'
  <2>1. /\ IsSequence(data[f])
        /\ Len(data[f]) <= FirstLines + changes
    BY <1>3 DEF StoreInv
  <2>2. Len(data[f]) \in Nat
    BY <2>1, LengthOf
  <2>3. CASE f = f0
    <3>1. data'[f] = Append(data[f], line)
      BY <1>3, <2>3
    <3>2. /\ Len(data'[f]) = Len(data[f]) + 1
          /\ IsSequence(data'[f])
      BY <2>1, <3>1, LongerSequence
    <3> QED BY <1>1, <2>1, <2>2, <3>2, StoreAssumption
  <2>4. CASE f # f0
    <3>1. data'[f] = data[f]
      BY <1>3, <2>4
    <3> QED BY <1>1, <2>1, <2>2, <3>1, StoreAssumption
  <2> QED BY <2>3, <2>4
<1>5. ASSUME NEW s \in Segments
      PROVE  IsFiniteSet(FilesNamed(s)') /\ Cardinality(FilesNamed(s)') <= changes' + 1
  <2>1. FilesNamed(s)' = FilesNamed(s)
    BY <1>3 DEF FilesNamed
  <2>2. /\ IsFiniteSet(FilesNamed(s)) /\ Cardinality(FilesNamed(s)) \in Nat
        /\ Cardinality(FilesNamed(s)) <= changes + 1
    BY FS_CardinalityType DEF StoreInv
  <2> QED BY <1>1, <2>1, <2>2
<1>6. /\ seg' \in [DOMAIN seg' -> 1..(MaxChanges + 1)] /\ DOMAIN seg' \subseteq Segments
      /\ \A s \in DOMAIN seg' : <<s, seg'[s]>> \in DOMAIN data'
      /\ DOMAIN data' \subseteq Segments \X (1..(MaxChanges + 1))
  BY <1>2, <1>3 DEF StoreInv
<1>7. changes' \in 0..MaxChanges
  BY <1>1
<1> QED BY <1>2, <1>3, <1>4, <1>5, <1>6, <1>7 DEF StoreInv

LEMMA DeleteStore ==
    ASSUME StoreInv, NEW s \in Segments, DeleteSegment(s)
    PROVE  StoreInv' /\ UNCHANGED data /\ DOMAIN seg' = DOMAIN seg \ {s}
<1>1. /\ changes \in 0..MaxChanges /\ changes < MaxChanges /\ changes' = changes + 1
      /\ MaxChanges \in Nat /\ seg' = [x \in DOMAIN seg \ {s} |-> seg[x]] /\ data' = data
  BY StoreAssumption DEF DeleteSegment, Change, StoreInv
<1>2. ASSUME NEW f \in DOMAIN data PROVE Len(data[f]) <= FirstLines + changes'
  <2>1. Len(data[f]) \in Nat /\ Len(data[f]) <= FirstLines + changes
    BY LengthOf DEF StoreInv
  <2> QED BY <1>1, <2>1, StoreAssumption
<1>3. ASSUME NEW x \in Segments
      PROVE  IsFiniteSet(FilesNamed(x)') /\ Cardinality(FilesNamed(x)') <= changes' + 1
  <2>1. FilesNamed(x)' = FilesNamed(x)
    BY <1>1 DEF FilesNamed
  <2>2. /\ IsFiniteSet(FilesNamed(x)) /\ Cardinality(FilesNamed(x)) \in Nat
        /\ Cardinality(FilesNamed(x)) <= changes + 1
    BY FS_CardinalityType DEF StoreInv
  <2> QED BY <1>1, <2>1, <2>2
<1>4. /\ seg' \in [DOMAIN seg' -> 1..(MaxChanges + 1)] /\ DOMAIN seg' \subseteq Segments
      /\ \A x \in DOMAIN seg' : <<x, seg'[x]>> \in DOMAIN data'
  BY <1>1 DEF StoreInv
<1> QED BY <1>1, <1>2, <1>3, <1>4 DEF StoreInv

LEMMA StoreStarts == StoreInit => StoreInv
<1> SUFFICES
        ASSUME NEW n \in 0..FirstLines, NEW line \in [1..n -> Containers \X Times],
               NEW new \in {{}} \cup {{s} : s \in Segments},
               LET segment(i) == <<Day(line[i][2]), line[i][1]>>
                   names == new \cup {segment(i) : i \in 1..n}
                   own(s) == {i \in 1..n : segment(i) = s}
                   linesOf(s) == [k \in 1..Cardinality(own(s)) |->
                       LET i == CHOOSE i \in own(s) : Cardinality({j \in own(s) : j <= i}) = k
                       IN  [id |-> i, ts |-> line[i][2]]]
               IN  /\ seg = [s \in names |-> 1]
                   /\ data = [f \in names \X {1} |-> linesOf(f[1])]
                   /\ changes = 0
        PROVE  StoreInv
  BY ZenonT(40) DEF StoreInit
<1> DEFINE segment(i) == <<Day(line[i][2]), line[i][1]>>
           names == new \cup {segment(i) : i \in 1..n}
           own(s) == {i \in 1..n : segment(i) = s}
           linesOf(s) == [k \in 1..Cardinality(own(s)) |->
                LET i == CHOOSE i \in own(s) : Cardinality({j \in own(s) : j <= i}) = k
                IN  [id |-> i, ts |-> line[i][2]]]
<1>2. seg = [s \in names |-> 1] /\ data = [f \in names \X {1} |-> linesOf(f[1])] /\ changes = 0
  OBVIOUS
<1>3. names \subseteq Segments
  <2>1. ASSUME NEW i \in 1..n PROVE segment(i) \in Segments
    <3>1. line[i] \in Containers \X Times
      OBVIOUS
    <3>2. line[i][1] \in Containers /\ line[i][2] \in Times
      BY <3>1
    <3>3. Day(line[i][2]) \in Days
      BY <3>2, Zenon DEF Days
    <3> QED BY <3>2, <3>3 DEF Segments
  <2>2. new \subseteq Segments
    OBVIOUS
  <2> HIDE DEF segment
  <2> QED BY <2>1, <2>2
<1>4. ASSUME NEW s
      PROVE  Cardinality(own(s)) \in Nat /\ Cardinality(own(s)) <= FirstLines
  <2>1. own(s) \subseteq 1..n /\ n \in Nat /\ n <= FirstLines
    BY StoreAssumption
  <2> HIDE DEF own
  <2>2. IsFiniteSet(1..n) /\ Cardinality(1..n) <= FirstLines
    <3>1. n \in Int /\ 1 \in Int /\ (IF 1 > n THEN 0 ELSE n - 1 + 1) <= FirstLines
      BY <2>1, StoreAssumption
    <3>2. IsFiniteSet(1..n) /\ Cardinality(1..n) = IF 1 > n THEN 0 ELSE n - 1 + 1
      BY <3>1, FS_Interval
    <3> QED BY <3>1, <3>2
  <2>3. IsFiniteSet(own(s)) /\ Cardinality(own(s)) <= Cardinality(1..n)
    BY <2>1, <2>2, FS_Subset
  <2>4. Cardinality(own(s)) \in Nat /\ Cardinality(1..n) \in Nat
    BY <2>2, <2>3, FS_CardinalityType, SMTT(30)
  <2> QED BY <2>2, <2>3, <2>4, StoreAssumption
<1>5. ASSUME NEW f \in DOMAIN data
      PROVE  IsSequence(data[f]) /\ Len(data[f]) <= FirstLines
  <2> DEFINE m == Cardinality(own(f[1]))
  <2>1. data[f] = linesOf(f[1])
    BY <1>2, Zenon
  <2>2. linesOf(f[1]) = [k \in 1..m |-> linesOf(f[1])[k]]
    OBVIOUS
  <2> HIDE DEF linesOf, own
  <2>3. m \in Nat /\ m <= FirstLines
    BY <1>4, SMTT(30)
  <2> HIDE DEF m
  <2>4. IsSequence(data[f]) /\ Len(data[f]) = m
    BY <2>1, <2>2, <2>3, SequenceOf, ZenonT(40)
  <2> QED BY <2>3, <2>4, ZenonT(40)
<1> HIDE DEF names, linesOf
<1>6. ASSUME NEW s \in Segments
      PROVE  IsFiniteSet(FilesNamed(s)) /\ Cardinality(FilesNamed(s)) <= changes + 1
  <2>1. FilesNamed(s) \subseteq {<<s, 1>>}
    BY <1>2 DEF FilesNamed
  <2>2. IsFiniteSet({<<s, 1>>}) /\ Cardinality({<<s, 1>>}) = 1
    BY FS_Singleton
  <2> QED BY <1>2, <2>1, <2>2, FS_Subset
<1>7. 1 \in 1..(MaxChanges + 1) /\ 0 \in 0..MaxChanges
  BY StoreAssumption
<1>8. /\ seg \in [DOMAIN seg -> 1..(MaxChanges + 1)] /\ DOMAIN seg \subseteq Segments
      /\ \A s \in DOMAIN seg : <<s, seg[s]>> \in DOMAIN data
      /\ data = [f \in DOMAIN data |-> data[f]]
      /\ DOMAIN data \subseteq Segments \X (1..(MaxChanges + 1))
  BY ZenonT(40), <1>2, <1>3, <1>7
<1>9. \A f \in DOMAIN data : IsSequence(data[f]) /\ Len(data[f]) <= FirstLines + changes
  <2>1. changes = 0
    BY <1>2
  <2>2. FirstLines + changes = FirstLines
    BY <2>1, StoreAssumption
  <2> QED BY <1>5, <2>2, ZenonT(40)
<1> QED BY <1>2, <1>6, <1>7, <1>8, <1>9, ZenonT(40) DEF StoreInv

-----------------------------------------------------------------------------
(* The tailers. *)

LEMMA TailersAre ==
    ASSUME TailerInv, NEW c \in Containers
    PROVE  /\ Of(c) \in Tailers /\ c \in Of(c)
           /\ \A g \in Tailers : c \in g => g = Of(c)
           /\ \A g \in Tailers : g \subseteq Containers
BY DEF Tailers, Of, TailerInv

\* After is kept by the loss of segments.
LEMMA AfterKept ==
    ASSUME removed \subseteq removed', NEW c, NEW last, NEW place, After(c, last, place)
    PROVE  After(c, last, place)'
BY DEF After

\* What a step of tailer g makes of it.
Moves(g, t) ==
    /\ tailer' = [tailer EXCEPT ![g] = t] /\ InPass(g, t)'
    /\ t.pc \in {"start", "begin"} => tailer[g].pc \in {"start", "begin"}

LEMMA PassMoves ==
    ASSUME TailerInv, NEW g \in Tailers, NEW pc \in {"begin", "follow", "drain"}, NEW left,
           pc = "begin" => tailer[g].pc \in {"start", "begin"},
           left \subseteq g \cap DOMAIN tails', DOMAIN tails \subseteq DOMAIN tails',
           DOMAIN tails' \subseteq Containers, g \cap DOMAIN tails # {}, Pass(g, pc, left)
    PROVE  \E t \in TailerStates : Moves(g, t) /\ t.latest = <<>>
<1> DEFINE To(p, l) == [pc |-> p, left |-> l, latest |-> <<>>]
<1>1. CASE left # {}
  <2>1. tailer' = [tailer EXCEPT ![g] = To(pc, left)] /\ To(pc, left) \in TailerStates
    BY <1>1 DEF Pass, TailerTo, TailerStates
  <2>2. InPass(g, To(pc, left))'
    BY <1>1 DEF InPass
  <2> QED BY <2>1, <2>2 DEF Moves
<1>2. CASE left = {} /\ pc = "drain"
  <2>1. tailer' = [tailer EXCEPT ![g] = To("wait", {})] /\ To("wait", {}) \in TailerStates
    BY <1>2 DEF Pass, TailerTo, TailerStates
  <2>2. InPass(g, To("wait", {}))'
    BY DEF InPass
  <2> QED BY <2>1, <2>2 DEF Moves
<1>3. CASE left = {} /\ pc # "drain"
  <2>1. PICK l : l = g \cap DOMAIN tails
    OBVIOUS
  <2>2. tailer' = [tailer EXCEPT ![g] = To("drain", l)] /\ To("drain", l) \in TailerStates
    BY <1>3, <2>1 DEF Pass, TailerTo, TailerStates
  <2>3. l # {} /\ l \subseteq g \cap DOMAIN tails' /\ g \cap DOMAIN tails' # {}
    BY <2>1
  <2>4. InPass(g, To("drain", l))'
    BY <2>3 DEF InPass
  <2> QED BY <2>2, <2>4 DEF Moves
<1> QED BY <1>1, <1>2, <1>3

\* The other tailers are where they were.
LEMMA MovedTailers ==
    ASSUME TailerInv, NEW g \in Tailers, NEW t \in TailerStates, Moves(g, t), UNCHANGED rpc,
           DOMAIN tails \subseteq DOMAIN tails'
    PROVE  /\ tailer' \in [Tailers -> TailerStates] /\ Tailers' = Tailers
           /\ tailer'[g] = t /\ \A x \in Tailers : x # g => tailer'[x] = tailer[x]
           /\ \A x \in Tailers : InPass(x, tailer[x])'
           /\ \A x \in Tailers : tailer[x].pc \notin {"start", "begin"}
                                    => tailer'[x].pc \notin {"start", "begin"}
<1>1. /\ tailer' \in [Tailers -> TailerStates] /\ Tailers' = Tailers
      /\ tailer'[g] = t /\ \A x \in Tailers : x # g => tailer'[x] = tailer[x]
  BY DEF TailerInv, Moves, Tailers
<1>2. ASSUME NEW x \in Tailers, x # g PROVE InPass(x, tailer[x])'
  <2>1. InPass(x, tailer[x])
    BY DEF TailerInv
  <2> QED BY <1>1, <1>2, <2>1 DEF InPass
<1> QED BY <1>1, <1>2 DEF Moves

\* The feed goes on as before if no line is handed on.
LEMMA FeedKept ==
    ASSUME FeedInv, TailerInv, UNCHANGED <<rpc, lineCh, got>>, removed \subseteq removed',
           \A c \in DOMAIN tails : c \in DOMAIN tails' /\ tails'[c] = tails[c],
           \A g \in Tailers : tailer[g].pc \notin {"start", "begin"}
                                 => tailer'[g].pc \notin {"start", "begin"}
    PROVE  FeedInv'
<1>1. ChannelFirst' /\ ChannelNext'
  BY AfterKept DEF FeedInv, ChannelFirst, ChannelNext
<1>2. ASSUME NEW c \in Containers, NEW place \in Places \cup {<<>>}, Sent(c, place)'
      PROVE  ReadNext(c, place)'
  <2>1. ReadNext(c, place)
    BY <1>2 DEF FeedInv, Sent
  <2>2. Of(c) \in Tailers /\ Of(c)' = Of(c)
    BY TailersAre DEF Of
  <2>3. c \in DOMAIN tails => Ahead(c)' = Ahead(c)
    BY DEF Ahead
  <2> QED BY <2>1, <2>2, <2>3, AfterKept DEF ReadNext
<1> QED BY <1>1, <1>2 DEF FeedInv, Places

\* A step of a tailer between its reads.
LEMMA TailerMoves ==
    ASSUME TailInv, NEW g \in Tailers, NEW t \in TailerStates, Moves(g, t),
           UNCHANGED <<storeVars, rpc, lineCh, got, removed>>,
           DOMAIN tails \subseteq DOMAIN tails', DOMAIN tails' \subseteq Containers,
           tails' \in [DOMAIN tails' -> Tails],
           \A c \in DOMAIN tails' :
              IF c \in DOMAIN tails THEN tails'[c] = tails[c] ELSE tails'[c].path = <<>>,
           t.latest # <<>> => t.latest[2] \in DOMAIN tails /\ IsLater(t.latest)
    PROVE  TailInv'
<1>1. TailerInv /\ OpenInv /\ FeedInv /\ StoreInv
  BY DEF TailInv
<1>2. /\ tailer' \in [Tailers -> TailerStates] /\ Tailers' = Tailers
      /\ tailer'[g] = t /\ \A x \in Tailers : x # g => tailer'[x] = tailer[x]
      /\ \A x \in Tailers : InPass(x, tailer[x])'
      /\ \A x \in Tailers : tailer[x].pc \notin {"start", "begin"}
                               => tailer'[x].pc \notin {"start", "begin"}
  BY <1>1, MovedTailers
<1>3. StoreInv' /\ UNCHANGED <<seg, data>>
  BY <1>1 DEF StoreInv, storeVars, FilesNamed
<1>4. TailerInv'
  BY <1>1, <1>2 DEF TailerInv, Places
<1>5. \A s : s[2] \in DOMAIN tails /\ IsLater(s) => IsLater(s)'
  BY <1>3 DEF IsLater
<1>6. OpenInv'
  <2>1. ASSUME NEW c \in DOMAIN tails' PROVE TailOpen(c)'
    BY <1>1, <1>3 DEF OpenInv, TailOpen
  <2>2. ASSUME NEW x \in Tailers, tailer'[x].latest # <<>> PROVE IsLater(tailer[x].latest)'
    <3>1. CASE x = g
      BY <1>2, <1>5, <2>2, <3>1
    <3>2. CASE x # g
      <4>1. tailer'[x] = tailer[x] /\ InPass(x, tailer[x]) /\ IsLater(tailer[x].latest)
        BY <1>1, <1>2, <2>2, <3>2 DEF TailerInv, OpenInv
      <4>2. tailer[x].latest[2] \in DOMAIN tails
        BY <2>2, <4>1 DEF InPass
      <4> QED BY <1>5, <4>1, <4>2
    <3> QED BY <3>1, <3>2
  <2> QED BY <1>2, <2>1, <2>2 DEF OpenInv
<1>7. FeedInv'
  BY <1>1, <1>2, FeedKept
<1> QED BY <1>3, <1>4, <1>6, <1>7 DEF TailInv

LEMMA ReturnStep ==
    ASSUME TailInv, NEW g \in Tailers, Return(g)
    PROVE  TailInv' /\ UNCHANGED <<got, removed>>
<1> DEFINE t == [pc |-> "ended", left |-> {}, latest |-> <<>>]
<1>1. t \in TailerStates /\ Moves(g, t)
  BY DEF Return, TailerTo, TailerStates, Moves, InPass
<1>2. UNCHANGED <<storeVars, rpc, tails, lineCh, got, removed>>
  BY DEF Return
<1>3. t.latest = <<>>
  OBVIOUS
<1> HIDE DEF t
<1>4. TailInv'
  BY <1>1, <1>2, <1>3, TailerMoves DEF TailInv, TailerInv
<1> QED BY <1>2, <1>4

\* With the containers that log by now a tailer has more tails, not yet open.
LEMMA MoreTails ==
    ASSUME TailInv, NEW g \in Tailers, tails' = WithTails(Logging(g))
    PROVE  /\ DOMAIN tails' = DOMAIN tails \cup Logging(g) /\ Logging(g) \subseteq g
           /\ DOMAIN tails' \subseteq Containers /\ tails' \in [DOMAIN tails' -> Tails]
           /\ \A c \in DOMAIN tails' :
                 IF c \in DOMAIN tails THEN tails'[c] = tails[c] ELSE tails'[c].path = <<>>
<1>1. Logging(g) \subseteq g /\ g \subseteq Containers
  BY TailersAre DEF Logging, TailInv, Tailers, TailerInv
<1>2. [path |-> <<>>, file |-> 0, pos |-> 0] \in Tails
  BY StoreAssumption DEF Tails
<1> QED BY <1>1, <1>2 DEF WithTails, TailInv, TailerInv

LEMMA BeginStep ==
    ASSUME TailInv, NEW g \in Tailers, Begin(g)
    PROVE  TailInv' /\ UNCHANGED <<got, removed>>
<1>1. CASE Logging(g) = {}
  BY <1>1, ReturnStep DEF Begin
<1>2. CASE Logging(g) # {}
  <2>1. PICK t : t = [pc |-> "begin", left |-> Logging(g), latest |-> <<>>]
    OBVIOUS
  <2>2. /\ tailer' = [tailer EXCEPT ![g] = t] /\ tails' = WithTails(Logging(g))
        /\ UNCHANGED <<storeVars, rpc, lineCh, got, removed>> /\ tailer[g].pc = "start"
    BY <1>2, <2>1 DEF Begin, TailerTo
  <2>3. /\ DOMAIN tails' = DOMAIN tails \cup Logging(g) /\ Logging(g) \subseteq g
        /\ DOMAIN tails' \subseteq Containers /\ tails' \in [DOMAIN tails' -> Tails]
        /\ \A c \in DOMAIN tails' :
              IF c \in DOMAIN tails THEN tails'[c] = tails[c] ELSE tails'[c].path = <<>>
    BY <2>2, MoreTails
  <2>4. t \in TailerStates /\ Moves(g, t) /\ t.latest = <<>>
    BY <1>2, <2>1, <2>2, <2>3 DEF TailerStates, Moves, InPass
  <2>5. TailInv'
    BY <2>2, <2>3, <2>4, TailerMoves
  <2> QED BY <2>2, <2>5
<1> QED BY <1>1, <1>2

LEMMA TickStep ==
    ASSUME TailInv, NEW g \in Tailers, Tick(g)
    PROVE  TailInv' /\ UNCHANGED <<got, removed>>
<1>1. /\ tails' = WithTails(Logging(g)) /\ tailer[g].pc = "wait" /\ Pass(g, "follow", Logging(g))
      /\ UNCHANGED <<storeVars, rpc, lineCh, got, removed>>
  BY DEF Tick
<1>2. /\ DOMAIN tails' = DOMAIN tails \cup Logging(g) /\ Logging(g) \subseteq g
      /\ DOMAIN tails' \subseteq Containers /\ tails' \in [DOMAIN tails' -> Tails]
      /\ \A c \in DOMAIN tails' :
            IF c \in DOMAIN tails THEN tails'[c] = tails[c] ELSE tails'[c].path = <<>>
  BY <1>1, MoreTails
<1>3. TailerInv /\ g \cap DOMAIN tails # {}
  BY <1>1 DEF TailInv, TailerInv, InPass
<1>4. PICK t \in TailerStates : Moves(g, t) /\ t.latest = <<>>
  BY <1>1, <1>2, <1>3, PassMoves
<1>5. TailInv'
  BY <1>1, <1>2, <1>4, TailerMoves
<1> QED BY <1>1, <1>5

\* A tailer in a pass works on one of its containers, which has a tail.
LEMMA InHand ==
    ASSUME TailInv, NEW g \in Tailers, tailer[g].pc \in {"begin", "follow", "drain"}
    PROVE  /\ tailer[g].left \subseteq g \cap DOMAIN tails /\ g \cap DOMAIN tails # {}
           /\ Least(tailer[g].left) \in tailer[g].left
           /\ Least(tailer[g].left) \in Containers
<1>1. /\ tailer[g].left # {} /\ tailer[g].left \subseteq g \cap DOMAIN tails
      /\ g \cap DOMAIN tails # {} /\ tailer[g].left \subseteq Containers
  BY DEF TailInv, TailerInv, InPass
<1> QED BY <1>1, LeastOf

LEMMA LookStep ==
    ASSUME TailInv, NEW g \in Tailers, Look(g)
    PROVE  TailInv' /\ UNCHANGED <<got, removed>>
<1> DEFINE c == Least(tailer[g].left)
<1>1. /\ tailer[g].pc \in {"begin", "follow"} /\ tailer[g].latest = <<>>
      /\ IF Latest(c) \in {<<>>, tails[c].path} THEN Pass(g, tailer[g].pc, tailer[g].left \ {c})
         ELSE tailer' = [tailer EXCEPT ![g].latest = Latest(c)]
      /\ UNCHANGED <<storeVars, rpc, tails, lineCh, got, removed>>
  BY DEF Look
<1>2. /\ tailer[g].left \subseteq g \cap DOMAIN tails /\ g \cap DOMAIN tails # {}
      /\ c \in tailer[g].left /\ c \in Containers
  BY <1>1, InHand
<1> HIDE DEF c
<1>3. TailerInv /\ StoreInv /\ OpenInv
  BY DEF TailInv
<1>4. /\ DOMAIN tails' = DOMAIN tails /\ DOMAIN tails \subseteq Containers
      /\ tails' \in [DOMAIN tails' -> Tails]
  BY <1>1, <1>3 DEF TailerInv
<1>5. CASE Latest(c) \in {<<>>, tails[c].path}
  <2>1. \E t \in TailerStates : Moves(g, t) /\ t.latest = <<>>
    BY <1>1, <1>2, <1>3, <1>4, <1>5, PassMoves
  <2> QED BY <1>1, <1>4, <2>1, TailerMoves
<1>6. CASE Latest(c) \notin {<<>>, tails[c].path}
  <2>1. PICK s : s = Latest(c)
    OBVIOUS
  <2>2. /\ s \in DOMAIN seg /\ s[2] = c /\ s \in Segments
        /\ \A x \in DOMAIN seg : x[2] = c => x[1] <= s[1]
    BY <1>2, <1>3, <1>6, <2>1, LatestIs DEF StoreInv
  <2>3. PICK t : t = [tailer[g] EXCEPT !.latest = s]
    OBVIOUS
  <2>4. tailer[g] \in TailerStates /\ InPass(g, tailer[g])
    BY <1>3 DEF TailerInv
  <2>5. /\ t \in TailerStates /\ t.pc = tailer[g].pc /\ t.left = tailer[g].left /\ t.latest = s
    BY <2>2, <2>3, <2>4 DEF TailerStates
  <2>6. tailer' = [tailer EXCEPT ![g] = t]
    BY <1>1, <1>6, <2>1, <2>3, <1>3 DEF TailerInv
  <2>7. Moves(g, t)
    BY <1>1, <1>2, <2>2, <2>4, <2>5, <2>6 DEF Moves, InPass
  <2>8. IsLater(s)
    <3> SUFFICES ASSUME c \notin removed, tails[c].path # <<>> PROVE tails[c].path[1] < s[1]
      BY <2>2 DEF IsLater
    <3>1. tails[c].path \in DOMAIN seg /\ tails[c].path[2] = c /\ tails[c].path # s
      BY <1>2, <1>3, <1>6, <2>1 DEF OpenInv, TailOpen
    <3>2. /\ tails[c].path[1] \in Nat /\ s[1] \in Nat /\ tails[c].path[1] # s[1]
          /\ tails[c].path[1] <= s[1]
      <4>1. tails[c].path \in Segments
        BY <1>3, <3>1 DEF StoreInv
      <4>2. /\ tails[c].path = <<tails[c].path[1], c>> /\ tails[c].path[1] \in Nat
            /\ s = <<s[1], c>> /\ s[1] \in Nat
        BY <2>2, <3>1, <4>1, DayTyped
      <4>3. tails[c].path[1] # s[1]
        BY <3>1, <4>2
      <4> QED BY <2>2, <3>1, <4>2, <4>3
    <3> QED BY <3>2
  <2>9. s[2] \in DOMAIN tails
    BY <1>2, <2>2
  <2> QED BY <1>1, <1>4, <2>5, <2>7, <2>8, <2>9, TailerMoves
<1> QED BY <1>5, <1>6

LEMMA DrainedStep ==
    ASSUME TailInv, NEW g \in Tailers, Drained(g)
    PROVE  TailInv' /\ UNCHANGED <<got, removed>>
<1> DEFINE c == Least(tailer[g].left)
<1>1. /\ tailer[g].pc = "drain" /\ Pass(g, "drain", tailer[g].left \ {c})
      /\ UNCHANGED <<storeVars, rpc, tails, lineCh, got, removed>>
  BY DEF Drained
<1>2. tailer[g].left \subseteq g \cap DOMAIN tails /\ g \cap DOMAIN tails # {}
  BY <1>1, InHand
<1> HIDE DEF c
<1>3. TailerInv
  BY DEF TailInv
<1>4. /\ DOMAIN tails' = DOMAIN tails /\ DOMAIN tails \subseteq Containers
      /\ tails' \in [DOMAIN tails' -> Tails]
  BY <1>1, <1>3 DEF TailerInv
<1>5. PICK t \in TailerStates : Moves(g, t) /\ t.latest = <<>>
  BY <1>1, <1>2, <1>3, <1>4, PassMoves
<1> QED BY <1>1, <1>4, <1>5, TailerMoves

\* A segment is opened: at its end if nothing of its container has been handed on,
\* at its start if it is later than what has.
LEMMA OpenStep ==
    ASSUME TailInv, NEW g \in Tailers, Open(g)
    PROVE  TailInv' /\ UNCHANGED <<got, removed>>
<1>1. PICK s : s = tailer[g].latest
  OBVIOUS
<1>2. PICK pc : pc = tailer[g].pc
  OBVIOUS
<1>3. TailerInv /\ StoreInv /\ OpenInv /\ FeedInv
  BY DEF TailInv
<1>4. /\ s # <<>> /\ Pass(g, pc, tailer[g].left \ {s[2]})
      /\ tails' = IF s \notin DOMAIN seg THEN tails
                  ELSE [tails EXCEPT ![s[2]] =
                          [path |-> s, file |-> seg[s],
                           pos |-> IF pc = "begin" THEN Len(Content(s)) ELSE 0]]
      /\ UNCHANGED <<storeVars, rpc, lineCh, got, removed>>
  BY <1>1, <1>2 DEF Open
<1>5. /\ pc \in {"begin", "follow"} /\ s[2] \in tailer[g].left /\ s[2] \in DOMAIN tails
      /\ tailer[g].left \subseteq g \cap DOMAIN tails /\ g \cap DOMAIN tails # {}
      /\ s \in Segments /\ IsLater(s)
  BY <1>1, <1>2, <1>3, <1>4 DEF TailerInv, InPass, OpenInv, TailerStates
<1>6. /\ DOMAIN tails' = DOMAIN tails /\ DOMAIN tails \subseteq Containers
      /\ tails \in [DOMAIN tails -> Tails]
  BY <1>3, <1>4 DEF TailerInv
<1>7. PICK t \in TailerStates : Moves(g, t) /\ t.latest = <<>>
  BY <1>2, <1>3, <1>4, <1>5, <1>6, PassMoves
<1>8. CASE s \notin DOMAIN seg
  BY <1>4, <1>6, <1>7, <1>8, TailerMoves
<1>9. CASE s \in DOMAIN seg
  <2>1. PICK new : new = [path |-> s, file |-> seg[s],
                          pos |-> IF pc = "begin" THEN Len(Content(s)) ELSE 0]
    OBVIOUS
  <2>2. /\ new \in Tails /\ new.path = s /\ new.file = seg[s]
        /\ pc # "begin" => new.pos = 0
    <3>1. Len(Content(s)) \in Nat /\ seg[s] \in 0..(MaxChanges + 1)
      BY <1>3, <1>9, LengthOf, StoreAssumption DEF StoreInv, Content
    <3> QED BY <1>5, <2>1, <3>1 DEF Tails
  <2>3. /\ tails' = [tails EXCEPT ![s[2]] = new] /\ tails'[s[2]] = new
        /\ \A c \in DOMAIN tails : c # s[2] => tails'[c] = tails[c]
        /\ tails' \in [DOMAIN tails' -> Tails]
    BY <1>4, <1>5, <1>6, <1>9, <2>1, <2>2
  <2>4. /\ tailer' \in [Tailers -> TailerStates] /\ Tailers' = Tailers
        /\ tailer'[g] = t /\ \A x \in Tailers : x # g => tailer'[x] = tailer[x]
        /\ \A x \in Tailers : InPass(x, tailer[x])'
        /\ \A x \in Tailers : tailer[x].pc \notin {"start", "begin"}
                                 => tailer'[x].pc \notin {"start", "begin"}
    BY <1>3, <1>4, <1>6, <1>7, MovedTailers
  <2>5. StoreInv' /\ UNCHANGED <<seg, data>>
    BY <1>3, <1>4 DEF StoreInv, storeVars, FilesNamed
  <2>6. TailerInv'
    BY <1>3, <1>4, <1>6, <2>3, <2>4 DEF TailerInv, Places
  <2>7. ASSUME NEW c \in DOMAIN tails' PROVE TailOpen(c)'
    <3>1. CASE c = s[2]
      BY <1>3, <1>9, <2>2, <2>3, <2>5, <3>1 DEF TailOpen, StoreInv
    <3>2. CASE c # s[2]
      BY <1>3, <1>4, <1>6, <2>3, <2>5, <2>7, <3>2 DEF TailOpen, OpenInv
    <3> QED BY <3>1, <3>2
  <2>8. ASSUME NEW x \in Tailers, tailer'[x].latest # <<>> PROVE IsLater(tailer[x].latest)'
    <3>1. x # g
      BY <1>7, <2>4, <2>8
    <3>2. /\ tailer'[x] = tailer[x] /\ InPass(x, tailer[x]) /\ IsLater(tailer[x].latest)
      BY <1>3, <2>4, <2>8, <3>1 DEF TailerInv, OpenInv
    <3>3. tailer[x].latest[2] \in x /\ tailer[x].latest[2] \in DOMAIN tails
      BY <2>8, <3>2 DEF InPass
    <3>4. tailer[x].latest[2] # s[2]
      BY <1>3, <1>5, <1>6, <3>1, <3>3, TailersAre
    <3> QED BY <1>4, <2>3, <2>5, <3>2, <3>3, <3>4 DEF IsLater
  <2>9. ChannelFirst' /\ ChannelNext'
    BY <1>3, <1>4 DEF FeedInv, ChannelFirst, ChannelNext, After
  <2>10. ASSUME NEW c \in Containers, NEW place \in Places \cup {<<>>}, Sent(c, place)'
         PROVE  ReadNext(c, place)'
    <3>1. ReadNext(c, place)
      BY <1>3, <1>4, <2>10 DEF FeedInv, Sent
    <3>2. Of(c) \in Tailers /\ Of(c)' = Of(c) /\ c \in Of(c)
      BY <1>3, <1>4, TailersAre DEF Of
    <3>3. CASE place = <<>>
      BY <3>3 DEF ReadNext
    <3>4. CASE place # <<>> /\ c # s[2]
      <4>1. /\ c \in DOMAIN tails /\ tails[c].path # <<>> /\ After(c, place, Ahead(c))
            /\ tailer[Of(c)].pc \notin {"start", "begin"}
        BY <3>1, <3>4 DEF ReadNext
      <4>2. Ahead(c)' = Ahead(c) /\ tails'[c] = tails[c]
        BY <2>3, <3>4, <4>1 DEF Ahead
      <4> QED BY <1>4, <1>6, <2>4, <3>2, <4>1, <4>2 DEF ReadNext, After
    <3>5. CASE place # <<>> /\ c = s[2]
      <4>1. /\ tails[c].path # <<>> /\ After(c, place, Ahead(c))
            /\ tailer[Of(c)].pc \notin {"start", "begin"}
        BY <3>1, <3>5 DEF ReadNext
      <4>2. Of(c) = g
        BY <1>3, <1>5, <1>6, <3>5, TailersAre
      <4>3. pc = "follow" /\ new.pos = 0
        BY <1>2, <1>5, <2>2, <4>1, <4>2
      <4>4. Ahead(c)' = <<s[1], seg[s], 1>>
        BY <2>2, <2>3, <3>5, <4>3 DEF Ahead
      <4>5. s[1] > place[1] \/ c \in removed
        <5> SUFFICES ASSUME c \notin removed PROVE s[1] > place[1]
          OBVIOUS
        <5>1. tails[c].path[1] < s[1] /\ tails[c].path \in DOMAIN seg
          BY <1>3, <1>5, <3>5, <4>1 DEF IsLater, OpenInv, TailOpen
        <5>2. s[1] \in Nat /\ tails[c].path[1] \in Nat /\ place[1] \in Nat
          <6>1. place \in Places
            BY <3>5
          <6>2. place[1] \in Nat
            BY <6>1, StoreAssumption DEF Places, Days, Day, Times
          <6> QED BY <1>3, <1>5, <5>1, <6>2, DayTyped DEF StoreInv
        <5>3. place[1] <= tails[c].path[1]
          BY <3>5, <4>1, <5>2 DEF After, Ahead
        <5> QED BY <5>1, <5>2, <5>3
      <4>6. After(c, place, Ahead(c))'
        BY <1>4, <4>4, <4>5 DEF After
      <4> QED BY <1>4, <1>5, <1>6, <2>2, <2>3, <2>4, <3>2, <3>5, <4>1, <4>6 DEF ReadNext
    <3> QED BY <3>3, <3>4, <3>5
  <2>11. FeedInv'
    BY <2>9, <2>10 DEF FeedInv, Places
  <2>12. OpenInv'
    BY <2>4, <2>7, <2>8 DEF OpenInv
  <2> QED BY <1>4, <2>5, <2>6, <2>11, <2>12 DEF TailInv
<1> QED BY <1>8, <1>9

-----------------------------------------------------------------------------
(* What is handed on and sent. *)

\* The next line of a tail is at a place that follows what was handed on before.
LEMMA AheadIs ==
    ASSUME TailInv, NEW g \in Tailers, tailer[g].pc = "drain", NEW c \in Containers,
           c \in tailer[g].left, tails[c].pos < Len(FileOf(c))
    PROVE  /\ c \in DOMAIN tails /\ Ahead(c) \in Places /\ tails[c] \in Tails /\ g = Of(c)
           /\ tails[c].path # <<>>
           /\ \A place \in Places \cup {<<>>} : Sent(c, place) => After(c, place, Ahead(c))
<1>1. TailerInv /\ StoreInv /\ OpenInv /\ FeedInv
  BY DEF TailInv
<1>2. c \in DOMAIN tails /\ c \in g /\ tails[c] \in Tails
  BY <1>1 DEF TailerInv, InPass
<1>3. g = Of(c)
  BY <1>1, <1>2, TailersAre
<1>4. tails[c].path # <<>> /\ tails[c].pos \in Nat
  BY <1>2, EmptySeq DEF FileOf, Tails
<1>5. <<tails[c].path, tails[c].file>> \in DOMAIN data
  BY <1>1, <1>2, <1>4 DEF OpenInv, TailOpen
<1>6. tails[c].path \in Segments /\ tails[c].file \in 1..(MaxChanges + 1)
  BY <1>1, <1>5 DEF StoreInv
<1>7. tails[c].pos + 1 \in 1..MaxLines
  <2>1. /\ IsSequence(FileOf(c)) /\ Len(FileOf(c)) <= FirstLines + changes
        /\ changes \in 0..MaxChanges
    BY <1>1, <1>4, <1>5 DEF StoreInv, FileOf
  <2>2. Len(FileOf(c)) \in Nat
    BY <2>1, LengthOf
  <2> QED BY <1>4, <2>1, <2>2, StoreAssumption DEF MaxLines
<1>8. Ahead(c) \in Places
  BY <1>6, <1>7 DEF Ahead, Places, Segments
<1>9. \A place \in Places \cup {<<>>} : Sent(c, place) => After(c, place, Ahead(c))
  BY <1>1 DEF FeedInv, ReadNext, After
<1> QED BY <1>2, <1>3, <1>4, <1>8, <1>9

\* LineFeed's step.
Sends(c, place) ==
    place \in Places /\ After(c, got[c], place) /\ got' = [got EXCEPT ![c] = place]

LEMMA DrainStep ==
    ASSUME TailInv, NEW g \in Tailers, DrainLine(g)
    PROVE  /\ TailInv' /\ UNCHANGED removed
           /\ UNCHANGED got \/ \E c \in Containers, place \in Places : Sends(c, place)
<1>1. PICK c : c = Least(tailer[g].left)
  OBVIOUS
<1>2. PICK place : place = Ahead(c)
  OBVIOUS
<1>3. TailerInv /\ StoreInv /\ OpenInv /\ FeedInv
  BY DEF TailInv
<1>4. /\ tailer[g].pc = "drain" /\ tails[c].pos < Len(FileOf(c))
      /\ tails' = [tails EXCEPT ![c].pos = @ + 1]
      /\ IF rpc = "StreamLogs" THEN got' = [got EXCEPT ![c] = place] /\ UNCHANGED lineCh
         ELSE lineCh' = Append(lineCh, <<c, place>>) /\ UNCHANGED got
      /\ UNCHANGED <<storeVars, rpc, tailer, removed>>
  BY <1>1, <1>2, Zenon DEF DrainLine, Deliver, Ahead
<1>5. c \in tailer[g].left /\ c \in Containers
  BY <1>1, <1>4, InHand
<1>6. /\ c \in DOMAIN tails /\ place \in Places /\ tails[c] \in Tails /\ g = Of(c)
      /\ tails[c].path # <<>>
      /\ \A x \in Places \cup {<<>>} : Sent(c, x) => After(c, x, place)
  BY <1>2, <1>4, <1>5, AheadIs
<1>7. /\ DOMAIN tails' = DOMAIN tails /\ tails' \in [DOMAIN tails -> Tails]
      /\ tails'[c].path = tails[c].path /\ tails'[c].file = tails[c].file
      /\ tails'[c].pos = tails[c].pos + 1
      /\ \A x \in DOMAIN tails : x # c => tails'[x] = tails[x]
  <2>1. PICK new : new = [tails[c] EXCEPT !.pos = @ + 1]
    OBVIOUS
  <2>2. /\ new \in Tails /\ new.path = tails[c].path /\ new.file = tails[c].file
        /\ new.pos = tails[c].pos + 1
    BY <1>6, <2>1 DEF Tails
  <2>3. tails' = [tails EXCEPT ![c] = new] /\ tails \in [DOMAIN tails -> Tails]
    BY <1>3, <1>4, <1>6, <2>1 DEF TailerInv
  <2> QED BY <1>6, <2>2, <2>3
<1>8. /\ Tailers' = Tailers /\ \A x \in Containers : Of(x)' = Of(x)
      /\ \A x \in Tailers : InPass(x, tailer[x])'
  BY <1>3, <1>4, <1>7 DEF Tailers, Of, TailerInv, InPass
<1>9. StoreInv' /\ UNCHANGED <<seg, data>>
  BY <1>3, <1>4 DEF StoreInv, storeVars, FilesNamed
<1>10. TailerInv'
  <2>1. lineCh' \in Seq(Containers \X Places) /\ (rpc' = "StreamLogs" => lineCh' = <<>>)
    <3>1. <<c, place>> \in Containers \X Places /\ lineCh \in Seq(Containers \X Places)
      BY <1>3, <1>5, <1>6 DEF TailerInv
    <3>2. CASE rpc = "StreamLogs"
      BY <1>3, <1>4, <3>2 DEF TailerInv
    <3>3. CASE rpc # "StreamLogs"
      BY SMTT(30), <1>4, <3>1, <3>3
    <3> QED BY <3>2, <3>3
  <2>2. got' \in [Containers -> Places \cup {<<>>}]
    BY <1>3, <1>4, <1>6 DEF TailerInv
  <2> QED BY <1>3, <1>4, <1>7, <1>8, <2>1, <2>2 DEF TailerInv, Places
<1>11. OpenInv'
  <2>1. ASSUME NEW x \in DOMAIN tails' PROVE TailOpen(x)'
    <3>1. TailOpen(x) /\ tails'[x].path = tails[x].path /\ tails'[x].file = tails[x].file
      BY <1>3, <1>7 DEF OpenInv
    <3> QED BY <1>4, <1>9, <3>1 DEF TailOpen
  <2>2. ASSUME NEW x \in Tailers, tailer[x].latest # <<>> PROVE IsLater(tailer[x].latest)'
    <3>1. IsLater(tailer[x].latest) /\ tailer[x].latest[2] \in DOMAIN tails
      BY <1>3, <2>2 DEF OpenInv, TailerInv, InPass
    <3>2. tails'[tailer[x].latest[2]].path = tails[tailer[x].latest[2]].path
      BY <1>7, <3>1
    <3> QED BY <1>4, <1>9, <3>1, <3>2 DEF IsLater
  <2> QED BY <1>4, <1>8, <2>1, <2>2 DEF OpenInv
<1>12. After(c, place, Ahead(c))'
  BY <1>2, <1>4, <1>6, <1>7 DEF After, Ahead
<1>13. ASSUME NEW x \in Containers, NEW y \in Places \cup {<<>>}, Sent(x, y), x # c
       PROVE  ReadNext(x, y)'
  <2>1. ReadNext(x, y)
    BY <1>3, <1>13 DEF FeedInv
  <2>2. x \in DOMAIN tails => Ahead(x)' = Ahead(x)
    BY <1>7, <1>13 DEF Ahead
  <2> QED BY <1>4, <1>7, <1>8, <1>13, <2>1, <2>2 DEF ReadNext, After
<1>14. ReadNext(c, place)'
  BY <1>4, <1>5, <1>6, <1>7, <1>8, <1>12 DEF ReadNext
<1>15. CASE rpc = "StreamLogs"
  <2>1. /\ lineCh = <<>> /\ lineCh' = <<>> /\ Len(lineCh) = 0 /\ Len(lineCh') = 0
        /\ got' = [got EXCEPT ![c] = place]
    BY <1>3, <1>4, <1>15, EmptySeq DEF TailerInv
  <2>2. Sent(c, got[c])
    BY <2>1 DEF Sent
  <2>3. Sends(c, place)
    BY <1>3, <1>5, <1>6, <2>1, <2>2 DEF Sends, TailerInv
  <2>4. ChannelFirst' /\ ChannelNext'
    BY <2>1 DEF ChannelFirst, ChannelNext
  <2>5. ASSUME NEW x \in Containers, NEW y \in Places \cup {<<>>}, Sent(x, y)'
        PROVE  ReadNext(x, y)'
    <3>1. y = got'[x]
      BY <2>1, <2>5 DEF Sent
    <3>2. CASE x = c
      BY <1>3, <1>5, <1>14, <2>1, <3>1, <3>2 DEF TailerInv
    <3>3. CASE x # c
      BY <1>3, <1>5, <1>13, <2>1, <3>1, <3>3 DEF TailerInv, Sent
    <3> QED BY <3>2, <3>3
  <2> QED BY <1>4, <1>5, <1>6, <1>9, <1>10, <1>11, <2>3, <2>4, <2>5 DEF TailInv, FeedInv, Places
<1>16. CASE rpc # "StreamLogs"
  <2>1. /\ Len(lineCh) \in Nat /\ Len(lineCh') = Len(lineCh) + 1
        /\ \A i \in 1..Len(lineCh) : lineCh'[i] = lineCh[i] /\ lineCh[i] \in Containers \X Places
        /\ lineCh'[Len(lineCh) + 1] = <<c, place>> /\ UNCHANGED got
    BY <1>3, <1>4, <1>5, <1>6, <1>16 DEF TailerInv
  <2>2. ChannelFirst'
    <3> SUFFICES ASSUME NEW i \in 1..Len(lineCh'),
                        \A k \in 1..i - 1 : lineCh'[k][1] # lineCh'[i][1]
                 PROVE  After(lineCh'[i][1], got[lineCh'[i][1]], lineCh'[i][2])
      BY <1>4, <2>1 DEF ChannelFirst, After
    <3>1. CASE i \in 1..Len(lineCh)
      BY <1>3, <2>1, <3>1 DEF FeedInv, ChannelFirst
    <3>2. CASE i = Len(lineCh) + 1
      <4>1. \A k \in 1..Len(lineCh) : lineCh[k][1] # c
        BY <2>1, <3>2
      <4>2. Sent(c, got[c]) /\ got[c] \in Places \cup {<<>>}
        BY <1>3, <1>5, <4>1 DEF Sent, TailerInv
      <4> QED BY <1>6, <2>1, <3>2, <4>2
    <3> QED BY <2>1, <3>1, <3>2
  <2>3. ChannelNext'
    <3> SUFFICES ASSUME NEW i \in 1..Len(lineCh'), NEW j \in 1..Len(lineCh'), i < j,
                        lineCh'[i][1] = lineCh'[j][1],
                        \A k \in i + 1..j - 1 : lineCh'[k][1] # lineCh'[i][1]
                 PROVE  After(lineCh'[i][1], lineCh'[i][2], lineCh'[j][2])
      BY <1>4 DEF ChannelNext, After
    <3>1. i \in 1..Len(lineCh) /\ lineCh'[i] = lineCh[i] /\ lineCh[i] \in Containers \X Places
      BY <2>1
    <3>2. \A k \in i + 1..j - 1 : k \in 1..Len(lineCh) /\ lineCh[k][1] # lineCh[i][1]
      BY <2>1, <3>1
    <3>3. CASE j \in 1..Len(lineCh)
      BY <1>3, <2>1, <3>1, <3>2, <3>3 DEF FeedInv, ChannelNext
    <3>4. CASE j = Len(lineCh) + 1
      <4>1. lineCh[i] = <<c, lineCh[i][2]>> /\ lineCh[i][2] \in Places
        BY <2>1, <3>1, <3>4
      <4>2. \A k \in i + 1..Len(lineCh) : lineCh[k][1] # c
        BY <3>2, <3>4, <4>1
      <4>3. Sent(c, lineCh[i][2])
        BY <3>1, <4>1, <4>2 DEF Sent
      <4> QED BY <1>6, <2>1, <3>1, <3>4, <4>1, <4>3
    <3> QED BY <2>1, <3>3, <3>4
  <2>4. ASSUME NEW x \in Containers, NEW y \in Places \cup {<<>>}, Sent(x, y)'
        PROVE  ReadNext(x, y)'
    <3>1. CASE x = c
      <4>1. y = place
        BY <2>1, <2>4, <3>1 DEF Sent
      <4> QED BY <1>14, <3>1, <4>1
    <3>2. CASE x # c
      <4>1. Sent(x, y)
        BY <2>1, <2>4, <3>2 DEF Sent
      <4> QED BY <1>13, <3>2, <4>1
    <3> QED BY <3>1, <3>2
  <2> QED BY <1>4, <1>9, <1>10, <1>11, <2>1, <2>2, <2>3, <2>4 DEF TailInv, FeedInv, Places
<1> QED BY <1>15, <1>16

LEMMA ReceiveStep ==
    ASSUME TailInv, Receive
    PROVE  /\ TailInv' /\ UNCHANGED removed
           /\ \E c \in Containers, place \in Places : Sends(c, place)
<1>1. PICK c, place : c = lineCh[1][1] /\ place = lineCh[1][2]
  OBVIOUS
<1>2. TailerInv /\ StoreInv /\ OpenInv /\ FeedInv
  BY DEF TailInv
<1>3. /\ rpc = "StreamWorkloadLogs" /\ lineCh # <<>> /\ lineCh' = Tail(lineCh)
      /\ got' = [got EXCEPT ![c] = place]
      /\ UNCHANGED <<storeVars, rpc, tailer, tails, removed>>
  BY <1>1 DEF Receive, Deliver
<1>4. /\ Len(lineCh) \in Nat /\ Len(lineCh) >= 1 /\ Len(lineCh') = Len(lineCh) - 1
      /\ lineCh' \in Seq(Containers \X Places)
      /\ \A i \in 1..Len(lineCh') : lineCh'[i] = lineCh[i + 1]
      /\ \A i \in 1..Len(lineCh) : lineCh[i] \in Containers \X Places
  BY <1>2, <1>3 DEF TailerInv
<1>5. lineCh[1] = <<c, place>> /\ c \in Containers /\ place \in Places /\ 1 \in 1..Len(lineCh)
  BY <1>1, <1>4
<1>6. \A i \in 2..Len(lineCh) : i - 1 \in 1..Len(lineCh') /\ lineCh[i] = lineCh'[i - 1]
  BY <1>4
<1>7. Sends(c, place)
  <2>1. After(c, got[c], place)
    BY <1>2, <1>5 DEF FeedInv, ChannelFirst
  <2> QED BY <1>3, <1>5, <2>1 DEF Sends
<1>8. got' \in [Containers -> Places \cup {<<>>}]
      /\ \A x \in Containers : got'[x] = IF x = c THEN place ELSE got[x]
  BY <1>2, <1>3, <1>5 DEF TailerInv
<1>9. StoreInv' /\ UNCHANGED <<seg, data>>
  BY <1>2, <1>3 DEF StoreInv, storeVars, FilesNamed
<1>10. Tailers' = Tailers /\ \A x \in Containers : Of(x)' = Of(x)
  BY <1>3 DEF Tailers, Of
<1>11. TailerInv' /\ OpenInv'
  BY <1>2, <1>3, <1>4, <1>8, <1>9, <1>10
     DEF TailerInv, InPass, OpenInv, TailOpen, IsLater, Places
<1>12. ChannelFirst'
  <2> SUFFICES ASSUME NEW i \in 1..Len(lineCh'),
                      \A k \in 1..i - 1 : lineCh'[k][1] # lineCh'[i][1]
               PROVE  After(lineCh'[i][1], got'[lineCh'[i][1]], lineCh'[i][2])
    BY <1>3 DEF ChannelFirst, After
  <2>1. i + 1 \in 1..Len(lineCh) /\ lineCh'[i] = lineCh[i + 1] /\ 1 < i + 1
        /\ lineCh[i + 1] \in Containers \X Places
    BY <1>4
  <2>2. ASSUME NEW k \in 1 + 1..(i + 1) - 1 PROVE lineCh[k][1] # lineCh[i + 1][1]
    <3>1. k - 1 \in 1..i - 1 /\ lineCh[k] = lineCh'[k - 1]
      BY <1>6, <2>1
    <3> QED BY <2>1, <3>1
  <2>3. CASE lineCh[i + 1][1] = c
    <3>1. After(lineCh[1][1], lineCh[1][2], lineCh[i + 1][2])
      BY <1>2, <1>5, <2>1, <2>2, <2>3, SMTT(30) DEF FeedInv, ChannelNext
    <3> QED BY <1>5, <1>8, <2>1, <2>3, <3>1
  <2>4. CASE lineCh[i + 1][1] # c
    <3>1. \A k \in 1..(i + 1) - 1 : lineCh[k][1] # lineCh[i + 1][1]
      <4> SUFFICES ASSUME NEW k \in 1..(i + 1) - 1 PROVE lineCh[k][1] # lineCh[i + 1][1]
        OBVIOUS
      <4>1. k = 1 \/ k \in 1 + 1..(i + 1) - 1
        BY <2>1
      <4> QED BY <1>5, <2>2, <2>4, <4>1
    <3>2. After(lineCh[i + 1][1], got[lineCh[i + 1][1]], lineCh[i + 1][2])
      BY <1>2, <2>1, <3>1 DEF FeedInv, ChannelFirst
    <3>3. lineCh[i + 1][1] \in Containers
      BY <2>1
    <3> QED BY <1>8, <2>1, <2>4, <3>2, <3>3
  <2> QED BY <2>3, <2>4
<1>13. ChannelNext'
  <2> SUFFICES ASSUME NEW i \in 1..Len(lineCh'), NEW j \in 1..Len(lineCh'), i < j,
                      lineCh'[i][1] = lineCh'[j][1],
                      \A k \in i + 1..j - 1 : lineCh'[k][1] # lineCh'[i][1]
               PROVE  After(lineCh'[i][1], lineCh'[i][2], lineCh'[j][2])
    BY <1>3 DEF ChannelNext, After
  <2>1. /\ i + 1 \in 1..Len(lineCh) /\ j + 1 \in 1..Len(lineCh) /\ i + 1 < j + 1
        /\ lineCh'[i] = lineCh[i + 1] /\ lineCh'[j] = lineCh[j + 1]
    BY <1>4
  <2>2. ASSUME NEW k \in (i + 1) + 1..(j + 1) - 1 PROVE lineCh[k][1] # lineCh[i + 1][1]
    <3>1. k - 1 \in i + 1..j - 1 /\ lineCh[k] = lineCh'[k - 1]
      BY <1>6, <2>1
    <3> QED BY <2>1, <3>1
  <2> QED BY <1>2, <2>1, <2>2 DEF FeedInv, ChannelNext
<1>14. ASSUME NEW x \in Containers, NEW y \in Places \cup {<<>>}, Sent(x, y)'
       PROVE  ReadNext(x, y)'
  <2>1. Sent(x, y)
    <3>1. CASE y = got'[x] /\ \A i \in 1..Len(lineCh') : lineCh'[i][1] # x
      <4>1. \A i \in 2..Len(lineCh) : lineCh[i][1] # x
        BY <1>6, <3>1
      <4>2. CASE x = c
        <5>1. lineCh[1] = <<x, y>> /\ \A i \in 1 + 1..Len(lineCh) : lineCh[i][1] # x
          BY <1>5, <1>8, <3>1, <4>1, <4>2
        <5> QED BY <1>5, <5>1 DEF Sent
      <4>3. CASE x # c
        <5>1. y = got[x] /\ \A i \in 1..Len(lineCh) : i = 1 \/ i \in 2..Len(lineCh)
          BY <1>4, <1>8, <3>1, <4>3
        <5> QED BY <1>5, <4>1, <4>3, <5>1 DEF Sent
      <4> QED BY <4>2, <4>3
    <3>2. ASSUME NEW i \in 1..Len(lineCh'), lineCh'[i] = <<x, y>>,
                 \A k \in i + 1..Len(lineCh') : lineCh'[k][1] # x
          PROVE  Sent(x, y)
      <4>1. i + 1 \in 1..Len(lineCh) /\ lineCh[i + 1] = <<x, y>>
        BY <1>4, <3>2
      <4>2. ASSUME NEW k \in (i + 1) + 1..Len(lineCh) PROVE lineCh[k][1] # x
        <5>1. k - 1 \in i + 1..Len(lineCh') /\ lineCh[k] = lineCh'[k - 1]
          BY <1>4, <1>6
        <5> QED BY <3>2, <5>1
      <4> QED BY <4>1, <4>2 DEF Sent
    <3> QED BY <1>14, <3>1, <3>2 DEF Sent
  <2>2. ReadNext(x, y)
    BY <1>2, <2>1 DEF FeedInv
  <2> QED BY <1>3, <1>10, <2>2 DEF ReadNext, After, Ahead
<1> QED BY <1>3, <1>5, <1>7, <1>9, <1>11, <1>12, <1>13, <1>14 DEF TailInv, FeedInv, Places

-----------------------------------------------------------------------------
(* The whole. *)

\* The store changes under the tailers.
LEMMA StoreMoves ==
    ASSUME TailInv, StoreInv', UNCHANGED <<rpc, tailer, tails, lineCh, got>>,
           removed \subseteq removed', removed' \subseteq Containers,
           DOMAIN data \subseteq DOMAIN data',
           \A s \in DOMAIN seg : s \in DOMAIN seg' \/ s[2] \in removed'
    PROVE  TailInv'
<1>1. TailerInv /\ OpenInv /\ FeedInv
  BY DEF TailInv
<1>2. Tailers' = Tailers
  BY DEF Tailers
<1>3. TailerInv'
  BY <1>1, <1>2 DEF TailerInv, InPass, Places
<1>4. OpenInv'
  BY <1>1, <1>2 DEF OpenInv, TailOpen, IsLater
<1>5. FeedInv'
  BY <1>1, FeedKept
<1> QED BY <1>3, <1>4, <1>5 DEF TailInv

LEMMA StoreStep ==
    ASSUME TailInv, Store
    PROVE  /\ TailInv' /\ UNCHANGED got
           /\ UNCHANGED removed \/ \E c \in Containers : removed' = removed \cup {c}
<1>1. StoreInv /\ TailerInv
  BY DEF TailInv
<1>2. ASSUME NEW s \in Segments, NewSegment(s)
      PROVE  TailInv' /\ UNCHANGED <<got, removed>>
  <2>1. CreateSegment(s) /\ UNCHANGED <<rpc, tailer, tails, lineCh, got, removed>>
    BY <1>2 DEF NewSegment, rpcVars
  <2>2. StoreInv' /\ DOMAIN data \subseteq DOMAIN data' /\ DOMAIN seg \subseteq DOMAIN seg'
    BY <1>1, <2>1, CreateStore
  <2>3. removed' \subseteq Containers
    BY <1>1, <2>1 DEF TailerInv
  <2> QED BY <2>1, <2>2, <2>3, StoreMoves
<1>3. ASSUME NEW s \in Segments, Lose(s)
      PROVE  TailInv' /\ UNCHANGED got /\ \E c \in Containers : removed' = removed \cup {c}
  <2>1. DeleteSegment(s) /\ UNCHANGED <<rpc, tailer, tails, lineCh, got>>
        /\ removed' = removed \cup {s[2]} /\ s[2] \in Containers
    BY <1>3 DEF Lose, rpcVars, Segments
  <2>2. StoreInv' /\ UNCHANGED data /\ DOMAIN seg' = DOMAIN seg \ {s}
    BY <1>1, <2>1, DeleteStore
  <2>3. removed' \subseteq Containers
    BY <1>1, <2>1 DEF TailerInv
  <2> QED BY <2>1, <2>2, <2>3, StoreMoves
<1>4. ASSUME NEW c \in Containers, NEW t \in Times, Write(c, t)
      PROVE  TailInv' /\ UNCHANGED <<got, removed>>
  <2>1. AppendLine(c, t) /\ UNCHANGED <<rpc, tailer, tails, lineCh, got, removed>>
    BY <1>4 DEF Write, rpcVars
  <2>2. StoreInv' /\ DOMAIN data' = DOMAIN data /\ seg' = seg
    BY <1>1, <2>1, AppendStore
  <2>3. removed' \subseteq Containers
    BY <1>1, <2>1 DEF TailerInv
  <2> QED BY <2>1, <2>2, <2>3, StoreMoves
<1> QED BY <1>2, <1>3, <1>4 DEF Store

\* Nothing the feed depends on.
LEMMA TailStutter ==
    ASSUME TailInv, UNCHANGED <<storeVars, rpc, tailer, tails, lineCh, got, removed>>
    PROVE  TailInv'
<1>1. StoreInv' /\ UNCHANGED <<seg, data>> /\ removed \subseteq Containers
  BY DEF TailInv, StoreInv, storeVars, FilesNamed, TailerInv
<1> QED BY <1>1, StoreMoves

\* Each step keeps the invariant, and sends the line that follows, or loses a segment,
\* or does not show to the client.
LEMMA TailStep ==
    ASSUME TailInv, [Next]_vars
    PROVE  /\ TailInv'
           /\ \/ UNCHANGED <<got, removed>>
              \/ UNCHANGED removed /\ \E c \in Containers, place \in Places : Sends(c, place)
              \/ UNCHANGED got /\ \E c \in Containers : removed' = removed \cup {c}
<1>1. CASE Store
  BY <1>1, StoreStep
<1>2. CASE Receive
  BY <1>2, ReceiveStep
<1>3. CASE HandlerReturns \/ Cancel \/ UNCHANGED vars
  <2>1. UNCHANGED <<storeVars, rpc, tailer, tails, lineCh, got, removed>>
    BY <1>3 DEF HandlerReturns, Cancel, vars, rpcVars
  <2> QED BY <2>1, TailStutter
<1>4. ASSUME NEW g \in Tailers, Tailer(g)
      PROVE  /\ TailInv'
             /\ \/ UNCHANGED <<got, removed>>
                \/ UNCHANGED removed /\ \E c \in Containers, place \in Places : Sends(c, place)
  <2>1. CASE Begin(g)
    BY <2>1, BeginStep
  <2>2. CASE Look(g)
    BY <2>2, LookStep
  <2>3. CASE Open(g)
    BY <2>3, OpenStep
  <2>4. CASE DrainLine(g)
    BY <2>4, DrainStep
  <2>5. CASE Drained(g)
    BY <2>5, DrainedStep
  <2>6. CASE Stop(g)
    BY <2>6, ReturnStep DEF Stop
  <2>7. CASE Tick(g)
    BY <2>7, TickStep
  <2>8. CASE OpenFails(g)
    BY <2>8, ReturnStep DEF OpenFails
  <2> QED BY <1>4, <2>1, <2>2, <2>3, <2>4, <2>5, <2>6, <2>7, <2>8 DEF Tailer
<1> QED BY <1>1, <1>2, <1>3, <1>4 DEF Next, Handler, Tailer

LEMMA TailStarts == Init => TailInv
<1> SUFFICES ASSUME Init PROVE TailInv
  OBVIOUS
<1>1. StoreInv
  BY StoreStarts DEF Init
<1>2. DOMAIN tails = {} /\ Len(lineCh) = 0 /\ tails \in [DOMAIN tails -> Tails]
  BY DEF Init
<1>3. /\ \A g \in Tailers : tailer[g] = [pc |-> "start", left |-> {}, latest |-> <<>>]
      /\ tailer \in [Tailers -> TailerStates]
  BY DEF Init, TailerStates
<1>4. TailerInv
  BY <1>2, <1>3 DEF Init, TailerInv, InPass
<1>5. OpenInv
  BY <1>2, <1>3 DEF OpenInv
<1>6. FeedInv
  BY <1>2 DEF Init, FeedInv, ChannelFirst, ChannelNext, Sent, ReadNext
<1> QED BY <1>1, <1>4, <1>5, <1>6 DEF TailInv

\* Where every tail reads next follows what its tailer has handed on, whatever
\* segments appear and are removed meanwhile (log_service.go:752-901).
THEOREM TailInvariant == Spec => []TailInv
<1>1. TailInv /\ [Next]_vars => TailInv'
  BY TailStep
<1> QED BY <1>1, TailStarts, PTL DEF Spec

\* The tailers, the channel and the handler implement LineFeed: what the client gets
\* of a container is in the order of its files, with nothing twice and nothing left
\* out within a file, unless one was removed (log_service.go:756).
THEOREM TailSendsInOrder == Spec => SendsInOrder
<1>1. Init => Feed!Init
  BY DEF Init, Feed!Init
<1>2. TailInv /\ [Next]_vars => [Feed!Next]_Feed!feedVars
  <2> SUFFICES ASSUME TailInv, [Next]_vars PROVE [Feed!Next]_Feed!feedVars
    OBVIOUS
  <2>1. ASSUME NEW c \in Containers, NEW place \in Places, Sends(c, place), UNCHANGED removed
        PROVE  Feed!Send(c)
    <3>1. Feed!Follows(c, place)
      BY <2>1 DEF Sends, After, Feed!Follows
    <3> QED BY <2>1, <3>1 DEF Sends, Feed!Send, Places
  <2>2. ASSUME NEW c \in Containers, removed' = removed \cup {c}, UNCHANGED got
        PROVE  Feed!Remove(c)
    BY <2>2 DEF Feed!Remove
  <2> QED BY <2>1, <2>2, TailStep DEF Feed!Next, Feed!feedVars
<1> QED BY <1>1, <1>2, TailInvariant, PTL DEF Spec, SendsInOrder, Feed!Spec
=============================================================================
