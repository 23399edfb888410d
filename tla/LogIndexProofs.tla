--------------------------- MODULE LogIndexProofs ---------------------------
(* Proofs about LogIndex, for every value of its constants. *)
EXTENDS LogIndex, SequenceTheorems, TLAPS

-----------------------------------------------------------------------------
(* The inductive invariant, part by part.                                  *)

\* Which operation may be at which step; what it has done to the keys and the
\* manifest by then.
Control ==
    /\ ready = "no" <=> op = "migrate"
    /\ step = "free" <=> op = "none"
    /\ step = "compact" <=> op = "compact"
    /\ step = "next" => op = "migrate"
    /\ step \in {"clear", "read"} => op \in {"create", "migrate"}
    /\ step \in {"truncate", "encode"} => op \in {"create", "delete", "migrate", "undo"}
    /\ step = "drop" => op = "delete" /\ cur \notin mfKeys
    /\ step = "encode" => mf = "broken"
    /\ op = "create" => cur \in keys
    /\ op \in {"delete", "undo"} => cur \notin keys
    /\ op = "migrate" /\ step \in {"next", "clear", "read"} => mf = "old"
    /\ op = "migrate" /\ step \in {"truncate", "encode"} => left = {}

\* Lines are numbered in the order they are written, each stored once at most.
LinesNumbered ==
    /\ \A s \in Segments : Len(file[s]) <= written
    /\ \A s \in Segments : \A p \in 1..Len(file[s]) : file[s][p] <= written
    /\ \A s, t \in Segments : \A p \in 1..Len(file[s]), q \in 1..Len(file[t]) :
          file[s][p] = file[t][q] => s = t /\ p = q

\* A line is in its writer's segment or nowhere, at the offset of its Seek
\* unless it has strayed, and never before.
PlacedFrom(l, s, p) ==
    /\ l <= written
    /\ \A t \in Segments : \A q \in 1..Len(file[t]) : file[t][q] = l => t = s /\ p <= q
    /\ l \notin strayed => p <= Len(file[s]) /\ file[s][p] = l

WritersPlaced ==
    /\ \A w \in Writers :
          /\ wpc[w] = "seeked" => woff[w] = Len(file[wseg[w]])
          /\ wpc[w] = "overtaken" => woff[w] <= Len(file[wseg[w]])
          /\ wpc[w] # "idle" => woff[w] <= written
          /\ wpc[w] = "observe" => /\ wline[w] \in Lines /\ woff[w] < written
                                   /\ PlacedFrom(wline[w], wseg[w], woff[w] + 1)
    /\ \A w, v \in Writers :
          wpc[w] = "observe" /\ wpc[v] = "observe" /\ wline[w] = wline[v] => w = v

RefsPlaced ==
    \A k \in Keys : \A r \in refs[k] : PlacedFrom(r.line, r.seg, r.pos)

Base == TypeOK /\ Control /\ LinesNumbered /\ WritersPlaced /\ RefsPlaced

\* The lines of a segment are in the index of k, but for those excepted.
CoveredIn(k, s) ==
    \A l \in LinesOf(s) : Indexed(k, s, l) \/ l \in Unobserved \/ <<k, l>> \in excused

\* Besides the keys in use, the one whose deletion may yet be taken back, and
\* what a rebuild has read so far.
Due(k, s) ==
    \/ k \in keys /\ ~Rebuilding(k)
    \/ k = cur /\ op = "delete" /\ step # "drop"
    \/ k = cur /\ step = "read" /\ s \notin todo

Coverage == \A k \in Keys, s \in Segments : Due(k, s) => CoveredIn(k, s)

\* For all keys, used or not; a line not yet observed has no reference but that
\* of a rebuild, and a rebuild has none of a segment it has not read.
Uniqueness ==
    /\ \A k \in Keys : \A r, q \in refs[k] : r.line = q.line => r = q \/ <<k, r.line>> \in doubled
    /\ \A k \in Keys : \A r \in again[k] : <<k, r.line>> \in doubled
    /\ \A k \in Keys : \A r \in refs[k] : r.line \in Unobserved => <<k, r.line>> \in doubled
    /\ step = "read" => \A r \in refs[cur] : r.seg \notin todo

\* What the manifest lists, up to the change that is being saved.
SameKeys(ks) == ks = mfKeys \/ (ks \ undeleted \subseteq mfKeys /\ faults > 0)

Listing ==
    mf # "broken" =>
        /\ op \in {"none", "compact", "migrate"} => SameKeys(keys)
        /\ op = "create" /\ step = "truncate" => SameKeys(keys \ {cur})
        /\ op = "delete" /\ step = "truncate" => SameKeys(keys \cup {cur})
        /\ op \in {"create", "delete"} /\ step # "truncate" => keys = mfKeys
        /\ op = "undo" => keys \subseteq mfKeys

-----------------------------------------------------------------------------
(* Facts about the model's operators.                                      *)

\* What Append makes of a segment.
LEMMA AppendLine ==
    ASSUME NEW ls \in Seq(Lines), NEW l \in Lines
    PROVE  /\ Append(ls, l) \in Seq(Lines)
           /\ Len(ls) \in Nat /\ Len(Append(ls, l)) = Len(ls) + 1
           /\ \A p \in 1..Len(ls) : Append(ls, l)[p] = ls[p]
           /\ Append(ls, l)[Len(ls) + 1] = l
  BY AppendProperties, LenProperties

\* The segments are sequences of numbers.
LEMMA FileTyped ==
    ASSUME TypeOK
    PROVE  /\ written \in Nat
           /\ \A s \in Segments : file[s] \in Seq(Lines) /\ Len(file[s]) \in Nat
           /\ \A s \in Segments : \A p \in 1..Len(file[s]) : file[s][p] \in Lines
           /\ Lines \subseteq Nat
<1>1. \A s \in Segments : file[s] \in Seq(Lines)
  BY DEF TypeOK
<1>2. written \in Nat /\ Lines \subseteq Nat
  BY IndexAssumption DEF TypeOK, Lines
<1> QED BY <1>1, <1>2, LenProperties, ElementOfSeq

\* The steps of an operation leave the segments and the writers alone.
LEMMA OperationsAreQuiet ==
    ASSUME ManagerStep \/ Compact \/ \E k \in Keys : Create(k) \/ Delete(k)
    PROVE  UNCHANGED <<file, written, writerVars, strayed, crashes>>
  BY DEF ManagerStep, SaveStep, RebuildStep, OtherStep, Compact, Create, Delete, Truncate,
         Encode, SaveFails, SavingFails, MigrateNext, MigrateSaves, Clear, ReadSegment, RebuildEnds,
         RebuildFails, Drop, CompactShard, CompactEnds, volumeVars, managerVars, writerVars,
         boundVars, historyVars, shardVars

\* A rebuild that reads a segment adds all of its references.
LEMMA WholeSegmentRead ==
    ASSUME TypeOK, NEW s \in Segments, ReadSegment(s)
    PROVE  /\ refs' = [refs EXCEPT ![cur] = @ \cup RefsOf(s)]
           /\ again' = [again EXCEPT ![cur] = @ \cup (RefsOf(s) \cap refs[cur])]
           /\ doubled' = doubled \cup ({cur} \X ({r.line : r \in RefsOf(s)} \cap Unobserved))
<1>1. {r \in RefsOf(s) : r.pos <= Len(file[s])} = RefsOf(s)
  BY FileTyped DEF RefsOf
<1> QED BY <1>1, Zenon DEF ReadSegment, Backfill

\* What a rebuild that fails has added: some references of a segment it had
\* yet to read, or none.
Reading(read) ==
    /\ read = {} \/ (step = "read" /\ \E s \in todo : read \subseteq RefsOf(s))
    /\ refs' = [refs EXCEPT ![cur] = @ \cup read]
    /\ again' = [again EXCEPT ![cur] = @ \cup (read \cap refs[cur])]
    /\ doubled' = doubled \cup ({cur} \X ({r.line : r \in read} \cap Unobserved))

LEMMA FailedRebuildRead ==
    ASSUME TypeOK, RebuildFails
    PROVE  /\ \E read : Reading(read)
           /\ shape' \in {shape, [shape EXCEPT ![cur] = "tail"]}
<1>1. CASE UNCHANGED <<shardVars, doubled>>
  <2>1. Reading({})
    BY <1>1 DEF Reading, shardVars, TypeOK
  <2> QED BY <1>1, <2>1 DEF shardVars
<1>2. ASSUME NEW s \in todo, NEW n \in Int, Backfill(s, n), step = "read"
      PROVE  \E read : Reading(read)
  <2>1. Reading({r \in RefsOf(s) : r.pos <= n})
    BY <1>2, Zenon DEF Reading, Backfill
  <2> QED BY <2>1
<1>3. CASE /\ step = "read"
           /\ \E s \in todo : \E n \in 1..Len(file[s]) :
                 \/ Backfill(s, n - 1) /\ shape' \in {shape, [shape EXCEPT ![cur] = "tail"]}
                 \/ Backfill(s, n) /\ UNCHANGED shape
  <2>1. PICK s \in todo : \E n \in 1..Len(file[s]) :
                 \/ Backfill(s, n - 1) /\ shape' \in {shape, [shape EXCEPT ![cur] = "tail"]}
                 \/ Backfill(s, n) /\ UNCHANGED shape
    BY <1>3
  <2>2. PICK n \in 1..Len(file[s]) :
                 \/ Backfill(s, n - 1) /\ shape' \in {shape, [shape EXCEPT ![cur] = "tail"]}
                 \/ Backfill(s, n) /\ UNCHANGED shape
    BY <2>1
  <2>3. n \in Int /\ n - 1 \in Int
    OBVIOUS
  <2> QED BY <1>2, <1>3, <2>2, <2>3, Zenon
<1> QED BY <1>1, <1>3, Zenon DEF RebuildFails, RebuildStops, shardVars

-----------------------------------------------------------------------------
(* Types, control and places.                                              *)

LEMMA BaseInit == Init => Base
  BY IndexAssumption
     DEF Init, Base, TypeOK, Control, LinesNumbered, WritersPlaced, RefsPlaced, PlacedFrom,
         AnyKey, AnySegment, Steps, Lines

LEMMA TypeStep == Base /\ [Next]_vars => TypeOK'
<1> SUFFICES ASSUME Base, [Next]_vars PROVE TypeOK'
  OBVIOUS
<1> USE IndexAssumption DEF Base, Lines, Steps
<1>1. ASSUME NEW w \in Writers, NEW s \in Segments, Seek(w, s) PROVE TypeOK'
  <2>1. Len(file[s]) \in 0..MaxLines
    BY LenProperties DEF TypeOK, LinesNumbered
  <2> QED BY <1>1, <2>1 DEF Seek, TypeOK, volumeVars, managerVars, boundVars, historyVars
<1>2. ASSUME NEW w \in Writers, WriteLine(w) PROVE TypeOK'
  <2>1. written + 1 \in Lines
    BY <1>2 DEF WriteLine, TypeOK
  <2>2. Append(file[wseg[w]], written + 1) \in Seq(Lines)
    BY <2>1, AppendLine DEF TypeOK
  <2>3. file' \in [Segments -> Seq(Lines)]
    BY <1>2, <2>2 DEF WriteLine, TypeOK
  <2>4. wpc' \in [Writers -> {"idle", "seeked", "overtaken", "adrift", "observe"}]
    BY <1>2 DEF WriteLine, Now, TypeOK
  <2>5. /\ written' \in 0..MaxLines /\ strayed' \subseteq Lines
        /\ wline' \in [Writers -> 0..MaxLines]
    BY <1>2, <2>1 DEF WriteLine, TypeOK
  <2>6. UNCHANGED <<mf, mfKeys, shardVars, managerVars, wseg, woff, faults, crashes, excused,
                    doubled, undeleted>>
    BY <1>2 DEF WriteLine
  <2> QED BY <2>3, <2>4, <2>5, <2>6 DEF TypeOK, shardVars, managerVars
<1>3. ASSUME NEW w \in Writers, ObserveLineAt(w) PROVE TypeOK'
  <2> DEFINE ref == [seg |-> wseg[w], pos |-> woff[w] + 1, line |-> wline[w]]
  <2>1. wline[w] \in Lines /\ ref \in Refs
    BY <1>3, SMTT(30) DEF ObserveLineAt, WritersPlaced, TypeOK, Refs
  <2>2. UNCHANGED <<file, mf, mfKeys, managerVars, written, crashes, doubled, strayed,
                    undeleted>>
    BY <1>3 DEF ObserveLineAt
  <2>3. /\ wpc' \in [Writers -> {"idle", "seeked", "overtaken", "adrift", "observe"}]
        /\ wseg' \in [Writers -> Segments]
        /\ woff' \in [Writers -> 0..MaxLines] /\ wline' \in [Writers -> 0..MaxLines]
    BY <1>3 DEF ObserveLineAt, TypeOK, AnySegment
  <2>4. /\ refs' \in [Keys -> SUBSET Refs] /\ again' \in [Keys -> SUBSET Refs]
        /\ shape' \in [Keys -> {"whole", "tail", "garbled", "old"}]
        /\ faults' \in 0..MaxFaults
    BY <1>3, <2>1 DEF ObserveLineAt, TypeOK
  <2>5. excused' \subseteq Keys \X Lines
    BY <1>3, <2>1 DEF ObserveLineAt, TypeOK
  <2> QED BY <2>2, <2>3, <2>4, <2>5 DEF TypeOK, managerVars
<1>4. ASSUME NEW s \in Segments, DeleteSegment(s) PROVE TypeOK'
  <2>1. <<>> \in Seq(Lines) /\ LinesOf(s) \subseteq Lines
    BY EmptySeq DEF TypeOK, LinesOf
  <2>2. wpc' \in [Writers -> {"idle", "seeked", "overtaken", "adrift", "observe"}]
    BY <1>4 DEF DeleteSegment, Now, TypeOK
  <2> QED BY <1>4, <2>1, <2>2 DEF DeleteSegment, TypeOK, shardVars, managerVars, boundVars
<1>5. ASSUME NEW k \in Keys, Create(k) \/ Delete(k) \/ Compact PROVE TypeOK'
  BY <1>5 DEF Create, Delete, Compact, TypeOK, volumeVars, writerVars, boundVars, historyVars
<1>6. ASSUME Truncate \/ Encode \/ SaveFails PROVE TypeOK'
  <2>1. CASE Truncate
    BY <2>1 DEF Truncate, TypeOK, shardVars, writerVars, boundVars, historyVars
  <2>2. CASE Encode
    BY <2>2 DEF Encode, Release, TypeOK, shardVars, writerVars, boundVars, historyVars
  <2>3. CASE SaveFails
    <3>1. /\ keys' \subseteq Keys /\ faults' \in 0..MaxFaults /\ mfKeys' \subseteq Keys
          /\ mf' \in {"absent", "broken", "old", "new"} /\ undeleted' \subseteq Keys
      BY <2>3 DEF SaveFails, SavingFails, Fault, TypeOK
    <3>2. op' = "none" /\ step' = "free" /\ ready' = "yes"
      BY <2>3 DEF SaveFails, SavingFails, Release
    <3>3. UNCHANGED <<file, shardVars, cur, left, todo, writerVars, written, crashes, excused,
                      doubled, strayed>>
      BY <2>3 DEF SaveFails, SavingFails
    <3> QED BY <3>1, <3>2, <3>3 DEF TypeOK, shardVars, writerVars
  <2> QED BY <1>6, <2>1, <2>2, <2>3
<1>7. ASSUME NEW k \in Keys, MigrateNext(k) \/ MigrateSaves \/ RebuildEnds PROVE TypeOK'
  BY <1>7 DEF MigrateNext, MigrateSaves, RebuildEnds, Release, TypeOK, volumeVars,
     writerVars, boundVars, historyVars
<1>8. ASSUME Clear PROVE TypeOK'
  BY <1>8 DEF Clear, TypeOK, writerVars, boundVars
<1>0. \A s \in Segments : RefsOf(s) \subseteq Refs
  <2> TAKE s \in Segments
  <2>1. Len(file[s]) \in 0..MaxLines /\ \A p \in 1..Len(file[s]) : file[s][p] \in Lines
    BY LenProperties, ElementOfSeq DEF TypeOK, LinesNumbered
  <2> QED BY <2>1 DEF RefsOf, Refs
<1>9. ASSUME NEW s \in Segments, ReadSegment(s) PROVE TypeOK'
  <2>1. {r.line : r \in RefsOf(s)} \subseteq Lines
    BY <1>0 DEF Refs
  <2>2. /\ refs' \in [Keys -> SUBSET Refs] /\ again' \in [Keys -> SUBSET Refs]
        /\ doubled' \subseteq Keys \X Lines
    <3>1. /\ refs' = [refs EXCEPT ![cur] = @ \cup RefsOf(s)]
          /\ again' = [again EXCEPT ![cur] = @ \cup (RefsOf(s) \cap refs[cur])]
          /\ doubled' = doubled \cup ({cur} \X ({r.line : r \in RefsOf(s)} \cap Unobserved))
      BY <1>9, WholeSegmentRead
    <3> QED BY <1>0, <2>1, <3>1 DEF TypeOK
  <2> QED BY <1>9, <2>2 DEF ReadSegment, TypeOK, writerVars, boundVars
<1>10. ASSUME RebuildFails PROVE TypeOK'
  <2>1. Stored \subseteq Lines
    BY DEF Stored, LinesOf, TypeOK
  <2>2. excused' \subseteq Keys \X Lines
    BY <1>10, <2>1 DEF RebuildFails, TypeOK
  <2>3. PICK read : Reading(read)
    BY <1>10, FailedRebuildRead
  <2>4. read \subseteq Refs /\ {r.line : r \in read} \subseteq Lines
    BY <1>0, <2>3 DEF Reading, Refs, TypeOK
  <2>5. /\ refs' \in [Keys -> SUBSET Refs] /\ again' \in [Keys -> SUBSET Refs]
        /\ doubled' \subseteq Keys \X Lines
    BY <2>3, <2>4 DEF Reading, TypeOK
  <2>6. /\ shape' \in [Keys -> {"whole", "tail", "garbled", "old"}]
        /\ faults' \in 0..MaxFaults
    <3>1. shape' \in {shape, [shape EXCEPT ![cur] = "tail"]}
      BY <1>10, FailedRebuildRead
    <3>2. faults' = faults \/ Fault
      BY <1>10 DEF RebuildFails, RebuildStops
    <3>3. faults' \in 0..MaxFaults
      BY <3>2 DEF Fault, TypeOK
    <3>4. CASE UNCHANGED shape
      BY <3>4, <3>3 DEF TypeOK
    <3>5. CASE shape' = [shape EXCEPT ![cur] = "tail"]
      BY <3>5, <3>3 DEF TypeOK
    <3> QED BY <3>1, <3>4, <3>5
  <2> QED BY <1>10, <2>2, <2>5, <2>6 DEF RebuildFails, Release, TypeOK, writerVars
<1>11. ASSUME NEW k \in Keys, Drop \/ CompactShard(k) \/ CompactEnds PROVE TypeOK'
  <2>1. CASE Drop
    <3>1. /\ refs' \in [Keys -> SUBSET Refs] /\ again' \in [Keys -> SUBSET Refs]
          /\ shape' \in [Keys -> {"whole", "tail", "garbled", "old"}]
      BY <2>1 DEF Drop, TypeOK, shardVars
    <3>2. faults' \in 0..MaxFaults /\ op' = "none" /\ step' = "free"
      BY <2>1 DEF Drop, Fault, Release, TypeOK
    <3>3. UNCHANGED <<file, mf, mfKeys, keys, ready, cur, left, todo, writerVars, written,
                      crashes, historyVars>>
      BY <2>1 DEF Drop
    <3> QED BY <3>1, <3>2, <3>3 DEF TypeOK, writerVars, historyVars
  <2>2. CASE CompactShard(k)
    <3>1. /\ refs' \in [Keys -> SUBSET Refs] /\ again' \in [Keys -> SUBSET Refs]
          /\ shape' \in [Keys -> {"whole", "tail", "garbled", "old"}]
      <4>1. {r \in refs[k] : Available(r)} \subseteq Refs /\ {r \in again[k] : Available(r)} \subseteq Refs
        BY DEF TypeOK
      <4>2. CASE UNCHANGED shardVars
        BY <4>2 DEF TypeOK, shardVars
      <4>3. CASE /\ refs'  = [refs EXCEPT ![k] = {r \in @ : Available(r)}]
                 /\ again' = [again EXCEPT ![k] = {r \in @ : Available(r)}]
                 /\ shape' = [shape EXCEPT ![k] = "whole"]
        BY <4>1, <4>3 DEF TypeOK
      <4> QED BY <2>2, <4>2, <4>3 DEF CompactShard
    <3>2. faults' \in 0..MaxFaults /\ left' \subseteq Keys
      BY <2>2 DEF CompactShard, Fault, TypeOK
    <3>3. UNCHANGED <<file, mf, mfKeys, keys, ready, op, step, cur, todo, writerVars, written,
                      crashes, historyVars>>
      BY <2>2 DEF CompactShard
    <3> QED BY <3>1, <3>2, <3>3 DEF TypeOK, writerVars, historyVars
  <2>3. CASE CompactEnds
    BY <2>3 DEF CompactEnds, Release, TypeOK, volumeVars, writerVars, boundVars, historyVars
  <2> QED BY <1>11, <2>1, <2>2, <2>3
<1>12. ASSUME Crash PROVE TypeOK'
  <2>1. Stored \subseteq Lines /\ Unobserved \subseteq Lines
    BY SMTT(30) DEF Stored, LinesOf, Unobserved, WritersPlaced, TypeOK
  <2>2. excused' \subseteq Keys \X Lines
    BY <1>12, <2>1 DEF Crash, TypeOK
  <2>3. AnyKey \in Keys /\ AnySegment \in Segments
    BY DEF AnyKey, AnySegment
  <2> QED BY <1>12, <2>2, <2>3 DEF Crash, Load, Fault, TypeOK, volumeVars
<1>13. ASSUME UNCHANGED vars PROVE TypeOK'
  BY <1>13 DEF vars, TypeOK, volumeVars, managerVars, writerVars, boundVars, historyVars
<1> QED BY <1>1, <1>2, <1>3, <1>4, <1>5, <1>6, <1>7, <1>8, <1>9, <1>10, <1>11, <1>12, <1>13
        DEF Next, ManagerStep, SaveStep, RebuildStep, OtherStep

LEMMA ControlStep == TypeOK /\ Control /\ [Next]_vars => Control'
<1> SUFFICES ASSUME TypeOK, Control, [Next]_vars PROVE Control'
  OBVIOUS
<1>1. ASSUME NEW w \in Writers, \/ \E s \in Segments : Seek(w, s)
                                \/ WriteLine(w) \/ ObserveLineAt(w)
      PROVE  Control'
  BY <1>1 DEF Seek, WriteLine, ObserveLineAt, Control, volumeVars, managerVars
<1>2. ASSUME NEW s \in Segments, DeleteSegment(s) PROVE Control'
  BY <1>2 DEF DeleteSegment, Control, managerVars
<1>3. ASSUME NEW k \in Keys, Create(k) \/ Delete(k) \/ Compact PROVE Control'
  BY <1>3 DEF Create, Delete, Compact, Idle, Control, TypeOK, volumeVars
<1>4. ASSUME Truncate \/ Encode PROVE Control'
  BY <1>4 DEF Truncate, Encode, Release, Control
<1>5. ASSUME SaveFails PROVE Control'
  BY <1>5 DEF SaveFails, SavingFails, Release, Control
<1>6. ASSUME NEW k \in Keys, MigrateNext(k) \/ MigrateSaves PROVE Control'
  BY <1>6 DEF MigrateNext, MigrateSaves, Control, volumeVars
<1>7. ASSUME NEW s \in Segments, Clear \/ ReadSegment(s) PROVE Control'
  BY <1>7 DEF Clear, ReadSegment, Control
<1>8. ASSUME RebuildEnds PROVE Control'
  BY <1>8 DEF RebuildEnds, Release, Control, TypeOK, volumeVars
<1>9. ASSUME RebuildFails PROVE Control'
  BY <1>9 DEF RebuildFails, Release, Control, TypeOK, volumeVars
<1>10. ASSUME NEW k \in Keys, Drop \/ CompactShard(k) \/ CompactEnds PROVE Control'
  BY <1>10 DEF Drop, CompactShard, CompactEnds, Release, Control, TypeOK, volumeVars
<1>11. ASSUME Crash PROVE Control'
  BY <1>11 DEF Crash, Load, Control, TypeOK, volumeVars
<1>12. ASSUME UNCHANGED vars PROVE Control'
  BY <1>12 DEF vars, Control, volumeVars, managerVars
<1> QED BY IndexAssumption, <1>1, <1>2, <1>3, <1>4, <1>5, <1>6, <1>7, <1>8, <1>9, <1>10, <1>11, <1>12
        DEF Next, ManagerStep, SaveStep, RebuildStep, OtherStep

LEMMA LinesStep == TypeOK /\ LinesNumbered /\ [Next]_vars => LinesNumbered'
<1> SUFFICES ASSUME TypeOK, LinesNumbered, [Next]_vars PROVE LinesNumbered'
  OBVIOUS
<1>1. ASSUME UNCHANGED <<file, written>> PROVE LinesNumbered'
  BY <1>1 DEF LinesNumbered
<1>2. ASSUME NEW w \in Writers, WriteLine(w), wpc[w] # "adrift" PROVE LinesNumbered'
  <2> DEFINE s == wseg[w]  l == written + 1
  <2>1. s \in Segments /\ l \in Lines /\ file[s] \in Seq(Lines) /\ written \in Nat
    BY <1>2, FileTyped, IndexAssumption DEF WriteLine, TypeOK, Lines
  <2>2. file' = [file EXCEPT ![s] = Append(file[s], l)] /\ written' = l
    BY <1>2 DEF WriteLine
  <2> HIDE DEF s
  <2>3. /\ \A t \in Segments : t # s => file'[t] = file[t]
        /\ Len(file[s]) \in Nat /\ Len(file'[s]) = Len(file[s]) + 1
        /\ \A p \in 1..Len(file[s]) : file'[s][p] = file[s][p]
        /\ file'[s][Len(file[s]) + 1] = l
    BY <2>1, <2>2, AppendLine DEF TypeOK
  <2>4. \A t \in Segments : \A p \in 1..Len(file'[t]) :
            \/ p \in 1..Len(file[t]) /\ file'[t][p] = file[t][p]
            \/ t = s /\ p = Len(file[s]) + 1 /\ file'[t][p] = l
    BY <2>3
  <2>5. \A t \in Segments : /\ Len(file[t]) \in Nat
                             /\ \A p \in 1..Len(file[t]) : file[t][p] \in Nat
    BY FileTyped
  <2>6. \A t \in Segments : Len(file'[t]) <= written' /\ Len(file[t]) \in Nat
    BY <2>1, <2>2, <2>3, LenProperties DEF LinesNumbered, TypeOK
  <2>7. \A t \in Segments : \A p \in 1..Len(file'[t]) : file'[t][p] <= written'
    BY <2>1, <2>2, <2>4, <2>5 DEF LinesNumbered
  <2>8. ASSUME NEW t \in Segments, NEW u \in Segments, NEW p \in 1..Len(file'[t]),
               NEW q \in 1..Len(file'[u]), file'[t][p] = file'[u][q]
        PROVE  t = u /\ p = q
    <3>1. CASE /\ p \in 1..Len(file[t]) /\ file'[t][p] = file[t][p]
               /\ q \in 1..Len(file[u]) /\ file'[u][q] = file[u][q]
      <4>1. file[t][p] = file[u][q]
        BY <3>1, <2>8
      <4> QED BY <3>1, <4>1 DEF LinesNumbered
    <3>2. CASE /\ t = s /\ p = Len(file[s]) + 1 /\ file'[t][p] = l
               /\ u = s /\ q = Len(file[s]) + 1
      BY <3>2
    <3>3. CASE /\ p \in 1..Len(file[t]) /\ file'[t][p] = file[t][p]
               /\ file'[u][q] = l
      <4>1. file[t][p] = l
        BY <3>3, <2>8
      <4> QED BY <3>3, <4>1, <2>1, <2>5 DEF LinesNumbered
    <3>4. CASE /\ q \in 1..Len(file[u]) /\ file'[u][q] = file[u][q]
               /\ file'[t][p] = l
      <4>1. file[u][q] = l
        BY <3>4, <2>8
      <4>2. file[u][q] <= written /\ file[u][q] \in Nat
        BY <3>4, <2>5 DEF LinesNumbered
      <4> QED BY <4>1, <4>2, <2>1
    <3> QED BY <2>4, <3>1, <3>2, <3>3, <3>4
  <2> QED BY <2>6, <2>7, <2>8 DEF LinesNumbered
<1>3. ASSUME NEW w \in Writers, WriteLine(w), wpc[w] = "adrift" PROVE LinesNumbered'
  <2>1. UNCHANGED file /\ written' = written + 1 /\ written \in Nat
    BY <1>3 DEF WriteLine, TypeOK
  <2>2. \A t \in Segments : Len(file[t]) \in Nat /\ \A p \in 1..Len(file[t]) : file[t][p] \in Nat
    BY FileTyped
  <2> QED BY <2>1, <2>2 DEF LinesNumbered
<1>4. ASSUME NEW s \in Segments, DeleteSegment(s) PROVE LinesNumbered'
  <2>1. file' = [file EXCEPT ![s] = <<>>] /\ UNCHANGED written /\ written \in Nat
    BY <1>4 DEF DeleteSegment, boundVars, TypeOK
  <2>2. Len(file'[s]) = 0 /\ \A t \in Segments : t # s => file'[t] = file[t]
    BY <2>1, EmptySeq DEF TypeOK
  <2> QED BY <2>1, <2>2 DEF LinesNumbered
<1>5. ASSUME NEW w \in Writers, \/ \E s \in Segments : Seek(w, s)
                                \/ ObserveLineAt(w)
      PROVE  UNCHANGED <<file, written>>
  BY <1>5 DEF Seek, ObserveLineAt, volumeVars, boundVars
<1>6. Crash \/ UNCHANGED vars => UNCHANGED <<file, written>>
  BY DEF Crash, vars, volumeVars, boundVars
<1> QED BY <1>1, <1>2, <1>3, <1>4, <1>5, <1>6, OperationsAreQuiet DEF Next

\* What neither moves the segments nor forgets who strayed keeps a place.
LEMMA PlaceStays ==
    ASSUME NEW l, NEW s, NEW p, PlacedFrom(l, s, p),
           UNCHANGED <<file, written, strayed>>
    PROVE  PlacedFrom(l, s, p)'
  BY DEF PlacedFrom

\* Nor does a line written afterwards.
LEMMA PlaceOutlivesLine ==
    ASSUME TypeOK, LinesNumbered, NEW w \in Writers, WriteLine(w),
           NEW l \in Lines, NEW s \in Segments, NEW p \in Lines, PlacedFrom(l, s, p)
    PROVE  PlacedFrom(l, s, p)'
<1> USE DEF PlacedFrom
<1>1. /\ written \in Nat /\ l \in Nat /\ p \in Nat /\ l <= written
      /\ written' = written + 1 /\ written + 1 \in Lines
  BY FileTyped, IndexAssumption DEF WriteLine, Lines
<1>2. strayed' \subseteq strayed \cup {written + 1} /\ strayed \subseteq strayed'
  BY DEF WriteLine
<1>3. CASE UNCHANGED file
  BY <1>1, <1>2, <1>3
<1>4. CASE file' = [file EXCEPT ![wseg[w]] = Append(file[wseg[w]], written + 1)]
  <2> DEFINE u == wseg[w]
  <2>1. u \in Segments /\ file[u] \in Seq(Lines)
    BY DEF TypeOK
  <2> HIDE DEF u
  <2>2. /\ \A t \in Segments : t # u => file'[t] = file[t]
        /\ Len(file[u]) \in Nat /\ Len(file'[u]) = Len(file[u]) + 1
        /\ \A q \in 1..Len(file[u]) : file'[u][q] = file[u][q]
        /\ file'[u][Len(file[u]) + 1] = written + 1
    BY <1>1, <1>4, <2>1, AppendLine DEF TypeOK, u
  <2>3. ASSUME NEW t \in Segments, NEW q \in 1..Len(file'[t]), file'[t][q] = l
        PROVE  t = s /\ p <= q
    <3>1. q \in 1..Len(file[t]) /\ file[t][q] = l
      <4>1. CASE t = u
        <5>1. q # Len(file[u]) + 1
          BY <1>1, <2>2, <2>3, <4>1
        <5>2. q \in 1..Len(file[u])
          BY <2>2, <4>1, <5>1
        <5> QED BY <2>2, <2>3, <4>1, <5>2
      <4> QED BY <2>2, <2>3, <4>1
    <3> QED BY <3>1
  <2>4. l \notin strayed' => p <= Len(file'[s]) /\ file'[s][p] = l
    <3>1. SUFFICES ASSUME l \notin strayed PROVE p <= Len(file'[s]) /\ file'[s][p] = l
      BY <1>2
    <3>2. p \in 1..Len(file[s]) /\ file[s][p] = l /\ Len(file[s]) \in Nat
      BY <3>1, FileTyped, IndexAssumption DEF Lines
    <3> QED BY <3>2, <2>2
  <2> QED BY <1>1, <2>3, <2>4
<1> QED BY <1>3, <1>4 DEF WriteLine

\* Nor does a deletion, whose lines have strayed.
LEMMA PlaceOutlivesDeletion ==
    ASSUME TypeOK, NEW t \in Segments, DeleteSegment(t),
           NEW l \in Lines, NEW s \in Segments, NEW p \in Lines, PlacedFrom(l, s, p)
    PROVE  PlacedFrom(l, s, p)'
<1>1. /\ file' = [file EXCEPT ![t] = <<>>] /\ UNCHANGED written
      /\ strayed' = strayed \cup LinesOf(t)
  BY DEF DeleteSegment, boundVars
<1>2. Len(file'[t]) = 0 /\ \A u \in Segments : u # t => file'[u] = file[u]
  BY <1>1, EmptySeq DEF TypeOK
<1>3. ASSUME l \notin strayed' PROVE s # t
  <2>1. SUFFICES ASSUME s = t PROVE FALSE
    OBVIOUS
  <2>2. p \in 1..Len(file[t]) /\ file[t][p] = l
    BY <1>1, <1>3, <2>1, FileTyped, IndexAssumption DEF PlacedFrom, Lines
  <2> QED BY <1>1, <1>3, <2>2 DEF LinesOf
<1>4. \A u \in Segments : \A q \in 1..Len(file'[u]) : file'[u][q] = l => u = s /\ p <= q
  BY <1>2 DEF PlacedFrom
<1> QED BY <1>1, <1>2, <1>3, <1>4 DEF PlacedFrom

LEMMA WritersStep ==
    TypeOK /\ LinesNumbered /\ WritersPlaced /\ [Next]_vars => WritersPlaced'
<1> SUFFICES ASSUME TypeOK, LinesNumbered, WritersPlaced, [Next]_vars PROVE WritersPlaced'
  OBVIOUS
<1>0. /\ \A s \in Segments : Len(file[s]) \in Nat /\ written \in Nat
      /\ \A w \in Writers : woff[w] \in Nat /\ wseg[w] \in Segments /\ wline[w] \in Nat
  BY FileTyped, IndexAssumption DEF TypeOK
<1>1. ASSUME UNCHANGED <<file, written, writerVars, strayed>> PROVE WritersPlaced'
  BY <1>1 DEF WritersPlaced, PlacedFrom, writerVars
<1>2. ASSUME NEW w \in Writers, NEW s \in Segments, Seek(w, s) PROVE WritersPlaced'
  <2>1. /\ UNCHANGED <<file, written, strayed, wline>> /\ wpc[w] = "idle"
        /\ wpc'  = [wpc EXCEPT ![w] = "seeked"] /\ wseg' = [wseg EXCEPT ![w] = s]
        /\ woff' = [woff EXCEPT ![w] = Len(file[s])]
    BY <1>2 DEF Seek, volumeVars, boundVars, historyVars
  <2>2. /\ wpc'[w] = "seeked" /\ wseg'[w] = s /\ woff'[w] = Len(file[s])
        /\ \A v \in Writers : v # w => /\ wpc'[v] = wpc[v] /\ wseg'[v] = wseg[v]
                                       /\ woff'[v] = woff[v] /\ wline'[v] = wline[v]
    BY <2>1 DEF TypeOK
  <2> QED BY <2>1, <2>2 DEF WritersPlaced, PlacedFrom, LinesNumbered
<1>3. ASSUME NEW w \in Writers, WriteLine(w) PROVE WritersPlaced'
  <2> DEFINE u == wseg[w]  l == written + 1
  <2>1. /\ written' = l /\ l \in Lines /\ l \in Nat /\ UNCHANGED <<wseg, woff>>
        /\ wline' = [wline EXCEPT ![w] = l] /\ wpc[w] \in {"seeked", "overtaken", "adrift"}
        /\ strayed' = IF wpc[w] = "seeked" THEN strayed ELSE strayed \cup {l}
    BY <1>3, <1>0, IndexAssumption DEF WriteLine, Lines, TypeOK
  <2>2. /\ wpc'[w] = "observe" /\ wline'[w] = l
        /\ \A v \in Writers : v # w => /\ wline'[v] = wline[v]
                                       /\ wpc'[v] = wpc[v] \/ (wpc[v] = "seeked" /\ wpc'[v] = "overtaken")
    BY <1>3, <2>1 DEF WriteLine, Now, TypeOK
  <2>3. ASSUME NEW v \in Writers, v # w
        PROVE  /\ wpc'[v] = "seeked" => woff[v] = Len(file'[wseg[v]])
               /\ wpc'[v] = "overtaken" => woff[v] <= Len(file'[wseg[v]])
               /\ wpc'[v] # "idle" => woff[v] <= written'
    <3>1. CASE wpc[w] = "adrift"
      BY <1>3, <1>0, <2>1, <2>2, <2>3, <3>1 DEF WriteLine, WritersPlaced
    <3>2. CASE wpc[w] # "adrift"
      <4>1. /\ file' = [file EXCEPT ![u] = Append(file[u], l)]
            /\ wpc'[v] = Now(v, u, {"seeked"}, "overtaken")
        BY <1>3, <2>3, <3>2 DEF WriteLine
      <4>2. /\ Len(file'[u]) = Len(file[u]) + 1
            /\ \A t \in Segments : t # u => file'[t] = file[t]
        BY <1>0, <2>1, <4>1, AppendLine, FileTyped DEF TypeOK
      <4> QED BY <1>0, <2>1, <2>2, <2>3, <4>1, <4>2 DEF WritersPlaced, Now
    <3> QED BY <3>1, <3>2
  <2>4. ASSUME NEW v \in Writers, v # w, wpc'[v] = "observe"
        PROVE  /\ wline'[v] \in Lines /\ woff'[v] < written'
               /\ PlacedFrom(wline[v], wseg[v], woff[v] + 1)'
    <3>1. /\ wpc[v] = "observe" /\ wline[v] \in Lines /\ woff[v] < written
          /\ PlacedFrom(wline[v], wseg[v], woff[v] + 1)
      BY <2>2, <2>4 DEF WritersPlaced
    <3>2. woff[v] + 1 \in Lines
      BY <1>0, <3>1, IndexAssumption DEF TypeOK, Lines
    <3>3. PlacedFrom(wline[v], wseg[v], woff[v] + 1)'
      <4>1. \A m \in Lines, t \in Segments, p \in Lines :
                PlacedFrom(m, t, p) => PlacedFrom(m, t, p)'
        BY <1>3, PlaceOutlivesLine
      <4>2. wline'[v] = wline[v] /\ UNCHANGED <<wseg, woff>>
        BY <2>1, <2>2, <2>4
      <4>3. PICK m \in Lines, t \in Segments, p \in Lines :
                m = wline[v] /\ t = wseg[v] /\ p = woff[v] + 1
        BY <1>0, <3>1, <3>2
      <4>4. PlacedFrom(m, t, p)
        BY <3>1, <4>3
      <4>5. PlacedFrom(m, t, p)'
        BY <4>1, <4>4
      <4>6. m = wline'[v] /\ t = wseg'[v] /\ p = woff'[v] + 1
        BY <4>2, <4>3
      <4> QED BY <4>5, <4>6 DEF PlacedFrom
    <3> QED BY <1>0, <2>1, <2>2, <2>4, <3>1, <3>3
  <2>5. /\ wline'[w] \in Lines /\ woff'[w] < written' /\ woff'[w] <= written'
        /\ PlacedFrom(wline[w], wseg[w], woff[w] + 1)'
    <3>1. woff[w] <= written
      BY <2>1 DEF WritersPlaced
    <3>2. \A t \in Segments : \A q \in 1..Len(file[t]) : file[t][q] # l
      BY <1>0, <2>1, FileTyped DEF LinesNumbered
    <3>3. CASE wpc[w] = "adrift"
      BY <1>0, <1>3, <2>1, <2>2, <3>1, <3>2, <3>3 DEF WriteLine, PlacedFrom
    <3>4. CASE wpc[w] # "adrift"
      <4>1. file' = [file EXCEPT ![u] = Append(file[u], l)] /\ u \in Segments
        BY <1>0, <1>3, <3>4 DEF WriteLine
      <4> HIDE DEF u
      <4>2. /\ \A t \in Segments : t # u => file'[t] = file[t]
            /\ Len(file[u]) \in Nat /\ Len(file'[u]) = Len(file[u]) + 1
            /\ \A q \in 1..Len(file[u]) : file'[u][q] = file[u][q]
            /\ file'[u][Len(file[u]) + 1] = l
        BY <2>1, <4>1, AppendLine, FileTyped DEF TypeOK
      <4>3. ASSUME NEW t \in Segments, NEW q \in 1..Len(file'[t]), file'[t][q] = l
            PROVE  t = u /\ q = Len(file[u]) + 1
        BY <3>2, <4>2, <4>3
      <4>4. /\ woff[w] <= Len(file[u])
            /\ wpc[w] = "seeked" => woff[w] = Len(file[u])
        BY <1>0, <2>1, <3>4 DEF WritersPlaced, u
      <4>5. wpc[w] # "seeked" => l \in strayed'
        BY <2>1
      <4>6. wseg'[w] = u /\ woff'[w] = woff[w] /\ woff[w] \in Nat
        BY <1>0, <2>1 DEF u
      <4>7. PICK m \in Lines, x \in Segments, n \in Nat : m = l /\ x = u /\ n = woff[w] + 1
        BY <2>1, <4>1, <4>6
      <4>8. /\ m <= written'
            /\ \A t \in Segments : \A q \in 1..Len(file'[t]) : file'[t][q] = m => t = x /\ n <= q
        BY <2>1, <4>2, <4>3, <4>4, <4>6, <4>7
      <4>9. m \notin strayed' => n <= Len(file'[x]) /\ file'[x][n] = m
        BY <2>1, <4>2, <4>4, <4>5, <4>6, <4>7
      <4>10. m = wline'[w] /\ x = wseg'[w] /\ n = woff'[w] + 1
        BY <2>2, <4>6, <4>7
      <4>11. PlacedFrom(m, x, n)'
        BY <4>8, <4>9 DEF PlacedFrom
      <4>12. PlacedFrom(wline[w], wseg[w], woff[w] + 1)'
        BY <4>10, <4>11 DEF PlacedFrom
      <4> QED BY <1>0, <2>1, <2>2, <3>1, <4>6, <4>12
    <3> QED BY <3>3, <3>4
  <2>6. \A v \in Writers : v # w /\ wpc'[v] = "observe" => wline'[v] # l
    BY <1>0, <2>1, <2>2 DEF WritersPlaced, PlacedFrom
  <2> QED BY <2>1, <2>2, <2>3, <2>4, <2>5, <2>6 DEF WritersPlaced
<1>4. ASSUME NEW w \in Writers, ObserveLineAt(w) PROVE WritersPlaced'
  <2>1. /\ UNCHANGED <<file, written, strayed>>
        /\ wpc' = [wpc EXCEPT ![w] = "idle"] /\ wseg' = [wseg EXCEPT ![w] = AnySegment]
        /\ woff' = [woff EXCEPT ![w] = 0] /\ wline' = [wline EXCEPT ![w] = 0]
    BY <1>4 DEF ObserveLineAt
  <2>2. /\ wpc'[w] = "idle"
        /\ \A v \in Writers : v # w => /\ wpc'[v] = wpc[v] /\ wseg'[v] = wseg[v]
                                       /\ woff'[v] = woff[v] /\ wline'[v] = wline[v]
    BY <2>1 DEF TypeOK
  <2> QED BY <2>1, <2>2 DEF WritersPlaced, PlacedFrom
<1>5. ASSUME NEW s \in Segments, DeleteSegment(s) PROVE WritersPlaced'
  <2>1. /\ file' = [file EXCEPT ![s] = <<>>]
        /\ UNCHANGED <<written, wseg, woff, wline>>
        /\ \A v \in Writers : wpc'[v] = Now(v, s, {"seeked", "overtaken"}, "adrift")
    BY <1>5 DEF DeleteSegment, boundVars
  <2>2. \A t \in Segments : t # s => file'[t] = file[t]
    BY <2>1 DEF TypeOK
  <2>3. \A m \in Lines, t \in Segments, p \in Lines :
            PlacedFrom(m, t, p) => PlacedFrom(m, t, p)'
    BY <1>5, PlaceOutlivesDeletion
  <2>4. ASSUME NEW v \in Writers
        PROVE  /\ wpc'[v] = "seeked" => woff'[v] = Len(file'[wseg'[v]])
               /\ wpc'[v] = "overtaken" => woff'[v] <= Len(file'[wseg'[v]])
               /\ wpc'[v] # "idle" => woff'[v] <= written'
               /\ wpc'[v] = "observe" <=> wpc[v] = "observe"
    BY <1>0, <2>1, <2>2 DEF WritersPlaced, Now
  <2>5. ASSUME NEW v \in Writers, wpc'[v] = "observe"
        PROVE  /\ wline'[v] \in Lines /\ woff'[v] < written'
               /\ PlacedFrom(wline[v], wseg[v], woff[v] + 1)'
    <3>1. /\ wline[v] \in Lines /\ woff[v] < written
          /\ PlacedFrom(wline[v], wseg[v], woff[v] + 1)
      BY <2>4, <2>5 DEF WritersPlaced
    <3>2. woff[v] + 1 \in Lines
      BY <1>0, <3>1, IndexAssumption DEF TypeOK, Lines
    <3>3. PICK m \in Lines, t \in Segments, p \in Lines :
              m = wline[v] /\ t = wseg[v] /\ p = woff[v] + 1
      BY <1>0, <3>1, <3>2
    <3>4. PlacedFrom(m, t, p)
      BY <3>1, <3>3
    <3>5. PlacedFrom(m, t, p)'
      BY <2>3, <3>4
    <3>6. m = wline'[v] /\ t = wseg'[v] /\ p = woff'[v] + 1
      BY <2>1, <3>3
    <3> QED BY <2>1, <3>1, <3>5, <3>6 DEF PlacedFrom
  <2> QED BY <2>1, <2>4, <2>5 DEF WritersPlaced
<1>6. ASSUME Crash PROVE WritersPlaced'
  BY <1>6 DEF Crash, WritersPlaced
<1> QED BY <1>1, <1>2, <1>3, <1>4, <1>5, <1>6, OperationsAreQuiet
        DEF Next, vars, volumeVars, boundVars, historyVars

LEMMA RefsStep ==
    TypeOK /\ LinesNumbered /\ WritersPlaced /\ RefsPlaced /\ [Next]_vars => RefsPlaced'
<1> SUFFICES ASSUME TypeOK, LinesNumbered, WritersPlaced, RefsPlaced, [Next]_vars
             PROVE  RefsPlaced'
  OBVIOUS
<1>0. \A k \in Keys : \A r \in refs[k] : r \in Refs /\ r.line \in Lines /\ r.seg \in Segments
                                         /\ r.pos \in Lines
  BY DEF TypeOK, Refs
\* A step adds no reference, and what is placed stays so.
<1>1. ASSUME \A k \in Keys : refs'[k] \subseteq refs[k],
             \A l \in Lines, s \in Segments, p \in Lines : PlacedFrom(l, s, p) => PlacedFrom(l, s, p)'
      PROVE  RefsPlaced'
  BY <1>0, <1>1 DEF RefsPlaced
<1>2. ASSUME UNCHANGED <<file, written, strayed>>
      PROVE  \A l \in Lines, s \in Segments, p \in Lines : PlacedFrom(l, s, p) => PlacedFrom(l, s, p)'
  BY <1>2, PlaceStays
<1>3. ASSUME NEW w \in Writers, WriteLine(w) PROVE RefsPlaced'
  BY <1>1, <1>3, PlaceOutlivesLine DEF WriteLine, shardVars
<1>4. ASSUME NEW s \in Segments, DeleteSegment(s) PROVE RefsPlaced'
  BY <1>1, <1>4, PlaceOutlivesDeletion DEF DeleteSegment, shardVars
<1>5. ASSUME NEW w \in Writers, ObserveLineAt(w) PROVE RefsPlaced'
  <2> DEFINE ref == [seg |-> wseg[w], pos |-> woff[w] + 1, line |-> wline[w]]
  <2>1. UNCHANGED <<file, written, strayed>>
    BY <1>5 DEF ObserveLineAt
  <2>2. PlacedFrom(ref.line, ref.seg, ref.pos)
    BY <1>5 DEF ObserveLineAt, WritersPlaced
  <2>3. \A k \in Keys : refs'[k] \subseteq refs[k] \cup {ref}
    BY <1>5 DEF ObserveLineAt
  <2> HIDE DEF ref
  <2>4. \A k \in Keys : \A r \in refs'[k] : PlacedFrom(r.line, r.seg, r.pos)
    BY <2>2, <2>3 DEF RefsPlaced
  <2> QED BY <2>1, <2>4 DEF RefsPlaced, PlacedFrom
<1>12. \A s \in Segments : \A r \in RefsOf(s) : PlacedFrom(r.line, r.seg, r.pos)
  BY SMTT(30), FileTyped DEF RefsOf, PlacedFrom, LinesNumbered
<1>6. ASSUME NEW s \in Segments, ReadSegment(s) PROVE RefsPlaced'
  <2>1. UNCHANGED <<file, written, strayed>>
    BY <1>6 DEF ReadSegment, boundVars
  <2>2. \A r \in RefsOf(s) : PlacedFrom(r.line, r.seg, r.pos)
    BY <1>12
  <2>3. \A k \in Keys : refs'[k] \subseteq refs[k] \cup RefsOf(s)
    <3>1. refs' = [refs EXCEPT ![cur] = @ \cup RefsOf(s)]
      BY <1>6, WholeSegmentRead
    <3> QED BY <3>1 DEF TypeOK
  <2>4. \A k \in Keys : \A r \in refs'[k] : PlacedFrom(r.line, r.seg, r.pos)
    BY <2>2, <2>3 DEF RefsPlaced
  <2> QED BY <2>1, <2>4 DEF RefsPlaced, PlacedFrom
<1>7. ASSUME NEW k \in Keys, Clear \/ Drop \/ CompactShard(k) PROVE RefsPlaced'
  <2>1. UNCHANGED <<file, written, strayed>>
    BY <1>7 DEF Clear, Drop, CompactShard, boundVars, historyVars
  <2>2. \A j \in Keys : refs'[j] \subseteq refs[j]
    <3>1. CASE Clear \/ Drop
      BY <3>1 DEF Clear, Drop, shardVars, TypeOK
    <3>2. CASE CompactShard(k)
      <4>1. UNCHANGED refs \/ refs' = [refs EXCEPT ![k] = {r \in @ : Available(r)}]
        BY <3>2 DEF CompactShard, shardVars
      <4> QED BY <4>1 DEF TypeOK
    <3> QED BY <1>7, <3>1, <3>2
  <2> QED BY <1>1, <1>2, <2>1, <2>2
<1>8. ASSUME UNCHANGED <<file, written, strayed, refs>> PROVE RefsPlaced'
  BY <1>1, <1>2, <1>8
<1>9. ASSUME NEW w \in Writers, NEW s \in Segments, Seek(w, s)
      PROVE  UNCHANGED <<file, written, strayed, refs>>
  BY <1>9 DEF Seek, volumeVars, boundVars, historyVars
<1>10. ASSUME Compact \/ Crash \/ UNCHANGED vars PROVE UNCHANGED <<file, written, strayed, refs>>
  BY <1>10 DEF Compact, Crash, vars, volumeVars, boundVars, historyVars
<1>11. ASSUME NEW k \in Keys, \/ Create(k) \/ Delete(k) \/ SaveStep \/ MigrateNext(k)
                              \/ MigrateSaves \/ RebuildEnds \/ CompactEnds
       PROVE  UNCHANGED <<file, written, strayed, refs>>
  BY <1>11 DEF Create, Delete, SaveStep, Truncate, Encode, SaveFails, SavingFails, MigrateNext,
     MigrateSaves, RebuildEnds, CompactEnds, volumeVars, shardVars, boundVars, historyVars
<1>13. ASSUME RebuildFails PROVE RefsPlaced'
  <2>1. UNCHANGED <<file, written, strayed>>
    BY <1>13 DEF RebuildFails
  <2>2. PICK read : Reading(read)
    BY <1>13, FailedRebuildRead
  <2>3. \A r \in read : PlacedFrom(r.line, r.seg, r.pos)
    BY <1>12, <2>2 DEF Reading, TypeOK
  <2>4. \A k \in Keys : refs'[k] \subseteq refs[k] \cup read
    BY <2>2 DEF Reading, TypeOK
  <2>5. \A k \in Keys : \A r \in refs'[k] : PlacedFrom(r.line, r.seg, r.pos)
    BY <2>3, <2>4 DEF RefsPlaced
  <2> QED BY <2>1, <2>5 DEF RefsPlaced, PlacedFrom
<1> QED BY IndexAssumption, <1>3, <1>4, <1>5, <1>6, <1>7, <1>8, <1>9, <1>10, <1>11, <1>13
        DEF Next, ManagerStep, RebuildStep, OtherStep

LEMMA BaseStep == Base /\ [Next]_vars => Base'
  BY TypeStep, ControlStep, LinesStep, WritersStep, RefsStep DEF Base

\* What the variables range over, which operation is at which step, and where
\* the lines and references are.
THEOREM BaseHolds == Spec => []Base
<1>1. Init => Base
  BY BaseInit
<1>2. Base /\ [Next]_vars => Base'
  BY BaseStep
<1> QED BY <1>1, <1>2, PTL DEF Spec

\* The index's variables stay what the types say (internal/indexes/manager.go).
THEOREM Typed == Spec => []TypeOK
  BY BaseHolds, PTL DEF Base

\* A reference that is shown reads the line it was made for, for any number of
\* writers, segments, deletions, failures and restarts, unless the line's
\* writer was overtaken or its segment deleted.
THEOREM ReferencesReadTheirLines == Spec => []ReferenceReadsItsLine
<1>1. Base => ReferenceReadsItsLine
  BY DEF Base, TypeOK, RefsPlaced, PlacedFrom, ReferenceReadsItsLine
<1> QED BY <1>1, BaseHolds, PTL

-----------------------------------------------------------------------------
(* What a restart loads.                                                   *)

LEMMA ListingStep == TypeOK /\ Control /\ Listing /\ [Next]_vars => Listing'
<1> SUFFICES ASSUME TypeOK, Control, Listing, [Next]_vars PROVE Listing'
  OBVIOUS
<1>0. faults \in Nat
  BY IndexAssumption DEF TypeOK
<1>1. ASSUME UNCHANGED <<mf, mfKeys, keys, op, step, cur, undeleted>>, faults' \in {faults, faults + 1}
      PROVE  Listing'
  BY <1>0, <1>1 DEF Listing, SameKeys
<1>2. ASSUME NEW k \in Keys, Create(k) \/ Delete(k) \/ Compact PROVE Listing'
  BY <1>2 DEF Listing, SameKeys, Create, Delete, Compact, Idle, Control, volumeVars, boundVars,
     historyVars
<1>3. ASSUME Truncate PROVE Listing'
  BY <1>3 DEF Listing, SameKeys, Truncate
<1>4. ASSUME Encode PROVE Listing'
  BY <1>4 DEF Listing, SameKeys, Encode, Release
<1>5. ASSUME SaveFails PROVE Listing'
  <2>1. /\ op' = "none" /\ faults' > 0 /\ step \in {"truncate", "encode"}
        /\ \/ op = "create" /\ keys' = keys \ {cur}
           \/ op = "delete" /\ keys' = keys \cup {cur}
           \/ op \in {"migrate", "undo"} /\ UNCHANGED keys
    BY <1>0, <1>5 DEF SaveFails, SavingFails, Fault, Release
  <2>2. \/ UNCHANGED <<mf, mfKeys, undeleted>>
        \/ mfKeys' = keys /\ undeleted' = (IF op = "delete" THEN {cur} ELSE {})
    BY <1>5 DEF SaveFails, SavingFails
  <2> QED BY <2>1, <2>2 DEF Listing, SameKeys, Control
<1>6. ASSUME NEW k \in Keys, NEW s \in Segments,
             MigrateNext(k) \/ ReadSegment(s) \/ MigrateSaves \/ Clear \/ RebuildEnds
      PROVE  Listing'
  BY <1>6 DEF Listing, SameKeys, MigrateNext, MigrateSaves, Clear, ReadSegment, RebuildEnds, Release, Control,
     volumeVars, boundVars, historyVars
<1>7. ASSUME RebuildFails PROVE Listing'
  <2>1. /\ UNCHANGED <<mf, mfKeys, undeleted>> /\ step \in {"clear", "read"}
        /\ faults' \in {faults, faults + 1}
    BY <1>7 DEF RebuildFails, RebuildStops, Fault
  <2>2. \/ op = "create" /\ keys' = keys \ {cur} /\ op' = "undo" /\ step' = "truncate"
        \/ op = "migrate" /\ op' = "none" /\ UNCHANGED keys
    BY <1>7 DEF RebuildFails, Release
  <2> QED BY <1>0, <2>1, <2>2 DEF Listing, SameKeys
<1>8. ASSUME NEW k \in Keys, Drop \/ CompactShard(k) \/ CompactEnds PROVE Listing'
  <2>1. UNCHANGED <<mf, mfKeys, keys, undeleted>> /\ faults' \in {faults, faults + 1}
    BY <1>8 DEF Drop, CompactShard, CompactEnds, Fault, volumeVars, boundVars, historyVars
  <2>2. op' = op \/ op' = "none"
    BY <1>8 DEF Drop, CompactShard, CompactEnds, Release
  <2>3. step # "truncate" /\ op \in {"delete", "compact"} /\ op' \in {"none", "compact"}
    BY <1>8 DEF Drop, CompactShard, CompactEnds, Release, Control
  <2> QED BY <1>0, <2>1, <2>2, <2>3 DEF Listing, SameKeys
<1>9. ASSUME Crash PROVE Listing'
  <2>1. UNCHANGED <<mf, mfKeys>>
    BY <1>9 DEF Crash, volumeVars
  <2>2. op' \in {"none", "migrate"} /\ (keys' = mfKeys \/ (keys' = {} /\ faults' = faults + 1))
    BY <1>9 DEF Crash, Load, Fault
  <2> QED BY <1>0, <2>1, <2>2 DEF Listing, SameKeys
<1>10. ASSUME \/ \E w \in Writers : \/ \E s \in Segments : Seek(w, s)
                                      \/ WriteLine(w) \/ ObserveLineAt(w)
              \/ \E s \in Segments : DeleteSegment(s)
       PROVE  Listing'
  BY IndexAssumption, <1>1, <1>10 DEF Listing, SameKeys, Seek, WriteLine, ObserveLineAt, DeleteSegment, volumeVars, managerVars,
     boundVars, historyVars
<1>11. ASSUME UNCHANGED vars PROVE Listing'
  BY <1>1, <1>11 DEF Listing, SameKeys, vars, volumeVars, managerVars, boundVars, historyVars
<1> QED BY IndexAssumption, <1>2, <1>3, <1>4, <1>5, <1>6, <1>7, <1>8, <1>9, <1>10, <1>11
        DEF Next, ManagerStep, SaveStep, RebuildStep, OtherStep

\* A restart between operations loads the indexes in use, others only after a
\* failing call, and all of them but one whose Delete could not close the
\* manifest it had written, whatever failed or was killed before.
THEOREM RestartsKeepIndexes == Spec => []RestartKeepsIndexes
<1>1. Init => Listing
  BY DEF Init, Listing, SameKeys
<1>2. Base /\ Listing /\ [Next]_vars => Listing'
  BY ListingStep DEF Base
<1>3. Listing => RestartKeepsIndexes
  BY DEF Listing, SameKeys, RestartKeepsIndexes
<1> QED BY <1>1, <1>2, <1>3, BaseHolds, PTL DEF Spec

-----------------------------------------------------------------------------
(* No line twice.                                                          *)

\* What adds no reference and no line to observe keeps references unique, as
\* long as no exception and no segment yet to read is forgotten.
LEMMA UniquenessStays ==
    ASSUME TypeOK, Uniqueness,
           \A k \in Keys : refs'[k] \subseteq refs[k] /\ again'[k] \subseteq again[k],
           Unobserved' \subseteq Unobserved, doubled \subseteq doubled',
           step' = "read" => step = "read" /\ cur' = cur /\ todo' \subseteq todo
    PROVE  Uniqueness'
<1>1. step' = "read" => \A r \in refs'[cur'] : r.seg \notin todo'
  BY DEF Uniqueness, TypeOK
<1> QED BY <1>1 DEF Uniqueness

\* A rebuild adds no line that is there, and notes those yet to be observed.
LEMMA UniquenessReads ==
    ASSUME Base, Uniqueness, NEW s \in Segments, NEW read, read \subseteq RefsOf(s),
           s \in todo, step = "read", todo' \subseteq todo \ {s},
           refs' = [refs EXCEPT ![cur] = @ \cup read],
           again' = [again EXCEPT ![cur] = @ \cup (read \cap refs[cur])],
           doubled' = doubled \cup ({cur} \X ({r.line : r \in read} \cap Unobserved)),
           UNCHANGED <<cur, wpc, wline>>
    PROVE  Uniqueness'
<1> USE DEF Base
<1>1. Unobserved' = Unobserved
  BY DEF Unobserved
<1>2. \A r \in read : r.seg = s /\ r.pos \in 1..Len(file[s]) /\ r.line = file[s][r.pos]
  BY DEF RefsOf
<1>3. ASSUME NEW r \in read, NEW q \in refs[cur] PROVE r.line # q.line
  <2>1. q.seg # s
    BY DEF Uniqueness
  <2> QED BY <1>2, <2>1 DEF RefsPlaced, PlacedFrom, TypeOK
<1>4. \A r, q \in read : r.line = q.line => r = q
  BY DEF RefsOf, LinesNumbered
<1>5. /\ refs'[cur] = refs[cur] \cup read
      /\ again'[cur] = again[cur]
      /\ \A k \in Keys : k # cur => refs'[k] = refs[k] /\ again'[k] = again[k]
  BY <1>3 DEF TypeOK
<1>6. \A r \in read : r.line \in Unobserved => <<cur, r.line>> \in doubled'
  OBVIOUS
<1>7. \A k \in Keys : \A r, q \in refs'[k] :
          r.line = q.line => r = q \/ <<k, r.line>> \in doubled'
  BY <1>3, <1>4, <1>5 DEF Uniqueness
<1>8. \A k \in Keys : \A r \in again'[k] : <<k, r.line>> \in doubled'
  BY <1>5 DEF Uniqueness
<1>9. \A k \in Keys : \A r \in refs'[k] : r.line \in Unobserved' => <<k, r.line>> \in doubled'
  BY <1>1, <1>5, <1>6 DEF Uniqueness
<1>10. \A r \in refs'[cur'] : r.seg \notin todo'
  BY <1>2, <1>5 DEF Uniqueness
<1> QED BY <1>7, <1>8, <1>9, <1>10 DEF Uniqueness

LEMMA UniquenessStep == Base /\ Uniqueness /\ [Next]_vars => Uniqueness'
<1> SUFFICES ASSUME Base, Uniqueness, [Next]_vars PROVE Uniqueness'
  OBVIOUS
<1> USE DEF Base
<1>1. ASSUME NEW w \in Writers, WriteLine(w) PROVE Uniqueness'
  <2>1. UNCHANGED <<refs, again, doubled, step, cur, todo>>
    BY <1>1 DEF WriteLine, shardVars, managerVars
  <2>2. Unobserved' \subseteq Unobserved \cup {written + 1}
    BY <1>1 DEF WriteLine, Now, Unobserved, TypeOK
  <2>3. \A k \in Keys : \A r \in refs[k] : r.line # written + 1
    BY FileTyped, IndexAssumption DEF RefsPlaced, PlacedFrom, TypeOK, Refs, Lines
  <2> QED BY <2>1, <2>2, <2>3 DEF Uniqueness
<1>2. ASSUME NEW w \in Writers, ObserveLineAt(w) PROVE Uniqueness'
  <2> DEFINE ref == [seg |-> wseg[w], pos |-> woff[w] + 1, line |-> wline[w]]
  <2>1. UNCHANGED <<doubled, step, cur, todo>> /\ step # "read"
    BY <1>2 DEF ObserveLineAt, managerVars, Idle
  <2>2. /\ \A k \in Keys : refs'[k] \subseteq refs[k] \cup {ref}
        /\ \A k \in Keys : again'[k] \subseteq again[k] \cup ({ref} \cap refs[k])
    BY <1>2 DEF ObserveLineAt
  <2>3. wline[w] \in Unobserved /\ wline[w] = ref.line
    BY <1>2 DEF ObserveLineAt, Unobserved
  <2>4. Unobserved' \subseteq Unobserved \ {wline[w]}
    <3>1. /\ wpc' = [wpc EXCEPT ![w] = "idle"] /\ wline' = [wline EXCEPT ![w] = 0]
          /\ wpc[w] = "observe"
      BY <1>2 DEF ObserveLineAt
    <3> QED BY <3>1 DEF Unobserved, WritersPlaced, TypeOK
  <2> HIDE DEF ref
  <2>5. \A k \in Keys : \A r, q \in refs'[k] :
            r.line = q.line => r = q \/ <<k, r.line>> \in doubled'
    BY <2>1, <2>2, <2>3 DEF Uniqueness
  <2>6. \A k \in Keys : \A r \in again'[k] : <<k, r.line>> \in doubled'
    BY <2>1, <2>2, <2>3 DEF Uniqueness
  <2>7. \A k \in Keys : \A r \in refs'[k] : r.line \in Unobserved' => <<k, r.line>> \in doubled'
    BY <2>1, <2>2, <2>3, <2>4 DEF Uniqueness
  <2> QED BY <2>1, <2>5, <2>6, <2>7 DEF Uniqueness
<1>3. ASSUME Clear PROVE Uniqueness'
  <2>1. /\ refs' = [refs EXCEPT ![cur] = {}] /\ again' = [again EXCEPT ![cur] = {}]
        /\ doubled' = {e \in doubled : e[1] # cur}
        /\ UNCHANGED <<cur, wpc, wline>>
    BY <1>3 DEF Clear, writerVars
  <2>2. /\ refs'[cur] = {} /\ again'[cur] = {}
        /\ \A k \in Keys : k # cur => refs'[k] = refs[k] /\ again'[k] = again[k]
        /\ \A k \in Keys : k # cur => \A l : <<k, l>> \in doubled => <<k, l>> \in doubled'
    BY <2>1 DEF TypeOK
  <2>3. Unobserved' = Unobserved
    BY <2>1 DEF Unobserved
  <2> QED BY <2>1, <2>2, <2>3 DEF Uniqueness
<1>4. ASSUME NEW s \in Segments, ReadSegment(s) PROVE Uniqueness'
  BY <1>4, WholeSegmentRead, UniquenessReads DEF ReadSegment, writerVars
<1>5. ASSUME Drop \/ \E k \in Keys : CompactShard(k) PROVE Uniqueness'
  <2>1. /\ UNCHANGED <<doubled, wpc, wline>> /\ step' # "read"
        /\ \A k \in Keys : refs'[k] \subseteq refs[k] /\ again'[k] \subseteq again[k]
    <3>1. CASE Drop
      BY <3>1 DEF Drop, Release, shardVars, writerVars, historyVars, TypeOK
    <3>2. ASSUME NEW k \in Keys, CompactShard(k)
          PROVE  /\ UNCHANGED <<doubled, wpc, wline>> /\ step' # "read"
                 /\ \A j \in Keys : refs'[j] \subseteq refs[j] /\ again'[j] \subseteq again[j]
      <4>1. \/ UNCHANGED <<refs, again>>
            \/ /\ refs'  = [refs EXCEPT ![k] = {r \in @ : Available(r)}]
               /\ again' = [again EXCEPT ![k] = {r \in @ : Available(r)}]
        BY <3>2 DEF CompactShard, shardVars
      <4>2. \A j \in Keys : refs'[j] \subseteq refs[j] /\ again'[j] \subseteq again[j]
        BY <4>1 DEF TypeOK
      <4> QED BY <3>2, <4>2 DEF CompactShard, writerVars, historyVars
    <3> QED BY <1>5, <3>1, <3>2
  <2>2. Unobserved' = Unobserved
    BY <2>1 DEF Unobserved
  <2> QED BY <2>1, <2>2, UniquenessStays
<1>6. ASSUME UNCHANGED <<refs, again, doubled>>, Unobserved' \subseteq Unobserved,
             step' = "read" => UNCHANGED <<step, cur, todo>>
      PROVE  Uniqueness'
  BY <1>6, UniquenessStays
<1>7. ASSUME NEW w \in Writers, NEW s \in Segments, Seek(w, s) PROVE Uniqueness'
  <2>1. Unobserved' \subseteq Unobserved
    BY <1>7 DEF Seek, Unobserved, TypeOK
  <2> QED BY <1>6, <1>7, <2>1 DEF Seek, volumeVars, managerVars, historyVars
<1>8. ASSUME NEW s \in Segments, DeleteSegment(s) PROVE Uniqueness'
  <2>1. Unobserved' \subseteq Unobserved
    BY <1>8 DEF DeleteSegment, Now, Unobserved, TypeOK
  <2> QED BY <1>6, <1>8, <2>1 DEF DeleteSegment, shardVars, managerVars
<1>9. ASSUME Crash PROVE Uniqueness'
  <2>1. Unobserved' = {} /\ UNCHANGED <<refs, again, doubled>> /\ step' # "read"
    BY <1>9 DEF Crash, Load, Unobserved, volumeVars
  <2> QED BY <1>6, <2>1
<1>10. ASSUME UNCHANGED <<refs, again, doubled, writerVars>>,
              step' = "read" => UNCHANGED <<step, cur, todo>>
       PROVE  Uniqueness'
  BY <1>6, <1>10 DEF Unobserved, writerVars
<1>11. ASSUME \/ Compact \/ \E k \in Keys : Create(k) \/ Delete(k) \/ MigrateNext(k)
              \/ SaveStep \/ MigrateSaves \/ RebuildEnds \/ CompactEnds
              \/ UNCHANGED vars
       PROVE  Uniqueness'
  BY <1>10, <1>11 DEF Create, Delete, Compact, MigrateNext, SaveStep, Truncate, Encode, SaveFails,
     SavingFails, MigrateSaves, RebuildEnds, CompactEnds, Release, vars, volumeVars, managerVars,
     shardVars, boundVars, historyVars
<1>12. ASSUME RebuildFails PROVE Uniqueness'
  <2>1. UNCHANGED <<cur, wpc, wline, writerVars>> /\ step' # "read" /\ todo' = {}
    BY <1>12 DEF RebuildFails, Release, writerVars
  <2>2. PICK read : Reading(read)
    BY <1>12, FailedRebuildRead
  <2>3. CASE read = {}
    <3>1. UNCHANGED <<refs, again, doubled>>
      BY <2>2, <2>3 DEF Reading, TypeOK
    <3> QED BY <1>10, <2>1, <3>1
  <2>4. CASE step = "read" /\ \E s \in todo : read \subseteq RefsOf(s)
    BY <2>1, <2>2, <2>4, UniquenessReads DEF Reading, TypeOK
  <2> QED BY <2>2, <2>3, <2>4 DEF Reading
<1> QED BY <1>1, <1>2, <1>3, <1>4, <1>5, <1>7, <1>8, <1>9, <1>11, <1>12
        DEF Next, ManagerStep, SaveStep, RebuildStep, OtherStep

\* No line is in an index twice unless a rebuild read it before its writer
\* reported it, whatever is migrated, compacted, killed or fails.
THEOREM TwiceIsExcused == Spec => []TwiceOnlyIfRead
<1>1. Init => Uniqueness
  BY DEF Init, Uniqueness
<1>2. Base /\ Uniqueness /\ [Next]_vars => Uniqueness'
  BY UniquenessStep
<1>3. Base /\ Uniqueness => TwiceOnlyIfRead
  BY DEF Base, TypeOK, Uniqueness, TwiceOnlyIfRead
<1> QED BY <1>1, <1>2, <1>3, BaseHolds, PTL DEF Spec

-----------------------------------------------------------------------------
(* No line missing.                                                        *)

\* What becomes due was due, and what was covered is: coverage lasts.
LEMMA CoverageStays ==
    ASSUME Coverage,
           \A k \in Keys, s \in Segments : Due(k, s)' => Due(k, s),
           \A k \in Keys, s \in Segments : CoveredIn(k, s) => CoveredIn(k, s)'
    PROVE  Coverage'
  BY DEF Coverage

\* A segment stays covered while it gets no line, keeps its references, and its
\* lines are observed or excused as before.
LEMMA CoveredStays ==
    ASSUME NEW k \in Keys, NEW s \in Segments, CoveredIn(k, s),
           LinesOf(s)' \subseteq LinesOf(s),
           \A r \in refs[k] : r.line \in LinesOf(s) /\ r.seg = s => r \in refs'[k],
           \A l \in LinesOf(s) \cap Unobserved : l \in Unobserved' \/ <<k, l>> \in excused',
           \A l : <<k, l>> \in excused => <<k, l>> \in excused'
    PROVE  CoveredIn(k, s)'
  BY DEF CoveredIn, Indexed

\* The writers' steps and deletion.
LEMMA CoverageOutside ==
    ASSUME Base, Coverage,
           NEW w \in Writers, NEW s \in Segments,
           Seek(w, s) \/ WriteLine(w) \/ ObserveLineAt(w)
    PROVE  Coverage'
<1> USE DEF Base
<1>1. UNCHANGED managerVars
  BY DEF Seek, WriteLine, ObserveLineAt
<1>2. \A k \in Keys, t \in Segments : Due(k, t)' => Due(k, t)
  BY <1>1 DEF Due, Rebuilding, managerVars
<1>3. CASE Seek(w, s)
  <2>1. UNCHANGED <<file, refs, excused>>
    BY <1>3 DEF Seek, volumeVars, historyVars
  <2>2. Unobserved \subseteq Unobserved'
    BY <1>3 DEF Seek, Unobserved, TypeOK
  <2>3. \A k \in Keys, t \in Segments : CoveredIn(k, t) => CoveredIn(k, t)'
    BY <2>1, <2>2 DEF CoveredIn, Indexed, LinesOf
  <2> QED BY <1>2, <2>3, CoverageStays
<1>4. CASE WriteLine(w)
  <2>1. UNCHANGED <<refs, excused>> /\ wpc[w] # "observe" /\ wline' = [wline EXCEPT ![w] = written + 1]
    BY <1>4 DEF WriteLine, shardVars
  <2>2. /\ wpc'[w] = "observe"
        /\ \A v \in Writers : wpc[v] = "observe" => wpc'[v] = "observe"
    BY <1>4 DEF WriteLine, Now, TypeOK
  <2>3. Unobserved \cup {written + 1} \subseteq Unobserved'
    BY <2>1, <2>2 DEF Unobserved, TypeOK
  <2>4. \A t \in Segments : LinesOf(t)' \subseteq LinesOf(t) \cup {written + 1}
    <3>1. CASE UNCHANGED file
      BY <3>1 DEF LinesOf
    <3>2. CASE file' = [file EXCEPT ![wseg[w]] = Append(@, written + 1)]
      <4>1. file[wseg[w]] \in Seq(Lines) /\ written + 1 \in Lines
        BY <1>4, IndexAssumption DEF WriteLine, TypeOK, Lines
      <4>2. /\ file'[wseg[w]] = Append(file[wseg[w]], written + 1)
            /\ \A t \in Segments : t # wseg[w] => file'[t] = file[t]
        BY <3>2 DEF TypeOK
      <4> QED BY <4>1, <4>2, AppendLine DEF LinesOf
    <3> QED BY <1>4, <3>1, <3>2 DEF WriteLine
  <2>5. \A k \in Keys, t \in Segments : CoveredIn(k, t) => CoveredIn(k, t)'
    BY <2>1, <2>3, <2>4 DEF CoveredIn, Indexed
  <2> QED BY <1>2, <2>5, CoverageStays
<1>5. CASE ObserveLineAt(w)
  <2> DEFINE ref == [seg |-> wseg[w], pos |-> woff[w] + 1, line |-> wline[w]]
  <2>1. /\ wpc' = [wpc EXCEPT ![w] = "idle"] /\ wline' = [wline EXCEPT ![w] = 0]
        /\ wpc[w] = "observe" /\ Idle /\ UNCHANGED file
    BY <1>5 DEF ObserveLineAt
  <2>2. /\ excused \subseteq excused'
        /\ \A k \in Keys : refs[k] \subseteq refs'[k]
        /\ \A k \in keys : ref \in refs'[k] \/ <<k, wline[w]>> \in excused'
    BY <1>5 DEF ObserveLineAt, TypeOK
  <2>3. \A l \in Unobserved : l = wline[w] \/ l \in Unobserved'
    BY <2>1 DEF Unobserved, TypeOK
  <2>4. \A t \in Segments : wline[w] \in LinesOf(t) => t = wseg[w]
    <3>1. PlacedFrom(wline[w], wseg[w], woff[w] + 1)
      BY <2>1 DEF WritersPlaced
    <3> QED BY <3>1 DEF PlacedFrom, LinesOf
  <2>5. ref.seg = wseg[w] /\ ref.line = wline[w]
    OBVIOUS
  <2> HIDE DEF ref
  <2>6. ASSUME NEW k \in keys, NEW t \in Segments, CoveredIn(k, t) PROVE CoveredIn(k, t)'
    <3> SUFFICES ASSUME NEW l \in LinesOf(t)
                 PROVE  Indexed(k, t, l)' \/ l \in Unobserved' \/ <<k, l>> \in excused'
      BY <2>1 DEF CoveredIn, LinesOf
    <3>1. k \in Keys
      BY DEF TypeOK
    <3>2. CASE l = wline[w]
      BY <2>2, <2>4, <2>5, <3>1, <3>2 DEF Indexed
    <3>3. CASE l # wline[w]
      BY <2>2, <2>3, <2>6, <3>1, <3>3 DEF Indexed, CoveredIn
    <3> QED BY <3>2, <3>3
  <2>7. \A k \in Keys, t \in Segments : Due(k, t)' => k \in keys
    BY <1>2, <2>1 DEF Due, Idle, Control
  <2> QED BY <1>2, <2>6, <2>7 DEF Coverage
<1> QED BY <1>3, <1>4, <1>5

\* A segment is deleted.
LEMMA CoverageDeletion ==
    ASSUME Base, Coverage, NEW s \in Segments, DeleteSegment(s)
    PROVE  Coverage'
<1> USE DEF Base
<1>1. UNCHANGED <<refs, excused, wline, managerVars>>
  BY DEF DeleteSegment, shardVars
<1>2. Unobserved \subseteq Unobserved'
  BY <1>1 DEF DeleteSegment, Now, Unobserved, TypeOK
<1>3. \A t \in Segments : LinesOf(t)' \subseteq LinesOf(t)
  BY EmptySeq DEF DeleteSegment, LinesOf, TypeOK
<1>4. \A k \in Keys, t \in Segments : CoveredIn(k, t) => CoveredIn(k, t)'
  BY <1>1, <1>2, <1>3 DEF CoveredIn, Indexed
<1>5. \A k \in Keys, t \in Segments : Due(k, t)' => Due(k, t)
  BY <1>1 DEF Due, Rebuilding, managerVars
<1> QED BY <1>4, <1>5, CoverageStays

\* An operation's start, and the saving of the manifest.
LEMMA CoverageSaving ==
    ASSUME Base, Coverage,
           Compact \/ SaveStep \/ \E k \in Keys : Create(k) \/ Delete(k)
    PROVE  Coverage'
<1> USE DEF Base
<1>1. UNCHANGED <<file, refs, excused, wpc, wline>>
  BY DEF Compact, SaveStep, Truncate, Encode, SaveFails, SavingFails, Create, Delete, volumeVars, shardVars,
     writerVars, historyVars
<1>2. \A k \in Keys, s \in Segments : CoveredIn(k, s) => CoveredIn(k, s)'
  BY <1>1 DEF CoveredIn, Indexed, LinesOf, Unobserved
<1>3. ASSUME NEW j \in Keys, Create(j) \/ Delete(j) \/ Compact
      PROVE  \A k \in Keys, s \in Segments : Due(k, s)' => Due(k, s)
  BY <1>3 DEF Create, Delete, Compact, Due, Rebuilding, Idle, Control
<1>4. ASSUME Truncate \/ Encode
      PROVE  \A k \in Keys, s \in Segments : Due(k, s)' => Due(k, s)
  BY <1>4 DEF Truncate, Encode, Release, Due, Rebuilding, Control
<1>5. ASSUME SaveFails
      PROVE  \A k \in Keys, s \in Segments : Due(k, s)' => Due(k, s)
  <2>1. /\ op' = "none" /\ step' = "free" /\ step \in {"truncate", "encode"}
        /\ UNCHANGED cur
        /\ \/ op = "create" /\ keys' = keys \ {cur}
           \/ op = "delete" /\ keys' = keys \cup {cur}
           \/ op \in {"migrate", "undo"} /\ UNCHANGED keys
    BY <1>5 DEF SaveFails, SavingFails, Release
  <2> QED BY <2>1 DEF Due, Rebuilding, Control
<1> QED BY IndexAssumption, <1>2, <1>3, <1>4, <1>5, CoverageStays DEF SaveStep

\* A rebuild begins with nothing covered, and covers what it reads.
LEMMA CoverageRebuilding ==
    ASSUME Base, Coverage,
           Clear \/ \E s \in Segments : ReadSegment(s)
    PROVE  Coverage'
<1> USE DEF Base
<1>1. UNCHANGED <<file, wpc, wline, keys, op, cur, left>> /\ step' = "read" /\ op \in {"create", "migrate"}
  BY DEF Clear, ReadSegment, writerVars, Control
<1>2. UNCHANGED Unobserved /\ \A s \in Segments : UNCHANGED LinesOf(s)
  BY <1>1 DEF Unobserved, LinesOf
<1>3. \A s \in Segments : Due(cur, s)' => s \notin todo'
  BY <1>1 DEF Due, Rebuilding
<1>4. \A k \in Keys, s \in Segments : k # cur /\ Due(k, s)' => Due(k, s)
  BY <1>1 DEF Due, Rebuilding
<1>5. CASE Clear
  <2>1. /\ \A k \in Keys : k # cur => refs'[k] = refs[k]
        /\ excused' = {e \in excused : e[1] # cur}
        /\ \A s \in Segments : s \notin todo' => file[s] = <<>>
    BY <1>5 DEF Clear, TypeOK
  <2>2. \A k \in Keys : k # cur => \A l : <<k, l>> \in excused => <<k, l>> \in excused'
    BY <2>1
  <2>3. \A k \in Keys, s \in Segments : k # cur /\ CoveredIn(k, s) => CoveredIn(k, s)'
    BY <1>2, <2>1, <2>2 DEF CoveredIn, Indexed
  <2>4. \A s \in Segments : s \notin todo' => LinesOf(s)' = {}
    BY SMTT(30), <1>2, <2>1, EmptySeq DEF LinesOf
  <2>5. \A s \in Segments : Due(cur, s)' => CoveredIn(cur, s)'
    BY <1>3, <2>4 DEF CoveredIn
  <2> QED BY <1>1, <1>4, <2>3, <2>5 DEF Coverage
<1>6. ASSUME NEW s \in Segments, ReadSegment(s) PROVE Coverage'
  <2>1. /\ UNCHANGED excused /\ todo' = todo \ {s} /\ step = "read"
        /\ refs' = [refs EXCEPT ![cur] = @ \cup RefsOf(s)]
    BY <1>6, WholeSegmentRead DEF ReadSegment
  <2>2. RefsOf(s) \subseteq refs'[cur] /\ \A k \in Keys : refs[k] \subseteq refs'[k]
    BY <2>1 DEF TypeOK
  <2>3. \A k \in Keys, t \in Segments : CoveredIn(k, t) => CoveredIn(k, t)'
    BY <1>2, <2>1, <2>2 DEF CoveredIn, Indexed
  <2>4. ASSUME NEW l \in LinesOf(s) PROVE \E r \in RefsOf(s) : r.seg = s /\ r.line = l
    <3>1. PICK p \in 1..Len(file[s]) : l = file[s][p]
      BY DEF LinesOf
    <3>2. [seg |-> s, pos |-> p, line |-> file[s][p]] \in RefsOf(s)
      BY DEF RefsOf
    <3> QED BY <3>1, <3>2
  <2>5. CoveredIn(cur, s)'
    BY <1>1, <1>2, <2>2, <2>4 DEF CoveredIn, Indexed
  <2>6. \A t \in Segments : Due(cur, t)' /\ t # s => Due(cur, t)
    BY <1>1, <1>3, <2>1 DEF Due
  <2> QED BY <1>1, <1>4, <2>3, <2>5, <2>6 DEF Coverage, TypeOK
<1> QED BY <1>5, <1>6

\* Between two keys of a migration, and when a rebuild is over.
LEMMA CoverageAround ==
    ASSUME Base, Coverage,
           MigrateSaves \/ RebuildEnds \/ RebuildFails \/ \E k \in Keys : MigrateNext(k)
    PROVE  Coverage'
<1> USE DEF Base
<1>1. UNCHANGED <<file, wpc, wline>> /\ excused \subseteq excused'
  BY DEF MigrateSaves, RebuildEnds, RebuildFails, MigrateNext, volumeVars, writerVars, historyVars
<1>6. \A k \in Keys : refs[k] \subseteq refs'[k]
  <2>1. CASE RebuildFails
    BY <2>1, FailedRebuildRead DEF Reading, TypeOK
  <2> QED BY <2>1 DEF MigrateSaves, RebuildEnds, MigrateNext, volumeVars, shardVars
<1>2. \A k \in Keys, s \in Segments : CoveredIn(k, s) => CoveredIn(k, s)'
  BY <1>1, <1>6 DEF CoveredIn, Indexed, LinesOf, Unobserved
<1>3. ASSUME NEW j \in Keys, MigrateSaves \/ MigrateNext(j)
      PROVE  \A k \in Keys, s \in Segments : Due(k, s)' => Due(k, s)
  BY <1>3 DEF MigrateSaves, MigrateNext, Due, Rebuilding, Control
<1>4. ASSUME RebuildEnds
      PROVE  \A k \in Keys, s \in Segments : Due(k, s)' => Due(k, s)
  BY <1>4 DEF RebuildEnds, Release, Due, Rebuilding, Control
<1>5. ASSUME RebuildFails PROVE Coverage'
  <2>1. step \in {"clear", "read"} /\ step' # "read" /\ op' # "delete" /\ UNCHANGED cur
    BY <1>5 DEF RebuildFails, RebuildStops, Release, Control
  <2>2. CASE op = "create" /\ keys' = keys \ {cur} /\ op' = "undo"
    <3>1. \A k \in Keys, s \in Segments : Due(k, s)' => Due(k, s)
      BY <2>1, <2>2 DEF Due, Rebuilding
    <3> QED BY <1>2, <3>1, CoverageStays
  <2>3. CASE /\ op = "migrate" /\ op' = "none" /\ UNCHANGED keys
             /\ excused' = excused \cup ((left \cup {cur}) \X Stored)
    <3>1. ASSUME NEW k \in Keys, NEW s \in Segments, Due(k, s)' PROVE CoveredIn(k, s)'
      <4>1. CASE Due(k, s)
        BY <1>2, <4>1 DEF Coverage
      <4>2. CASE k \in left \cup {cur}
        BY <1>1, <2>3, <4>2 DEF CoveredIn, LinesOf, Stored
      <4> QED BY <2>1, <2>3, <3>1, <4>1, <4>2 DEF Due, Rebuilding
    <3> QED BY <3>1 DEF Coverage
  <2> QED BY <1>5, <2>2, <2>3 DEF RebuildFails, Release
<1> QED BY IndexAssumption, <1>2, <1>3, <1>4, <1>5, CoverageStays

\* The rest of Delete, and compaction, which keeps what is stored.
LEMMA CoverageOther ==
    ASSUME Base, Coverage, OtherStep
    PROVE  Coverage'
<1> USE DEF Base
<1>1. UNCHANGED <<file, excused, wpc, wline, keys, cur>>
  BY DEF OtherStep, Drop, CompactShard, CompactEnds, volumeVars, writerVars, historyVars
<1>2. UNCHANGED <<Unobserved, excused>> /\ \A s \in Segments : UNCHANGED LinesOf(s)
  BY <1>1 DEF Unobserved, LinesOf
<1>3. CASE Drop
  <2>1. /\ op = "delete" /\ step' = "free" /\ op' = "none" /\ cur \notin keys
        /\ \A k \in Keys : k # cur => refs'[k] = refs[k]
        /\ UNCHANGED <<keys, cur>>
    BY <1>3 DEF Drop, Release, Control, shardVars, TypeOK
  <2>2. \A k \in Keys, s \in Segments : Due(k, s)' => Due(k, s) /\ k # cur
    BY <2>1 DEF Due, Rebuilding
  <2>3. \A k \in Keys, s \in Segments : k # cur /\ CoveredIn(k, s) => CoveredIn(k, s)'
    BY <1>2, <2>1 DEF CoveredIn, Indexed
  <2> QED BY <2>2, <2>3 DEF Coverage
<1>4. ASSUME NEW k \in Keys, CompactShard(k) PROVE Coverage'
  <2>1. /\ UNCHANGED <<keys, op, step, cur>> /\ op = "compact"
        /\ UNCHANGED refs \/ refs' = [refs EXCEPT ![k] = {r \in @ : Available(r)}]
    BY <1>4 DEF CompactShard, shardVars, Control
  <2>2. ASSUME NEW j \in Keys, NEW s \in Segments, NEW r \in refs[j], r.line \in LinesOf(s), r.seg = s
        PROVE  Available(r)
    <3>1. PlacedFrom(r.line, s, r.pos) /\ r.pos \in Nat
      BY <2>2, IndexAssumption DEF RefsPlaced, TypeOK, Refs, Lines
    <3>2. Len(file[s]) \in Nat
      BY FileTyped
    <3> QED BY <2>2, <3>1, <3>2 DEF PlacedFrom, LinesOf, Available
  <2>3. \A j \in Keys : refs'[j] = refs[j] \/ refs'[j] = {r \in refs[j] : Available(r)}
    BY <2>1 DEF TypeOK
  <2>4. \A j \in Keys, s \in Segments : CoveredIn(j, s) => CoveredIn(j, s)'
    BY <1>2, <2>2, <2>3, CoveredStays
  <2>5. \A j \in Keys, s \in Segments : Due(j, s)' => Due(j, s)
    BY <2>1 DEF Due, Rebuilding, Control
  <2> QED BY <2>4, <2>5, CoverageStays
<1>5. CASE CompactEnds
  <2>1. UNCHANGED <<refs, keys, cur>> /\ op = "compact" /\ op' = "none" /\ step' = "free"
    BY <1>5 DEF CompactEnds, Release, Control, volumeVars
  <2>2. \A j \in Keys, s \in Segments : CoveredIn(j, s) => CoveredIn(j, s)'
    BY <1>2, <2>1 DEF CoveredIn, Indexed
  <2>3. \A j \in Keys, s \in Segments : Due(j, s)' => Due(j, s)
    BY <2>1 DEF Due, Rebuilding
  <2> QED BY <2>2, <2>3, CoverageStays
<1> QED BY <1>3, <1>4, <1>5 DEF OtherStep

\* A restart excuses the lines on their way, and the keys that were not in use;
\* it rebuilds those of an earlier format.
LEMMA CoverageCrash ==
    ASSUME Base, Coverage, Crash
    PROVE  Coverage'
<1> USE DEF Base
<1>1. UNCHANGED <<file, refs, mf, mfKeys>> /\ op' \in {"none", "migrate"} /\ step' # "read"
  BY DEF Crash, Load, volumeVars
<1>2. /\ excused \subseteq excused' /\ (Keys \X Unobserved) \subseteq excused'
      /\ \A k \in Keys : \/ k = cur /\ op = "create"
                         \/ k \notin keys /\ ~(k = cur /\ op = "delete")
                         => \A l \in Stored : <<k, l>> \in excused'
  BY DEF Crash
<1>3. ASSUME NEW k \in Keys, NEW s \in Segments, Due(k, s)' PROVE CoveredIn(k, s)'
  <2>1. keys' = mfKeys /\ mf # "old" /\ k \in mfKeys
    BY <1>1, <1>3 DEF Due, Rebuilding, Crash, Load
  <2>2. CASE CoveredIn(k, s)
    BY <1>1, <1>2, <2>2 DEF CoveredIn, Indexed, LinesOf
  <2>3. CASE \A l \in Stored : <<k, l>> \in excused'
    BY <1>1, <2>3 DEF CoveredIn, LinesOf, Stored
  <2>4. CASE k \in keys /\ ~(k = cur /\ op = "create")
    <3>1. Due(k, s)
      BY <2>1, <2>4 DEF Due, Rebuilding, Control, TypeOK, Steps
    <3> QED BY <2>2, <3>1 DEF Coverage
  <2>5. CASE k = cur /\ op = "delete"
    <3>1. Due(k, s)
      BY <2>1, <2>5 DEF Due, Control
    <3> QED BY <2>2, <3>1 DEF Coverage
  <2> QED BY <1>2, <2>3, <2>4, <2>5
<1> QED BY <1>3 DEF Coverage

LEMMA CoverageStep == Base /\ Coverage /\ [Next]_vars => Coverage'
<1> SUFFICES ASSUME Base, Coverage, [Next]_vars PROVE Coverage'
  OBVIOUS
<1>1. ASSUME UNCHANGED vars PROVE Coverage'
  BY <1>1 DEF vars, volumeVars, shardVars, managerVars, writerVars, historyVars, Coverage, Due,
     Rebuilding, CoveredIn, Indexed, LinesOf, Unobserved
<1>2. ASSUME NEW w \in Writers, \/ \E s \in Segments : Seek(w, s)
                                \/ WriteLine(w) \/ ObserveLineAt(w)
      PROVE  Coverage'
  BY <1>2, CoverageOutside, IndexAssumption
<1>3. ASSUME ManagerStep PROVE Coverage'
  BY <1>3, CoverageSaving, CoverageRebuilding, CoverageAround, CoverageOther
     DEF ManagerStep, RebuildStep
<1> QED BY <1>1, <1>2, <1>3, CoverageDeletion, CoverageSaving, CoverageCrash DEF Next

\* No line that is stored is missing from an index, for any number of writers,
\* segments, keys, deletions and restarts, but for what a failing call or a
\* kill cost: ObserveLineAt, rebuildLocked, migrate and Compact together.
THEOREM StoredLinesIndexed == Spec => []StoredIsIndexed
<1>1. Init => Coverage
  BY EmptySeq DEF Init, Coverage, CoveredIn, LinesOf
<1>2. Base /\ Coverage /\ [Next]_vars => Coverage'
  BY CoverageStep
<1>3. Base /\ Coverage => StoredIsIndexed
  BY DEF Base, TypeOK, Coverage, Due, CoveredIn, StoredIsIndexed
<1> QED BY <1>1, <1>2, <1>3, BaseHolds, PTL DEF Spec
=============================================================================
