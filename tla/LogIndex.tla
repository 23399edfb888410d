------------------------------ MODULE LogIndex ------------------------------
(***************************************************************************)
(* The index manager of internal/indexes: the manifest indexes.json, the   *)
(* shards in which each key's references are kept, the keys in memory, and *)
(* what goes on around them: the collector's writers, which append a line  *)
(* to its segment and report it afterwards (ObserveLineAt), the deletion   *)
(* of segments by retention and the disk guard, failing calls, and the     *)
(* process being killed.                                                   *)
(*                                                                         *)
(* Every operation of the manager holds m.mu from its first step to its    *)
(* last, and waits for m.ready, so that operations never interleave with   *)
(* each other; what happens to the volume between two of their calls does. *)
(*                                                                         *)
(* A line is a number and carries every key, with one value, so that a key *)
(* has one shard.  A segment is the sequence of its lines, an offset the   *)
(* number of lines before it, an absent file the empty sequence.  A writer *)
(* whose file is deleted loses the line it is writing and has a file again *)
(* for the next; how it comes by one is in SegmentStore.                   *)
(***************************************************************************)
EXTENDS Integers, Sequences

CONSTANTS
    Keys,           \* the index keys
    OldKeys,        \* those of a manifest of an earlier format found at start
    Segments,       \* the segments of a container
    Writers,        \* incarnations of its stream, which may overlap
    MaxLines,       \* bound on the lines written
    MaxFaults,      \* bound on failing calls
    MaxCrashes      \* bound on process restarts

ASSUME IndexAssumption ==
    /\ OldKeys \subseteq Keys
    /\ Keys # {} /\ Segments # {}
    /\ MaxLines \in Nat /\ MaxFaults \in Nat /\ MaxCrashes \in Nat

Lines == 1..MaxLines
\* A reference: the segment, the position in it, and the line it was made for.
Refs  == [seg : Segments, pos : Lines, line : Lines]

VARIABLES
    \* the volume
    file,           \* segment -> its lines
    mf, mfKeys,     \* the manifest: its state and the keys it lists
    refs, again,    \* key -> the references a scan of its shard reads, and those
                    \* it reads twice
    shape,          \* key -> "whole", "tail" (ends in a partial record),
                    \* "garbled" (has more after one) or "old"
    \* the manager
    keys,           \* m.keys
    ready,          \* whether m.ready is closed
    op, step,       \* the operation holding m.mu, and where it is
    cur, left, todo,\* its key; keys it has yet to treat; segments yet to read
    \* the writers
    wpc, wseg, woff, wline,
    written, faults, crashes,
    \* history, read only by the properties
    excused,        \* <<key, line>> whose reference a mishap has cost
    doubled,        \* <<key, line>> read by a rebuild before it was observed
    strayed,        \* lines not where their writer's Seek said, or gone
    undeleted       \* keys a Delete put back in m.keys and not in the manifest

volumeVars  == <<file, mf, mfKeys, refs, again, shape>>
managerVars == <<keys, ready, op, step, cur, left, todo>>
writerVars  == <<wpc, wseg, woff, wline>>
boundVars   == <<written, faults, crashes>>
historyVars == <<excused, doubled, strayed, undeleted>>
vars == <<volumeVars, managerVars, writerVars, boundVars, historyVars>>

shardVars   == <<refs, again, shape>>

AnyKey     == CHOOSE k \in Keys : TRUE
AnySegment == CHOOSE s \in Segments : TRUE

LinesOf(s) == {file[s][p] : p \in 1..Len(file[s])}
Stored     == UNION {LinesOf(s) : s \in Segments}
Unobserved == {wline[w] : w \in {v \in Writers : wpc[v] = "observe"}}

\* NewManager: the keys of the manifest, and a migration if it is of another
\* format.  A manifest that cannot be read counts as none.
Load(state, listed) ==
    /\ keys'  = listed
    /\ ready' = (IF state = "old" THEN "no" ELSE "yes")
    /\ op'    = (IF state = "old" THEN "migrate" ELSE "none")
    /\ step'  = (IF state = "old" THEN "next" ELSE "free")
    /\ left'  = (IF state = "old" THEN listed ELSE {})
    /\ cur' = AnyKey /\ todo' = {}

\* A volume without indexes, or with those of an earlier version.
Init ==
    /\ file = [s \in Segments |-> <<>>]
    /\ mfKeys \in {{}, OldKeys}
    /\ mf = IF mfKeys = {} THEN "absent" ELSE "old"
    /\ refs = [k \in Keys |-> {}] /\ again = [k \in Keys |-> {}]
    /\ shape = [k \in Keys |-> IF k \in mfKeys THEN "old" ELSE "whole"]
    /\ keys = mfKeys
    /\ ready = IF mf = "old" THEN "no" ELSE "yes"
    /\ op = IF mf = "old" THEN "migrate" ELSE "none"
    /\ step = IF mf = "old" THEN "next" ELSE "free"
    /\ left = mfKeys /\ cur = AnyKey /\ todo = {}
    /\ wpc = [w \in Writers |-> "idle"] /\ wseg = [w \in Writers |-> AnySegment]
    /\ woff = [w \in Writers |-> 0] /\ wline = [w \in Writers |-> 0]
    /\ written = 0 /\ faults = 0 /\ crashes = 0
    /\ excused = {} /\ doubled = {} /\ strayed = {} /\ undeleted = {}

-----------------------------------------------------------------------------
(* The writers: WriteWithLocation's Seek and Write, then ObserveLineAt.    *)

\* Mutant: the writer takes the offset of the start of the segment.
BlindSeek(w, s) ==
    /\ wpc[w] = "idle"
    /\ wpc'  = [wpc EXCEPT ![w] = "seeked"]
    /\ wseg' = [wseg EXCEPT ![w] = s]
    /\ woff' = [woff EXCEPT ![w] = 0]
    /\ UNCHANGED <<volumeVars, managerVars, wline, boundVars, historyVars>>

Seek(w, s) ==
    /\ wpc[w] = "idle"
    /\ wpc'  = [wpc EXCEPT ![w] = "seeked"]
    /\ wseg' = [wseg EXCEPT ![w] = s]
    /\ woff' = [woff EXCEPT ![w] = Len(file[s])]
    /\ UNCHANGED <<volumeVars, managerVars, wline, boundVars, historyVars>>

\* Writers of the same segment whose Seek another's line has overtaken, or
\* whose file has been deleted.
Now(w, s, pcs, pc) == IF wpc[w] \in pcs /\ wseg[w] = s THEN pc ELSE wpc[w]

\* The file is open with O_APPEND: the line goes to its end, wherever the
\* writer has seen that.  A writer whose file was deleted meanwhile appends to
\* no file of the volume.
WriteLine(w) ==
    /\ wpc[w] \in {"seeked", "overtaken", "adrift"} /\ written < MaxLines
    /\ written' = written + 1
    /\ wline' = [wline EXCEPT ![w] = written + 1]
    /\ \/ /\ wpc[w] # "adrift"
          /\ file' = [file EXCEPT ![wseg[w]] = Append(@, written + 1)]
          /\ wpc'  = [v \in Writers |-> IF v = w THEN "observe"
                                        ELSE Now(v, wseg[w], {"seeked"}, "overtaken")]
       \/ /\ wpc[w] = "adrift"
          /\ wpc' = [wpc EXCEPT ![w] = "observe"]
          /\ UNCHANGED file
    /\ strayed' = IF wpc[w] = "seeked" THEN strayed ELSE strayed \cup {written + 1}
    /\ UNCHANGED <<mf, mfKeys, shardVars, managerVars, wseg, woff, faults,
                   crashes, excused, doubled, undeleted>>

Idle == step = "free" /\ ready = "yes"

\* ObserveLineAt: a reference for every key; a failing append is ignored, and
\* may leave part of a record.  What follows a partial record, or is appended
\* to a shard of an earlier format, no scan reads.
ObserveLineAt(w) ==
    LET ref == [seg |-> wseg[w], pos |-> woff[w] + 1, line |-> wline[w]] IN
    /\ wpc[w] = "observe" /\ Idle
    /\ \E failing \in {{}} \cup {{k} : k \in keys} : \E torn \in {{}, failing} :
          LET kept == {k \in keys \ failing : shape[k] = "whole"}
              more == (keys \ failing) \cup torn
          IN
          /\ failing # {} => faults < MaxFaults
          /\ faults' = IF failing = {} THEN faults ELSE faults + 1
          /\ refs'  = [k \in Keys |-> IF k \in kept THEN refs[k] \cup {ref} ELSE refs[k]]
          /\ again' = [k \in Keys |-> IF k \in kept THEN again[k] \cup ({ref} \cap refs[k])
                                      ELSE again[k]]
          /\ shape' = [k \in Keys |-> IF shape[k] = "tail" /\ k \in more THEN "garbled"
                                      ELSE IF shape[k] = "whole" /\ k \in torn THEN "tail"
                                      ELSE shape[k]]
          /\ excused' = excused \cup {<<k, wline[w]>> : k \in keys \ kept}
    /\ wpc'   = [wpc EXCEPT ![w] = "idle"]
    /\ wseg'  = [wseg EXCEPT ![w] = AnySegment]
    /\ woff'  = [woff EXCEPT ![w] = 0]
    /\ wline' = [wline EXCEPT ![w] = 0]
    /\ UNCHANGED <<file, mf, mfKeys, managerVars, written, crashes, doubled, strayed,
                   undeleted>>

\* Retention or the disk guard deletes a segment, even one with a writer.
DeleteSegment(s) ==
    /\ file[s] # <<>>
    /\ file' = [file EXCEPT ![s] = <<>>]
    /\ wpc' = [w \in Writers |-> Now(w, s, {"seeked", "overtaken"}, "adrift")]
    /\ strayed' = strayed \cup LinesOf(s)
    /\ UNCHANGED <<mf, mfKeys, shardVars, managerVars, wseg, woff, wline,
                   boundVars, excused, doubled, undeleted>>

-----------------------------------------------------------------------------
(* The operations: what each does when it gets m.mu.                       *)

Fault == faults < MaxFaults /\ faults' = faults + 1

Release == op' = "none" /\ step' = "free"

Create(k) ==
    /\ Idle /\ k \notin keys
    /\ keys' = keys \cup {k}
    /\ op' = "create" /\ step' = "truncate" /\ cur' = k
    /\ UNCHANGED <<volumeVars, ready, left, todo, writerVars, boundVars, historyVars>>

Delete(k) ==
    /\ Idle /\ k \in keys
    /\ keys' = keys \ {k}
    /\ op' = "delete" /\ step' = "truncate" /\ cur' = k
    /\ UNCHANGED <<volumeVars, ready, left, todo, writerVars, boundVars, historyVars>>

Compact ==
    /\ Idle /\ keys # {}
    /\ op' = "compact" /\ step' = "compact" /\ left' = keys
    /\ UNCHANGED <<volumeVars, keys, ready, cur, todo, writerVars, boundVars, historyVars>>

-----------------------------------------------------------------------------
(* saveLocked: os.Create truncates the manifest, Encode fills it.          *)

Truncate ==
    /\ step = "truncate"
    /\ mf' = "broken" /\ mfKeys' = {}
    /\ step' = "encode"
    /\ UNCHANGED <<file, shardVars, keys, ready, op, cur, left, todo, writerVars,
                   boundVars, historyVars>>

\* Create goes on to the rebuild, Delete to the removal of the shards; migrate
\* and an undone Create are finished.
Encode ==
    /\ step = "encode"
    /\ mf' = "new" /\ mfKeys' = keys /\ undeleted' = {}
    /\ \/ /\ op = "create" /\ step' = "clear" /\ UNCHANGED <<op, ready>>
       \/ /\ op = "delete" /\ step' = "drop" /\ UNCHANGED <<op, ready>>
       \/ /\ op \in {"migrate", "undo"} /\ Release /\ ready' = "yes"
    /\ UNCHANGED <<file, shardVars, keys, cur, left, todo, writerVars, boundVars,
                   excused, doubled, strayed>>

\* The save's failing calls.  Close fails when Encode has filled the manifest:
\* it then lists the keys with the change that Create and Delete take back.
SavingFails ==
    /\ step \in {"truncate", "encode"} /\ Fault
    /\ \/ UNCHANGED <<mf, mfKeys, undeleted>>
       \/ /\ step = "encode"
          /\ mf' = "new" /\ mfKeys' = keys
          /\ undeleted' = IF op = "delete" THEN {cur} ELSE {}
    /\ Release /\ ready' = "yes"
    /\ UNCHANGED <<file, shardVars, cur, left, todo, writerVars, written, crashes,
                   excused, doubled, strayed>>

\* Mutant: create keeps a key it could not save.
KeepSaveFails ==
    /\ SavingFails
    /\ keys' = IF op = "delete" THEN keys \cup {cur} ELSE keys

\* A call fails: Create and Delete take their change of m.keys back.
SaveFails ==
    /\ SavingFails
    /\ \/ op = "create" /\ keys' = keys \ {cur}
       \/ op = "delete" /\ keys' = keys \cup {cur}
       \/ op \in {"migrate", "undo"} /\ UNCHANGED keys

-----------------------------------------------------------------------------
(* rebuildLocked, for Create and for each key of a migration.              *)

MigrateNext(k) ==
    /\ step = "next" /\ k \in left
    /\ cur' = k /\ left' = left \ {k} /\ step' = "clear"
    /\ UNCHANGED <<volumeVars, keys, ready, op, todo, writerVars, boundVars, historyVars>>

MigrateSaves ==
    /\ step = "next" /\ left = {}
    /\ step' = "truncate"
    /\ UNCHANGED <<volumeVars, keys, ready, op, cur, left, todo, writerVars,
                   boundVars, historyVars>>

\* Mutant: a rebuild adds to the shards that are there.
KeepClear ==
    /\ step = "clear"
    /\ todo' = {s \in Segments : file[s] # <<>>}
    /\ step' = "read"
    /\ excused' = {e \in excused : e[1] # cur}
    /\ doubled' = {e \in doubled : e[1] # cur}
    /\ UNCHANGED <<file, mf, mfKeys, shardVars, keys, ready, op, cur, left,
                   writerVars, boundVars, strayed, undeleted>>

\* RemoveAll of the key's shards, and the listing of the segments.
Clear ==
    /\ step = "clear"
    /\ refs'  = [refs EXCEPT ![cur] = {}]
    /\ again' = [again EXCEPT ![cur] = {}]
    /\ shape' = [shape EXCEPT ![cur] = "whole"]
    /\ todo' = {s \in Segments : file[s] # <<>>}
    /\ step' = "read"
    /\ excused' = {e \in excused : e[1] # cur}
    /\ doubled' = {e \in doubled : e[1] # cur}
    /\ UNCHANGED <<file, mf, mfKeys, keys, ready, op, cur, left, writerVars,
                   boundVars, strayed, undeleted>>

RefsOf(s) == {[seg |-> s, pos |-> p, line |-> file[s][p]] : p \in 1..Len(file[s])}

\* backfillFileLocked, up to line n of a segment.
Backfill(s, n) ==
    LET read == {r \in RefsOf(s) : r.pos <= n} IN
    /\ refs'  = [refs EXCEPT ![cur] = @ \cup read]
    /\ again' = [again EXCEPT ![cur] = @ \cup (read \cap refs[cur])]
    /\ doubled' = doubled \cup ({cur} \X ({r.line : r \in read} \cap Unobserved))

\* A reference for every line of a segment.
ReadSegment(s) ==
    /\ step = "read" /\ s \in todo /\ file[s] # <<>>
    /\ Backfill(s, Len(file[s]))
    /\ todo' = todo \ {s}
    /\ UNCHANGED <<file, mf, mfKeys, shape, keys, ready, op, step, cur, left,
                   writerVars, boundVars, excused, strayed, undeleted>>

RebuildEnds ==
    /\ step = "read" /\ todo = {}
    /\ \/ op = "create" /\ Release
       \/ op = "migrate" /\ step' = "next" /\ UNCHANGED op
    /\ UNCHANGED <<volumeVars, keys, ready, cur, left, todo, writerVars, boundVars,
                   historyVars>>

\* A call of the rebuild fails, or a segment it has listed is gone.  An append
\* that fails leaves the lines before its own, and may leave part of a record,
\* or all of it if it is Close that fails.
RebuildStops ==
    \/ step \in {"clear", "read"} /\ Fault /\ UNCHANGED <<shardVars, doubled>>
    \/ /\ step = "read" /\ (\E s \in todo : file[s] = <<>>)
       /\ UNCHANGED <<faults, shardVars, doubled>>
    \/ /\ step = "read" /\ Fault
       /\ \E s \in todo : \E n \in 1..Len(file[s]) :
             \/ Backfill(s, n - 1) /\ shape' \in {shape, [shape EXCEPT ![cur] = "tail"]}
             \/ Backfill(s, n) /\ UNCHANGED shape

\* Create takes the key back and saves again; migrate gives up, and lets
\* everybody in.
RebuildFails ==
    /\ RebuildStops
    /\ todo' = {}
    /\ \/ /\ op = "create"
          /\ keys' = keys \ {cur}
          /\ op' = "undo" /\ step' = "truncate"
          /\ UNCHANGED <<ready, left, excused>>
       \/ /\ op = "migrate"
          /\ Release /\ ready' = "yes" /\ left' = {}
          /\ excused' = excused \cup ((left \cup {cur}) \X Stored)
          /\ UNCHANGED keys
    /\ UNCHANGED <<file, mf, mfKeys, cur, writerVars, written, crashes, strayed,
                   undeleted>>

-----------------------------------------------------------------------------
(* The rest of Delete, and Compact's treatment of one shard.               *)

Drop ==
    /\ step = "drop"
    /\ \/ /\ refs'  = [refs EXCEPT ![cur] = {}]
          /\ again' = [again EXCEPT ![cur] = {}]
          /\ shape' = [shape EXCEPT ![cur] = "whole"]
          /\ UNCHANGED faults
       \/ Fault /\ UNCHANGED shardVars
    /\ Release
    /\ UNCHANGED <<file, mf, mfKeys, keys, ready, cur, left, todo, writerVars,
                   written, crashes, historyVars>>

\* Mutant: compaction drops the reference that ends where the file ends.
StrictAvailable(ref) == ref.pos < Len(file[ref.seg])

Available(ref) == ref.pos <= Len(file[ref.seg])

Unreadable(k) == shape[k] \in {"garbled", "old"} \/ (shape[k] = "tail" /\ refs[k] = {})

\* Mutant: a shard that cannot be read is tried again.
RetryCompactShard(k) ==
    /\ step = "compact" /\ k \in left
    /\ \/ /\ shape[k] # "old"
          /\ refs'  = [refs EXCEPT ![k] = {r \in @ : Available(r)}]
          /\ again' = [again EXCEPT ![k] = {r \in @ : Available(r)}]
          /\ shape' = [shape EXCEPT ![k] = "whole"]
          /\ left' = left \ {k}
          /\ UNCHANGED faults
       \/ /\ Unreadable(k) \/ faults < MaxFaults
          /\ faults' = IF Unreadable(k) THEN faults ELSE faults + 1
          /\ UNCHANGED <<left, shardVars>>
    /\ UNCHANGED <<file, mf, mfKeys, keys, ready, op, step, cur, todo, writerVars,
                   written, crashes, historyVars>>

\* The shard is rewritten with the references whose file is long enough.  A
\* partial record at its end goes as well.  At one in its midst the scan may
\* stop in silence or with an error, which ends the operation, as it may if
\* the partial record is all there is.
CompactShard(k) ==
    /\ step = "compact" /\ k \in left
    /\ \/ /\ shape[k] # "old"
          /\ refs'  = [refs EXCEPT ![k] = {r \in @ : Available(r)}]
          /\ again' = [again EXCEPT ![k] = {r \in @ : Available(r)}]
          /\ shape' = [shape EXCEPT ![k] = "whole"]
          /\ left' = left \ {k}
          /\ UNCHANGED faults
       \/ /\ \/ Unreadable(k) /\ UNCHANGED faults
             \/ Fault
          /\ left' = {}
          /\ UNCHANGED shardVars
    /\ UNCHANGED <<file, mf, mfKeys, keys, ready, op, step, cur, todo, writerVars,
                   written, crashes, historyVars>>

CompactEnds ==
    /\ step = "compact" /\ left = {}
    /\ Release
    /\ UNCHANGED <<volumeVars, keys, ready, cur, left, todo, writerVars, boundVars,
                   historyVars>>

-----------------------------------------------------------------------------
\* The process is killed and started again.  Lines not yet observed never are,
\* and a key whose rebuild was cut short, or whose removal could not be saved,
\* comes back with what its shard holds.  A manifest that cannot be opened
\* counts as none for this life of the process.
Crash ==
    /\ crashes < MaxCrashes
    /\ crashes' = crashes + 1
    /\ \/ Load(mf, mfKeys) /\ UNCHANGED faults
       \/ Load("absent", {}) /\ Fault
    /\ wpc' = [w \in Writers |-> "idle"] /\ wseg' = [w \in Writers |-> AnySegment]
    /\ woff' = [w \in Writers |-> 0] /\ wline' = [w \in Writers |-> 0]
    /\ excused' = excused \cup (Keys \X Unobserved)
           \cup ({k \in Keys : \/ k = cur /\ op = "create"
                               \/ k \notin keys /\ ~(k = cur /\ op = "delete")} \X Stored)
    /\ undeleted' = {}
    /\ UNCHANGED <<volumeVars, written, doubled, strayed>>

SaveStep    == Truncate \/ Encode \/ SaveFails
RebuildStep == \/ \E k \in Keys : MigrateNext(k)
               \/ MigrateSaves \/ Clear \/ RebuildEnds \/ RebuildFails
               \/ \E s \in Segments : ReadSegment(s)
OtherStep   == Drop \/ (\E k \in Keys : CompactShard(k)) \/ CompactEnds
ManagerStep == SaveStep \/ RebuildStep \/ OtherStep

Next ==
    \/ \E w \in Writers : \/ \E s \in Segments : Seek(w, s)
                          \/ WriteLine(w) \/ ObserveLineAt(w)
    \/ \E s \in Segments : DeleteSegment(s)
    \/ \E k \in Keys : Create(k) \/ Delete(k)
    \/ Compact
    \/ ManagerStep
    \/ Crash

\* An operation that holds m.mu runs on.  A mutex of Go's hands itself to the
\* one that has waited longest once it has waited a millisecond, so that
\* ObserveLineAt gets it however often it is taken meanwhile.
Fairness ==
    /\ WF_vars(ManagerStep)
    /\ \A w \in Writers : SF_vars(ObserveLineAt(w))

Spec == Init /\ [][Next]_vars /\ Fairness

-----------------------------------------------------------------------------
(* Properties.                                                             *)

Steps == {"free", "truncate", "encode", "next", "clear", "read", "drop", "compact"}

\* What the variables range over.
TypeOK ==
    /\ file \in [Segments -> Seq(Lines)]
    /\ mf \in {"absent", "broken", "old", "new"} /\ mfKeys \subseteq Keys
    /\ refs \in [Keys -> SUBSET Refs] /\ again \in [Keys -> SUBSET Refs]
    /\ shape \in [Keys -> {"whole", "tail", "garbled", "old"}]
    /\ keys \subseteq Keys /\ ready \in {"no", "yes"}
    /\ op \in {"none", "create", "delete", "compact", "migrate", "undo"}
    /\ step \in Steps
    /\ cur \in Keys /\ left \subseteq Keys /\ todo \subseteq Segments
    /\ wpc \in [Writers -> {"idle", "seeked", "overtaken", "adrift", "observe"}]
    /\ wseg \in [Writers -> Segments]
    /\ woff \in [Writers -> 0..MaxLines] /\ wline \in [Writers -> 0..MaxLines]
    /\ written \in 0..MaxLines /\ faults \in 0..MaxFaults /\ crashes \in 0..MaxCrashes
    /\ excused \subseteq Keys \X Lines /\ doubled \subseteq Keys \X Lines
    /\ strayed \subseteq Lines /\ undeleted \subseteq Keys

\* The key is being rebuilt, or waits for a migration to do so.
Rebuilding(k) ==
    \/ op = "migrate" /\ k \in left
    \/ op = "create" /\ k = cur
    \/ op = "migrate" /\ k = cur /\ step \in {"clear", "read"}

Indexed(k, s, l) == \E r \in refs[k] : r.seg = s /\ r.line = l

\* A line that is stored and not still on its way to ObserveLineAt is in the
\* index of every key, unless a call failed or the process was killed at a
\* moment that cost it: whatever writers, deletion, compaction and migration
\* do meanwhile, a rebuild and the lines observed after it leave no gap.
StoredIsIndexed ==
    \A k \in keys : ~Rebuilding(k) =>
        \A s \in Segments : \A l \in LinesOf(s) :
            Indexed(k, s, l) \/ l \in Unobserved \/ <<k, l>> \in excused

\* A line is in an index twice only if the rebuild read it after it was
\* written and before it was observed.
TwiceOnlyIfRead ==
    \A k \in keys :
        /\ \A r, q \in refs[k] : r.line = q.line => r = q \/ <<k, r.line>> \in doubled
        /\ \A r \in again[k] : <<k, r.line>> \in doubled

\* A reference that is shown reads the line it was made for, unless two
\* writers had the segment open at once or its segment was deleted and began
\* anew before the reference was compacted away.
ReferenceReadsItsLine ==
    \A k \in keys : \A r \in refs[k] :
        Available(r) => file[r.seg][r.pos] = r.line \/ r.line \in strayed

\* What a restart would load is what is in use.  After a call has failed it may
\* bring an index deleted back; it forgets one in use only if a Delete of it
\* failed when the manifest was written and could not be closed.  A save that
\* fails or is killed halfway leaves no manifest that can be read.
RestartKeepsIndexes ==
    op = "none" /\ mf # "broken" =>
        keys = mfKeys \/ (keys \ undeleted \subseteq mfKeys /\ faults > 0)

\* A writer that reports a line gets on, whatever becomes of the migration.
ObserveReturns ==
    \A w \in Writers : wpc[w] = "observe" ~> wpc[w] # "observe"

\* ARCHITECTURE.md: "If `formatVersion` doesn't match, the value files are
\* rebuilt": a manifest of the current format lists no key whose shards are of
\* an earlier one.
StampedIsRebuilt == mf = "new" => \A k \in mfKeys : shape[k] # "old"
=============================================================================
