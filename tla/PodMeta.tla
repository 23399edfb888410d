------------------------------ MODULE PodMeta ------------------------------
(***************************************************************************)
(* One pod's directory: its meta.json, which OnAdd (the owner) and every   *)
(* container's new SegmentWriter (the container's name) update by reading, *)
(* changing and rewriting it under metaMu (storage/layout.go), and which   *)
(* the RetentionManager and the DiskGuard remove, without metaMu, with the *)
(* last of the pod's segments.                                             *)
(*                                                                         *)
(* What meta.json says is the set of those who have recorded their fact in *)
(* it.  A container's segments are abstracted to whether its directory is  *)
(* absent, empty or full: SegmentStore has their story.                    *)
(***************************************************************************)
EXTENDS Integers, FiniteSets

CONSTANTS
    PodContainers,  \* the pod's containers
    PodHandler,     \* the watcher's callback, which records the owner
    Nobody,         \* metaMu is free
    MaxFaults,      \* bound on failing system calls
    MaxCrashes      \* bound on process restarts

Actors == PodContainers \cup {PodHandler}

ASSUME PodMetaAssumption ==
    /\ PodHandler \notin PodContainers
    /\ Nobody \notin Actors
    /\ MaxFaults \in Nat /\ MaxCrashes \in Nat

VARIABLES
    \* the pod's directory
    dir,            \* whether it exists
    metaFile, meta, \* meta.json: absent, partial or whole, and what it says
    tmpFile, tmp,   \* meta.json.tmp likewise
    segs,           \* container -> its directory
    \* the process
    pod,            \* what IsActive says of the pod
    metaMu,         \* who holds it
    upc, val,       \* where each update is, and what it is about to write
    open,           \* containers whose writer has a segment open
    gpc, gdir,      \* the disk guard's cleanup
    spc, ractive, rtodo, rleft,     \* the sweep of this directory
    faults, crashes,
    \* history, read only by the properties
    noted           \* updates completed since meta.json was last removed

fileVars  == <<dir, metaFile, meta, tmpFile, tmp, segs>>
podVars   == <<pod, open>>
updateVars == <<metaMu, upc, val>>
guardVars == <<gpc, gdir>>
sweepVars == <<spc, ractive, rtodo, rleft>>
boundVars == <<faults, crashes>>
historyVars == <<noted>>
metaVars == <<fileVars, podVars, updateVars, guardVars, sweepVars, boundVars, historyVars>>

NoContainers == \A c \in PodContainers : segs[c] = "absent"

MetaInit ==
    /\ dir = "absent" /\ metaFile = "absent" /\ meta = {} /\ tmpFile = "absent" /\ tmp = {}
    /\ segs = [c \in PodContainers |-> "absent"]
    /\ pod = "gone" /\ open = {}
    /\ metaMu = Nobody
    /\ upc = [a \in Actors |-> "idle"]
    /\ val = [a \in Actors |-> {}]
    /\ gpc = "idle" /\ gdir = {}
    /\ spc = "idle" /\ ractive = "no" /\ rtodo = {} /\ rleft = {}
    /\ faults = 0 /\ crashes = 0
    /\ noted = {}

-----------------------------------------------------------------------------
(* The collector *)

\* OnAdd has registered the pod's streams; RecordOwner comes next, while the
\* cancelled goroutines of the last incarnation may still be about.
PodAdded ==
    /\ pod = "gone" /\ upc[PodHandler] = "idle"
    /\ pod' = "active"
    /\ upc' = [upc EXCEPT ![PodHandler] = "wait"]
    /\ UNCHANGED <<fileVars, open, metaMu, val, guardVars, sweepVars, boundVars, historyVars>>

\* OnAdd starts a goroutine per container, whether or not the owner was
\* recorded, and each builds its SegmentWriter.  Those they replace are taken
\* to have ended by now.
SpawnStreams ==
    /\ upc[PodHandler] \in {"done", "failed"} /\ \A c \in PodContainers : upc[c] = "idle"
    /\ upc' = [a \in Actors |-> IF a = PodHandler THEN "idle" ELSE "wait"]
    /\ UNCHANGED <<fileVars, podVars, metaMu, val, guardVars, sweepVars, boundVars, historyVars>>

PodDeleted ==
    /\ pod = "active" /\ upc[PodHandler] = "idle"
    /\ pod' = "gone"
    /\ UNCHANGED <<fileVars, open, updateVars, guardVars, sweepVars, boundVars, historyVars>>

\* A cancelled stream closes its writer.
ContainerEnds(c) ==
    /\ pod = "gone" \/ upc[PodHandler] # "idle"
    /\ upc[c] \in {"done", "failed"}
    /\ upc' = [upc EXCEPT ![c] = "idle"]
    /\ open' = open \ {c}
    /\ UNCHANGED <<fileVars, pod, metaMu, val, guardVars, sweepVars, boundVars, historyVars>>

\* A line for a day with no open segment: the writer makes the directories it
\* finds missing and opens one.
StoreLine(c) ==
    /\ upc[c] = "done"
    /\ dir' = "present"
    /\ segs' = [segs EXCEPT ![c] = "full"]
    /\ open' = open \cup {c}
    /\ UNCHANGED <<metaFile, meta, tmpFile, tmp, pod, updateVars, guardVars, sweepVars,
                   boundVars, historyVars>>

-----------------------------------------------------------------------------
(* recordContainerSeen (a container) and RecordOwner (the handler) *)

\* Mutant: the update does not take the lock.
LockNothing(a) ==
    /\ upc[a] = "wait"
    /\ upc' = [upc EXCEPT ![a] = "read"]
    /\ UNCHANGED <<fileVars, podVars, metaMu, val, guardVars, sweepVars, boundVars, historyVars>>

Lock(a) ==
    /\ upc[a] = "wait" /\ metaMu = Nobody
    /\ metaMu' = a
    /\ upc' = [upc EXCEPT ![a] = "read"]
    /\ UNCHANGED <<fileVars, podVars, val, guardVars, sweepVars, boundVars, historyVars>>

\* ReadPodMeta, and the change to what it returned.
ReadMeta(a) ==
    /\ upc[a] = "read" /\ metaFile # "partial"
    /\ val' = [val EXCEPT ![a] = meta \cup {a}]
    /\ upc' = [upc EXCEPT ![a] = "mkdir"]
    /\ UNCHANGED <<fileVars, podVars, metaMu, guardVars, sweepVars, boundVars, historyVars>>

\* WritePodMeta: MkdirAll, WriteFile of the temporary file (which truncates
\* it first), Rename.
MkdirAll(a) ==
    /\ upc[a] = "mkdir"
    /\ dir' = "present"
    /\ upc' = [upc EXCEPT ![a] = "create"]
    /\ UNCHANGED <<metaFile, meta, tmpFile, tmp, segs, podVars, metaMu, val, guardVars,
                   sweepVars, boundVars, historyVars>>

CreateTmp(a) ==
    /\ upc[a] = "create" /\ dir = "present"
    /\ tmpFile' = "partial" /\ tmp' = {}
    /\ upc' = [upc EXCEPT ![a] = "write"]
    /\ UNCHANGED <<dir, metaFile, meta, segs, podVars, metaMu, val, guardVars, sweepVars,
                   boundVars, historyVars>>

WriteTmp(a) ==
    /\ upc[a] = "write"
    /\ tmpFile' = "whole" /\ tmp' = val[a]
    /\ upc' = [upc EXCEPT ![a] = "rename"]
    /\ UNCHANGED <<dir, metaFile, meta, segs, podVars, metaMu, val, guardVars, sweepVars,
                   boundVars, historyVars>>

Rename(a) ==
    /\ upc[a] = "rename"
    /\ metaFile' = tmpFile /\ meta' = tmp
    /\ tmpFile' = "absent" /\ tmp' = {}
    /\ upc' = [upc EXCEPT ![a] = "done"]
    /\ metaMu' = Nobody
    /\ noted' = noted \cup {a}
    /\ UNCHANGED <<dir, segs, podVars, val, guardVars, sweepVars, boundVars>>

Failed(a) ==
    /\ upc' = [upc EXCEPT ![a] = "failed"]
    /\ metaMu' = Nobody
    /\ UNCHANGED <<fileVars, podVars, val, guardVars, sweepVars, crashes, historyVars>>

\* A call fails, for lack of space or otherwise, leaving whatever was written.
CallFails(a) ==
    /\ upc[a] \in {"mkdir", "create", "write", "rename"} /\ faults < MaxFaults
    /\ faults' = faults + 1
    /\ Failed(a)

\* The directory is gone again.
DirGone(a) == upc[a] = "create" /\ dir = "absent" /\ Failed(a) /\ UNCHANGED faults

UpdateStep(a) ==
    \/ Lock(a) \/ ReadMeta(a) \/ MkdirAll(a) \/ CreateTmp(a) \/ WriteTmp(a) \/ Rename(a)
    \/ CallFails(a) \/ DirGone(a)

-----------------------------------------------------------------------------
(* Removal *)

RemoveMeta ==
    /\ metaFile' = "absent" /\ meta' = {}
    /\ noted' = {}

\* os.Remove(podDir), which fails unless the directory is empty.
RemoveDir ==
    dir' = IF metaFile = "absent" /\ tmpFile = "absent" /\ NoContainers THEN "absent" ELSE dir

\* The disk guard has deleted the last segment of a container, one no writer
\* has open.
GuardDeletes(c) ==
    /\ gpc = "idle" /\ segs[c] = "full" /\ c \notin open
    /\ segs' = [segs EXCEPT ![c] = "empty"]
    /\ gpc' = "container" /\ gdir' = {c}
    /\ UNCHANGED <<dir, metaFile, meta, tmpFile, tmp, podVars, updateVars, sweepVars,
                   boundVars, historyVars>>

\* cleanupEmptyDirsAbove
GuardContainer ==
    /\ gpc = "container"
    /\ segs' = [c \in PodContainers |-> IF c \in gdir /\ segs[c] = "empty" THEN "absent" ELSE segs[c]]
    /\ gpc' = "list" /\ gdir' = {}
    /\ UNCHANGED <<dir, metaFile, meta, tmpFile, tmp, podVars, updateVars, sweepVars,
                   boundVars, historyVars>>

OnlyMeta == metaFile # "absent" /\ tmpFile = "absent" /\ NoContainers

GuardList ==
    /\ gpc = "list"
    /\ gpc' = IF OnlyMeta THEN "meta" ELSE "dir"
    /\ UNCHANGED <<fileVars, podVars, updateVars, gdir, sweepVars, boundVars, historyVars>>

GuardMeta ==
    /\ gpc = "meta"
    /\ RemoveMeta
    /\ gpc' = "dir"
    /\ UNCHANGED <<dir, tmpFile, tmp, segs, podVars, updateVars, gdir, sweepVars, boundVars>>

GuardDir ==
    /\ gpc = "dir"
    /\ RemoveDir
    /\ gpc' = "idle"
    /\ UNCHANGED <<metaFile, meta, tmpFile, tmp, segs, podVars, updateVars, gdir, sweepVars,
                   boundVars, historyVars>>

\* sweepSegments asks whether the pod is active before it sweeps its directory.
SweepLook ==
    /\ spc = "idle" /\ dir = "present"
    /\ ractive' = IF pod = "active" THEN "yes" ELSE "no"
    /\ spc' = "list"
    /\ UNCHANGED <<fileVars, podVars, updateVars, guardVars, rtodo, rleft, boundVars, historyVars>>

SweepList ==
    /\ spc = "list"
    /\ rtodo' = {c \in PodContainers : segs[c] # "absent"} /\ rleft' = {}
    /\ spc' = "sweep"
    /\ UNCHANGED <<fileVars, podVars, updateVars, guardVars, ractive, boundVars, historyVars>>

\* A container all of whose segments have expired, the open one included,
\* goes; another stays, and so does one that is no longer there to be read.
SweepContainer(c) ==
    /\ spc = "sweep" /\ c \in rtodo
    /\ rtodo' = rtodo \ {c}
    /\ \/ segs' = [segs EXCEPT ![c] = "absent"] /\ UNCHANGED rleft
       \/ segs[c] # "empty" /\ rleft' = rleft \cup {c} /\ UNCHANGED segs
    /\ UNCHANGED <<dir, metaFile, meta, tmpFile, tmp, podVars, updateVars, guardVars, spc,
                   ractive, boundVars, historyVars>>

\* Mutant: the pod directory is removed without its meta.json.
SweepMetaNot ==
    /\ spc = "sweep" /\ rtodo = {}
    /\ spc' = IF rleft = {} /\ ractive = "no" THEN "dir" ELSE "idle"
    /\ UNCHANGED <<fileVars, podVars, updateVars, guardVars, ractive, rtodo, rleft, boundVars,
                   historyVars>>

SweepMeta ==
    /\ spc = "sweep" /\ rtodo = {}
    /\ IF rleft = {} /\ ractive = "no"
       THEN spc' = "dir" /\ RemoveMeta
       ELSE spc' = "idle" /\ UNCHANGED <<metaFile, meta, noted>>
    /\ UNCHANGED <<dir, tmpFile, tmp, segs, podVars, updateVars, guardVars, ractive, rtodo,
                   rleft, boundVars>>

SweepDir ==
    /\ spc = "dir"
    /\ RemoveDir
    /\ spc' = "idle"
    /\ UNCHANGED <<metaFile, meta, tmpFile, tmp, segs, podVars, updateVars, guardVars, ractive,
                   rtodo, rleft, boundVars, historyVars>>

GuardStep == GuardContainer \/ GuardList \/ GuardMeta \/ GuardDir
SweepStep ==
    SweepLook \/ SweepList \/ (\E c \in PodContainers : SweepContainer(c)) \/ SweepMeta \/ SweepDir

-----------------------------------------------------------------------------
Crash ==
    /\ crashes < MaxCrashes
    /\ crashes' = crashes + 1
    /\ pod' = "gone" /\ open' = {} /\ metaMu' = Nobody
    /\ upc' = [a \in Actors |-> "idle"] /\ val' = [a \in Actors |-> {}]
    /\ gpc' = "idle" /\ gdir' = {}
    /\ spc' = "idle" /\ ractive' = "no" /\ rtodo' = {} /\ rleft' = {}
    /\ UNCHANGED <<fileVars, faults, noted>>

MetaNext ==
    \/ PodAdded \/ SpawnStreams \/ PodDeleted
    \/ \E c \in PodContainers : ContainerEnds(c) \/ StoreLine(c)
    \/ \E a \in Actors : UpdateStep(a)
    \/ \E c \in PodContainers : GuardDeletes(c)
    \/ GuardStep
    \/ SweepStep
    \/ Crash

\* Goroutines that have work run; the sweep comes round every
\* RETENTION_CHECK_INTERVAL and finds everything expired in the end.
Expires(c) == SweepContainer(c) /\ segs'[c] = "absent"
Fairness ==
    /\ \A a \in Actors : WF_metaVars(UpdateStep(a))
    /\ WF_metaVars(SpawnStreams)
    /\ \A c \in PodContainers : WF_metaVars(ContainerEnds(c)) /\ SF_metaVars(Expires(c))
    /\ WF_metaVars(GuardStep)
    /\ WF_metaVars(SweepStep)

MetaSpec == MetaInit /\ [][MetaNext]_metaVars /\ Fairness

-----------------------------------------------------------------------------
(* Properties *)

Files == {"absent", "partial", "whole"}
Holding == {"read", "mkdir", "create", "write", "rename"}

TypeOK ==
    /\ dir \in {"absent", "present"}
    /\ metaFile \in Files /\ tmpFile \in Files
    /\ meta \subseteq Actors /\ tmp \subseteq Actors
    /\ segs \in [PodContainers -> {"absent", "empty", "full"}]
    /\ pod \in {"gone", "active"} /\ open \subseteq PodContainers
    /\ metaMu \in Actors \cup {Nobody}
    /\ upc \in [Actors -> {"idle", "wait", "done", "failed"} \cup Holding]
    /\ val \in [Actors -> SUBSET Actors]
    /\ gpc \in {"idle", "container", "list", "meta", "dir"} /\ gdir \subseteq PodContainers
    /\ spc \in {"idle", "list", "sweep", "dir"} /\ ractive \in {"yes", "no"}
    /\ rtodo \subseteq PodContainers /\ rleft \subseteq PodContainers
    /\ faults \in Nat /\ crashes \in Nat
    /\ noted \subseteq Actors

\* No update of meta.json is lost to a concurrent one, to a failed one or to
\* a crash: whatever was recorded since the file was last removed is in it,
\* the removals interleaving with the updates as they may (layout.go:166-171).
UpdatesKept == noted \subseteq meta

\* meta.json is never seen half written: were it, every later update and
\* every listing of the pod would fail on it (layout.go:150-164).
MetaWhole == metaFile # "partial"

\* meta.json is whole, and has all that was recorded since it was last removed,
\* through interleaved updates, failures and crashes (layout.go:150-171).
MetaKept == UpdatesKept /\ MetaWhole

\* Once a pod is gone for good and nothing stays of an interrupted update,
\* its directory goes too, whatever the guard and the sweep do to each other.
GoneIsReclaimed ==
    <>[](pod = "gone" /\ tmpFile = "absent") => <>[](dir = "absent")
=============================================================================
