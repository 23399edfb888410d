---------------------------- MODULE SegmentStore ----------------------------
(***************************************************************************)
(* The log store of internal/storage: day segments written by one          *)
(* SegmentWriter per container stream, and the two background jobs that    *)
(* delete segments while the writers run, the RetentionManager and the     *)
(* DiskGuard.  They share nothing but the file system and the process-wide *)
(* set openSegments, and none of them holds a lock across its steps, so    *)
(* every system call is a step of its own here.                            *)
(*                                                                         *)
(* A segment is a pair <<container, day>>.  Its content is an inode, so    *)
(* that a segment unlinked under an open handle, and one recreated at the  *)
(* same path, are told apart.  An inode is one unit of disk space and is   *)
(* freed when no path and no handle refers to it.                          *)
(***************************************************************************)
EXTENDS Integers, FiniteSets

CONSTANTS
    Containers,     \* containers whose logs are stored
    Writers,        \* SegmentWriter slots: the incarnations of a container's stream
    ContainerOf,    \* the container each writer writes for
    MaxDay,         \* bound on the clock, in UTC days
    RetentionDays,  \* RETENTION_DAYS
    Inodes,         \* the volume's space, in segments
    NoInode,        \* "no file"
    HighWater,      \* used space at which the guard starts deleting
    LowWater,       \* used space below which it stops
    MaxFaults       \* bound on process restarts and on removals the sweep fails at

Days == 0..MaxDay
Segments == Containers \X Days

ASSUME StoreAssumption ==
    /\ ContainerOf \in [Writers -> Containers]
    /\ Containers # {}
    /\ MaxDay \in Nat
    /\ RetentionDays \in Nat
    /\ IsFiniteSet(Inodes)
    /\ NoInode \notin Inodes
    /\ HighWater \in Nat
    /\ LowWater \in Nat /\ LowWater < HighWater
    /\ MaxFaults \in Nat

VARIABLES
    \* the volume
    disk,           \* segment -> inode linked at its path, or NoInode
    dirs,           \* containers whose directory exists
    \* the process: writers
    openSegments,   \* the segment paths registered as open
    wpc,            \* where each writer is in WriteWithLocation
    handle,         \* w.f: the inode each writer has open, or NoInode
    segDay,         \* w.segmentDate, or the day being rolled to
    backoff,        \* writers inside the window after a failed write
    \* the process: the disk guard
    gpc, pending, lastUsed, target,
    \* the process: the retention manager
    rpc, rtodo, rdir, rexpired, rkept, cutoff,
    \* the environment
    today, faults,
    \* history, read only by the properties
    overlapped,     \* containers two writers have been live for since all were last stopped
    fresh,          \* writers that opened the guard's target since (or while) it was examined
    raced,          \* segments the guard removed under such a writer
    lost            \* segments an acknowledged line of which went to an unlinked file

volumeVars    == <<disk, dirs>>
writerVars    == <<openSegments, wpc, handle, segDay, backoff>>
guardVars     == <<gpc, pending, lastUsed, target>>
retentionVars == <<rpc, rtodo, rdir, rexpired, rkept, cutoff>>
clockVars     == <<today, faults>>
historyVars   == <<overlapped, fresh, raced, lost>>
vars == <<volumeVars, writerVars, guardVars, retentionVars, clockVars, historyVars>>

-----------------------------------------------------------------------------
(* The file system *)

\* What the two jobs' local variables hold while they hold nothing.
NoTarget == CHOOSE s \in Segments : TRUE
NoDir    == CHOOSE c \in Containers : TRUE

OnDisk == {s \in Segments : disk[s] # NoInode}
Used   == {i \in Inodes : (\E s \in Segments : disk[s] = i) \/ (\E w \in Writers : handle[w] = i)}
Empty(c) == \A d \in Days : disk[<<c, d>>] = NoInode

Open(w)    == handle[w] # NoInode
Segment(w) == <<ContainerOf[w], segDay[w]>>
Linked(w)  == Open(w) /\ disk[Segment(w)] = handle[w]
Live(c)    == {w \in Writers : ContainerOf[w] = c /\ wpc[w] # "stopped"}

Init ==
    /\ disk = [s \in Segments |-> NoInode]
    /\ dirs = {}
    /\ openSegments = {}
    /\ wpc = [w \in Writers |-> "stopped"]
    /\ handle = [w \in Writers |-> NoInode]
    /\ segDay = [w \in Writers |-> 0]
    /\ backoff = {}
    /\ gpc = "idle" /\ pending = {} /\ lastUsed = 0 /\ target = NoTarget
    /\ rpc = "idle" /\ rtodo = {} /\ rdir = NoDir
    /\ rexpired = {} /\ rkept = {} /\ cutoff = 0
    /\ today = 0 /\ faults = 0
    /\ overlapped = {} /\ fresh = {} /\ raced = {} /\ lost = {}

Fault == faults < MaxFaults /\ faults' = faults + 1

-----------------------------------------------------------------------------
(* SegmentWriter *)

\* NewSegmentWriter, called by the goroutine of a new stream.  The stream it
\* replaces has been cancelled but not awaited, so it may still be live.
Start(w) ==
    /\ wpc[w] = "stopped"
    /\ wpc' = [wpc EXCEPT ![w] = "ready"]
    /\ overlapped' = IF Live(ContainerOf[w]) = {} THEN overlapped
                     ELSE overlapped \cup {ContainerOf[w]}
    /\ UNCHANGED <<volumeVars, openSegments, handle, segDay, backoff, guardVars, retentionVars,
                   clockVars, fresh, raced, lost>>

\* Mutant: the file is closed but its path is not forgotten.
CloseFileOnly(w, d) ==
    /\ handle' = [handle EXCEPT ![w] = NoInode]
    /\ segDay' = [segDay EXCEPT ![w] = d]
    /\ UNCHANGED openSegments

\* closeFileLocked, if a segment is open: the path is forgotten whoever else
\* has it open.  d is the day to open next (0 if there is none).
CloseFile(w, d) ==
    /\ openSegments' = IF Open(w) THEN openSegments \ {Segment(w)} ELSE openSegments
    /\ handle' = [handle EXCEPT ![w] = NoInode]
    /\ segDay' = [segDay EXCEPT ![w] = d]

MarkUnhealthy(w) == backoff' = backoff \cup {w}

\* Close, deferred by the stream's goroutine.
Stop(w) ==
    /\ wpc[w] = "ready"
    /\ wpc' = [wpc EXCEPT ![w] = "stopped"]
    /\ CloseFile(w, 0)
    /\ backoff' = backoff \ {w}
    /\ overlapped' = IF Live(ContainerOf[w]) = {w} THEN overlapped \ {ContainerOf[w]}
                     ELSE overlapped
    /\ UNCHANGED <<volumeVars, guardVars, retentionVars, clockVars,
                   fresh, raced, lost>>

\* A line whose day is not the open segment's: rollToLocked closes the old
\* segment.  Lines keep their source's timestamp, so d may be any past day.
Roll(w, d) ==
    /\ wpc[w] = "ready" /\ w \notin backoff
    /\ d <= today
    /\ Open(w) => segDay[w] # d
    /\ CloseFile(w, d)
    /\ wpc' = [wpc EXCEPT ![w] = "mkdir"]
    /\ UNCHANGED <<volumeVars, backoff, guardVars, retentionVars, clockVars, historyVars>>

\* The final sync or close of the old segment fails: the line is dropped.
RollFails(w, d) ==
    /\ wpc[w] = "ready" /\ w \notin backoff
    /\ d <= today
    /\ Open(w) /\ segDay[w] # d
    /\ CloseFile(w, 0)
    /\ MarkUnhealthy(w)
    /\ UNCHANGED <<volumeVars, wpc, guardVars, retentionVars, clockVars, historyVars>>

MkdirAll(w) ==
    /\ wpc[w] = "mkdir"
    /\ dirs' = dirs \cup {ContainerOf[w]}
    /\ wpc' = [wpc EXCEPT ![w] = "open"]
    /\ UNCHANGED <<disk, openSegments, handle, segDay, backoff, guardVars, retentionVars,
                   clockVars, historyVars>>

\* os.OpenFile(O_CREATE|O_APPEND): the linked inode, or a new one.
OpenFile(w) ==
    /\ wpc[w] = "open"
    /\ ContainerOf[w] \in dirs
    /\ \/ /\ disk[Segment(w)] # NoInode
          /\ handle' = [handle EXCEPT ![w] = disk[Segment(w)]]
          /\ UNCHANGED disk
       \/ /\ disk[Segment(w)] = NoInode
          /\ \E i \in Inodes \ Used :
                /\ disk' = [disk EXCEPT ![Segment(w)] = i]
                /\ handle' = [handle EXCEPT ![w] = i]
    /\ wpc' = [wpc EXCEPT ![w] = "register"]
    /\ fresh' = IF gpc = "remove" /\ target = Segment(w) THEN fresh \cup {w} ELSE fresh
    /\ UNCHANGED <<dirs, openSegments, segDay, backoff, guardVars, retentionVars, clockVars,
                   overlapped, raced, lost>>

\* MkdirAll or OpenFile fails: an I/O error, a full volume, or a directory
\* removed by one of the cleaners in between.  The line is dropped.
OpenFails(w) ==
    /\ wpc[w] \in {"mkdir", "open"}
    /\ MarkUnhealthy(w)
    /\ wpc' = [wpc EXCEPT ![w] = "ready"]
    /\ segDay' = [segDay EXCEPT ![w] = 0]
    /\ UNCHANGED <<volumeVars, openSegments, handle, guardVars, retentionVars, clockVars,
                   historyVars>>

\* openSegments.Store, the statement after OpenFile.
Register(w) ==
    /\ wpc[w] = "register"
    /\ openSegments' = openSegments \cup {Segment(w)}
    /\ wpc' = [wpc EXCEPT ![w] = "append"]
    /\ UNCHANGED <<volumeVars, handle, segDay, backoff, guardVars, retentionVars, clockVars,
                   historyVars>>

\* A line of the open segment's day needs no roll.
SameDay(w) ==
    /\ wpc[w] = "ready" /\ w \notin backoff
    /\ Open(w)
    /\ wpc' = [wpc EXCEPT ![w] = "append"]
    /\ UNCHANGED <<volumeVars, openSegments, handle, segDay, backoff, guardVars,
                   retentionVars, clockVars, historyVars>>

\* Seek and Fprintln succeed: the caller is told the line is stored.
AppendLine(w) ==
    /\ wpc[w] = "append"
    /\ wpc' = [wpc EXCEPT ![w] = "ready"]
    /\ lost' = IF Linked(w) THEN lost ELSE lost \cup {Segment(w)}
    /\ UNCHANGED <<volumeVars, openSegments, handle, segDay, backoff, guardVars,
                   retentionVars, clockVars, overlapped, fresh, raced>>

\* The write fails: the segment is closed, to be reopened by the next line.
AppendFails(w) ==
    /\ wpc[w] = "append"
    /\ CloseFile(w, 0)
    /\ MarkUnhealthy(w)
    /\ wpc' = [wpc EXCEPT ![w] = "ready"]
    /\ UNCHANGED <<volumeVars, guardVars, retentionVars, clockVars, historyVars>>

\* The backoff window passes.  Lines that arrive inside it change nothing.
BackoffEnds(w) ==
    /\ w \in backoff
    /\ backoff' = backoff \ {w}
    /\ UNCHANGED <<volumeVars, openSegments, wpc, handle, segDay, guardVars, retentionVars,
                   clockVars, historyVars>>

WriterStep(w) ==
    \/ Start(w) \/ Stop(w)
    \/ \E d \in Days : Roll(w, d) \/ RollFails(w, d)
    \/ MkdirAll(w) \/ OpenFile(w) \/ OpenFails(w) \/ Register(w)
    \/ SameDay(w) \/ AppendLine(w) \/ AppendFails(w) \/ BackoffEnds(w)

-----------------------------------------------------------------------------
(* DiskGuard.check *)

Unlink(s) == disk' = [disk EXCEPT ![s] = NoInode]

\* Mutant: os.RemoveAll instead of os.Remove.
RemoveTree(c) == dirs' = dirs \ {c}

\* os.Remove of a directory fails unless it is empty.
RemoveIfEmpty(c) == dirs' = IF Empty(c) THEN dirs \ {c} ELSE dirs

\* Usage is at the high water mark: list every segment.  The loop below works
\* through this snapshot, however old it gets.
GuardCheck ==
    /\ gpc = "idle"
    /\ Cardinality(Used) >= HighWater
    /\ gpc' = "examine"
    /\ pending' = OnDisk
    /\ lastUsed' = Cardinality(Used)
    /\ UNCHANGED <<volumeVars, writerVars, target, retentionVars, clockVars, historyVars>>

\* Mutant: the guard does not look at openSegments.
GuardExamineAny ==
    /\ gpc = "examine"
    /\ lastUsed >= LowWater
    /\ \E s \in pending :
          /\ \A t \in pending : s[2] <= t[2]
          /\ pending' = pending \ {s}
          /\ gpc' = "remove"
          /\ target' = s
          /\ fresh' = {w \in Writers : wpc[w] = "register" /\ Segment(w) = s}
    /\ UNCHANGED <<volumeVars, writerVars, lastUsed, retentionVars, clockVars,
                   overlapped, raced, lost>>

\* The oldest segment left: skip it if it is registered as open.
GuardExamine ==
    /\ gpc = "examine"
    /\ lastUsed >= LowWater
    /\ \E s \in pending :
          /\ \A t \in pending : s[2] <= t[2]
          /\ pending' = pending \ {s}
          /\ IF s \in openSegments
                THEN UNCHANGED <<gpc, target, fresh>>
                ELSE /\ gpc' = "remove"
                     /\ target' = s
                     /\ fresh' = {w \in Writers : wpc[w] = "register" /\ Segment(w) = s}
    /\ UNCHANGED <<volumeVars, writerVars, lastUsed, retentionVars, clockVars,
                   overlapped, raced, lost>>

GuardRemove ==
    /\ gpc = "remove"
    /\ disk[target] # NoInode
    /\ gpc' = "cleanup"
    /\ Unlink(target)
    /\ raced' = IF \E w \in Writers : /\ Linked(w) /\ Segment(w) = target
                                      /\ w \in fresh \/ target[1] \in overlapped
                THEN raced \cup {target} ELSE raced
    /\ fresh' = {}
    /\ UNCHANGED <<dirs, writerVars, pending, lastUsed, target, retentionVars, clockVars,
                   overlapped, lost>>

\* The segment is gone already, or is not to be removed: the next one.
GuardRemoveFails ==
    /\ gpc = "remove"
    /\ gpc' = "examine" /\ target' = NoTarget
    /\ fresh' = {}
    /\ UNCHANGED <<volumeVars, writerVars, pending, lastUsed, retentionVars, clockVars,
                   overlapped, raced, lost>>

\* Mutant: the segments are listed again after every deletion.
GuardCleanupRelisting ==
    /\ gpc = "cleanup"
    /\ RemoveIfEmpty(target[1])
    /\ lastUsed' = Cardinality(Used)
    /\ pending' = OnDisk
    /\ gpc' = "examine" /\ target' = NoTarget
    /\ UNCHANGED <<disk, writerVars, retentionVars, clockVars, historyVars>>

\* cleanupEmptyDirsAbove, then the usage is read again.
GuardCleanup ==
    /\ gpc = "cleanup"
    /\ RemoveIfEmpty(target[1])
    /\ lastUsed' = Cardinality(Used)
    /\ gpc' = "examine" /\ target' = NoTarget
    /\ UNCHANGED <<disk, writerVars, pending, retentionVars, clockVars, historyVars>>

\* The usage cannot be read again: the check is given up.
GuardRecheckFails ==
    /\ gpc = "cleanup"
    /\ RemoveIfEmpty(target[1])
    /\ gpc' = "idle" /\ target' = NoTarget /\ pending' = {} /\ lastUsed' = 0
    /\ UNCHANGED <<disk, writerVars, retentionVars, clockVars, historyVars>>

GuardDone ==
    /\ gpc = "examine"
    /\ lastUsed < LowWater \/ pending = {}
    /\ gpc' = "idle" /\ pending' = {} /\ lastUsed' = 0
    /\ UNCHANGED <<volumeVars, writerVars, target, retentionVars, clockVars, historyVars>>

GuardStep ==
    \/ GuardCheck \/ GuardExamine
    \/ GuardRemove \/ GuardRemoveFails
    \/ GuardCleanup \/ GuardRecheckFails
    \/ GuardDone

-----------------------------------------------------------------------------
(* RetentionManager.sweep *)

\* Mutant: the cutoff is a day too late.
SweepStartLate ==
    /\ rpc = "idle"
    /\ rpc' = "scan"
    /\ cutoff' = today - RetentionDays + 1
    /\ rtodo' = dirs
    /\ UNCHANGED <<volumeVars, writerVars, guardVars, rdir, rexpired, rkept, clockVars,
                   historyVars>>

\* The cutoff is fixed once, when the sweep starts.
SweepStart ==
    /\ rpc = "idle"
    /\ rpc' = "scan"
    /\ cutoff' = today - RetentionDays
    /\ rtodo' = dirs
    /\ UNCHANGED <<volumeVars, writerVars, guardVars, rdir, rexpired, rkept, clockVars,
                   historyVars>>

\* Mutant: a segment registered as open is left for a later sweep.
SweepDirSkippingOpen ==
    /\ rpc = "scan"
    /\ \E c \in rtodo :
          /\ rtodo' = rtodo \ {c}
          /\ rpc' = "remove" /\ rdir' = c
          /\ rexpired' = {d \in Days : <<c, d>> \in OnDisk \ openSegments /\ d < cutoff}
          /\ rkept' = {d \in Days : <<c, d>> \in OnDisk /\ d \notin rexpired'}
    /\ UNCHANGED <<volumeVars, writerVars, guardVars, cutoff, clockVars, historyVars>>

\* ReadDir of one container directory, if it is still there.
SweepDir ==
    /\ rpc = "scan"
    /\ \E c \in rtodo :
          /\ rtodo' = rtodo \ {c}
          /\ IF c \in dirs
                THEN /\ rpc' = "remove" /\ rdir' = c
                     /\ rexpired' = {d \in Days : <<c, d>> \in OnDisk /\ d < cutoff}
                     /\ rkept' = {d \in Days : <<c, d>> \in OnDisk /\ d >= cutoff}
                ELSE UNCHANGED <<rpc, rdir, rexpired, rkept>>
    /\ UNCHANGED <<volumeVars, writerVars, guardVars, cutoff, clockVars, historyVars>>

\* os.Remove of one expired segment, registered as open or not.
SweepRemove ==
    /\ rpc = "remove"
    /\ \E d \in rexpired :
          /\ rexpired' = rexpired \ {d}
          /\ rkept' = IF disk[<<rdir, d>>] = NoInode THEN rkept \cup {d} ELSE rkept
          /\ Unlink(<<rdir, d>>)
    /\ UNCHANGED <<dirs, writerVars, guardVars, rpc, rtodo, rdir, cutoff, clockVars,
                   historyVars>>

\* It fails: the segment stays, and its directory.
SweepRemoveFails ==
    /\ rpc = "remove"
    /\ Fault
    /\ \E d \in rexpired :
          /\ rexpired' = rexpired \ {d}
          /\ rkept' = rkept \cup {d}
    /\ UNCHANGED <<volumeVars, writerVars, guardVars, rpc, rtodo, rdir, cutoff, today,
                   historyVars>>

\* os.Remove of the container directory, which fails if it is not empty.
SweepRmdir ==
    /\ rpc = "remove" /\ rexpired = {}
    /\ rpc' = "scan" /\ rdir' = NoDir /\ rkept' = {}
    /\ IF rkept = {} THEN RemoveIfEmpty(rdir) ELSE UNCHANGED dirs
    /\ UNCHANGED <<disk, writerVars, guardVars, rtodo, rexpired, cutoff, clockVars,
                   historyVars>>

SweepDone ==
    /\ rpc = "scan" /\ rtodo = {}
    /\ rpc' = "idle" /\ cutoff' = 0
    /\ UNCHANGED <<volumeVars, writerVars, guardVars, rtodo, rdir, rexpired, rkept,
                   clockVars, historyVars>>

SweepStep ==
    \/ SweepStart \/ SweepDir
    \/ SweepRemove \/ SweepRemoveFails
    \/ SweepRmdir \/ SweepDone

-----------------------------------------------------------------------------
(* The environment *)

NextDay ==
    /\ today < MaxDay
    /\ today' = today + 1
    /\ UNCHANGED <<volumeVars, writerVars, guardVars, retentionVars, faults, historyVars>>

\* The process dies and is restarted: only the volume survives.
Crash ==
    /\ Fault
    /\ openSegments' = {}
    /\ wpc' = [w \in Writers |-> "stopped"]
    /\ handle' = [w \in Writers |-> NoInode]
    /\ segDay' = [w \in Writers |-> 0]
    /\ backoff' = {}
    /\ gpc' = "idle" /\ pending' = {} /\ lastUsed' = 0 /\ target' = NoTarget
    /\ rpc' = "idle" /\ rtodo' = {} /\ rdir' = NoDir
    /\ rexpired' = {} /\ rkept' = {} /\ cutoff' = 0
    /\ overlapped' = {} /\ fresh' = {}
    /\ UNCHANGED <<volumeVars, today, raced, lost>>

Next ==
    \/ \E w \in Writers : WriterStep(w)
    \/ GuardStep
    \/ SweepStep
    \/ NextDay
    \/ Crash

\* Both jobs run off tickers in goroutines of their own.  A writer's step may
\* never come: its container may log nothing.
Fairness == WF_vars(GuardStep) /\ WF_vars(SweepStep)

Spec == Init /\ [][Next]_vars /\ Fairness

-----------------------------------------------------------------------------
(* Properties *)

TypeOK ==
    /\ disk \in [Segments -> Inodes \cup {NoInode}]
    /\ dirs \subseteq Containers
    /\ openSegments \subseteq Segments
    /\ wpc \in [Writers -> {"stopped", "ready", "mkdir", "open", "register", "append"}]
    /\ handle \in [Writers -> Inodes \cup {NoInode}]
    /\ segDay \in [Writers -> Days]
    /\ backoff \subseteq Writers
    /\ gpc \in {"idle", "examine", "remove", "cleanup"}
    /\ pending \subseteq Segments
    /\ lastUsed \in Nat
    /\ target \in Segments
    /\ rpc \in {"idle", "scan", "remove"}
    /\ rtodo \subseteq Containers
    /\ rdir \in Containers
    /\ rexpired \subseteq Days
    /\ rkept \subseteq Days
    /\ cutoff \in Int
    /\ today \in Days
    /\ faults \in 0..MaxFaults
    /\ overlapped \subseteq Containers
    /\ fresh \subseteq Writers
    /\ raced \subseteq Segments
    /\ lost \subseteq Segments

\* Every path registered as open is one some writer has open: a failed write,
\* a rollover, a close or an overlap of two streams never leaves an entry
\* behind, which would keep the guard off that segment for ever.
OpenSetHeld ==
    \A s \in openSegments : \E w \in Writers : Open(w) /\ Segment(w) = s

\* While no two writers of a container overlap, every segment a writer is
\* past opening is registered, through rollovers, failures and restarts.
OpenSegmentsRegistered ==
    \A w \in Writers :
        Open(w) /\ wpc[w] # "register" /\ ContainerOf[w] \notin overlapped
            => Segment(w) \in openSegments

\* The guard's set of open segments is in step with the writers: what is in it
\* is open, and what is open is in it, through rollovers, failures and overlaps
\* of streams (writer.go:88).
OpenSetExact == OpenSetHeld /\ OpenSegmentsRegistered

\* An acknowledged line goes to a deleted file in three cases only: its
\* segment had expired, two writers of its container overlapped, or the guard
\* examined the segment before its writer had registered it.
LossNeedsRaceOrExpiry ==
    \A s \in lost : s \in raced \/ s[2] < today - RetentionDays

\* The directory cleanups of the two jobs, which decide on an old listing,
\* never take a directory with a segment in it.
SegmentsHaveDir ==
    \A s \in OnDisk : s[1] \in dirs

\* Retention only ever removes segments strictly older than RETENTION_DAYS,
\* by the clock of the moment and not only of the sweep's start.
RetentionKeepsWindow ==
    [][SweepStep => \A s \in OnDisk : disk'[s] = NoInode => s[2] < today - RetentionDays]_vars

\* A guard check ends however fast writers create segments behind it.
GuardCheckEnds == (gpc # "idle") ~> (gpc = "idle")

\* No expired segment is kept for good, whatever sweep missed it or failed to
\* remove it (retention.go:205).  (The days
\* ranged over are those that expire before MaxDay.)
ExpiredSegmentsDeleted ==
    \A c \in Containers, d \in 0..(MaxDay - RetentionDays - 1) :
        (disk[<<c, d>>] # NoInode /\ d < today - RetentionDays) ~> (disk[<<c, d>>] = NoInode)

(* What the documentation says of the guard *)

\* ARCHITECTURE.md: the guard "never deletes a segment a writer still has open".
GuardSparesOpenSegments ==
    [][GuardRemove => \A w \in Writers : ~(Linked(w) /\ Segment(w) = target)]_vars

=============================================================================
