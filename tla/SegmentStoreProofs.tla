------------------------- MODULE SegmentStoreProofs -------------------------
(***************************************************************************)
(* Proofs about SegmentStore: for any containers, writers, volume size,    *)
(* water marks and retention period, the set of open segments is exact     *)
(* while no two writers of a container overlap, and an acknowledged line   *)
(* is lost only to expiry, an overlap, or a guard racing an opening.       *)
(***************************************************************************)
EXTENDS SegmentStore, FiniteSetTheorems, TLAPS

\* A writer holds a file only between OpenFile and the next close.
WriterStages ==
    \A w \in Writers :
        /\ Open(w) => wpc[w] \in {"ready", "register", "append"}
        /\ wpc[w] \in {"register", "append"} => Open(w)

\* Two live writers of one container mark it as overlapped.
OverlapTracked ==
    \A w, v \in Writers :
        /\ wpc[w] # "stopped" /\ wpc[v] # "stopped"
        /\ ContainerOf[w] = ContainerOf[v]
        /\ ContainerOf[w] \notin overlapped
        => w = v

\* Whoever has the segment the guard is about to remove open, opened it
\* since the guard looked, or shares its container with another writer.
GuardRacesOnlyOpening ==
    gpc = "remove" =>
        \A w \in Writers :
            Open(w) /\ Segment(w) = target => w \in fresh \/ target[1] \in overlapped

\* What the sweep is about to remove had expired when it was listed.
SweepOnlyExpired ==
    /\ rpc # "idle" => cutoff <= today - RetentionDays
    /\ rpc = "remove" => \A d \in rexpired : d < cutoff
    /\ rpc # "remove" => rexpired = {}

\* A file open but no longer at its path is accounted for.
Excused(s) == s \in raced \/ s[2] < today - RetentionDays

OrphansExcused ==
    \A w \in Writers : Open(w) /\ ~Linked(w) => Excused(Segment(w))

-----------------------------------------------------------------------------
LEMMA UsedFinite == Cardinality(Used) \in Nat
<1>1. Used \subseteq Inodes
  BY DEF Used
<1> QED BY <1>1, StoreAssumption, FS_Subset, FS_CardinalityType

LEMMA Sentinels == NoTarget \in Segments /\ NoDir \in Containers /\ 0 \in Days
<1>1. PICK c : c \in Containers
  BY StoreAssumption
<1>2. <<c, 0>> \in Segments
  BY <1>1, StoreAssumption DEF Segments, Days
<1>3. 0 \in Days
  BY StoreAssumption DEF Days
<1> QED BY <1>1, <1>2, <1>3 DEF NoTarget, NoDir

LEMMA StepTyped == TypeOK /\ [Next]_vars => TypeOK'
<1> SUFFICES ASSUME TypeOK, [Next]_vars PROVE TypeOK'
  OBVIOUS
<1> USE StoreAssumption, UsedFinite, Sentinels DEF TypeOK
<1>1. ASSUME NEW w \in Writers, Start(w) PROVE TypeOK'
  BY <1>1 DEF Start, volumeVars, writerVars, guardVars, retentionVars, clockVars, historyVars
<1>2. ASSUME NEW w \in Writers, Stop(w) PROVE TypeOK'
  BY <1>2 DEF Stop, CloseFile, volumeVars, guardVars, retentionVars, clockVars
<1>3. ASSUME NEW w \in Writers, NEW d \in Days, Roll(w, d) PROVE TypeOK'
  BY <1>3 DEF Roll, CloseFile, volumeVars, guardVars, retentionVars, clockVars, historyVars
<1>4. ASSUME NEW w \in Writers, NEW d \in Days, RollFails(w, d) PROVE TypeOK'
  BY <1>4 DEF RollFails, CloseFile, MarkUnhealthy, volumeVars, guardVars,
              retentionVars, clockVars, historyVars
<1>5. ASSUME NEW w \in Writers, MkdirAll(w) PROVE TypeOK'
  BY <1>5 DEF MkdirAll, guardVars, retentionVars, clockVars, historyVars
<1>6. ASSUME NEW w \in Writers, OpenFile(w) PROVE TypeOK'
  BY <1>6 DEF OpenFile, Segment, Segments, guardVars, retentionVars, clockVars
<1>7. ASSUME NEW w \in Writers, OpenFails(w) PROVE TypeOK'
  BY <1>7 DEF OpenFails, MarkUnhealthy, volumeVars, guardVars, retentionVars,
              clockVars, historyVars
<1>8. ASSUME NEW w \in Writers, Register(w) PROVE TypeOK'
  BY <1>8 DEF Register, Segment, Segments, volumeVars, guardVars, retentionVars, clockVars,
              historyVars
<1>9. ASSUME NEW w \in Writers, SameDay(w) PROVE TypeOK'
  BY <1>9 DEF SameDay, volumeVars, guardVars, retentionVars, clockVars, historyVars
<1>10. ASSUME NEW w \in Writers, AppendLine(w) PROVE TypeOK'
  BY <1>10 DEF AppendLine, Segment, Segments, volumeVars, guardVars, retentionVars, clockVars
<1>11. ASSUME NEW w \in Writers, AppendFails(w) PROVE TypeOK'
  BY <1>11 DEF AppendFails, CloseFile, MarkUnhealthy, volumeVars, guardVars,
               retentionVars, clockVars, historyVars
<1>12. ASSUME NEW w \in Writers, BackoffEnds(w) PROVE TypeOK'
  BY <1>12 DEF BackoffEnds, volumeVars, guardVars, retentionVars, clockVars, historyVars
<1>13. CASE GuardCheck
  BY <1>13 DEF GuardCheck, OnDisk, volumeVars, writerVars, retentionVars, clockVars,
               historyVars
<1>14. CASE GuardExamine
  BY <1>14 DEF GuardExamine, volumeVars, writerVars, retentionVars, clockVars
<1>15. CASE GuardRemove
  BY <1>15 DEF GuardRemove, Unlink, writerVars, retentionVars, clockVars
<1>16. CASE GuardCleanup
  BY <1>16 DEF GuardCleanup, RemoveIfEmpty, writerVars, retentionVars, clockVars,
               historyVars
<1>17. CASE GuardDone
  BY <1>17 DEF GuardDone, volumeVars, writerVars, retentionVars, clockVars, historyVars
<1>18. CASE SweepStart
  BY <1>18 DEF SweepStart, Days, volumeVars, writerVars, guardVars, clockVars, historyVars
<1>19. CASE SweepDir
  BY <1>19 DEF SweepDir, volumeVars, writerVars, guardVars, clockVars, historyVars
<1>20. CASE SweepRemove
  BY <1>20 DEF SweepRemove, Unlink, writerVars, guardVars, clockVars, historyVars
<1>21. CASE SweepRmdir
  BY <1>21 DEF SweepRmdir, RemoveIfEmpty, writerVars, guardVars, clockVars, historyVars
<1>22. CASE SweepDone
  BY <1>22 DEF SweepDone, volumeVars, writerVars, guardVars, clockVars, historyVars
<1>23. CASE NextDay
  BY <1>23 DEF NextDay, Days, volumeVars, writerVars, guardVars, retentionVars, historyVars
<1>24. CASE Crash
  BY <1>24 DEF Crash, Fault, volumeVars
<1>25. CASE UNCHANGED vars
  BY <1>25 DEF vars, volumeVars, writerVars, guardVars, retentionVars, clockVars, historyVars
<1>26. CASE GuardRemoveFails
  BY <1>26 DEF GuardRemoveFails, volumeVars, writerVars, retentionVars, clockVars
<1>27. CASE GuardRecheckFails
  BY <1>27 DEF GuardRecheckFails, RemoveIfEmpty, writerVars, retentionVars, clockVars,
               historyVars
<1>28. CASE SweepRemoveFails
  BY <1>28 DEF SweepRemoveFails, Fault, volumeVars, writerVars, guardVars, historyVars
<1> QED
  BY <1>1, <1>2, <1>3, <1>4, <1>5, <1>6, <1>7, <1>8, <1>9, <1>10, <1>11, <1>12, <1>13,
     <1>14, <1>15, <1>16, <1>17, <1>18, <1>19, <1>20, <1>21, <1>22, <1>23, <1>24, <1>25,
     <1>26, <1>27, <1>28
     DEF Next, WriterStep, GuardStep, SweepStep

\* The type invariant, kept by every step of the writers, the guard, the
\* retention manager, the clock and a restart.
THEOREM Typing == Spec => []TypeOK
<1>1. Init => TypeOK
  BY StoreAssumption, Sentinels DEF Init, TypeOK
<1> QED BY <1>1, StepTyped, PTL DEF Spec

-----------------------------------------------------------------------------
(* The writers and openSegments *)

\* The part of the invariant that says which files are open and registered.
WriterInv ==
    /\ WriterStages
    /\ OverlapTracked
    /\ OpenSetHeld
    /\ OpenSegmentsRegistered

\* Closing a writer's file keeps the registrations of all others exact, as
\* long as the invariant held: another writer with the same segment open
\* shares its container, which is then overlapped.
LEMMA CloseKeeps ==
    ASSUME TypeOK, WriterInv, NEW w \in Writers, NEW d, CloseFile(w, d),
           wpc[w] # "stopped"
    PROVE  /\ \A v \in Writers : v # w => Open(v)' = Open(v) /\ Segment(v)' = Segment(v)
           /\ ~Open(w)'
           /\ OpenSetHeld'
           /\ \A v \in Writers \ {w} :
                 Open(v) /\ wpc[v] # "register" /\ ContainerOf[v] \notin overlapped
                     => Segment(v) \in openSegments'
<1> USE StoreAssumption DEF TypeOK, WriterInv
<1>1. \A v \in Writers : v # w => Open(v)' = Open(v) /\ Segment(v)' = Segment(v)
  BY DEF CloseFile, Open, Segment
<1>2. ~Open(w)'
  BY DEF CloseFile, Open
<1>3. OpenSetHeld'
  <2> SUFFICES ASSUME NEW s \in openSegments' PROVE \E v \in Writers : Open(v)' /\ Segment(v)' = s
    BY DEF OpenSetHeld
  <2>1. s \in openSegments /\ (Open(w) => s # Segment(w))
    BY DEF CloseFile
  <2>2. PICK v \in Writers : Open(v) /\ Segment(v) = s
    BY <2>1 DEF OpenSetHeld
  <2>3. v # w
    BY <2>1, <2>2
  <2> QED BY <1>1, <2>2, <2>3
<1>4. ASSUME NEW v \in Writers \ {w}, Open(v), wpc[v] # "register",
             ContainerOf[v] \notin overlapped
      PROVE  Segment(v) \in openSegments'
  <2>1. Segment(v) \in openSegments
    BY <1>4 DEF OpenSegmentsRegistered
  <2>2. wpc[v] # "stopped"
    BY <1>4 DEF WriterStages
  <2>3. ContainerOf[v] # ContainerOf[w]
    BY <1>4, <2>2 DEF OverlapTracked
  <2>4. Segment(v) # Segment(w)
    BY <2>3 DEF Segment
  <2> QED BY <2>1, <2>4 DEF CloseFile
<1> QED BY <1>1, <1>2, <1>3, <1>4

LEMMA WriterInvStep == TypeOK /\ WriterInv /\ [Next]_vars => WriterInv'
<1> SUFFICES ASSUME TypeOK, WriterInv, [Next]_vars PROVE WriterInv'
  OBVIOUS
<1> USE StoreAssumption DEF TypeOK, WriterInv
<1>1. ASSUME NEW w \in Writers, Start(w) PROVE WriterInv'
  <2>1. /\ wpc' = [wpc EXCEPT ![w] = "ready"] /\ wpc[w] = "stopped"
        /\ UNCHANGED <<openSegments, handle, segDay>>
        /\ overlapped \subseteq overlapped'
    BY <1>1 DEF Start
  <2>2. ~Open(w)
    BY <2>1 DEF WriterStages
  <2>3. /\ \A v \in Writers : Open(v)' = Open(v) /\ Segment(v)' = Segment(v)
    BY <2>1 DEF Open, Segment
  <2>4. WriterStages'
    BY <2>1, <2>2, <2>3 DEF WriterStages
  <2>5. OverlapTracked'
    BY <1>1 DEF Start, Live, OverlapTracked
  <2>6. OpenSetHeld'
    BY <2>1, <2>3 DEF OpenSetHeld
  <2>7. OpenSegmentsRegistered'
    BY <2>1, <2>2, <2>3 DEF OpenSegmentsRegistered
  <2> QED BY <2>4, <2>5, <2>6, <2>7
<1>2. ASSUME NEW w \in Writers, Stop(w) PROVE WriterInv'
  <2>1. /\ wpc[w] = "ready" /\ wpc' = [wpc EXCEPT ![w] = "stopped"]
        /\ CloseFile(w, 0)
        /\ overlapped' = IF Live(ContainerOf[w]) = {w} THEN overlapped \ {ContainerOf[w]}
                         ELSE overlapped
    BY <1>2 DEF Stop
  <2>2. WriterStages'
    BY <2>1, CloseKeeps DEF WriterStages
  <2>3. OverlapTracked'
    BY <2>1 DEF OverlapTracked, Live
  <2>4. OpenSetHeld'
    BY <2>1, CloseKeeps
  <2>5. OpenSegmentsRegistered'
    <3> SUFFICES ASSUME NEW v \in Writers, Open(v)', wpc'[v] # "register",
                        ContainerOf[v] \notin overlapped'
                 PROVE  Segment(v)' \in openSegments'
      BY DEF OpenSegmentsRegistered
    <3>1. v # w
      BY <2>1, CloseKeeps
    <3>2. Open(v) /\ wpc[v] # "register" /\ Segment(v)' = Segment(v)
      BY <2>1, <3>1, CloseKeeps
    <3>3. wpc[v] # "stopped"
      BY <3>2 DEF WriterStages
    <3>4. ContainerOf[v] \notin overlapped
      BY <2>1, <3>1, <3>3 DEF Live
    <3> QED BY <2>1, <3>1, <3>2, <3>4, CloseKeeps
  <2> QED BY <2>2, <2>3, <2>4, <2>5
<1>3. ASSUME NEW w \in Writers, NEW d \in Days, Roll(w, d) \/ RollFails(w, d) \/ AppendFails(w)
      PROVE  WriterInv'
  <2>1. PICK e \in Days, stage \in {"ready", "mkdir"} :
            /\ wpc[w] # "stopped" /\ wpc[w] # "register"
            /\ wpc' = [wpc EXCEPT ![w] = stage]
            /\ CloseFile(w, e)
            /\ overlapped' = overlapped
    <3>1. CASE Roll(w, d)
      BY <3>1 DEF Roll, historyVars
    <3>2. CASE RollFails(w, d)
      BY <3>2, Sentinels DEF RollFails, historyVars
    <3>3. CASE AppendFails(w)
      BY <3>3, Sentinels DEF AppendFails, historyVars
    <3> QED BY <1>3, <3>1, <3>2, <3>3
  <2>2. WriterStages'
    BY <2>1, CloseKeeps DEF WriterStages
  <2>3. OverlapTracked'
    BY <2>1 DEF OverlapTracked
  <2>4. OpenSetHeld'
    BY <2>1, CloseKeeps
  <2>5. OpenSegmentsRegistered'
    BY <2>1, CloseKeeps DEF OpenSegmentsRegistered
  <2> QED BY <2>2, <2>3, <2>4, <2>5
<1>4. ASSUME NEW w \in Writers, OpenFile(w) PROVE WriterInv'
  <2>1. /\ wpc[w] = "open" /\ wpc' = [wpc EXCEPT ![w] = "register"]
        /\ UNCHANGED <<openSegments, segDay, overlapped>>
        /\ \E i \in Inodes : handle' = [handle EXCEPT ![w] = i]
    BY <1>4 DEF OpenFile, Segment, Segments
  <2>2. ~Open(w)
    BY <2>1 DEF WriterStages
  <2>3. /\ Open(w)'
        /\ \A v \in Writers : v # w => Open(v)' = Open(v) /\ Segment(v)' = Segment(v)
    BY <2>1 DEF Open, Segment
  <2>4. WriterStages'
    BY <2>1, <2>3 DEF WriterStages
  <2>5. OverlapTracked'
    BY <2>1 DEF OverlapTracked
  <2>6. OpenSetHeld'
    BY <2>1, <2>2, <2>3 DEF OpenSetHeld
  <2>7. OpenSegmentsRegistered'
    BY <2>1, <2>3 DEF OpenSegmentsRegistered
  <2> QED BY <2>4, <2>5, <2>6, <2>7
<1>5. ASSUME NEW w \in Writers, Register(w) PROVE WriterInv'
  <2>1. /\ wpc[w] = "register" /\ wpc' = [wpc EXCEPT ![w] = "append"]
        /\ openSegments' = openSegments \cup {Segment(w)}
        /\ UNCHANGED <<handle, segDay, overlapped>>
    BY <1>5 DEF Register, historyVars
  <2>2. \A v \in Writers : Open(v)' = Open(v) /\ Segment(v)' = Segment(v)
    BY <2>1 DEF Open, Segment
  <2>3. Open(w)
    BY <2>1 DEF WriterStages
  <2>4. WriterStages'
    BY <2>1, <2>2, <2>3 DEF WriterStages
  <2>5. OverlapTracked'
    BY <2>1 DEF OverlapTracked
  <2>6. OpenSetHeld'
    BY <2>1, <2>2, <2>3 DEF OpenSetHeld
  <2>7. OpenSegmentsRegistered'
    BY <2>1, <2>2 DEF OpenSegmentsRegistered
  <2> QED BY <2>4, <2>5, <2>6, <2>7
<1>6. ASSUME NEW w \in Writers,
             MkdirAll(w) \/ OpenFails(w) \/ SameDay(w) \/ AppendLine(w) \/ BackoffEnds(w)
      PROVE  WriterInv'
  <2>1. /\ UNCHANGED <<openSegments, handle, overlapped>>
        /\ \A v \in Writers : wpc[v] = "stopped" <=> wpc'[v] = "stopped"
        /\ \A v \in Writers : wpc[v] = "register" <=> wpc'[v] = "register"
    BY <1>6 DEF MkdirAll, OpenFails, SameDay, AppendLine, BackoffEnds, writerVars, historyVars
  <2>2. \A v \in Writers : Open(v)' = Open(v)
    BY <2>1 DEF Open
  <2>3. \A v \in Writers : Open(v) => Segment(v)' = Segment(v)
    BY <1>6 DEF MkdirAll, OpenFails, SameDay, AppendLine, BackoffEnds, WriterStages, Segment
  <2>4. WriterStages'
    BY <1>6, <2>2 DEF MkdirAll, OpenFails, SameDay, AppendLine, BackoffEnds, WriterStages
  <2>5. OverlapTracked'
    BY <2>1 DEF OverlapTracked
  <2>6. OpenSetHeld'
    BY <2>1, <2>2, <2>3 DEF OpenSetHeld
  <2>7. OpenSegmentsRegistered'
    BY <2>1, <2>2, <2>3 DEF OpenSegmentsRegistered
  <2> QED BY <2>4, <2>5, <2>6, <2>7
<1>7. CASE UNCHANGED <<openSegments, wpc, handle, segDay, overlapped>>
  <2>1. \A v \in Writers : Open(v)' = Open(v) /\ Segment(v)' = Segment(v)
    BY <1>7 DEF Open, Segment
  <2> QED
    BY <1>7, <2>1 DEF WriterStages, OverlapTracked, OpenSetHeld, OpenSegmentsRegistered
<1>8. CASE Crash
  BY <1>8 DEF Crash, Open, WriterStages, OverlapTracked, OpenSetHeld, OpenSegmentsRegistered
<1>9. GuardStep \/ SweepStep \/ NextDay \/ UNCHANGED vars
      => UNCHANGED <<openSegments, wpc, handle, segDay, overlapped>>
  BY DEF GuardStep, GuardCheck, GuardExamine, GuardRemove, GuardRemoveFails, GuardCleanup,
         GuardRecheckFails, GuardDone, SweepStep, SweepStart, SweepDir, SweepRemove,
         SweepRemoveFails, SweepRmdir, SweepDone, NextDay, vars, writerVars, historyVars
<1> QED
  BY <1>1, <1>2, <1>3, <1>4, <1>5, <1>6, <1>7, <1>8, <1>9, Sentinels DEF Next, WriterStep

THEOREM WriterInvariant == Spec => []WriterInv
<1>1. Init => WriterInv
  BY StoreAssumption DEF Init, WriterInv, WriterStages, OverlapTracked, OpenSetHeld,
     OpenSegmentsRegistered, Open
<1> QED BY <1>1, WriterInvStep, Typing, PTL DEF Spec

\* No phantom entry in openSegments keeps the guard off a segment.
THEOREM OpenSetIsHeld == Spec => []OpenSetHeld
BY WriterInvariant, PTL DEF WriterInv

\* While the writers of a container do not overlap, what one has open the
\* guard can see.
THEOREM OpenIsRegistered == Spec => []OpenSegmentsRegistered
BY WriterInvariant, PTL DEF WriterInv

\* The guard's set and the writers' handles are in step: together, the two say
\* that the set is exact where no overlap has been.
THEOREM OpenSetIsExact == Spec => []OpenSetExact
<1>1. OpenSetHeld /\ OpenSegmentsRegistered => OpenSetExact
  BY DEF OpenSetExact
<1> QED BY <1>1, OpenSetIsHeld, OpenIsRegistered, PTL

-----------------------------------------------------------------------------
(* The retention manager *)

LEMMA SweepStepKeeps == TypeOK /\ SweepOnlyExpired /\ [Next]_vars => SweepOnlyExpired'
<1> SUFFICES ASSUME TypeOK, SweepOnlyExpired, [Next]_vars PROVE SweepOnlyExpired'
  OBVIOUS
<1> USE StoreAssumption DEF TypeOK, SweepOnlyExpired
<1>1. CASE SweepStart
  BY <1>1 DEF SweepStart, clockVars, Days
<1>2. CASE SweepDir
  BY <1>2 DEF SweepDir, clockVars, Days
<1>3. CASE SweepRemove
  BY <1>3 DEF SweepRemove, clockVars
<1>4. CASE SweepRmdir
  BY <1>4 DEF SweepRmdir, clockVars
<1>5. CASE SweepDone
  BY <1>5 DEF SweepDone, clockVars
<1>6. CASE Crash
  BY <1>6 DEF Crash
<1>7. CASE NextDay
  BY <1>7 DEF NextDay, retentionVars, Days
<1>8. CASE UNCHANGED <<retentionVars, clockVars>>
  BY <1>8 DEF retentionVars, clockVars
<1>9. CASE SweepRemoveFails
  BY <1>9 DEF SweepRemoveFails
<1>10. (\E w \in Writers : WriterStep(w)) \/ GuardStep \/ UNCHANGED vars
      => UNCHANGED <<retentionVars, clockVars>>
  BY DEF WriterStep, Start, Stop, Roll, RollFails, MkdirAll, OpenFile, OpenFails, Register,
         SameDay, AppendLine, AppendFails, BackoffEnds, GuardStep, GuardCheck,
         GuardExamine, GuardRemove, GuardRemoveFails, GuardCleanup, GuardRecheckFails,
         GuardDone, vars
<1> QED
  BY <1>1, <1>2, <1>3, <1>4, <1>5, <1>6, <1>7, <1>8, <1>9, <1>10 DEF Next, SweepStep

LEMMA SweepInvariant == Spec => []SweepOnlyExpired
<1>1. Init => SweepOnlyExpired
  BY DEF Init, SweepOnlyExpired
<1> QED BY <1>1, SweepStepKeeps, Typing, PTL DEF Spec

\* Retention never removes a segment inside the window, whenever its clock is
\* read and however long a sweep takes.
THEOREM RetentionWindowKept == Spec => RetentionKeepsWindow
<1>1. TypeOK /\ SweepOnlyExpired /\ SweepStep =>
        \A s \in OnDisk : disk'[s] = NoInode => s[2] < today - RetentionDays
  <2> SUFFICES ASSUME TypeOK, SweepOnlyExpired, SweepStep, NEW s \in OnDisk, disk'[s] = NoInode
               PROVE  s[2] < today - RetentionDays
    OBVIOUS
  <2>1. disk' # disk
    BY DEF OnDisk
  <2>2. SweepRemove
    BY <2>1 DEF SweepStep, SweepStart, SweepDir, SweepRemoveFails, SweepRmdir, SweepDone,
       volumeVars
  <2>3. PICK d \in rexpired : Unlink(<<rdir, d>>) /\ rpc = "remove"
    BY <2>2 DEF SweepRemove
  <2>4. s = <<rdir, d>>
    BY <2>3 DEF Unlink, OnDisk, TypeOK
  <2>5. s[2] = d /\ d < cutoff /\ cutoff <= today - RetentionDays
    BY <2>3, <2>4 DEF SweepOnlyExpired
  <2>6. d \in Int /\ cutoff \in Int /\ today \in Int /\ RetentionDays \in Int
    BY <2>3, StoreAssumption DEF TypeOK, Days
  <2> QED BY <2>5, <2>6
<1> QED BY <1>1, Typing, SweepInvariant, PTL DEF RetentionKeepsWindow

-----------------------------------------------------------------------------
(* Lines lost *)

\* A writer's step leaves the files of the others alone.
LEMMA OthersKeepFiles ==
    ASSUME TypeOK, NEW w \in Writers, WriterStep(w)
    PROVE  /\ \A v \in Writers \ {w} : handle'[v] = handle[v] /\ segDay'[v] = segDay[v]
           /\ UNCHANGED <<gpc, target, retentionVars, clockVars, raced>>
<1> USE DEF TypeOK, CloseFile, guardVars, historyVars, retentionVars, clockVars
<1>1. CASE \E d \in Days : Roll(w, d) \/ RollFails(w, d)
  BY <1>1 DEF Roll, RollFails
<1>2. CASE Start(w) \/ Stop(w) \/ AppendFails(w)
  BY <1>2 DEF Start, Stop, AppendFails
<1>3. CASE MkdirAll(w) \/ OpenFile(w) \/ OpenFails(w)
  BY <1>3 DEF MkdirAll, OpenFile, OpenFails
<1>4. CASE Register(w) \/ SameDay(w) \/ AppendLine(w) \/ BackoffEnds(w)
  BY <1>4 DEF Register, SameDay, AppendLine, BackoffEnds, writerVars
<1> QED BY <1>1, <1>2, <1>3, <1>4 DEF WriterStep

\* Only OpenFile gives a writer a file, and it gives it the one at its path.
LEMMA OwnFile ==
    ASSUME TypeOK, WriterInv, NEW w \in Writers, WriterStep(w), ~OpenFile(w)
    PROVE  /\ handle'[w] = NoInode \/ (handle'[w] = handle[w] /\ segDay'[w] = segDay[w])
           /\ UNCHANGED <<disk, fresh>>
<1> USE DEF TypeOK, CloseFile, historyVars, volumeVars
<1>1. CASE \E d \in Days : Roll(w, d) \/ RollFails(w, d)
  BY <1>1 DEF Roll, RollFails
<1>2. CASE Start(w) \/ Stop(w) \/ AppendFails(w)
  BY <1>2 DEF Start, Stop, AppendFails
<1>3. CASE MkdirAll(w)
  BY <1>3 DEF MkdirAll
<1>4. CASE OpenFails(w)
  <2>1. ~Open(w)
    BY <1>4 DEF OpenFails, WriterInv, WriterStages
  <2> QED BY <1>4, <2>1 DEF OpenFails, Open
<1>5. CASE Register(w) \/ SameDay(w) \/ AppendLine(w) \/ BackoffEnds(w)
  BY <1>5 DEF Register, SameDay, AppendLine, BackoffEnds, writerVars
<1> QED BY <1>1, <1>2, <1>3, <1>4, <1>5 DEF WriterStep

LEMMA GuardRacesStep ==
    TypeOK /\ WriterInv /\ GuardRacesOnlyOpening /\ [Next]_vars => GuardRacesOnlyOpening'
<1> SUFFICES ASSUME TypeOK, WriterInv, GuardRacesOnlyOpening, [Next]_vars
             PROVE  GuardRacesOnlyOpening'
  OBVIOUS
<1> USE StoreAssumption DEF TypeOK
<1>1. ASSUME NEW w \in Writers, WriterStep(w) PROVE GuardRacesOnlyOpening'
  <2> SUFFICES ASSUME gpc = "remove", gpc' = "remove", target' = target,
                      NEW v \in Writers, Open(v)', Segment(v)' = target
               PROVE  v \in fresh' \/ target[1] \in overlapped'
    BY <1>1, OthersKeepFiles DEF GuardRacesOnlyOpening
  <2>1. CASE v = w /\ OpenFile(w)
    BY <2>1 DEF OpenFile, Segment
  <2>2. CASE ~(v = w /\ OpenFile(w))
    <3>1. Open(v) /\ Segment(v) = target
      BY <1>1, <2>2, OthersKeepFiles, OwnFile DEF Open, Segment
    <3>2. v \in fresh \/ target[1] \in overlapped
      BY <3>1 DEF GuardRacesOnlyOpening
    <3>3. fresh \subseteq fresh'
      BY <1>1, OwnFile DEF OpenFile
    <3>4. target[1] \in overlapped => target[1] \in overlapped'
      <4>1. CASE Stop(w)
        <5>1. v # w
          BY <4>1 DEF Stop, CloseFile, Open
        <5>2. v \in Live(ContainerOf[v]) /\ target[1] = ContainerOf[v]
          BY <3>1 DEF Live, WriterInv, WriterStages, Segment
        <5> QED BY <4>1, <5>1, <5>2 DEF Stop
      <4>2. CASE ~Stop(w)
        BY <1>1, <4>2 DEF WriterStep, Start, Roll, RollFails, MkdirAll, OpenFile, OpenFails,
           Register, SameDay, AppendLine, AppendFails, BackoffEnds, historyVars
      <4> QED BY <4>1, <4>2
    <3> QED BY <3>2, <3>3, <3>4
  <2> QED BY <2>1, <2>2
<1>2. CASE GuardExamine
  <2> SUFFICES ASSUME gpc' = "remove",
                      NEW v \in Writers, Open(v), Segment(v) = target'
               PROVE  v \in fresh' \/ target'[1] \in overlapped
    BY <1>2 DEF GuardExamine, GuardRacesOnlyOpening, Open, Segment, writerVars
  <2>1. /\ target' \notin openSegments
        /\ fresh' = {u \in Writers : wpc[u] = "register" /\ Segment(u) = target'}
    BY <1>2 DEF GuardExamine
  <2>2. target'[1] = ContainerOf[v]
    BY DEF Segment
  <2> QED BY <2>1, <2>2 DEF WriterInv, OpenSegmentsRegistered
<1>3. CASE \/ GuardCheck \/ GuardRemove \/ GuardRemoveFails \/ GuardCleanup
           \/ GuardRecheckFails \/ GuardDone \/ Crash
  BY <1>3 DEF GuardCheck, GuardRemove, GuardRemoveFails, GuardCleanup, GuardRecheckFails,
     GuardDone, Crash, GuardRacesOnlyOpening
<1>4. CASE UNCHANGED <<gpc, target, fresh, overlapped, handle, segDay>>
  BY <1>4 DEF GuardRacesOnlyOpening, Open, Segment
<1>5. SweepStep \/ NextDay \/ UNCHANGED vars
      => UNCHANGED <<gpc, target, fresh, overlapped, handle, segDay>>
  BY DEF SweepStep, SweepStart, SweepDir, SweepRemove, SweepRemoveFails, SweepRmdir,
         SweepDone, NextDay, vars, writerVars, guardVars, historyVars
<1> QED BY <1>1, <1>2, <1>3, <1>4, <1>5 DEF Next, GuardStep

\* What has been excused stays excused.
LEMMA ExcusedStays ==
    TypeOK /\ [Next]_vars => \A s \in Segments : Excused(s) => Excused(s)'
<1> SUFFICES ASSUME TypeOK, [Next]_vars PROVE \A s \in Segments : Excused(s) => Excused(s)'
  OBVIOUS
<1>1. ASSUME NEW w \in Writers, WriterStep(w)
      PROVE raced \subseteq raced' /\ (today' = today \/ today' = today + 1)
  BY <1>1, OthersKeepFiles DEF clockVars
<1>2. ASSUME GuardStep \/ SweepStep \/ NextDay \/ Crash \/ UNCHANGED vars
      PROVE raced \subseteq raced' /\ (today' = today \/ today' = today + 1)
  BY <1>2 DEF GuardStep, GuardCheck, GuardExamine, GuardRemove, GuardRemoveFails,
     GuardCleanup, GuardRecheckFails, GuardDone, SweepStep, SweepStart, SweepDir, SweepRemove,
     SweepRemoveFails, SweepRmdir, SweepDone, NextDay, Crash, vars, clockVars, historyVars
<1>3. raced \subseteq raced' /\ (today' = today \/ today' = today + 1)
  BY <1>1, <1>2 DEF Next
<1>4. today \in Int /\ today' \in Int /\ RetentionDays \in Int
  BY StepTyped, StoreAssumption DEF TypeOK, Days
<1>5. ASSUME NEW s \in Segments PROVE s[2] \in Int
  BY StoreAssumption DEF Segments, Days
<1> QED BY <1>3, <1>4, <1>5 DEF Excused

LEMMA OrphansStep ==
    TypeOK /\ WriterInv /\ SweepOnlyExpired /\ GuardRacesOnlyOpening /\ OrphansExcused
        /\ [Next]_vars => OrphansExcused'
<1> SUFFICES ASSUME TypeOK, WriterInv, SweepOnlyExpired, GuardRacesOnlyOpening, OrphansExcused,
                    [Next]_vars, NEW v \in Writers, Open(v)', ~Linked(v)'
             PROVE  Excused(Segment(v))'
  BY DEF OrphansExcused
<1> USE StoreAssumption DEF TypeOK
<1>0. Segment(v) \in Segments
  BY DEF Segment, Segments
<1>a. CASE Open(v) /\ Segment(v)' = Segment(v) /\ ~Linked(v)
  BY <1>a, <1>0, ExcusedStays DEF OrphansExcused, Excused
<1>1. ASSUME NEW w \in Writers, WriterStep(w)
      PROVE  Open(v) /\ Segment(v)' = Segment(v) /\ ~Linked(v)
  <2>1. ASSUME OpenFile(w) PROVE Linked(w)'
    <3>1. Segment(w) \in Segments /\ Segment(w)' = Segment(w)
      BY <2>1 DEF OpenFile, Segment, Segments
    <3>2. disk'[Segment(w)] = handle'[w] /\ handle'[w] # NoInode
      BY <2>1, <3>1 DEF OpenFile
    <3> QED BY <3>1, <3>2 DEF Linked, Open
  <2>2. Open(v) /\ handle'[v] = handle[v] /\ Segment(v)' = Segment(v)
    BY <1>1, <2>1, OthersKeepFiles, OwnFile DEF Open, Segment
  <2>3. CASE OpenFile(w)
    <3>1. disk[Segment(v)] # NoInode => disk'[Segment(v)] = disk[Segment(v)]
      BY <2>3, <1>0 DEF OpenFile
    <3> QED BY <2>2, <3>1 DEF Linked, Open
  <2>4. CASE ~OpenFile(w)
    BY <1>1, <2>2, <2>4, OwnFile DEF Linked, Open
  <2> QED BY <2>2, <2>3, <2>4
<1>2. CASE GuardRemove
  <2>1. Open(v) /\ Segment(v)' = Segment(v)
    BY <1>2 DEF GuardRemove, writerVars, Open, Segment
  <2>2. CASE Linked(v)
    <3>1. Segment(v) = target /\ disk[target] # NoInode
      BY <1>2, <2>1, <2>2, <1>0 DEF GuardRemove, Unlink, Linked, Open, writerVars
    <3>2. v \in fresh \/ target[1] \in overlapped
      BY <1>2, <2>1, <3>1 DEF GuardRemove, GuardRacesOnlyOpening
    <3>3. target \in raced'
      BY <1>2, <2>2, <3>1, <3>2 DEF GuardRemove
    <3> QED BY <2>1, <3>1, <3>3 DEF Excused
  <2> QED BY <2>1, <2>2, <1>a
<1>3. CASE SweepRemove
  <2>1. Open(v) /\ Segment(v)' = Segment(v) /\ today' = today
    BY <1>3 DEF SweepRemove, writerVars, clockVars, Open, Segment
  <2>2. CASE Linked(v)
    <3>1. PICK d \in rexpired : Unlink(<<rdir, d>>) /\ rpc = "remove"
      BY <1>3 DEF SweepRemove
    <3>2. Segment(v) = <<rdir, d>>
      BY <1>3, <2>1, <2>2, <3>1, <1>0 DEF SweepRemove, Unlink, Linked, Open, writerVars
    <3>3. d < cutoff /\ cutoff <= today - RetentionDays
      BY <3>1 DEF SweepOnlyExpired
    <3>4. d \in Int /\ today \in Int
      BY <3>1 DEF Days
    <3>5. Segment(v)[2] < today - RetentionDays
      BY <3>2, <3>3, <3>4
    <3> QED BY <2>1, <3>5 DEF Excused
  <2> QED BY <2>1, <2>2, <1>a
<1>4. CASE Crash
  BY <1>4 DEF Crash, Open
<1>5. CASE UNCHANGED <<disk, handle, segDay>>
  BY <1>5, <1>a DEF Linked, Open, Segment
<1>6. GuardCheck \/ GuardExamine \/ GuardRemoveFails \/ GuardCleanup \/ GuardRecheckFails
      \/ GuardDone \/ SweepStart \/ SweepDir \/ SweepRemoveFails \/ SweepRmdir \/ SweepDone
      \/ NextDay \/ UNCHANGED vars
      => UNCHANGED <<disk, handle, segDay>>
  BY DEF GuardCheck, GuardExamine, GuardRemoveFails, GuardCleanup, GuardRecheckFails, GuardDone,
         SweepStart, SweepDir, SweepRemoveFails, SweepRmdir, SweepDone, NextDay, vars,
         volumeVars, writerVars
<1> QED BY <1>a, <1>1, <1>2, <1>3, <1>4, <1>5, <1>6 DEF Next, GuardStep, SweepStep

LEMMA LossStep ==
    TypeOK /\ WriterInv /\ OrphansExcused /\ LossNeedsRaceOrExpiry /\ [Next]_vars
        => LossNeedsRaceOrExpiry'
<1> SUFFICES ASSUME TypeOK, WriterInv, OrphansExcused, LossNeedsRaceOrExpiry, [Next]_vars,
                    NEW s \in lost'
             PROVE  Excused(s)'
  BY DEF LossNeedsRaceOrExpiry, Excused
<1>1. CASE s \in lost
  BY <1>1, ExcusedStays DEF LossNeedsRaceOrExpiry, Excused, TypeOK
<1>2. ASSUME NEW w \in Writers, AppendLine(w), s \notin lost PROVE Excused(s)'
  <2>1. s = Segment(w) /\ ~Linked(w) /\ wpc[w] = "append"
    BY <1>2 DEF AppendLine
  <2>2. Open(w)
    BY <2>1 DEF WriterInv, WriterStages
  <2>3. s \in Segments
    BY <2>1, StoreAssumption DEF Segment, Segments, TypeOK
  <2> QED BY <2>1, <2>2, <2>3, ExcusedStays DEF OrphansExcused
<1>3. ASSUME s \notin lost PROVE \E w \in Writers : AppendLine(w)
  BY <1>3 DEF Next, WriterStep, Start, Stop, Roll, RollFails, MkdirAll, OpenFile, OpenFails,
     Register, SameDay, AppendFails, BackoffEnds, GuardStep, GuardCheck, GuardExamine,
     GuardRemove, GuardRemoveFails, GuardCleanup, GuardRecheckFails, GuardDone, SweepStep,
     SweepStart, SweepDir, SweepRemove, SweepRemoveFails, SweepRmdir, SweepDone, NextDay,
     Crash, vars, historyVars
<1> QED BY <1>1, <1>2, <1>3

\* An acknowledged line is lost only if its segment expired, two writers of its
\* container overlapped, or the guard raced the opening of its segment.
THEOREM LossIsExcused == Spec => []LossNeedsRaceOrExpiry
<1>1. Init => GuardRacesOnlyOpening /\ OrphansExcused /\ LossNeedsRaceOrExpiry
  BY DEF Init, GuardRacesOnlyOpening, OrphansExcused, LossNeedsRaceOrExpiry, Open
<1> QED
  BY <1>1, Typing, WriterInvariant, SweepInvariant, GuardRacesStep, OrphansStep, LossStep, PTL
     DEF Spec

-----------------------------------------------------------------------------
(* Directories *)

LEMMA DirsStep == TypeOK /\ SegmentsHaveDir /\ [Next]_vars => SegmentsHaveDir'
<1> SUFFICES ASSUME TypeOK, SegmentsHaveDir, [Next]_vars,
                    NEW s \in Segments, disk'[s] # NoInode
             PROVE  s[1] \in dirs'
  BY DEF SegmentsHaveDir, OnDisk
<1> USE StoreAssumption DEF TypeOK
<1>0. PICK c \in Containers, d \in Days : s = <<c, d>>
  BY DEF Segments
<1>1. ASSUME NEW w \in Writers, OpenFile(w) PROVE s[1] \in dirs'
  <2>1. Segment(w) \in Segments /\ ContainerOf[w] \in dirs /\ dirs' = dirs
    BY <1>1 DEF OpenFile, Segment, Segments
  <2>2. CASE s = Segment(w)
    BY <2>1, <2>2 DEF Segment
  <2>3. CASE s # Segment(w)
    BY <1>1, <2>1, <2>3 DEF OpenFile, SegmentsHaveDir, OnDisk
  <2> QED BY <2>2, <2>3
<1>2. ASSUME disk' = disk, dirs \subseteq dirs' PROVE s[1] \in dirs'
  BY <1>2 DEF SegmentsHaveDir, OnDisk
<1>3. ASSUME NEW w \in Writers, WriterStep(w), ~OpenFile(w) PROVE disk' = disk /\ dirs \subseteq dirs'
  BY <1>3 DEF WriterStep, Start, Stop, Roll, RollFails, MkdirAll, OpenFails, Register, SameDay,
     AppendLine, AppendFails, BackoffEnds, volumeVars
<1>4. ASSUME NEW t \in Segments, Unlink(t), dirs' = dirs PROVE s[1] \in dirs'
  BY <1>4 DEF Unlink, SegmentsHaveDir, OnDisk
<1>5. ASSUME NEW e \in Containers, RemoveIfEmpty(e), disk' = disk PROVE s[1] \in dirs'
  <2>1. s \in OnDisk /\ s[1] \in dirs
    BY <1>5 DEF OnDisk, SegmentsHaveDir
  <2>2. CASE s[1] = e
    BY <1>0, <1>5, <2>1, <2>2 DEF RemoveIfEmpty, Empty, OnDisk
  <2>3. CASE s[1] # e
    BY <1>5, <2>1, <2>3 DEF RemoveIfEmpty
  <2> QED BY <2>2, <2>3
<1>6. CASE GuardRemove
  BY <1>2, <1>4, <1>6 DEF GuardRemove
<1>7. CASE GuardCleanup \/ GuardRecheckFails
  BY <1>5, <1>7 DEF GuardCleanup, GuardRecheckFails, Segments
<1>8. CASE SweepRemove
  <2>1. PICK e \in rexpired : Unlink(<<rdir, e>>) /\ dirs' = dirs
    BY <1>8 DEF SweepRemove
  <2>2. <<rdir, e>> \in Segments
    BY <2>1 DEF Segments
  <2> QED BY <1>4, <2>1, <2>2
<1>9. CASE SweepRmdir
  BY <1>2, <1>5, <1>9 DEF SweepRmdir
<1>10. GuardCheck \/ GuardExamine \/ GuardRemoveFails \/ GuardDone \/ SweepStart \/ SweepDir
       \/ SweepRemoveFails \/ SweepDone \/ NextDay \/ Crash \/ UNCHANGED vars
       => disk' = disk /\ dirs' = dirs
  BY DEF GuardCheck, GuardExamine, GuardRemoveFails, GuardDone, SweepStart, SweepDir,
         SweepRemoveFails, SweepDone, NextDay, Crash, vars, volumeVars
<1> QED
  BY <1>1, <1>2, <1>3, <1>6, <1>7, <1>8, <1>9, <1>10 DEF Next, GuardStep, SweepStep

\* The cleanups of the guard and of retention never orphan a segment.
THEOREM DirsKept == Spec => []SegmentsHaveDir
<1>1. Init => SegmentsHaveDir
  BY DEF Init, SegmentsHaveDir, OnDisk
<1> QED BY <1>1, Typing, DirsStep, PTL DEF Spec

=============================================================================
