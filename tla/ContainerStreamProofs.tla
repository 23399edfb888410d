----------------------- MODULE ContainerStreamProofs -----------------------
(***************************************************************************)
(* Proofs about ContainerStream, for any lines, runs, seconds, faults and  *)
(* restarts.                                                               *)
(***************************************************************************)
EXTENDS ContainerStream, TLAPS

(* Where the stream is in the container's files.                           *)

Placed ==
    /\ up = "yes" => begun > 0
    /\ status = 0 \/ status < begun
    /\ \A n \in Runs : n >= begun => log[n] = <<>>
    /\ \A n \in Runs : \A i \in 1..Len(log[n]) : log[n][i].line <= Len(secs)
    /\ source = "file" =>
          /\ pc \in {"start", "open", "read", "eof", "sleep", "ended"}
          /\ run = 0 \/ run < begun
          /\ pc \in {"read", "eof", "sleep"} => run < begun /\ pos <= Len(log[run])
          /\ pc \notin {"read", "eof", "sleep"} => pos = 0
    /\ source = "api" /\ pc = "stream" => run < begun /\ pos <= Len(log[run])

Base == TypeOK /\ Placed

\* What an appended record changes.
LEMMA Appending ==
    ASSUME log \in [Runs -> Seq(Records)], NEW c \in Runs, NEW r \in Records,
           log' = [log EXCEPT ![c] = Append(@, r)]
    PROVE  /\ log' \in [Runs -> Seq(Records)]
           /\ Len(log'[c]) = Len(log[c]) + 1
           /\ \A i \in 1..Len(log[c]) : log'[c][i] = log[c][i]
           /\ log'[c][Len(log[c]) + 1] = r
           /\ \A n \in Runs : n # c => log'[n] = log[n]
  <1>1. log[c] \in Seq(Records) OBVIOUS
  <1>2. log'[c] = Append(log[c], r) OBVIOUS
  <1>3. \A n \in Runs : n # c => log'[n] = log[n] OBVIOUS
  <1>4. Append(log[c], r) \in Seq(Records) BY <1>1
  <1>5. log' \in [Runs -> Seq(Records)] BY <1>4
  <1> QED BY <1>1, <1>2, <1>3, <1>5

\* What no step of the stream changes, and what it only adds to.
LEMMA StreamFrame ==
    ASSUME StreamStep \/ Cancel \/ Restart
    PROVE  /\ UNCHANGED <<begun, up, pod, log, secs, status, clock, source>>
           /\ excused \subseteq excused' /\ whole \subseteq whole'
  <1>1. CASE StartTail BY <1>1 DEF StartTail, containerVars, storeVars
  <1>2. CASE OpenFile BY <1>2 DEF OpenFile, outsideVars, containerVars, storeVars
  <1>3. CASE OpenFails BY <1>3 DEF OpenFails, outsideVars, containerVars, storeVars
  <1>4. CASE ReadRecord
    BY <1>4 DEF ReadRecord, Keep, KeepFragment, outsideVars, containerVars, storeVars
  <1>5. CASE ReadEnd BY <1>5 DEF ReadEnd, outsideVars, containerVars, storeVars
  <1>6. CASE ReadFails BY <1>6 DEF ReadFails, outsideVars, containerVars, storeVars
  <1>7. CASE Stat BY <1>7 DEF Stat, KeepFragment, outsideVars, containerVars, storeVars
  <1>8. CASE Wake BY <1>8 DEF Wake, outsideVars, containerVars, storeVars
  <1>9. CASE StopTail BY <1>9 DEF StopTail, outsideVars, containerVars, storeVars
  <1>10. CASE StartApi
    BY <1>10 DEF StartApi, apiUnchanged, outsideVars, containerVars, storeVars
  <1>11. CASE Connect
    BY <1>11 DEF Connect, apiUnchanged, outsideVars, containerVars, storeVars
  <1>12. CASE ConnectFails
    BY <1>12 DEF ConnectFails, apiUnchanged, outsideVars, containerVars, storeVars
  <1>13. CASE Receive
    BY <1>13 DEF Receive, Keep, apiUnchanged, outsideVars, containerVars, storeVars
  <1>14. CASE StreamEnds
    BY <1>14 DEF StreamEnds, apiUnchanged, outsideVars, containerVars, storeVars
  <1>15. CASE Break BY <1>15 DEF Break, apiUnchanged, outsideVars, containerVars, storeVars
  <1>16. CASE BreakInLine
    BY <1>16 DEF BreakInLine, apiUnchanged, outsideVars, containerVars, storeVars
  <1>17. CASE Judge BY <1>17 DEF Judge, outsideVars, containerVars, storeVars
  <1>18. CASE Resume BY <1>18 DEF Resume, outsideVars, containerVars, storeVars
  <1>19. CASE StopApi
    BY <1>19 DEF StopApi, apiUnchanged, outsideVars, containerVars, storeVars
  <1>20. CASE Cancel BY <1>20 DEF Cancel, containerVars, storeVars
  <1>21. CASE Restart BY <1>21 DEF Restart, containerVars, storeVars
  <1> QED BY <1>1, <1>2, <1>3, <1>4, <1>5, <1>6, <1>7, <1>8, <1>9, <1>10, <1>11, <1>12,
             <1>13, <1>14, <1>15, <1>16, <1>17, <1>18, <1>19, <1>20, <1>21
          DEF StreamStep, FileStep, ApiStep

\* What no step of the container, the kubelet or the clock changes.
LEMMA ContainerFrame ==
    ASSUME Container
    PROVE  /\ UNCHANGED <<source, pc, cancelled, run, pos, seek, partial, watch, since, got,
                          ended, backoff, born, news, content, whole, twice, faults, starts,
                          reread>>
           /\ excused \subseteq excused'
  <1>1. ASSUME NEW as \in {"full", "part", "head"}, WriteLine(as)
        PROVE  UNCHANGED streamVars /\ excused \subseteq excused'
    BY <1>1 DEF WriteLine
  <1>2. CASE FinishLine
    BY <1>2 DEF FinishLine, streamVars, fileVars, apiVars, storeVars
  <1>3. CASE Begin \/ Exit \/ Report
    BY <1>3 DEF Begin, Exit, Report, streamVars, fileVars, apiVars, storeVars
  <1>4. CASE PodFinishes \/ PodGoes \/ Tick
    BY <1>4 DEF PodFinishes, PodGoes, Tick, streamVars, fileVars, apiVars, storeVars
  <1> QED BY <1>1, <1>2, <1>3, <1>4
          DEF Container, streamVars, fileVars, apiVars, storeVars

-----------------------------------------------------------------------------
(* Types and places.                                                       *)

LEMMA InitBase == Init => Base
  BY StreamAssumption, SMT DEF Init, Base, TypeOK, Placed, Runs, Lines, None

\* The records of a file.
LEMMA Entries ==
    ASSUME Base, NEW n \in Runs
    PROVE  /\ log[n] \in Seq(Records) /\ Len(log[n]) \in Nat
           /\ \A i \in 1..Len(log[n]) :
                 /\ log[n][i] \in Records /\ log[n][i].line \in Lines
                 /\ log[n][i].line \in 1..Len(secs)
                 /\ log[n][i].as \in {"full", "part", "head", "rest"}
  <1>1. log[n] \in Seq(Records) /\ Len(log[n]) \in Nat BY DEF Base, TypeOK
  <1> SUFFICES ASSUME NEW i \in 1..Len(log[n])
               PROVE  /\ log[n][i] \in Records /\ log[n][i].line \in Lines
                      /\ log[n][i].line \in 1..Len(secs)
                      /\ log[n][i].as \in {"full", "part", "head", "rest"}
    BY <1>1
  <1>2. log[n][i] \in Records BY <1>1
  <1>3. log[n][i].line \in Lines /\ log[n][i].as \in {"full", "part", "head", "rest"}
    BY <1>2 DEF Records
  <1>4. log[n][i].line <= Len(secs) BY DEF Base, Placed
  <1>5. Len(secs) \in Nat BY DEF Base, TypeOK
  <1> QED BY <1>2, <1>3, <1>4, <1>5, StreamAssumption DEF Lines

\* The file that is written to.
LEMMA CurrentFile ==
    ASSUME Base, up = "yes"
    PROVE  /\ begun > 0 /\ begun \in Nat /\ Current = begun - 1
           /\ Current \in Runs /\ log[Current] \in Seq(Records)
           /\ Len(log[Current]) \in Nat /\ Len(secs) \in Nat
  BY StreamAssumption DEF Base, TypeOK, Placed, Current, Runs

\* A record of the last line or of the next is appended to the current file.
LEMMA GrowthPlaced ==
    ASSUME Base, up = "yes", NEW r \in Records,
           log' = [log EXCEPT ![Current] = Append(@, r)],
           Len(secs') \in Nat, Len(secs') >= Len(secs), r.line <= Len(secs'),
           UNCHANGED <<begun, up, status, source, pc, run, pos>>
    PROVE  Placed'
  <1>1. /\ begun > 0 /\ begun \in Nat /\ Current = begun - 1
        /\ Current \in Runs /\ log[Current] \in Seq(Records)
        /\ Len(log[Current]) \in Nat /\ Len(secs) \in Nat
    BY CurrentFile
  <1>2. /\ log' \in [Runs -> Seq(Records)]
        /\ Len(log'[Current]) = Len(log[Current]) + 1
        /\ \A i \in 1..Len(log[Current]) : log'[Current][i] = log[Current][i]
        /\ log'[Current][Len(log[Current]) + 1] = r
        /\ \A n \in Runs : n # Current => log'[n] = log[n]
    <2>1. log \in [Runs -> Seq(Records)] BY DEF Base, TypeOK
    <2> QED BY <1>1, <2>1, Appending
  <1>3. \A n \in Runs : n >= begun' => log'[n] = <<>>
    <2> SUFFICES ASSUME NEW n \in Runs, n >= begun
                 PROVE  log'[n] = <<>>
      OBVIOUS
    <2>1. n # Current BY <1>1 DEF Runs
    <2> QED BY <1>2, <2>1 DEF Base, Placed
  <1>4. \A n \in Runs : \A i \in 1..Len(log'[n]) : log'[n][i].line <= Len(secs')
    <2> SUFFICES ASSUME NEW n \in Runs, NEW i \in 1..Len(log'[n])
                 PROVE  log'[n][i].line <= Len(secs')
      OBVIOUS
    <2>0. i \in Nat /\ Len(log[n]) \in Nat BY <1>2, Entries
    <2>1. CASE i \in 1..Len(log[n])
      <3>1. log[n][i].line \in 1..Len(secs) BY <2>1, Entries
      <3>2. log'[n][i] = log[n][i] BY <1>2, <2>1
      <3> QED BY <1>1, <3>1, <3>2
    <2>2. CASE i \notin 1..Len(log[n])
      <3>1. n = Current BY <1>2, <2>2
      <3>2. i = Len(log[Current]) + 1 BY <1>1, <1>2, <2>0, <2>2, <3>1
      <3> QED BY <1>2, <3>1, <3>2
    <2> QED BY <2>1, <2>2
  <1>5. run < begun => /\ Len(log'[run]) \in Nat /\ Len(log[run]) \in Nat
                       /\ Len(log'[run]) >= Len(log[run])
    <2> SUFFICES ASSUME run < begun
                 PROVE  /\ Len(log'[run]) \in Nat /\ Len(log[run]) \in Nat
                        /\ Len(log'[run]) >= Len(log[run])
      OBVIOUS
    <2>1. run \in Runs BY StreamAssumption DEF Base, TypeOK, Runs
    <2>2. Len(log[run]) \in Nat BY <2>1, Entries
    <2> QED BY <1>1, <1>2, <2>1, <2>2
  <1>6. run < begun /\ pos <= Len(log[run]) => pos <= Len(log'[run])
    <2>1. pos \in Nat BY DEF Base, TypeOK
    <2> QED BY <1>5, <2>1
  <1> QED BY <1>3, <1>4, <1>6 DEF Base, Placed

LEMMA WriteLineBase ==
    ASSUME Base, NEW as \in {"full", "part", "head"}, WriteLine(as)
    PROVE  Base'
  <1> DEFINE r == [line |-> Len(secs) + 1, as |-> as]
  <1>0. Container BY DEF Container
  <1>1. up = "yes" /\ Len(secs) + 1 <= MaxLines BY DEF WriteLine
  <1>2. /\ Current \in Runs /\ Len(secs) \in Nat BY <1>1, CurrentFile
  <1>3. Len(secs) + 1 \in Lines BY <1>1, <1>2, StreamAssumption DEF Lines
  <1>4. r \in Records BY <1>3 DEF Records
  <1>5. log' = [log EXCEPT ![Current] = Append(@, r)] BY DEF WriteLine
  <1>6. log' \in [Runs -> Seq(Records)]
    <2>1. log \in [Runs -> Seq(Records)] BY DEF Base, TypeOK
    <2> HIDE DEF r
    <2> QED BY <1>2, <1>4, <1>5, <2>1, Appending
  <1>7. secs' \in Seq(1..MaxSecond) /\ Len(secs') = Len(secs) + 1
    BY DEF WriteLine, Base, TypeOK
  <1>8. UNCHANGED <<begun, up, pod, status, clock>> BY DEF WriteLine
  <1>9. signal' \in {"yes", "no"} /\ excused' \subseteq Lines
    BY <1>3 DEF WriteLine, Signal, Base, TypeOK
  <1>10. UNCHANGED <<source, pc, cancelled, run, pos, seek, partial, watch, since, got,
                     ended, backoff, born, news, content, whole, twice, faults, starts, reread>>
    BY <1>0, ContainerFrame
  <1>11. TypeOK' BY <1>1, <1>6, <1>7, <1>8, <1>9, <1>10 DEF Base, TypeOK
  <1>12. r.line <= Len(secs') BY <1>2, <1>7
  <1>13. Placed'
    <2>1. Len(secs') \in Nat /\ Len(secs') >= Len(secs) BY <1>2, <1>7
    <2>2. UNCHANGED <<begun, up, status, source, pc, run, pos>> BY <1>8, <1>10
    <2> HIDE DEF r
    <2> QED BY <1>1, <1>4, <1>5, <1>12, <2>1, <2>2, GrowthPlaced
  <1> QED BY <1>11, <1>13 DEF Base

LEMMA FinishLineBase ==
    ASSUME Base, FinishLine
    PROVE  Base'
  <1> DEFINE l == Len(secs)
             r == [line |-> l, as |-> IF log[Current][Len(log[Current])].as = "head"
                                      THEN "rest" ELSE "full"]
  <1>0. Container BY DEF Container
  <1>1. up = "yes" /\ Len(log[Current]) > 0 BY DEF FinishLine, Open
  <1>2. /\ Current \in Runs /\ Len(secs) \in Nat /\ Len(log[Current]) \in Nat
    BY <1>1, CurrentFile
  <1>3. Len(secs) \in Lines
    <2>1. log[Current][1].line \in 1..Len(secs) BY <1>1, <1>2, Entries
    <2> QED BY <1>2, <2>1, StreamAssumption DEF Lines, Base, TypeOK
  <1>4. r \in Records BY <1>3 DEF Records
  <1>5. log' = [log EXCEPT ![Current] = Append(@, r)] BY DEF FinishLine
  <1>6. log' \in [Runs -> Seq(Records)]
    <2>1. log \in [Runs -> Seq(Records)] BY DEF Base, TypeOK
    <2> HIDE DEF r
    <2> QED BY <1>2, <1>4, <1>5, <2>1, Appending
  <1>7. UNCHANGED <<begun, up, pod, secs, status, clock>> BY DEF FinishLine
  <1>8. signal' \in {"yes", "no"} /\ excused' \subseteq Lines
    BY <1>3 DEF FinishLine, Signal, Base, TypeOK
  <1>9. UNCHANGED <<source, pc, cancelled, run, pos, seek, partial, watch, since, got,
                    ended, backoff, born, news, content, whole, twice, faults, starts, reread>>
    BY <1>0, ContainerFrame
  <1>10. TypeOK' BY <1>6, <1>7, <1>8, <1>9 DEF Base, TypeOK
  <1>11. r.line <= Len(secs') BY <1>2, <1>7
  <1>12. Placed'
    <2>1. Len(secs') \in Nat /\ Len(secs') >= Len(secs) BY <1>2, <1>7
    <2>2. UNCHANGED <<begun, up, status, source, pc, run, pos>> BY <1>7, <1>9
    <2> HIDE DEF l, r
    <2> QED BY <1>1, <1>4, <1>5, <1>11, <2>1, <2>2, GrowthPlaced
  <1> QED BY <1>10, <1>12 DEF Base

LEMMA ContainerBase ==
    ASSUME Base, Container
    PROVE  Base'
  <1>1. ASSUME NEW as \in {"full", "part", "head"}, WriteLine(as) PROVE Base'
    BY <1>1, WriteLineBase
  <1>2. CASE FinishLine BY <1>2, FinishLineBase
  <1>3. UNCHANGED <<source, pc, cancelled, run, pos, seek, partial, watch, since, got, ended,
                    backoff, born, news, content, whole, twice, faults, starts, reread>>
    BY ContainerFrame
  <1>4. CASE Begin
    <2>1. TypeOK' BY <1>3, <1>4, StreamAssumption DEF Begin, Signal, Base, TypeOK
    <2>2. Placed' BY <1>3, <1>4, StreamAssumption DEF Begin, Base, TypeOK, Placed, Runs
    <2> QED BY <2>1, <2>2 DEF Base
  <1>5. CASE Exit
    BY <1>3, <1>5 DEF Exit, Base, TypeOK, Placed
  <1>6. CASE Report
    <2>1. TypeOK' BY <1>3, <1>6, StreamAssumption DEF Report, containerVars, Current, Base, TypeOK
    <2>2. Placed' BY <1>3, <1>6 DEF Report, containerVars, Current, Base, TypeOK, Placed
    <2> QED BY <2>1, <2>2 DEF Base
  <1>7. CASE PodFinishes
    BY <1>3, <1>7 DEF PodFinishes, Base, TypeOK, Placed
  <1>8. CASE PodGoes
    BY <1>3, <1>8 DEF PodGoes, Base, TypeOK, Placed
  <1>9. CASE Tick
    <2>1. TypeOK' BY <1>3, <1>9, StreamAssumption DEF Tick, containerVars, Base, TypeOK
    <2>2. Placed' BY <1>3, <1>9 DEF Tick, containerVars, Base, Placed
    <2> QED BY <2>1, <2>2 DEF Base
  <1> QED BY <1>1, <1>2, <1>4, <1>5, <1>6, <1>7, <1>8, <1>9 DEF Container

\* The types of what the stream changes.
StreamType ==
    /\ cancelled \in {"yes", "no"}
    /\ pc \in {"start", "open", "read", "eof", "sleep", "stream", "judge", "pause", "ended"}
    /\ run \in 0..MaxRuns /\ pos \in Nat
    /\ seek \in {"yes", "no"} /\ partial \in {0} \cup Lines
    /\ watch \in {"yes", "no"} /\ signal \in {"yes", "no"}
    /\ since \in {None} \cup (0..MaxSecond) /\ got \in {None} \cup (1..MaxSecond)
    /\ ended \in {"eof", "error"} /\ backoff \in 1..MaxBackoff
    /\ born \in 0..MaxSecond /\ news \in {"yes", "no"}

StoreType ==
    /\ content \in {"yes", "no"} /\ whole \subseteq Lines /\ twice \subseteq whole
    /\ faults \in 0..MaxFaults /\ starts \in 0..MaxStarts
    /\ excused \subseteq Lines /\ reread \subseteq Lines

StreamPlace ==
    /\ source = "file" =>
          /\ pc \in {"start", "open", "read", "eof", "sleep", "ended"}
          /\ run = 0 \/ run < begun
          /\ pc \in {"read", "eof", "sleep"} => run < begun /\ pos <= Len(log[run])
          /\ pc \notin {"read", "eof", "sleep"} => pos = 0
    /\ source = "api" /\ pc = "stream" => run < begun /\ pos <= Len(log[run])

LEMMA StreamParts ==
    ASSUME Base, StreamStep \/ Cancel \/ Restart,
           StreamType', StoreType', StreamPlace'
    PROVE  Base'
  <1>1. UNCHANGED <<begun, up, pod, log, secs, status, clock, source>> BY StreamFrame
  <1>2. TypeOK' BY <1>1 DEF Base, TypeOK, StreamType, StoreType
  <1>3. Placed' BY <1>1 DEF Base, Placed, StreamPlace
  <1> QED BY <1>2, <1>3 DEF Base

LEMMA KeepType ==
    ASSUME Base, NEW l \in Lines, Keep(l), UNCHANGED <<starts, reread>>
    PROVE  StoreType'
  <1>1. CASE content' = "yes" /\ whole' = whole \cup {l} /\ twice' = twice \cup ({l} \cap whole)
             /\ UNCHANGED <<faults, excused>>
    BY <1>1 DEF Base, TypeOK, StoreType
  <1>2. CASE Fault /\ excused' = excused \cup {l} /\ UNCHANGED storeVars
    BY <1>2, StreamAssumption DEF Fault, storeVars, Base, TypeOK, StoreType
  <1> QED BY <1>1, <1>2 DEF Keep

LEMMA KeepFragmentType ==
    ASSUME Base, KeepFragment, UNCHANGED <<starts, excused, reread>>
    PROVE  StoreType'
  BY StreamAssumption DEF KeepFragment, Fault, storeVars, Base, TypeOK, StoreType

LEMMA BehindLines == ASSUME Base PROVE \A n : Behind(n) \subseteq Lines
  <1> SUFFICES ASSUME NEW n, NEW l \in Behind(n) PROVE l \in Lines OBVIOUS
  <1>1. PICK m \in Runs : l \in LinesIn(m) BY DEF Behind
  <1>2. PICK i \in 1..Len(log[m]) : l = log[m][i].line BY <1>1 DEF LinesIn
  <1> QED BY <1>2, Entries

LEMMA WrittenLines == ASSUME Base PROVE Written \subseteq Lines
  <1> SUFFICES ASSUME NEW l \in Written PROVE l \in Lines OBVIOUS
  <1>1. PICK m \in Runs : l \in LinesIn(m) BY DEF Written
  <1>2. PICK i \in 1..Len(log[m]) : l = log[m][i].line BY <1>1 DEF LinesIn
  <1> QED BY <1>2, Entries

\* An action that leaves the store alone, but for a fault.
LEMMA StoreKept ==
    ASSUME Base, Fault \/ UNCHANGED faults, UNCHANGED <<storeVars, starts, excused, reread>>
    PROVE  StoreType'
  BY StreamAssumption DEF Fault, storeVars, Base, TypeOK, StoreType

LEMMA ReturnType ==
    ASSUME Base, Return, UNCHANGED <<begun, log, source, cancelled>>
    PROVE  StreamType' /\ StreamPlace'
  BY StreamAssumption DEF Return, Locals, None, Base, TypeOK, StreamType, StreamPlace

LEMMA FileBase ==
    ASSUME Base, FileStep
    PROVE  Base'
  <1>0. StreamStep /\ UNCHANGED <<begun, log, source, status>>
    BY StreamFrame DEF StreamStep
  <1>1. CASE StartTail
    <2>1. StreamType' BY <1>1, StreamAssumption DEF StartTail, apiVars, Base, TypeOK, StreamType
    <2>2. StreamPlace' BY <1>0, <1>1 DEF StartTail, Base, TypeOK, Placed, StreamPlace
    <2>3. StoreType'
      BY <1>1, BehindLines, WrittenLines DEF StartTail, storeVars, Base, TypeOK, StoreType
    <2> QED BY <1>0, <2>1, <2>2, <2>3, StreamParts
  <1>2. CASE OpenFile
    <2>1. run \in Runs BY <1>2, StreamAssumption DEF OpenFile, Base, TypeOK, Runs
    <2>2. Len(log[run]) \in Nat BY <2>1, Entries
    <2>3. StreamType' BY <1>2, <2>2 DEF OpenFile, apiVars, outsideVars, Base, TypeOK, StreamType
    <2>4. StreamPlace'
      BY <1>0, <1>2, <2>2 DEF OpenFile, outsideVars, Base, Placed, StreamPlace
    <2>5. StoreType' BY <1>2 DEF OpenFile, outsideVars, storeVars, Base, TypeOK, StoreType
    <2> QED BY <1>0, <2>3, <2>4, <2>5, StreamParts
  <1>3. CASE OpenFails \/ ReadFails \/ StopTail
    <2>1. Return /\ cancelled' = cancelled
      BY <1>3 DEF OpenFails, ReadFails, StopTail, outsideVars
    <2>2. StreamType' /\ StreamPlace' BY <1>0, <2>1, ReturnType
    <2>3. /\ Fault \/ UNCHANGED faults
          /\ UNCHANGED <<storeVars, starts, excused, reread>>
      BY <1>3 DEF OpenFails, ReadFails, StopTail, outsideVars
    <2> QED BY <1>0, <2>2, <2>3, StoreKept, StreamParts
  <1>4. CASE ReadRecord
    <2> DEFINE i == pos + 1
               r == log[run][i]
    <2>1. /\ source = "file" /\ pc = "read" /\ pc' = "read" /\ pos < Len(log[run])
          /\ run < begun /\ run \in Runs /\ pos \in Nat
      BY <1>4, StreamAssumption DEF ReadRecord, Base, TypeOK, Placed, Runs
    <2>2. Len(log[run]) \in Nat /\ i \in 1..Len(log[run]) BY <2>1, Entries
    <2>3. r.line \in Lines BY <2>1, <2>2, Entries
    <2>4. /\ pos' \in {i, i + 1} /\ pos' <= Len(log[run]) /\ partial' \in {0, r.line}
          /\ UNCHANGED <<outsideVars, pc, run, seek, watch, signal, apiVars>>
      BY <1>4, <2>1, <2>2 DEF ReadRecord
    <2>5. StreamType'
      BY <2>1, <2>3, <2>4 DEF outsideVars, apiVars, Base, TypeOK, StreamType
    <2>6. StreamPlace' BY <1>0, <2>1, <2>4 DEF Base, Placed, StreamPlace
    <2>7. UNCHANGED <<starts, reread>> BY <2>4 DEF outsideVars
    <2>8. \/ Keep(r.line)
          \/ KeepFragment /\ UNCHANGED excused
          \/ UNCHANGED <<storeVars, faults, excused>>
      BY <1>4 DEF ReadRecord
    <2>9. StoreType'
      <3>1. CASE Keep(r.line) BY <2>3, <2>7, <3>1, KeepType
      <3>2. CASE KeepFragment /\ UNCHANGED excused BY <2>7, <3>2, KeepFragmentType
      <3>3. CASE UNCHANGED <<storeVars, faults, excused>> BY <2>7, <3>3, StoreKept
      <3> QED BY <2>8, <3>1, <3>2, <3>3
    <2> QED BY <1>0, <2>5, <2>6, <2>9, StreamParts
  <1>5. CASE ReadEnd
    <2>1. run < begun /\ run \in Runs
      BY <1>5, StreamAssumption DEF ReadEnd, Base, TypeOK, Placed, Runs
    <2>2. Len(log[run]) \in Nat BY <2>1, Entries
    <2>3. StreamType'
      BY <1>5, <2>2 DEF ReadEnd, fileVars, apiVars, outsideVars, Base, TypeOK, StreamType
    <2>4. StreamPlace'
      BY <1>0, <1>5, <2>1, <2>2 DEF ReadEnd, outsideVars, Base, Placed, StreamPlace
    <2>5. StoreType' BY <1>5 DEF ReadEnd, outsideVars, storeVars, Base, TypeOK, StoreType
    <2> QED BY <1>0, <2>3, <2>4, <2>5, StreamParts
  <1>6. CASE Stat
    <2>1. StreamType'
      BY <1>6, StreamAssumption DEF Stat, fileVars, apiVars, outsideVars, Base, TypeOK, StreamType
    <2>2. StreamPlace'
      BY <1>0, <1>6 DEF Stat, outsideVars, Base, TypeOK, Placed, StreamPlace
    <2>3. UNCHANGED <<starts, excused, reread>> BY <1>6 DEF Stat, outsideVars
    <2>4. StoreType'
      <3>1. CASE KeepFragment BY <2>3, <3>1, KeepFragmentType
      <3>2. CASE UNCHANGED <<storeVars, faults>> BY <2>3, <3>2, StoreKept
      <3> QED BY <1>6, <3>1, <3>2 DEF Stat
    <2> QED BY <1>0, <2>1, <2>2, <2>4, StreamParts
  <1>7. CASE Wake
    <2>1. StreamType'
      BY <1>7 DEF Wake, fileVars, apiVars, outsideVars, Base, TypeOK, StreamType
    <2>2. StreamPlace' BY <1>0, <1>7 DEF Wake, outsideVars, Base, Placed, StreamPlace
    <2>3. StoreType' BY <1>7 DEF Wake, outsideVars, storeVars, Base, TypeOK, StoreType
    <2> QED BY <1>0, <2>1, <2>2, <2>3, StreamParts
  <1> QED BY <1>1, <1>2, <1>3, <1>4, <1>5, <1>6, <1>7 DEF FileStep

LEMMA SecsType ==
    ASSUME Base
    PROVE  /\ clock \in Nat /\ Len(secs) \in Nat
           /\ \A l \in 1..Len(secs) : secs[l] \in 1..MaxSecond /\ secs[l] \in Nat
  <1> DEFINE S == 1..MaxSecond
  <1>1. secs \in Seq(S) /\ clock \in Nat /\ Len(secs) \in Nat BY DEF Base, TypeOK
  <1>2. \A l \in 1..Len(secs) : secs[l] \in S
    <2> HIDE DEF S
    <2> QED BY <1>1
  <1> QED BY <1>1, <1>2

LEMMA SecondType ==
    ASSUME Base, NEW n \in Runs, NEW i \in 1..Len(log[n])
    PROVE  Second(n, i) = secs[log[n][i].line] /\ Second(n, i) \in 1..MaxSecond
  <1>1. log[n][i].line \in 1..Len(secs) BY Entries
  <1> QED BY <1>1, SecsType DEF Second

LEMMA ApiBase ==
    ASSUME Base, ApiStep
    PROVE  Base'
  <1>0. /\ StreamStep /\ UNCHANGED <<begun, log, source, status>>
        /\ source = "api" /\ source # "file"
    BY StreamFrame DEF StreamStep, ApiStep, StartApi, Connect, ConnectFails, Receive,
       StreamEnds, Break, BreakInLine, Judge, Resume, StopApi
  <1>1. CASE StartApi
    <2>1. StreamType'
      BY <1>1, StreamAssumption
      DEF StartApi, apiUnchanged, fileVars, outsideVars, Base, TypeOK, StreamType
    <2>2. StreamPlace' BY <1>0, <1>1 DEF StartApi, StreamPlace
    <2>3. StoreType'
      BY <1>1, WrittenLines
      DEF StartApi, apiUnchanged, outsideVars, storeVars, Base, TypeOK, StoreType
    <2> QED BY <1>0, <2>1, <2>2, <2>3, StreamParts
  <1>2. CASE Connect
    <2>1. /\ run' = Current /\ pos' \in 0..Len(log[Current])
          /\ begun > 0 /\ begun \in Nat /\ begun <= MaxRuns
      BY <1>2 DEF Connect, Base, TypeOK
    <2>2. Current \in Runs /\ Current < begun
      BY <2>1, StreamAssumption DEF Current, Runs
    <2>3. Len(log[Current]) \in Nat BY <2>2, Entries
    <2>4. StreamType'
      BY <1>2, <2>1, <2>2, <2>3, StreamAssumption
      DEF Connect, apiUnchanged, fileVars, outsideVars, Base, TypeOK, StreamType, Runs
    <2>5. StreamPlace' BY <1>0, <2>1, <2>2, <2>3 DEF StreamPlace
    <2>6. /\ Fault \/ UNCHANGED faults
          /\ UNCHANGED <<storeVars, starts, excused, reread>>
      BY <1>2 DEF Connect, apiUnchanged, outsideVars
    <2> QED BY <1>0, <2>4, <2>5, <2>6, StoreKept, StreamParts
  <1>3. CASE ConnectFails \/ StreamEnds \/ Break \/ StopApi
    <2>1. StreamType'
      BY <1>3 DEF ConnectFails, StreamEnds, Break, StopApi, apiUnchanged, fileVars,
                  outsideVars, Base, TypeOK, StreamType
    <2>2. pc' = "judge" BY <1>3 DEF ConnectFails, StreamEnds, Break, StopApi
    <2>3. StreamPlace' BY <1>0, <2>2 DEF StreamPlace
    <2>4. /\ Fault \/ UNCHANGED faults
          /\ UNCHANGED <<storeVars, starts, excused, reread>>
      BY <1>3 DEF ConnectFails, StreamEnds, Break, StopApi, apiUnchanged, outsideVars
    <2> QED BY <1>0, <2>1, <2>3, <2>4, StoreKept, StreamParts
  <1>4. CASE Receive
    <2> DEFINE i == pos + 1
               l == log[run][i].line
    <2>1. /\ run < begun /\ run \in Runs /\ pos \in Nat /\ pos < Len(log[run])
      BY <1>0, <1>4, StreamAssumption DEF Receive, Base, TypeOK, Placed, Runs
    <2>2. Len(log[run]) \in Nat /\ i \in 1..Len(log[run]) BY <2>1, Entries
    <2>3. l \in Lines BY <2>1, <2>2, Entries
    <2>4. secs[l] \in 1..MaxSecond BY <2>1, <2>2, SecondType
    <2>5. StreamType'
      BY <1>4, <2>1, <2>4
      DEF Receive, apiUnchanged, fileVars, outsideVars, Base, TypeOK, StreamType
    <2>6. StreamPlace' BY <1>0, <1>4, <2>1, <2>2 DEF Receive, StreamPlace
    <2>7. Keep(l) /\ UNCHANGED <<starts, reread>>
      BY <1>4 DEF Receive, apiUnchanged, outsideVars
    <2>8. StoreType' BY <2>3, <2>7, KeepType
    <2> QED BY <1>0, <2>5, <2>6, <2>8, StreamParts
  <1>5. CASE BreakInLine
    <2>1. /\ run < begun /\ run \in Runs /\ pos \in Nat /\ pos < Len(log[run])
      BY <1>0, <1>5, StreamAssumption DEF BreakInLine, Base, TypeOK, Placed, Runs
    <2>2. Len(log[run]) \in Nat /\ pos + 1 \in 1..Len(log[run]) BY <2>1, Entries
    <2>3. Second(run, pos + 1) \in 1..MaxSecond BY <2>1, <2>2, SecondType
    <2>4. StreamType'
      BY <1>5, <2>3
      DEF BreakInLine, apiUnchanged, fileVars, outsideVars, Base, TypeOK, StreamType
    <2>5. StreamPlace' BY <1>0, <1>5 DEF BreakInLine, StreamPlace
    <2>6. StoreType'
      BY <1>5, WrittenLines, StreamAssumption
      DEF BreakInLine, apiUnchanged, outsideVars, Base, TypeOK, StoreType
    <2> QED BY <1>0, <2>4, <2>5, <2>6, StreamParts
  <1>6. CASE Judge
    <2>1. Return \/ (Between("pause") /\ UNCHANGED born)
      BY <1>6 DEF Judge
    <2>2. cancelled' = cancelled BY <1>6 DEF Judge, outsideVars
    <2>3. StreamType' /\ StreamPlace'
      <3>1. CASE Return BY <1>0, <2>2, <3>1, ReturnType
      <3>2. CASE ~Return
        <4>1. /\ since' \in {since, got} /\ (since' # None \/ since' = since)
              /\ backoff' \in {1, backoff}
              /\ Between("pause") /\ UNCHANGED born
          BY <1>6, <3>2 DEF Judge
        <4>2. StreamType'
          BY <2>2, <4>1, StreamAssumption
          DEF Between, fileVars, Base, TypeOK, StreamType
        <4>3. StreamPlace' BY <1>0, <4>1 DEF Between, StreamPlace
        <4> QED BY <4>2, <4>3
      <3> QED BY <3>1, <3>2
    <2>4. /\ Fault \/ UNCHANGED faults
          /\ UNCHANGED <<storeVars, starts, excused, reread>>
      BY <1>6 DEF Judge, outsideVars
    <2> QED BY <1>0, <2>3, <2>4, StoreKept, StreamParts
  <1>7. CASE Resume
    <2>1. UNCHANGED <<cancelled, storeVars, faults, starts, excused, reread>>
      BY <1>7 DEF Resume, outsideVars
    <2>2. StreamType' /\ StreamPlace'
      <3>1. CASE Return BY <1>0, <2>1, <3>1, ReturnType
      <3>2. CASE ~Return
        <4>1. /\ backoff' = IF backoff * 2 < MaxBackoff THEN backoff * 2 ELSE MaxBackoff
              /\ Between("open") /\ UNCHANGED <<since, born>>
          BY <1>7, <3>2 DEF Resume
        <4>2. backoff' \in 1..MaxBackoff BY <4>1, StreamAssumption DEF Base, TypeOK
        <4>3. StreamType'
          BY <2>1, <4>1, <4>2, StreamAssumption DEF Between, fileVars, Base, TypeOK, StreamType
        <4>4. StreamPlace' BY <1>0, <4>1 DEF Between, StreamPlace
        <4> QED BY <4>3, <4>4
      <3> QED BY <3>1, <3>2
    <2> QED BY <1>0, <2>1, <2>2, StoreKept, StreamParts
  <1> QED BY <1>1, <1>2, <1>3, <1>4, <1>5, <1>6, <1>7 DEF ApiStep

LEMMA NextBase == Base /\ [Next]_vars => Base'
  <1> SUFFICES ASSUME Base, [Next]_vars PROVE Base' OBVIOUS
  <1>1. CASE FileStep BY <1>1, FileBase
  <1>2. CASE ApiStep BY <1>2, ApiBase
  <1>3. CASE Container BY <1>3, ContainerBase
  <1>4. CASE Cancel
    BY <1>4 DEF Cancel, containerVars, fileVars, apiVars, storeVars, Base, TypeOK, Placed
  <1>5. CASE Restart
    <2>1. StreamType' BY <1>5, StreamAssumption DEF Restart, Locals, StreamType, None
    <2>2. StreamPlace' BY <1>5 DEF Restart, Locals, StreamPlace
    <2>3. StoreType' BY <1>5, StreamAssumption DEF Restart, storeVars, Base, TypeOK, StoreType
    <2> QED BY <1>5, <2>1, <2>2, <2>3, StreamParts
  <1>6. CASE UNCHANGED vars
    BY <1>6 DEF vars, containerVars, fileVars, apiVars, storeVars, Base, TypeOK, Placed
  <1> QED BY <1>1, <1>2, <1>3, <1>4, <1>5, <1>6 DEF Next, StreamStep

\* The variables have their types in every reachable state (runFileTail,
\* runAPIStream): the tail has not read more than the file holds, and the
\* backoff stays between c.apiMinBackoff and c.apiMaxBackoff.
THEOREM Typing == Spec => []TypeOK
  <1>1. Base => TypeOK BY DEF Base
  <1> QED BY <1>1, InitBase, NextBase, PTL DEF Spec

-----------------------------------------------------------------------------
(* The order of the lines in the files, their kinds, and their times.      *)

Ends(n, i) == log[n][i].as \in {"full", "rest"}

Order ==
    /\ \A n, m \in Runs : n < m =>
          \A i \in 1..Len(log[n]) : \A j \in 1..Len(log[m]) : log[n][i].line < log[m][j].line
    /\ \A n \in Runs : \A i, j \in 1..Len(log[n]) : i < j =>
          /\ log[n][i].line <= log[n][j].line
          /\ log[n][i].line = log[n][j].line => j = i + 1 /\ ~Ends(n, i)
    /\ \A n \in Runs : \A i, j \in 1..Len(log[n]) : j = i + 1 /\ ~Ends(n, i) =>
          log[n][j].line = log[n][i].line /\ Ends(n, j)
    /\ begun > 0 /\ Open => log[Current][Len(log[Current])].line = Len(secs)

Kinds ==
    \A n \in Runs : \A i \in 1..Len(log[n]) :
        /\ log[n][i].as \in {"head", "rest"} => log[n][i].line \in excused
        /\ source = "api" => log[n][i].as = "full"

Sorted ==
    /\ \A l \in 1..Len(secs) : secs[l] <= clock
    /\ \A k, l \in 1..Len(secs) : k <= l => secs[k] <= secs[l]

Structure == Order /\ Kinds /\ Sorted

LEMMA InitStructure == Init => Structure
  <1> SUFFICES ASSUME Init PROVE Structure OBVIOUS
  <1>1. /\ \A n \in Runs : log[n] = <<>>
        /\ secs = <<>> /\ begun = 0
    BY DEF Init
  <1>2. Order BY <1>1 DEF Order
  <1>3. Kinds BY <1>1 DEF Kinds
  <1>4. Sorted BY <1>1 DEF Sorted
  <1> QED BY <1>2, <1>3, <1>4 DEF Structure

LEMMA StructureKept ==
    ASSUME Base, Structure, UNCHANGED <<begun, log, secs, source>>,
           excused \subseteq excused', clock' \in Nat, clock' >= clock
    PROVE  Structure'
  <1>1. Order' BY DEF Structure, Order, Ends, Open, Current
  <1>2. Kinds' BY DEF Structure, Kinds
  <1>3. Sorted'
    <2>1. \A l \in 1..Len(secs) : secs[l] \in Nat /\ clock \in Nat BY SecsType
    <2> QED BY <2>1 DEF Structure, Sorted
  <1> QED BY <1>1, <1>2, <1>3 DEF Structure

\* The files after a record has been appended to the current one.
LEMMA Grown ==
    ASSUME Base, up = "yes", NEW r \in Records,
           log' = [log EXCEPT ![Current] = Append(@, r)]
    PROVE  /\ \A n \in Runs :
                 /\ Len(log'[n]) \in Nat /\ Len(log[n]) \in Nat
                 /\ Len(log'[n]) = IF n = Current THEN Len(log[n]) + 1 ELSE Len(log[n])
           /\ \A n \in Runs : \A i \in 1..Len(log[n]) : log'[n][i] = log[n][i]
           /\ log'[Current][Len(log[Current]) + 1] = r
           /\ \A n \in Runs : \A i \in 1..Len(log'[n]) :
                 \/ i \in 1..Len(log[n])
                 \/ n = Current /\ i = Len(log[n]) + 1 /\ i = Len(log'[n]) /\ log'[n][i] = r
  <1>1. Current \in Runs BY CurrentFile
  <1>2. /\ log' \in [Runs -> Seq(Records)]
        /\ Len(log'[Current]) = Len(log[Current]) + 1
        /\ \A i \in 1..Len(log[Current]) : log'[Current][i] = log[Current][i]
        /\ log'[Current][Len(log[Current]) + 1] = r
        /\ \A n \in Runs : n # Current => log'[n] = log[n]
    <2>1. log \in [Runs -> Seq(Records)] BY DEF Base, TypeOK
    <2> QED BY <1>1, <2>1, Appending
  <1>3. \A n \in Runs :
          /\ Len(log'[n]) \in Nat /\ Len(log[n]) \in Nat
          /\ Len(log'[n]) = IF n = Current THEN Len(log[n]) + 1 ELSE Len(log[n])
    <2> SUFFICES ASSUME NEW n \in Runs
                 PROVE  /\ Len(log'[n]) \in Nat /\ Len(log[n]) \in Nat
                        /\ Len(log'[n]) = IF n = Current THEN Len(log[n]) + 1 ELSE Len(log[n])
      OBVIOUS
    <2>1. Len(log[n]) \in Nat BY Entries
    <2> QED BY <1>2, <2>1
  <1>4. \A n \in Runs : \A i \in 1..Len(log[n]) : log'[n][i] = log[n][i] BY <1>2
  <1>5. \A n \in Runs : \A i \in 1..Len(log'[n]) :
          \/ i \in 1..Len(log[n])
          \/ n = Current /\ i = Len(log[n]) + 1 /\ i = Len(log'[n]) /\ log'[n][i] = r
    <2> SUFFICES ASSUME NEW n \in Runs, NEW i \in 1..Len(log'[n]), i \notin 1..Len(log[n])
                 PROVE  /\ n = Current /\ i = Len(log[n]) + 1 /\ i = Len(log'[n])
                        /\ log'[n][i] = r
      OBVIOUS
    <2>1. n = Current BY <1>3
    <2>2. i = Len(log[n]) + 1 /\ i = Len(log'[n]) BY <1>3, <2>1
    <2> QED BY <1>2, <2>1, <2>2
  <1> QED BY <1>2, <1>3, <1>4, <1>5

LEMMA GrowthOrder ==
    ASSUME Base, Order, up = "yes", NEW r \in Records,
           log' = [log EXCEPT ![Current] = Append(@, r)], begun' = begun,
           r.line = Len(secs'),
           \A n \in Runs : n < Current => \A i \in 1..Len(log[n]) : log[n][i].line < r.line,
           \A i \in 1..Len(log[Current]) :
              /\ log[Current][i].line <= r.line
              /\ log[Current][i].line = r.line => i = Len(log[Current]) /\ ~Ends(Current, i),
           \A i \in 1..Len(log[Current]) : i = Len(log[Current]) /\ ~Ends(Current, i) =>
              log[Current][i].line = r.line /\ r.as \in {"full", "rest"}
    PROVE  Order'
  <1>0. /\ begun > 0 /\ begun \in Nat /\ Current = begun - 1 /\ Current \in Runs
        /\ Current' = Current /\ Len(log[Current]) \in Nat
    BY CurrentFile DEF Current
  <1>1. /\ \A n \in Runs :
              /\ Len(log'[n]) \in Nat /\ Len(log[n]) \in Nat
              /\ Len(log'[n]) = IF n = Current THEN Len(log[n]) + 1 ELSE Len(log[n])
        /\ \A n \in Runs : \A i \in 1..Len(log[n]) : log'[n][i] = log[n][i]
        /\ log'[Current][Len(log[Current]) + 1] = r
        /\ \A n \in Runs : \A i \in 1..Len(log'[n]) :
              \/ i \in 1..Len(log[n])
              \/ n = Current /\ i = Len(log[n]) + 1 /\ i = Len(log'[n]) /\ log'[n][i] = r
    BY Grown
  <1>2. \A n, m \in Runs : n < m =>
          \A i \in 1..Len(log'[n]) : \A j \in 1..Len(log'[m]) : log'[n][i].line < log'[m][j].line
    <2> SUFFICES ASSUME NEW n \in Runs, NEW m \in Runs, n < m,
                        NEW i \in 1..Len(log'[n]), NEW j \in 1..Len(log'[m])
                 PROVE  log'[n][i].line < log'[m][j].line
      OBVIOUS
    <2>1. m <= Current
      <3>1. CASE m > Current
        <4>1. m >= begun BY <1>0, <3>1 DEF Runs
        <4>2. log[m] = <<>> BY <4>1 DEF Base, Placed
        <4>3. Len(log'[m]) = 0 BY <1>0, <1>1, <3>1, <4>2
        <4> QED BY <4>3
      <3> QED BY <1>0, <3>1 DEF Runs
    <2>2. i \in 1..Len(log[n]) /\ log'[n][i] = log[n][i] /\ n < Current
      BY <1>0, <1>1, <2>1 DEF Runs
    <2>3. CASE j \in 1..Len(log[m])
      <3>1. log'[m][j] = log[m][j] BY <1>1, <2>3
      <3>2. log[n][i].line < log[m][j].line BY <2>2, <2>3 DEF Order
      <3> QED BY <2>2, <3>1, <3>2
    <2>4. CASE j \notin 1..Len(log[m])
      <3>1. log'[m][j] = r BY <1>1, <2>4
      <3>2. log[n][i].line < r.line BY <2>2
      <3> QED BY <2>2, <3>1, <3>2
    <2> QED BY <2>3, <2>4
  <1>3. \A n \in Runs : \A i, j \in 1..Len(log'[n]) : i < j =>
          /\ log'[n][i].line <= log'[n][j].line
          /\ log'[n][i].line = log'[n][j].line =>
                j = i + 1 /\ log'[n][i].as \notin {"full", "rest"}
    <2> SUFFICES ASSUME NEW n \in Runs, NEW i \in 1..Len(log'[n]), NEW j \in 1..Len(log'[n]),
                        i < j
                 PROVE  /\ log'[n][i].line <= log'[n][j].line
                        /\ log'[n][i].line = log'[n][j].line =>
                              j = i + 1 /\ log'[n][i].as \notin {"full", "rest"}
      OBVIOUS
    <2>1. i \in 1..Len(log[n]) /\ log'[n][i] = log[n][i] BY <1>1
    <2>2. CASE j \in 1..Len(log[n]) BY <1>1, <2>1, <2>2 DEF Order, Ends
    <2>3. CASE j \notin 1..Len(log[n])
      <3>1. n = Current /\ j = Len(log[n]) + 1 /\ log'[n][j] = r BY <1>1, <2>3
      <3>2. /\ log[Current][i].line <= r.line
            /\ log[Current][i].line = r.line => i = Len(log[Current]) /\ ~Ends(Current, i)
        BY <2>1, <3>1
      <3> QED BY <2>1, <3>1, <3>2 DEF Ends
    <2> QED BY <2>2, <2>3
  <1>4. \A n \in Runs : \A i, j \in 1..Len(log'[n]) :
          j = i + 1 /\ log'[n][i].as \notin {"full", "rest"} =>
             log'[n][j].line = log'[n][i].line /\ log'[n][j].as \in {"full", "rest"}
    <2> SUFFICES ASSUME NEW n \in Runs, NEW i \in 1..Len(log'[n]), NEW j \in 1..Len(log'[n]),
                        j = i + 1, log'[n][i].as \notin {"full", "rest"}
                 PROVE  log'[n][j].line = log'[n][i].line /\ log'[n][j].as \in {"full", "rest"}
      OBVIOUS
    <2>1. i \in 1..Len(log[n]) /\ log'[n][i] = log[n][i] BY <1>1
    <2>2. CASE j \in 1..Len(log[n])
      <3>1. log'[n][j] = log[n][j] BY <1>1, <2>2
      <3> QED BY <2>1, <2>2, <3>1 DEF Order, Ends
    <2>3. CASE j \notin 1..Len(log[n])
      <3>1. n = Current /\ j = Len(log[n]) + 1 /\ log'[n][j] = r BY <1>1, <2>3
      <3>2. i = Len(log[Current]) /\ ~Ends(Current, i) BY <1>0, <2>1, <3>1 DEF Ends
      <3> QED BY <2>1, <3>1, <3>2
    <2> QED BY <2>2, <2>3
  <1>5. log'[Current][Len(log'[Current])].line = Len(secs') BY <1>0, <1>1
  <1> QED BY <1>0, <1>2, <1>3, <1>4, <1>5 DEF Order, Ends, Open

LEMMA WriteLineStructure ==
    ASSUME Base, Structure, NEW as \in {"full", "part", "head"}, WriteLine(as)
    PROVE  Structure'
  <1> DEFINE r == [line |-> Len(secs) + 1, as |-> as]
  <1>1. /\ up = "yes" /\ ~Open /\ begun' = begun /\ clock' = clock /\ source' = source
        /\ log' = [log EXCEPT ![Current] = Append(@, r)]
        /\ secs' = Append(secs, clock) /\ excused \subseteq excused'
        /\ as = "head" => Len(secs) + 1 \in excused'
        /\ source = "api" => as = "full"
        /\ Len(secs) + 1 <= MaxLines
    BY DEF WriteLine, streamVars
  <1>2. /\ Current \in Runs /\ Len(log[Current]) \in Nat /\ Len(secs) \in Nat
    BY <1>1, CurrentFile
  <1>3. r \in Records /\ r.line = Len(secs) + 1 /\ r.as = as
    <2>1. Len(secs) + 1 \in Lines BY <1>1, <1>2, StreamAssumption DEF Lines
    <2> QED BY <2>1 DEF Records
  <1>4. Len(secs') = Len(secs) + 1 /\ secs'[Len(secs) + 1] = clock
        /\ \A l \in 1..Len(secs) : secs'[l] = secs[l]
    BY <1>1 DEF Base, TypeOK
  <1>5. \A n \in Runs : \A i \in 1..Len(log[n]) : log[n][i].line < r.line
    <2> SUFFICES ASSUME NEW n \in Runs, NEW i \in 1..Len(log[n])
                 PROVE  log[n][i].line < r.line
      OBVIOUS
    <2>1. log[n][i].line \in 1..Len(secs) BY Entries
    <2> QED BY <1>2, <1>3, <2>1
  <1>6. \A i \in 1..Len(log[Current]) : ~(i = Len(log[Current]) /\ ~Ends(Current, i))
    <2> SUFFICES ASSUME NEW i \in 1..Len(log[Current]), i = Len(log[Current])
                 PROVE  Ends(Current, i)
      OBVIOUS
    <2>1. log[Current][i].as \in {"full", "part", "head", "rest"} BY <1>2, Entries
    <2> QED BY <1>1, <1>2, <2>1 DEF Open, Ends
  <1>7. \A i \in 1..Len(log[Current]) : log[Current][i].line # r.line
                                        /\ log[Current][i].line <= r.line
    <2> SUFFICES ASSUME NEW i \in 1..Len(log[Current])
                 PROVE  log[Current][i].line # r.line /\ log[Current][i].line <= r.line
      OBVIOUS
    <2>1. log[Current][i].line \in 1..Len(secs) BY <1>2, Entries
    <2> QED BY <1>2, <1>3, <2>1
  <1>8. Order'
    <2>1. r.line = Len(secs') BY <1>3, <1>4
    <2>2. Order BY DEF Structure
    <2> HIDE DEF r
    <2> QED BY <1>1, <1>3, <1>5, <1>6, <1>7, <2>1, <2>2, GrowthOrder
  <1>9. Kinds'
    <2> SUFFICES ASSUME NEW n \in Runs, NEW i \in 1..Len(log'[n])
                 PROVE  /\ log'[n][i].as \in {"head", "rest"} => log'[n][i].line \in excused'
                        /\ source' = "api" => log'[n][i].as = "full"
      BY DEF Kinds
    <2>1. \/ i \in 1..Len(log[n]) /\ log'[n][i] = log[n][i]
          \/ log'[n][i] = r
      <3> HIDE DEF r
      <3> QED BY <1>1, <1>3, Grown
    <2>2. CASE i \in 1..Len(log[n]) /\ log'[n][i] = log[n][i]
      BY <1>1, <2>2 DEF Structure, Kinds
    <2>3. CASE log'[n][i] = r BY <1>1, <1>3, <2>3
    <2> QED BY <2>1, <2>2, <2>3
  <1>10. Sorted'
    <2>1. /\ clock \in Nat /\ \A l \in 1..Len(secs) : secs[l] \in Nat /\ secs[l] <= clock
          /\ \A k, l \in 1..Len(secs) : k <= l => secs[k] <= secs[l]
      BY SecsType DEF Structure, Sorted
    <2>2. \A l \in 1..Len(secs') : l \in 1..Len(secs) \/ l = Len(secs) + 1
      BY <1>2, <1>4
    <2>3. \A l \in 1..Len(secs') : secs'[l] <= clock /\ secs'[l] \in Nat
      BY <1>4, <2>1, <2>2
    <2>4. \A k, l \in 1..Len(secs') : k <= l => secs'[k] <= secs'[l]
      <3> SUFFICES ASSUME NEW k \in 1..Len(secs'), NEW l \in 1..Len(secs'), k <= l
                   PROVE  secs'[k] <= secs'[l]
        OBVIOUS
      <3>1. CASE l = Len(secs) + 1 BY <1>4, <2>3, <3>1
      <3>2. CASE l # Len(secs) + 1
        <4>1. l \in 1..Len(secs) /\ k \in 1..Len(secs) BY <1>2, <1>4, <3>2
        <4> QED BY <1>4, <2>1, <4>1
      <3> QED BY <3>1, <3>2
    <2> QED BY <1>1, <2>3, <2>4 DEF Sorted
  <1> QED BY <1>8, <1>9, <1>10 DEF Structure

LEMMA FinishLineStructure ==
    ASSUME Base, Structure, FinishLine
    PROVE  Structure'
  <1> DEFINE N == Len(log[Current])
             r == [line |-> Len(secs),
                   as |-> IF log[Current][N].as = "head" THEN "rest" ELSE "full"]
  <1>1. /\ up = "yes" /\ Open /\ UNCHANGED <<begun, secs, clock, source>>
        /\ log' = [log EXCEPT ![Current] = Append(@, r)]
        /\ excused \subseteq excused'
    BY DEF FinishLine, streamVars
  <1>2. /\ Current \in Runs /\ N \in Nat /\ Len(secs) \in Nat /\ begun > 0
    BY <1>1, CurrentFile
  <1>3. /\ N \in 1..N /\ log[Current][N].as \in {"part", "head"} /\ ~Ends(Current, N)
        /\ log[Current][N].line = Len(secs)
    BY <1>1, <1>2 DEF Open, Ends, Structure, Order
  <1>4. r.line = Len(secs) /\ r.as \in {"full", "rest"}
        /\ r.as = "rest" => log[Current][N].as = "head"
    OBVIOUS
  <1>10. r \in Records
    <2>1. log[Current][N].line \in Lines BY <1>2, <1>3, Entries
    <2>2. Len(secs) \in Lines BY <1>3, <2>1
    <2> QED BY <2>2 DEF Records
  <1>5. \A n \in Runs : n < Current => \A i \in 1..Len(log[n]) : log[n][i].line < r.line
    BY SMTT(30), <1>2, <1>3, <1>4 DEF Structure, Order
  <1>6. \A i \in 1..Len(log[Current]) :
          /\ log[Current][i].line <= r.line
          /\ log[Current][i].line = r.line => i = Len(log[Current]) /\ ~Ends(Current, i)
    <2> SUFFICES ASSUME NEW i \in 1..N
                 PROVE  /\ log[Current][i].line <= r.line
                        /\ log[Current][i].line = r.line => i = N /\ ~Ends(Current, i)
      OBVIOUS
    <2>1. log[Current][i].line \in 1..Len(secs) BY <1>2, Entries
    <2>2. CASE i = N BY <1>3, <1>4, <2>1, <2>2
    <2>3. CASE i # N
      <3>1. i < N BY <1>2, <2>3
      <3>2. log[Current][i].line = log[Current][N].line =>
               N = i + 1 /\ ~Ends(Current, i)
        BY <1>2, <1>3, <3>1 DEF Structure, Order
      <3>3. N = i + 1 /\ ~Ends(Current, i) => Ends(Current, N)
        BY <1>2, <1>3 DEF Structure, Order
      <3> QED BY <1>2, <1>3, <1>4, <2>1, <3>2, <3>3
    <2> QED BY <2>2, <2>3
  <1>7. Order'
    <2>1. r.line = Len(secs') BY <1>1, <1>4
    <2>2. Order BY DEF Structure
    <2>3. \A i \in 1..Len(log[Current]) : i = Len(log[Current]) /\ ~Ends(Current, i) =>
              log[Current][i].line = r.line /\ r.as \in {"full", "rest"}
      BY <1>3, <1>4
    <2>4. up = "yes" /\ begun' = begun BY <1>1
    <2>5. log' = [log EXCEPT ![Current] = Append(@, r)] BY <1>1
    <2> HIDE DEF N, r
    <2> QED BY <1>5, <1>6, <2>1, <2>2, <2>3, <1>10, <2>4, <2>5, GrowthOrder
  <1>8. Kinds'
    <2>0. source # "api" /\ (log[Current][N].as = "head" => Len(secs) \in excused)
      BY <1>2, <1>3 DEF Structure, Kinds
    <2> SUFFICES ASSUME NEW n \in Runs, NEW i \in 1..Len(log'[n])
                 PROVE  log'[n][i].as \in {"head", "rest"} => log'[n][i].line \in excused'
      BY <1>1, <2>0 DEF Kinds
    <2>1. \/ i \in 1..Len(log[n]) /\ log'[n][i] = log[n][i]
          \/ log'[n][i] = r
      <3> HIDE DEF r
      <3> QED BY <1>1, <1>10, Grown
    <2>2. CASE i \in 1..Len(log[n]) /\ log'[n][i] = log[n][i]
      BY <1>1, <2>2 DEF Structure, Kinds
    <2>3. CASE log'[n][i] = r BY <1>1, <1>4, <2>0, <2>3
    <2> QED BY <2>1, <2>2, <2>3
  <1>9. Sorted' BY <1>1 DEF Structure, Sorted
  <1> QED BY <1>7, <1>8, <1>9 DEF Structure

LEMMA NextStructure == Base /\ Structure /\ [Next]_vars => Structure'
  <1> SUFFICES ASSUME Base, Structure, [Next]_vars PROVE Structure' OBVIOUS
  <1>0. clock \in Nat BY SecsType
  <1>1. CASE StreamStep \/ Cancel \/ Restart
    BY <1>0, <1>1, StreamFrame, StructureKept
  <1>2. ASSUME NEW as \in {"full", "part", "head"}, WriteLine(as) PROVE Structure'
    BY <1>2, WriteLineStructure
  <1>3. CASE FinishLine BY <1>3, FinishLineStructure
  <1>4. CASE Begin
    <2>1. /\ UNCHANGED <<log, secs, clock, source, excused>> /\ begun' = begun + 1
          /\ begun < MaxRuns
      BY <1>4 DEF Begin, streamVars
    <2>2. Current' \in Runs /\ log[Current'] = <<>> /\ log'[Current'] = <<>>
      BY <2>1, StreamAssumption DEF Current, Runs, Base, TypeOK, Placed
    <2>3. ~Open' BY <2>2 DEF Open
    <2>4. Order' BY <2>1, <2>3 DEF Structure, Order, Ends
    <2>5. Kinds' BY <2>1 DEF Structure, Kinds
    <2>6. Sorted' BY <2>1 DEF Structure, Sorted
    <2> QED BY <2>4, <2>5, <2>6 DEF Structure
  <1>5. CASE Exit \/ Report \/ PodFinishes \/ PodGoes \/ Tick
    <2>1. /\ UNCHANGED <<begun, log, secs, source, excused>>
          /\ clock' = clock \/ clock' = clock + 1
      BY <1>5 DEF Exit, Report, PodFinishes, PodGoes, Tick, streamVars, containerVars
    <2> QED BY <1>0, <2>1, StructureKept
  <1>6. CASE UNCHANGED vars
    <2>1. UNCHANGED <<begun, log, secs, source, clock, excused>>
      BY <1>6 DEF vars, containerVars
    <2> QED BY <1>0, <2>1, StructureKept
  <1> QED BY <1>1, <1>2, <1>3, <1>4, <1>5, <1>6 DEF Next, Container

-----------------------------------------------------------------------------
(* What the stream has passed is stored, or excused.                       *)

Safe(l) == l \in whole \cup excused

FilePast ==
    source = "file" =>
        /\ \A n \in Runs : \A i \in 1..Len(log[n]) :
              Ends(n, i) /\ (n < run \/ (n = run /\ i <= pos)) => Safe(log[n][i].line)
        /\ \A n \in Runs : \A i \in 1..Len(log[n]) :
              n = run /\ pc = "open" /\ seek = "yes" => log[n][i].line \in excused
        /\ \A n \in Runs : \A i \in 1..Len(log[n]) :
              n = run /\ pc = "eof" /\ i > pos => log[n][i].line \in excused
        /\ \A n \in Runs : \A i \in 1..Len(log[n]) :
              n = run /\ i = pos /\ partial = 0 /\ log[n][i].as = "part" =>
                  log[n][i].line \in excused
        /\ pc \in {"read", "eof", "sleep"} => seek = "no"

Old(t) == \A n \in Runs : n = Current =>
              \A i \in 1..Len(log[n]) : Second(n, i) < t => Safe(log[n][i].line)

ApiPast ==
    source = "api" =>
        /\ since <= clock /\ got <= clock
        /\ Old(since) /\ Old(got)
        /\ pc = "stream" => \A i \in 1..Len(log[run]) : i <= pos => Safe(log[run][i].line)

Past == FilePast /\ ApiPast

LEMMA InitPast == Init => Past
  <1> SUFFICES ASSUME Init PROVE Past OBVIOUS
  <1>1. /\ \A n \in Runs : log[n] = <<>>
        /\ run = 0 /\ pc = "start" /\ since = -1 /\ got = -1 /\ clock = 1
    BY DEF Init, None
  <1>2. FilePast BY <1>1 DEF FilePast
  <1>3. ApiPast BY <1>1 DEF ApiPast, Old
  <1> QED BY <1>2, <1>3 DEF Past

\* The tail when the container writes.
LEMMA GrowthFilePast ==
    ASSUME Base, FilePast, source = "file", up = "yes", NEW r \in Records,
           log' = [log EXCEPT ![Current] = Append(@, r)],
           UNCHANGED <<source, pc, run, pos, seek, partial, whole>>,
           excused \subseteq excused',
           Missable(Current) => r.line \in excused'
    PROVE  FilePast'
  <1>1. /\ begun > 0 /\ begun \in Nat /\ Current = begun - 1 /\ Current \in Runs
    BY CurrentFile
  <1>2. /\ \A n \in Runs :
              /\ Len(log'[n]) \in Nat /\ Len(log[n]) \in Nat
              /\ Len(log'[n]) = IF n = Current THEN Len(log[n]) + 1 ELSE Len(log[n])
        /\ \A n \in Runs : \A i \in 1..Len(log[n]) : log'[n][i] = log[n][i]
        /\ \A n \in Runs : \A i \in 1..Len(log'[n]) :
              \/ i \in 1..Len(log[n])
              \/ n = Current /\ i = Len(log[n]) + 1 /\ i = Len(log'[n]) /\ log'[n][i] = r
    BY Grown
  <1>3. run \in Nat /\ pos \in Nat /\ ~(Current < run)
        /\ (Current = run => pos <= Len(log[Current]))
    BY <1>1, <1>2 DEF Base, TypeOK, Placed
  <1>4. \A n \in Runs : \A i \in 1..Len(log'[n]) :
          i \notin 1..Len(log[n]) =>
             /\ n = Current /\ log'[n][i] = r
             /\ ~(n < run) /\ ~(n = run /\ i <= pos)
    <2> SUFFICES ASSUME NEW n \in Runs, NEW i \in 1..Len(log'[n]), i \notin 1..Len(log[n])
                 PROVE  /\ n = Current /\ log'[n][i] = r
                        /\ ~(n < run) /\ ~(n = run /\ i <= pos)
      OBVIOUS
    <2>1. n = Current /\ i = Len(log[n]) + 1 /\ log'[n][i] = r BY <1>2
    <2> QED BY <1>2, <1>3, <2>1
  <1>5. \A n \in Runs : \A i \in 1..Len(log'[n]) :
          /\ log'[n][i].as \in {"full", "rest"} /\ (n < run \/ (n = run /\ i <= pos))
          => log'[n][i].line \in whole' \cup excused'
    BY <1>2, <1>4 DEF FilePast, Safe, Ends
  <1>6. \A n \in Runs : \A i \in 1..Len(log'[n]) :
          n = run /\ pc = "open" /\ seek = "yes" => log'[n][i].line \in excused'
    BY <1>2, <1>4 DEF FilePast, Missable
  <1>7. \A n \in Runs : \A i \in 1..Len(log'[n]) :
          n = run /\ pc = "eof" /\ i > pos => log'[n][i].line \in excused'
    BY <1>2, <1>4 DEF FilePast, Missable
  <1>8. \A n \in Runs : \A i \in 1..Len(log'[n]) :
          n = run /\ i = pos /\ partial = 0 /\ log'[n][i].as = "part" =>
             log'[n][i].line \in excused'
    <2> SUFFICES ASSUME NEW n \in Runs, NEW i \in 1..Len(log'[n]), n = run, i = pos,
                        partial = 0, log'[n][i].as = "part"
                 PROVE  log'[n][i].line \in excused'
      OBVIOUS
    <2>1. i \in 1..Len(log[n]) BY <1>3, <1>4
    <2> QED BY <1>2, <2>1 DEF FilePast
  <1> QED BY <1>5, <1>6, <1>7, <1>8 DEF FilePast, Safe, Ends

LEMMA ContainerFilePast ==
    ASSUME Base, FilePast, source = "file", Container
    PROVE  FilePast'
  <1>0. /\ UNCHANGED <<source, pc, run, pos, seek, partial, whole>>
        /\ excused \subseteq excused'
    BY ContainerFrame
  <1>1. ASSUME NEW as \in {"full", "part", "head"}, WriteLine(as) PROVE FilePast'
    <2> DEFINE r == [line |-> Len(secs) + 1, as |-> as]
    <2>1. /\ up = "yes" /\ Len(secs) + 1 <= MaxLines
          /\ Missable(Current) => r.line \in excused'
      BY <1>1 DEF WriteLine
    <2>2. log' = [log EXCEPT ![Current] = Append(@, r)] BY <1>1 DEF WriteLine
    <2>3. r \in Records
      <3>1. Len(secs) + 1 \in Lines BY <2>1, CurrentFile, StreamAssumption DEF Lines
      <3> QED BY <3>1 DEF Records
    <2> HIDE DEF r
    <2> QED BY <1>0, <2>1, <2>2, <2>3, GrowthFilePast
  <1>2. CASE FinishLine
    <2> DEFINE r == [line |-> Len(secs),
                     as |-> IF log[Current][Len(log[Current])].as = "head"
                            THEN "rest" ELSE "full"]
    <2>1. /\ up = "yes" /\ Len(log[Current]) > 0
          /\ Missable(Current) => r.line \in excused'
      BY <1>2 DEF FinishLine, Open
    <2>2. log' = [log EXCEPT ![Current] = Append(@, r)] BY <1>2 DEF FinishLine
    <2>3. r \in Records
      <3>1. Current \in Runs /\ Len(log[Current]) \in Nat BY <2>1, CurrentFile
      <3>2. /\ log[Current][1].line \in Lines /\ log[Current][1].line <= Len(secs)
            /\ Len(secs) \in Nat
        BY <2>1, <3>1, Entries, SecsType
      <3>3. Len(secs) \in Lines BY <3>2, StreamAssumption DEF Lines, Base, TypeOK
      <3> QED BY <3>3 DEF Records
    <2> HIDE DEF r
    <2> QED BY <1>0, <2>1, <2>2, <2>3, GrowthFilePast
  <1>3. CASE Begin \/ Exit \/ Report \/ PodFinishes \/ PodGoes \/ Tick
    <2>1. log' = log
      BY <1>3 DEF Begin, Exit, Report, PodFinishes, PodGoes, Tick, containerVars
    <2> QED BY <1>0, <2>1 DEF FilePast, Safe, Ends
  <1> QED BY <1>1, <1>2, <1>3 DEF Container

LEMMA KeepSafe == ASSUME NEW l, Keep(l) PROVE l \in whole' \cup excused'
  BY DEF Keep

LEMMA StartTailPast ==
    ASSUME Base, StartTail
    PROVE  FilePast'
  <1>1. /\ log' = log /\ run' = status /\ pos' = 0 /\ pc' = "open" /\ seek' = content
        /\ excused' = excused \cup (IF content = "yes" THEN Written ELSE Behind(status))
    BY StreamFrame DEF StartTail, StreamStep, FileStep
  <1>2. \A n \in Runs : \A i \in 1..Len(log[n]) :
          /\ log[n][i].line \in Written
          /\ n < status => log[n][i].line \in Behind(status)
    BY DEF Written, Behind, LinesIn
  <1> QED BY <1>1, <1>2 DEF FilePast, Safe

LEMMA ReadRecordPast ==
    ASSUME Base, Order, Kinds, FilePast, ReadRecord
    PROVE  FilePast'
  <1> DEFINE k == pos + 1
             r == log[run][k]
  <1>1. /\ source = "file" /\ pc = "read" /\ pc' = "read" /\ pos < Len(log[run])
        /\ run < begun /\ run \in Runs /\ pos \in Nat
        /\ run' = run /\ seek' = seek
    BY StreamAssumption DEF ReadRecord, Base, TypeOK, Placed, Runs
  <1>2. /\ log' = log /\ source' = source
        /\ excused \subseteq excused' /\ whole \subseteq whole'
    BY StreamFrame DEF StreamStep, FileStep
  <1>3. Len(log[run]) \in Nat /\ k \in 1..Len(log[run]) BY <1>1, Entries
  <1>4. r.line \in Lines /\ r.line # 0
    <2>1. r.line \in Lines BY <1>1, <1>3, Entries
    <2> QED BY <2>1, StreamAssumption DEF Lines
  <1>5. ASSUME pos' \in 1..Len(log[run]), pos' >= k,
               \A i \in 1..Len(log[run]) : i >= k /\ i <= pos' /\ Ends(run, i) =>
                   log[run][i].line \in whole' \cup excused',
               partial' = 0 => log[run][pos'].as # "part"
        PROVE  FilePast'
    <2>1. \A n \in Runs : \A i \in 1..Len(log[n]) :
            Ends(n, i) /\ (n < run \/ (n = run /\ i <= pos')) =>
               log[n][i].line \in whole' \cup excused'
      <3> SUFFICES ASSUME NEW n \in Runs, NEW i \in 1..Len(log[n]), Ends(n, i),
                          n < run \/ (n = run /\ i <= pos')
                   PROVE  log[n][i].line \in whole' \cup excused'
        OBVIOUS
      <3>1. CASE n < run \/ (n = run /\ i <= pos)
        BY <1>1, <1>2, <3>1 DEF FilePast, Safe
      <3>2. CASE n = run /\ i >= k
        <4>1. i <= pos' BY <1>1, <3>2 DEF Runs
        <4> QED BY <1>5, <3>2, <4>1 DEF Ends
      <3> QED BY <1>1, <3>1, <3>2
    <2> QED BY <1>1, <1>2, <1>5, <2>1 DEF FilePast, Safe, Ends
  <1>6. CASE r.as = "full"
    <2>1. /\ pos' = k /\ partial' = 0
          /\ IF Assembled(k) THEN Keep(r.line) ELSE KeepFragment /\ UNCHANGED excused
      BY <1>6 DEF ReadRecord
    <2>2. r.line \in whole' \cup excused'
      <3>1. CASE Assembled(k) BY <2>1, <3>1, KeepSafe
      <3>2. CASE ~Assembled(k)
        <4>1. /\ partial = 0 /\ pos \in 1..Len(log[run]) /\ k = pos + 1
              /\ log[run][pos].as = "part"
          BY <1>1, <1>3, <3>2 DEF Assembled
        <4>2. log[run][pos].line \in excused BY <1>1, <4>1 DEF FilePast
        <4>3. ~Ends(run, pos) BY <4>1 DEF Ends
        <4>4. log[run][k].line = log[run][pos].line
          BY <1>1, <1>3, <4>1, <4>3 DEF Order
        <4> QED BY <1>2, <4>2, <4>4
      <3> QED BY <3>1, <3>2
    <2>3. \A i \in 1..Len(log[run]) : i >= k /\ i <= pos' => i = k BY <1>1, <2>1
    <2> QED BY <1>3, <1>5, <1>6, <2>1, <2>2, <2>3
  <1>7. CASE r.as = "part"
    <2>1. pos' = k /\ partial' = r.line BY <1>7 DEF ReadRecord
    <2>2. \A i \in 1..Len(log[run]) : i >= k /\ i <= pos' => i = k BY <1>1, <2>1
    <2>3. ~Ends(run, k) BY <1>7 DEF Ends
    <2> QED BY <1>3, <1>4, <1>5, <2>1, <2>2, <2>3
  <1>8. CASE r.as = "head"
    <2>1. pos' = k + 1 /\ partial' = 0 /\ Keep(r.line) /\ k < Len(log[run])
      BY <1>8 DEF ReadRecord
    <2>2. ~Ends(run, k) BY <1>8 DEF Ends
    <2>3. log[run][k + 1].line = r.line /\ Ends(run, k + 1)
      BY <1>1, <1>3, <2>1, <2>2 DEF Order
    <2>4. r.line \in whole' \cup excused' BY <2>1, KeepSafe
    <2>5. \A i \in 1..Len(log[run]) : i >= k /\ i <= pos' => i = k \/ i = k + 1
      BY <1>1, <2>1
    <2>6. log[run][k + 1].as # "part" BY <2>3 DEF Ends
    <2> QED BY <1>3, <1>5, <2>1, <2>2, <2>3, <2>4, <2>5, <2>6
  <1>9. CASE r.as = "rest"
    <2>1. pos' = k BY <1>9 DEF ReadRecord
    <2>2. r.line \in excused BY <1>1, <1>3, <1>9 DEF Kinds
    <2>3. \A i \in 1..Len(log[run]) : i >= k /\ i <= pos' => i = k BY <1>1, <2>1
    <2> QED BY <1>2, <1>3, <1>5, <1>9, <2>1, <2>2, <2>3
  <1> QED BY <1>6, <1>7, <1>8, <1>9 DEF ReadRecord

LEMMA FilePastKept ==
    ASSUME Base, Order, Kinds, FilePast, source = "file", FileStep
    PROVE  FilePast'
  <1>0. /\ log' = log /\ source' = source
        /\ excused \subseteq excused' /\ whole \subseteq whole'
    BY StreamFrame DEF StreamStep
  <1>1. CASE StartTail BY <1>1, StartTailPast
  <1>2. CASE OpenFile
    <2>1. /\ pc = "open" /\ pc' = "read" /\ run' = run /\ partial' = partial /\ seek' = "no"
          /\ pos = 0 /\ pos' = IF seek = "yes" THEN Len(log[run]) ELSE 0
          /\ run \in Runs
      BY <1>2, StreamAssumption DEF OpenFile, Base, TypeOK, Placed, Runs
    <2>2. Len(log[run]) \in Nat BY <2>1, Entries
    <2>3. CASE seek = "yes" BY <1>0, <2>1, <2>3 DEF FilePast, Safe, Ends
    <2>4. CASE seek # "yes"
      <3>1. pos' = pos BY <2>1, <2>4
      <3> QED BY <1>0, <2>1, <3>1 DEF FilePast, Safe, Ends
    <2> QED BY <2>3, <2>4
  <1>3. CASE OpenFails \/ ReadFails \/ StopTail
    <2>1. run' = 0 /\ pos' = 0 /\ pc' = "ended"
      BY <1>3 DEF OpenFails, ReadFails, StopTail, Return, Locals
    <2>2. \A n \in Runs : ~(n < 0) BY DEF Runs
    <2> QED BY <2>1, <2>2 DEF FilePast
  <1>4. CASE ReadRecord BY <1>4, ReadRecordPast
  <1>5. CASE ReadEnd
    <2>1. /\ pc = "read" /\ pc' = "eof" /\ run' = run /\ partial' = partial /\ seek' = seek
          /\ pos' = Len(log[run]) /\ run \in Runs /\ pos \in Nat
          /\ \/ pos = Len(log[run])
             \/ pos = Len(log[run]) - 1 /\ log[run][pos + 1].as = "head"
      BY <1>5, StreamAssumption DEF ReadEnd, fileVars, Base, TypeOK, Placed, Runs
    <2>2. Len(log[run]) \in Nat BY <2>1, Entries
    <2>3. \A i \in 1..Len(log[run]) : i <= pos \/ (i = Len(log[run]) /\ log[run][i].as = "head")
      BY <2>1, <2>2
    <2>4. \A n \in Runs : \A i \in 1..Len(log[n]) :
            Ends(n, i) /\ (n < run \/ (n = run /\ i <= pos')) =>
               log[n][i].line \in whole' \cup excused'
      BY <1>0, <2>1, <2>2, <2>3 DEF FilePast, Safe, Ends
    <2>5. \A i \in 1..Len(log[run]) :
            i = pos' /\ partial = 0 /\ log[run][i].as = "part" => log[run][i].line \in excused'
      BY <1>0, <2>1, <2>2, <2>3 DEF FilePast
    <2> QED BY <1>0, <2>1, <2>2, <2>4, <2>5 DEF FilePast, Safe, Ends
  <1>6. CASE Stat
    <2>0. pc = "eof" /\ seek' = seek /\ seek = "no" /\ run \in Nat /\ pos \in Nat
      BY <1>6 DEF Stat, FilePast, Base, TypeOK
    <2>1. CASE pc' = "sleep"
      <3>1. UNCHANGED <<run, pos, partial>> BY <1>6, <2>1 DEF Stat
      <3> QED BY <1>0, <2>0, <2>1, <3>1 DEF FilePast, Safe, Ends
    <2>2. CASE pc' # "sleep"
      <3>1. run' = run + 1 /\ pos' = 0 /\ pc' = "open" BY <1>6, <2>2 DEF Stat
      <3>2. \A n \in Runs : \A i \in 1..Len(log[n]) :
              Ends(n, i) /\ n < run + 1 => log[n][i].line \in whole' \cup excused'
        <4> SUFFICES ASSUME NEW n \in Runs, NEW i \in 1..Len(log[n]), Ends(n, i), n < run + 1
                     PROVE  log[n][i].line \in whole' \cup excused'
          OBVIOUS
        <4>1. CASE n < run \/ (n = run /\ i <= pos) BY <1>0, <4>1 DEF FilePast, Safe
        <4>2. CASE n = run /\ i > pos BY <1>0, <2>0, <4>2 DEF FilePast
        <4> QED BY <2>0, <4>1, <4>2 DEF Runs
      <3> QED BY <1>0, <2>0, <3>1, <3>2 DEF FilePast, Safe, Ends
    <2> QED BY <2>1, <2>2
  <1>7. CASE Wake
    <2>1. UNCHANGED <<run, pos, partial, seek>> /\ pc = "sleep" /\ pc' = "read"
      BY <1>7 DEF Wake, fileVars
    <2> QED BY <1>0, <2>1 DEF FilePast, Safe, Ends
  <1> QED BY <1>1, <1>2, <1>3, <1>4, <1>5, <1>6, <1>7 DEF FileStep

\* Lines are read in the order of their seconds, whatever run they are of.
LEMMA InOrder ==
    ASSUME Base, Order, Sorted, NEW n \in Runs, NEW m \in Runs,
           NEW i \in 1..Len(log[n]), NEW j \in 1..Len(log[m]),
           n < m \/ (n = m /\ i <= j)
    PROVE  Second(n, i) <= Second(m, j)
  <1>1. log[n][i].line \in 1..Len(secs) /\ log[m][j].line \in 1..Len(secs) BY Entries
  <1>2. log[n][i].line <= log[m][j].line
    <2>1. CASE n < m
      <3>1. log[n][i].line < log[m][j].line BY <2>1 DEF Order
      <3> QED BY <1>1, <3>1
    <2>2. CASE n = m /\ i < j BY <2>2 DEF Order
    <2>3. CASE n = m /\ i = j BY <1>1, <2>3
    <2> QED BY <2>1, <2>2, <2>3
  <1> QED BY <1>1, <1>2 DEF Sorted, Second

LEMMA OldKept ==
    ASSUME UNCHANGED <<begun, log, secs>>, whole \subseteq whole', excused \subseteq excused',
           NEW t, Old(t)
    PROVE  \A n \in Runs : n = Current' =>
               \A i \in 1..Len(log'[n]) : secs'[log'[n][i].line] < t =>
                   log'[n][i].line \in whole' \cup excused'
  BY DEF Old, Second, Safe, Current

LEMMA ContainerApiPast ==
    ASSUME Base, Structure, ApiPast, source = "api", Container
    PROVE  ApiPast'
  <1>0. /\ UNCHANGED <<source, pc, run, pos, since, got, whole>>
        /\ excused \subseteq excused'
    BY ContainerFrame
  <1>1. /\ clock \in Nat /\ Len(secs) \in Nat /\ since \in Int /\ got \in Int
        /\ since <= clock /\ got <= clock /\ pos \in Nat
    BY SecsType, StreamAssumption DEF ApiPast, Base, TypeOK, None
  <1>2. ASSUME NEW as \in {"full", "part", "head"}, WriteLine(as) PROVE ApiPast'
    <2> DEFINE r == [line |-> Len(secs) + 1, as |-> as]
    <2>1. /\ up = "yes" /\ Len(secs) + 1 <= MaxLines
          /\ log' = [log EXCEPT ![Current] = Append(@, r)]
          /\ secs' = Append(secs, clock) /\ UNCHANGED <<begun, clock>>
      BY <1>2 DEF WriteLine
    <2>2. r \in Records
      <3>1. Len(secs) + 1 \in Lines BY <1>1, <2>1, StreamAssumption DEF Lines
      <3> QED BY <3>1 DEF Records
    <2>3. /\ Current \in Runs /\ begun > 0 BY <2>1, CurrentFile
    <2>4. /\ \A n \in Runs :
                /\ Len(log'[n]) \in Nat /\ Len(log[n]) \in Nat
                /\ Len(log'[n]) = IF n = Current THEN Len(log[n]) + 1 ELSE Len(log[n])
          /\ \A n \in Runs : \A i \in 1..Len(log[n]) : log'[n][i] = log[n][i]
          /\ \A n \in Runs : \A i \in 1..Len(log'[n]) :
                \/ i \in 1..Len(log[n])
                \/ n = Current /\ i = Len(log[n]) + 1 /\ i = Len(log'[n]) /\ log'[n][i] = r
      <3> HIDE DEF r
      <3> QED BY <2>1, <2>2, Grown
    <2>5. \A n \in Runs : \A i \in 1..Len(log[n]) :
            secs'[log'[n][i].line] = Second(n, i)
      <3> SUFFICES ASSUME NEW n \in Runs, NEW i \in 1..Len(log[n])
                   PROVE  secs'[log'[n][i].line] = Second(n, i)
        OBVIOUS
      <3>1. log[n][i].line \in 1..Len(secs) BY Entries
      <3>2. \A l \in 1..Len(secs) : secs'[l] = secs[l] BY <2>1 DEF Base, TypeOK
      <3> QED BY <2>4, <3>1, <3>2 DEF Second
    <2>6. secs'[Len(secs) + 1] = clock BY <2>1 DEF Base, TypeOK
    <2>7. ASSUME NEW t \in Int, t <= clock, Old(t)
          PROVE  \A n \in Runs : n = Current =>
                   \A i \in 1..Len(log'[n]) : secs'[log'[n][i].line] < t =>
                       log'[n][i].line \in whole' \cup excused'
      <3> SUFFICES ASSUME NEW n \in Runs, n = Current, NEW i \in 1..Len(log'[n]),
                          secs'[log'[n][i].line] < t
                   PROVE  log'[n][i].line \in whole' \cup excused'
        OBVIOUS
      <3>1. CASE i \in 1..Len(log[n]) BY <1>0, <2>4, <2>5, <2>7, <3>1 DEF Old, Safe
      <3>2. CASE i \notin 1..Len(log[n])
        <4>1. log'[n][i].line = Len(secs) + 1 BY <2>4, <3>2
        <4> QED BY <1>1, <2>6, <2>7, <4>1
      <3> QED BY <3>1, <3>2
    <2>8. Current' = Current BY <2>1 DEF Current
    <2>9. Old(since)' /\ Old(got)'
      <3>1. Old(since) /\ Old(got) BY DEF ApiPast
      <3> QED BY <1>0, <1>1, <2>7, <2>8, <3>1 DEF Old, Second, Safe
    <2>10. ASSUME pc = "stream"
           PROVE  \A i \in 1..Len(log'[run]) : i <= pos =>
                     log'[run][i].line \in whole' \cup excused'
      <3>1. run \in Runs /\ pos <= Len(log[run])
        BY <2>10, StreamAssumption DEF Base, TypeOK, Placed, Runs
      <3>2. \A i \in 1..Len(log'[run]) : i <= pos => i \in 1..Len(log[run])
        BY <1>1, <2>4, <3>1
      <3> QED BY <1>0, <2>4, <2>10, <3>1, <3>2 DEF ApiPast, Safe
    <2> QED BY <1>0, <1>1, <2>1, <2>9, <2>10 DEF ApiPast, Safe
  <1>3. CASE FinishLine
    <2>1. Len(log[Current]) > 0 /\ up = "yes" BY <1>3 DEF FinishLine, Open
    <2>2. Current \in Runs /\ Len(log[Current]) \in 1..Len(log[Current])
      BY <2>1, CurrentFile
    <2>3. log[Current][Len(log[Current])].as = "full" BY <2>2 DEF Structure, Kinds
    <2> QED BY <1>3, <2>3 DEF FinishLine, Open
  <1>4. CASE Begin
    <2>1. UNCHANGED <<log, secs, clock>> /\ begun' = begun + 1 /\ begun < MaxRuns
      BY <1>4 DEF Begin, streamVars
    <2>2. Current' \in Runs /\ log'[Current'] = <<>>
      BY <2>1, StreamAssumption DEF Current, Runs, Base, TypeOK, Placed
    <2>3. Old(since)' /\ Old(got)' BY <2>2 DEF Old
    <2> QED BY <1>0, <1>1, <2>1, <2>3 DEF ApiPast, Safe
  <1>5. CASE Exit \/ Report \/ PodFinishes \/ PodGoes \/ Tick
    <2>1. UNCHANGED <<begun, log, secs>> /\ (clock' = clock \/ clock' = clock + 1)
      BY <1>5 DEF Exit, Report, PodFinishes, PodGoes, Tick, containerVars
    <2>2. Old(since)' /\ Old(got)'
      <3>1. Old(since) /\ Old(got) BY DEF ApiPast
      <3> QED BY <1>0, <2>1, <3>1 DEF Old, Second, Safe, Current
    <2> QED BY <1>0, <1>1, <2>1, <2>2 DEF ApiPast, Safe
  <1> QED BY <1>2, <1>3, <1>4, <1>5 DEF Container

\* A line that is read is no older than one that is not.
LEMMA ReadIsOld ==
    ASSUME Base, Structure, ApiPast, source = "api", pc = "stream", pos < Len(log[run])
    PROVE  Old(Second(run, pos + 1))
  <1>1. run \in Runs /\ run < begun /\ pos \in Nat
    BY StreamAssumption DEF Base, TypeOK, Placed, Runs
  <1>2. Len(log[run]) \in Nat /\ pos + 1 \in 1..Len(log[run]) BY <1>1, Entries
  <1> SUFFICES ASSUME NEW n \in Runs, n = Current, NEW i \in 1..Len(log[n]),
                      Second(n, i) < Second(run, pos + 1)
               PROVE  Safe(log[n][i].line)
    BY DEF Old
  <1>3. Second(n, i) \in Nat /\ Second(run, pos + 1) \in Nat
    BY <1>1, <1>2, SecondType, StreamAssumption
  <1>4. n >= run BY <1>1 DEF Current, Base, TypeOK, Runs
  <1>5. ~(run < n \/ (run = n /\ pos + 1 <= i))
    <2>1. run < n \/ (run = n /\ pos + 1 <= i) => Second(run, pos + 1) <= Second(n, i)
      BY <1>1, <1>2, InOrder DEF Structure
    <2> QED BY <1>3, <2>1
  <1>6. n = run /\ i <= pos BY <1>1, <1>4, <1>5 DEF Runs
  <1> QED BY <1>6 DEF ApiPast

LEMMA ApiPastKept ==
    ASSUME Base, Structure, ApiPast, source = "api", ApiStep
    PROVE  ApiPast'
  <1>0. /\ UNCHANGED <<begun, log, secs, clock, source>>
        /\ excused \subseteq excused' /\ whole \subseteq whole'
    BY StreamFrame DEF StreamStep
  <1>1. /\ clock \in Nat /\ since \in Int /\ got \in Int
        /\ since <= clock /\ got <= clock /\ Old(since) /\ Old(got)
    BY SecsType, StreamAssumption DEF ApiPast, Base, TypeOK, None
  <1>2. Old(None)
    <2> SUFFICES ASSUME NEW n \in Runs, NEW i \in 1..Len(log[n])
                 PROVE  ~(Second(n, i) < None)
      BY DEF Old
    <2>1. Second(n, i) \in Nat BY SecondType, StreamAssumption
    <2> QED BY <2>1 DEF None
  <1>3. ASSUME NEW t, Old(t)
        PROVE  \A n \in Runs : n = Current' =>
                 \A i \in 1..Len(log'[n]) : secs'[log'[n][i].line] < t =>
                     log'[n][i].line \in whole' \cup excused'
    BY <1>0, <1>3, OldKept
  <1>4. (Old(since') => Old(since)') /\ (Old(got') => Old(got)')
    BY <1>3 DEF Old, Second, Safe
  <1>5. Written \subseteq excused' => \A t : Old(t)'
    <2>1. \A n \in Runs : \A i \in 1..Len(log[n]) : log[n][i].line \in Written
      BY DEF Written, LinesIn
    <2> QED BY <1>0, <2>1 DEF Old, Safe
  <1>6. CASE pc' # "stream" /\ since' \in {since, got, None} /\ got' \in {got, None}
    <2>1. Old(since') /\ Old(got') BY <1>1, <1>2, <1>6
    <2>2. since' <= clock /\ got' <= clock BY <1>1, <1>6 DEF None
    <2> QED BY <1>0, <1>4, <1>6, <2>1, <2>2 DEF ApiPast
  <1>7. CASE StartApi
    <2>1. /\ pc' = "open" /\ got' = got
          /\ \/ since' = None
             \/ since' = clock - 1 /\ Written \subseteq excused'
      BY <1>7 DEF StartApi
    <2>2. CASE since' = None BY <1>6, <2>1, <2>2
    <2>3. CASE since' = clock - 1 /\ Written \subseteq excused'
      <3>1. since' <= clock /\ got' <= clock BY <1>1, <2>1, <2>3
      <3>2. Old(since)' BY <1>5, <2>3 DEF Old
      <3>3. Old(got)' BY <1>1, <1>4, <2>1
      <3> QED BY <1>0, <2>1, <3>1, <3>2, <3>3 DEF ApiPast
    <2> QED BY <2>1, <2>2, <2>3
  <1>8. CASE Connect
    <2>1. /\ run' = Current /\ got' = None /\ since' = since /\ begun > 0
          /\ pos' \in 0..Len(log[Current])
          /\ \A i \in 1..Len(log[Current]) : i > pos' <=> Second(Current, i) >= since
      BY <1>8 DEF Connect
    <2>2. Current \in Runs BY <2>1, StreamAssumption DEF Current, Runs, Base, TypeOK
    <2>3. \A i \in 1..Len(log[Current]) : i <= pos' => Safe(log[Current][i].line)
      <3> SUFFICES ASSUME NEW i \in 1..Len(log[Current]), i <= pos'
                   PROVE  Safe(log[Current][i].line)
        OBVIOUS
      <3>1. Second(Current, i) \in Nat BY <2>2, SecondType, StreamAssumption
      <3>2. Len(log[Current]) \in Nat BY <2>2, Entries
      <3>3. ~(i > pos') BY <2>1, <3>2
      <3>4. Second(Current, i) < since BY <1>1, <2>1, <3>1, <3>3
      <3> QED BY <1>1, <2>2, <3>4 DEF Old
    <2>4. since' <= clock /\ got' <= clock BY <1>1, <2>1 DEF None
    <2>5. Old(since)' /\ Old(got)' BY <1>1, <1>2, <1>4, <2>1
    <2> QED BY <1>0, <2>1, <2>3, <2>4, <2>5 DEF ApiPast, Safe
  <1>9. CASE ConnectFails \/ StreamEnds \/ Break \/ StopApi
    BY <1>6, <1>9 DEF ConnectFails, StreamEnds, Break, StopApi
  <1>10. CASE Receive
    <2> DEFINE l == log[run][pos + 1].line
    <2>1. /\ pc = "stream" /\ pos < Len(log[run]) /\ pos' = pos + 1 /\ run' = run
          /\ since' = since /\ got' = Second(run, pos + 1) /\ Keep(l)
      BY <1>10 DEF Receive, Second
    <2>2. run \in Runs /\ pos \in Nat
      BY <2>1, StreamAssumption DEF Base, TypeOK, Placed, Runs
    <2>3. Len(log[run]) \in Nat /\ pos + 1 \in 1..Len(log[run]) BY <2>1, <2>2, Entries
    <2>4. Old(since)' /\ Old(got)' BY <1>1, <1>4, <2>1, ReadIsOld
    <2>5. got' <= clock
      <3>1. l \in 1..Len(secs) BY <2>2, <2>3, Entries
      <3> QED BY <2>1, <3>1 DEF Second, Structure, Sorted
    <2>6. l \in whole' \cup excused' BY <2>1, KeepSafe
    <2>7. \A i \in 1..Len(log[run]) : i <= pos + 1 => log[run][i].line \in whole' \cup excused'
      <3> SUFFICES ASSUME NEW i \in 1..Len(log[run]), i <= pos + 1
                   PROVE  log[run][i].line \in whole' \cup excused'
        OBVIOUS
      <3>1. CASE i <= pos BY <1>0, <2>1, <3>1 DEF ApiPast, Safe
      <3>2. CASE i = pos + 1 BY <2>6, <3>2
      <3> QED BY <2>2, <3>1, <3>2
    <2> QED BY <1>0, <1>1, <2>1, <2>4, <2>5, <2>7 DEF ApiPast, Safe
  <1>11. CASE BreakInLine
    <2>1. /\ pc = "stream" /\ pc' = "judge" /\ pos < Len(log[run]) /\ since' = since
          /\ \/ got' = Second(run, pos + 1)
             \/ got' = clock /\ Written \subseteq excused'
      BY <1>11 DEF BreakInLine
    <2>2. CASE got' = Second(run, pos + 1)
      <3>1. run \in Runs /\ pos \in Nat
        BY <2>1, StreamAssumption DEF Base, TypeOK, Placed, Runs
      <3>2. Len(log[run]) \in Nat /\ pos + 1 \in 1..Len(log[run]) BY <2>1, <3>1, Entries
      <3>3. Old(since)' /\ Old(got)' BY <1>1, <1>4, <2>1, <2>2, ReadIsOld
      <3>4. got' <= clock
        <4>1. log[run][pos + 1].line \in 1..Len(secs) BY <3>1, <3>2, Entries
        <4> QED BY <2>2, <4>1 DEF Second, Structure, Sorted
      <3> QED BY <1>0, <1>1, <2>1, <3>3, <3>4 DEF ApiPast
    <2>3. CASE got' = clock /\ Written \subseteq excused'
      <3>1. Old(got)' BY <1>5, <2>3 DEF Old
      <3>2. Old(since)' BY <1>1, <1>4, <2>1
      <3>3. got' <= clock BY <1>1, <2>3
      <3> QED BY <1>0, <1>1, <2>1, <3>1, <3>2, <3>3 DEF ApiPast
    <2> QED BY <2>1, <2>2, <2>3
  <1>12. CASE Judge
    BY <1>6, <1>12 DEF Judge, Return, Locals, Between
  <1>13. CASE Resume
    BY <1>6, <1>13 DEF Resume, Return, Locals, Between
  <1> QED BY <1>7, <1>8, <1>9, <1>10, <1>11, <1>12, <1>13 DEF ApiStep

LEMMA NextPast == Base /\ Structure /\ Past /\ [Next]_vars => Past'
  <1> SUFFICES ASSUME Base, Structure, Past, [Next]_vars PROVE Past' OBVIOUS
  <1>0. source \in {"file", "api"} BY DEF Base, TypeOK
  <1>1. CASE FileStep
    <2>1. source = "file" /\ source' = "file"
      BY <1>1, StreamFrame DEF FileStep, StreamStep, StartTail, OpenFile, OpenFails, ReadRecord,
         ReadEnd, ReadFails, Stat, Wake, StopTail
    <2>2. FilePast' BY <1>1, <2>1, FilePastKept DEF Past, Structure
    <2> QED BY <2>1, <2>2 DEF Past, ApiPast
  <1>2. CASE ApiStep
    <2>1. source = "api" /\ source' = "api"
      BY <1>2, StreamFrame DEF ApiStep, StreamStep, StartApi, Connect, ConnectFails, Receive,
         StreamEnds, Break, BreakInLine, Judge, Resume, StopApi
    <2>2. ApiPast' BY <1>2, <2>1, ApiPastKept DEF Past
    <2> QED BY <2>1, <2>2 DEF Past, FilePast
  <1>3. CASE Container
    <2>1. source' = source BY <1>3, ContainerFrame
    <2>2. CASE source = "file"
      <3>1. FilePast' BY <1>3, <2>2, ContainerFilePast DEF Past
      <3> QED BY <2>1, <2>2, <3>1 DEF Past, ApiPast
    <2>3. CASE source = "api"
      <3>1. ApiPast' BY <1>3, <2>3, ContainerApiPast DEF Past
      <3> QED BY <2>1, <2>3, <3>1 DEF Past, FilePast
    <2> QED BY <1>0, <2>2, <2>3
  <1>4. CASE Cancel \/ UNCHANGED vars
    <2>1. UNCHANGED <<source, log, secs, begun, clock, pc, run, pos, seek, partial, since, got,
                      whole, excused>>
      BY <1>4 DEF Cancel, vars, containerVars, fileVars, apiVars, storeVars
    <2>2. FilePast' BY <2>1 DEF Past, FilePast, Safe, Ends
    <2>3. ApiPast' BY <2>1 DEF Past, ApiPast, Old, Second, Safe, Current
    <2> QED BY <2>2, <2>3 DEF Past
  <1>5. CASE Restart
    <2>1. /\ UNCHANGED <<source, log, secs, begun, clock, whole, excused>>
          /\ pc' = "start" /\ run' = 0 /\ pos' = 0 /\ since' = None /\ got' = None
      BY <1>5 DEF Restart, Locals, containerVars, storeVars
    <2>2. FilePast'
      <3>1. \A n \in Runs : ~(n < 0) BY DEF Runs
      <3> QED BY <2>1, <3>1 DEF FilePast
    <2>3. ApiPast'
      <3>1. None <= clock BY SecsType DEF None
      <3>2. \A n \in Runs : \A i \in 1..Len(log[n]) : ~(Second(n, i) < None)
        BY SecondType, StreamAssumption DEF None
      <3> QED BY <2>1, <3>1, <3>2 DEF ApiPast, Old, Second
    <2> QED BY <2>2, <2>3 DEF Past
  <1> QED BY <1>1, <1>2, <1>3, <1>4, <1>5 DEF Next, StreamStep

LEMMA BaseHolds == Spec => [](Base /\ Structure)
  <1>1. Init => Base /\ Structure BY InitBase, InitStructure
  <1>2. Base /\ Structure /\ [Next]_vars => (Base /\ Structure)' BY NextBase, NextStructure
  <1> QED BY <1>1, <1>2, PTL DEF Spec

\* Every complete line the tail or the connection has passed is stored whole, or
\* a failing call, a start over stored content, a line in two writes, or a line
\* written as the tail leaves a file explains that it is not (runFileTail,
\* runAPIStream).
THEOREM NothingLostUnexplained == Spec => []MissingIsExcused
  <1>1. Past /\ Base => MissingIsExcused
    <2> SUFFICES ASSUME Past, Base, NEW n \in Runs, NEW i \in 1..Len(log[n]),
                        EndsAt(log[n][i].line, n, i), Passed(n, i)
                 PROVE  log[n][i].line \in whole \cup excused
      BY DEF MissingIsExcused
    <2>1. Ends(n, i) BY DEF EndsAt, Ends
    <2>2. CASE source = "file" BY <2>1, <2>2 DEF Past, FilePast, Safe, Passed
    <2>3. CASE source # "file"
      <3>1. source = "api" BY <2>3 DEF Base, TypeOK
      <3> QED BY <2>3, <3>1 DEF Past, ApiPast, Safe, Passed
    <2> QED BY <2>2, <2>3
  <1> QED BY <1>1, InitPast, NextPast, BaseHolds, PTL DEF Spec

-----------------------------------------------------------------------------
(* What is not yet passed is not stored, or is excused for being so.       *)

Stored ==
    /\ content = "no" => whole = {}
    /\ whole \subseteq 1..Len(secs)

FileFresh ==
    source = "file" =>
        /\ \A n \in Runs : \A i \in 1..Len(log[n]) :
              i = Len(log[n]) /\ ~Ends(n, i) => log[n][i].line \notin whole
        /\ pc \in {"open", "read", "eof", "sleep"} =>
              \A n \in Runs : \A i \in 1..Len(log[n]) :
                  /\ n > run \/ (n = run /\ i > pos /\ ~(pc = "open" /\ seek = "yes"))
                  /\ log[n][i].line \in whole
                  => log[n][i].line \in reread
        /\ twice \subseteq reread

ApiFresh ==
    source = "api" =>
        /\ pc \notin {"stream", "judge"} => got = None
        /\ pc \in {"open", "stream", "pause"} \/ (pc = "judge" /\ cancelled = "no") =>
              /\ born >= 1 /\ (got # None => got >= since)
              /\ \A l \in whole : \/ secs[l] <= since \/ secs[l] <= got
                                  \/ secs[l] <= born /\ since >= born - 1
        /\ pc = "stream" => \A i \in 1..Len(log[run]) :
              i > pos => Second(run, i) >= since /\ Second(run, i) >= got

Fresh == Stored /\ FileFresh /\ ApiFresh

LEMMA InitFresh == Init => Fresh
  <1> SUFFICES ASSUME Init PROVE Fresh OBVIOUS
  <1>1. /\ \A n \in Runs : log[n] = <<>>
        /\ pc = "start" /\ whole = {} /\ twice = {} /\ got = None
    BY DEF Init
  <1> QED BY <1>1 DEF Fresh, Stored, FileFresh, ApiFresh

LEMMA StoredKept == Base /\ Stored /\ [Next]_vars => Stored'
  <1> SUFFICES ASSUME Base, Stored, [Next]_vars PROVE Stored' OBVIOUS
  <1>0. Len(secs) \in Nat BY SecsType
  <1>1. CASE Container
    <2>1. UNCHANGED <<content, whole>> BY <1>1, ContainerFrame
    <2>2. Len(secs') \in Nat /\ Len(secs') >= Len(secs)
      <3>1. secs' = secs \/ secs' = Append(secs, clock)
        BY <1>1 DEF Container, WriteLine, FinishLine, Begin, Exit, Report, PodFinishes,
           PodGoes, Tick, containerVars
      <3>2. Len(Append(secs, clock)) = Len(secs) + 1 BY DEF Base, TypeOK
      <3> QED BY <1>0, <3>1, <3>2
    <2> QED BY <1>0, <2>1, <2>2 DEF Stored
  <1>2. ASSUME NEW l, Keep(l), l \in 1..Len(secs), secs' = secs
        PROVE  Stored'
    BY <1>2 DEF Keep, Stored, storeVars
  <1>3. CASE ReadRecord
    <2>1. run \in Runs /\ pos \in Nat /\ pos < Len(log[run])
      BY <1>3, StreamAssumption DEF ReadRecord, Base, TypeOK, Placed, Runs
    <2>2. Len(log[run]) \in Nat /\ pos + 1 \in 1..Len(log[run]) BY <2>1, Entries
    <2>3. log[run][pos + 1].line \in 1..Len(secs) BY <2>1, <2>2, Entries
    <2>4. secs' = secs BY <1>3, StreamFrame DEF StreamStep, FileStep
    <2>5. \/ Keep(log[run][pos + 1].line)
          \/ KeepFragment
          \/ UNCHANGED storeVars
      BY <1>3 DEF ReadRecord
    <2> QED BY <1>2, <2>3, <2>4, <2>5 DEF KeepFragment, Stored, storeVars
  <1>4. CASE Receive
    <2>1. run \in Runs /\ pos \in Nat /\ pos < Len(log[run])
      BY <1>4, StreamAssumption DEF Receive, Base, TypeOK, Placed, Runs
    <2>2. Len(log[run]) \in Nat /\ pos + 1 \in 1..Len(log[run]) BY <2>1, Entries
    <2>3. log[run][pos + 1].line \in 1..Len(secs) BY <2>1, <2>2, Entries
    <2>4. secs' = secs BY <1>4, StreamFrame DEF StreamStep, ApiStep
    <2>5. Keep(log[run][pos + 1].line) BY <1>4 DEF Receive
    <2> QED BY <1>2, <2>3, <2>4, <2>5
  <1>5. CASE FileStep /\ ~ReadRecord
    <2>1. secs' = secs BY <1>5, StreamFrame DEF StreamStep
    <2>2. UNCHANGED storeVars \/ KeepFragment
      BY <1>5 DEF FileStep, StartTail, OpenFile, OpenFails, ReadEnd, ReadFails, Stat, Wake,
         StopTail, storeVars
    <2> QED BY <2>1, <2>2 DEF KeepFragment, Stored, storeVars
  <1>6. CASE ApiStep /\ ~Receive
    <2>1. secs' = secs BY <1>6, StreamFrame DEF StreamStep
    <2>2. UNCHANGED storeVars \/ (content' = "yes" /\ UNCHANGED <<whole, twice>>)
      BY <1>6 DEF ApiStep, StartApi, Connect, ConnectFails, StreamEnds, Break, BreakInLine,
         Judge, Resume, StopApi, storeVars
    <2> QED BY <2>1, <2>2 DEF Stored, storeVars
  <1>7. CASE Cancel \/ Restart \/ UNCHANGED vars
    BY <1>7 DEF Cancel, Restart, vars, containerVars, storeVars, Stored
  <1> QED BY <1>1, <1>3, <1>4, <1>5, <1>6, <1>7 DEF Next, StreamStep

LEMMA GrowthFileFresh ==
    ASSUME Base, FileFresh, source = "file", up = "yes", NEW r \in Records,
           log' = [log EXCEPT ![Current] = Append(@, r)],
           UNCHANGED <<source, pc, run, pos, seek, whole, twice, reread>>,
           r.line \notin whole
    PROVE  FileFresh'
  <1>1. Current \in Runs BY CurrentFile
  <1>2. /\ \A n \in Runs :
              /\ Len(log'[n]) \in Nat /\ Len(log[n]) \in Nat
              /\ Len(log'[n]) = IF n = Current THEN Len(log[n]) + 1 ELSE Len(log[n])
        /\ \A n \in Runs : \A i \in 1..Len(log[n]) : log'[n][i] = log[n][i]
        /\ \A n \in Runs : \A i \in 1..Len(log'[n]) :
              \/ i \in 1..Len(log[n])
              \/ n = Current /\ i = Len(log[n]) + 1 /\ i = Len(log'[n]) /\ log'[n][i] = r
    BY Grown
  <1>3. \A n \in Runs : \A i \in 1..Len(log'[n]) :
          i = Len(log'[n]) /\ log'[n][i].as \notin {"full", "rest"} =>
             log'[n][i].line \notin whole
    <2> SUFFICES ASSUME NEW n \in Runs, NEW i \in 1..Len(log'[n]), i = Len(log'[n]),
                        log'[n][i].as \notin {"full", "rest"}
                 PROVE  log'[n][i].line \notin whole
      OBVIOUS
    <2>1. CASE i \in 1..Len(log[n])
      <3>1. i = Len(log[n]) /\ log'[n][i] = log[n][i] BY <1>2, <2>1
      <3> QED BY <2>1, <3>1 DEF FileFresh, Ends
    <2>2. CASE i \notin 1..Len(log[n]) BY <1>2, <2>2
    <2> QED BY <2>1, <2>2
  <1>4. pc \in {"open", "read", "eof", "sleep"} =>
          \A n \in Runs : \A i \in 1..Len(log'[n]) :
              /\ n > run \/ (n = run /\ i > pos /\ ~(pc = "open" /\ seek = "yes"))
              /\ log'[n][i].line \in whole
              => log'[n][i].line \in reread
    BY <1>2 DEF FileFresh
  <1> QED BY <1>3, <1>4 DEF FileFresh, Ends

LEMMA ContainerFileFresh ==
    ASSUME Base, Order, Stored, FileFresh, source = "file", Container
    PROVE  FileFresh'
  <1>0. UNCHANGED <<source, pc, run, pos, seek, whole, twice, reread>>
    BY ContainerFrame
  <1>1. ASSUME NEW as \in {"full", "part", "head"}, WriteLine(as) PROVE FileFresh'
    <2> DEFINE r == [line |-> Len(secs) + 1, as |-> as]
    <2>1. up = "yes" /\ Len(secs) + 1 <= MaxLines BY <1>1 DEF WriteLine
    <2>2. log' = [log EXCEPT ![Current] = Append(@, r)] BY <1>1 DEF WriteLine
    <2>3. r \in Records
      <3>1. Len(secs) + 1 \in Lines BY <2>1, CurrentFile, StreamAssumption DEF Lines
      <3> QED BY <3>1 DEF Records
    <2>4. r.line \notin whole BY SecsType DEF Stored
    <2> HIDE DEF r
    <2> QED BY <1>0, <2>1, <2>2, <2>3, <2>4, GrowthFileFresh
  <1>2. CASE FinishLine
    <2> DEFINE r == [line |-> Len(secs),
                     as |-> IF log[Current][Len(log[Current])].as = "head"
                            THEN "rest" ELSE "full"]
    <2>1. up = "yes" /\ Open /\ Len(log[Current]) > 0 BY <1>2 DEF FinishLine, Open
    <2>2. log' = [log EXCEPT ![Current] = Append(@, r)] BY <1>2 DEF FinishLine
    <2>3. /\ Current \in Runs /\ Len(log[Current]) \in 1..Len(log[Current])
          /\ log[Current][Len(log[Current])].line = Len(secs)
      BY <2>1, CurrentFile DEF Order
    <2>4. r \in Records
      <3>1. log[Current][Len(log[Current])].line \in Lines BY <2>3, Entries
      <3>2. Len(secs) \in Lines BY <2>3, <3>1
      <3> QED BY <3>2 DEF Records
    <2>5. r.line \notin whole
      <3>1. ~Ends(Current, Len(log[Current])) BY <2>1 DEF Open, Ends
      <3> QED BY <2>3, <3>1 DEF FileFresh
    <2> HIDE DEF r
    <2> QED BY <1>0, <2>1, <2>2, <2>4, <2>5, GrowthFileFresh
  <1>3. CASE Begin \/ Exit \/ Report \/ PodFinishes \/ PodGoes \/ Tick
    <2>1. log' = log
      BY <1>3 DEF Begin, Exit, Report, PodFinishes, PodGoes, Tick, containerVars
    <2> QED BY <1>0, <2>1 DEF FileFresh, Ends
  <1> QED BY <1>1, <1>2, <1>3 DEF Container

\* A line is stored when its last record is read.
LEMMA KeepFileFresh ==
    ASSUME Base, Order, FileFresh, source = "file", pc = "read", run \in Runs,
           NEW e \in 1..Len(log[run]), Ends(run, e), e > pos, pos' >= e, pos' \in Nat,
           Keep(log[run][e].line), UNCHANGED <<log, source, pc, run, reread>>
    PROVE  FileFresh'
  <1> DEFINE l == log[run][e].line
  <1>1. /\ whole' \subseteq whole \cup {l} /\ twice' \subseteq twice \cup ({l} \cap whole)
    BY DEF Keep, storeVars
  <1>2. l \in whole => l \in reread BY DEF FileFresh
  <1>3. Len(log[run]) \in Nat BY Entries
  <1>4. \A n \in Runs : \A i \in 1..Len(log[n]) :
          log[n][i].line = l => n = run /\ (i = e \/ (i < e /\ ~Ends(n, i)))
    <2> SUFFICES ASSUME NEW n \in Runs, NEW i \in 1..Len(log[n]), log[n][i].line = l
                 PROVE  n = run /\ (i = e \/ (i < e /\ ~Ends(n, i)))
      OBVIOUS
    <2>0. l \in 1..Len(secs) BY Entries
    <2>1. ~(n < run) /\ ~(run < n)
      <3>1. n < run => log[n][i].line < l BY DEF Order
      <3>2. run < n => l < log[n][i].line BY DEF Order
      <3> QED BY <2>0, <3>1, <3>2
    <2>2. n = run BY <2>1 DEF Runs
    <2>3. ~(e < i)
      <3>1. e < i => ~Ends(run, e) BY <2>2 DEF Order
      <3> QED BY <3>1
    <2>4. i < e => ~Ends(n, i) BY <2>2 DEF Order
    <2> QED BY <1>3, <2>2, <2>3, <2>4
  <1>5. \A n \in Runs : \A i \in 1..Len(log[n]) :
          i = Len(log[n]) /\ ~Ends(n, i) => log[n][i].line \notin whole'
    <2> SUFFICES ASSUME NEW n \in Runs, NEW i \in 1..Len(log[n]), i = Len(log[n]), ~Ends(n, i)
                 PROVE  log[n][i].line \notin whole'
      OBVIOUS
    <2>1. log[n][i].line \notin whole BY DEF FileFresh
    <2>2. log[n][i].line # l
      <3>1. SUFFICES ASSUME log[n][i].line = l PROVE FALSE OBVIOUS
      <3>2. n = run /\ (i = e \/ i < e) BY <1>4, <3>1
      <3>3. i = e BY <1>3, <3>2
      <3> QED BY <3>2, <3>3 DEF Ends
    <2> QED BY <1>1, <2>1, <2>2
  <1>6. \A n \in Runs : \A i \in 1..Len(log[n]) :
          (n > run \/ (n = run /\ i > pos')) /\ log[n][i].line \in whole' =>
             log[n][i].line \in reread
    <2> SUFFICES ASSUME NEW n \in Runs, NEW i \in 1..Len(log[n]),
                        n > run \/ (n = run /\ i > pos'), log[n][i].line \in whole'
                 PROVE  log[n][i].line \in reread
      OBVIOUS
    <2>1. log[n][i].line # l BY <1>3, <1>4 DEF Runs
    <2>2. log[n][i].line \in whole BY <1>1, <2>1
    <2>3. n > run \/ (n = run /\ i > pos)
      <3>1. pos \in Nat BY DEF Base, TypeOK
      <3> QED BY <1>3, <3>1
    <2> QED BY <2>2, <2>3 DEF FileFresh
  <1>7. twice' \subseteq reread BY <1>1, <1>2 DEF FileFresh
  <1>8. FileFresh'
    <2> HIDE DEF l
    <2> QED BY <1>5, <1>6, <1>7 DEF FileFresh, Ends
  <1> QED BY <1>8

LEMMA FileFreshKept ==
    ASSUME Base, Order, Stored, FileFresh, source = "file", FileStep
    PROVE  FileFresh'
  <1>0. /\ log' = log /\ source' = source /\ pos \in Nat /\ run \in Nat
    BY StreamFrame DEF StreamStep, Base, TypeOK
  <1>1. CASE StartTail
    <2>1. /\ UNCHANGED <<whole, twice>> /\ run' = status /\ pos' = 0 /\ pc' = "open"
          /\ seek' = content /\ reread' = reread \cup (whole \ Behind(status + 1))
          /\ status \in Nat
      BY <1>1 DEF StartTail, storeVars, Base, TypeOK
    <2>2. \A n \in Runs : \A i \in 1..Len(log[n]) :
            n > status => log[n][i].line \notin Behind(status + 1)
      <3> SUFFICES ASSUME NEW n \in Runs, NEW i \in 1..Len(log[n]), n > status,
                          log[n][i].line \in Behind(status + 1)
                   PROVE  FALSE
        OBVIOUS
      <3>1. PICK m \in Runs : m < status + 1 /\ log[n][i].line \in LinesIn(m) BY DEF Behind
      <3>2. PICK j \in 1..Len(log[m]) : log[n][i].line = log[m][j].line BY <3>1 DEF LinesIn
      <3>3. m < n BY <2>1, <3>1 DEF Runs
      <3>4. log[m][j].line < log[n][i].line BY <3>3 DEF Order
      <3>5. log[n][i].line \in 1..Len(secs) BY Entries
      <3> QED BY <3>2, <3>4, <3>5
    <2>3. seek' # "yes" => whole = {} BY <2>1 DEF Stored, Base, TypeOK
    <2> QED BY <1>0, <2>1, <2>2, <2>3 DEF FileFresh, Ends
  <1>2. CASE OpenFile
    <2>1. /\ pc = "open" /\ pc' = "read" /\ run' = run
          /\ pos = 0 /\ pos' = IF seek = "yes" THEN Len(log[run]) ELSE 0
          /\ UNCHANGED <<whole, twice, reread>>
      BY <1>2 DEF OpenFile, Base, Placed, outsideVars, storeVars
    <2> QED BY <1>0, <2>1 DEF FileFresh, Ends
  <1>3. CASE OpenFails \/ ReadFails \/ StopTail
    <2>1. pc' = "ended" /\ UNCHANGED <<whole, twice, reread>>
      BY <1>3 DEF OpenFails, ReadFails, StopTail, Return, Locals, outsideVars, storeVars
    <2> QED BY <1>0, <2>1 DEF FileFresh, Ends
  <1>4. ASSUME pc \in {"read", "eof", "sleep"}, pc' \in {"read", "eof", "sleep", "open"},
               UNCHANGED <<whole, twice, reread>>,
               \/ run' = run + 1
               \/ run' = run /\ pos' \in Nat /\ pos' >= pos
        PROVE  FileFresh'
    <2>1. \A n \in Runs : \A i \in 1..Len(log[n]) :
            n > run' \/ (n = run' /\ i > pos') => n > run \/ (n = run /\ i > pos)
      BY <1>0, <1>4 DEF Runs
    <2> QED BY <1>0, <1>4, <2>1 DEF FileFresh, Ends
  <1>5. CASE ReadRecord
    <2> DEFINE k == pos + 1
               r == log[run][k]
    <2>1. /\ pc = "read" /\ pc' = pc /\ run' = run /\ reread' = reread
          /\ run \in Runs /\ pos < Len(log[run])
      BY <1>5, StreamAssumption DEF ReadRecord, outsideVars, Base, TypeOK, Placed, Runs
    <2>2. Len(log[run]) \in Nat /\ k \in 1..Len(log[run]) BY <1>0, <2>1, Entries
    <2>3. CASE r.as = "full"
      <3>1. pos' = k /\ (Keep(r.line) \/ KeepFragment)
        BY <1>5, <2>3 DEF ReadRecord
      <3>2. CASE Keep(r.line)
        <4>1. Ends(run, k) BY <2>3 DEF Ends
        <4>2. k > pos /\ pos' >= k /\ pos' \in Nat BY <1>0, <3>1
        <4> QED BY <1>0, <2>1, <2>2, <3>2, <4>1, <4>2, KeepFileFresh
      <3>3. CASE KeepFragment
        <4>1. UNCHANGED <<whole, twice>> BY <3>3 DEF KeepFragment, storeVars
        <4> QED BY <1>0, <1>4, <2>1, <3>1, <4>1
      <3> QED BY <3>1, <3>2, <3>3
    <2>4. CASE r.as = "part" \/ r.as = "rest"
      <3>1. pos' = k /\ UNCHANGED <<whole, twice>>
        BY <1>5, <2>4 DEF ReadRecord, KeepFragment, storeVars
      <3> QED BY <1>0, <1>4, <2>1, <3>1
    <2>5. CASE r.as = "head"
      <3>1. pos' = k + 1 /\ Keep(r.line) /\ k < Len(log[run]) BY <1>5, <2>5 DEF ReadRecord
      <3>2. ~Ends(run, k) BY <2>5 DEF Ends
      <3>3. k + 1 \in 1..Len(log[run]) BY <2>2, <3>1
      <3>4. log[run][k + 1].line = r.line /\ Ends(run, k + 1)
        BY <2>1, <2>2, <3>2, <3>3 DEF Order
      <3>5. k + 1 > pos /\ pos' >= k + 1 /\ pos' \in Nat BY <1>0, <3>1
      <3>6. Keep(log[run][k + 1].line) BY <3>1, <3>4
      <3> QED BY <1>0, <2>1, <3>3, <3>4, <3>5, <3>6, KeepFileFresh
    <2> QED BY <1>5, <2>3, <2>4, <2>5 DEF ReadRecord
  <1>6. CASE ReadEnd
    <2>1. /\ pc = "read" /\ pc' = "eof" /\ run' = run /\ UNCHANGED <<whole, twice, reread>>
          /\ pos' = Len(log[run]) /\ run \in Runs /\ pos <= Len(log[run])
      BY <1>6, StreamAssumption
      DEF ReadEnd, outsideVars, storeVars, Base, TypeOK, Placed, Runs
    <2>2. Len(log[run]) \in Nat BY <2>1, Entries
    <2> QED BY <1>0, <1>4, <2>1, <2>2
  <1>7. CASE Stat
    <2>1. /\ pc = "eof" /\ pc' \in {"open", "sleep"} /\ UNCHANGED <<whole, twice, reread>>
          /\ run' = run + 1 \/ (run' = run /\ pos' = pos)
      BY <1>7 DEF Stat, KeepFragment, outsideVars, storeVars
    <2> QED BY <1>0, <1>4, <2>1
  <1>8. CASE Wake
    <2>1. /\ pc = "sleep" /\ pc' = "read" /\ UNCHANGED <<whole, twice, reread, run, pos>>
      BY <1>8 DEF Wake, outsideVars, storeVars
    <2> QED BY <1>0, <1>4, <2>1
  <1> QED BY <1>1, <1>2, <1>3, <1>5, <1>6, <1>7, <1>8 DEF FileStep

LEMMA ContainerApiFresh ==
    ASSUME Base, Structure, Stored, ApiPast, ApiFresh, source = "api", Container
    PROVE  ApiFresh'
  <1>0. UNCHANGED <<source, pc, cancelled, run, pos, since, got, born, whole>>
    BY ContainerFrame
  <1>1. /\ clock \in Nat /\ Len(secs) \in Nat /\ since \in Int /\ got \in Int
        /\ since <= clock /\ got <= clock /\ pos \in Nat
    BY SecsType, StreamAssumption DEF ApiPast, Base, TypeOK, None
  <1>2. ASSUME NEW as \in {"full", "part", "head"}, WriteLine(as) PROVE ApiFresh'
    <2> DEFINE r == [line |-> Len(secs) + 1, as |-> as]
    <2>1. /\ up = "yes" /\ Len(secs) + 1 <= MaxLines
          /\ log' = [log EXCEPT ![Current] = Append(@, r)]
          /\ secs' = Append(secs, clock)
      BY <1>2 DEF WriteLine
    <2>2. r \in Records
      <3>1. Len(secs) + 1 \in Lines BY <1>1, <2>1, StreamAssumption DEF Lines
      <3> QED BY <3>1 DEF Records
    <2>3. Current \in Runs BY <2>1, CurrentFile
    <2>4. /\ \A n \in Runs : \A i \in 1..Len(log[n]) : log'[n][i] = log[n][i]
          /\ \A n \in Runs : \A i \in 1..Len(log'[n]) :
                \/ i \in 1..Len(log[n])
                \/ n = Current /\ i = Len(log[n]) + 1 /\ i = Len(log'[n]) /\ log'[n][i] = r
      <3> HIDE DEF r
      <3> QED BY <2>1, <2>2, Grown
    <2>5. /\ \A l \in 1..Len(secs) : secs'[l] = secs[l]
          /\ secs'[Len(secs) + 1] = clock
      BY <2>1 DEF Base, TypeOK
    <2>6. \A l \in whole : secs'[l] = secs[l] BY <2>5 DEF Stored
    <2>7. ASSUME pc = "stream"
          PROVE  \A i \in 1..Len(log'[run]) :
                    i > pos => secs'[log'[run][i].line] >= since /\ secs'[log'[run][i].line] >= got
      <3> SUFFICES ASSUME NEW i \in 1..Len(log'[run]), i > pos
                   PROVE  secs'[log'[run][i].line] >= since /\ secs'[log'[run][i].line] >= got
        OBVIOUS
      <3>1. run \in Runs BY <2>7, StreamAssumption DEF Base, TypeOK, Placed, Runs
      <3>2. CASE i \in 1..Len(log[run])
        <4>1. log[run][i].line \in 1..Len(secs) BY <3>1, <3>2, Entries
        <4>2. secs'[log'[run][i].line] = Second(run, i)
          BY <2>4, <2>5, <3>1, <3>2, <4>1 DEF Second
        <4> QED BY <2>7, <3>2, <4>2 DEF ApiFresh
      <3>3. CASE i \notin 1..Len(log[run])
        <4>1. log'[run][i].line = Len(secs) + 1 BY <2>4, <3>1, <3>3
        <4> QED BY <1>1, <2>5, <4>1
      <3> QED BY <3>2, <3>3
    <2> QED BY <1>0, <2>6, <2>7 DEF ApiFresh, Second
  <1>3. CASE FinishLine
    <2>1. Len(log[Current]) > 0 /\ up = "yes" BY <1>3 DEF FinishLine, Open
    <2>2. Current \in Runs /\ Len(log[Current]) \in 1..Len(log[Current])
      BY <2>1, CurrentFile
    <2>3. log[Current][Len(log[Current])].as = "full" BY <2>2 DEF Structure, Kinds
    <2> QED BY <1>3, <2>3 DEF FinishLine, Open
  <1>4. CASE Begin \/ Exit \/ Report \/ PodFinishes \/ PodGoes \/ Tick
    <2>1. UNCHANGED <<log, secs>>
      BY <1>4 DEF Begin, Exit, Report, PodFinishes, PodGoes, Tick, containerVars
    <2> QED BY <1>0, <2>1 DEF ApiFresh, Second
  <1> QED BY <1>2, <1>3, <1>4 DEF Container

LEMMA ApiFreshKept ==
    ASSUME Base, Structure, Stored, ApiPast, ApiFresh, source = "api", ApiStep
    PROVE  ApiFresh'
  <1>0. UNCHANGED <<begun, log, secs, clock, source>> BY StreamFrame DEF StreamStep
  <1>1. /\ clock \in Nat /\ clock >= 1 /\ since \in Int /\ got \in Int /\ born \in Int
        /\ since <= clock /\ got <= clock
    BY SecsType, StreamAssumption DEF ApiPast, Base, TypeOK, None
  <1>2. \A l \in whole : secs[l] \in Nat /\ secs[l] <= clock
    BY SecsType DEF Stored, Structure, Sorted
  <1>3. CASE StartApi
    <2>1. /\ pc = "start" /\ pc' = "open" /\ got' = got /\ born' = clock /\ whole' = whole
          /\ since' = IF content = "yes" THEN clock - 1 ELSE None
      BY <1>3 DEF StartApi, storeVars
    <2>2. got' = None BY <2>1 DEF ApiFresh
    <2>3. content # "yes" => whole = {} BY DEF Stored, Base, TypeOK
    <2> QED BY <1>0, <1>1, <1>2, <2>1, <2>2, <2>3 DEF ApiFresh
  <1>4. CASE Connect
    <2>1. /\ pc = "open" /\ pc' = "stream" /\ got' = None /\ since' = since /\ born' = born
          /\ whole' = whole /\ run' = Current /\ begun > 0
          /\ \A i \in 1..Len(log[Current]) : i > pos' => Second(Current, i) >= since
      BY <1>4 DEF Connect, storeVars
    <2>2. got = None BY <2>1 DEF ApiFresh
    <2>3. Current \in Runs BY <2>1, StreamAssumption DEF Current, Runs, Base, TypeOK
    <2>4. \A i \in 1..Len(log[Current]) : Second(Current, i) >= None
      <3> SUFFICES ASSUME NEW i \in 1..Len(log[Current]) PROVE Second(Current, i) >= None
        OBVIOUS
      <3>1. Second(Current, i) \in Nat BY <2>3, SecondType, StreamAssumption
      <3> QED BY <3>1 DEF None
    <2> QED BY <1>0, <2>1, <2>2, <2>4 DEF ApiFresh, Second
  <1>5. CASE ConnectFails
    <2>1. /\ pc = "open" /\ pc' = "judge" /\ got' = None
          /\ UNCHANGED <<since, born, whole>>
      BY <1>5 DEF ConnectFails, storeVars
    <2>2. got = None BY <2>1 DEF ApiFresh
    <2> QED BY <1>0, <2>1, <2>2 DEF ApiFresh
  <1>6. CASE StreamEnds \/ Break
    <2>1. pc = "stream" /\ pc' = "judge" /\ UNCHANGED <<since, got, born, whole>>
      BY <1>6 DEF StreamEnds, Break, storeVars
    <2> QED BY <1>0, <2>1 DEF ApiFresh
  <1>7. ASSUME pc = "stream", pos < Len(log[run])
        PROVE  /\ run \in Runs /\ pos \in Nat /\ pos + 1 \in 1..Len(log[run])
               /\ Second(run, pos + 1) \in Nat
               /\ Second(run, pos + 1) >= since /\ Second(run, pos + 1) >= got
    <2>1. run \in Runs /\ pos \in Nat
      BY <1>7, StreamAssumption DEF Base, TypeOK, Placed, Runs
    <2>2. Len(log[run]) \in Nat /\ pos + 1 \in 1..Len(log[run]) BY <1>7, <2>1, Entries
    <2>3. Second(run, pos + 1) \in Nat BY <2>1, <2>2, SecondType, StreamAssumption
    <2>4. pos + 1 > pos BY <2>1
    <2> QED BY <1>7, <2>1, <2>2, <2>3, <2>4 DEF ApiFresh
  <1>8. CASE Receive
    <2> DEFINE l == log[run][pos + 1].line
    <2>1. /\ pc = "stream" /\ pc' = "stream" /\ pos < Len(log[run]) /\ pos' = pos + 1
          /\ run' = run /\ since' = since /\ born' = born
          /\ got' = secs[l] /\ whole' \subseteq whole \cup {l}
      BY <1>8 DEF Receive, Keep, storeVars
    <2>2. secs[l] = Second(run, pos + 1) BY DEF Second
    <2>3. secs[l] \in Nat /\ secs[l] >= since /\ secs[l] >= got BY <1>7, <2>1, <2>2
    <2>4. \A i \in 1..Len(log[run]) :
            i > pos + 1 => Second(run, i) >= since /\ Second(run, i) >= secs[l]
      <3> SUFFICES ASSUME NEW i \in 1..Len(log[run]), i > pos + 1
                   PROVE  Second(run, i) >= since /\ Second(run, i) >= secs[l]
        OBVIOUS
      <3>1. run \in Runs /\ pos \in Nat /\ pos + 1 \in 1..Len(log[run]) BY <1>7, <2>1
      <3>2. pos + 1 <= i BY <3>1
      <3>3. Second(run, pos + 1) <= Second(run, i)
        BY <3>1, <3>2, InOrder DEF Structure
      <3>4. Second(run, i) \in Nat BY <3>1, SecondType, StreamAssumption
      <3> QED BY <1>1, <2>2, <2>3, <3>3, <3>4
    <2>5. \A k \in whole' : \/ secs[k] <= since \/ secs[k] <= secs[l]
                            \/ secs[k] <= born /\ since >= born - 1
      <3> SUFFICES ASSUME NEW k \in whole', k # l
                   PROVE  \/ secs[k] <= since \/ secs[k] <= secs[l]
                          \/ secs[k] <= born /\ since >= born - 1
        BY <2>3
      <3>1. k \in whole /\ secs[k] \in Nat BY <1>2, <2>1
      <3>2. \/ secs[k] <= since \/ secs[k] <= got
            \/ secs[k] <= born /\ since >= born - 1
        BY <2>1, <3>1 DEF ApiFresh
      <3> QED BY <1>1, <2>3, <3>1, <3>2
    <2>6. born >= 1 BY <2>1 DEF ApiFresh
    <2> HIDE DEF l
    <2> QED BY <1>0, <2>1, <2>3, <2>4, <2>5, <2>6 DEF ApiFresh, Second
  <1>9. CASE BreakInLine
    <2>1. /\ pc = "stream" /\ pc' = "judge" /\ pos < Len(log[run])
          /\ UNCHANGED <<since, born, whole>>
          /\ got' = Second(run, pos + 1) \/ got' = clock
      BY <1>9 DEF BreakInLine
    <2>2. got' \in Int /\ got' >= since /\ got' >= got BY <1>1, <1>7, <2>1
    <2>3. \A l \in whole : \/ secs[l] <= since \/ secs[l] <= got'
                           \/ secs[l] <= born /\ since >= born - 1
      <3> SUFFICES ASSUME NEW l \in whole
                   PROVE  \/ secs[l] <= since \/ secs[l] <= got'
                          \/ secs[l] <= born /\ since >= born - 1
        OBVIOUS
      <3>1. \/ secs[l] <= since \/ secs[l] <= got
            \/ secs[l] <= born /\ since >= born - 1
        BY <2>1 DEF ApiFresh
      <3> QED BY <1>1, <1>2, <2>2, <3>1
    <2>4. born >= 1 BY <2>1 DEF ApiFresh
    <2> QED BY <1>0, <2>1, <2>2, <2>3, <2>4 DEF ApiFresh
  <1>10. CASE Judge
    <2>1. CASE pc' = "ended"
      <3>1. got' = None BY <1>10, <2>1 DEF Judge, Return, Locals, Between
      <3> QED BY <1>0, <2>1, <3>1 DEF ApiFresh
    <2>2. CASE pc' # "ended"
      <3>1. /\ pc = "judge" /\ cancelled = "no" /\ pc' = "pause" /\ got' = None
            /\ since' = (IF got # None THEN got ELSE since) /\ born' = born /\ whole' = whole
        BY <1>10, <2>2 DEF Judge, Return, Locals, Between, storeVars
      <3>2. born >= 1 /\ (got # None => got >= since) BY <3>1 DEF ApiFresh
      <3>3. \A l \in whole : \/ secs[l] <= since'
                             \/ secs[l] <= born /\ since' >= born - 1
        <4> SUFFICES ASSUME NEW l \in whole
                     PROVE  secs[l] <= since' \/ (secs[l] <= born /\ since' >= born - 1)
          OBVIOUS
        <4>1. \/ secs[l] <= since \/ secs[l] <= got
              \/ secs[l] <= born /\ since >= born - 1
          BY <3>1 DEF ApiFresh
        <4>2. secs[l] \in Nat BY <1>2
        <4> QED BY <1>1, <3>1, <3>2, <4>1, <4>2 DEF None
      <3> QED BY <1>0, <3>1, <3>2, <3>3 DEF ApiFresh
    <2> QED BY <2>1, <2>2
  <1>11. CASE Resume
    <2>1. CASE pc' = "ended"
      <3>1. got' = None BY <1>11, <2>1 DEF Resume, Return, Locals, Between
      <3> QED BY <1>0, <2>1, <3>1 DEF ApiFresh
    <2>2. CASE pc' # "ended"
      <3>1. /\ pc = "pause" /\ pc' = "open" /\ got' = None
            /\ UNCHANGED <<since, born, whole>>
        BY <1>11, <2>2 DEF Resume, Return, Locals, Between, storeVars
      <3>2. got = None BY <3>1 DEF ApiFresh
      <3> QED BY <1>0, <3>1, <3>2 DEF ApiFresh
    <2> QED BY <2>1, <2>2
  <1>12. CASE StopApi
    <2>1. pc' = "judge" /\ cancelled' = "yes"
      BY <1>12 DEF StopApi, apiUnchanged, outsideVars
    <2> QED BY <1>0, <2>1 DEF ApiFresh
  <1> QED BY <1>3, <1>4, <1>5, <1>6, <1>8, <1>9, <1>10, <1>11, <1>12 DEF ApiStep

LEMMA NextFresh == Base /\ Structure /\ Past /\ Fresh /\ [Next]_vars => Fresh'
  <1> SUFFICES ASSUME Base, Structure, Past, Fresh, [Next]_vars PROVE Fresh' OBVIOUS
  <1>0. source \in {"file", "api"} BY DEF Base, TypeOK
  <1>1. Stored' BY StoredKept DEF Fresh
  <1>2. CASE FileStep
    <2>1. source = "file" /\ source' = "file"
      BY <1>2, StreamFrame DEF FileStep, StreamStep, StartTail, OpenFile, OpenFails, ReadRecord,
         ReadEnd, ReadFails, Stat, Wake, StopTail
    <2>2. FileFresh' BY <1>2, <2>1, FileFreshKept DEF Fresh, Structure
    <2> QED BY <1>1, <2>1, <2>2 DEF Fresh, ApiFresh
  <1>3. CASE ApiStep
    <2>1. source = "api" /\ source' = "api"
      BY <1>3, StreamFrame DEF ApiStep, StreamStep, StartApi, Connect, ConnectFails, Receive,
         StreamEnds, Break, BreakInLine, Judge, Resume, StopApi
    <2>2. ApiFresh' BY <1>3, <2>1, ApiFreshKept DEF Past, Fresh
    <2> QED BY <1>1, <2>1, <2>2 DEF Fresh, FileFresh
  <1>4. CASE Container
    <2>1. source' = source BY <1>4, ContainerFrame
    <2>2. CASE source = "file"
      <3>1. FileFresh' BY <1>4, <2>2, ContainerFileFresh DEF Fresh, Structure
      <3> QED BY <1>1, <2>1, <2>2, <3>1 DEF Fresh, ApiFresh
    <2>3. CASE source = "api"
      <3>1. ApiFresh' BY <1>4, <2>3, ContainerApiFresh DEF Past, Fresh
      <3> QED BY <1>1, <2>1, <2>3, <3>1 DEF Fresh, FileFresh
    <2> QED BY <1>0, <2>2, <2>3
  <1>5. CASE Cancel \/ UNCHANGED vars
    <2>1. /\ UNCHANGED <<source, log, secs, pc, run, pos, seek, since, got, born, whole, twice,
                         reread>>
          /\ cancelled' = cancelled \/ cancelled' = "yes"
      BY <1>5 DEF Cancel, vars, containerVars, fileVars, apiVars, storeVars
    <2>2. FileFresh' BY <2>1 DEF Fresh, FileFresh, Ends
    <2>3. ApiFresh' BY <2>1 DEF Fresh, ApiFresh, Second
    <2> QED BY <1>1, <2>2, <2>3 DEF Fresh
  <1>6. CASE Restart
    <2>1. /\ UNCHANGED <<source, log, secs, whole, twice, reread>>
          /\ pc' = "start" /\ got' = None
      BY <1>6 DEF Restart, Locals, containerVars, storeVars
    <2>2. FileFresh' BY <2>1 DEF Fresh, FileFresh, Ends
    <2>3. ApiFresh' BY <2>1 DEF Fresh, ApiFresh
    <2> QED BY <1>1, <2>2, <2>3 DEF Fresh
  <1> QED BY <1>2, <1>3, <1>4, <1>5, <1>6 DEF Next, StreamStep

LEMMA FreshHolds == Spec => [](Base /\ Fresh)
  BY InitPast, InitFresh, NextPast, NextFresh, BaseHolds, PTL DEF Spec

\* A tail stores no line twice, unless the collector was started again before the
\* restart count of the pod's status was that of the file (runFileTail).
THEOREM TwiceIsStale == Spec => []TwiceOnlyIfStale
  <1>1. Base /\ Fresh => TwiceOnlyIfStale BY DEF Fresh, FileFresh, TwiceOnlyIfStale
  <1> QED BY <1>1, FreshHolds, PTL

\* What a new connection sends again is of the second it resumes from, or of the
\* two seconds around the start of the stream (runAPIStream).
THEOREM OneSecondReplayed == Spec => []ReplaysOneSecond
  <1>1. Base /\ Fresh => ReplaysOneSecond
    <2> SUFFICES ASSUME Base, Fresh, source = "api", pc = "stream", got = None,
                        NEW i \in (pos + 1)..Len(log[run]), log[run][i].line \in whole
                 PROVE  Second(run, i) = since \/ Second(run, i) \in {born - 1, born}
      BY DEF ReplaysOneSecond
    <2>1. run \in Runs /\ pos \in Nat
      BY StreamAssumption DEF Base, TypeOK, Placed, Runs
    <2>2. Len(log[run]) \in Nat BY <2>1, Entries
    <2>3. i \in 1..Len(log[run]) /\ i > pos BY <2>1, <2>2
    <2>4. Second(run, i) \in Nat BY <2>1, <2>3, SecondType, StreamAssumption
    <2>5. Second(run, i) >= since BY <2>3 DEF Fresh, ApiFresh
    <2>6. \/ Second(run, i) <= since \/ Second(run, i) <= got
          \/ Second(run, i) <= born /\ since >= born - 1
      BY DEF Fresh, ApiFresh, Second
    <2>7. since \in Int /\ born \in Int BY DEF Base, TypeOK, None
    <2> QED BY <2>4, <2>5, <2>6, <2>7 DEF None
  <1> QED BY <1>1, FreshHolds, PTL

\* What is stored twice has its reason, for a tail and for a connection
\* (runFileTail, runAPIStream).
THEOREM DuplicatesExcused == Spec => []TwiceIsExcused
  <1>1. TwiceOnlyIfStale /\ ReplaysOneSecond => TwiceIsExcused
    BY DEF TwiceIsExcused
  <1> QED BY <1>1, TwiceIsStale, OneSecondReplayed, PTL
=============================================================================
