-------------------------- MODULE ContainerStream --------------------------
(***************************************************************************)
(* One container's stream (runStream of internal/collector): the tail of   *)
(* its log files on the node (runFileTail) or the follow stream of the log *)
(* API (runAPIStream), against the container that writes, restarts and     *)
(* finishes, the kubelet that reports restarts late, calls that fail,      *)
(* cancellation, and restarts of the collector.                            *)
(*                                                                         *)
(* Lines are numbered in the order the container writes them; secs has the *)
(* second of each.  A log file is a sequence of records.  A line is one    *)
(* record ("full"), or a partial record and the full one that ends it      *)
(* ("part", "full"), or a record that reaches the file in two writes       *)
(* ("head", "rest").  The log API reads the current file by lines.         *)
(*                                                                         *)
(* Restart separators, the JSON flag, and how lines are stored are left    *)
(* out (the last two are in Streams and SegmentStore).                     *)
(***************************************************************************)
EXTENDS Integers, Sequences

CONSTANTS
    Sources,        \* "file", "api", or both: which way Init may choose
    MaxLines,       \* bound on the lines the container writes
    MaxRuns,        \* bound on the times it is started
    MaxSecond,      \* bound on the clock
    MaxBackoff,     \* c.apiMaxBackoff, where c.apiMinBackoff is 1
    MaxFaults,      \* bound on failing calls and broken connections
    MaxStarts       \* bound on restarts of the collector

ASSUME StreamAssumption ==
    /\ Sources \subseteq {"file", "api"} /\ Sources # {}
    /\ MaxLines \in Nat /\ MaxRuns \in Nat /\ MaxSecond \in Nat \ {0}
    /\ MaxBackoff \in Nat \ {0} /\ MaxFaults \in Nat /\ MaxStarts \in Nat

Lines   == 1..MaxLines
Runs    == 0..(MaxRuns - 1)
Records == [line : Lines, as : {"full", "part", "head", "rest"}]
None    == -1

VARIABLES
    \* the container
    begun, up,      \* how often it has been started, whether it is running
    pod,            \* "there", "finished" or "gone"
    status,         \* the restart count its pod's status reports
    log,            \* run -> its log file, which exists once begun > run
    secs, clock,
    \* the stream
    source, pc, cancelled,
    run, pos,       \* the file it reads, or the API serves; the records read
    seek,           \* seekToEnd
    partial,        \* the line in the buffer, 0 if none
    watch, signal,  \* whether inotify works, and has something to say
    since, got,     \* runAPIStream's since, streamAPIOnce's lastLine
    ended,          \* how the connection ended: "eof" or "error"
    backoff,
    \* what is stored
    content,        \* HasContent
    whole, twice,   \* lines stored whole, and more than once
    faults, starts,
    \* history, read only by the properties
    excused,        \* lines that may be missing
    reread,         \* lines stored from files later than status said at a start
    born,           \* the second in which the API stream was started
    news            \* whether the connection has brought a line not stored

containerVars == <<begun, up, pod, log, secs>>
fileVars == <<seek, partial, watch>>
apiVars  == <<since, got, ended, backoff, born, news>>
storeVars == <<content, whole, twice>>
vars == <<containerVars, status, clock, source, pc, cancelled, run, pos, fileVars,
          signal, apiVars, storeVars, faults, starts, excused, reread>>

Fault == faults < MaxFaults /\ faults' = faults + 1

LinesIn(n) == {log[n][i].line : i \in 1..Len(log[n])}

Init ==
    /\ begun = 0 /\ up = "no" /\ pod = "there" /\ status = 0
    /\ log = [n \in Runs |-> <<>>] /\ secs = <<>> /\ clock = 1
    /\ source \in Sources /\ pc = "start" /\ cancelled = "no"
    /\ run = 0 /\ pos = 0 /\ seek = "no" /\ partial = 0 /\ watch = "no" /\ signal = "no"
    /\ since = None /\ got = None /\ ended = "eof" /\ backoff = 1
    /\ content = "no" /\ whole = {} /\ twice = {}
    /\ faults = 0 /\ starts = 0
    /\ excused = {} /\ reread = {} /\ born = 0 /\ news = "no"

-----------------------------------------------------------------------------
(* The container, the kubelet and the clock.                               *)

streamVars == <<source, pc, cancelled, run, pos, fileVars, apiVars, storeVars, faults,
                starts, reread>>

Current == begun - 1

\* Something is written to the container's directory; what is written to a file
\* whose end the stream has just seen, or will seek to, it may never read.
Signal == signal' = watch
Missable(n) == source = "file" /\ run = n /\ (pc = "eof" \/ (pc = "open" /\ seek = "yes"))

\* The last line of the current file still lacks its last record.
Open == Len(log[Current]) > 0 /\ log[Current][Len(log[Current])].as \in {"part", "head"}

\* A line reaches the file, in one record or the first of two.
WriteLine(as) ==
    LET l == Len(secs) + 1 IN
    /\ up = "yes" /\ l <= MaxLines /\ ~Open
    /\ as = "full" \/ source = "file"
    /\ log' = [log EXCEPT ![Current] = Append(@, [line |-> l, as |-> as])]
    /\ secs' = Append(secs, clock)
    /\ excused' = IF as = "head" \/ Missable(Current) THEN excused \cup {l} ELSE excused
    /\ Signal
    /\ UNCHANGED <<begun, up, pod, status, clock, streamVars>>

\* The second record of a line.
FinishLine ==
    LET l == Len(secs) IN
    /\ up = "yes" /\ Open
    /\ log' = [log EXCEPT ![Current] =
                  Append(@, [line |-> l, as |-> IF @[Len(@)].as = "head" THEN "rest" ELSE "full"])]
    /\ excused' = IF Missable(Current) THEN excused \cup {l} ELSE excused
    /\ Signal
    /\ UNCHANGED <<begun, up, pod, secs, status, clock, streamVars>>

\* The container is started for the first time or again, and exits.
Begin ==
    /\ up = "no" /\ pod = "there" /\ begun < MaxRuns
    /\ begun' = begun + 1 /\ up' = "yes"
    /\ Signal
    /\ UNCHANGED <<pod, log, secs, status, clock, excused, streamVars>>

Exit ==
    /\ up = "yes" /\ up' = "no"
    /\ UNCHANGED <<begun, pod, log, secs, status, clock, signal, excused, streamVars>>

\* The kubelet reports the restart count, some time after a restart.
Report ==
    /\ source = "file"
    /\ begun > 0 /\ status' = Current
    /\ UNCHANGED <<containerVars, clock, signal, excused, streamVars>>

\* Only the API's stream asks for the pod.
PodFinishes ==
    /\ source = "api"
    /\ up = "no" /\ begun > 0 /\ pod = "there" /\ pod' = "finished"
    /\ UNCHANGED <<begun, up, log, secs, status, clock, signal, excused, streamVars>>

\* Deleted.  (Another pod of the name, whose log a reconnect would read, is left
\* out; podFinished tells it from this one.)
PodGoes ==
    /\ source = "api"
    /\ pod # "gone" /\ pod' = "gone" /\ up' = "no"
    /\ UNCHANGED <<begun, log, secs, status, clock, signal, excused, streamVars>>

\* Time passes; the tail does not look at it.
Tick ==
    /\ source = "api"
    /\ clock < MaxSecond /\ clock' = clock + 1
    /\ UNCHANGED <<containerVars, status, signal, excused, streamVars>>

-----------------------------------------------------------------------------
(* Storing a line: writeLogLine drops it if the write fails.               *)

outsideVars == <<containerVars, status, clock, source, cancelled, starts, reread>>

Keep(l) ==
    \/ /\ content' = "yes"
       /\ whole' = whole \cup {l} /\ twice' = twice \cup ({l} \cap whole)
       /\ UNCHANGED <<faults, excused>>
    \/ /\ Fault
       /\ excused' = excused \cup {l}
       /\ UNCHANGED storeVars

\* Only a part of a line, stored as a line of its own.
KeepFragment ==
    \/ /\ content' = "yes"
       /\ UNCHANGED <<whole, twice, faults>>
    \/ Fault /\ UNCHANGED storeVars

\* The stream's goroutine with what it knows: at its start, and at its end.
Locals(at) ==
    /\ pc' = at
    /\ run' = 0 /\ pos' = 0 /\ seek' = "no" /\ partial' = 0 /\ watch' = "no" /\ signal' = "no"
    /\ since' = None /\ got' = None /\ ended' = "eof" /\ backoff' = 1 /\ born' = 0 /\ news' = "no"

Return == Locals("ended")

-----------------------------------------------------------------------------
(* The file tail.                                                          *)

Behind(n) == UNION {LinesIn(m) : m \in {x \in Runs : x < n}}
Written   == UNION {LinesIn(m) : m \in Runs}

\* Mutant: the tail begins with the first file whatever the restart count.
FirstFileStartTail ==
    /\ source = "file" /\ pc = "start"
    /\ run' = 0 /\ pos' = 0 /\ partial' = 0
    /\ seek' = content
    /\ watch' \in {"yes", "no"} /\ signal' = "no"
    /\ excused' = excused \cup (IF content = "yes" THEN Written ELSE Behind(status))
    /\ reread' = reread \cup (whole \ Behind(status + 1))
    /\ pc' = "open"
    /\ UNCHANGED <<containerVars, status, clock, source, cancelled, starts, apiVars, storeVars, faults>>

\* inotify may be unavailable, or the directory not there yet.
StartTail ==
    /\ source = "file" /\ pc = "start"
    /\ run' = status /\ pos' = 0 /\ partial' = 0
    /\ seek' = content
    /\ watch' \in {"yes", "no"} /\ signal' = "no"
    /\ excused' = excused \cup (IF content = "yes" THEN Written ELSE Behind(status))
    /\ reread' = reread \cup (whole \ Behind(status + 1))
    /\ pc' = "open"
    /\ UNCHANGED <<containerVars, status, clock, source, cancelled, starts, apiVars, storeVars, faults>>

\* Mutant: the tail goes to the end of every file it opens.
SeekOnOpenFile ==
    /\ source = "file" /\ pc = "open" /\ run < begun
    /\ pos' = IF content = "yes" THEN Len(log[run]) ELSE 0
    /\ seek' = "no"
    /\ pc' = "read"
    /\ UNCHANGED <<outsideVars, run, partial, watch, signal, apiVars, storeVars, faults, excused>>

\* waitForLogFile returns the file; the first is read from its end if there is
\* anything stored.
OpenFile ==
    /\ source = "file" /\ pc = "open" /\ run < begun
    /\ pos' = IF seek = "yes" THEN Len(log[run]) ELSE 0
    /\ seek' = "no"
    /\ pc' = "read"
    /\ UNCHANGED <<outsideVars, run, partial, watch, signal, apiVars, storeVars, faults, excused>>

\* It gives up: the file cannot be opened, or has not appeared for 60 seconds,
\* as the poll notices, or an event of inotify about some other file.
OpenFails ==
    /\ source = "file" /\ pc = "open"
    /\ Fault \/ (run >= begun /\ UNCHANGED faults)
    /\ Return
    /\ UNCHANGED <<outsideVars, storeVars, excused>>

\* The buffer holds all of the line that this record ends.
Assembled(i) ==
    \/ partial # 0
    \/ i = 1 \/ log[run][i - 1].as # "part"

\* ReadString returns a record, and the partial ones are put together.
ReadRecord ==
    /\ source = "file" /\ pc = "read" /\ pos < Len(log[run])
    /\ LET i == pos + 1  r == log[run][i] IN
       \/ /\ r.as = "full"
          /\ pos' = i /\ partial' = 0
          /\ IF Assembled(i) THEN Keep(r.line) ELSE KeepFragment /\ UNCHANGED excused
       \/ /\ r.as = "part"
          /\ pos' = i /\ partial' = r.line
          /\ UNCHANGED <<storeVars, faults, excused>>
       \/ /\ r.as = "head" /\ i < Len(log[run])
          /\ pos' = i + 1 /\ partial' = 0
          /\ Keep(r.line)
       \/ /\ r.as = "rest"
          /\ pos' = i /\ partial' = 0
          /\ KeepFragment /\ UNCHANGED excused
    /\ UNCHANGED <<outsideVars, pc, run, seek, watch, signal, apiVars>>

\* At the end of the file ReadString drops the beginning of a record.
ReadEnd ==
    /\ source = "file" /\ pc = "read"
    /\ \/ pos = Len(log[run])
       \/ pos = Len(log[run]) - 1 /\ log[run][pos + 1].as = "head"
    /\ pos' = Len(log[run])
    /\ pc' = "eof"
    /\ UNCHANGED <<outsideVars, run, fileVars, signal, apiVars, storeVars, faults, excused>>

ReadFails ==
    /\ source = "file" /\ pc = "read" /\ Fault
    /\ Return
    /\ UNCHANGED <<outsideVars, storeVars, excused>>

\* Mutant: events that are queued are dropped before the tail waits.
ForgetfulStat ==
    /\ source = "file" /\ pc = "eof"
    /\ \/ /\ run + 1 < begun
          /\ run' = run + 1 /\ pos' = 0 /\ partial' = 0
          /\ pc' = "open" /\ UNCHANGED signal
          /\ KeepFragment
       \/ /\ run + 1 >= begun
          /\ pc' = "sleep" /\ signal' = "no"
          /\ UNCHANGED <<run, pos, partial, storeVars, faults>>
    /\ UNCHANGED <<outsideVars, seek, watch, apiVars, excused>>

\* The next file is there: the tail stores a separator and moves on; or it is
\* not, and the tail waits.
Stat ==
    /\ source = "file" /\ pc = "eof"
    /\ \/ /\ run + 1 < begun
          /\ run' = run + 1 /\ pos' = 0 /\ partial' = 0
          /\ pc' = "open"
          /\ KeepFragment
       \/ /\ run + 1 >= begun
          /\ pc' = "sleep"
          /\ UNCHANGED <<run, pos, partial, storeVars, faults>>
    /\ UNCHANGED <<outsideVars, seek, watch, signal, apiVars, excused>>

\* An event of inotify, or 500 ms.
Wake ==
    /\ source = "file" /\ pc = "sleep"
    /\ IF watch = "yes" THEN signal = "yes" ELSE cancelled = "no"
    /\ pc' = "read" /\ signal' = "no"
    /\ UNCHANGED <<outsideVars, run, pos, fileVars, apiVars, storeVars, faults, excused>>

\* The tail looks at its context only while it waits.
StopTail ==
    /\ source = "file" /\ cancelled = "yes"
    /\ pc = "sleep" \/ (pc = "open" /\ run >= begun)
    /\ Return
    /\ UNCHANGED <<outsideVars, storeVars, faults, excused>>

-----------------------------------------------------------------------------
(* The log API's stream.                                                   *)

\* Between two calls of streamAPIOnce nothing is left of the last.
Between(at) ==
    /\ pc' = at
    /\ run' = 0 /\ pos' = 0 /\ got' = None /\ ended' = "eof" /\ news' = "no"
    /\ UNCHANGED <<fileVars, signal>>

apiUnchanged == UNCHANGED <<outsideVars, fileVars, signal>>

\* History that is stored is not asked for again.
StartApi ==
    /\ source = "api" /\ pc = "start"
    /\ since' = IF content = "yes" THEN clock - 1 ELSE None
    /\ excused' = IF content = "yes" THEN excused \cup Written ELSE excused
    /\ backoff' = 1 /\ born' = clock /\ pc' = "open"
    /\ UNCHANGED <<got, ended, news, run, pos, storeVars, faults>>
    /\ apiUnchanged

Second(n, i) == secs[log[n][i].line]

\* The API serves the container's last run, from the second that is asked for.
Connect ==
    /\ source = "api" /\ pc = "open" /\ begun > 0 /\ pod # "gone"
    /\ run' = Current
    /\ \E p \in 0..Len(log[Current]) :
          /\ pos' = p
          /\ \A i \in 1..Len(log[Current]) : i > p <=> Second(Current, i) >= since
    /\ got' = None /\ news' = "no" /\ pc' = "stream"
    /\ UNCHANGED <<since, ended, backoff, born, storeVars, faults, excused>>
    /\ apiUnchanged

\* The request fails: without a container or a pod it must.
ConnectFails ==
    /\ source = "api" /\ pc = "open"
    /\ Fault \/ ((begun = 0 \/ pod = "gone") /\ UNCHANGED faults)
    /\ got' = None /\ ended' = "error" /\ pc' = "judge"
    /\ UNCHANGED <<since, backoff, born, news, run, pos, storeVars, excused>>
    /\ apiUnchanged

Receive ==
    /\ source = "api" /\ pc = "stream" /\ pos < Len(log[run])
    /\ LET l == log[run][pos + 1].line IN
       /\ Keep(l)
       /\ got' = secs[l]
       /\ news' = IF l \in whole THEN news ELSE "yes"
    /\ pos' = pos + 1
    /\ UNCHANGED <<since, ended, backoff, born, pc, run>>
    /\ apiUnchanged

\* The container has exited and all of its log is sent.
StreamEnds ==
    /\ source = "api" /\ pc = "stream" /\ pos = Len(log[run])
    /\ run < Current \/ up = "no"
    /\ ended' = "eof" /\ pc' = "judge"
    /\ UNCHANGED <<since, got, backoff, born, news, run, pos, storeVars, faults, excused>>
    /\ apiUnchanged

\* The connection ends early, with an error or without, between two lines.
Break ==
    /\ source = "api" /\ pc = "stream" /\ Fault
    /\ ended' \in {"eof", "error"} /\ pc' = "judge"
    /\ UNCHANGED <<since, got, backoff, born, news, run, pos, storeVars, excused>>
    /\ apiUnchanged

\* It ends within a line, whose first part is stored; if it ends within the
\* line's timestamp, the present serves as its time, and what is older than
\* that is not asked for again.
BreakInLine ==
    /\ source = "api" /\ pc = "stream" /\ pos < Len(log[run]) /\ faults < MaxFaults
    /\ faults' = faults + 1
    /\ content' = "yes" /\ UNCHANGED <<whole, twice>>
    /\ \/ /\ got' = Second(run, pos + 1)
          /\ UNCHANGED excused
       \/ /\ got' = clock
          /\ excused' = excused \cup Written
    /\ ended' \in {"eof", "error"} /\ pc' = "judge"
    /\ UNCHANGED <<since, backoff, born, news, run, pos>>
    /\ apiUnchanged

\* podFinished: it has, or it is gone.
Gone == pod # "there"

\* Mutant: a finished pod is not told from a running one.
BlindJudge ==
    /\ source = "api" /\ pc = "judge"
    /\ \/ /\ cancelled = "yes" \/ (ended = "eof" /\ pod = "gone")
          /\ Return /\ UNCHANGED faults
       \/ /\ cancelled = "no"
          /\ \/ (ended = "error" \/ pod # "gone") /\ UNCHANGED faults
             \/ ended = "eof" /\ Gone /\ Fault
          /\ since' = IF got # None THEN got ELSE since
          /\ backoff' = IF got # None THEN 1 ELSE backoff
          /\ Between("pause") /\ UNCHANGED born
    /\ UNCHANGED <<outsideVars, storeVars, excused>>

\* What runAPIStream does when a stream has ended: it stops if it is cancelled
\* or the pod has finished, which it asks only after a clean end, and may fail
\* to learn; else it goes on from the last line, and starts the backoff over if
\* there was one.
Judge ==
    /\ source = "api" /\ pc = "judge"
    /\ \/ /\ cancelled = "yes" \/ (ended = "eof" /\ Gone)
          /\ Return /\ UNCHANGED faults
       \/ /\ cancelled = "no"
          /\ \/ (ended = "error" \/ ~Gone) /\ UNCHANGED faults
             \/ ended = "eof" /\ Gone /\ Fault
          /\ since' = IF got # None THEN got ELSE since
          /\ backoff' = IF got # None THEN 1 ELSE backoff
          /\ Between("pause") /\ UNCHANGED born
    /\ UNCHANGED <<outsideVars, storeVars, excused>>

\* The backoff has passed, or the context is done.
Resume ==
    /\ source = "api" /\ pc = "pause"
    /\ \/ cancelled = "yes" /\ Return
       \/ /\ cancelled = "no"
          /\ backoff' = IF backoff * 2 < MaxBackoff THEN backoff * 2 ELSE MaxBackoff
          /\ Between("open") /\ UNCHANGED <<since, born>>
    /\ UNCHANGED <<outsideVars, storeVars, faults, excused>>

\* A request or a stream of a context that is done fails.
StopApi ==
    /\ source = "api" /\ cancelled = "yes" /\ pc \in {"open", "stream"}
    /\ pc' = "judge" /\ ended' = "error" /\ got' = None
    /\ UNCHANGED <<since, backoff, born, news, run, pos, storeVars, faults, excused>>
    /\ apiUnchanged

-----------------------------------------------------------------------------
\* OnDelete, a replacement, or Close cancels the stream.
Cancel ==
    /\ cancelled = "no" /\ cancelled' = "yes"
    /\ UNCHANGED <<containerVars, status, clock, source, pc, run, pos, fileVars, signal,
                   apiVars, storeVars, faults, starts, excused, reread>>

\* The collector is killed and started again, and adds the pod anew.
Restart ==
    /\ starts < MaxStarts /\ pod # "gone"
    /\ starts' = starts + 1
    /\ cancelled' = "no" /\ Locals("start")
    /\ UNCHANGED <<containerVars, status, clock, source, storeVars, faults, excused, reread>>

FileStep == \/ StartTail \/ OpenFile \/ OpenFails \/ ReadRecord \/ ReadEnd \/ ReadFails
            \/ Stat \/ Wake \/ StopTail
ApiStep  == \/ StartApi \/ Connect \/ ConnectFails \/ Receive \/ StreamEnds \/ Break
            \/ BreakInLine \/ Judge \/ Resume \/ StopApi
StreamStep == FileStep \/ ApiStep
Container == \/ \E as \in {"full", "part", "head"} : WriteLine(as)
             \/ FinishLine \/ Begin \/ Exit \/ Report \/ PodFinishes \/ PodGoes \/ Tick

Next == StreamStep \/ Container \/ Cancel \/ Restart

\* The stream is a goroutine that runs on; broken connections are bounded, and
\* nothing is expected of the container.
Spec == Init /\ [][Next]_vars /\ WF_vars(StreamStep)

-----------------------------------------------------------------------------
(* Properties.                                                             *)

\* What the variables range over.
TypeOK ==
    /\ begun \in 0..MaxRuns /\ up \in {"yes", "no"} /\ pod \in {"there", "finished", "gone"}
    /\ status \in 0..MaxRuns /\ log \in [Runs -> Seq(Records)]
    /\ secs \in Seq(1..MaxSecond) /\ Len(secs) <= MaxLines /\ clock \in 1..MaxSecond
    /\ source \in {"file", "api"} /\ cancelled \in {"yes", "no"}
    /\ pc \in {"start", "open", "read", "eof", "sleep", "stream", "judge", "pause", "ended"}
    /\ run \in 0..MaxRuns /\ pos \in Nat
    /\ seek \in {"yes", "no"} /\ partial \in {0} \cup Lines
    /\ watch \in {"yes", "no"} /\ signal \in {"yes", "no"}
    /\ since \in {None} \cup (0..MaxSecond) /\ got \in {None} \cup (1..MaxSecond)
    /\ ended \in {"eof", "error"} /\ backoff \in 1..MaxBackoff
    /\ content \in {"yes", "no"} /\ whole \subseteq Lines /\ twice \subseteq whole
    /\ faults \in 0..MaxFaults /\ starts \in 0..MaxStarts
    /\ excused \subseteq Lines /\ reread \subseteq Lines
    /\ born \in 0..MaxSecond /\ news \in {"yes", "no"}

\* The stream has passed the i-th record of a run.
Passed(n, i) ==
    IF source = "file" THEN n < run \/ (n = run /\ i <= pos)
                       ELSE pc = "stream" /\ n = run /\ i <= pos

EndsAt(l, n, i) == i > 0 /\ log[n][i].line = l /\ log[n][i].as \in {"full", "rest"}

\* A line the stream has passed is stored whole.  It may be missing only if a
\* call failed, if it was there before a start that found stored content, if it
\* came in two writes, or if it was written while the tail had seen the end of
\* the file and not yet looked for the next.
MissingIsExcused ==
    \A n \in Runs : \A i \in 1..Len(log[n]) :
        LET l == log[n][i].line IN EndsAt(l, n, i) /\ Passed(n, i) => l \in whole \cup excused

\* A tail stores a line twice only if the collector was started again while
\* the restart count was not yet that of the file it came from.
TwiceOnlyIfStale == source = "file" => twice \subseteq reread

\* runAPIStream: "history is not replayed (at most one second may be
\* duplicated...)": of what a new connection will send, only lines of the
\* second it resumes from are stored already, or of the two seconds around a
\* start.
ReplaysOneSecond ==
    source = "api" /\ pc = "stream" /\ got = None =>
        \A i \in (pos + 1)..Len(log[run]) :
            log[run][i].line \in whole =>
                Second(run, i) = since \/ Second(run, i) \in {born - 1, born}

\* What is stored, or will be, a second time has its reason: a tail's collector
\* was started again, an API connection resumes in the same second.
TwiceIsExcused == TwiceOnlyIfStale /\ ReplaysOneSecond

\* A complete line is read in the end, unless the stream ends, or another run
\* has begun or the pod is gone before the API has served it.
EveryLineRead ==
    \A l \in Lines :
        (\E n \in Runs : EndsAt(l, n, Len(log[n]))) ~>
            \/ \E n \in Runs : \E i \in 1..Len(log[n]) : EndsAt(l, n, i) /\ Passed(n, i)
            \/ pc = "ended"
            \/ source = "api" /\ (pod = "gone" \/ l \in Behind(Current))

\* A stream whose context is done returns, and one of the log API also once its
\* pod has finished.
Done == cancelled = "yes" \/ (source = "api" /\ pod = "finished")
ReturnsWhenDone == Done ~> pc = "ended" \/ ~Done

\* runAPIStream: "progress was made, start the backoff over": a connection that
\* starts it over has brought a line that was not stored.
StartsOverOnNews ==
    [][pc = "judge" /\ pc' = "pause" /\ backoff' < backoff => news = "yes"]_vars
=============================================================================
