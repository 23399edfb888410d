------------------------------ MODULE Search -------------------------------
(***************************************************************************)
(* SearchLogs (internal/api/search_service.go): a pool of workers scans    *)
(* the segments of the range for lines, a handler sends what they find,    *)
(* until there are MaxResults, while writers append, segments are removed  *)
(* and the client may go away.                                             *)
(*                                                                         *)
(* The lines searched for are those of the range: the query is one more    *)
(* condition on a line.  The jobs are listed in one step, each container's *)
(* segments with the others'.  The context's end after the handler's       *)
(* return, which net/http sees to, is not relied on.                       *)
(***************************************************************************)
EXTENDS LogReads

CONSTANTS
    Workers,        \* GOMAXPROCS
    ResultCap,      \* the capacity of resultCh
    MaxResults

ASSUME SearchAssumption ==
    Workers # {} /\ ResultCap \in Nat \ {0} /\ MaxResults \in Nat \ {0}

VARIABLES
    handler,        \* "start", "receive", or how SearchLogs returned: "done", "truncated",
                    \* "failed"
    before,         \* the last line that had been written when the search started
    jobs, todo,     \* the jobs, and the one to dispatch next
    dispatching,    \* the dispatcher has not closed jobCh
    worker,         \* worker -> [pc, job, file, offset]
    resultCh, closed,
    stopCh,         \* is closed
    ctx,            \* is cancelled
    sent            \* the results the client has, each with its segment and index

searchVars ==
    <<handler, before, jobs, todo, dispatching, worker, resultCh, closed, stopCh, ctx, sent>>

NoJob == [pc |-> "idle", job |-> None, file |-> 0, offset |-> 0]

SearchInit ==
    /\ handler = "start" /\ before = 0 /\ jobs = <<>> /\ todo = 1 /\ dispatching = FALSE
    /\ worker = [w \in Workers |-> NoJob] /\ resultCh = <<>> /\ closed = FALSE
    /\ stopCh = FALSE /\ ctx = FALSE /\ sent = <<>>

\* searchJobsFor keeps the segments whose day the range reaches.
InRange(s) == Day(span[1]) <= s[1] /\ s[1] * DayLength + 1 <= span[2]

\* The segments by day, in either direction, and by container.
Sorted(S, newestFirst) ==
    LET key(s) == IF newestFirst THEN <<-s[1], s[2]>> ELSE s
        keys == InOrder({key(s) : s \in S})
    IN  [i \in DOMAIN keys |-> key(keys[i])]

StartSearch ==
    /\ handler = "start"
    /\ \E newestFirst \in BOOLEAN :
        jobs' = Sorted({s \in DOMAIN seg : InRange(s)}, newestFirst)
    /\ handler' = "receive" /\ before' = written /\ dispatching' = TRUE
    /\ UNCHANGED <<todo, worker, resultCh, closed, stopCh, ctx, sent>>

SearchDone == stopCh \/ ctx

WorkerTo(w, state) == worker' = [worker EXCEPT ![w] = state]

\* Two workers that wait read the counter of jobs at once.
TakeJobUnlocked(w) ==
    /\ dispatching /\ todo <= Len(jobs) /\ worker[w].pc = "idle"
    /\ LET s == jobs[todo]
       IN  WorkerTo(w, IF SearchDone THEN [NoJob EXCEPT !.pc = "exited"]
                       ELSE IF s \notin DOMAIN seg THEN NoJob
                       ELSE [pc |-> "scan", job |-> s, file |-> seg[s], offset |-> 0])
    /\ todo' = IF \E v \in Workers \ {w} : worker[v].pc = "idle" THEN todo ELSE todo + 1
    /\ UNCHANGED <<handler, before, jobs, dispatching, resultCh, closed, stopCh, ctx, sent>>

\* The dispatcher hands the next job to a worker that waits for one, which ends if
\* the search is over, and passes over a segment that is gone.
TakeJob(w) ==
    /\ dispatching /\ todo <= Len(jobs) /\ worker[w].pc = "idle"
    /\ LET s == jobs[todo]
       IN  WorkerTo(w, IF SearchDone THEN [NoJob EXCEPT !.pc = "exited"]
                       ELSE IF s \notin DOMAIN seg THEN NoJob
                       ELSE [pc |-> "scan", job |-> s, file |-> seg[s], offset |-> 0])
    /\ todo' = todo + 1
    /\ UNCHANGED <<handler, before, jobs, dispatching, resultCh, closed, stopCh, ctx, sent>>

\* close(jobCh), after the last job or when the search is over.
CloseJobs ==
    /\ dispatching /\ (todo > Len(jobs) \/ SearchDone)
    /\ dispatching' = FALSE
    /\ UNCHANGED <<handler, before, jobs, todo, worker, resultCh, closed, stopCh, ctx, sent>>

\* scanSearchJob: on to the next line that matches, or to the end of the file.
Scan(w) ==
    /\ worker[w].pc = "scan"
    /\ LET lines == data[<<worker[w].job, worker[w].file>>]
           ahead == {i \in DOMAIN lines : i > worker[w].offset /\ Matches(lines[i])}
       IN  WorkerTo(w, IF SearchDone \/ ahead = {} THEN NoJob
                       ELSE [worker[w] EXCEPT !.pc = "send",
                                !.offset = CHOOSE i \in ahead : \A j \in ahead : i <= j])
    /\ UNCHANGED <<handler, before, jobs, todo, dispatching, resultCh, closed, stopCh, ctx, sent>>

\* A send that only waits for room.
SendResultBlindly(w) ==
    /\ worker[w].pc = "send" /\ Len(resultCh) < ResultCap
    /\ resultCh' = Append(resultCh, <<worker[w].job, worker[w].file, worker[w].offset>>)
    /\ WorkerTo(w, [worker[w] EXCEPT !.pc = "scan"])
    /\ UNCHANGED <<handler, before, jobs, todo, dispatching, closed, stopCh, ctx, sent>>

\* Its select: the result is sent, or the search is over.
SendResult(w) ==
    /\ worker[w].pc = "send"
    /\ \/ /\ Len(resultCh) < ResultCap
          /\ resultCh' = Append(resultCh, <<worker[w].job, worker[w].file, worker[w].offset>>)
          /\ WorkerTo(w, [worker[w] EXCEPT !.pc = "scan"])
       \/ /\ SearchDone /\ UNCHANGED resultCh
          /\ WorkerTo(w, NoJob)
    /\ UNCHANGED <<handler, before, jobs, todo, dispatching, closed, stopCh, ctx, sent>>

\* The range over jobCh ends.
ExitWorker(w) ==
    /\ worker[w].pc = "idle" /\ ~dispatching /\ handler # "start"
    /\ WorkerTo(w, [NoJob EXCEPT !.pc = "exited"])
    /\ UNCHANGED <<handler, before, jobs, todo, dispatching, resultCh, closed, stopCh, ctx, sent>>

\* wg.Wait, close(resultCh).
CloseResults ==
    /\ ~closed /\ handler # "start" /\ \A w \in Workers : worker[w].pc = "exited"
    /\ closed' = TRUE
    /\ UNCHANGED <<handler, before, jobs, todo, dispatching, worker, resultCh, stopCh, ctx, sent>>

\* The handler sends a result; a client that has gone ends the search, and so
\* does the last result it may have.
Receive ==
    /\ handler = "receive" /\ resultCh # <<>>
    /\ resultCh' = Tail(resultCh)
    /\ \/ handler' = "failed" /\ stopCh' = TRUE /\ UNCHANGED sent
       \/ /\ ~ctx /\ sent' = Append(sent, resultCh[1])
          /\ stopCh' = (Len(sent') >= MaxResults)
          /\ handler' = IF stopCh' THEN "truncated" ELSE handler
    /\ UNCHANGED <<before, jobs, todo, dispatching, worker, closed, ctx>>

ReceiveLast ==
    /\ handler = "receive" /\ resultCh = <<>> /\ closed
    /\ handler' = "done"
    /\ UNCHANGED <<before, jobs, todo, dispatching, worker, resultCh, closed, stopCh, ctx, sent>>

\* The goroutine that empties resultCh once the handler has what it wants.
Drain ==
    /\ handler = "truncated" /\ resultCh # <<>> /\ resultCh' = Tail(resultCh)
    /\ UNCHANGED <<handler, before, jobs, todo, dispatching, worker, closed, stopCh, ctx, sent>>

Cancel ==
    /\ handler = "receive" /\ ~ctx /\ ctx' = TRUE
    /\ UNCHANGED <<handler, before, jobs, todo, dispatching, worker, resultCh, closed, stopCh, sent>>

Goroutines ==
    \/ \E w \in Workers : TakeJob(w) \/ Scan(w) \/ SendResult(w) \/ ExitWorker(w)
    \/ CloseJobs \/ CloseResults \/ Receive \/ ReceiveLast \/ Drain

SearchNext == StartSearch \/ Goroutines \/ Cancel

SearchEnded == closed /\ handler \notin {"start", "receive"}

-----------------------------------------------------------------------------

\* A search that ends, and was neither truncated nor cancelled, has sent every
\* line of the range that had been written when it started and is still stored
\* (search_service.go:89).
SearchFindsAll ==
    handler = "done" /\ ~ctx =>
        \A p \in Stored : At(p).id <= before /\ Matches(At(p)) =>
            \E i \in DOMAIN sent : sent[i] = <<<<p[1], p[2]>>, p[3], p[4]>>

\* The results of one file come in its order, each once (search_service.go:148).
ResultsInFileOrder ==
    \A i, j \in DOMAIN sent :
        i < j /\ sent[i][1] = sent[j][1] => sent[i][2] = sent[j][2] /\ sent[i][3] < sent[j][3]

\* A search sends nothing twice or out of the order of its file, and leaves nothing
\* out unless it is truncated or cancelled (search_service.go:148).
SearchExact == SearchFindsAll /\ ResultsInFileOrder

\* However a search ends, none of its goroutines is left waiting for good.
NothingIsStuck ==
    /\ handler # "start" /\ ~SearchEnded
    /\ \A w \in Workers : worker[w].pc # "scan"
    => ENABLED Goroutines
=============================================================================
