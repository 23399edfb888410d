----------------------------- MODULE LiveTail ------------------------------
(***************************************************************************)
(* StreamLogs and StreamWorkloadLogs (internal/api): the lines of a pod,   *)
(* or of the pods of a workload, are sent as they are written, while       *)
(* segments appear, a day after another, and are removed.                  *)
(*                                                                         *)
(* A tailer is tailLatestSegment, and is named by the containers it        *)
(* follows: one for all in StreamLogs, which sends lines itself, and one   *)
(* for each pod, here of one container, in StreamWorkloadLogs, whose       *)
(* handler takes them from a channel.  A line is written whole.  The       *)
(* context ends with the client, or with the handler's return.             *)
(***************************************************************************)
EXTENDS LogStore

CONSTANT LineCap    \* the capacity of lineCh

ASSUME TailAssumption == LineCap \in Nat \ {0}

VARIABLES
    rpc,            \* "StreamLogs" or "StreamWorkloadLogs"
    ctx,            \* is cancelled
    tailer,         \* tailer -> [pc, left: containers left in its pass, latest: the
                    \* segment to be opened, or <<>>]
    tails,          \* container -> its segmentTail [path, file, pos], if it has one
    lineCh,
    handler,        \* "receiving" or "returned"
    got,            \* container -> where the last line sent to the client is
    removed,        \* the containers that have lost a segment
    waiting,        \* the lines, <<segment, number>>, that were written to the latest
                    \* segment while it was tailed, and are not sent yet
    superseded      \* those of them a newer segment has come after

rpcVars  == <<rpc, ctx, tailer, tails, lineCh, handler, got>>
vars     == <<storeVars, rpcVars, removed, waiting, superseded>>

Tailers == IF rpc = "StreamLogs" THEN {Containers} ELSE {{c} : c \in Containers}

Init ==
    /\ StoreInit
    /\ rpc \in {"StreamLogs", "StreamWorkloadLogs"} /\ ctx = FALSE
    /\ tailer = [g \in Tailers |-> [pc |-> "start", left |-> {}, latest |-> <<>>]]
    /\ tails = <<>> /\ lineCh = <<>> /\ handler = "receiving"
    /\ got = [c \in Containers |-> <<>>]
    /\ removed = {} /\ waiting = {} /\ superseded = {}

TailTypeOK ==
    /\ tailer \in [Tailers -> [pc : {"start", "begin", "drain", "wait", "follow", "ended"},
                               left : SUBSET Containers, latest : Segments \cup {<<>>}]]
    /\ DOMAIN tails \subseteq Containers /\ Len(lineCh) <= LineCap
    /\ superseded \subseteq Segments \X (1..MaxLines)

-----------------------------------------------------------------------------
(* The store. *)

Latest(c) ==
    LET own == {s \in DOMAIN seg : s[2] = c}
    IN  IF own = {} THEN <<>> ELSE CHOOSE s \in own : \A x \in own : x[1] <= s[1]

Running(c) == \E g \in Tailers : c \in g /\ tailer[g].pc \in {"drain", "wait", "follow"}

\* A line is waited for if it is written to the latest segment of a container that
\* is tailed.  (Of a segment made again under its name, a tailer does not know.)
Write(c, t) ==
    /\ AppendLine(c, t)
    /\ waiting' = IF Running(c) /\ Latest(c)[1] = Day(t) /\ seg[Latest(c)] = 1
                  THEN waiting \cup {<<Latest(c), written + 1>>} ELSE waiting
    /\ UNCHANGED <<rpcVars, removed, superseded>>

NewSegment(s) ==
    /\ CreateSegment(s)
    /\ superseded' = superseded \cup {x \in waiting : x[1][2] = s[2] /\ x[1][1] < s[1]}
    /\ UNCHANGED <<rpcVars, removed, waiting>>

Lose(s) ==
    /\ DeleteSegment(s)
    /\ removed' = removed \cup {s[2]} /\ waiting' = {x \in waiting : x[1] # s}
    /\ UNCHANGED <<rpcVars, superseded>>

-----------------------------------------------------------------------------
(* tailLatestSegment. *)

Least(S) == CHOOSE n \in S : \A m \in S : n <= m

Logging(g) == {c \in g : Latest(c) # <<>>}

TailerTo(g, pc, left) == tailer' = [tailer EXCEPT ![g] = [pc |-> pc, left |-> left, latest |-> <<>>]]

\* A pass goes on with the containers left of it; after the one that follows their
\* segments comes the one that drains them, and after that the pause.
Pass(g, pc, left) ==
    IF left # {}        THEN TailerTo(g, pc, left)
    ELSE IF pc = "drain" THEN TailerTo(g, "wait", {})
    ELSE TailerTo(g, "drain", g \cap DOMAIN tails)

\* tails, with those of the containers in C that had none.
WithTails(C) ==
    [c \in DOMAIN tails \cup C |->
        IF c \in DOMAIN tails THEN tails[c] ELSE [path |-> <<>>, file |-> 0, pos |-> 0]]

\* The tailer returns, and with StreamLogs' the handler.
Return(g) ==
    /\ TailerTo(g, "ended", {})
    /\ waiting' = {x \in waiting : x[1][2] \notin g}
    /\ IF rpc = "StreamLogs" THEN handler' = "returned" /\ ctx' = TRUE
       ELSE UNCHANGED <<handler, ctx>>
    /\ UNCHANGED <<storeVars, rpc, tails, lineCh, got, removed, superseded>>

\* The containers at the start; with none there is nothing to tail.
Begin(g) ==
    /\ tailer[g].pc = "start"
    /\ IF Logging(g) = {} THEN Return(g) ELSE
       /\ TailerTo(g, "begin", Logging(g)) /\ tails' = WithTails(Logging(g))
       /\ UNCHANGED <<storeVars, rpc, ctx, lineCh, handler, got, removed, waiting, superseded>>

\* Without a look at which one it has.
LookAgain(g) ==
    /\ tailer[g].pc \in {"begin", "follow"} /\ tailer[g].latest = <<>>
    /\ LET c == Least(tailer[g].left)
       IN  IF Latest(c) = <<>>
           THEN Pass(g, tailer[g].pc, tailer[g].left \ {c})
           ELSE tailer' = [tailer EXCEPT ![g].latest = Latest(c)]
    /\ UNCHANGED <<storeVars, rpc, ctx, tails, lineCh, handler, got, removed, waiting, superseded>>

\* Once a container has a segment, it stays.
LookOnce(g) ==
    /\ tailer[g].pc \in {"begin", "follow"} /\ tailer[g].latest = <<>>
    /\ LET c == Least(tailer[g].left)
       IN  IF Latest(c) = <<>> \/ tails[c].path # <<>>
           THEN Pass(g, tailer[g].pc, tailer[g].left \ {c})
           ELSE tailer' = [tailer EXCEPT ![g].latest = Latest(c)]
    /\ UNCHANGED <<storeVars, rpc, ctx, tails, lineCh, handler, got, removed, waiting, superseded>>

\* follow, of one container: the latest segment, if it is another than before ...
Look(g) ==
    /\ tailer[g].pc \in {"begin", "follow"} /\ tailer[g].latest = <<>>
    /\ LET c == Least(tailer[g].left)
       IN  IF Latest(c) \in {<<>>, tails[c].path}
           THEN Pass(g, tailer[g].pc, tailer[g].left \ {c})
           ELSE tailer' = [tailer EXCEPT ![g].latest = Latest(c)]
    /\ UNCHANGED <<storeVars, rpc, ctx, tails, lineCh, handler, got, removed, waiting, superseded>>

\* ... is opened, at its end at first, and at its start later.
Open(g) ==
    /\ tailer[g].latest # <<>>
    /\ LET s == tailer[g].latest
       IN  /\ Pass(g, tailer[g].pc, tailer[g].left \ {s[2]})
           /\ tails' = IF s \notin DOMAIN seg THEN tails
                       ELSE [tails EXCEPT ![s[2]] =
                                [path |-> s, file |-> seg[s],
                                 pos |-> IF tailer[g].pc = "begin" THEN Len(Content(s)) ELSE 0]]
    /\ UNCHANGED <<storeVars, rpc, ctx, lineCh, handler, got, removed, waiting, superseded>>

\* A segment that is there and cannot be opened ends the tailer.
OpenFails(g) == tailer[g].latest \in DOMAIN seg /\ Return(g)

FileOf(c) == IF tails[c].path = <<>> THEN <<>> ELSE data[<<tails[c].path, tails[c].file>>]

\* The client has the line at place, <<day, file, index>>, of container c.
Deliver(c, place) ==
    /\ got' = [got EXCEPT ![c] = place]
    /\ waiting' = waiting \ {<<<<place[1], c>>, data[<<<<place[1], c>>, place[2]>>][place[3]].id>>}

\* drain, of one container: a line is sent ...
DrainLine(g) ==
    /\ tailer[g].pc = "drain"
    /\ LET c == Least(tailer[g].left)
           place == <<tails[c].path[1], tails[c].file, tails[c].pos + 1>>
       IN  /\ tails[c].pos < Len(FileOf(c))
           /\ tails' = [tails EXCEPT ![c].pos = @ + 1]
           /\ IF rpc = "StreamLogs" THEN Deliver(c, place) /\ UNCHANGED lineCh
              ELSE /\ Len(lineCh) < LineCap /\ lineCh' = Append(lineCh, <<c, place>>)
                   /\ UNCHANGED <<got, waiting>>
    /\ UNCHANGED <<storeVars, rpc, ctx, tailer, handler, removed, superseded>>

\* ... or the file has no more of them for now.
Drained(g) ==
    /\ tailer[g].pc = "drain"
    /\ LET c == Least(tailer[g].left)
       IN  tails[c].pos >= Len(FileOf(c)) /\ Pass(g, "drain", tailer[g].left \ {c})
    /\ UNCHANGED <<storeVars, rpc, ctx, tails, lineCh, handler, got, removed, waiting, superseded>>

Unsent(g) ==
    /\ tailer[g].pc = "drain"
    /\ tails[Least(tailer[g].left)].pos < Len(FileOf(Least(tailer[g].left)))

\* A send to the channel that only waits for room.
StopIfDirect(g) ==
    /\ (tailer[g].pc = "wait" /\ ctx) \/ (Unsent(g) /\ rpc = "StreamLogs")
    /\ Return(g)

\* A send finds the client gone, or the channel full and the context cancelled; or
\* the pause ends with the context.
Stop(g) ==
    /\ (tailer[g].pc = "wait" /\ ctx) \/ (Unsent(g) /\ (rpc = "StreamLogs" \/ ctx))
    /\ Return(g)

\* 250 ms later, unless the context has ended: the containers there are now.
Tick(g) ==
    /\ tailer[g].pc = "wait" /\ ~ctx
    /\ Pass(g, "follow", Logging(g)) /\ tails' = WithTails(Logging(g))
    /\ UNCHANGED <<storeVars, rpc, ctx, lineCh, handler, got, removed, waiting, superseded>>

-----------------------------------------------------------------------------
(* The handler of StreamWorkloadLogs, and the client. *)

Receive ==
    /\ rpc = "StreamWorkloadLogs" /\ handler = "receiving" /\ lineCh # <<>>
    /\ lineCh' = Tail(lineCh) /\ Deliver(lineCh[1][1], lineCh[1][2])
    /\ UNCHANGED <<storeVars, rpc, ctx, tailer, tails, handler, removed, superseded>>

\* A send fails, the context is cancelled, or all tailers have returned.
HandlerReturns ==
    /\ rpc = "StreamWorkloadLogs" /\ handler = "receiving"
    /\ lineCh # <<>> \/ ctx \/ \A g \in Tailers : tailer[g].pc = "ended"
    /\ handler' = "returned" /\ ctx' = TRUE /\ waiting' = {}
    /\ UNCHANGED <<storeVars, rpc, tailer, tails, lineCh, got, removed, superseded>>

Cancel ==
    /\ ~ctx /\ ctx' = TRUE /\ waiting' = {}
    /\ UNCHANGED <<storeVars, rpc, tailer, tails, lineCh, handler, got, removed, superseded>>

-----------------------------------------------------------------------------
Tailer(g) ==
    /\ g \in Tailers
    /\ \/ Begin(g) \/ Look(g) \/ Open(g) \/ OpenFails(g)
       \/ DrainLine(g) \/ Drained(g) \/ Stop(g) \/ Tick(g)

Handler == Receive \/ HandlerReturns

\* What the store is like before the first tailer looks is in Init; after the end
\* of the stream it makes no difference.
Store ==
    /\ ~ctx /\ \E g \in Tailers : tailer[g].pc # "start"
    /\ \/ \E s \in Segments : NewSegment(s) \/ Lose(s)
       \/ \E c \in Containers, t \in Times : Write(c, t)

AllTailers == {Containers} \cup {{c} : c \in Containers}

Next == Store \/ Cancel \/ Handler \/ \E g \in AllTailers : Tailer(g)

\* Goroutines are scheduled.  The client need not go, and lines need not come.
Spec ==
    /\ Init /\ [][Next]_vars
    /\ WF_vars(Handler) /\ \A g \in AllTailers : WF_vars(Tailer(g))

-----------------------------------------------------------------------------
Feed == INSTANCE LineFeed WITH
    last <- got, Places <- Days \X (1..(MaxChanges + 1)) \X (1..MaxLines)

\* The tailers, the channel and the handler together implement LineFeed: what the
\* client gets of a container is in the order of its files, with nothing twice and
\* nothing left out within a file, unless one was removed (log_service.go:756).
SendsInOrder == Feed!Spec

Awaited(n) == \E s \in Segments : <<s, n>> \in waiting \ superseded

\* A line written to the latest segment of a container that is tailed is sent,
\* unless the stream or its tailer ends, the segment is removed, or a newer one
\* appears before it is sent (log_service.go:748).
LinesArrive == \A n \in FirstLines + 1..MaxLines : Awaited(n) ~> ~Awaited(n)

\* When the client has gone, or its handler has returned, so do all goroutines
\* (workload_service.go:319).
StreamEnds == ctx ~> handler = "returned" /\ \A g \in Tailers : tailer[g].pc = "ended"

\* Each line written to the latest segment is sent until the stream ends, unless
\* its segment is removed, as log_service.go:748 says.
EachLineArrives ==
    \A n \in FirstLines + 1..MaxLines :
        (\E s \in Segments : <<s, n>> \in waiting) ~> ~(\E s \in Segments : <<s, n>> \in waiting)
=============================================================================
