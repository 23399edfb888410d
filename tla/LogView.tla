------------------------------ MODULE LogView ------------------------------
(***************************************************************************)
(* The log view of the frontend: the store (logStore.ts), the hooks that   *)
(* load and stream into it, and the panels, against answers, streamed      *)
(* lines and failures that come when they come, and a user who clicks.     *)
(*                                                                         *)
(* What is selected is a view: a workload, with or without a time range    *)
(* (the search page selects one with its range), or a value of an index.   *)
(* Its log is pages 1..LastPage, older ones first, and a page token is the *)
(* number of the next older page, 0 for none.  What is shown is a sequence *)
(* of pages and of streamed lines.  Pages have no line in common (but the  *)
(* oldest of an index, see IndexPages).  Left out: the filters over lines, *)
(* formats, scrolling, the list of an index's values (useIndexValues).     *)
(***************************************************************************)
EXTENDS Naturals, Sequences

CONSTANTS
    Workloads, Values,  \* of the one index
    LastPage,
    MaxClicks,          \* bound on what the user does
    MaxStreamed            \* bound on streamed lines

ASSUME ViewAssumption ==
    Workloads \cap Values = {} /\ LastPage \in Nat \ {0, 1} /\ MaxClicks \in Nat /\ MaxStreamed \in Nat

VARIABLES
    \* the store
    sel,            \* what is selected, as a set of at most one [view, narrow]
    indexMode,      \* selectedIndexKey is not null: IndexPanel is shown, not LogPanel
    mode,           \* "idle", "loading", "history", "live"
    lines,          \* <<sel, "page" or "line", number>>
    prevPageToken, isFetchingMore,
    \* the panels and their hooks
    liveEnabled,
    loads,          \* history requests: [of, aborted]
    older,          \* loadOlder's request, if there is one: [of, page]
    streams,        \* [of, buffer, aborted]
    \* bounds, and history read only by the property
    clicks, sent,
    strayed         \* something has been added to lines that was asked for before
                    \* they were last replaced

viewVars == <<sel, indexMode, mode, lines, prevPageToken, isFetchingMore, liveEnabled, loads,
          older, streams, clicks, sent, strayed>>

Views == [view : Workloads \cup Values, narrow : BOOLEAN]

ViewInit ==
    /\ sel = {} /\ indexMode \in BOOLEAN /\ mode = "idle" /\ lines = <<>>
    /\ prevPageToken = 0 /\ isFetchingMore = FALSE /\ liveEnabled = FALSE
    /\ loads = {} /\ older = {} /\ streams = {}
    /\ clicks = 0 /\ sent = 0 /\ strayed = FALSE

ViewTypeOK ==
    /\ sel \subseteq Views /\ indexMode \in BOOLEAN /\ mode \in {"idle", "loading", "history", "live"}
    /\ lines \in Seq(Views \X {"page", "line"} \X Nat)
    /\ prevPageToken \in 0..LastPage /\ isFetchingMore \in BOOLEAN /\ liveEnabled \in BOOLEAN
    /\ loads \subseteq [of : Views, aborted : BOOLEAN] /\ older \subseteq [of : Views, page : 1..LastPage]

-----------------------------------------------------------------------------
(* What the user does.  An effect's cleanup and the effect that follows it *)
(* run before anything else does.                                          *)

Click == clicks < MaxClicks /\ clicks' = clicks + 1

Aborted(requests) == {[r EXCEPT !.aborted = TRUE] : r \in requests}

Load(of) == loads' = Aborted(loads) \cup {[of |-> v, aborted |-> FALSE] : v \in of}

\* RESET_ON_SELECT, and what the panels' effects make of the new selection: LogPanel
\* is mounted anew with liveEnabled unset, and the hooks abort and load.
Reset(selected) ==
    /\ sel' = selected /\ lines' = <<>> /\ prevPageToken' = 0 /\ strayed' = FALSE
    /\ Load(selected)
    /\ liveEnabled' = FALSE /\ streams' = Aborted(streams)
    /\ UNCHANGED <<isFetchingMore, older, sent>>

SetSelectedWorkload(w, narrow) ==
    /\ Click /\ Reset({[view |-> w, narrow |-> narrow]})
    /\ indexMode' = FALSE /\ mode' = "loading"

\* enterIndexMode, setSelectedIndex, and back to the index's values.
SetSelectedIndex ==
    /\ Click /\ Reset({})
    /\ indexMode' = TRUE /\ mode' = "idle"

SetSelectedIndexValue(v) ==
    /\ indexMode /\ sel = {}
    /\ Click /\ Reset({[view |-> v, narrow |-> FALSE]})
    /\ mode' = "loading" /\ UNCHANGED indexMode

LeaveIndexMode ==
    /\ indexMode
    /\ Click /\ Reset({})
    /\ indexMode' = FALSE /\ UNCHANGED mode

GoLive ==
    /\ ~indexMode /\ sel # {} /\ ~liveEnabled /\ Click
    /\ liveEnabled' = TRUE /\ mode' = "live" /\ loads' = Aborted(loads)
    /\ streams' = streams \cup {[of |-> v, buffer |-> <<>>, aborted |-> FALSE] : v \in sel}
    /\ UNCHANGED <<sel, indexMode, lines, prevPageToken, isFetchingMore, older, sent, strayed>>

\* The panel's hooks stop what they do, and load what is selected.
Remount ==
    /\ liveEnabled' = FALSE /\ Load(sel) /\ streams' = Aborted(streams)
    /\ UNCHANGED <<sel, indexMode, mode, lines, prevPageToken, isFetchingMore, older, sent, strayed>>

GoBack == liveEnabled /\ Click /\ Remount

\* The dashboard or the search page takes the panel's place, and the panel comes back.
\* (In between nothing of the log is shown, and what is late may as well come now.)
Revisit == sel # {} /\ Click /\ Remount

\* The list is scrolled near its top.
LoadOlder ==
    /\ sel # {} /\ mode # "loading" /\ ~liveEnabled /\ prevPageToken # 0 /\ ~isFetchingMore
    /\ Click
    /\ isFetchingMore' = TRUE /\ older' = {[of |-> v, page |-> prevPageToken] : v \in sel}
    /\ UNCHANGED <<sel, indexMode, mode, lines, prevPageToken, liveEnabled, loads, streams, sent,
                   strayed>>

-----------------------------------------------------------------------------
(* What comes back. *)

Newest(of) == IF of.narrow THEN LastPage - 1 ELSE LastPage

Page(of, n) == <<of, "page", n>>

\* The answer to a history request, with the last page.
LoadedUnchecked(l) ==
    /\ l \in loads /\ loads' = loads \ {l}
    /\ lines' = <<Page(l.of, Newest(l.of))>> /\ prevPageToken' = Newest(l.of) - 1
    /\ mode' = "history" /\ strayed' = FALSE
    /\ UNCHANGED <<sel, indexMode, isFetchingMore, liveEnabled, older, streams, clicks, sent>>

Loaded(l) ==
    /\ l \in loads /\ loads' = loads \ {l}
    /\ IF l.aborted THEN UNCHANGED <<lines, prevPageToken, mode, strayed>>
       ELSE /\ lines' = <<Page(l.of, Newest(l.of))>> /\ prevPageToken' = Newest(l.of) - 1
            /\ mode' = "history" /\ strayed' = FALSE
    /\ UNCHANGED <<sel, indexMode, isFetchingMore, liveEnabled, older, streams, clicks, sent>>

LoadFailsQuietly(l) ==
    /\ l \in loads /\ loads' = loads \ {l}
    /\ UNCHANGED <<sel, indexMode, mode, lines, prevPageToken, isFetchingMore, liveEnabled, older,
                   streams, clicks, sent, strayed>>

\* A failing one: the index's hook clears what is shown, the workload's keeps it.
LoadFails(l) ==
    /\ l \in loads /\ loads' = loads \ {l}
    /\ IF l.aborted THEN UNCHANGED <<lines, prevPageToken, mode, strayed>>
       ELSE /\ mode' = "history"
            /\ IF l.of.view \in Values
               THEN lines' = <<>> /\ prevPageToken' = 0 /\ strayed' = FALSE
               ELSE UNCHANGED <<lines, prevPageToken, strayed>>
    /\ UNCHANGED <<sel, indexMode, isFetchingMore, liveEnabled, older, streams, clicks, sent>>

\* loadOlder neither aborts its request nor looks at what is selected now.
OlderLoaded(o) ==
    /\ o \in older /\ older' = {} /\ isFetchingMore' = FALSE
    /\ lines' = <<Page(o.of, o.page)>> \o lines /\ prevPageToken' = o.page - 1
    /\ strayed' = (strayed \/ sel # {o.of} \/ prevPageToken # o.page)
    /\ UNCHANGED <<sel, indexMode, mode, liveEnabled, loads, streams, clicks, sent>>

OlderFails ==
    /\ older # {} /\ older' = {} /\ isFetchingMore' = FALSE
    /\ UNCHANGED <<sel, indexMode, mode, lines, prevPageToken, liveEnabled, loads, streams, clicks,
                   sent, strayed>>

\* A streamed line is buffered ...
LineArrives(s) ==
    /\ s \in streams /\ ~s.aborted /\ sent < MaxStreamed /\ sent' = sent + 1
    /\ streams' = (streams \ {s}) \cup {[s EXCEPT !.buffer = Append(@, <<s.of, "line", sent'>>)]}
    /\ UNCHANGED <<sel, indexMode, mode, lines, prevPageToken, isFetchingMore, liveEnabled, loads,
                   older, clicks, strayed>>

\* ... until the next animation frame, which an abort cancels.
Frame(s) ==
    /\ s \in streams /\ ~s.aborted /\ s.buffer # <<>>
    /\ lines' = lines \o s.buffer
    /\ streams' = (streams \ {s}) \cup {[s EXCEPT !.buffer = <<>>]}
    /\ UNCHANGED <<sel, indexMode, mode, prevPageToken, isFetchingMore, liveEnabled, loads, older,
                   clicks, sent, strayed>>

\* The stream is over, by itself or by its abort, and its buffer is flushed.
StreamOver(s) ==
    /\ s \in streams /\ streams' = streams \ {s}
    /\ lines' = lines \o s.buffer
    /\ strayed' = (strayed \/ (s.aborted /\ s.buffer # <<>>))
    /\ UNCHANGED <<sel, indexMode, mode, prevPageToken, isFetchingMore, liveEnabled, loads, older,
                   clicks, sent>>

-----------------------------------------------------------------------------
User ==
    \/ \E w \in Workloads, narrow \in BOOLEAN : SetSelectedWorkload(w, narrow)
    \/ \E v \in Values : SetSelectedIndexValue(v)
    \/ SetSelectedIndex \/ LeaveIndexMode \/ GoLive \/ GoBack \/ Revisit \/ LoadOlder

Answer == \E l \in loads : Loaded(l) \/ LoadFails(l)

ViewNext ==
    \/ User \/ Answer \/ (\E o \in older : OlderLoaded(o)) \/ OlderFails
    \/ \E s \in streams : LineArrives(s) \/ Frame(s) \/ StreamOver(s)

\* A request is answered or fails in the end.
ViewSpec == ViewInit /\ [][ViewNext]_viewVars /\ WF_viewVars(Answer)

-----------------------------------------------------------------------------
\* What is shown is the log of what is selected: pages that follow each other up to
\* the newest, the next older one being the token's, then streamed lines in their
\* order; but for what loadOlder or an aborted stream brings too late (LogPanel.tsx:71,
\* useWorkloadLogStream.ts:53), and that only until the next page is loaded.
ShownIsSelected ==
    ~strayed => \E p \in 0..Len(lines) :
        /\ \A i \in 1..Len(lines) : sel = {lines[i][1]}
        /\ \A i \in 1..p : lines[i][2] = "page" /\ lines[i][3] = prevPageToken + i
        /\ \A i \in p + 1..Len(lines) :
              lines[i][2] = "line" /\ (i > p + 1 => lines[i - 1][3] < lines[i][3])
        /\ p = 0 => prevPageToken = 0
        /\ p > 0 => prevPageToken + p = Newest(lines[1][1])

\* The spinner gives way to something, whatever is clicked and aborted meanwhile
\* (useWorkloadLogHistory.ts:45, useIndexLogHistory.ts:42).
SpinnerEnds == (mode = "loading" /\ sel # {}) ~> (mode # "loading" \/ sel = {})
=============================================================================
