------------------------------ MODULE PodLogs ------------------------------
(***************************************************************************)
(* The readers of stored lines against the store: a client that pages      *)
(* through a pod's log or the lines of an index, downloads the log, or     *)
(* searches it.  The store, which may hold anything at first, changes from *)
(* then on, until the client has all it asks for; once only while a search *)
(* runs, which does not look for segments after it has started.            *)
(***************************************************************************)
EXTENDS IndexPages, Download, Search

vars == <<storeVars, readVars, pageVars, indexVars, downloadVars, searchVars>>

\* A segment with no line is to a search as one without a line it is to find, and to
\* an index like no segment; an index is read without a range of time.  The pages of
\* a workload of several containers are a pod's of several.
Init ==
    /\ StoreInit /\ ReadsInit /\ PagesInit /\ IndexInit /\ DownloadInit /\ SearchInit
    /\ request \in {"search", "index"} => \A s \in DOMAIN seg : Content(s) # <<>>
    /\ request = "index" => span = <<1, MaxTime>>
    /\ request = "workload" => Cardinality({s[2] : s \in DOMAIN seg}) = 1

Served ==
    CASE request \in {"pages", "workload", "index"} -> pc = "idle" /\ asks = MaxAsks
      [] request = "download" -> DownloadEnded
      [] request = "search"   -> SearchEnded

Store ==
    /\ ~Served /\ StoreNext
    /\ request = "search" => handler # "start" /\ changes = 0 /\ DOMAIN seg' \subseteq DOMAIN seg
    /\ request = "download" => download # "start"
    /\ UNCHANGED <<readVars, pageVars, indexVars, downloadVars, searchVars>>

Page ==
    /\ request \in {"pages", "workload"} /\ PagesNext
    /\ UNCHANGED <<storeVars, readVars, indexVars, downloadVars, searchVars>>

IndexPage ==
    /\ request = "index" /\ IndexNext
    /\ UNCHANGED <<storeVars, readVars, downloadVars, searchVars>>

Fetch ==
    /\ request = "download" /\ DownloadNext
    /\ UNCHANGED <<storeVars, readVars, pageVars, indexVars, searchVars>>

Find ==
    /\ request = "search" /\ SearchNext
    /\ UNCHANGED <<storeVars, readVars, pageVars, indexVars, downloadVars>>

Done == Served /\ UNCHANGED vars

Next == Store \/ Page \/ IndexPage \/ Fetch \/ Find \/ Done

Spec == Init /\ [][Next]_vars
=============================================================================
