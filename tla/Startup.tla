------------------------------ MODULE Startup ------------------------------
(***************************************************************************)
(* One process of the server from its first step to its last (main.go):    *)
(* it listens, checks the volume, migrates the files of the v0.11 layout,  *)
(* starts collecting, waits for the pod cache, serves, and shuts down on a *)
(* signal, against calls that fail, kills, power failures and the kubelet  *)
(* that starts it again.                                                   *)
(*                                                                         *)
(* A legacy file is the sequence of the days of its lines; NoTime is a     *)
(* line without a timestamp, which goes to the day it is migrated on.  A   *)
(* segment is the sequence of the lines it holds, and synced says how many *)
(* of them are on the disk and not only in the page cache.  Left out:      *)
(* configuration, logging, which container a file's lines belong to (one   *)
(* per file), and what the parts main starts do (they have models of their *)
(* own).                                                                   *)
(***************************************************************************)
EXTENDS Integers, Sequences

CONSTANTS
    Legacy,         \* the legacy files: file -> the days of its lines
    Days, NoTime,
    MaxFaults,      \* bound on failing calls
    MaxCrashes,     \* bound on kills and power failures
    MaxSignals      \* bound on the times the process is told to stop

ASSUME StartupAssumption ==
    /\ NoTime \notin Days /\ Days # {}
    /\ DOMAIN Legacy \subseteq Nat \ {0}
    /\ \A f \in DOMAIN Legacy : Legacy[f] \in Seq(Days \cup {NoTime})
    /\ MaxFaults \in Nat /\ MaxCrashes \in Nat /\ MaxSignals \in Nat

Files == DOMAIN Legacy
None  == 0

VARIABLES
    \* the volume
    legacy,         \* the legacy files there are
    removed,        \* those removed by removals that may not be on the disk yet
    seg,            \* <<file, day>> -> the lines (positions) of file in that segment
    synced,         \* <<file, day>> -> how many of them are on the disk
    \* the process
    migrate,        \* cfg.MigrateLegacy
    pc,
    todo,           \* podFiles, the files still to migrate
    file, pos,      \* the file being migrated, and the lines of it written
    open,           \* the writer's open segment
    collecting,     \* the pod watcher runs, and calls the collector
    api,            \* Server.api is set
    srv,            \* "new", "listening", "failed", "closed"
    inflight,       \* an API request is running
    signal,         \* ctx is done
    \* bounds, and history read only by the properties
    faults, crashes, signals,
    cut             \* files whose migration did not run to its end at once

volumeVars == <<legacy, removed, seg, synced>>
copyVars   == <<todo, file, pos, open>>
serveVars  == <<collecting, api, srv, inflight, signal>>
boundVars  == <<faults, crashes, signals>>
startupVars == <<volumeVars, migrate, pc, copyVars, serveVars, boundVars, cut>>

StartupTypeOK ==
    /\ legacy \subseteq Files /\ removed \subseteq Files /\ cut \subseteq Files
    /\ seg \in [Files \X Days -> Seq(Nat)] /\ synced \in [Files \X Days -> Nat]
    /\ migrate \in BOOLEAN /\ collecting \in BOOLEAN /\ api \in BOOLEAN
    /\ pc \in {"down", "check", "migrate", "copy", "remove", "cluster", "sync", "serve",
               "shutdown", "close", "exited"}
    /\ todo \subseteq Files /\ file \in Files \cup {None} /\ pos \in Nat
    /\ open \in Days \cup {NoTime}
    /\ srv \in {"new", "listening", "failed", "closed"}
    /\ inflight \in BOOLEAN /\ signal \in BOOLEAN
    /\ faults \in 0..MaxFaults /\ crashes \in 0..MaxCrashes /\ signals \in 0..MaxSignals

Running == pc \notin {"down", "exited"}

StartupInit ==
    /\ legacy = Files /\ removed = {}
    /\ seg = [s \in Files \X Days |-> <<>>] /\ synced = [s \in Files \X Days |-> 0]
    /\ migrate \in BOOLEAN /\ pc = "down"
    /\ todo = {} /\ file = None /\ pos = 0 /\ open = NoTime
    /\ collecting = FALSE /\ api = FALSE /\ srv = "new" /\ inflight = FALSE /\ signal = FALSE
    /\ faults = 0 /\ crashes = 0 /\ signals = 0 /\ cut = {}

\* The process is gone, and its memory with it; a migration it was in is cut short.
Gone(end, back) ==
    /\ pc' = end
    /\ cut' = cut \cup back \cup (IF pc \in {"copy", "remove"} THEN {file} ELSE {})
    /\ todo' = {} /\ file' = None /\ pos' = 0 /\ open' = NoTime
    /\ collecting' = FALSE /\ api' = FALSE /\ srv' = "new" /\ inflight' = FALSE
    /\ signal' = FALSE

\* log.Fatal: the process exits with status 1 where it stands.
Fatal ==
    /\ Gone("down", {})
    /\ UNCHANGED <<legacy, removed, seg, synced, migrate, crashes, signals>>

Fails == faults < MaxFaults /\ faults' = faults + 1 /\ Fatal

-----------------------------------------------------------------------------
(* main, to the end of the migration. *)

\* The kubelet starts the container; NewServer, and go srv.Start().
Boot ==
    /\ pc \in {"down", "exited"} /\ pc' = "check"
    /\ UNCHANGED <<volumeVars, migrate, copyVars, serveVars, boundVars, cut>>

\* Server.Start, in its goroutine: listen, or fail to.
Listen ==
    /\ Running /\ srv = "new"
    /\ \/ srv' = "listening" /\ UNCHANGED faults
       \/ faults < MaxFaults /\ faults' = faults + 1 /\ srv' = "failed"
    /\ UNCHANGED <<volumeVars, migrate, pc, copyVars, collecting, api, inflight, signal,
                   crashes, signals, cut>>

CheckWritable ==
    /\ pc = "check"
    /\ \/ /\ pc' = IF migrate THEN "migrate" ELSE "cluster"
          /\ todo' = IF migrate THEN legacy ELSE {}
          /\ UNCHANGED <<volumeVars, migrate, file, pos, open, serveVars, boundVars, cut>>
       \/ Fails

\* MigrateLegacyLayout takes the next file and opens a writer for its segments.
OpenLegacy(f) ==
    /\ pc = "migrate" /\ f \in todo
    /\ \/ /\ pc' = "copy" /\ todo' = todo \ {f} /\ file' = f /\ pos' = 0 /\ open' = NoTime
          /\ UNCHANGED <<volumeVars, migrate, serveVars, boundVars, cut>>
       \/ Fails

\* Sync of the writer's open segment.
Sync == IF open = NoTime THEN synced
        ELSE [synced EXCEPT ![<<file, open>>] = Len(seg[<<file, open>>])]

RollUnsynced(day) == synced

\* rollToLocked: the segment that is left is synced first.
Roll(day) == IF day = open THEN synced ELSE Sync

\* One line: its day's segment is opened, and the line appended.
CopyLine ==
    /\ pc = "copy" /\ pos < Len(Legacy[file])
    /\ \/ \E day \in Days :
            /\ Legacy[file][pos + 1] \in {day, NoTime}
            /\ synced' = Roll(day) /\ open' = day
            /\ seg' = [seg EXCEPT ![<<file, day>>] = Append(@, pos + 1)]
            /\ pos' = pos + 1
            /\ UNCHANGED <<legacy, removed, migrate, pc, todo, file, serveVars, boundVars, cut>>
       \/ Fails

\* At the end of the file the writer is closed, which syncs, and only then ...
CloseWriter ==
    /\ pc = "copy" /\ pos = Len(Legacy[file])
    /\ \/ /\ pc' = "remove" /\ synced' = Sync /\ open' = NoTime
          /\ UNCHANGED <<legacy, removed, seg, migrate, todo, file, pos, serveVars, boundVars, cut>>
       \/ Fails

RemoveNothing == pc = "remove" /\ pc' = "migrate" /\ file' = None /\ pos' = 0
    /\ UNCHANGED <<volumeVars, migrate, todo, open, serveVars, boundVars, cut>>

\* ... is the legacy file removed.
RemoveLegacy ==
    /\ pc = "remove"
    /\ \/ /\ pc' = "migrate" /\ legacy' = legacy \ {file} /\ removed' = removed \cup {file}
          /\ file' = None /\ pos' = 0
          /\ UNCHANGED <<seg, synced, migrate, todo, open, serveVars, boundVars, cut>>
       \/ Fails

MigratedAtOnce ==
    /\ pc = "migrate" /\ pc' = "cluster"
    /\ UNCHANGED <<volumeVars, migrate, copyVars, serveVars, boundVars, cut>>

Migrated ==
    /\ pc = "migrate" /\ todo = {} /\ pc' = "cluster"
    /\ UNCHANGED <<volumeVars, migrate, copyVars, serveVars, boundVars, cut>>

-----------------------------------------------------------------------------
(* main, from the cluster on. *)

\* NewClientset, NewPodWatcher, go watcher.Start(ctx).
StartWatcher ==
    /\ pc = "cluster"
    /\ \/ /\ pc' = "sync" /\ collecting' = TRUE
          /\ UNCHANGED <<volumeVars, migrate, copyVars, api, srv, inflight, signal, boundVars, cut>>
       \/ Fails

\* WaitForCacheSync, then retention and the disk guard, and SetService.
CacheSynced ==
    /\ pc = "sync" /\ pc' = "serve" /\ api' = TRUE
    /\ UNCHANGED <<volumeVars, migrate, copyVars, collecting, srv, inflight, signal, boundVars, cut>>

\* It gives up after 30 seconds, or when ctx is done.
CacheNotSynced == pc = "sync" /\ IF signal THEN Fatal /\ UNCHANGED faults ELSE Fails


\* The select at the end of startup is the first place that looks at the signal.
Serve ==
    /\ pc = "serve"
    /\ \/ /\ signal /\ pc' = "shutdown" /\ srv' = IF srv = "failed" THEN srv ELSE "closed"
          /\ UNCHANGED <<volumeVars, migrate, copyVars, collecting, api, inflight, signal,
                         boundVars, cut>>
       \/ srv = "failed" /\ Fatal /\ UNCHANGED faults

\* srv.Shutdown returns when no request runs, or after 10 seconds.
ShutdownReturns ==
    /\ pc = "shutdown" /\ pc' = "close"
    /\ UNCHANGED <<volumeVars, migrate, copyVars, serveVars, boundVars, cut>>

\* <-serverErr, coll.Close(), and main returns.
CloseCollector ==
    /\ pc = "close" /\ srv \in {"failed", "closed"} /\ Gone("exited", {})
    /\ UNCHANGED <<volumeVars, migrate, boundVars>>

-----------------------------------------------------------------------------
(* Requests, and what happens to the process. *)

RequestUnchecked ==
    /\ Running /\ srv = "listening" /\ ~inflight /\ inflight' = TRUE
    /\ UNCHANGED <<volumeVars, migrate, pc, copyVars, collecting, api, srv, signal, boundVars, cut>>

\* serveAPI: 503 (nothing changes) until api is set.
Request ==
    /\ Running /\ srv = "listening" /\ ~inflight /\ api /\ inflight' = TRUE
    /\ UNCHANGED <<volumeVars, migrate, pc, copyVars, collecting, api, srv, signal, boundVars, cut>>

RequestEnds ==
    /\ inflight /\ inflight' = FALSE
    /\ UNCHANGED <<volumeVars, migrate, pc, copyVars, collecting, api, srv, signal, boundVars, cut>>

\* SIGTERM: ctx is done, and the pod watcher stops with it.
Sigterm ==
    /\ Running /\ ~signal /\ signals < MaxSignals
    /\ signals' = signals + 1 /\ signal' = TRUE
    /\ UNCHANGED <<volumeVars, migrate, pc, copyVars, collecting, api, srv, inflight,
                   faults, crashes, cut>>

Kill ==
    /\ Running /\ crashes < MaxCrashes /\ crashes' = crashes + 1 /\ Gone("down", {})
    /\ UNCHANGED <<volumeVars, migrate, faults, signals>>

\* The machine goes down: what was not synced is lost, and removals may be undone.
PowerFailure ==
    /\ Running /\ crashes < MaxCrashes /\ crashes' = crashes + 1
    /\ \E back \in SUBSET removed :
        legacy' = legacy \cup back /\ Gone("down", back)
    /\ seg' = [s \in DOMAIN seg |-> SubSeq(seg[s], 1, synced[s])]
    /\ UNCHANGED <<removed, synced, migrate, faults, signals>>

\* In its own time the system writes removals to the disk.
Writeback ==
    /\ removed # {} /\ removed' = {}
    /\ UNCHANGED <<legacy, seg, synced, migrate, pc, copyVars, serveVars, boundVars, cut>>

Main ==
    \/ CheckWritable \/ (\E f \in Files : OpenLegacy(f)) \/ CopyLine \/ CloseWriter
    \/ RemoveLegacy \/ Migrated \/ StartWatcher \/ CacheSynced \/ CacheNotSynced
    \/ Serve \/ ShutdownReturns \/ CloseCollector

StartupNext ==
    \/ Boot \/ Listen \/ Main \/ Request \/ RequestEnds
    \/ Sigterm \/ Kill \/ PowerFailure \/ Writeback

\* The kubelet restarts the container, and main and the listener run.
StartupSpec ==
    /\ StartupInit /\ [][StartupNext]_startupVars
    /\ WF_startupVars(Boot) /\ WF_startupVars(Listen) /\ WF_startupVars(Main)

-----------------------------------------------------------------------------
(* What is promised. *)

StoredLine(f, i)  == \E d \in Days : \E k \in 1..Len(seg[<<f, d>>]) : seg[<<f, d>>][k] = i
DurableLine(f, i) == \E d \in Days : \E k \in 1..synced[<<f, d>>] : seg[<<f, d>>][k] = i

\* A line of a legacy file is in that file, or in a segment and on the disk:
\* no kill, power failure or failing call loses one (ARCHITECTURE.md, writer.go:182).
LegacyLineKept ==
    \A f \in Files \ legacy : \A i \in 1..Len(Legacy[f]) : DurableLine(f, i)

\* What is migrated is there once, unless its migration was cut short and run again.
TwiceOnlyIfCut ==
    \A f \in Files \ cut : \A d, e \in Days :
        \A k \in 1..Len(seg[<<f, d>>]), m \in 1..Len(seg[<<f, e>>]) :
            seg[<<f, d>>][k] = seg[<<f, e>>][m] => <<d, k>> = <<e, m>>

\* No request reads the store, and nothing is collected into it, before the
\* migration is through: what a reader finds is the whole of a file or none of it.
NothingReadsMidMigration ==
    (inflight \/ collecting) /\ migrate =>
        /\ legacy = {}
        /\ \A f \in Files : \A i \in 1..Len(Legacy[f]) : StoredLine(f, i)

\* However the process is interrupted, in the end it serves a migrated store.
ComesUp == <>[](api /\ (migrate => legacy = {}))

=============================================================================
