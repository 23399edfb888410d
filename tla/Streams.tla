------------------------------ MODULE Streams ------------------------------
(***************************************************************************)
(* The pod watcher of internal/k8s/informer.go, whose events a single      *)
(* goroutine delivers in order, the Collector's registry of log streams    *)
(* that OnAdd and OnDelete keep under c.mu, the stream goroutines, which   *)
(* run and return on their own, and the shutdown that cancels and awaits   *)
(* them.                                                                   *)
(*                                                                         *)
(* The cluster runs ahead of the watch.  A watch that breaks misses        *)
(* changes: the informer lists again and reports one change from the pod   *)
(* it knew to the pod it finds, two incarnations of a name included.       *)
(* A stream is named by its pod, its container and the incarnation (the    *)
(* UID) it was started for.                                                *)
(***************************************************************************)
EXTENDS Integers, Sequences, FiniteSets

CONSTANTS
    Pods,           \* pod names
    Containers,     \* container names a pod's spec may list
    NodePods,       \* pods tailed from node files; the others use the log API
    MaxUid,         \* bound on the incarnations of a pod
    MaxGaps,        \* bound on the changes the watch misses
    MaxNotes        \* bound on the events queued for the handler

ASSUME StreamsAssumption ==
    /\ IsFiniteSet(Containers)
    /\ NodePods \subseteq Pods
    /\ MaxUid \in Nat /\ MaxGaps \in Nat /\ MaxNotes \in Nat

VARIABLES
    cluster,        \* pod -> the incarnation the API server has
    cache,          \* pod -> the incarnation the informer last reported
    notes,          \* changes not yet handled, oldest first
    watch,          \* whether events are still delivered
    streams,        \* c.streams: container -> incarnation of its stream, 0 if none
    count,          \* c.activeContainerCount
    jsonPods,       \* the keys of c.jsonLogging
    adding,         \* the pod OnAdd is working on after it let go of c.mu
    tospawn,        \* streams it has registered and not started a goroutine for
    gor,            \* stream -> its goroutine
    cancelled,      \* streams whose context is cancelled
    life,           \* where main is in its shutdown
    gaps,           \* changes the watch has missed
    relisted,       \* history: pods whose replacement came as an update
    late            \* history: pods with a flag from a stream already cancelled

clusterVars   == <<cluster, gaps>>
watchVars     == <<cache, notes, relisted>>
registryVars  == <<streams, count>>
goroutineVars == <<gor, cancelled, jsonPods, late>>
handlerVars   == <<adding, tospawn>>
vars == <<clusterVars, watchVars, watch, registryVars, goroutineVars, handlerVars, life>>

Uids    == 1..MaxUid
Keys    == Pods \X Containers
Streams == Pods \X Containers \X Uids
Phases  == {"Gone", "Pending", "Running", "Finished"}
Incarnations == {i \in [uid : 0..MaxUid, phase : Phases, containers : SUBSET Containers] :
                    i.phase # "Gone" => i.uid # 0}
Changes == [pod : Pods, old : Incarnations, new : Incarnations]

Absent == [uid |-> 0, phase |-> "Gone", containers |-> {}]
Key(s) == <<s[1], s[2]>>
Alive(s)      == gor[s] \in {"probing", "streaming"}
Registered(p) == {c \in Containers : streams[<<p, c>>] # 0}

Init ==
    /\ cluster = [p \in Pods |-> Absent] /\ gaps = 0
    /\ cache = [p \in Pods |-> Absent] /\ notes = <<>> /\ relisted = {}
    /\ watch = "on"
    /\ streams = [k \in Keys |-> 0]
    /\ count = [p \in Pods |-> 0]
    /\ jsonPods = {} /\ late = {}
    /\ adding = {} /\ tospawn = {}
    /\ gor = [s \in Streams |-> "none"]
    /\ cancelled = {}
    /\ life = "up"

-----------------------------------------------------------------------------
(* The cluster and the watch *)

\* The watch misses a change that the next one overtakes.
Changed(p, pod) ==
    /\ cluster' = [cluster EXCEPT ![p] = pod]
    /\ gaps' = IF cache[p] = cluster[p] THEN gaps ELSE gaps + 1
    /\ gaps' <= MaxGaps
    /\ UNCHANGED <<watchVars, watch, registryVars, goroutineVars, handlerVars, life>>

Create(p, cs) ==
    /\ cluster[p].phase = "Gone" /\ cluster[p].uid < MaxUid
    /\ Changed(p, [uid |-> cluster[p].uid + 1, phase |-> "Pending", containers |-> cs])

Run(p) ==
    /\ cluster[p].phase = "Pending"
    /\ Changed(p, [cluster[p] EXCEPT !.phase = "Running"])

Finish(p) ==
    /\ cluster[p].phase \in {"Pending", "Running"}
    /\ Changed(p, [cluster[p] EXCEPT !.phase = "Finished"])

Delete(p) ==
    /\ cluster[p].phase # "Gone"
    /\ Changed(p, [cluster[p] EXCEPT !.phase = "Gone"])

\* The informer reports how p changed since it last reported it.
Deliver(p) ==
    /\ watch = "on"
    /\ cache[p] # cluster[p]
    /\ Len(notes) < MaxNotes
    /\ cache' = [cache EXCEPT ![p] = cluster[p]]
    /\ notes' = IF cache[p].phase = "Gone" /\ cluster[p].phase = "Gone" THEN notes
                ELSE Append(notes, [pod |-> p, old |-> cache[p], new |-> cluster[p]])
    /\ relisted' = IF /\ cache[p].phase # "Gone" /\ cluster[p].phase # "Gone"
                      /\ cache[p].uid # cluster[p].uid
                   THEN relisted \cup {p} ELSE relisted
    /\ UNCHANGED <<clusterVars, watch, registryVars, goroutineVars, handlerVars, life>>

-----------------------------------------------------------------------------
(* The event handler: AddFunc, UpdateFunc and DeleteFunc *)

\* Mutant: any update that finds the pod started starts its streams.
StartsOnAnyUpdate(n) == n.new.phase \in {"Running", "Finished"}

\* Mutant: a pod that goes straight from Pending to its end is passed over.
StartsOnlyRunning(n) == n.old.phase \in {"Gone", "Pending"} /\ n.new.phase = "Running"

\* A pod is collected when it is first seen after Pending or leaves Pending.
Starts(n) ==
    /\ n.old.phase \in {"Gone", "Pending"}
    /\ n.new.phase \in {"Running", "Finished"}

Deleted(n) == n.new.phase = "Gone"

NextNote == watch = "on" /\ adding = {} /\ notes # <<>> /\ notes' = Tail(notes)

Skip ==
    /\ NextNote
    /\ ~Starts(Head(notes)) /\ ~Deleted(Head(notes))
    /\ UNCHANGED <<clusterVars, cache, relisted, watch, registryVars, goroutineVars,
                   handlerVars, life>>

\* Mutant: entries are replaced and deleted without calling their cancel.
CancelNothing(p, cs) == cancelled' = cancelled

\* existing.cancel() for those of p's containers that have a stream.
Cancel(p, cs) ==
    cancelled' = cancelled \cup {<<p, c, streams[<<p, c>>]>> : c \in cs \cap Registered(p)}

\* The part of OnAdd under c.mu: each container gets a stream of its own, and
\* the one it replaces is cancelled but not awaited.
Register(p, uid, cs) ==
    /\ Cancel(p, cs)
    /\ count' = [count EXCEPT ![p] = @ + Cardinality(cs \ Registered(p))]
    /\ streams' = [k \in Keys |-> IF k[1] = p /\ k[2] \in cs THEN uid ELSE streams[k]]
    /\ tospawn' = {<<p, c, uid>> : c \in cs}
    /\ gor' = [s \in Streams |-> IF s \in tospawn' THEN "starting" ELSE gor[s]]

OnAdd ==
    /\ NextNote
    /\ Starts(Head(notes))
    /\ adding' = {Head(notes).pod}
    /\ Register(Head(notes).pod, Head(notes).new.uid, Head(notes).new.containers)
    /\ UNCHANGED <<clusterVars, cache, relisted, watch, jsonPods, late, life>>

\* detectJsonFromFile, which records the pod if enough of its stored lines
\* tell, and the start of the goroutine.
Spawn(s) ==
    /\ s \in tospawn
    /\ tospawn' = tospawn \ {s}
    /\ gor' = [gor EXCEPT ![s] = "probing"]
    /\ jsonPods' \in {jsonPods, jsonPods \cup {s[1]}}
    /\ UNCHANGED <<clusterVars, watchVars, watch, registryVars, cancelled, late, adding, life>>

OnAddReturns ==
    /\ adding # {} /\ tospawn = {}
    /\ adding' = {}
    /\ UNCHANGED <<clusterVars, watchVars, watch, registryVars, goroutineVars, tospawn, life>>

\* OnDelete: the streams of the containers the deleted object lists.
Unregister(p, cs) ==
    /\ Cancel(p, cs)
    /\ streams' = [k \in Keys |-> IF k[1] = p /\ k[2] \in cs THEN 0 ELSE streams[k]]
    /\ count' = [count EXCEPT ![p] = @ - Cardinality(cs \cap Registered(p))]

\* Mutant: the pod's flag is not pruned.
KeepsFlag ==
    /\ NextNote
    /\ Deleted(Head(notes))
    /\ Unregister(Head(notes).pod, Head(notes).old.containers)
    /\ UNCHANGED <<clusterVars, cache, relisted, watch, gor, jsonPods, late, handlerVars, life>>

OnDelete ==
    /\ NextNote
    /\ Deleted(Head(notes))
    /\ Unregister(Head(notes).pod, Head(notes).old.containers)
    /\ jsonPods' = jsonPods \ {Head(notes).pod}
    /\ late' = late \ {Head(notes).pod}
    /\ UNCHANGED <<clusterVars, cache, relisted, watch, gor, handlerVars, life>>

HandlerStep == Skip \/ OnAdd \/ OnAddReturns \/ OnDelete \/ \E s \in Streams : Spawn(s)

-----------------------------------------------------------------------------
(* The stream goroutines *)

\* The stream's first lines have told whether the container logs JSON.  The
\* default container's answer is recorded (setJsonLogging), whether or not
\* the stream is cancelled; another container's is not.
Decide(s) ==
    /\ gor[s] = "probing"
    /\ gor' = [gor EXCEPT ![s] = "streaming"]
    /\ \/ UNCHANGED <<jsonPods, late>>
       \/ /\ jsonPods' = jsonPods \cup {s[1]}
          /\ late' = IF s \in cancelled THEN late \cup {s[1]} ELSE late
    /\ UNCHANGED <<clusterVars, watchVars, watch, registryVars, cancelled, handlerVars, life>>

Return(s) ==
    /\ Alive(s)
    /\ gor' = [gor EXCEPT ![s] = "ended"]
    /\ UNCHANGED <<clusterVars, watchVars, watch, registryVars, cancelled, jsonPods, late,
                   handlerVars, life>>

\* NewSegmentWriter fails.
WriterFails(s) == gor[s] = "probing" /\ Return(s)

\* A cancelled stream may return at any time, and need not: it looks at its
\* context where it waits, and at the end of a file or of an API stream.  That
\* it comes to return is ContainerStream's ReturnsWhenDone.
CancelledReturn(s) == s \in cancelled /\ Return(s)

\* podFinished: the name is free, another pod's, or its pod is over.
PodFinished(s) ==
    \/ cluster[s[1]].phase \in {"Gone", "Finished"}
    \/ cluster[s[1]].uid # s[3]

ApiReturn(s) == s[1] \notin NodePods /\ PodFinished(s) /\ Return(s)

\* A file tail that cannot open or read its file gives up.
TailGivesUp(s) == s[1] \in NodePods /\ Return(s)

-----------------------------------------------------------------------------
(* Shutdown *)

\* The signal context is done: the server shuts down while, unawaited, the
\* pod watcher stops too.
Signal ==
    /\ life = "up"
    /\ life' = "stopping"
    /\ UNCHANGED <<clusterVars, watchVars, watch, registryVars, goroutineVars, handlerVars>>

WatchStops ==
    /\ life # "up" /\ watch = "on"
    /\ watch' = "off"
    /\ UNCHANGED <<clusterVars, watchVars, registryVars, goroutineVars, handlerVars, life>>

\* Collector.Close cancels every registered stream and then waits.
CloseCancels ==
    /\ life = "stopping"
    /\ life' = "closing"
    /\ cancelled' = cancelled \cup {<<k[1], k[2], streams[k]>> : k \in {l \in Keys : streams[l] # 0}}
    /\ UNCHANGED <<clusterVars, watchVars, watch, registryVars, gor, jsonPods, late,
                   handlerVars>>

CloseReturns ==
    /\ life = "closing"
    /\ \A s \in Streams : ~Alive(s)
    /\ life' = "closed"
    /\ UNCHANGED <<clusterVars, watchVars, watch, registryVars, goroutineVars, handlerVars>>

-----------------------------------------------------------------------------
ClusterStep == \E p \in Pods :
    \/ \E cs \in SUBSET Containers \ {{}} : Create(p, cs)
    \/ Run(p)
    \/ Finish(p)
    \/ Delete(p)

Next ==
    /\ life # "closed"
    /\ \/ ClusterStep
       \/ \E p \in Pods : Deliver(p)
       \/ HandlerStep
       \/ \E s \in Streams : \/ Decide(s) \/ WriterFails(s) \/ CancelledReturn(s)
                             \/ ApiReturn(s) \/ TailGivesUp(s)
       \/ Signal
       \/ WatchStops
       \/ CloseCancels
       \/ CloseReturns

\* The informer and its listener are goroutines that are always runnable when
\* they have work.
Fairness ==
    /\ \A p \in Pods : WF_vars(Deliver(p))
    /\ WF_vars(HandlerStep)

Spec == Init /\ [][Next]_vars /\ Fairness

-----------------------------------------------------------------------------
(* Properties *)

TypeOK ==
    /\ cluster \in [Pods -> Incarnations] /\ cache \in [Pods -> Incarnations]
    /\ gaps \in 0..MaxGaps /\ relisted \subseteq Pods
    /\ notes \in Seq(Changes)
    /\ watch \in {"on", "off"}
    /\ life \in {"up", "stopping", "closing", "closed"}
    /\ streams \in [Keys -> 0..MaxUid]
    /\ count \in [Pods -> Int]
    /\ jsonPods \subseteq Pods /\ late \subseteq Pods
    /\ adding \subseteq Pods /\ tospawn \subseteq Streams
    /\ gor \in [Streams -> {"none", "starting", "probing", "streaming", "ended"}]
    /\ cancelled \subseteq Streams

\* activeContainerCount, which IsActive reads instead of the map of streams,
\* stays in step with it through restarts and partial deletions (collector.go:91).
CountsStreams == \A p \in Pods : count[p] = Cardinality(Registered(p))

\* A stream that has been started, or is about to be, can still be stopped:
\* either its context is cancelled or it is the one registered for its
\* container.  So no container has two live, uncancelled streams.
UncancelledIsRegistered ==
    \A s \in Streams :
        (gor[s] = "starting" \/ Alive(s)) /\ s \notin cancelled => streams[Key(s)] = s[3]

\* While a pod's lines are being collected IsActive says so, which is what
\* keeps the retention sweep from removing its meta.json.
StreamedIsActive ==
    \A s \in Streams : Alive(s) /\ s \notin cancelled => count[s[1]] > 0

\* The collector's maps say what its goroutines do: counts and streams are in
\* step, whoever streams can be stopped, and its pod is active (collector.go:91).
RegistryExact == CountsStreams /\ UncancelledIsRegistered /\ StreamedIsActive

\* No incarnation of a pod has a container's stream started twice: its
\* history would be collected again.
StreamedOnce ==
    [][\A s \in Streams : gor'[s] = "starting" => gor[s] \in {"none", "starting"}]_vars

\* The informer and the handler have nothing left to do for p.
Settled(p) == \A i \in 1..Len(notes) : notes[i].pod # p
Idle(p) == watch = "on" /\ adding = {} /\ Settled(p)

Streamed(p) == \A c \in cache[p].containers : gor[<<p, c, cache[p].uid>>] # "none"

\* Every pod the informer has reported as started, a Job's pod that went from
\* Pending straight to its end included (informer.go:69-71), has been
\* streamed, unless its replacement came as an update.
StartedIsStreamed ==
    \A p \in Pods \ relisted :
        Idle(p) /\ cache[p].phase \in {"Running", "Finished"} => Streamed(p)

\* A pod reported deleted leaves no stream registered, so the maps do not
\* grow, unless its replacement came as an update.
GoneIsForgotten ==
    \A p \in Pods \ relisted : Idle(p) /\ cache[p].phase = "Gone" => Registered(p) = {}

\* Once the collector has handled all it was told, it streams the pods that
\* started, and has forgotten those that are gone (collector.go:262).
SettledIsExact == StartedIsStreamed /\ GoneIsForgotten

\* A deleted pod's flag is pruned with it (collector.go:303-305), whatever its
\* streams tell meanwhile: one that is left was recorded by a stream that had
\* been cancelled, or the pod's replacement came as an update.
FlagGoesWithPod ==
    \A p \in jsonPods \ (late \cup relisted) : Idle(p) => cache[p].phase # "Gone"

\* A pod that runs, or ran, while the collector is up comes to be streamed.
PodsGetStreamed ==
    \A p \in Pods, u \in Uids :
        cluster[p].uid = u /\ cluster[p].phase \in {"Running", "Finished"} /\ p \notin relisted
        ~> \/ \A c \in cluster[p].containers : gor[<<p, c, u>>] \notin {"none", "starting"}
           \/ cluster[p].uid # u \/ cluster[p].phase = "Gone" \/ p \in relisted \/ life # "up"

\* collector.go:906 "a different pod now owns this name; its own OnAdd will
\* stream it".
NextOwnerIsStreamed ==
    \A p \in Pods : Idle(p) /\ cache[p].phase \in {"Running", "Finished"} => Streamed(p)
=============================================================================
