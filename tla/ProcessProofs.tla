--------------------------- MODULE ProcessProofs ---------------------------
(***************************************************************************)
(* Proofs about one process of the server.  Streams: for any pods,         *)
(* containers, incarnations, watch gaps and shutdown, the count IsActive   *)
(* reads is the number of registered streams, and every uncancelled stream *)
(* is registered; no stream is started twice; and once the events are      *)
(* handled, the pods that started have been streamed and those that are    *)
(* gone are forgotten, their flags with them.  Startup: for any legacy files, days, failing       *)
(* calls, kills, power failures and signals, no migrated line is lost,     *)
(* none is doubled unless its migration was cut short, and nothing meets a *)
(* store that is being migrated.                                           *)
(***************************************************************************)
EXTENDS Streams, Startup, FiniteSetTheorems, TLAPS

-----------------------------------------------------------------------------
(* The streams: what they are registered as. *)

\* What OnAdd has yet to spawn has been started by nobody else.
SpawnPending == \A s \in tospawn : gor[s] = "starting"

RegistryInv == CountsStreams /\ UncancelledIsRegistered /\ SpawnPending

-----------------------------------------------------------------------------
LEMMA ChangedTyped ==
    ASSUME TypeOK, NEW p \in Pods, NEW pod \in Incarnations, Changed(p, pod)
    PROVE  TypeOK'
BY StreamsAssumption DEF TypeOK, Changed, watchVars, registryVars, goroutineVars, handlerVars

LEMMA HeadTyped ==
    ASSUME TypeOK, NextNote
    PROVE  /\ Head(notes) \in Changes
           /\ notes' \in Seq(Changes)
           /\ Starts(Head(notes)) => Head(notes).new.uid \in Uids
<1>1. notes \in Seq(Changes) /\ notes # <<>> /\ notes' = Tail(notes)
  BY DEF TypeOK, NextNote
<1>2. Head(notes) \in Changes /\ notes' \in Seq(Changes)
  BY <1>1
<1>3. ASSUME Starts(Head(notes)) PROVE Head(notes).new.uid \in Uids
  BY <1>2, <1>3, StreamsAssumption DEF Starts, Changes, Incarnations, Uids, Phases
<1> QED BY <1>2, <1>3

LEMMA CancelTyped ==
    ASSUME TypeOK, NEW p \in Pods, NEW cs \in SUBSET Containers, Cancel(p, cs)
    PROVE  cancelled' \subseteq Streams
<1>1. ASSUME NEW c \in cs \cap Registered(p) PROVE <<p, c, streams[<<p, c>>]>> \in Streams
  <2>1. c \in Containers /\ <<p, c>> \in Keys /\ streams[<<p, c>>] # 0
    BY <1>1 DEF Registered, Keys
  <2>2. streams[<<p, c>>] \in Uids
    BY <2>1, StreamsAssumption DEF TypeOK, Uids
  <2> QED BY <2>1, <2>2 DEF Streams
<1> QED BY <1>1 DEF Cancel, TypeOK

LEMMA RegisteredFinite ==
    ASSUME NEW p \in Pods, NEW cs \in SUBSET Containers
    PROVE  /\ IsFiniteSet(Registered(p)) /\ IsFiniteSet(cs)
           /\ Cardinality(Registered(p)) \in Nat
           /\ Cardinality(cs \ Registered(p)) \in Nat
           /\ Cardinality(cs \cap Registered(p)) \in Nat
<1>1. Registered(p) \subseteq Containers /\ cs \ Registered(p) \subseteq Containers
      /\ cs \cap Registered(p) \subseteq Containers
  BY DEF Registered
<1> QED BY <1>1, FS_Subset, FS_CardinalityType, StreamsAssumption

LEMMA RegisterTyped ==
    ASSUME TypeOK, NEW p \in Pods, NEW uid \in Uids, NEW cs \in SUBSET Containers,
           Register(p, uid, cs)
    PROVE  /\ streams' \in [Keys -> 0..MaxUid]
           /\ count' \in [Pods -> Int]
           /\ tospawn' \subseteq Streams
           /\ gor' \in [Streams -> {"none", "starting", "probing", "streaming", "ended"}]
           /\ cancelled' \subseteq Streams
<1>1. cancelled' \subseteq Streams
  BY CancelTyped DEF Register
<1>2. count' \in [Pods -> Int]
  <2>1. Cardinality(cs \ Registered(p)) \in Nat
    BY RegisteredFinite
  <2> QED BY <2>1 DEF Register, TypeOK
<1>3. streams' \in [Keys -> 0..MaxUid]
  <2>1. uid \in 0..MaxUid
    BY StreamsAssumption DEF Uids
  <2> QED BY <2>1 DEF Register, TypeOK
<1>4. tospawn' \subseteq Streams
  BY DEF Register, Streams
<1>5. gor' \in [Streams -> {"none", "starting", "probing", "streaming", "ended"}]
  BY DEF Register, TypeOK
<1> QED BY <1>1, <1>2, <1>3, <1>4, <1>5

LEMMA UnregisterTyped ==
    ASSUME TypeOK, NEW p \in Pods, NEW cs \in SUBSET Containers, Unregister(p, cs)
    PROVE  /\ streams' \in [Keys -> 0..MaxUid]
           /\ count' \in [Pods -> Int]
           /\ cancelled' \subseteq Streams
<1>1. cancelled' \subseteq Streams
  BY CancelTyped DEF Unregister
<1>2. Cardinality(cs \cap Registered(p)) \in Nat
  BY RegisteredFinite
<1>3. 0 \in 0..MaxUid
  BY StreamsAssumption
<1> QED BY <1>1, <1>2, <1>3 DEF Unregister, TypeOK

LEMMA StepTyped == TypeOK /\ [Next]_vars => TypeOK'
<1> SUFFICES ASSUME TypeOK, [Next]_vars PROVE TypeOK'
  OBVIOUS
<1>1. ASSUME NEW p \in Pods, NEW cs \in SUBSET Containers, Create(p, cs) PROVE TypeOK'
  <2>1. [uid |-> cluster[p].uid + 1, phase |-> "Pending", containers |-> cs] \in Incarnations
    <3>1. cluster[p].uid \in 0..MaxUid /\ cluster[p].uid < MaxUid
      BY <1>1 DEF Create, TypeOK, Incarnations
    <3>2. cluster[p].uid + 1 \in 0..MaxUid /\ cluster[p].uid + 1 # 0
      BY <3>1, StreamsAssumption
    <3> QED BY <3>2 DEF Incarnations, Phases
  <2> QED BY <1>1, <2>1, ChangedTyped DEF Create
<1>2. ASSUME NEW p \in Pods, Run(p) \/ Finish(p) PROVE TypeOK'
  <2>1. /\ [cluster[p] EXCEPT !.phase = "Running"] \in Incarnations
        /\ [cluster[p] EXCEPT !.phase = "Finished"] \in Incarnations
    BY <1>2 DEF Run, Finish, TypeOK, Incarnations, Phases
  <2> QED BY <1>2, <2>1, ChangedTyped DEF Run, Finish
<1>3. ASSUME NEW p \in Pods, Delete(p) PROVE TypeOK'
  <2>1. [cluster[p] EXCEPT !.phase = "Gone"] \in Incarnations
    BY ZenonT(40) DEF TypeOK, Incarnations, Phases
  <2> QED BY <1>3, <2>1, ChangedTyped DEF Delete
<1>4. ASSUME NEW p \in Pods, Deliver(p) PROVE TypeOK'
  <2>1. [pod |-> p, old |-> cache[p], new |-> cluster[p]] \in Changes
    BY DEF TypeOK, Changes
  <2>2. notes' \in Seq(Changes)
    BY <1>4, <2>1 DEF Deliver, TypeOK
  <2> QED BY <1>4, <2>2
      DEF Deliver, TypeOK, clusterVars, registryVars, goroutineVars, handlerVars
<1>5. ASSUME Skip PROVE TypeOK'
  BY <1>5, HeadTyped DEF Skip, TypeOK, clusterVars, registryVars, goroutineVars, handlerVars
<1>6. ASSUME OnAdd PROVE TypeOK'
  <2>1. NextNote /\ Starts(Head(notes))
    BY <1>6 DEF OnAdd
  <2>2. /\ Head(notes).pod \in Pods /\ Head(notes).new.containers \in SUBSET Containers
        /\ Head(notes).new.uid \in Uids /\ notes' \in Seq(Changes)
    BY <2>1, HeadTyped DEF Changes, Incarnations
  <2>3. Register(Head(notes).pod, Head(notes).new.uid, Head(notes).new.containers)
    BY <1>6 DEF OnAdd
  <2>4. /\ streams' \in [Keys -> 0..MaxUid] /\ count' \in [Pods -> Int]
        /\ tospawn' \subseteq Streams /\ cancelled' \subseteq Streams
        /\ gor' \in [Streams -> {"none", "starting", "probing", "streaming", "ended"}]
    BY <2>2, <2>3, RegisterTyped
  <2> QED BY <1>6, <2>2, <2>4 DEF OnAdd, TypeOK, clusterVars
<1>7. ASSUME OnDelete PROVE TypeOK'
  <2>1. NextNote
    BY <1>7 DEF OnDelete
  <2>2. /\ Head(notes).pod \in Pods /\ Head(notes).old.containers \in SUBSET Containers
        /\ notes' \in Seq(Changes)
    BY <2>1, HeadTyped DEF Changes, Incarnations
  <2>3. Unregister(Head(notes).pod, Head(notes).old.containers)
    BY <1>7 DEF OnDelete
  <2>4. /\ streams' \in [Keys -> 0..MaxUid] /\ count' \in [Pods -> Int]
        /\ cancelled' \subseteq Streams
    BY <2>2, <2>3, UnregisterTyped
  <2> QED BY <1>7, <2>2, <2>4 DEF OnDelete, TypeOK, clusterVars, handlerVars
<1>8. ASSUME NEW s \in Streams, Spawn(s) \/ Decide(s) PROVE TypeOK'
  <2>1. s[1] \in Pods
    BY DEF Streams
  <2> QED BY <1>8, <2>1
      DEF Spawn, Decide, TypeOK, clusterVars, watchVars, registryVars, handlerVars
<1>9. ASSUME OnAddReturns PROVE TypeOK'
  BY <1>9 DEF OnAddReturns, TypeOK, clusterVars, watchVars, registryVars, goroutineVars
<1>10. ASSUME NEW s \in Streams, Return(s) PROVE TypeOK'
  BY <1>10 DEF Return, TypeOK, clusterVars, watchVars, registryVars, handlerVars
<1>11. ASSUME CloseCancels PROVE TypeOK'
  <2>1. ASSUME NEW k \in Keys, streams[k] # 0 PROVE <<k[1], k[2], streams[k]>> \in Streams
    <3>1. streams[k] \in Uids /\ k[1] \in Pods /\ k[2] \in Containers
      BY <2>1, StreamsAssumption DEF TypeOK, Uids, Keys
    <3> QED BY <3>1 DEF Streams
  <2>2. cancelled' \subseteq Streams
    BY <1>11, <2>1 DEF CloseCancels, TypeOK
  <2> QED BY <1>11, <2>2
      DEF CloseCancels, TypeOK, clusterVars, watchVars, registryVars, handlerVars
<1>12. ASSUME Signal \/ WatchStops \/ CloseReturns PROVE TypeOK'
  BY <1>12 DEF Signal, WatchStops, CloseReturns, TypeOK, clusterVars, watchVars, registryVars,
     goroutineVars, handlerVars
<1>13. ASSUME UNCHANGED vars PROVE TypeOK'
  BY <1>13 DEF vars, TypeOK, clusterVars, watchVars, registryVars, goroutineVars, handlerVars
<1> QED BY <1>1, <1>2, <1>3, <1>4, <1>5, <1>6, <1>7, <1>8, <1>9, <1>10, <1>11, <1>12, <1>13
        DEF Next, ClusterStep, HandlerStep, WriterFails, CancelledReturn, ApiReturn, TailGivesUp

\* The variables always hold what Go's types and the informer's objects allow.
THEOREM Typing == Spec => []TypeOK
<1>1. Init => TypeOK
  BY StreamsAssumption DEF Init, TypeOK, Absent, Incarnations, Phases
<1> QED BY <1>1, StepTyped, PTL DEF Spec

-----------------------------------------------------------------------------
(* The registry *)

\* What the registered streams and their contexts leave to a step that touches neither.
LEMMA RegistryStutter ==
    ASSUME TypeOK, RegistryInv, UNCHANGED <<streams, count, tospawn>>,
           cancelled \subseteq cancelled',
           \A s \in Streams : gor'[s] # gor[s] => Alive(s) /\ gor'[s] # "starting"
    PROVE  RegistryInv'
<1>1. CountsStreams'
  BY DEF RegistryInv, CountsStreams, Registered
<1>2. UncancelledIsRegistered'
  BY DEF RegistryInv, UncancelledIsRegistered, Alive, Key
<1>3. SpawnPending'
  <2> SUFFICES ASSUME NEW s \in tospawn' PROVE gor'[s] = "starting"
    BY DEF SpawnPending
  <2>1. s \in Streams /\ gor[s] = "starting"
    BY DEF RegistryInv, SpawnPending, TypeOK
  <2> QED BY <2>1 DEF Alive
<1> QED BY <1>1, <1>2, <1>3 DEF RegistryInv

LEMMA RegisterKeeps ==
    ASSUME TypeOK, RegistryInv, NEW p \in Pods, NEW uid \in Uids, NEW cs \in SUBSET Containers,
           Register(p, uid, cs)
    PROVE  RegistryInv'
<1>1. CountsStreams'
  <2> SUFFICES ASSUME NEW q \in Pods PROVE count'[q] = Cardinality(Registered(q)')
    BY DEF CountsStreams
  <2>1. CASE q # p
    <3>1. \A c \in Containers : streams'[<<q, c>>] = streams[<<q, c>>]
      BY <2>1 DEF Register, Keys
    <3>2. Registered(q)' = Registered(q)
      BY <3>1 DEF Registered
    <3>3. count'[q] = count[q]
      BY <2>1 DEF Register, TypeOK
    <3> QED BY <3>2, <3>3 DEF RegistryInv, CountsStreams
  <2>2. CASE q = p
    <3>1. Registered(p)' = Registered(p) \cup (cs \ Registered(p))
      <4>1. \A c \in Containers :
                streams'[<<p, c>>] = IF c \in cs THEN uid ELSE streams[<<p, c>>]
        BY DEF Register, Keys
      <4>2. uid # 0
        BY StreamsAssumption DEF Uids
      <4> QED BY <4>1, <4>2 DEF Registered
    <3>2. /\ IsFiniteSet(Registered(p)) /\ IsFiniteSet(cs \ Registered(p))
          /\ Cardinality(Registered(p)) \in Nat /\ Cardinality(cs \ Registered(p)) \in Nat
      BY RegisteredFinite, FS_Difference
    <3>3. Registered(p) \cap (cs \ Registered(p)) = {}
      OBVIOUS
    <3>4. Cardinality(Registered(p)')
          = Cardinality(Registered(p)) + Cardinality(cs \ Registered(p))
      <4>1. Cardinality(Registered(p) \cap (cs \ Registered(p))) = 0
        BY <3>3, FS_EmptySet
      <4>2. Cardinality(Registered(p) \cup (cs \ Registered(p)))
            = Cardinality(Registered(p)) + Cardinality(cs \ Registered(p))
              - Cardinality(Registered(p) \cap (cs \ Registered(p)))
        BY <3>2, FS_Union
      <4>3. Cardinality(Registered(p) \cup (cs \ Registered(p)))
            = Cardinality(Registered(p)) + Cardinality(cs \ Registered(p))
        BY <3>2, <4>1, <4>2
      <4> QED BY <3>1, <4>3
    <3>5. count'[p] = count[p] + Cardinality(cs \ Registered(p))
      BY DEF Register, TypeOK
    <3> QED BY <2>2, <3>4, <3>5 DEF RegistryInv, CountsStreams
  <2> QED BY <2>1, <2>2
<1>2. UncancelledIsRegistered'
  <2> SUFFICES ASSUME NEW s \in Streams, (gor[s] = "starting" \/ Alive(s))', s \notin cancelled'
               PROVE  streams'[Key(s)] = s[3]
    BY DEF UncancelledIsRegistered, Key
  <2>1. Key(s) \in Keys /\ s = <<s[1], s[2], s[3]>> /\ s[2] \in Containers
    BY DEF Key, Keys, Streams
  <2>2. CASE s \in tospawn'
    BY <2>1, <2>2 DEF Register, Key
  <2>3. CASE s \notin tospawn'
    <3>1. streams[Key(s)] = s[3]
      <4>1. gor'[s] = gor[s]
        BY <2>3 DEF Register
      <4>2. s \notin cancelled
        BY DEF Register, Cancel
      <4> QED BY <4>1, <4>2 DEF RegistryInv, UncancelledIsRegistered, Alive
    <3>2. ~(s[1] = p /\ s[2] \in cs)
      <4> SUFFICES ASSUME s[1] = p, s[2] \in cs PROVE FALSE
        OBVIOUS
      <4>1. s[3] # 0
        BY StreamsAssumption DEF Streams, Uids
      <4>2. s[2] \in Registered(p)
        BY <2>1, <3>1, <4>1 DEF Registered, Key
      <4>3. s = <<p, s[2], streams[<<p, s[2]>>]>>
        BY <2>1, <3>1 DEF Key
      <4> QED BY <4>2, <4>3 DEF Register, Cancel
    <3> QED BY <2>1, <3>1, <3>2 DEF Register, Key
  <2> QED BY <2>2, <2>3
<1>3. SpawnPending'
  <2>1. tospawn' \subseteq Streams
    BY RegisterTyped
  <2> QED BY <2>1 DEF Register, SpawnPending
<1> QED BY <1>1, <1>2, <1>3 DEF RegistryInv

LEMMA UnregisterKeeps ==
    ASSUME TypeOK, RegistryInv, NEW p \in Pods, NEW cs \in SUBSET Containers,
           Unregister(p, cs), UNCHANGED <<gor, tospawn>>
    PROVE  RegistryInv'
<1>1. CountsStreams'
  <2> SUFFICES ASSUME NEW q \in Pods PROVE count'[q] = Cardinality(Registered(q)')
    BY DEF CountsStreams
  <2>1. CASE q # p
    <3>1. \A c \in Containers : streams'[<<q, c>>] = streams[<<q, c>>]
      BY <2>1 DEF Unregister, Keys
    <3>2. Registered(q)' = Registered(q)
      BY <3>1 DEF Registered
    <3>3. count'[q] = count[q]
      BY <2>1 DEF Unregister, TypeOK
    <3> QED BY <3>2, <3>3 DEF RegistryInv, CountsStreams
  <2>2. CASE q = p
    <3>1. Registered(p)' = Registered(p) \ cs
      <4>1. \A c \in Containers :
                streams'[<<p, c>>] = IF c \in cs THEN 0 ELSE streams[<<p, c>>]
        BY DEF Unregister, Keys
      <4> QED BY <4>1 DEF Registered
    <3>2. /\ IsFiniteSet(Registered(p)) /\ IsFiniteSet(cs)
          /\ Cardinality(Registered(p)) \in Nat /\ Cardinality(cs \cap Registered(p)) \in Nat
      BY RegisteredFinite
    <3>3. Cardinality(Registered(p) \ cs)
          = Cardinality(Registered(p)) - Cardinality(cs \cap Registered(p))
      <4>1. cs \cap Registered(p) = Registered(p) \cap cs
        OBVIOUS
      <4> QED BY ZenonT(40), <3>2, <4>1, FS_Difference
    <3>4. count'[p] = count[p] - Cardinality(cs \cap Registered(p))
      BY DEF Unregister, TypeOK
    <3> QED BY <2>2, <3>1, <3>3, <3>4 DEF RegistryInv, CountsStreams
  <2> QED BY <2>1, <2>2
<1>2. UncancelledIsRegistered'
  <2> SUFFICES ASSUME NEW s \in Streams, (gor[s] = "starting" \/ Alive(s))', s \notin cancelled'
               PROVE  streams'[Key(s)] = s[3]
    BY DEF UncancelledIsRegistered, Key
  <2>1. Key(s) \in Keys /\ s = <<s[1], s[2], s[3]>> /\ s[2] \in Containers
    BY DEF Key, Keys, Streams
  <2>2. streams[Key(s)] = s[3]
    <3>1. s \notin cancelled
      BY DEF Unregister, Cancel
    <3> QED BY <3>1 DEF RegistryInv, UncancelledIsRegistered, Alive
  <2>3. ~(s[1] = p /\ s[2] \in cs)
    <3> SUFFICES ASSUME s[1] = p, s[2] \in cs PROVE FALSE
      OBVIOUS
    <3>1. s[3] # 0
      BY StreamsAssumption DEF Streams, Uids
    <3>2. s[2] \in Registered(p)
      BY <2>1, <2>2, <3>1 DEF Registered, Key
    <3>3. s = <<p, s[2], streams[<<p, s[2]>>]>>
      BY <2>1, <2>2 DEF Key
    <3> QED BY <3>2, <3>3 DEF Unregister, Cancel
  <2> QED BY <2>1, <2>2, <2>3 DEF Unregister, Key
<1>3. SpawnPending'
  BY DEF RegistryInv, SpawnPending
<1> QED BY <1>1, <1>2, <1>3 DEF RegistryInv

LEMMA RegistryStep == TypeOK /\ RegistryInv /\ [Next]_vars => RegistryInv'
<1> SUFFICES ASSUME TypeOK, RegistryInv, [Next]_vars PROVE RegistryInv'
  OBVIOUS
<1>1. ASSUME OnAdd PROVE RegistryInv'
  <2>1. NextNote /\ Starts(Head(notes))
    BY <1>1 DEF OnAdd
  <2>2. /\ Head(notes).pod \in Pods /\ Head(notes).new.containers \in SUBSET Containers
        /\ Head(notes).new.uid \in Uids
    BY <2>1, HeadTyped DEF Changes, Incarnations
  <2> QED BY <1>1, <2>2, RegisterKeeps DEF OnAdd
<1>2. ASSUME OnDelete PROVE RegistryInv'
  <2>1. NextNote
    BY <1>2 DEF OnDelete
  <2>2. Head(notes).pod \in Pods /\ Head(notes).old.containers \in SUBSET Containers
    BY <2>1, HeadTyped DEF Changes, Incarnations
  <2> QED BY <1>2, <2>2, UnregisterKeeps DEF OnDelete, handlerVars
<1>3. ASSUME NEW s \in Streams, Spawn(s) PROVE RegistryInv'
  <2>1. /\ s \in tospawn /\ tospawn' = tospawn \ {s}
        /\ gor' = [gor EXCEPT ![s] = "probing"] /\ UNCHANGED <<streams, count, cancelled>>
    BY <1>3 DEF Spawn, registryVars
  <2>2. gor[s] = "starting"
    BY <2>1 DEF RegistryInv, SpawnPending
  <2>3. CountsStreams'
    BY <2>1 DEF RegistryInv, CountsStreams, Registered
  <2>4. UncancelledIsRegistered'
    BY <2>1, <2>2 DEF RegistryInv, UncancelledIsRegistered, Alive, Key, TypeOK
  <2>5. SpawnPending'
    BY <2>1 DEF RegistryInv, SpawnPending, TypeOK
  <2> QED BY <2>3, <2>4, <2>5 DEF RegistryInv
<1>4. ASSUME NEW s \in Streams, Decide(s) \/ Return(s) PROVE RegistryInv'
  <2>1. Alive(s) /\ s \notin tospawn
    BY <1>4 DEF Decide, Return, Alive, RegistryInv, SpawnPending
  <2>2. /\ UNCHANGED <<streams, count, tospawn, cancelled>>
        /\ \A t \in Streams : gor'[t] # gor[t] => t = s /\ gor'[t] # "starting"
    BY <1>4 DEF Decide, Return, registryVars, handlerVars, TypeOK
  <2> QED BY <2>1, <2>2, RegistryStutter
<1>5. ASSUME UNCHANGED <<registryVars, gor, tospawn>>, cancelled \subseteq cancelled'
      PROVE  RegistryInv'
  <2>1. UNCHANGED <<streams, count, tospawn>> /\ gor' = gor
    BY <1>5 DEF registryVars
  <2> QED BY <1>5, <2>1, RegistryStutter
<1>6. ASSUME \/ \E p \in Pods : Deliver(p)
             \/ ClusterStep \/ Skip \/ OnAddReturns \/ Signal \/ WatchStops
             \/ CloseCancels \/ CloseReturns \/ UNCHANGED vars
      PROVE  UNCHANGED <<registryVars, gor, tospawn>> /\ cancelled \subseteq cancelled'
  BY <1>6 DEF ClusterStep, Create, Run, Finish, Delete, Changed, Deliver, Skip, OnAddReturns,
     Signal, WatchStops, CloseCancels, CloseReturns, vars, registryVars, goroutineVars, handlerVars
<1> QED BY <1>1, <1>2, <1>3, <1>4, <1>5, <1>6
        DEF Next, HandlerStep, WriterFails, CancelledReturn, ApiReturn, TailGivesUp

THEOREM RegistryInvariant == Spec => []RegistryInv
<1>1. Init => RegistryInv
  <2> SUFFICES ASSUME Init PROVE RegistryInv
    OBVIOUS
  <2>1. \A p \in Pods : Registered(p) = {}
    BY DEF Init, Registered, Keys
  <2>2. CountsStreams
    BY <2>1, FS_EmptySet DEF Init, CountsStreams
  <2> QED BY <2>2 DEF Init, RegistryInv, UncancelledIsRegistered, SpawnPending, Alive
<1> QED BY <1>1, Typing, RegistryStep, PTL DEF Spec

\* activeContainerCount is the number of streams registered for the pod,
\* whatever the order of events, restarts and deletions (collector.go:203-211,
\* 310-325).
THEOREM CountIsExact == Spec => []CountsStreams
BY RegistryInvariant, PTL DEF RegistryInv

\* Every started stream that nobody has cancelled is the registered one of its
\* container, so two uncancelled streams never collect one container and Close
\* and OnDelete reach whatever is running.
THEOREM LiveIsRegistered == Spec => []UncancelledIsRegistered
BY RegistryInvariant, PTL DEF RegistryInv

\* IsActive is true of every pod some uncancelled stream is collecting.
THEOREM CollectedIsActive == Spec => []StreamedIsActive
<1>1. TypeOK /\ RegistryInv => StreamedIsActive
  <2> SUFFICES ASSUME TypeOK, RegistryInv, NEW s \in Streams, Alive(s), s \notin cancelled
               PROVE  count[s[1]] > 0
    BY DEF StreamedIsActive
  <2>1. s[1] \in Pods /\ s[2] \in Containers /\ s[3] # 0
    BY StreamsAssumption DEF Streams, Uids
  <2>2. streams[<<s[1], s[2]>>] = s[3]
    BY DEF RegistryInv, UncancelledIsRegistered, Key
  <2>3. s[2] \in Registered(s[1])
    BY <2>1, <2>2 DEF Registered
  <2>4. IsFiniteSet(Registered(s[1])) /\ Cardinality(Registered(s[1])) \in Nat
    BY <2>1, RegisteredFinite
  <2>5. Cardinality(Registered(s[1])) # 0
    BY <2>3, <2>4, FS_EmptySet
  <2> QED BY <2>1, <2>4, <2>5 DEF RegistryInv, CountsStreams
<1> QED BY <1>1, Typing, RegistryInvariant, PTL

\* The registry is exact: counts, contexts and the answers of IsActive agree
\* with the goroutines, whatever the order of events (collector.go:91).
THEOREM RegistryIsExact == Spec => []RegistryExact
<1>1. CountsStreams /\ UncancelledIsRegistered /\ StreamedIsActive => RegistryExact
  BY DEF RegistryExact
<1> QED BY <1>1, CountIsExact, LiveIsRegistered, CollectedIsActive, PTL
-----------------------------------------------------------------------------
(* The queue of events.  What the informer reports of a pod is, of the     *)
(* incarnations it goes through, a later one each time.                    *)

Number(phase) ==
    CASE phase = "Pending" -> 0 [] phase = "Running" -> 1 [] phase = "Finished" -> 2 [] OTHER -> 3

\* A pod's place in the course of its name: later incarnations, and within one
\* later phases, have greater ones.
Rank(pod) == 4 * pod.uid + Number(pod.phase)

\* The place from which on incarnation uid has been collected.
RankOfStart(uid) == 4 * uid + 1

SameSpec(x, y) == x.uid = y.uid => x.containers = y.containers

\* What one event ends with is what the next starts from; of a pod that is gone the
\* informer may have passed over incarnations in between.
Follows(x, y) == x = y \/ (x.phase = "Gone" /\ y.phase = "Gone")

\* The informer is behind the cluster.
Behind ==
    \A p \in Pods : Rank(cache[p]) <= Rank(cluster[p]) /\ SameSpec(cache[p], cluster[p])

\* An event is a step ahead, and one between incarnations marks its pod.
Forward ==
    \A i \in 1..Len(notes) :
        /\ Rank(notes[i].old) < Rank(notes[i].new)
        /\ Rank(notes[i].new) <= Rank(cache[notes[i].pod])
        /\ SameSpec(notes[i].old, notes[i].new)
        /\ ~(notes[i].old.phase = "Gone" /\ notes[i].new.phase = "Gone")
        /\ \/ notes[i].old.phase = "Gone" \/ notes[i].new.phase = "Gone"
           \/ notes[i].old.uid = notes[i].new.uid \/ notes[i].pod \in relisted

\* The events of a pod are in the order of its places, ...
Ordered ==
    \A i, j \in 1..Len(notes) :
        i < j /\ notes[i].pod = notes[j].pod => Rank(notes[i].new) <= Rank(notes[j].old)

\* ... each follows the one before, and the last has led to what was last reported.
Chained ==
    \A i \in 1..Len(notes) :
        /\ \A j \in 1..Len(notes) :
              /\ i < j /\ notes[i].pod = notes[j].pod
              /\ \A k \in i + 1..j - 1 : notes[k].pod # notes[i].pod
              => Follows(notes[i].new, notes[j].old)
        /\ (\A k \in i + 1..Len(notes) : notes[k].pod # notes[i].pod)
              => Follows(notes[i].new, cache[notes[i].pod])

QueueInv == Behind /\ Forward /\ Ordered /\ Chained

LEMMA SameRank ==
    ASSUME NEW i \in Nat, NEW j \in Nat, NEW m \in 0..3, NEW n \in 0..3,
           4 * i + m = 4 * j + n
    PROVE  i = j /\ m = n
OBVIOUS

LEMMA RankTyped ==
    ASSUME NEW pod \in Incarnations
    PROVE  /\ pod.uid \in Nat /\ Number(pod.phase) \in 0..3 /\ Rank(pod) \in Nat
           /\ pod.phase = "Gone" <=> Number(pod.phase) = 3
           /\ pod.phase = "Pending" <=> Number(pod.phase) = 0
           /\ Rank(pod) = 4 * pod.uid + Number(pod.phase)
<1>1. pod.uid \in Nat /\ pod.phase \in Phases
  BY StreamsAssumption DEF Incarnations
<1>2. /\ Number(pod.phase) \in 0..3
      /\ pod.phase = "Gone" <=> Number(pod.phase) = 3
      /\ pod.phase = "Pending" <=> Number(pod.phase) = 0
  BY <1>1 DEF Number, Phases
<1> QED BY <1>1, <1>2 DEF Rank

\* The first event is taken from the queue.
LEMMA NotesTail ==
    ASSUME TypeOK, NextNote
    PROVE  /\ Len(notes) \in Nat /\ Len(notes) >= 1 /\ Len(notes') = Len(notes) - 1
           /\ \A i \in 1..Len(notes) : notes[i] \in Changes
           /\ \A i \in 1..Len(notes') : notes'[i] = notes[i + 1]
           /\ Head(notes) = notes[1]
<1>1. notes \in Seq(Changes) /\ notes # <<>> /\ notes' = Tail(notes)
  BY DEF TypeOK, NextNote
<1> QED BY <1>1

\* One is put at its end.
LEMMA NotesAppend ==
    ASSUME TypeOK, NEW n, notes' = Append(notes, n)
    PROVE  /\ Len(notes) \in Nat /\ Len(notes') = Len(notes) + 1
           /\ \A i \in 1..Len(notes) : notes[i] \in Changes /\ notes'[i] = notes[i]
           /\ notes'[Len(notes) + 1] = n
BY DEF TypeOK

LEMMA ChangedQueue ==
    ASSUME TypeOK, QueueInv, NEW p \in Pods, NEW pod \in Incarnations, Changed(p, pod),
           Rank(cluster[p]) <= Rank(pod), SameSpec(cache[p], pod)
    PROVE  QueueInv'
<1>1. /\ UNCHANGED <<cache, notes, relisted>>
      /\ cluster' = [cluster EXCEPT ![p] = pod]
  BY DEF Changed, watchVars
<1>2. Behind'
  <2> SUFFICES ASSUME NEW q \in Pods
               PROVE  Rank(cache[q]) <= Rank(cluster'[q]) /\ SameSpec(cache[q], cluster'[q])
    BY <1>1 DEF Behind
  <2>1. Rank(cache[q]) <= Rank(cluster[q]) /\ SameSpec(cache[q], cluster[q])
    BY DEF QueueInv, Behind
  <2>2. cluster'[q] = IF q = p THEN pod ELSE cluster[q]
    BY <1>1 DEF TypeOK
  <2>3. Rank(cache[q]) \in Nat /\ Rank(cluster[q]) \in Nat /\ Rank(pod) \in Nat
    BY RankTyped DEF TypeOK
  <2> QED BY <2>1, <2>2, <2>3
<1>3. Forward' /\ Ordered' /\ Chained'
  BY <1>1 DEF QueueInv, Forward, Ordered, Chained
<1> QED BY <1>2, <1>3 DEF QueueInv

LEMMA ClusterQueue ==
    ASSUME TypeOK, QueueInv, NEW p \in Pods, NEW cs \in SUBSET Containers,
           Create(p, cs) \/ Run(p) \/ Finish(p) \/ Delete(p)
    PROVE  QueueInv'
<1> DEFINE new  == [uid |-> cluster[p].uid + 1, phase |-> "Pending", containers |-> cs]
           To(phase) == [cluster[p] EXCEPT !.phase = phase]
<1>1. /\ cluster[p] \in Incarnations /\ cache[p] \in Incarnations
      /\ Rank(cache[p]) <= Rank(cluster[p]) /\ SameSpec(cache[p], cluster[p])
  BY DEF TypeOK, QueueInv, Behind
<1>2. CASE Create(p, cs)
  <2>1. cluster[p].phase = "Gone" /\ cluster[p].uid < MaxUid /\ Changed(p, new)
    BY <1>2 DEF Create
  <2>2. new \in Incarnations
    BY <1>1, <2>1, StreamsAssumption DEF Incarnations, Phases
  <2>3. /\ Rank(new) = 4 * (cluster[p].uid + 1)
        /\ Rank(cluster[p]) = 4 * cluster[p].uid + 3
        /\ Rank(cache[p]) >= 4 * cache[p].uid /\ cache[p].uid \in Nat /\ cluster[p].uid \in Nat
        /\ Rank(cache[p]) \in Nat /\ new.uid = cluster[p].uid + 1
    BY <1>1, <2>1, <2>2, RankTyped DEF Rank, Number
  <2> HIDE DEF new
  <2>4. cache[p].uid # new.uid
    BY <1>1, <2>3
  <2> QED BY <2>1, <2>2, <2>3, <2>4, ChangedQueue DEF SameSpec
<1>3. ASSUME NEW phase \in Phases, phase # "Pending", cluster[p].phase # "Gone",
             phase = "Running" => cluster[p].phase = "Pending",
             phase = "Finished" => cluster[p].phase \in {"Pending", "Running"},
             Changed(p, To(phase))
      PROVE  QueueInv'
  <2>1. To(phase) \in Incarnations /\ To(phase).uid = cluster[p].uid
        /\ To(phase).phase = phase /\ To(phase).containers = cluster[p].containers
    BY <1>1, <1>3 DEF Incarnations
  <2> HIDE DEF To
  <2>2. /\ cluster[p].phase \in Phases /\ Rank(To(phase)) \in Nat /\ Rank(cluster[p]) \in Nat
        /\ Rank(To(phase)) = 4 * cluster[p].uid + Number(phase)
        /\ Rank(cluster[p]) = 4 * cluster[p].uid + Number(cluster[p].phase)
        /\ cluster[p].uid \in Nat
    BY <1>1, <2>1, RankTyped DEF Incarnations
  <2>3. Number(cluster[p].phase) <= Number(phase) /\ Number(phase) \in Nat
        /\ Number(cluster[p].phase) \in Nat
    BY <1>3, <2>2 DEF Number, Phases
  <2>4. Rank(cluster[p]) <= Rank(To(phase)) /\ SameSpec(cache[p], To(phase))
    BY <1>1, <2>1, <2>2, <2>3 DEF SameSpec
  <2> QED BY <1>3, <2>1, <2>4, ChangedQueue
<1>4. {"Running", "Finished", "Gone"} \subseteq Phases
  BY DEF Phases
<1> QED BY <1>2, <1>3, <1>4 DEF Run, Finish, Delete

LEMMA DeliverQueue ==
    ASSUME TypeOK, QueueInv, NEW p \in Pods, Deliver(p)
    PROVE  QueueInv'
<1> DEFINE n == [pod |-> p, old |-> cache[p], new |-> cluster[p]]
           silent == cache[p].phase = "Gone" /\ cluster[p].phase = "Gone"
<1>1. /\ cache[p] # cluster[p] /\ cache' = [cache EXCEPT ![p] = cluster[p]] /\ cluster' = cluster
      /\ notes' = IF silent THEN notes ELSE Append(notes, n)
      /\ relisted \subseteq relisted'
      /\ \/ cache[p].phase = "Gone" \/ cluster[p].phase = "Gone"
         \/ cache[p].uid = cluster[p].uid \/ p \in relisted'
  BY DEF Deliver, clusterVars
<1>2. /\ cache[p] \in Incarnations /\ cluster[p] \in Incarnations
      /\ Rank(cache[p]) <= Rank(cluster[p]) /\ SameSpec(cache[p], cluster[p])
      /\ \A q \in Pods : cache'[q] = IF q = p THEN cluster[p] ELSE cache[q]
  BY <1>1 DEF TypeOK, QueueInv, Behind
<1>3. /\ Rank(cache[p]) \in Nat /\ Rank(cluster[p]) \in Nat /\ Rank(cache[p]) # Rank(cluster[p])
  <2>4. Rank(cache[p]) \in Nat /\ Rank(cluster[p]) \in Nat
    <3>1. cache[p] \in Incarnations /\ cluster[p] \in Incarnations
      BY <1>2
    <3> QED BY <3>1, RankTyped
  <2> SUFFICES ASSUME Rank(cache[p]) = Rank(cluster[p]) PROVE FALSE
    BY <2>4
  <2>1. cache[p].uid = cluster[p].uid /\ Number(cache[p].phase) = Number(cluster[p].phase)
    <3>1. ASSUME NEW pod \in {cache[p], cluster[p]}
          PROVE  /\ pod.uid \in Nat /\ Number(pod.phase) \in 0..3
                 /\ Rank(pod) = 4 * pod.uid + Number(pod.phase)
      <4>1. pod \in Incarnations
        BY <1>2
      <4> QED BY <4>1, RankTyped
    <3>2. 4 * cache[p].uid + Number(cache[p].phase)
          = 4 * cluster[p].uid + Number(cluster[p].phase)
      BY <3>1
    <3> QED BY <3>1, <3>2, SameRank
  <2>2. cache[p].phase = cluster[p].phase
    BY <1>2, <2>1 DEF Number, Incarnations, Phases
  <2>3. cache[p].containers = cluster[p].containers
    BY <1>2, <2>1 DEF SameSpec
  <2> QED BY <1>1, <1>2, <2>1, <2>2, <2>3 DEF Incarnations
<1>4. Behind'
  <2> SUFFICES ASSUME NEW q \in Pods
               PROVE  Rank(cache'[q]) <= Rank(cluster[q]) /\ SameSpec(cache'[q], cluster[q])
    BY <1>1 DEF Behind
  <2>1. CASE q = p
    BY <1>2, <1>3, <2>1 DEF SameSpec
  <2>2. CASE q # p
    BY <1>2, <2>2 DEF QueueInv, Behind
  <2> QED BY <2>1, <2>2
<1>5. ASSUME NEW i \in 1..Len(notes)
      PROVE  /\ notes[i].pod \in Pods /\ notes[i].new \in Incarnations
             /\ notes[i].old \in Incarnations
             /\ Rank(notes[i].new) <= Rank(cache[notes[i].pod])
             /\ Rank(notes[i].new) <= Rank(cache'[notes[i].pod])
             /\ Rank(cache[notes[i].pod]) \in Nat /\ Rank(notes[i].new) \in Nat
             /\ Rank(notes[i].old) \in Nat
  <2>1. notes[i] \in Changes
    BY DEF TypeOK
  <2>2. /\ notes[i].pod \in Pods /\ notes[i].new \in Incarnations
        /\ notes[i].old \in Incarnations
        /\ Rank(notes[i].new) <= Rank(cache[notes[i].pod])
    BY <2>1 DEF Changes, QueueInv, Forward
  <2>3. /\ Rank(cache[notes[i].pod]) \in Nat /\ Rank(notes[i].new) \in Nat
        /\ Rank(notes[i].old) \in Nat
    BY <2>2, RankTyped DEF TypeOK
  <2> QED BY <1>2, <1>3, <2>2, <2>3
<1> HIDE DEF n
<1>6. CASE silent
  <2>1. notes' = notes
    BY <1>1, <1>6
  <2>2. Forward'
    BY <1>1, <1>5, <2>1 DEF QueueInv, Forward
  <2>3. Ordered'
    BY <2>1 DEF QueueInv, Ordered
  <2>4. Chained'
    <3> SUFFICES ASSUME NEW i \in 1..Len(notes),
                        \A k \in i + 1..Len(notes) : notes[k].pod # notes[i].pod
                 PROVE  Follows(notes[i].new, cache'[notes[i].pod])
      BY <2>1 DEF QueueInv, Chained
    <3>1. Follows(notes[i].new, cache[notes[i].pod])
      BY DEF QueueInv, Chained
    <3> QED BY <1>2, <1>5, <1>6, <3>1 DEF Follows
  <2> QED BY <1>4, <2>2, <2>3, <2>4 DEF QueueInv
<1>7. CASE ~silent
  <2>1. /\ Len(notes) \in Nat /\ Len(notes') = Len(notes) + 1
        /\ \A i \in 1..Len(notes) : notes'[i] = notes[i]
        /\ notes'[Len(notes) + 1] = n
    BY <1>1, <1>7, NotesAppend
  <2>2. n.pod = p /\ n.old = cache[p] /\ n.new = cluster[p]
    BY DEF n
  <2>3. Forward'
    <3> SUFFICES ASSUME NEW i \in 1..Len(notes')
                 PROVE  /\ Rank(notes'[i].old) < Rank(notes'[i].new)
                        /\ Rank(notes'[i].new) <= Rank(cache'[notes'[i].pod])
                        /\ SameSpec(notes'[i].old, notes'[i].new)
                        /\ ~(notes'[i].old.phase = "Gone" /\ notes'[i].new.phase = "Gone")
                        /\ \/ notes'[i].old.phase = "Gone" \/ notes'[i].new.phase = "Gone"
                           \/ notes'[i].old.uid = notes'[i].new.uid \/ notes'[i].pod \in relisted'
      BY DEF Forward
    <3>1. CASE i \in 1..Len(notes)
      BY <1>1, <1>5, <2>1, <3>1 DEF QueueInv, Forward
    <3>2. CASE i = Len(notes) + 1
      BY <1>1, <1>2, <1>3, <1>7, <2>1, <2>2, <3>2
    <3> QED BY <2>1, <3>1, <3>2
  <2>4. Ordered'
    <3> SUFFICES ASSUME NEW i \in 1..Len(notes'), NEW j \in 1..Len(notes'), i < j,
                        notes'[i].pod = notes'[j].pod
                 PROVE  Rank(notes'[i].new) <= Rank(notes'[j].old)
      BY DEF Ordered
    <3>1. i \in 1..Len(notes) /\ notes'[i] = notes[i]
      BY <2>1
    <3>2. CASE j \in 1..Len(notes)
      BY <2>1, <3>1, <3>2 DEF QueueInv, Ordered
    <3>3. CASE j = Len(notes) + 1
      BY <1>5, <2>1, <2>2, <3>1, <3>3
    <3> QED BY <2>1, <3>2, <3>3
  <2>5. Chained'
    <3>1. ASSUME NEW i \in 1..Len(notes'), NEW j \in 1..Len(notes'), i < j,
                 notes'[i].pod = notes'[j].pod,
                 \A k \in i + 1..j - 1 : notes'[k].pod # notes'[i].pod
          PROVE  Follows(notes'[i].new, notes'[j].old)
      <4>1. i \in 1..Len(notes) /\ notes'[i] = notes[i]
        BY <2>1, <3>1
      <4>2. \A k \in i + 1..j - 1 : k \in 1..Len(notes) /\ notes[k].pod # notes[i].pod
        BY <2>1, <3>1, <4>1
      <4>3. CASE j \in 1..Len(notes)
        BY <2>1, <3>1, <4>1, <4>2, <4>3 DEF QueueInv, Chained
      <4>4. CASE j = Len(notes) + 1
        <5>1. notes[i].pod = p /\ \A k \in i + 1..Len(notes) : notes[k].pod # notes[i].pod
          BY <2>1, <2>2, <3>1, <4>1, <4>2, <4>4
        <5>2. Follows(notes[i].new, cache[p])
          BY <4>1, <5>1 DEF QueueInv, Chained
        <5> QED BY <2>1, <2>2, <4>1, <4>4, <5>2
      <4> QED BY <2>1, <4>3, <4>4
    <3>2. ASSUME NEW i \in 1..Len(notes'),
                 \A k \in i + 1..Len(notes') : notes'[k].pod # notes'[i].pod
          PROVE  Follows(notes'[i].new, cache'[notes'[i].pod])
      <4>1. CASE i = Len(notes) + 1
        BY <1>2, <2>1, <2>2, <4>1 DEF Follows
      <4>2. CASE i \in 1..Len(notes)
        <5>1. notes'[i] = notes[i] /\ notes[i].pod # p
          BY <2>1, <2>2, <3>2, <4>2
        <5>2. \A k \in i + 1..Len(notes) : notes[k].pod # notes[i].pod
          BY <2>1, <3>2, <4>2, <5>1
        <5>3. Follows(notes[i].new, cache[notes[i].pod])
          BY <4>2, <5>2 DEF QueueInv, Chained
        <5> QED BY <1>2, <1>5, <4>2, <5>1, <5>3
      <4> QED BY <2>1, <4>1, <4>2
    <3> QED BY <3>1, <3>2 DEF Chained
  <2> QED BY <1>4, <2>3, <2>4, <2>5 DEF QueueInv
<1> QED BY <1>6, <1>7

LEMMA HandledQueue ==
    ASSUME TypeOK, QueueInv, NextNote, UNCHANGED <<clusterVars, cache, relisted>>
    PROVE  QueueInv'
<1>1. /\ Len(notes) \in Nat /\ Len(notes') = Len(notes) - 1
      /\ \A i \in 1..Len(notes') : i + 1 \in 1..Len(notes) /\ notes'[i] = notes[i + 1]
      /\ UNCHANGED <<cluster, cache, relisted>>
  <2>1. /\ Len(notes) \in Nat /\ Len(notes') = Len(notes) - 1 /\ Len(notes) >= 1
        /\ \A i \in 1..Len(notes') : notes'[i] = notes[i + 1]
    BY NotesTail
  <2> QED BY <2>1 DEF clusterVars
<1>2. Behind'
  BY <1>1 DEF QueueInv, Behind
<1>3. Forward'
  BY <1>1 DEF QueueInv, Forward
<1>4. Ordered'
  BY SMTT(30), <1>1 DEF QueueInv, Ordered
<1>5. Chained'
  <2>1. ASSUME NEW i \in 1..Len(notes'), NEW j \in 1..Len(notes'), i < j,
               notes'[i].pod = notes'[j].pod,
               \A k \in i + 1..j - 1 : notes'[k].pod # notes'[i].pod
        PROVE  Follows(notes'[i].new, notes'[j].old)
    <3>1. /\ i + 1 \in 1..Len(notes) /\ j + 1 \in 1..Len(notes) /\ i + 1 < j + 1
          /\ notes[i + 1] = notes'[i] /\ notes[j + 1] = notes'[j]
      BY <1>1, <2>1
    <3>2. ASSUME NEW k \in (i + 1) + 1..(j + 1) - 1 PROVE notes[k].pod # notes[i + 1].pod
      <4>1. k - 1 \in i + 1..j - 1 /\ k - 1 \in 1..Len(notes') /\ (k - 1) + 1 = k
        BY <1>1, <2>1
      <4> QED BY <1>1, <2>1, <3>1, <4>1
    <3> QED BY <2>1, <3>1, <3>2 DEF QueueInv, Chained
  <2>2. ASSUME NEW i \in 1..Len(notes'),
               \A k \in i + 1..Len(notes') : notes'[k].pod # notes'[i].pod
        PROVE  Follows(notes'[i].new, cache'[notes'[i].pod])
    <3>1. notes'[i] = notes[i + 1]
      BY <1>1, <2>2
    <3>2. ASSUME NEW k \in (i + 1) + 1..Len(notes) PROVE notes[k].pod # notes[i + 1].pod
      <4>1. k - 1 \in i + 1..Len(notes') /\ notes[k] = notes'[k - 1]
        BY <1>1, <2>2
      <4>2. notes'[k - 1].pod # notes'[i].pod
        BY <2>2, <4>1
      <4> QED BY <3>1, <4>1, <4>2
    <3> QED BY <1>1, <2>2, <3>2 DEF QueueInv, Chained
  <2> QED BY <2>1, <2>2 DEF Chained
<1> QED BY <1>2, <1>3, <1>4, <1>5 DEF QueueInv

LEMMA QueueStep == TypeOK /\ QueueInv /\ [Next]_vars => QueueInv'
<1> SUFFICES ASSUME TypeOK, QueueInv, [Next]_vars PROVE QueueInv'
  OBVIOUS
<1>1. ASSUME ClusterStep PROVE QueueInv'
  BY <1>1, ClusterQueue DEF ClusterStep, Create
<1>2. ASSUME NEW p \in Pods, Deliver(p) PROVE QueueInv'
  BY <1>2, DeliverQueue
<1>3. ASSUME Skip \/ OnAdd \/ OnDelete PROVE QueueInv'
  BY <1>3, HandledQueue DEF Skip, OnAdd, OnDelete
<1>4. ASSUME \/ OnAddReturns \/ Signal \/ WatchStops \/ CloseCancels \/ CloseReturns
             \/ \E s \in Streams : Spawn(s) \/ Decide(s) \/ Return(s)
             \/ UNCHANGED vars
      PROVE  QueueInv'
  <2>1. UNCHANGED <<cluster, cache, notes, relisted>>
    BY <1>4 DEF OnAddReturns, Signal, WatchStops, CloseCancels, CloseReturns, Spawn, Decide,
       Return, vars, clusterVars, watchVars
  <2> QED BY <2>1 DEF QueueInv, Behind, Forward, Ordered, Chained
<1> QED BY <1>1, <1>2, <1>3, <1>4
        DEF Next, HandlerStep, WriterFails, CancelledReturn, ApiReturn, TailGivesUp

\* The events of a pod lead from where its handler is to what was last reported,
\* through later and later places, whatever the watch misses (informer.go:47-96).
THEOREM QueueInvariant == Spec => []QueueInv
<1>1. Init => QueueInv
  <2> SUFFICES ASSUME Init PROVE QueueInv
    OBVIOUS
  <2>1. Len(notes) = 0 /\ 1..Len(notes) = {}
    BY DEF Init
  <2>2. Absent \in Incarnations
    BY StreamsAssumption DEF Absent, Incarnations, Phases
  <2>3. Behind
    BY <2>2, RankTyped DEF Init, Behind, SameSpec
  <2> QED BY <2>1, <2>3 DEF QueueInv, Forward, Ordered, Chained
<1> QED BY <1>1, Typing, QueueStep, PTL DEF Spec

-----------------------------------------------------------------------------
(* What the handler has made of the events. *)

\* A stream is of an incarnation whose start has been handled.
StartedBefore ==
    \A s \in Streams : gor[s] # "none" =>
        /\ RankOfStart(s[3]) <= Rank(cache[s[1]])
        /\ \A i \in 1..Len(notes) : notes[i].pod = s[1] => RankOfStart(s[3]) <= Rank(notes[i].old)

\* An event that starts a pod is the first to start its incarnation.
LEMMA StartIsFirst ==
    ASSUME TypeOK, QueueInv, StartedBefore, NextNote, Starts(Head(notes)),
           NEW s \in Streams, s[1] = Head(notes).pod, s[3] = Head(notes).new.uid
    PROVE  gor[s] = "none"
<1> DEFINE n == notes[1]
<1>1. /\ n \in Changes /\ Head(notes) = n /\ 1 \in 1..Len(notes)
  BY NotesTail
<1>2. n.old \in Incarnations /\ n.new \in Incarnations /\ Starts(n)
  BY <1>1 DEF Changes
<1>3. Rank(n.old) < Rank(n.new)
  BY <1>1 DEF QueueInv, Forward
<1> HIDE DEF n
<1>4. /\ n.old.uid \in Nat /\ n.new.uid \in Nat
      /\ Rank(n.new) = 4 * n.new.uid + Number(n.new.phase) /\ Number(n.new.phase) \in {1, 2}
  BY <1>2, RankTyped DEF Starts, Number
<1>5. gor[s] # "none" => RankOfStart(n.new.uid) <= Rank(n.old)
  BY <1>1 DEF StartedBefore, n
<1>6. Rank(n.old) \in Nat /\ RankOfStart(n.new.uid) \in Nat
  BY <1>2, <1>4, RankTyped DEF RankOfStart
<1>7. CASE n.old.phase = "Pending"
  <2>1. Rank(n.old) = 4 * n.old.uid
    BY <1>2, <1>7, RankTyped
  <2>2. Rank(n.old) < RankOfStart(n.new.uid)
    BY <1>3, <1>4, <2>1 DEF RankOfStart
  <2> QED BY <1>5, <1>6, <2>2
<1>8. CASE n.old.phase = "Gone"
  <2>1. Rank(n.old) = 4 * n.old.uid + 3
    BY <1>2, <1>8, RankTyped
  <2>2. Rank(n.old) < RankOfStart(n.new.uid)
    BY <1>3, <1>4, <2>1 DEF RankOfStart
  <2> QED BY <1>5, <1>6, <2>2
<1> QED BY <1>2, <1>7, <1>8 DEF Starts

\* Where a step leaves the goroutines that have been started.
LEMMA GoroutineStep ==
    ASSUME TypeOK, RegistryInv, [Next]_vars, ~OnAdd, NEW s \in Streams
    PROVE  gor'[s] # "none" <=> gor[s] # "none"
<1>1. CASE UNCHANGED gor
  BY <1>1
<1>2. ASSUME NEW t \in Streams, Spawn(t) \/ Decide(t) \/ Return(t)
      PROVE  gor'[s] # "none" <=> gor[s] # "none"
  <2>1. gor[t] # "none"
    BY <1>2 DEF Spawn, Decide, Return, Alive, RegistryInv, SpawnPending
  <2>2. gor' = [gor EXCEPT ![t] = gor'[t]] /\ gor'[t] # "none"
    BY <1>2 DEF Spawn, Decide, Return, TypeOK
  <2> QED BY <2>1, <2>2 DEF TypeOK
<1>3. UNCHANGED gor \/ \E t \in Streams : Spawn(t) \/ Decide(t) \/ Return(t)
  BY DEF Next, HandlerStep, ClusterStep, Create, Run, Finish, Delete, Changed, Deliver, Skip,
     OnAddReturns, OnDelete, WriterFails, CancelledReturn, ApiReturn, TailGivesUp, Signal,
     WatchStops, CloseCancels, CloseReturns, goroutineVars, vars
<1> QED BY <1>1, <1>2, <1>3

\* The handler's queue and what it knows of the pods change together.
LEMMA QueueCases ==
    ASSUME TypeOK, [Next]_vars
    PROVE  \/ \E p \in Pods : Deliver(p)
           \/ NextNote /\ UNCHANGED <<cache, relisted>>
           \/ UNCHANGED <<cache, notes, relisted>>
BY DEF Next, HandlerStep, ClusterStep, Create, Run, Finish, Delete, Changed, Skip, OnAdd,
   OnAddReturns, OnDelete, Spawn, Decide, WriterFails, CancelledReturn, ApiReturn, TailGivesUp,
   Return, Signal, WatchStops, CloseCancels, CloseReturns, clusterVars, watchVars, vars

LEMMA StartedStep ==
    TypeOK /\ RegistryInv /\ QueueInv /\ StartedBefore /\ [Next]_vars => StartedBefore'
<1> SUFFICES ASSUME TypeOK, RegistryInv, QueueInv, StartedBefore, [Next]_vars,
                    NEW s \in Streams, gor'[s] # "none"
             PROVE  /\ RankOfStart(s[3]) <= Rank(cache'[s[1]])
                    /\ \A i \in 1..Len(notes') :
                          notes'[i].pod = s[1] => RankOfStart(s[3]) <= Rank(notes'[i].old)
  BY DEF StartedBefore
<1>1. s[1] \in Pods /\ s[3] \in Nat
  BY StreamsAssumption DEF Streams, Uids
<1> DEFINE start == RankOfStart(s[3])
<1>2. start \in Nat
  BY <1>1 DEF RankOfStart
<1> HIDE DEF start
<1>3. CASE OnAdd /\ gor[s] = "none"
  <2>1. /\ NextNote /\ Starts(Head(notes)) /\ UNCHANGED cache
        /\ s[1] = Head(notes).pod /\ s[3] = Head(notes).new.uid
    BY <1>3 DEF OnAdd, Register
  <2>2. /\ Len(notes) \in Nat /\ Len(notes) >= 1 /\ Len(notes') = Len(notes) - 1
        /\ \A i \in 1..Len(notes') : notes'[i] = notes[i + 1]
        /\ \A i \in 1..Len(notes) : notes[i] \in Changes
        /\ Head(notes) = notes[1]
    BY <2>1, NotesTail
  <2>3. notes[1].new \in Incarnations /\ start <= Rank(notes[1].new) /\ Rank(notes[1].new) \in Nat
    <3>1. notes[1].new \in Incarnations
      BY <2>2 DEF Changes
    <3>2. Number(notes[1].new.phase) \in {1, 2} /\ Rank(notes[1].new) \in Nat
      BY <2>1, <2>2, <3>1, RankTyped DEF Starts, Number
    <3> QED BY <2>1, <2>2, <3>1, <3>2, <1>1 DEF start, RankOfStart, Rank
  <2>4. Rank(notes[1].new) <= Rank(cache[s[1]]) /\ Rank(cache[s[1]]) \in Nat
    BY <1>1, <2>1, <2>2, RankTyped DEF QueueInv, Forward, TypeOK
  <2>5. ASSUME NEW i \in 1..Len(notes'), notes'[i].pod = s[1]
        PROVE  start <= Rank(notes'[i].old)
    <3>1. i + 1 \in 1..Len(notes) /\ 1 < i + 1 /\ notes'[i] = notes[i + 1] /\ 1 \in 1..Len(notes)
      BY <2>2
    <3>2. Rank(notes[1].new) <= Rank(notes[i + 1].old)
      BY <2>1, <2>2, <2>5, <3>1 DEF QueueInv, Ordered
    <3>3. Rank(notes[i + 1].old) \in Nat
      BY <2>2, <3>1, RankTyped DEF Changes
    <3> QED BY <1>2, <2>3, <3>1, <3>2, <3>3
  <2> QED BY <1>2, <2>1, <2>3, <2>4, <2>5 DEF start
<1>4. CASE gor[s] # "none"
  <2>1. /\ start <= Rank(cache[s[1]])
        /\ \A i \in 1..Len(notes) : notes[i].pod = s[1] => start <= Rank(notes[i].old)
    BY <1>4 DEF StartedBefore, start
  <2>2. CASE UNCHANGED <<cache, notes>>
    BY <2>1, <2>2 DEF start
  <2>3. CASE NextNote /\ UNCHANGED cache
    <3>1. \A i \in 1..Len(notes') : i + 1 \in 1..Len(notes) /\ notes'[i] = notes[i + 1]
      BY <2>3, NotesTail
    <3> QED BY <2>1, <2>3, <3>1 DEF start
  <2>4. ASSUME NEW p \in Pods, Deliver(p)
        PROVE  /\ start <= Rank(cache'[s[1]])
               /\ \A i \in 1..Len(notes') : notes'[i].pod = s[1] => start <= Rank(notes'[i].old)
    <3>1. /\ \A q \in Pods : cache'[q] = IF q = p THEN cluster[p] ELSE cache[q]
          /\ \/ notes' = notes
             \/ notes' = Append(notes, [pod |-> p, old |-> cache[p], new |-> cluster[p]])
      BY <2>4 DEF Deliver, TypeOK
    <3>2. start <= Rank(cache'[s[1]])
      <4>1. Rank(cache[p]) <= Rank(cluster[p]) /\ Rank(cache[p]) \in Nat /\ Rank(cluster[p]) \in Nat
        BY RankTyped DEF QueueInv, Behind, TypeOK
      <4> QED BY <1>1, <1>2, <2>1, <3>1, <4>1
    <3>3. CASE notes' = notes
      BY <2>1, <3>2, <3>3
    <3>4. CASE notes' = Append(notes, [pod |-> p, old |-> cache[p], new |-> cluster[p]])
      BY <2>1, <3>2, <3>4, NotesAppend
    <3> QED BY <3>1, <3>3, <3>4
  <2> QED BY <2>2, <2>3, <2>4, QueueCases DEF start
<1> QED BY <1>3, <1>4, GoroutineStep

THEOREM StartedInvariant == Spec => []StartedBefore
<1>1. Init => StartedBefore
  BY DEF Init, StartedBefore
<1> QED BY <1>1, Typing, RegistryInvariant, QueueInvariant, StartedStep, PTL DEF Spec

\* Nothing but the OnAdd of its incarnation starts a stream, and there is one
\* such event of an incarnation: its lines are collected once (informer.go:52-72).
THEOREM StreamsStartOnce == Spec => StreamedOnce
<1> DEFINE Once == \A s \in Streams : gor'[s] = "starting" => gor[s] \in {"none", "starting"}
<1>1. TypeOK /\ QueueInv /\ StartedBefore /\ [Next]_vars => [Once]_vars
  <2> SUFFICES ASSUME TypeOK, QueueInv, StartedBefore, Next,
                      NEW s \in Streams, gor'[s] = "starting", gor[s] # "starting"
               PROVE  gor[s] = "none"
    BY DEF TypeOK
  <2>1. OnAdd
    BY DEF Next, HandlerStep, ClusterStep, Create, Run, Finish, Delete, Changed, Deliver, Skip,
       OnAddReturns, OnDelete, Spawn, Decide, WriterFails, CancelledReturn, ApiReturn, TailGivesUp,
       Return, Signal, WatchStops, CloseCancels, CloseReturns, goroutineVars, TypeOK
  <2>2. /\ NextNote /\ Starts(Head(notes))
        /\ s[1] = Head(notes).pod /\ s[3] = Head(notes).new.uid
    BY <2>1 DEF OnAdd, Register
  <2> QED BY <2>2, StartIsFirst
<1> QED BY <1>1, Typing, QueueInvariant, StartedInvariant, PTL DEF Spec, StreamedOnce

-----------------------------------------------------------------------------
(* The collector keeps up with the events it has handled. *)

\* p as its handler last saw it: what its next event starts from, or what was
\* last reported if it has none.
Handled(p, x) ==
    \/ Settled(p) /\ x = cache[p]
    \/ \E i \in 1..Len(notes) :
          /\ notes[i].pod = p /\ x = notes[i].old
          /\ \A k \in 1..i - 1 : notes[k].pod # p

\* A started pod's containers have had their streams, a pod has no others
\* registered, and one that is gone has none.
Tracks(p, x) ==
    /\ x.phase \in {"Running", "Finished"} =>
          \A c \in x.containers : gor[<<p, c, x.uid>>] # "none"
    /\ Registered(p) \subseteq IF x.phase = "Gone" THEN {} ELSE x.containers

KeepsUp == \A p \in Pods \ relisted : \A x \in Incarnations : Handled(p, x) => Tracks(p, x)

LEMMA OtherHandled ==
    ASSUME TypeOK, NextNote, UNCHANGED cache, NEW p \in Pods, Head(notes).pod # p,
           NEW x \in Incarnations, Handled(p, x)'
    PROVE  Handled(p, x)
<1>1. /\ Len(notes) \in Nat /\ Len(notes') = Len(notes) - 1 /\ Len(notes) >= 1
      /\ \A i \in 1..Len(notes') : notes'[i] = notes[i + 1]
      /\ notes[1].pod # p
  BY NotesTail
<1>2. \A i \in 2..Len(notes) : i - 1 \in 1..Len(notes') /\ notes[i] = notes'[i - 1]
  BY <1>1
<1>3. CASE Settled(p)' /\ x = cache'[p]
  BY <1>1, <1>2, <1>3 DEF Handled, Settled
<1>4. ASSUME NEW i \in 1..Len(notes'), notes'[i].pod = p, x = notes'[i].old,
             \A k \in 1..i - 1 : notes'[k].pod # p
      PROVE  Handled(p, x)
  <2>1. i + 1 \in 1..Len(notes) /\ notes[i + 1] = notes'[i]
    BY <1>1
  <2>2. ASSUME NEW k \in 1..(i + 1) - 1 PROVE notes[k].pod # p
    <3>1. k = 1 \/ (k \in 2..Len(notes) /\ k - 1 \in 1..i - 1)
      BY <1>1
    <3> QED BY <1>1, <1>2, <1>4, <3>1
  <2> QED BY <1>4, <2>1, <2>2 DEF Handled
<1> QED BY <1>3, <1>4 DEF Handled

\* Handling the first event moves its pod from the event's start to its end.
LEMMA HeadHandled ==
    ASSUME TypeOK, QueueInv, NextNote, UNCHANGED cache, NEW n \in Changes, n = Head(notes)
    PROVE  /\ Handled(n.pod, n.old)
           /\ \A x \in Incarnations : Handled(n.pod, x)' => Follows(n.new, x)
<1>1. /\ Len(notes) \in Nat /\ Len(notes') = Len(notes) - 1 /\ Len(notes) >= 1
      /\ \A i \in 1..Len(notes') : notes'[i] = notes[i + 1]
      /\ n = notes[1] /\ 1 \in 1..Len(notes) /\ 1..1 - 1 = {}
  BY NotesTail
<1>2. Handled(n.pod, n.old)
  BY <1>1 DEF Handled
<1>3. \A k \in 2..Len(notes) : k - 1 \in 1..Len(notes') /\ notes[k] = notes'[k - 1]
  BY <1>1
<1>4. ASSUME Settled(n.pod)', NEW x, x = cache'[n.pod]
      PROVE  Follows(n.new, x)
  <2>1. \A k \in 1 + 1..Len(notes) : notes[k].pod # n.pod
    BY <1>1, <1>3, <1>4 DEF Settled
  <2> QED BY <1>1, <1>4, <2>1 DEF QueueInv, Chained
<1>5. ASSUME NEW i \in 1..Len(notes'), notes'[i].pod = n.pod,
             \A k \in 1..i - 1 : notes'[k].pod # n.pod
      PROVE  Follows(n.new, notes'[i].old)
  <2>1. /\ i + 1 \in 1..Len(notes) /\ 1 < i + 1 /\ notes[i + 1] = notes'[i]
    BY <1>1
  <2>2. ASSUME NEW k \in 1 + 1..(i + 1) - 1 PROVE notes[k].pod # n.pod
    <3>1. k \in 2..Len(notes) /\ k - 1 \in 1..i - 1
      BY <1>1
    <3> QED BY <1>3, <1>5, <3>1
  <2> QED BY <1>1, <1>5, <2>1, <2>2 DEF QueueInv, Chained
<1> QED BY <1>2, <1>4, <1>5 DEF Handled

\* An event that is queued changes nothing of what has been handled; one that is not
\* leads from gone to gone.
LEMMA DeliverHandled ==
    ASSUME TypeOK, NEW p \in Pods, Deliver(p), NEW q \in Pods, NEW x \in Incarnations,
           Handled(q, x)'
    PROVE  \/ Handled(q, x)
           \/ q = p /\ x.phase = "Gone" /\ cache[p].phase = "Gone" /\ Handled(p, cache[p])
<1> DEFINE n == [pod |-> p, old |-> cache[p], new |-> cluster[p]]
           silent == cache[p].phase = "Gone" /\ cluster[p].phase = "Gone"
<1>1. /\ notes' = IF silent THEN notes ELSE Append(notes, n)
      /\ \A r \in Pods : cache'[r] = IF r = p THEN cluster[p] ELSE cache[r]
  BY DEF Deliver, TypeOK
<1>2. n.pod = p /\ n.old = cache[p]
  OBVIOUS
<1> HIDE DEF n
<1>3. CASE silent
  BY <1>1, <1>3 DEF Handled, Settled
<1>4. CASE ~silent
  <2>1. /\ Len(notes) \in Nat /\ Len(notes') = Len(notes) + 1
        /\ \A i \in 1..Len(notes) : notes'[i] = notes[i]
        /\ notes'[Len(notes) + 1] = n
    BY <1>1, <1>4, NotesAppend
  <2>2. CASE Settled(q)' /\ x = cache'[q]
    <3>1. q # p
      BY <1>2, <2>1, <2>2 DEF Settled
    <3> QED BY <1>1, <2>1, <2>2, <3>1 DEF Handled, Settled
  <2>3. ASSUME NEW i \in 1..Len(notes'), notes'[i].pod = q, x = notes'[i].old,
               \A k \in 1..i - 1 : notes'[k].pod # q
        PROVE  Handled(q, x)
    <3>1. \A k \in 1..i - 1 : k \in 1..Len(notes) /\ notes[k].pod # q
      BY <2>1, <2>3
    <3>2. CASE i \in 1..Len(notes)
      BY <2>1, <2>3, <3>1, <3>2 DEF Handled
    <3>3. CASE i = Len(notes) + 1
      BY <1>2, <2>1, <2>3, <3>1, <3>3 DEF Handled, Settled
    <3> QED BY <2>1, <3>2, <3>3
  <2> QED BY <2>2, <2>3 DEF Handled
<1> QED BY <1>3, <1>4

\* What a pod's streams say of it stays true while no more are registered of
\* it and none that was started is taken back.
LEMMA TracksKept ==
    ASSUME NEW p \in Pods, NEW x \in Incarnations, Tracks(p, x),
           \A c \in Containers : streams'[<<p, c>>] # 0 => streams[<<p, c>>] # 0,
           \A s \in Streams : gor[s] # "none" => gor'[s] # "none"
    PROVE  Tracks(p, x)'
<1>1. Registered(p)' \subseteq Registered(p)
  BY DEF Registered
<1>2. ASSUME x.phase \in {"Running", "Finished"}, NEW c \in x.containers
      PROVE  gor'[<<p, c, x.uid>>] # "none"
  <2>1. <<p, c, x.uid>> \in Streams
    BY <1>2, StreamsAssumption DEF Streams, Uids, Incarnations
  <2> QED BY <1>2, <2>1 DEF Tracks
<1> QED BY <1>1, <1>2 DEF Tracks

\* The first event's pod, after it has been handled.
LEMMA HeadTracked ==
    ASSUME TypeOK, QueueInv, NextNote, Skip \/ OnAdd \/ OnDelete,
           NEW n \in Changes, n = Head(notes), n.pod \notin relisted, Tracks(n.pod, n.old)
    PROVE  Tracks(n.pod, n.new)'
<1>1. /\ n.pod \in Pods /\ n.old \in Incarnations /\ n.new \in Incarnations
      /\ n.old.containers \subseteq Containers /\ n.new.containers \subseteq Containers
      /\ n.old.phase \in Phases /\ n.new.phase \in Phases
  BY DEF Changes, Incarnations
<1>2. /\ ~(n.old.phase = "Gone" /\ n.new.phase = "Gone")
      /\ \/ n.old.phase = "Gone" \/ n.new.phase = "Gone"
         \/ n.old.uid = n.new.uid /\ n.old.containers = n.new.containers
  <2>1. n = notes[1] /\ 1 \in 1..Len(notes)
    BY NotesTail
  <2> QED BY <2>1 DEF QueueInv, Forward, SameSpec
<1>3. Registered(n.pod) \subseteq IF n.old.phase = "Gone" THEN {} ELSE n.old.containers
  BY DEF Tracks
<1>4. CASE Skip
  <2>1. ~Starts(n) /\ ~Deleted(n) /\ UNCHANGED <<streams, gor>>
    BY <1>4 DEF Skip, registryVars, goroutineVars
  <2>2. Registered(n.pod)' = Registered(n.pod)
    BY <2>1 DEF Registered
  <2>3. n.new.phase # "Gone"
    BY <2>1 DEF Deleted
  <2>4. CASE n.new.phase = "Pending"
    BY <1>2, <1>3, <2>2, <2>3, <2>4 DEF Tracks
  <2>5. CASE n.new.phase \in {"Running", "Finished"}
    <3>1. n.old.phase \in {"Running", "Finished"}
      BY <1>1, <2>1, <2>5 DEF Starts, Phases
    <3> QED BY <1>2, <1>3, <2>1, <2>2, <2>3, <3>1 DEF Tracks
  <2> QED BY <1>1, <2>3, <2>4, <2>5 DEF Phases
<1>5. CASE OnAdd
  <2>1. Starts(n) /\ Register(n.pod, n.new.uid, n.new.containers)
    BY <1>5 DEF OnAdd
  <2>2. n.new.phase \in {"Running", "Finished"} /\ n.old.phase \in {"Gone", "Pending"}
    BY <2>1 DEF Starts
  <2>3. Registered(n.pod) \subseteq n.new.containers
    BY <1>2, <1>3, <2>2
  <2>4. Registered(n.pod)' \subseteq n.new.containers
    <3> SUFFICES ASSUME NEW c \in Containers, streams'[<<n.pod, c>>] # 0, c \notin n.new.containers
                 PROVE  c \in Registered(n.pod)
      BY <2>3 DEF Registered
    <3>1. <<n.pod, c>> \in Keys
      BY <1>1 DEF Keys
    <3> QED BY <2>1, <3>1 DEF Register, Registered
  <2>5. ASSUME NEW c \in n.new.containers PROVE gor'[<<n.pod, c, n.new.uid>>] # "none"
    <3>1. <<n.pod, c, n.new.uid>> \in Streams
      BY <1>1, <2>2, StreamsAssumption DEF Streams, Uids, Incarnations
    <3>2. <<n.pod, c, n.new.uid>> \in tospawn'
      BY <2>1 DEF Register
    <3> QED BY <2>1, <3>1, <3>2 DEF Register
  <2> QED BY <2>2, <2>4, <2>5 DEF Tracks
<1>6. CASE OnDelete
  <2>1. n.new.phase = "Gone" /\ Unregister(n.pod, n.old.containers)
    BY <1>6 DEF OnDelete, Deleted
  <2>2. Registered(n.pod) \subseteq n.old.containers
    BY <1>2, <1>3, <2>1
  <2>3. ASSUME NEW c \in Containers PROVE streams'[<<n.pod, c>>] = 0
    <3>1. <<n.pod, c>> \in Keys
      BY <1>1, <2>3 DEF Keys
    <3>2. c \in n.old.containers \/ streams[<<n.pod, c>>] = 0
      BY <2>2 DEF Registered
    <3> QED BY <2>1, <3>1, <3>2 DEF Unregister
  <2> QED BY <2>1, <2>3 DEF Tracks, Registered
<1> QED BY <1>4, <1>5, <1>6

\* No pod's streams change but those of the pod whose event is handled.
LEMMA OthersKept ==
    ASSUME TypeOK, RegistryInv, [Next]_vars, NEW p \in Pods,
           (OnAdd \/ OnDelete) => Head(notes).pod # p
    PROVE  /\ \A c \in Containers : streams'[<<p, c>>] # 0 => streams[<<p, c>>] # 0
           /\ \A s \in Streams : gor[s] # "none" => gor'[s] # "none"
<1>1. ASSUME NEW s \in Streams, gor[s] # "none" PROVE gor'[s] # "none"
  BY <1>1, GoroutineStep DEF OnAdd, Register
<1>2. ASSUME NEW c \in Containers PROVE streams'[<<p, c>>] = streams[<<p, c>>]
  <2>1. <<p, c>> \in Keys
    BY DEF Keys
  <2>2. CASE OnAdd
    BY <2>1, <2>2 DEF OnAdd, Register
  <2>3. CASE OnDelete
    BY <2>1, <2>3 DEF OnDelete, Unregister
  <2>4. CASE ~OnAdd /\ ~OnDelete
    BY <2>4 DEF Next, HandlerStep, ClusterStep, Create, Run, Finish, Delete, Changed, Deliver,
       Skip, OnAddReturns, Spawn, Decide, WriterFails, CancelledReturn, ApiReturn, TailGivesUp,
       Return, Signal, WatchStops, CloseCancels, CloseReturns, registryVars, vars
  <2> QED BY <2>2, <2>3, <2>4
<1> QED BY <1>1, <1>2

LEMMA KeepsUpStep ==
    TypeOK /\ RegistryInv /\ QueueInv /\ KeepsUp /\ [Next]_vars => KeepsUp'
<1> SUFFICES ASSUME TypeOK, RegistryInv, QueueInv, KeepsUp, [Next]_vars,
                    NEW p \in Pods, p \notin relisted', NEW x \in Incarnations, Handled(p, x)'
             PROVE  Tracks(p, x)'
  BY DEF KeepsUp
<1>1. p \notin relisted /\ \A y \in Incarnations : Handled(p, y) => Tracks(p, y)
  <2>1. relisted \subseteq relisted'
    BY QueueCases DEF Deliver
  <2> QED BY <2>1 DEF KeepsUp
<1>2. CASE (Skip \/ OnAdd \/ OnDelete) /\ Head(notes).pod = p
  <2>1. PICK n \in Changes : n = Head(notes)
    BY <1>2, HeadTyped DEF Skip, OnAdd, OnDelete
  <2>2. NextNote /\ UNCHANGED cache /\ n.pod = p
    BY <1>2, <2>1 DEF Skip, OnAdd, OnDelete
  <2>3. Handled(p, n.old) /\ Follows(n.new, x) /\ n.old \in Incarnations
    BY <2>1, <2>2, HeadHandled DEF Changes
  <2>4. Tracks(p, n.new)'
    BY <1>1, <1>2, <2>1, <2>2, <2>3, HeadTracked
  <2> QED BY <2>3, <2>4 DEF Follows, Tracks
<1>3. CASE ~((Skip \/ OnAdd \/ OnDelete) /\ Head(notes).pod = p)
  <2>1. /\ \A c \in Containers : streams'[<<p, c>>] # 0 => streams[<<p, c>>] # 0
        /\ \A s \in Streams : gor[s] # "none" => gor'[s] # "none"
    BY <1>3, OthersKept
  <2>2. ASSUME Handled(p, x) PROVE Tracks(p, x)'
    BY <1>1, <2>1, <2>2, TracksKept
  <2>3. ASSUME NEW q \in Pods, Deliver(q) PROVE Tracks(p, x)'
    <3>1. CASE p = q /\ x.phase = "Gone" /\ cache[p].phase = "Gone" /\ Handled(p, cache[p])
      <4>1. Tracks(p, cache[p])
        BY <1>1, <3>1 DEF TypeOK
      <4>2. Tracks(p, x)
        BY <3>1, <4>1 DEF Tracks
      <4> QED BY <2>1, <4>2, TracksKept
    <3> QED BY <2>2, <2>3, <3>1, DeliverHandled
  <2>4. ASSUME NextNote, UNCHANGED cache PROVE Handled(p, x)
    <3>1. Head(notes).pod # p
      <4>1. notes' # notes
        BY <2>4, NotesTail
      <4>2. \A q \in Pods : ~Deliver(q)
        BY <2>4 DEF Deliver, TypeOK
      <4>3. Skip \/ OnAdd \/ OnDelete
        BY <4>1, <4>2 DEF Next, HandlerStep, ClusterStep, Create, Run, Finish, Delete, Changed,
           OnAddReturns, Spawn, Decide, WriterFails, CancelledReturn, ApiReturn, TailGivesUp,
           Return, Signal, WatchStops, CloseCancels, CloseReturns, watchVars, vars
      <4> QED BY <1>3, <4>3
    <3> QED BY <2>4, <3>1, OtherHandled
  <2>5. ASSUME UNCHANGED <<cache, notes>> PROVE Handled(p, x)
    BY <2>5 DEF Handled, Settled
  <2> QED BY <2>2, <2>3, <2>4, <2>5, QueueCases
<1> QED BY <1>2, <1>3

THEOREM KeepsUpInvariant == Spec => []KeepsUp
<1>1. Init => KeepsUp
  <2> SUFFICES ASSUME Init, NEW p \in Pods, NEW x \in Incarnations, Handled(p, x)
               PROVE  Tracks(p, x)
    BY DEF KeepsUp
  <2>1. x.phase = "Gone"
    BY DEF Init, Handled, Absent
  <2>2. Registered(p) = {}
    BY DEF Init, Registered, Keys
  <2> QED BY <2>1, <2>2 DEF Tracks
<1> QED BY <1>1, Typing, RegistryInvariant, QueueInvariant, KeepsUpStep, PTL DEF Spec

\* Whatever the watch misses, once the collector has handled all it was told it has
\* streamed every container of the pods that started and has no stream left
\* registered of those that are gone (collector.go:262).
THEOREM StreamsSettleExactly == Spec => []SettledIsExact
<1>1. TypeOK /\ KeepsUp => SettledIsExact
  <2> SUFFICES ASSUME TypeOK, KeepsUp, NEW p \in Pods \ relisted, Idle(p)
               PROVE  /\ cache[p].phase \in {"Running", "Finished"} => Streamed(p)
                      /\ cache[p].phase = "Gone" => Registered(p) = {}
    BY DEF SettledIsExact, StartedIsStreamed, GoneIsForgotten
  <2>1. cache[p] \in Incarnations /\ Handled(p, cache[p])
    BY DEF TypeOK, Idle, Handled
  <2>2. Tracks(p, cache[p])
    BY <2>1 DEF KeepsUp
  <2> QED BY <2>2 DEF Tracks, Streamed
<1> QED BY <1>1, Typing, KeepsUpInvariant, PTL

-----------------------------------------------------------------------------
(* The flags. *)

\* A flag of p's that a cancelled stream did not record, or one that may still
\* come of what OnAdd has yet to spawn.
Telling(p) == p \in jsonPods \ late \/ \E s \in tospawn : s[1] = p

FlagInv ==
    /\ tospawn # {} => adding # {}
    /\ \A p \in Pods \ relisted :
          Telling(p) => \A x \in Incarnations : Handled(p, x) => x.phase # "Gone"

\* What p's handler has seen after a step that does not handle an event of p's.
LEMMA HandledKept ==
    ASSUME TypeOK, [Next]_vars, NEW p \in Pods, NEW x \in Incarnations, Handled(p, x)',
           ~((Skip \/ OnAdd \/ OnDelete) /\ Head(notes).pod = p)
    PROVE  \/ Handled(p, x)
           \/ cache[p].phase = "Gone" /\ Handled(p, cache[p])
<1>1. CASE \E q \in Pods : Deliver(q)
  BY <1>1, DeliverHandled
<1>2. CASE NextNote /\ UNCHANGED cache
  <2>1. notes' # notes
    BY <1>2, NotesTail
  <2>2. \A q \in Pods : ~Deliver(q)
    BY <1>2 DEF Deliver, TypeOK
  <2>3. Skip \/ OnAdd \/ OnDelete
    BY <2>1, <2>2 DEF Next, HandlerStep, ClusterStep, Create, Run, Finish, Delete, Changed,
       OnAddReturns, Spawn, Decide, WriterFails, CancelledReturn, ApiReturn, TailGivesUp,
       Return, Signal, WatchStops, CloseCancels, CloseReturns, watchVars, vars
  <2> QED BY <1>2, <2>3, OtherHandled
<1>3. CASE UNCHANGED <<cache, notes>>
  BY <1>3 DEF Handled, Settled
<1> QED BY <1>1, <1>2, <1>3, QueueCases

\* No other step comes to tell of p but a stream that nobody has cancelled.
LEMMA TellingStep ==
    ASSUME TypeOK, [Next]_vars, NEW p \in Pods, Telling(p)', ~Telling(p),
           OnAdd => Head(notes).pod # p
    PROVE  \E s \in Streams : s[1] = p /\ Decide(s) /\ s \notin cancelled
<1>1. CASE UNCHANGED <<jsonPods, late, tospawn>>
  BY <1>1 DEF Telling
<1>2. CASE OnAdd
  BY <1>2 DEF OnAdd, Register, Telling
<1>3. CASE OnDelete
  BY <1>3 DEF OnDelete, handlerVars, Telling
<1>4. ASSUME NEW s \in Streams, Spawn(s) PROVE FALSE
  BY <1>4 DEF Spawn, Telling
<1>5. ASSUME NEW s \in Streams, Decide(s) PROVE s[1] = p /\ s \notin cancelled
  BY <1>5 DEF Decide, handlerVars, Telling
<1>6. \/ UNCHANGED <<jsonPods, late, tospawn>> \/ OnAdd \/ OnDelete
      \/ \E s \in Streams : Spawn(s) \/ Decide(s)
  BY DEF Next, HandlerStep, ClusterStep, Create, Run, Finish, Delete, Changed, Deliver, Skip,
     OnAddReturns, WriterFails, CancelledReturn, ApiReturn, TailGivesUp, Return, Signal,
     WatchStops, CloseCancels, CloseReturns, goroutineVars, handlerVars, vars
<1> QED BY <1>1, <1>2, <1>3, <1>4, <1>5, <1>6

LEMMA FlagStep ==
    TypeOK /\ RegistryInv /\ QueueInv /\ KeepsUp /\ FlagInv /\ [Next]_vars => FlagInv'
<1> SUFFICES ASSUME TypeOK, RegistryInv, QueueInv, KeepsUp, FlagInv, [Next]_vars
             PROVE  FlagInv'
  OBVIOUS
<1>1. tospawn' # {} => adding' # {}
  <2>1. CASE OnAdd \/ OnAddReturns
    BY <2>1 DEF OnAdd, OnAddReturns
  <2>2. ASSUME NEW s \in Streams, Spawn(s) PROVE tospawn' # {} => adding' # {}
    BY <2>2 DEF Spawn, FlagInv
  <2>3. CASE UNCHANGED handlerVars
    BY <2>3 DEF handlerVars, FlagInv
  <2>4. \/ OnAdd \/ OnAddReturns \/ UNCHANGED handlerVars \/ \E s \in Streams : Spawn(s)
    BY DEF Next, HandlerStep, ClusterStep, Create, Run, Finish, Delete, Changed, Deliver, Skip,
       OnDelete, Decide, WriterFails, CancelledReturn, ApiReturn, TailGivesUp, Return, Signal,
       WatchStops, CloseCancels, CloseReturns, vars
  <2> QED BY <2>1, <2>2, <2>3, <2>4
<1>2. ASSUME NEW p \in Pods, p \notin relisted', Telling(p)',
             NEW x \in Incarnations, Handled(p, x)'
      PROVE  x.phase # "Gone"
  <2>1. /\ p \notin relisted
        /\ Telling(p) => \A y \in Incarnations : Handled(p, y) => y.phase # "Gone"
    <3>1. relisted \subseteq relisted'
      BY QueueCases DEF Deliver
    <3> QED BY <1>2, <3>1 DEF FlagInv
  <2>2. CASE (Skip \/ OnAdd \/ OnDelete) /\ Head(notes).pod = p
    <3>1. PICK n \in Changes : n = Head(notes)
      BY <2>2, HeadTyped DEF Skip, OnAdd, OnDelete
    <3>2. NextNote /\ UNCHANGED cache /\ n.pod = p
      BY <2>2, <3>1 DEF Skip, OnAdd, OnDelete
    <3>3. Follows(n.new, x)
      BY <1>2, <3>1, <3>2, HeadHandled
    <3>4. ~OnDelete
      <4> SUFFICES ASSUME OnDelete PROVE FALSE
        OBVIOUS
      <4>1. adding = {} /\ UNCHANGED tospawn /\ jsonPods' = jsonPods \ {p}
        BY <2>2, <3>2 DEF NextNote, OnDelete, handlerVars
      <4>2. tospawn' = {} /\ p \notin jsonPods'
        BY <4>1 DEF FlagInv
      <4> QED BY <1>2, <4>2 DEF Telling
    <3>5. n.new.phase # "Gone"
      BY <2>2, <3>1, <3>4 DEF Skip, OnAdd, Starts, Deleted
    <3> QED BY <3>3, <3>5 DEF Follows
  <2>3. CASE ~((Skip \/ OnAdd \/ OnDelete) /\ Head(notes).pod = p)
    <3>1. CASE Telling(p)
      BY <1>2, <2>1, <2>3, <3>1, HandledKept DEF TypeOK
    <3>2. CASE ~Telling(p)
      <4>1. PICK s \in Streams : s[1] = p /\ Decide(s) /\ s \notin cancelled
        BY <1>2, <2>3, <3>2, TellingStep
      <4>2. Handled(p, x)
        BY <1>2, <4>1 DEF Decide, watchVars, Handled, Settled
      <4>3. s[2] \in Registered(p)
        <5>1. streams[Key(s)] = s[3]
          BY <4>1 DEF Decide, Alive, RegistryInv, UncancelledIsRegistered
        <5>2. s[2] \in Containers /\ s[3] # 0
          BY StreamsAssumption DEF Streams, Uids
        <5> QED BY <4>1, <5>1, <5>2 DEF Key, Registered
      <4>4. Tracks(p, x)
        BY <2>1, <4>2 DEF KeepsUp
      <4> QED BY <4>3, <4>4 DEF Tracks
    <3> QED BY <3>1, <3>2
  <2> QED BY <2>2, <2>3
<1> QED BY <1>1, <1>2 DEF FlagInv

\* Once a pod's deletion has been handled its flag is gone with it, unless a
\* stream that had been cancelled recorded it or the pod's replacement came as
\* an update: no stream that may still tell outlives its pod's registration
\* (collector.go:303-325).
THEOREM FlagsGoWithPods == Spec => []FlagGoesWithPod
<1>1. Init => FlagInv
  BY DEF Init, FlagInv, Telling
<1>2. TypeOK /\ FlagInv => FlagGoesWithPod
  <2> SUFFICES ASSUME TypeOK, FlagInv, NEW p \in jsonPods \ (late \cup relisted), Idle(p)
               PROVE  cache[p].phase # "Gone"
    BY DEF FlagGoesWithPod
  <2>1. p \in Pods /\ cache[p] \in Incarnations /\ Handled(p, cache[p])
    BY DEF TypeOK, Idle, Handled
  <2> QED BY <2>1 DEF FlagInv, Telling
<1> QED BY <1>1, <1>2, Typing, RegistryInvariant, QueueInvariant, KeepsUpInvariant, FlagStep,
        PTL DEF Spec

-----------------------------------------------------------------------------
(* Startup: where the lines of the file being migrated are. *)

Copying == pc \in {"copy", "remove"}
Later   == pc \in {"sync", "serve", "shutdown", "close"}

\* What is on the disk is at most what there is.
SyncedPart == \A s \in Files \X Days : synced[s] <= Len(seg[s])

\* The files still to migrate are the legacy ones there are.
MigrateControl ==
    /\ Copying => /\ migrate /\ file \in Files /\ file \notin todo
                  /\ legacy = todo \cup {file} /\ pos <= Len(Legacy[file])
    /\ pc = "migrate" => migrate /\ legacy = todo
    /\ (pc = "cluster" \/ Later) /\ migrate => legacy = {}

ServeControl ==
    /\ collecting => Later
    /\ api => pc \in {"serve", "shutdown", "close"}
    /\ inflight => api

\* A line that is written is on the disk, or in the segment that is open.
PlacedLine(i) ==
    \E d \in Days : \E k \in 1..Len(seg[<<file, d>>]) :
        seg[<<file, d>>][k] = i /\ (d # open => k <= synced[<<file, d>>])

Progress ==
    /\ pc = "copy" => \A i \in 1..pos : PlacedLine(i)
    /\ pc = "remove" => \A i \in 1..Len(Legacy[file]) : DurableLine(file, i)

\* A file has no lines in segments before its migration begins, unless one was cut
\* short, and then those that have been copied.
Begun ==
    /\ \A f \in legacy \ cut : ~(Copying /\ f = file) => \A d \in Days : seg[<<f, d>>] = <<>>
    /\ Copying /\ file \notin cut =>
        \A d \in Days : \A k \in 1..Len(seg[<<file, d>>]) : seg[<<file, d>>][k] \in 1..pos

StartupInvariant ==
    /\ StartupTypeOK /\ SyncedPart /\ MigrateControl /\ ServeControl
    /\ Progress /\ LegacyLineKept /\ Begun /\ TwiceOnlyIfCut

-----------------------------------------------------------------------------
LEMMA FileLines ==
    ASSUME NEW f \in Files
    PROVE  Legacy[f] \in Seq(Days \cup {NoTime}) /\ Len(Legacy[f]) \in Nat
BY StartupAssumption DEF Files

\* What is kept of the lines does not depend on the process.
LEMMA VolumeKept ==
    ASSUME SyncedPart, LegacyLineKept, TwiceOnlyIfCut,
           UNCHANGED <<legacy, seg, synced>>, cut \subseteq cut'
    PROVE  SyncedPart' /\ LegacyLineKept' /\ TwiceOnlyIfCut'
<1>1. SyncedPart'
  BY DEF SyncedPart
<1>2. LegacyLineKept'
  <2> SUFFICES ASSUME NEW f \in Files \ legacy, NEW i \in 1..Len(Legacy[f])
               PROVE  DurableLine(f, i)'
    BY DEF LegacyLineKept
  <2>1. DurableLine(f, i)
    BY DEF LegacyLineKept
  <2> QED BY <2>1 DEF DurableLine
<1>3. TwiceOnlyIfCut'
  <2> SUFFICES ASSUME NEW f \in Files \ cut', NEW d \in Days, NEW e \in Days,
                      NEW k \in 1..Len(seg[<<f, d>>]), NEW m \in 1..Len(seg[<<f, e>>]),
                      seg[<<f, d>>][k] = seg[<<f, e>>][m]
               PROVE  <<d, k>> = <<e, m>>
    BY DEF TwiceOnlyIfCut
  <2>1. f \in Files \ cut
    OBVIOUS
  <2> QED BY <2>1 DEF TwiceOnlyIfCut
<1> QED BY <1>1, <1>2, <1>3

\* What a process that is gone leaves in memory; the volume is as it was.
LEMMA GoneKeeps ==
    ASSUME StartupInvariant, NEW end \in {"down", "exited"}, NEW back \in SUBSET Files,
           Gone(end, back)
    PROVE  /\ cut' \subseteq Files /\ cut \subseteq cut' /\ back \subseteq cut'
           /\ Copying => file \in cut'
           /\ MigrateControl' /\ ServeControl' /\ Progress'
           /\ pc' = end /\ todo' = {} /\ file' = None /\ pos' = 0 /\ open' = NoTime
           /\ ~collecting' /\ ~api' /\ srv' = "new" /\ ~inflight' /\ ~signal'
           /\ collecting' \in BOOLEAN /\ api' \in BOOLEAN /\ inflight' \in BOOLEAN
           /\ signal' \in BOOLEAN
<1>1. cut' \subseteq Files
  BY DEF Gone, StartupInvariant, StartupTypeOK, MigrateControl, Copying
<1> QED
  BY <1>1 DEF Gone, MigrateControl, ServeControl, Progress, Copying, Later

LEMMA GoneStep ==
    ASSUME StartupInvariant, NEW end \in {"down", "exited"}, Gone(end, {}),
           UNCHANGED <<volumeVars, migrate>>,
           faults' \in 0..MaxFaults, crashes' \in 0..MaxCrashes, signals' \in 0..MaxSignals
    PROVE  StartupInvariant'
<1>1. cut' \subseteq Files /\ cut \subseteq cut' /\ MigrateControl' /\ ServeControl' /\ Progress'
      /\ (Copying => file \in cut')
      /\ pc' = end /\ todo' = {} /\ file' = None /\ pos' = 0 /\ open' = NoTime
      /\ collecting' \in BOOLEAN /\ api' \in BOOLEAN /\ inflight' \in BOOLEAN
      /\ signal' \in BOOLEAN /\ srv' = "new"
  BY GoneKeeps
<1>2. StartupTypeOK'
  BY <1>1 DEF StartupInvariant, StartupTypeOK, volumeVars
<1>3. SyncedPart' /\ LegacyLineKept' /\ TwiceOnlyIfCut'
  BY <1>1, VolumeKept DEF StartupInvariant, volumeVars
<1>4. Begun'
  BY <1>1 DEF StartupInvariant, Begun, Copying, volumeVars
<1> QED BY <1>1, <1>2, <1>3, <1>4 DEF StartupInvariant

LEMMA FatalStep ==
    ASSUME StartupInvariant, Fatal, faults' \in 0..MaxFaults
    PROVE  StartupInvariant'
<1>1. crashes' \in 0..MaxCrashes /\ signals' \in 0..MaxSignals
  BY DEF Fatal, StartupInvariant, StartupTypeOK
<1> QED BY <1>1, GoneStep DEF Fatal, volumeVars

LEMMA FailsStep == ASSUME StartupInvariant, Fails PROVE StartupInvariant'
<1>1. faults' \in 0..MaxFaults
  BY StartupAssumption DEF Fails, StartupInvariant, StartupTypeOK
<1> QED BY <1>1, FatalStep DEF Fails

\* Truncated to what is on the disk, a segment keeps its durable lines and no others.
LEMMA Truncated ==
    ASSUME StartupInvariant, NEW s \in Files \X Days
    PROVE  /\ SubSeq(seg[s], 1, synced[s]) \in Seq(Nat)
           /\ Len(SubSeq(seg[s], 1, synced[s])) = synced[s]
           /\ \A k \in 1..synced[s] :
                k \in 1..Len(seg[s]) /\ SubSeq(seg[s], 1, synced[s])[k] = seg[s][k]
           /\ seg[s] = <<>> => SubSeq(seg[s], 1, synced[s]) = <<>>
<1>1. seg[s] \in Seq(Nat) /\ synced[s] \in Nat /\ synced[s] <= Len(seg[s])
  BY DEF StartupInvariant, StartupTypeOK, SyncedPart
<1> DEFINE first == SubSeq(seg[s], 1, synced[s])
<1>2. first \in Seq(Nat) /\ Len(first) = synced[s]
  BY <1>1
<1>3. \A k \in 1..synced[s] : k \in 1..Len(seg[s]) /\ first[k] = seg[s][k]
  BY <1>1
<1>4. seg[s] = <<>> => first = <<>>
  BY <1>1
<1> QED BY <1>2, <1>3, <1>4

LEMMA PowerFailureStep == ASSUME StartupInvariant, PowerFailure PROVE StartupInvariant'
<1> PICK back \in SUBSET removed : legacy' = legacy \cup back /\ Gone("down", back)
  BY DEF PowerFailure
<1>1. back \in SUBSET Files
  BY DEF StartupInvariant, StartupTypeOK
<1>2. /\ cut' \subseteq Files /\ cut \subseteq cut' /\ back \subseteq cut'
      /\ (Copying => file \in cut')
      /\ MigrateControl' /\ ServeControl' /\ Progress'
      /\ pc' = "down" /\ todo' = {} /\ file' = None /\ pos' = 0 /\ open' = NoTime
      /\ collecting' \in BOOLEAN /\ api' \in BOOLEAN /\ inflight' \in BOOLEAN
      /\ signal' \in BOOLEAN /\ srv' = "new"
  BY <1>1, GoneKeeps
<1>3. DOMAIN seg = Files \X Days
  BY DEF StartupInvariant, StartupTypeOK
<1>4. \A s \in Files \X Days : seg'[s] = SubSeq(seg[s], 1, synced[s])
  BY <1>3 DEF PowerFailure
<1>5. seg' \in [Files \X Days -> Seq(Nat)]
  BY <1>3, Truncated DEF PowerFailure
<1>6. crashes' \in 0..MaxCrashes
  BY StartupAssumption DEF PowerFailure, StartupInvariant, StartupTypeOK
<1>7. StartupTypeOK'
  BY <1>1, <1>2, <1>5, <1>6 DEF PowerFailure, StartupInvariant, StartupTypeOK
<1>8. \A s \in Files \X Days :
        /\ Len(seg'[s]) = synced[s] /\ synced[s] \in Nat
        /\ \A k \in 1..synced[s] : k \in 1..Len(seg[s]) /\ seg'[s][k] = seg[s][k]
        /\ seg[s] = <<>> => seg'[s] = <<>>
  <2> SUFFICES ASSUME NEW s \in Files \X Days
               PROVE  /\ Len(seg'[s]) = synced[s] /\ synced[s] \in Nat
                      /\ \A k \in 1..synced[s] : k \in 1..Len(seg[s]) /\ seg'[s][k] = seg[s][k]
                      /\ seg[s] = <<>> => seg'[s] = <<>>
    OBVIOUS
  <2>1. seg'[s] = SubSeq(seg[s], 1, synced[s])
    BY <1>4
  <2>2. synced[s] \in Nat
    BY DEF StartupInvariant, StartupTypeOK
  <2> QED BY <2>1, <2>2, Truncated
<1>9. SyncedPart'
  <2>1. synced' = synced
    BY DEF PowerFailure
  <2> QED BY <1>8, <2>1 DEF SyncedPart
<1>10. LegacyLineKept'
  <2> SUFFICES ASSUME NEW f \in Files \ legacy', NEW i \in 1..Len(Legacy[f])
               PROVE  DurableLine(f, i)'
    BY DEF LegacyLineKept
  <2>1. PICK d \in Days : \E k \in 1..synced[<<f, d>>] : seg[<<f, d>>][k] = i
    BY DEF StartupInvariant, LegacyLineKept, DurableLine
  <2>2. PICK k \in 1..synced[<<f, d>>] : seg[<<f, d>>][k] = i
    BY <2>1
  <2>3. seg'[<<f, d>>][k] = i /\ synced' = synced
    BY <1>8, <2>2 DEF PowerFailure
  <2> QED BY <2>2, <2>3 DEF DurableLine
<1>11. TwiceOnlyIfCut'
  <2> SUFFICES ASSUME NEW f \in Files \ cut', NEW d \in Days, NEW e \in Days,
                      NEW k \in 1..Len(seg'[<<f, d>>]), NEW m \in 1..Len(seg'[<<f, e>>]),
                      seg'[<<f, d>>][k] = seg'[<<f, e>>][m]
               PROVE  <<d, k>> = <<e, m>>
    BY DEF TwiceOnlyIfCut
  <2>1. f \in Files \ cut /\ k \in 1..Len(seg[<<f, d>>]) /\ m \in 1..Len(seg[<<f, e>>])
        /\ seg[<<f, d>>][k] = seg[<<f, e>>][m]
    BY <1>2, <1>8
  <2> QED BY <2>1 DEF StartupInvariant, TwiceOnlyIfCut
<1>12. Begun'
  <2>1. ASSUME NEW f \in legacy' \ cut', NEW d \in Days PROVE seg'[<<f, d>>] = <<>>
    <3>1. f \in legacy \ cut /\ f \in Files /\ ~(Copying /\ f = file)
      BY <1>2, <2>1 DEF StartupInvariant, StartupTypeOK
    <3>2. seg[<<f, d>>] = <<>>
      BY <3>1 DEF StartupInvariant, Begun
    <3> QED BY <3>1, <3>2, <1>8
  <2> QED BY <1>2, <2>1 DEF Begun, Copying
<1> QED BY <1>2, <1>7, <1>9, <1>10, <1>11, <1>12 DEF StartupInvariant

-----------------------------------------------------------------------------
\* A step that leaves the volume and the migration alone.
LEMMA QuietStep ==
    ASSUME StartupInvariant, UNCHANGED <<legacy, seg, synced, migrate, copyVars, cut>>,
           removed' \subseteq Files,
           pc' = pc \/ {pc, pc'} \cap {"migrate", "copy", "remove"} = {}
                    \/ (pc = "migrate" /\ todo = {} /\ pc' = "cluster"),
           pc' \in {"down", "check", "migrate", "copy", "remove", "cluster", "sync", "serve",
                    "shutdown", "close", "exited"},
           (pc' = "cluster" \/ Later') => (pc = "cluster" \/ Later) \/ pc = "migrate" \/ ~migrate,
           ServeControl',
           collecting' \in BOOLEAN, api' \in BOOLEAN, inflight' \in BOOLEAN, signal' \in BOOLEAN,
           srv' \in {"new", "listening", "failed", "closed"},
           faults' \in 0..MaxFaults, crashes' \in 0..MaxCrashes, signals' \in 0..MaxSignals
    PROVE  StartupInvariant'
<1>1. StartupTypeOK'
  BY DEF StartupInvariant, StartupTypeOK, copyVars
<1>2. SyncedPart' /\ LegacyLineKept' /\ TwiceOnlyIfCut'
  BY VolumeKept DEF StartupInvariant
<1>3. MigrateControl'
  BY DEF StartupInvariant, MigrateControl, Copying, Later, copyVars
<1>4. Progress' /\ Begun'
  <2>1. Copying' => Copying /\ pc' = pc
    BY DEF Copying
  <2>2. Copying => Copying'
    BY DEF Copying
  <2>3. Progress'
    <3>1. UNCHANGED <<file, pos, open, seg, synced>>
      BY DEF copyVars
    <3>2. CASE pc' = "copy"
      <4> SUFFICES ASSUME NEW i \in 1..pos PROVE PlacedLine(i)'
        BY <3>1, <3>2 DEF Progress
      <4>1. PlacedLine(i)
        BY <2>1, <3>2 DEF StartupInvariant, Progress, Copying
      <4> QED BY <3>1, <4>1 DEF PlacedLine
    <3>3. CASE pc' = "remove"
      <4> SUFFICES ASSUME NEW i \in 1..Len(Legacy[file]) PROVE DurableLine(file, i)'
        BY <3>1, <3>3 DEF Progress
      <4>1. DurableLine(file, i)
        BY <2>1, <3>3 DEF StartupInvariant, Progress, Copying
      <4> QED BY <3>1, <4>1 DEF DurableLine
    <3> QED BY <3>2, <3>3 DEF Progress
  <2> QED BY <2>1, <2>2, <2>3 DEF StartupInvariant, Begun, copyVars
<1> QED BY <1>1, <1>2, <1>3, <1>4 DEF StartupInvariant

LEMMA OpenLegacyStep ==
    ASSUME StartupInvariant, NEW f \in Files, OpenLegacy(f)
    PROVE  StartupInvariant'
<1>1. CASE Fails
  BY <1>1, FailsStep
<1>2. CASE ~Fails
  <2>1. /\ pc = "migrate" /\ f \in todo
        /\ pc' = "copy" /\ todo' = todo \ {f} /\ file' = f /\ pos' = 0 /\ open' = NoTime
        /\ UNCHANGED <<volumeVars, migrate, serveVars, boundVars, cut>>
    BY <1>2 DEF OpenLegacy
  <2>2. StartupTypeOK'
    BY <2>1 DEF StartupInvariant, StartupTypeOK, volumeVars, serveVars, boundVars
  <2>3. SyncedPart' /\ LegacyLineKept' /\ TwiceOnlyIfCut'
    BY <2>1, VolumeKept DEF StartupInvariant, volumeVars
  <2>4. MigrateControl'
    BY <2>1, FileLines DEF StartupInvariant, MigrateControl, Copying, Later, volumeVars
  <2>5. ServeControl'
    BY <2>1 DEF StartupInvariant, ServeControl, Later, serveVars
  <2>6. Progress'
    BY <2>1 DEF Progress
  <2>7. Begun'
    <3>1. \A d \in Days : f \notin cut => seg[<<f, d>>] = <<>>
      BY <2>1 DEF StartupInvariant, Begun, MigrateControl, Copying
    <3> QED BY <2>1, <3>1 DEF StartupInvariant, Begun, Copying, volumeVars
  <2> QED BY <2>2, <2>3, <2>4, <2>5, <2>6, <2>7 DEF StartupInvariant
<1> QED BY <1>1, <1>2

\* What is on the disk after the sync of the open segment.
LEMMA SyncedAll ==
    ASSUME StartupInvariant, file \in Files
    PROVE  /\ Sync \in [Files \X Days -> Nat]
           /\ \A s \in Files \X Days :
                Sync[s] = IF s = <<file, open>> THEN Len(seg[s]) ELSE synced[s]
<1>0. StartupTypeOK
  BY DEF StartupInvariant
<1>1. CASE open = NoTime
  <2>1. \A s \in Files \X Days : s # <<file, open>>
    BY <1>1, StartupAssumption
  <2> QED BY <1>0, <1>1, <2>1 DEF Sync, StartupTypeOK
<1>2. CASE open # NoTime
  <2>1. <<file, open>> \in Files \X Days
    BY <1>0, <1>2 DEF StartupTypeOK
  <2>2. Len(seg[<<file, open>>]) \in Nat
    BY <1>0, <2>1 DEF StartupTypeOK
  <2> QED BY <1>0, <1>2, <2>1, <2>2 DEF Sync, StartupTypeOK
<1> QED BY <1>1, <1>2

\* A line is appended to the segment of its day; the one left is synced first.
LEMMA AppendStep ==
    ASSUME StartupInvariant, NEW day \in Days, pc = "copy", pos < Len(Legacy[file]),
           synced' = Roll(day), open' = day,
           seg' = [seg EXCEPT ![<<file, day>>] = Append(@, pos + 1)], pos' = pos + 1,
           UNCHANGED <<legacy, removed, migrate, pc, todo, file, serveVars, boundVars, cut>>
    PROVE  StartupInvariant'
<1>1. /\ file \in Files /\ file \notin todo /\ legacy = todo \cup {file} /\ migrate
      /\ Len(Legacy[file]) \in Nat /\ pos \in Nat /\ <<file, day>> \in Files \X Days
  BY FileLines DEF StartupInvariant, MigrateControl, Copying, StartupTypeOK
<1>2. \A s \in Files \X Days : seg[s] \in Seq(Nat) /\ synced[s] \in Nat /\ synced[s] <= Len(seg[s])
  BY DEF StartupInvariant, StartupTypeOK, SyncedPart
<1>3. /\ synced' \in [Files \X Days -> Nat]
      /\ \A s \in Files \X Days :
            synced'[s] = IF s = <<file, open>> /\ day # open THEN Len(seg[s]) ELSE synced[s]
  BY <1>1, SyncedAll DEF Roll, StartupInvariant, StartupTypeOK
<1>4. /\ seg' \in [Files \X Days -> Seq(Nat)]
      /\ \A s \in Files \X Days :
            seg'[s] = IF s = <<file, day>> THEN Append(seg[s], pos + 1) ELSE seg[s]
  <2>1. Append(seg[<<file, day>>], pos + 1) \in Seq(Nat)
    BY <1>1, <1>2
  <2>2. seg \in [Files \X Days -> Seq(Nat)]
    BY DEF StartupInvariant, StartupTypeOK
  <2> QED BY <1>1, <2>1, <2>2
<1>5. \A s \in Files \X Days :
        /\ Len(seg'[s]) = IF s = <<file, day>> THEN Len(seg[s]) + 1 ELSE Len(seg[s])
        /\ Len(seg[s]) \in Nat
        /\ \A k \in 1..Len(seg[s]) : seg'[s][k] = seg[s][k]
        /\ s = <<file, day>> => seg'[s][Len(seg[s]) + 1] = pos + 1
        /\ synced[s] <= synced'[s] /\ synced'[s] <= Len(seg'[s])
  <2> SUFFICES ASSUME NEW s \in Files \X Days
               PROVE  /\ Len(seg'[s]) = IF s = <<file, day>> THEN Len(seg[s]) + 1 ELSE Len(seg[s])
                      /\ Len(seg[s]) \in Nat
                      /\ \A k \in 1..Len(seg[s]) : seg'[s][k] = seg[s][k]
                      /\ s = <<file, day>> => seg'[s][Len(seg[s]) + 1] = pos + 1
                      /\ synced[s] <= synced'[s] /\ synced'[s] <= Len(seg'[s])
    OBVIOUS
  <2>1. seg[s] \in Seq(Nat) /\ Len(seg[s]) \in Nat /\ synced[s] \in Nat /\ synced[s] <= Len(seg[s])
    BY <1>2
  <2>2. synced'[s] = (IF s = <<file, open>> /\ day # open THEN Len(seg[s]) ELSE synced[s])
    BY <1>3
  <2>3. seg'[s] = (IF s = <<file, day>> THEN Append(seg[s], pos + 1) ELSE seg[s])
    BY <1>4
  <2>4. /\ Len(Append(seg[s], pos + 1)) = Len(seg[s]) + 1
        /\ \A k \in 1..Len(seg[s]) : Append(seg[s], pos + 1)[k] = seg[s][k]
        /\ Append(seg[s], pos + 1)[Len(seg[s]) + 1] = pos + 1
    BY <1>1, <2>1
  <2>5. CASE s = <<file, day>>
    <3>1. synced'[s] = synced[s]
      BY <2>2, <2>5
    <3> QED BY <2>1, <2>3, <2>4, <2>5, <3>1
  <2>6. CASE s # <<file, day>>
    BY <2>1, <2>2, <2>3, <2>6
  <2> QED BY <2>5, <2>6
<1>6. StartupTypeOK'
  <2>1. StartupTypeOK
    BY DEF StartupInvariant
  <2>2. pos' \in Nat /\ open' \in Days \cup {NoTime}
    BY <1>1
  <2>3. UNCHANGED <<collecting, api, srv, inflight, signal, faults, crashes, signals>>
    BY DEF serveVars, boundVars
  <2> QED BY <1>3, <1>4, <2>1, <2>2, <2>3 DEF StartupTypeOK
<1>7. SyncedPart'
  BY <1>5 DEF SyncedPart
<1>8. MigrateControl' /\ ServeControl'
  BY <1>1 DEF StartupInvariant, MigrateControl, ServeControl, Copying, Later, serveVars
<1>9. LegacyLineKept'
  <2> SUFFICES ASSUME NEW f \in Files \ legacy, NEW i \in 1..Len(Legacy[f])
               PROVE  DurableLine(f, i)'
    BY DEF LegacyLineKept
  <2>1a. PICK d \in Days : \E k \in 1..synced[<<f, d>>] :
            seg[<<f, d>>][k] = i
    BY DEF StartupInvariant, LegacyLineKept, DurableLine
  <2>1. PICK k \in 1..synced[<<f, d>>] :
            seg[<<f, d>>][k] = i
    BY <2>1a
  <2>2. <<f, d>> \in Files \X Days
    OBVIOUS
  <2>3. k \in 1..Len(seg[<<f, d>>]) /\ k \in 1..synced'[<<f, d>>]
    BY <1>2, <1>3, <1>5, <2>1, <2>2
  <2>4. seg'[<<f, d>>][k] = i
    BY <1>5, <2>1, <2>2, <2>3
  <2> QED BY <2>3, <2>4 DEF DurableLine
<1>10. Progress'
  <2> SUFFICES ASSUME NEW i \in 1..(pos + 1) PROVE PlacedLine(i)'
    BY DEF Progress
  <2>1. CASE i = pos + 1
    <3>1. Len(seg[<<file, day>>]) + 1 \in 1..Len(seg'[<<file, day>>])
          /\ seg'[<<file, day>>][Len(seg[<<file, day>>]) + 1] = i
      BY <1>1, <1>5, <2>1
    <3> QED BY <3>1 DEF PlacedLine
  <2>2. CASE i # pos + 1
    <3>1. i \in 1..pos
      BY <1>1, <2>2
    <3>2a. PICK d \in Days : \E k \in 1..Len(seg[<<file, d>>]) :
              seg[<<file, d>>][k] = i /\ (d # open => k <= synced[<<file, d>>])
      BY <3>1 DEF StartupInvariant, Progress, PlacedLine
    <3>2. PICK k \in 1..Len(seg[<<file, d>>]) :
              seg[<<file, d>>][k] = i /\ (d # open => k <= synced[<<file, d>>])
      BY <3>2a
    <3>3. k \in 1..Len(seg'[<<file, d>>]) /\ seg'[<<file, d>>][k] = i
      BY <1>1, <1>5, <3>2
    <3>4. d # day => k <= synced'[<<file, d>>]
      <4>1. <<file, d>> \in Files \X Days
        BY <1>1
      <4>2. CASE d = open
        BY <1>3, <3>2, <4>1, <4>2
      <4>3. CASE d # open
        BY <1>3, <3>2, <4>1, <4>3
      <4> QED BY <4>2, <4>3
    <3> QED BY <3>3, <3>4 DEF PlacedLine
  <2> QED BY <2>1, <2>2
<1>11. Begun'
  <2>1. ASSUME NEW f \in legacy \ cut, f # file, NEW d \in Days PROVE seg'[<<f, d>>] = <<>>
    <3>1. f \in Files /\ seg[<<f, d>>] = <<>>
      BY <2>1 DEF StartupInvariant, StartupTypeOK, Begun, Copying
    <3> QED BY <1>4, <2>1, <3>1
  <2>2. ASSUME file \notin cut, NEW d \in Days, NEW k \in 1..Len(seg'[<<file, d>>])
        PROVE  seg'[<<file, d>>][k] \in 1..(pos + 1)
    <3>1. <<file, d>> \in Files \X Days
      BY <1>1
    <3>2. CASE k \in 1..Len(seg[<<file, d>>])
      <4>1. seg[<<file, d>>][k] \in 1..pos
        BY <2>2, <3>2 DEF StartupInvariant, Begun, Copying
      <4> QED BY <1>1, <1>5, <3>1, <3>2, <4>1
    <3>3. CASE k \notin 1..Len(seg[<<file, d>>])
      <4>1. d = day /\ k = Len(seg[<<file, d>>]) + 1
        BY <1>5, <2>2, <3>1, <3>3
      <4> QED BY <1>1, <1>5, <3>1, <4>1
    <3> QED BY <3>2, <3>3
  <2> QED BY <2>1, <2>2 DEF Begun, Copying
<1>12. TwiceOnlyIfCut'
  <2> SUFFICES ASSUME NEW f \in Files \ cut, NEW d \in Days, NEW e \in Days,
                      NEW k \in 1..Len(seg'[<<f, d>>]), NEW m \in 1..Len(seg'[<<f, e>>]),
                      seg'[<<f, d>>][k] = seg'[<<f, e>>][m]
               PROVE  <<d, k>> = <<e, m>>
    BY DEF TwiceOnlyIfCut
  <2>0. <<f, d>> \in Files \X Days /\ <<f, e>> \in Files \X Days
    OBVIOUS
  <2>1. CASE k \in 1..Len(seg[<<f, d>>]) /\ m \in 1..Len(seg[<<f, e>>])
    <3>1. seg[<<f, d>>][k] = seg[<<f, e>>][m]
      BY <1>5, <2>0, <2>1
    <3> QED BY <2>1, <3>1 DEF StartupInvariant, TwiceOnlyIfCut
  <2>2. ASSUME NEW a \in Days, NEW j \in 1..Len(seg'[<<f, a>>]), j \notin 1..Len(seg[<<f, a>>])
        PROVE  f = file /\ a = day /\ j = Len(seg[<<f, a>>]) + 1 /\ seg'[<<f, a>>][j] = pos + 1
    <3>1. <<f, a>> \in Files \X Days
      OBVIOUS
    <3>2. <<f, a>> = <<file, day>> /\ j = Len(seg[<<f, a>>]) + 1
      BY <1>5, <2>2, <3>1
    <3> QED BY <1>5, <3>1, <3>2
  <2>3. ASSUME NEW a \in Days, NEW j \in 1..Len(seg[<<f, a>>]), f = file
        PROVE  seg'[<<f, a>>][j] # pos + 1
    <3>1. seg[<<f, a>>][j] \in 1..pos
      BY <2>3 DEF StartupInvariant, Begun, Copying
    <3> QED BY SMTT(30), <1>1, <1>5, <2>3, <3>1
  <2>4. CASE k \notin 1..Len(seg[<<f, d>>]) /\ m \in 1..Len(seg[<<f, e>>])
    <3>1. f = file /\ seg'[<<f, d>>][k] = pos + 1
      BY <2>2, <2>4
    <3> QED BY <2>3, <2>4, <3>1
  <2>5. CASE k \in 1..Len(seg[<<f, d>>]) /\ m \notin 1..Len(seg[<<f, e>>])
    <3>1. f = file /\ seg'[<<f, e>>][m] = pos + 1
      BY <2>2, <2>5
    <3> QED BY <2>3, <2>5, <3>1
  <2>6. CASE k \notin 1..Len(seg[<<f, d>>]) /\ m \notin 1..Len(seg[<<f, e>>])
    <3>1. d = day /\ k = Len(seg[<<f, d>>]) + 1
      BY <2>2, <2>6
    <3>2. e = day /\ m = Len(seg[<<f, e>>]) + 1
      BY <2>2, <2>6
    <3> QED BY <3>1, <3>2
  <2> QED BY <2>1, <2>4, <2>5, <2>6
<1> QED BY <1>6, <1>7, <1>8, <1>9, <1>10, <1>11, <1>12 DEF StartupInvariant

LEMMA CopyLineStep == ASSUME StartupInvariant, CopyLine PROVE StartupInvariant'
<1>1. CASE Fails
  BY <1>1, FailsStep
<1>2. CASE ~Fails
  <2>1. PICK day \in Days :
            /\ synced' = Roll(day) /\ open' = day
            /\ seg' = [seg EXCEPT ![<<file, day>>] = Append(@, pos + 1)]
            /\ pos' = pos + 1
            /\ UNCHANGED <<legacy, removed, migrate, pc, todo, file, serveVars, boundVars, cut>>
    BY <1>2 DEF CopyLine
  <2>2. pc = "copy" /\ pos < Len(Legacy[file])
    BY DEF CopyLine
  <2> QED BY <2>1, <2>2, AppendStep
<1> QED BY <1>1, <1>2

LEMMA CloseWriterStep == ASSUME StartupInvariant, CloseWriter PROVE StartupInvariant'
<1>1. CASE Fails
  BY <1>1, FailsStep
<1>2. CASE ~Fails
  <2>1. /\ pc = "copy" /\ pos = Len(Legacy[file])
        /\ pc' = "remove" /\ synced' = Sync /\ open' = NoTime
        /\ UNCHANGED <<legacy, removed, seg, migrate, todo, file, pos, serveVars, boundVars, cut>>
    BY <1>2 DEF CloseWriter
  <2>2. file \in Files /\ legacy = todo \cup {file} /\ file \notin todo /\ migrate
    BY <2>1 DEF StartupInvariant, MigrateControl, Copying
  <2>3. /\ synced' \in [Files \X Days -> Nat]
        /\ \A s \in Files \X Days :
                synced'[s] = IF s = <<file, open>> THEN Len(seg[s]) ELSE synced[s]
    BY <2>1, <2>2, SyncedAll
  <2>4. \A s \in Files \X Days :
            /\ Len(seg[s]) \in Nat /\ synced[s] \in Nat
            /\ synced[s] <= synced'[s] /\ synced'[s] <= Len(seg[s])
    BY <2>3 DEF StartupInvariant, StartupTypeOK, SyncedPart
  <2>5. StartupTypeOK'
    BY <2>1, <2>3 DEF StartupInvariant, StartupTypeOK, serveVars, boundVars
  <2>6. SyncedPart' /\ MigrateControl' /\ ServeControl'
    BY <2>1, <2>2, <2>4 DEF StartupInvariant, SyncedPart, MigrateControl, ServeControl, Copying,
         Later, serveVars
  <2>7. LegacyLineKept'
    <3> SUFFICES ASSUME NEW f \in Files \ legacy, NEW i \in 1..Len(Legacy[f])
                 PROVE  DurableLine(f, i)'
      BY <2>1 DEF LegacyLineKept
    <3>1a. PICK d \in Days : \E k \in 1..synced[<<f, d>>] :
              seg[<<f, d>>][k] = i
      BY DEF StartupInvariant, LegacyLineKept, DurableLine
    <3>1. PICK k \in 1..synced[<<f, d>>] :
              seg[<<f, d>>][k] = i
      BY <3>1a
    <3>2. k \in 1..synced'[<<f, d>>] /\ seg'[<<f, d>>][k] = i
      BY <2>1, <2>3, <2>4, <3>1
    <3> QED BY <3>2 DEF DurableLine
  <2>8. Progress'
    <3> SUFFICES ASSUME NEW i \in 1..Len(Legacy[file]) PROVE DurableLine(file, i)'
      BY <2>1 DEF Progress
    <3>1a. PICK d \in Days : \E k \in 1..Len(seg[<<file, d>>]) :
              seg[<<file, d>>][k] = i /\ (d # open => k <= synced[<<file, d>>])
      BY <2>1 DEF StartupInvariant, Progress, PlacedLine
    <3>1. PICK k \in 1..Len(seg[<<file, d>>]) :
              seg[<<file, d>>][k] = i /\ (d # open => k <= synced[<<file, d>>])
      BY <3>1a
    <3>2. <<file, d>> \in Files \X Days
      BY <2>2
    <3>3. k <= synced'[<<file, d>>]
      BY <2>3, <2>4, <3>1, <3>2
    <3>4. k \in 1..synced'[<<file, d>>]
      BY <2>3, <3>1, <3>2, <3>3
    <3>5. seg'[<<file, d>>][k] = i /\ file' = file
      BY <2>1, <3>1
    <3> QED BY <3>4, <3>5 DEF DurableLine
  <2>9. Begun' /\ TwiceOnlyIfCut'
    BY <2>1 DEF StartupInvariant, Begun, TwiceOnlyIfCut, Copying
  <2> QED BY <2>5, <2>6, <2>7, <2>8, <2>9 DEF StartupInvariant
<1> QED BY <1>1, <1>2

LEMMA RemoveLegacyStep == ASSUME StartupInvariant, RemoveLegacy PROVE StartupInvariant'
<1>1. CASE Fails
  BY <1>1, FailsStep
<1>2. CASE ~Fails
  <2>1. /\ pc = "remove" /\ pc' = "migrate"
        /\ legacy' = legacy \ {file} /\ removed' = removed \cup {file}
        /\ file' = None /\ pos' = 0
        /\ UNCHANGED <<seg, synced, migrate, todo, open, serveVars, boundVars, cut>>
    BY <1>2 DEF RemoveLegacy
  <2>2. file \in Files /\ legacy = todo \cup {file} /\ file \notin todo /\ migrate
    BY <2>1 DEF StartupInvariant, MigrateControl, Copying
  <2>3. StartupTypeOK'
    BY <2>1, <2>2 DEF StartupInvariant, StartupTypeOK, serveVars, boundVars
  <2>4. SyncedPart' /\ MigrateControl' /\ ServeControl' /\ Progress'
    BY <2>1, <2>2 DEF StartupInvariant, SyncedPart, MigrateControl, ServeControl, Progress, Copying,
         Later, serveVars
  <2>5. LegacyLineKept'
    <3>1. \A i \in 1..Len(Legacy[file]) : DurableLine(file, i)
      BY <2>1 DEF StartupInvariant, Progress
    <3>2. \A f \in Files \ (legacy \ {file}) : \A i \in 1..Len(Legacy[f]) : DurableLine(f, i)
      BY <2>2, <3>1 DEF StartupInvariant, LegacyLineKept
    <3> SUFFICES ASSUME NEW f \in Files \ (legacy \ {file}), NEW i \in 1..Len(Legacy[f])
                 PROVE  DurableLine(f, i)'
      BY <2>1 DEF LegacyLineKept
    <3>3. DurableLine(f, i)
      BY <3>2
    <3> QED BY <2>1, <3>3 DEF DurableLine
  <2>6. Begun' /\ TwiceOnlyIfCut'
    BY <2>1, <2>2 DEF StartupInvariant, Begun, TwiceOnlyIfCut, Copying
  <2> QED BY <2>3, <2>4, <2>5, <2>6 DEF StartupInvariant
<1> QED BY <1>1, <1>2

LEMMA CheckWritableStep == ASSUME StartupInvariant, CheckWritable PROVE StartupInvariant'
<1>1. CASE Fails
  BY <1>1, FailsStep
<1>2. CASE ~Fails
  <2>1. /\ pc = "check" /\ pc' = (IF migrate THEN "migrate" ELSE "cluster")
        /\ todo' = (IF migrate THEN legacy ELSE {})
        /\ UNCHANGED <<volumeVars, migrate, file, pos, open, serveVars, boundVars, cut>>
    BY <1>2 DEF CheckWritable
  <2>2. StartupTypeOK'
    BY <2>1 DEF StartupInvariant, StartupTypeOK, volumeVars, serveVars, boundVars
  <2>3. SyncedPart' /\ LegacyLineKept' /\ TwiceOnlyIfCut'
    BY <2>1, VolumeKept DEF StartupInvariant, volumeVars
  <2>4. MigrateControl' /\ ServeControl' /\ Progress'
    BY <2>1 DEF StartupInvariant, MigrateControl, ServeControl, Progress, Copying, Later,
         volumeVars, serveVars
  <2>5. Begun'
    BY <2>1 DEF StartupInvariant, Begun, Copying, volumeVars
  <2> QED BY <2>2, <2>3, <2>4, <2>5 DEF StartupInvariant
<1> QED BY <1>1, <1>2

\* The steps of main and of the server that only pass control on.
LEMMA ControlStep ==
    ASSUME StartupInvariant,
           \/ Boot \/ Listen \/ Migrated \/ StartWatcher \/ CacheSynced \/ CacheNotSynced \/ Serve
           \/ ShutdownReturns \/ Request \/ RequestEnds \/ Sigterm \/ Writeback
    PROVE  StartupInvariant'
<1>0. StartupTypeOK /\ ServeControl
  BY DEF StartupInvariant
<1>1. CASE Boot
  BY <1>0, <1>1, QuietStep DEF Boot, StartupTypeOK, ServeControl, Later, volumeVars, copyVars,
       serveVars, boundVars
<1>2. CASE Listen
  BY <1>0, <1>2, QuietStep, StartupAssumption DEF Listen, StartupTypeOK, ServeControl, Later,
       volumeVars, copyVars, serveVars, boundVars
<1>3. CASE Migrated
  BY <1>0, <1>3, QuietStep DEF Migrated, StartupTypeOK, ServeControl, Later, volumeVars, copyVars,
       serveVars, boundVars
<1>4. CASE StartWatcher
  <2>1. CASE Fails
    BY <2>1, FailsStep
  <2>2. CASE ~Fails
    <3>1. /\ pc = "cluster" /\ pc' = "sync" /\ collecting' = TRUE
          /\ UNCHANGED <<volumeVars, migrate, copyVars, api, srv, inflight, signal, boundVars, cut>>
      BY <1>4, <2>2 DEF StartWatcher
    <3>2. ServeControl'
      BY <1>0, <3>1 DEF ServeControl, Later
    <3> QED BY <1>0, <3>1, <3>2, QuietStep DEF StartupTypeOK, Later, volumeVars, copyVars, boundVars
  <2> QED BY <2>1, <2>2
<1>5. CASE CacheSynced
  BY <1>0, <1>5, QuietStep DEF CacheSynced, StartupTypeOK, ServeControl, Later, volumeVars,
       copyVars, serveVars, boundVars
<1>6. CASE CacheNotSynced
  BY <1>0, <1>6, FatalStep, FailsStep DEF CacheNotSynced, StartupTypeOK
<1>7. CASE Serve
  <2>1. CASE Fatal /\ UNCHANGED faults
    BY <1>0, <2>1, FatalStep DEF StartupTypeOK
  <2>2. CASE ~(Fatal /\ UNCHANGED faults)
    BY <1>0, <1>7, <2>2, QuietStep DEF Serve, StartupTypeOK, ServeControl, Later, volumeVars,
         copyVars, serveVars, boundVars
  <2> QED BY <2>1, <2>2
<1>8. CASE ShutdownReturns
  BY <1>0, <1>8, QuietStep DEF ShutdownReturns, StartupTypeOK, ServeControl, Later, volumeVars,
       copyVars, serveVars, boundVars
<1>9. CASE Request
  BY <1>0, <1>9, QuietStep DEF Request, StartupTypeOK, ServeControl, Later, volumeVars, copyVars,
       serveVars, boundVars
<1>10. CASE RequestEnds
  BY <1>0, <1>10, QuietStep DEF RequestEnds, StartupTypeOK, ServeControl, Later, volumeVars,
       copyVars, serveVars, boundVars
<1>11. CASE Sigterm
  BY <1>0, <1>11, QuietStep, StartupAssumption DEF Sigterm, StartupTypeOK, ServeControl, Later,
       volumeVars, copyVars, serveVars, boundVars
<1>12. CASE Writeback
  BY <1>0, <1>12, QuietStep DEF Writeback, StartupTypeOK, ServeControl, Later, volumeVars, copyVars,
       serveVars, boundVars
<1> QED BY <1>1, <1>2, <1>3, <1>4, <1>5, <1>6, <1>7, <1>8, <1>9, <1>10, <1>11, <1>12

LEMMA EndStep ==
    ASSUME StartupInvariant, CloseCollector \/ Kill
    PROVE  StartupInvariant'
<1>0. StartupTypeOK
  BY DEF StartupInvariant
<1>1. CASE CloseCollector
  BY <1>0, <1>1, GoneStep DEF CloseCollector, StartupTypeOK, boundVars
<1>2. CASE Kill
  BY <1>0, <1>2, GoneStep, StartupAssumption DEF Kill, StartupTypeOK
<1> QED BY <1>1, <1>2

-----------------------------------------------------------------------------
LEMMA Invariance == StartupSpec => []StartupInvariant
<1>1. StartupInit => StartupInvariant
  <2> SUFFICES ASSUME StartupInit PROVE StartupInvariant
    OBVIOUS
  <2>1. StartupTypeOK
    <3>1. [s \in Files \X Days |-> <<>>] \in [Files \X Days -> Seq(Nat)]
      OBVIOUS
    <3>2. seg \in [Files \X Days -> Seq(Nat)] /\ synced \in [Files \X Days -> Nat]
      BY <3>1 DEF StartupInit
    <3>3. MaxFaults \in Nat /\ MaxCrashes \in Nat /\ MaxSignals \in Nat
      BY StartupAssumption
    <3>4. faults \in 0..MaxFaults /\ crashes \in 0..MaxCrashes /\ signals \in 0..MaxSignals
      BY <3>3 DEF StartupInit
    <3>5. /\ migrate \in BOOLEAN /\ collecting \in BOOLEAN /\ api \in BOOLEAN
          /\ inflight \in BOOLEAN /\ signal \in BOOLEAN
      BY Zenon DEF StartupInit
    <3> QED BY <3>2, <3>4, <3>5 DEF StartupInit, StartupTypeOK
  <2>2. \A s \in Files \X Days : seg[s] = <<>> /\ synced[s] = 0
    BY DEF StartupInit
  <2>3. SyncedPart /\ LegacyLineKept /\ Begun
    BY <2>2 DEF StartupInit, SyncedPart, LegacyLineKept, Begun, Copying
  <2>4. TwiceOnlyIfCut
    BY <2>2 DEF TwiceOnlyIfCut
  <2>5. MigrateControl /\ ServeControl /\ Progress
    BY DEF StartupInit, MigrateControl, ServeControl, Progress, Copying, Later
  <2> QED BY <2>1, <2>3, <2>4, <2>5 DEF StartupInvariant
<1>2. StartupInvariant /\ [StartupNext]_startupVars => StartupInvariant'
  <2> SUFFICES ASSUME StartupInvariant, [StartupNext]_startupVars PROVE StartupInvariant'
    OBVIOUS
  <2>1. CASE Main
    <3>1. CASE CheckWritable
      BY <3>1, CheckWritableStep
    <3>2. ASSUME NEW f \in Files, OpenLegacy(f) PROVE StartupInvariant'
      BY <3>2, OpenLegacyStep
    <3>3. CASE CopyLine
      BY <3>3, CopyLineStep
    <3>4. CASE CloseWriter
      BY <3>4, CloseWriterStep
    <3>5. CASE RemoveLegacy
      BY <3>5, RemoveLegacyStep
    <3>6. CASE Migrated \/ StartWatcher \/ CacheSynced \/ CacheNotSynced \/ Serve \/ ShutdownReturns
      BY <3>6, ControlStep
    <3>7. CASE CloseCollector
      BY <3>7, EndStep
    <3> QED BY <2>1, <3>1, <3>2, <3>3, <3>4, <3>5, <3>6, <3>7 DEF Main
  <2>2. CASE Boot \/ Listen \/ Request \/ RequestEnds \/ Sigterm \/ Writeback
    BY <2>2, ControlStep
  <2>3. CASE Kill
    BY <2>3, EndStep
  <2>4. CASE PowerFailure
    BY <2>4, PowerFailureStep
  <2>5. CASE UNCHANGED startupVars
    <3>1. UNCHANGED <<legacy, removed, seg, synced, migrate, pc, todo, file, pos, open, collecting,
                      api, srv, inflight, signal, faults, crashes, signals, cut>>
      BY <2>5 DEF startupVars, volumeVars, copyVars, serveVars, boundVars
    <3>2. StartupTypeOK /\ ServeControl
      BY DEF StartupInvariant
    <3>3. ServeControl'
      BY <3>1, <3>2 DEF ServeControl, Later
    <3> QED BY <3>1, <3>2, <3>3, QuietStep DEF StartupTypeOK, copyVars, Later
  <2> QED BY <2>1, <2>2, <2>3, <2>4, <2>5 DEF StartupNext
<1> QED BY <1>1, <1>2, PTL DEF StartupSpec

\* The variables of Startup have their types in every reachable state.
THEOREM StartupTyping == StartupSpec => []StartupTypeOK
<1>1. StartupInvariant => StartupTypeOK
  BY DEF StartupInvariant
<1> QED BY <1>1, Invariance, PTL

\* No kill, power failure or failing call loses a line of a legacy file, however often
\* the migration is begun again (migration.go:100).
THEOREM NoLegacyLineLost == StartupSpec => []LegacyLineKept
<1>1. StartupInvariant => LegacyLineKept
  BY DEF StartupInvariant
<1> QED BY <1>1, Invariance, PTL

\* No line is migrated twice unless its file's migration was cut short (migration.go:86).
THEOREM TwiceIsCut == StartupSpec => []TwiceOnlyIfCut
<1>1. StartupInvariant => TwiceOnlyIfCut
  BY DEF StartupInvariant
<1> QED BY <1>1, Invariance, PTL

\* Neither a request nor a stream meets a store that is being migrated (main.go:122).
THEOREM MigrationIsUnseen == StartupSpec => []NothingReadsMidMigration
<1>1. StartupInvariant => NothingReadsMidMigration
  <2> SUFFICES ASSUME StartupInvariant, inflight \/ collecting, migrate
               PROVE  /\ legacy = {}
                      /\ \A f \in Files : \A i \in 1..Len(Legacy[f]) : StoredLine(f, i)
    BY DEF NothingReadsMidMigration
  <2>1. legacy = {}
    BY DEF StartupInvariant, ServeControl, MigrateControl, Later
  <2>2. ASSUME NEW f \in Files, NEW i \in 1..Len(Legacy[f]) PROVE StoredLine(f, i)
    <3>1a. PICK d \in Days : \E k \in 1..synced[<<f, d>>] :
              seg[<<f, d>>][k] = i
      BY ZenonT(40), <2>1 DEF StartupInvariant, LegacyLineKept, DurableLine
    <3>1. PICK k \in 1..synced[<<f, d>>] :
              seg[<<f, d>>][k] = i
      BY <3>1a
    <3>2. k \in 1..Len(seg[<<f, d>>])
      BY <3>1 DEF StartupInvariant, SyncedPart, StartupTypeOK
    <3> QED BY <3>1, <3>2 DEF StoredLine
  <2> QED BY <2>1, <2>2
<1> QED BY <1>1, Invariance, PTL
=============================================================================
