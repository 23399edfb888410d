------------------------- MODULE IndexPagesProofs -------------------------
(***************************************************************************)
(* Proofs about the pages of an index (IndexPages, in PodLogs).  A token   *)
(* is the number of an entry among those a request found, which lines that *)
(* come and go between two requests shift: for any containers, days,       *)
(* lines, changes, requests and page size, a page leaves out, or shows     *)
(* again, no more than has come or gone.                                   *)
(***************************************************************************)
EXTENDS PagesProofs

-----------------------------------------------------------------------------
(* The pages of an index.  Lines, and what there is of them. *)

LinesAt(S) == {At(p) : p \in S}

Entries == [id : Nat, ts : Times]

\* Of the lines up to number n: those that are there, those that have gone, and those
\* that have come since the client began.
There(n) == {x \in LinesAt(Stored) : x.id <= n}
Left(n)  == {x \in LinesAt(Positions) \ LinesAt(Stored) : x.id <= n}
Came(n)  == {x \in LinesAt(Positions) : x.id \in (FirstLines + 1)..n}

\* What a request has found there to be, all that is still there among it; ...
Finds(A, n) ==
    /\ A \subseteq LinesAt(Positions) /\ \A x \in A : x.id <= n
    /\ There(n) \subseteq A

\* ... the page P of it, after D; ...
Paged(A, D, P) ==
    /\ D \subseteq A /\ P \subseteq A \ D
    /\ \A x \in D, y \in A \ D : Earlier(x, y)
    /\ \A x \in P, y \in A \ (D \cup P) : Earlier(x, y)
    /\ Cardinality(P) <= PageSize /\ (A # D \cup P => Cardinality(P) = PageSize)

\* ... and what has been read of the page.
Shows(P, S, n) == S \subseteq P /\ P \cap There(n) \subseteq S

View(A, D, P, S, n) == n \in Nat /\ Finds(A, n) /\ Paged(A, D, P) /\ Shows(P, S, n)

\* What a later request found, but for what had come, was there to be found before.
Later(A, n, B, m) == FirstLines <= n /\ n <= m /\ \A x \in B : x.id <= n => x \in A

\* What is promised of an answer's lines S, for k, after those that it was asked from, T.
AllLater(S, n)   == {x \in There(n) : \A a \in S : Earlier(a, x)}
AllEarlier(S, n) == {x \in There(n) : \A a \in S : Earlier(x, a)}
Fewer(X, Y)      == Cardinality(X) <= Cardinality(Y)

Unparted(S, n) == \A x \in There(n), a, b \in S : Earlier(a, x) /\ Earlier(x, b) => x \in S

NextNear(S, T, n) ==
    /\ S # {} /\ T # {} => Fewer(AllLater(T, n) \cap AllEarlier(S, n), Left(n))
    /\ Fewer(S \cap T, Came(n))

PrevNear(S, T, n) ==
    /\ S # {} /\ T # {} => Fewer(AllEarlier(T, n) \cap AllLater(S, n), Came(n))
    /\ Fewer(S \cap T, Left(n)) \/ \A x \in There(n) : \E b \in S : ~Earlier(x, b)

EndsNear(seen, n, next, prev) ==
    /\ next = None /\ seen # {} => Fewer(AllLater(seen, n), Left(n))
    /\ prev = None /\ seen # {} => Fewer(AllEarlier(seen, n), Came(n))

SeenOf(k, S, T) == S \cup (IF k \in {"next", "prev"} THEN T ELSE {})

\* The order of an index is total.
LEMMA EarlierOrders ==
    ASSUME NEW x \in Entries, NEW y \in Entries, NEW z \in Entries
    PROVE  /\ Earlier(x, y) \/ Earlier(y, x) \/ x = y
           /\ ~Earlier(x, x)
           /\ Earlier(x, y) /\ Earlier(y, z) => Earlier(x, z)
           /\ ~(Earlier(x, y) /\ Earlier(y, x))
<1> DEFINE pair(a) == <<a.ts, a.id>>
<1>1. \A a \in Entries : a.ts \in Int /\ a.id \in Int
  <2> SUFFICES ASSUME NEW a \in Entries PROVE a.ts \in Int /\ a.id \in Int
    OBVIOUS
  <2>1. a.ts \in Times /\ a.id \in Nat
    BY DEF Entries
  <2>2. a.ts \in Int
    BY <2>1, TimesInt
  <2>3. a.id \in Int
    BY <2>1
  <2> QED BY <2>2, <2>3
<1>2. pair(x) \in Int \X Int /\ pair(y) \in Int \X Int /\ pair(z) \in Int \X Int
  BY <1>1
<1>3. pair(x) = pair(y) => x = y
  <2>1. x = [id |-> x.id, ts |-> x.ts] /\ y = [id |-> y.id, ts |-> y.ts]
    BY DEF Entries
  <2>2. pair(x) = pair(y) => x.ts = y.ts /\ x.id = y.id
    OBVIOUS
  <2> QED BY <2>1, <2>2
<1>4. \A a, b \in {x, y, z} : Earlier(a, b) <=> Below(pair(a), pair(b))
  BY DEF Earlier
<1> HIDE DEF pair
<1> QED BY <1>2, <1>3, <1>4, PairsOrdered DEF Ordered

\* There are finitely many lines, each a number and a time.
LEMMA LinesAre ==
    ASSUME StoreInv, LinesInv
    PROVE  /\ LinesAt(Positions) \subseteq Entries
           /\ \A S \in SUBSET LinesAt(Positions) : IsFiniteSet(S) /\ Cardinality(S) \in Nat
           /\ \A n : /\ There(n) \in SUBSET LinesAt(Positions) /\ Left(n) \in SUBSET LinesAt(Positions)
                     /\ Came(n) \in SUBSET LinesAt(Positions)
<1>1. LinesAt(Positions) \subseteq Entries
  BY PlaceHas DEF LinesAt, Entries
<1>2. IsFiniteSet(LinesAt(Positions))
  <2> PICK f : f = [p \in Positions |-> At(p)]
    OBVIOUS
  <2>1. f \in Surjection(Positions, LinesAt(Positions))
    BY DEF Surjection, LinesAt
  <2> QED BY <2>1, PositionsFinite, FS_Surjection
<1>3. Stored \in SUBSET Positions
  BY DEF Stored
<1>4. LinesAt(Stored) \in SUBSET LinesAt(Positions)
  BY <1>3 DEF LinesAt
<1>5. \A S \in SUBSET LinesAt(Positions) : IsFiniteSet(S) /\ Cardinality(S) \in Nat
  BY <1>2, FS_Subset, FS_CardinalityType
<1> QED BY <1>1, <1>4, <1>5 DEF There, Left, Came

\* A part of X that is not in Y is not larger than what holds all that Y has beside X,
\* if X is not larger than Y.
LEMMA Exchanged ==
    ASSUME NEW X, NEW Y, IsFiniteSet(X), IsFiniteSet(Y), Cardinality(X) <= Cardinality(Y),
           NEW G, IsFiniteSet(G), Y \ X \subseteq G, NEW S, S \subseteq X \ Y
    PROVE  Cardinality(S) <= Cardinality(G)
<1>1. /\ IsFiniteSet(X \ Y) /\ Cardinality(X \ Y) = Cardinality(X) - Cardinality(X \cap Y)
      /\ IsFiniteSet(Y \ X) /\ Cardinality(Y \ X) = Cardinality(Y) - Cardinality(Y \cap X)
  BY FS_Difference
<1>2. X \cap Y = Y \cap X /\ IsFiniteSet(X \cap Y)
  BY FS_Subset
<1>3. Cardinality(S) <= Cardinality(X \ Y) /\ IsFiniteSet(S)
  BY <1>1, FS_Subset
<1>4. Cardinality(Y \ X) <= Cardinality(G)
  BY FS_Subset
<1>5. /\ Cardinality(X) \in Nat /\ Cardinality(Y) \in Nat /\ Cardinality(X \cap Y) \in Nat
      /\ Cardinality(S) \in Nat /\ Cardinality(G) \in Nat
  BY <1>2, <1>3, FS_CardinalityType
<1>6. \A a, b, c, d, e, f, g \in Int :
          d = a - c /\ e = b - c /\ a <= b /\ f <= d /\ e <= g => f <= g
  OBVIOUS
<1>7. Cardinality(X \ Y) \in Nat /\ Cardinality(Y \ X) \in Nat
  BY <1>1, FS_CardinalityType
<1>8. Cardinality(X \cap Y) = Cardinality(Y \cap X)
  BY <1>2
<1> QED BY <1>1, <1>3, <1>4, <1>5, <1>6, <1>7, <1>8

\* Nothing is no more than anything.
LEMMA NoneFewer ==
    ASSUME NEW X, X = {}, NEW Y, IsFiniteSet(Y)
    PROVE  Fewer(X, Y)
BY FS_EmptySet, FS_CardinalityType DEF Fewer

\* What two requests find differs by what has come and what has gone.
LEMMA ViewsDiffer ==
    ASSUME StoreInv, LinesInv, NEW A, NEW D, NEW P, NEW T, NEW n, View(A, D, P, T, n),
           NEW B, NEW E, NEW Q, NEW S, NEW m, View(B, E, Q, S, m), Later(A, n, B, m)
    PROVE  /\ \A x \in There(m) : x \in B /\ x \in Entries /\ (x \in A => x \in There(n))
           /\ \A x \in B : x \in Entries /\ (x \in A \/ x \in Came(m))
           /\ \A x \in A : x \in Entries /\ ((x \in There(m) /\ x \in There(n)) \/ x \in Left(m))
<1>1. A \subseteq LinesAt(Positions) /\ B \subseteq LinesAt(Positions) /\ n \in Nat /\ m \in Nat /\ n <= m
  BY DEF View, Finds, Later
<1>2. LinesAt(Positions) \subseteq Entries /\ \A x \in Entries : x.id \in Nat
  BY LinesAre DEF Entries
<1>3. ASSUME NEW x \in There(m) PROVE x \in B /\ x \in Entries /\ (x \in A => x \in There(n))
  BY <1>1, <1>2, LinesAre DEF View, Finds, There
<1>4. ASSUME NEW x \in B PROVE x \in Entries /\ (x \in A \/ x \in Came(m))
  <2>1. x \in LinesAt(Positions) /\ x \in Entries /\ x.id \in Nat /\ x.id <= m
    BY <1>1, <1>2 DEF View, Finds
  <2>2. x.id <= n => x \in A
    BY DEF Later
  <2>3. FirstLines \in Nat /\ FirstLines <= n
    BY StoreAssumption DEF Later
  <2>4. x.id > n => x.id \in (FirstLines + 1)..m
    BY <1>1, <2>1, <2>3
  <2> QED BY <1>1, <2>1, <2>2, <2>4 DEF Came
<1>5. ASSUME NEW x \in A PROVE x \in Entries /\ ((x \in There(m) /\ x \in There(n)) \/ x \in Left(m))
  <2>1. x \in LinesAt(Positions) /\ x \in Entries /\ x.id \in Nat /\ x.id <= n /\ x.id <= m
    BY <1>1, <1>2 DEF View, Finds
  <2> QED BY <2>1 DEF There, Left
<1> QED BY <1>3, <1>4, <1>5

-----------------------------------------------------------------------------
(* What is promised of a page, from where it is among what there is. *)

Views(A, D, P, T, n, B, E, Q, S, m) == View(A, D, P, T, n) /\ View(B, E, Q, S, m) /\ Later(A, n, B, m)

Parts(B, E, Q, S, m) ==
    /\ IsFiniteSet(E) /\ IsFiniteSet(Q) /\ IsFiniteSet(E \cup Q) /\ IsFiniteSet(B)
    /\ Cardinality(E) \in Nat /\ Cardinality(Q) \in Nat /\ Cardinality(B) \in Nat
    /\ Cardinality(E \cup Q) = Cardinality(E) + Cardinality(Q)
    /\ S \subseteq Q /\ B \subseteq Entries
    /\ E \subseteq B /\ Q \subseteq B /\ E \cap Q = {}
    /\ \A x \in There(m) : x \in B /\ (x \in Q => x \in S)
    /\ \A x \in E, y \in B \ E : Earlier(x, y)
    /\ \A x \in Q, y \in B \ (E \cup Q) : Earlier(x, y)

\* The lines of a page are in the view, and a line that is there is in the page, before
\* it or after it.
LEMMA ViewParts ==
    ASSUME StoreInv, LinesInv, NEW B, NEW E, NEW Q, NEW S, NEW m, View(B, E, Q, S, m)
    PROVE  Parts(B, E, Q, S, m)
<1>1. /\ B \subseteq LinesAt(Positions) /\ E \subseteq B /\ Q \subseteq B /\ E \cap Q = {}
      /\ S \subseteq Q
      /\ \A x \in There(m) : x \in B /\ (x \in Q => x \in S)
      /\ \A x \in E, y \in B \ E : Earlier(x, y)
      /\ \A x \in Q, y \in B \ (E \cup Q) : Earlier(x, y)
  BY DEF View, Finds, Paged, Shows
<1>2. /\ IsFiniteSet(E) /\ IsFiniteSet(Q) /\ IsFiniteSet(E \cup Q) /\ IsFiniteSet(B)
      /\ Cardinality(E) \in Nat /\ Cardinality(Q) \in Nat /\ Cardinality(B) \in Nat
      /\ B \subseteq Entries
  BY <1>1, LinesAre
<1>3. Cardinality(E \cup Q) = Cardinality(E) + Cardinality(Q)
  <2>1. Cardinality(E \cup Q) = Cardinality(E) + Cardinality(Q) - Cardinality(E \cap Q)
    BY <1>2, FS_Union
  <2>2. Cardinality(E \cap Q) = 0
    BY <1>1, FS_EmptySet
  <2> QED BY <1>2, <2>1, <2>2
<1> QED BY <1>1, <1>2, <1>3 DEF Parts

\* What is there before a page that starts no further on than after the one it was
\* asked from, and after that one, has been passed over: at most as much as has gone.
LEMMA AheadMisses ==
    ASSUME StoreInv, LinesInv, NEW A, NEW D, NEW P, NEW T, NEW n, NEW B, NEW E, NEW Q, NEW S, NEW m,
           Views(A, D, P, T, n, B, E, Q, S, m),
           Cardinality(E) <= Cardinality(D \cup P), T # {},
           NEW W, W \subseteq E \cap There(m), \A x \in W, t \in T : Earlier(t, x)
    PROVE  Fewer(W, Left(m))
<1>1. IsFiniteSet(Left(m)) /\ Parts(A, D, P, T, n) /\ Parts(B, E, Q, S, m)
  <2>1. View(A, D, P, T, n) /\ View(B, E, Q, S, m)
    BY DEF Views
  <2> QED BY <2>1, LinesAre, ViewParts
<1>2. CASE W = {}
  BY <1>1, <1>2, NoneFewer
<1>3. CASE W # {}
  <2> PICK x \in W : TRUE
    BY <1>3
  <2> PICK t \in T : TRUE
    OBVIOUS
  <2>1. /\ \A w \in There(m) : w \in B /\ w \in Entries /\ (w \in A => w \in There(n))
        /\ \A z \in A : z \in Entries /\ ((z \in There(m) /\ z \in There(n)) \/ z \in Left(m))
    BY ViewsDiffer DEF Views
  <2>2. /\ IsFiniteSet(D \cup P) /\ T \subseteq P /\ D \subseteq A /\ P \subseteq A /\ D \cap P = {}
        /\ \A w \in There(n) : w \in P => w \in T
        /\ \A a \in D, y \in A \ D : Earlier(a, y)
    BY <1>1 DEF Parts
  <2>3. IsFiniteSet(E) /\ \A a \in E, y \in B \ E : Earlier(a, y)
    BY <1>1 DEF Parts
  <2>4. ASSUME NEW w \in W PROVE w \in E \ (D \cup P)
    <3>1. w \in E /\ w \in There(m) /\ w \in Entries /\ t \in Entries /\ Earlier(t, w)
      BY <2>1, <2>2
    <3>2. ~Earlier(w, t) /\ ~Earlier(w, w)
      BY <3>1, EarlierOrders
    <3>3. w \notin D
      BY <2>2, <3>2
    <3>4. w \notin P
      BY <2>1, <2>2, <3>1, <3>2
    <3> QED BY <3>1, <3>3, <3>4
  <2>5. ASSUME NEW z \in (D \cup P) \ E PROVE z \in Left(m)
    <3> SUFFICES ASSUME z \notin Left(m) PROVE FALSE
      OBVIOUS
    <3>1. z \in There(m) /\ z \in There(n) /\ z \in B /\ z \in Entries /\ z \in A
      BY <2>1, <2>2
    <3>2. x \in Entries /\ t \in Entries /\ Earlier(t, x) /\ Earlier(x, z)
      BY <2>1, <2>2, <2>3, <3>1
    <3>3. CASE z \in D
      <4>1. Earlier(z, t)
        BY <2>2, <3>3
      <4> QED BY <3>1, <3>2, <4>1, EarlierOrders
    <3>4. CASE z \in P
      <4>1. Earlier(z, x)
        BY <2>2, <3>1, <3>4
      <4> QED BY <3>1, <3>2, <4>1, EarlierOrders
    <3> QED BY <3>3, <3>4
  <2>6. W \subseteq E \ (D \cup P) /\ (D \cup P) \ E \subseteq Left(m)
    BY <2>4, <2>5
  <2> QED BY <1>1, <2>2, <2>3, <2>6, Exchanged DEF Fewer
<1> QED BY <1>2, <1>3

\* What is shown again by a page that starts where the one it was asked from ended is at
\* most as much as has come.
LEMMA AheadRepeats ==
    ASSUME StoreInv, LinesInv, NEW A, NEW D, NEW P, NEW T, NEW n, NEW B, NEW E, NEW Q, NEW S, NEW m,
           Views(A, D, P, T, n, B, E, Q, S, m), Cardinality(E) = Cardinality(D \cup P)
    PROVE  Fewer(S \cap T, Came(m))
<1>1. IsFiniteSet(Came(m)) /\ Parts(A, D, P, T, n) /\ Parts(B, E, Q, S, m)
  <2>1. View(A, D, P, T, n) /\ View(B, E, Q, S, m)
    BY DEF Views
  <2> QED BY <2>1, LinesAre, ViewParts
<1>2. CASE S \cap T = {}
  BY <1>1, <1>2, NoneFewer
<1>3. CASE S \cap T # {}
  <2> PICK z \in S \cap T : TRUE
    BY <1>3
  <2>1. \A y \in B : y \in Entries /\ (y \in A \/ y \in Came(m))
    BY ViewsDiffer DEF Views
  <2>2. /\ IsFiniteSet(D \cup P) /\ T \subseteq P
        /\ \A a \in D, y \in A \ D : Earlier(a, y)
        /\ \A a \in P, y \in A \ (D \cup P) : Earlier(a, y)
    BY <1>1 DEF Parts
  <2>3. /\ IsFiniteSet(E) /\ E \subseteq B /\ S \subseteq Q /\ Q \subseteq B /\ E \cap Q = {}
        /\ \A a \in E, y \in B \ E : Earlier(a, y)
    BY <1>1 DEF Parts
  <2>4. ASSUME NEW y \in E \ (D \cup P) PROVE y \in Came(m)
    <3> SUFFICES ASSUME y \in A PROVE FALSE
      BY <2>1, <2>3
    <3>1. Earlier(z, y) /\ Earlier(y, z) /\ y \in Entries /\ z \in Entries
      BY <2>1, <2>2, <2>3
    <3> QED BY <3>1, EarlierOrders
  <2>5. S \cap T \subseteq (D \cup P) \ E /\ E \ (D \cup P) \subseteq Came(m)
    BY <2>2, <2>3, <2>4
  <2>6. Cardinality(D \cup P) <= Cardinality(E)
    <3>1. Cardinality(E) \in Nat
      BY <2>3, FS_CardinalityType
    <3> QED BY <3>1
  <2> QED BY <1>1, <2>2, <2>3, <2>5, <2>6, Exchanged DEF Fewer
<1> QED BY <1>2, <1>3

\* Two parts, one no larger than something beside the other, are no more than both.
LEMMA InPlaceOf ==
    ASSUME NEW C, IsFiniteSet(C), NEW G, G \subseteq C, NEW V, V \subseteq C, G \cap V = {},
           NEW U, IsFiniteSet(U), Cardinality(U) <= Cardinality(G)
    PROVE  Cardinality(U \cup V) <= Cardinality(C)
<1>1. IsFiniteSet(G) /\ IsFiniteSet(V)
  BY FS_Subset
<1>2. Cardinality(U \cup V) = Cardinality(U) + Cardinality(V) - Cardinality(U \cap V)
  BY <1>1, FS_Union
<1>3. Cardinality(G \cup V) = Cardinality(G) + Cardinality(V) - Cardinality(G \cap V)
  BY <1>1, FS_Union
<1>4. Cardinality(G \cap V) = 0
  BY FS_EmptySet
<1>5. IsFiniteSet(U \cap V) /\ IsFiniteSet(G \cup V) /\ IsFiniteSet(U \cup V)
  BY <1>1, FS_Subset, FS_Union
<1>6. Cardinality(G \cup V) <= Cardinality(C)
  BY FS_Subset
<1>7. /\ Cardinality(U) \in Nat /\ Cardinality(V) \in Nat /\ Cardinality(G) \in Nat
      /\ Cardinality(C) \in Nat /\ Cardinality(U \cap V) \in Nat
      /\ Cardinality(G \cup V) \in Nat /\ Cardinality(U \cup V) \in Nat
  BY <1>1, <1>5, FS_CardinalityType
<1>8. \A u, v, g, c, w, x, y \in Nat :
          y = u + v - w /\ x = g + v - 0 /\ x <= c /\ u <= g => y <= c
  OBVIOUS
<1> QED BY <1>2, <1>3, <1>4, <1>6, <1>7, <1>8

\* What is there after a page and before the one it was asked from, if it ends no
\* sooner than where that one starts, has come, or is in the place of what has.
LEMMA BackMisses ==
    ASSUME StoreInv, LinesInv, NEW A, NEW D, NEW P, NEW T, NEW n, NEW B, NEW E, NEW Q, NEW S, NEW m,
           Views(A, D, P, T, n, B, E, Q, S, m),
           Cardinality(D) <= Cardinality(E) + PageSize, T # {},
           NEW W, W \subseteq There(m), W \cap (E \cup Q) = {}, \A x \in W, t \in T : Earlier(x, t)
    PROVE  Fewer(W, Came(m))
<1>1. IsFiniteSet(Came(m)) /\ Parts(A, D, P, T, n) /\ Parts(B, E, Q, S, m)
  <2>1. View(A, D, P, T, n) /\ View(B, E, Q, S, m)
    BY DEF Views
  <2> QED BY <2>1, LinesAre, ViewParts
<1>2. /\ \A w \in There(m) : w \in B /\ w \in Entries /\ (w \in A => w \in There(n))
      /\ \A y \in B : y \in Entries /\ (y \in A \/ y \in Came(m))
  BY ViewsDiffer DEF Views
<1>3. W \ A \subseteq Came(m)
  BY <1>2
<1>4. CASE W \cap A = {}
  <2>1. W \subseteq Came(m)
    BY <1>3, <1>4
  <2> QED BY <1>1, <2>1, FS_Subset DEF Fewer
<1>5. CASE W \cap A # {}
  <2> PICK x \in W \cap A : TRUE
    BY <1>5
  <2> PICK t \in T : TRUE
    OBVIOUS
  <2>1. /\ IsFiniteSet(D) /\ T \subseteq P /\ D \subseteq A /\ P \subseteq A
        /\ Cardinality(D) \in Nat
        /\ \A w \in There(n) : w \in P => w \in T
        /\ \A a \in D, y \in A \ D : Earlier(a, y)
        /\ \A a \in P, y \in A \ (D \cup P) : Earlier(a, y)
    BY <1>1 DEF Parts
  <2>2. /\ IsFiniteSet(E \cup Q) /\ Cardinality(E \cup Q) = Cardinality(E) + Cardinality(Q)
        /\ Cardinality(E) \in Nat /\ E \subseteq B /\ Q \subseteq B
        /\ \A a \in E, y \in B \ E : Earlier(a, y)
        /\ \A a \in Q, y \in B \ (E \cup Q) : Earlier(a, y)
    BY <1>1 DEF Parts
  <2>3. x \in B \ (E \cup Q)
    BY <1>2
  <2>4. Cardinality(Q) = PageSize
    BY <2>3 DEF Views, View, Paged
  <2>5. Cardinality(D) <= Cardinality(E \cup Q)
    BY <2>2, <2>4
  <2>6. ASSUME NEW w \in W \cap A PROVE w \in D
    <3>1. w \in There(n) /\ w \in Entries /\ t \in Entries /\ Earlier(w, t)
      BY <1>2, <2>1, <1>1 DEF Parts
    <3>2. ~Earlier(t, w) /\ ~Earlier(w, w)
      BY <3>1, EarlierOrders
    <3>3. w \notin P
      BY <2>1, <3>1, <3>2
    <3> QED BY <2>1, <3>2, <3>3
  <2> PICK G : G = (E \cup Q) \ D
    OBVIOUS
  <2>7. ASSUME NEW z \in G PROVE z \in Came(m)
    <3>1. z \in B /\ z \in Entries /\ x \in Entries /\ x \in D
      BY <1>2, <2>2, <2>6
    <3>2. Earlier(z, x)
      BY <2>2, <2>3
    <3>3. ~Earlier(x, z)
      BY <3>1, <3>2, EarlierOrders
    <3>4. z \notin A
      BY <2>1, <3>1, <3>3
    <3> QED BY <1>2, <3>1, <3>4
  <2>8. Cardinality(W \cap A) <= Cardinality(G)
    <3>1. W \cap A \subseteq D \ (E \cup Q)
      BY <2>6
    <3>2. IsFiniteSet(G)
      BY <2>2, FS_Subset
    <3> QED BY <2>1, <2>2, <2>5, <3>1, <3>2, Exchanged
  <2>9. IsFiniteSet(W \cap A) /\ G \subseteq Came(m) /\ G \cap (W \ A) = {}
    <3>1. W \cap A \subseteq D
      BY <2>6
    <3> QED BY <2>1, <2>7, <3>1, FS_Subset
  <2>10. W = (W \cap A) \cup (W \ A)
    OBVIOUS
  <2> QED BY <1>1, <1>3, <2>8, <2>9, <2>10, InPlaceOf DEF Fewer
<1> QED BY <1>4, <1>5

\* What is shown again by a page that ends no further on than where the one it was
\* asked from starts is at most as much as has gone; but the oldest page is a full one.
LEMMA BackRepeats ==
    ASSUME StoreInv, LinesInv, NEW A, NEW D, NEW P, NEW T, NEW n, NEW B, NEW E, NEW Q, NEW S, NEW m,
           Views(A, D, P, T, n, B, E, Q, S, m),
           Cardinality(E) = Greater(0, Cardinality(D) - PageSize)
    PROVE  Fewer(S \cap T, Left(m)) \/ \A x \in There(m) : \E b \in S : ~Earlier(x, b)
<1>1. IsFiniteSet(Left(m)) /\ Parts(A, D, P, T, n) /\ Parts(B, E, Q, S, m)
  <2>1. View(A, D, P, T, n) /\ View(B, E, Q, S, m)
    BY DEF Views
  <2> QED BY <2>1, LinesAre, ViewParts
<1>2. CASE S \cap T = {}
  BY <1>1, <1>2, NoneFewer
<1>3. CASE S \cap T # {}
  <2> PICK z \in S \cap T : TRUE
    BY <1>3
  <2>1. /\ \A w \in There(m) : w \in B /\ w \in Entries
        /\ \A y \in A : y \in Entries /\ ((y \in There(m) /\ y \in There(n)) \/ y \in Left(m))
    BY ViewsDiffer DEF Views
  <2>2. /\ IsFiniteSet(D) /\ T \subseteq P /\ D \subseteq A /\ P \subseteq A /\ D \cap P = {}
        /\ Cardinality(D) \in Nat
        /\ \A a \in D, y \in A \ D : Earlier(a, y)
    BY <1>1 DEF Parts
  <2>3. /\ IsFiniteSet(E \cup Q) /\ Cardinality(E \cup Q) = Cardinality(E) + Cardinality(Q)
        /\ Cardinality(E) \in Nat /\ Cardinality(Q) \in Nat /\ S \subseteq Q /\ IsFiniteSet(E)
        /\ \A w \in There(m) : w \in B /\ (w \in Q => w \in S)
        /\ \A a \in Q, y \in B \ (E \cup Q) : Earlier(a, y)
    BY <1>1 DEF Parts
  <2>4. Cardinality(Q) <= PageSize /\ PageSize \in Nat
    BY PagesAssumption DEF Views, View, Paged
  <2>5. z \in Entries /\ z \in Q /\ z \in P /\ z \in A
    BY <2>1, <2>2, <2>3
  <2>6. CASE PageSize <= Cardinality(D)
    <3>1. Cardinality(E \cup Q) <= Cardinality(D)
      <4>1. \A d, e, q, s, u \in Nat :
                e = (IF d - s > 0 THEN d - s ELSE 0) /\ s <= d /\ q <= s /\ u = e + q => u <= d
        OBVIOUS
      <4>2. Cardinality(E) = IF Cardinality(D) - PageSize > 0 THEN Cardinality(D) - PageSize ELSE 0
        <5>1. \A d, s \in Nat : Greater(0, d - s) = IF d - s > 0 THEN d - s ELSE 0
          BY DEF Greater
        <5> QED BY <2>2, <2>4, <5>1
      <4>3. Cardinality(E \cup Q) \in Nat
        BY <2>3
      <4> QED BY <2>2, <2>3, <2>4, <2>6, <4>1, <4>2, <4>3
    <3>2. ASSUME NEW y \in D \ (E \cup Q) PROVE y \in Left(m)
      <4> SUFFICES ASSUME y \notin Left(m) PROVE FALSE
        OBVIOUS
      <4>1. y \in B /\ y \in Entries
        BY <2>1, <2>2
      <4>2. Earlier(z, y)
        BY <2>3, <2>5, <4>1
      <4>3. Earlier(y, z)
        BY <2>2, <2>5
      <4> QED BY <2>5, <4>1, <4>2, <4>3, EarlierOrders
    <3>3. S \cap T \subseteq (E \cup Q) \ D /\ D \ (E \cup Q) \subseteq Left(m)
      BY <2>2, <2>3, <3>2
    <3> QED BY <1>1, <2>2, <2>3, <3>1, <3>3, Exchanged DEF Fewer
  <2>7. CASE ~(PageSize <= Cardinality(D))
    <3>1. Cardinality(E) = 0
      <4>1. \A d, s \in Nat : ~(s <= d) => Greater(0, d - s) = 0
        BY DEF Greater
      <4> QED BY <2>2, <2>4, <2>7, <4>1
    <3>2. E = {}
      BY <2>3, <3>1, FS_EmptySet
    <3>3. ASSUME NEW x \in There(m), \A b \in S : Earlier(x, b) PROVE FALSE
      <4>1. x \in B /\ x \in Entries /\ Earlier(x, z)
        BY <2>1, <3>3
      <4>2. ~Earlier(x, x) /\ ~Earlier(z, x)
        BY <2>5, <4>1, EarlierOrders
      <4>3. x \notin Q
        BY <2>3, <3>3, <4>2
      <4> QED BY <2>3, <2>5, <3>2, <4>1, <4>2, <4>3
    <3> QED BY <3>3
  <2> QED BY <2>6, <2>7
<1> QED BY <1>2, <1>3

\* The tokens are the numbers of the lines after a page, and of a page before it.
NextNumber(A, D, P, next) ==
    IF next = None THEN A = D \cup P ELSE next[2] = Cardinality(D) + Cardinality(P)

PrevNumber(D, prev) ==
    IF prev = None THEN D = {} ELSE prev[2] = Greater(0, Cardinality(D) - PageSize)

\* Where a page is that was asked for, by the token of the one before.
Placed(k, D, P, E) ==
    /\ k = "next" => Cardinality(E) = Cardinality(D) + Cardinality(P)
    /\ k = "prev" => Cardinality(E) = Greater(0, Cardinality(D) - PageSize)

\* A page leaves out no line between two of its own.
LEMMA PageUnparted ==
    ASSUME StoreInv, LinesInv, NEW B, NEW E, NEW Q, NEW S, NEW m, View(B, E, Q, S, m)
    PROVE  /\ Unparted(S, m)
           /\ \A x \in There(m) : \A b \in S : Earlier(x, b) => x \in E \cup S
           /\ \A x \in There(m) : \A a \in S : Earlier(a, x) => x \notin E
<1>1. Parts(B, E, Q, S, m)
  BY ViewParts
<1>2. /\ S \subseteq Q /\ B \subseteq Entries /\ E \subseteq B /\ Q \subseteq B /\ E \cap Q = {}
      /\ \A x \in There(m) : x \in B /\ (x \in Q => x \in S)
      /\ \A x \in E, y \in B \ E : Earlier(x, y)
      /\ \A x \in Q, y \in B \ (E \cup Q) : Earlier(x, y)
  BY <1>1 DEF Parts
<1>3. ASSUME NEW x \in There(m), NEW b \in S, Earlier(x, b) PROVE x \in E \cup S
  <2>1. x \in B /\ x \in Entries /\ b \in Q /\ b \in Entries
    BY <1>2
  <2>2. ~Earlier(b, x)
    BY <1>3, <2>1, EarlierOrders
  <2> QED BY <1>2, <2>1, <2>2
<1>4. ASSUME NEW x \in There(m), NEW a \in S, Earlier(a, x) PROVE x \notin E
  <2>1. x \in B /\ x \in Entries /\ a \in Q /\ a \in Entries /\ a \in B \ E
    BY <1>2
  <2>2. ~Earlier(x, a)
    BY <1>4, <2>1, EarlierOrders
  <2> QED BY <1>2, <2>1, <2>2
<1>5. Unparted(S, m)
  BY <1>3, <1>4 DEF Unparted
<1> QED BY <1>3, <1>4, <1>5

\* A page that was asked for by the token of the one before is near it.
LEMMA NextIsNear ==
    ASSUME StoreInv, LinesInv, NEW A, NEW D, NEW P, NEW T, NEW n, NEW B, NEW E, NEW Q, NEW S, NEW m,
           Views(A, D, P, T, n, B, E, Q, S, m), Placed("next", D, P, E)
    PROVE  NextNear(S, T, m)
<1>1. View(A, D, P, T, n) /\ View(B, E, Q, S, m)
  BY DEF Views
<1>2. Cardinality(E) = Cardinality(D \cup P) /\ Cardinality(E) \in Nat
  <2>1. Parts(A, D, P, T, n) /\ Parts(B, E, Q, S, m)
    BY <1>1, ViewParts
  <2> QED BY <2>1 DEF Placed, Parts
<1>3. Fewer(S \cap T, Came(m))
  BY <1>2, AheadRepeats
<1>4. ASSUME S # {}, T # {} PROVE Fewer(AllLater(T, m) \cap AllEarlier(S, m), Left(m))
  <2> PICK W : W = AllLater(T, m) \cap AllEarlier(S, m)
    OBVIOUS
  <2>1. ASSUME NEW x \in W PROVE x \in E \cap There(m) /\ \A t \in T : Earlier(t, x)
    <3>1. x \in There(m) /\ (\A t \in T : Earlier(t, x)) /\ \A b \in S : Earlier(x, b)
      BY DEF AllLater, AllEarlier
    <3> PICK b \in S : TRUE
      BY <1>4
    <3>2. x \in E \cup S
      BY <1>1, <3>1, PageUnparted
    <3>3. x \in Entries
      BY <3>1, LinesAre
    <3>4. x \notin S
      BY <3>1, <3>3, EarlierOrders
    <3> QED BY <3>1, <3>2, <3>4
  <2>2. W \subseteq E \cap There(m) /\ \A x \in W, t \in T : Earlier(t, x)
    BY <2>1
  <2>3. Cardinality(E) <= Cardinality(D \cup P)
    BY <1>2
  <2> QED BY <1>4, <2>2, <2>3, AheadMisses
<1> QED BY <1>3, <1>4 DEF NextNear

\* A page that was asked for by the token of the one after it is near it.
LEMMA PrevIsNear ==
    ASSUME StoreInv, LinesInv, NEW A, NEW D, NEW P, NEW T, NEW n, NEW B, NEW E, NEW Q, NEW S, NEW m,
           Views(A, D, P, T, n, B, E, Q, S, m), Placed("prev", D, P, E)
    PROVE  PrevNear(S, T, m) /\ Cardinality(D) <= Cardinality(E) + PageSize
           /\ Cardinality(E) <= Cardinality(D \cup P)
<1>1. View(A, D, P, T, n) /\ View(B, E, Q, S, m)
  BY DEF Views
<1>2. Cardinality(E) = Greater(0, Cardinality(D) - PageSize)
  BY DEF Placed
<1>3. /\ Cardinality(D) <= Cardinality(E) + PageSize /\ Cardinality(E) <= Cardinality(D)
      /\ Cardinality(D) <= Cardinality(D \cup P)
  <2>1. Parts(A, D, P, T, n)
    BY <1>1, ViewParts
  <2>2. /\ Cardinality(D) \in Nat /\ Cardinality(P) \in Nat
        /\ Cardinality(D \cup P) = Cardinality(D) + Cardinality(P)
    BY <2>1 DEF Parts
  <2>3. PageSize \in Nat
    BY PagesAssumption
  <2>4. \A d, s \in Nat : LET e == Greater(0, d - s) IN d <= e + s /\ e <= d
    BY DEF Greater
  <2>5. \A d, p \in Nat : d <= d + p
    OBVIOUS
  <2> QED BY <1>2, <2>2, <2>3, <2>4, <2>5
<1>4. Fewer(S \cap T, Left(m)) \/ \A x \in There(m) : \E b \in S : ~Earlier(x, b)
  BY <1>2, BackRepeats
<1>5. ASSUME S # {}, T # {} PROVE Fewer(AllEarlier(T, m) \cap AllLater(S, m), Came(m))
  <2> PICK W : W = AllEarlier(T, m) \cap AllLater(S, m)
    OBVIOUS
  <2>1. ASSUME NEW x \in W
        PROVE  x \in There(m) /\ x \notin E \cup Q /\ \A t \in T : Earlier(x, t)
    <3>1. x \in There(m) /\ (\A t \in T : Earlier(x, t)) /\ \A b \in S : Earlier(b, x)
      BY DEF AllLater, AllEarlier
    <3> PICK b \in S : TRUE
      BY <1>5
    <3>2. x \notin E
      BY <1>1, <3>1, PageUnparted
    <3>3. x \in Entries
      BY <3>1, LinesAre
    <3>4. x \notin S
      BY <3>1, <3>3, EarlierOrders
    <3>5. x \notin Q
      BY <1>1, <3>1, <3>4 DEF View, Shows
    <3> QED BY <3>1, <3>2, <3>5
  <2>2. W \subseteq There(m) /\ W \cap (E \cup Q) = {} /\ \A x \in W, t \in T : Earlier(x, t)
    BY <2>1
  <2> QED BY <1>3, <1>5, <2>2, BackMisses
<1>6. Cardinality(E) <= Cardinality(D \cup P)
  <2>1. Parts(A, D, P, T, n) /\ Parts(B, E, Q, S, m)
    BY <1>1, ViewParts
  <2>2. Cardinality(E) \in Nat /\ Cardinality(D) \in Nat /\ Cardinality(D \cup P) \in Nat
    BY <2>1 DEF Parts
  <2> QED BY <1>3, <2>2
<1> QED BY <1>3, <1>4, <1>5, <1>6 DEF PrevNear

\* Where there is no token there is no more to show, but for so much.
LEMMA EndsAreNear ==
    ASSUME StoreInv, LinesInv, NEW A, NEW D, NEW P, NEW T, NEW n, NEW B, NEW E, NEW Q, NEW S, NEW m,
           NEW k, NEW next, NEW prev, View(B, E, Q, S, m),
           k \in {"next", "prev"} => Views(A, D, P, T, n, B, E, Q, S, m), Placed(k, D, P, E),
           NextNumber(B, E, Q, next), PrevNumber(E, prev)
    PROVE  EndsNear(SeenOf(k, S, T), m, next, prev)
<1> PICK seen : seen = SeenOf(k, S, T)
  OBVIOUS
<1>1. /\ IsFiniteSet(Left(m)) /\ IsFiniteSet(Came(m)) /\ Parts(B, E, Q, S, m)
      /\ k \in {"next", "prev"} => View(A, D, P, T, n)
  <2>1. k \in {"next", "prev"} => View(A, D, P, T, n)
    BY DEF Views
  <2> QED BY <2>1, LinesAre, ViewParts
<1>2. \A x \in There(m) : x \in B /\ x \in Entries /\ (x \in Q => x \in S)
  BY <1>1 DEF Parts
<1>3. ASSUME next = None, seen # {} PROVE Fewer(AllLater(seen, m), Left(m))
  <2>1. B = E \cup Q
    BY <1>3 DEF NextNumber
  <2>2. ASSUME NEW x \in AllLater(seen, m)
        PROVE  x \in There(m) /\ x \in E /\ S = {} /\ \A t \in seen : Earlier(t, x)
    <3>1. x \in There(m) /\ x \in Entries /\ \A t \in seen : Earlier(t, x)
      BY <1>2 DEF AllLater
    <3>2. \A t \in S : Earlier(t, x)
      BY <3>1 DEF SeenOf
    <3>3. x \notin S
      BY <3>1, <3>2, EarlierOrders
    <3>4. x \in E
      BY <1>2, <2>1, <3>1, <3>3
    <3>5. S = {}
      BY <3>1, <3>2, <3>4, PageUnparted
    <3> QED BY <3>1, <3>4, <3>5
  <2>3. CASE AllLater(seen, m) = {}
    BY <1>1, <2>3, NoneFewer
  <2>4. CASE AllLater(seen, m) # {}
    <3>1. S = {} /\ k \in {"next", "prev"} /\ seen = T /\ T # {}
      BY <1>3, <2>2, <2>4 DEF SeenOf
    <3>2. Cardinality(E) <= Cardinality(D \cup P)
      <4>1. CASE k = "next"
        <5>1. Parts(A, D, P, T, n)
          BY <1>1, <3>1, ViewParts
        <5>2. Cardinality(E) = Cardinality(D \cup P) /\ Cardinality(E) \in Nat
          BY <1>1, <4>1, <5>1 DEF Parts, Placed
        <5> QED BY <5>2
      <4>2. CASE k = "prev"
        BY <3>1, <4>2, PrevIsNear
      <4> QED BY <3>1, <4>1, <4>2
    <3>3. AllLater(seen, m) \subseteq E \cap There(m)
      BY <2>2
    <3>4. \A x \in AllLater(seen, m), t \in T : Earlier(t, x)
      BY <2>2, <3>1
    <3> QED BY <3>1, <3>2, <3>3, <3>4, AheadMisses
  <2> QED BY <2>3, <2>4
<1>4. ASSUME prev = None, seen # {} PROVE Fewer(AllEarlier(seen, m), Came(m))
  <2>1. E = {}
    BY <1>4 DEF PrevNumber
  <2>2. ASSUME NEW x \in AllEarlier(seen, m)
        PROVE  x \in There(m) /\ x \notin E \cup Q /\ S = {} /\ \A t \in seen : Earlier(x, t)
    <3>1. x \in There(m) /\ x \in Entries /\ \A t \in seen : Earlier(x, t)
      BY <1>2 DEF AllEarlier
    <3>2. \A t \in S : Earlier(x, t)
      BY <3>1 DEF SeenOf
    <3>3. x \notin S
      BY <3>1, <3>2, EarlierOrders
    <3>4. S = {}
      BY <2>1, <3>1, <3>2, <3>3, PageUnparted
    <3> QED BY <1>2, <2>1, <3>1, <3>3, <3>4
  <2>3. CASE AllEarlier(seen, m) = {}
    BY <1>1, <2>3, NoneFewer
  <2>4. CASE AllEarlier(seen, m) # {}
    <3>1. S = {} /\ k \in {"next", "prev"} /\ seen = T /\ T # {}
      BY <1>4, <2>2, <2>4 DEF SeenOf
    <3>2. Cardinality(D) <= Cardinality(E) + PageSize
      <4>1. CASE k = "next"
        <5>1. Parts(A, D, P, T, n)
          BY <1>1, <3>1, ViewParts
        <5>2. Cardinality(D) + Cardinality(P) = 0 /\ Cardinality(D) \in Nat /\ Cardinality(P) \in Nat
          BY <2>1, <4>1, <5>1, FS_EmptySet DEF Parts, Placed
        <5>3. Cardinality(P) = 0 /\ IsFiniteSet(P)
          BY <5>1, <5>2 DEF Parts
        <5>4. P = {}
          BY <5>3, FS_EmptySet
        <5> QED BY <3>1, <5>1, <5>4 DEF Parts
      <4>2. CASE k = "prev"
        BY <3>1, <4>2, PrevIsNear
      <4> QED BY <3>1, <4>1, <4>2
    <3>3. AllEarlier(seen, m) \subseteq There(m) /\ AllEarlier(seen, m) \cap (E \cup Q) = {}
      BY <2>2
    <3>4. \A x \in AllEarlier(seen, m), t \in T : Earlier(x, t)
      BY <2>2, <3>1
    <3> QED BY <3>1, <3>2, <3>3, <3>4, BackMisses
  <2> QED BY <2>3, <2>4
<1> QED BY <1>3, <1>4 DEF EndsNear

-----------------------------------------------------------------------------
(* The inductive invariant of the pages of an index. *)

Rising(L) == \A i, j \in 1..Len(L) : i < j => Earlier(L[i], L[j])

Promised(k, L, F, n, next, prev) ==
    /\ Rising(L) /\ Unparted(Set(L), n)
    /\ k = "next" => NextNear(Set(L), Set(F), n)
    /\ k = "prev" => PrevNear(Set(L), Set(F), n)
    /\ EndsNear(SeenOf(k, Set(L), Set(F)), n, next, prev)

IndexKinds == {"first", "last", "next", "prev"}

AnswerFound(A, D, P) ==
    IF answer.kind = "none" THEN answer = NoAnswer ELSE
    /\ answer.kind \in IndexKinds
    /\ answer.lines \in Seq(Entries) /\ answer.from \in Seq(Entries)
    /\ FirstLines <= answer.top /\ answer.top <= written
    /\ View(A, D, P, Set(answer.lines), answer.top)
    /\ NextNumber(A, D, P, answer.next) /\ PrevNumber(D, answer.prev)
    /\ Promised(answer.kind, answer.lines, answer.from, answer.top, answer.next, answer.prev)

\* A line of a file that has been looked at was found, or is not there.
Sized(A) ==
    /\ fileSizes \in [DOMAIN fileSizes -> Int]
    /\ \A p \in Positions : At(p).id <= top /\ SegmentOf(p) \in DOMAIN fileSizes =>
        IF p[4] <= fileSizes[SegmentOf(p)]
        THEN answer.kind # "none" /\ At(p).id <= answer.top => At(p) \in A
        ELSE p \notin Stored

\* The entry of a place, and its line.
Reference(p) == <<At(p).ts, At(p).id, SegmentOf(p), p[4]>>
EntryLine(r) == [id |-> r[2], ts |-> r[1]]
IndexEntries == Times \X Nat \X Segments \X Nat

\* The entries still to be read come after what has been read.
ReadingEntries(P, n) ==
    /\ lines \in Seq(Entries) /\ Rising(lines) /\ Set(lines) \subseteq P
    /\ entries \in Seq(IndexEntries)
    /\ \A i \in 1..Len(entries) :
          /\ EntryLine(entries[i]) \in P
          /\ \E p \in Positions : entries[i] = Reference(p)
          /\ \A x \in Set(lines) : Earlier(x, EntryLine(entries[i]))
    /\ \A i, j \in 1..Len(entries) : i < j => Earlier(EntryLine(entries[i]), EntryLine(entries[j]))
    /\ \A x \in P \cap There(n) :
          x \in Set(lines) \/ \E i \in 1..Len(entries) : EntryLine(entries[i]) = x

\* The page B, E, Q of a request, next to the answer's.
PageFound(A, D, P, B, E, Q) ==
    /\ Finds(B, top) /\ Paged(B, E, Q)
    /\ answer.kind # "none" => Later(A, answer.top, B, top)
    /\ Placed(kind, D, P, E)
    /\ start[1] = Cardinality(E) /\ NextNumber(B, E, Q, at)
    /\ ReadingEntries(Q, top)

\* How far a request is: it looks at files, or reads its page.
RequestFound(A, D, P) ==
    /\ FirstLines <= written /\ pc \in {"idle", "stat", "entry"}
    /\ pc = "idle" => fileSizes = <<>>
    /\ pc # "entry" => lines = <<>>
    /\ pc # "idle" =>
          /\ top \in Nat /\ FirstLines <= top /\ top <= written
          /\ kind \in IndexKinds
          /\ answer.kind # "none" => answer.top <= top
          /\ kind \in {"next", "prev"} => answer.kind # "none" /\ Token # None
    /\ pc = "stat" => Sized(A)
    /\ pc = "entry" =>
          \E B, E, Q \in SUBSET LinesAt(Positions) : PageFound(A, D, P, B, E, Q)

\* The inductive invariant: there is something that the answer was found among, and the
\* request that is being served follows it.
IndexInv ==
    request = "index" =>
        /\ span = <<1, MaxTime>>
        /\ NoneMadeAgain =>
              \E A, D, P \in SUBSET LinesAt(Positions) :
                  AnswerFound(A, D, P) /\ RequestFound(A, D, P)

EveryMatch == LinesInv /\ StoreInv /\ span = <<1, MaxTime>> => \A p \in Positions : Matches(At(p))

\* An index is read without a range of time.
LEMMA EveryLineMatches == EveryMatch
<1> SUFFICES ASSUME StoreInv, LinesInv, span = <<1, MaxTime>>, NEW p \in Positions
             PROVE  Matches(At(p))
  BY DEF EveryMatch
<1>1. At(p).ts \in Times
  BY PlaceHas
<1>2. span[1] = 1 /\ span[2] = MaxTime
  OBVIOUS
<1> QED BY <1>1, <1>2 DEF Matches, Times

\* So it is after every step.
LEMMA EveryLineMatchesNext == EveryMatch'
BY EveryLineMatches, PTL

\* What a request finds stays found as the store changes: less of it is there, and
\* nothing comes to be.
LEMMA ThereShrinks ==
    ASSUME StoreInv, LinesInv, Moves, span = <<1, MaxTime>>, NEW n \in Nat, n <= written
    PROVE  /\ There(n)' \subseteq There(n) /\ Left(n) \subseteq Left(n)' /\ Came(n)' = Came(n)
           /\ LinesAt(Positions) \subseteq LinesAt(Positions)'
           /\ IsFiniteSet(Left(n)') /\ IsFiniteSet(Came(n)') /\ n <= written'
<1>1. \A p \in Positions : p \in Positions' /\ At(p)' = At(p)
  BY PlacesStay DEF Moves
<1>2. LinesAt(Positions) \subseteq LinesAt(Positions)'
  BY <1>1 DEF LinesAt
<1>3. n <= written'
  <2>1. written \in Nat /\ written' \in Nat /\ written <= written'
    BY DEF Moves, Grows
  <2> QED BY <2>1
<1>4. ASSUME NEW x \in There(n)' PROVE x \in There(n)
  <2> PICK p \in Stored' : x = At(p)'
    BY DEF There, LinesAt
  <2>1. p \in Positions' /\ At(p)'.id <= n
    BY DEF There, Stored
  <2>2. Matches(At(p))'
    BY <2>1, EveryLineMatchesNext DEF EveryMatch, Moves
  <2>3. Remains(p, n)'
    BY <2>1, <2>2 DEF Remains
  <2>4. p \in Positions /\ Remains(p, n) /\ At(p)' = At(p)
    BY <2>1, <2>3, StillRemains
  <2> QED BY <2>4 DEF There, LinesAt, Remains
<1>5. ASSUME NEW x \in Left(n) PROVE x \in Left(n)'
  <2>1. x \in LinesAt(Positions)' /\ x.id <= n
    BY <1>2 DEF Left
  <2>2. x \notin There(n)'
    BY <1>4 DEF Left, There
  <2> QED BY <2>1, <2>2 DEF Left, There
<1>6. ASSUME NEW x \in Came(n)' PROVE x \in Came(n)
  <2> PICK p \in Positions' : x = At(p)'
    BY DEF Came, LinesAt
  <2>1. x.id \in (FirstLines + 1)..n
    BY DEF Came
  <2>2. At(p)'.id <= written
    <3>1. written \in Nat /\ FirstLines \in Nat
      BY StoreAssumption DEF Moves, Grows
    <3>2. PICK i : i = x.id
      OBVIOUS
    <3>3. i \in Int /\ i <= n
      BY <2>1, <3>1, <3>2
    <3>4. i <= written
      BY <3>1, <3>3
    <3> QED BY <3>2, <3>4
  <2>3. p \in Positions /\ At(p)' = At(p)
    BY <2>2, OldPlace
  <2> QED BY <2>1, <2>3 DEF Came, LinesAt
<1>7. ASSUME NEW x \in Came(n) PROVE x \in Came(n)'
  BY <1>2, <1>7 DEF Came
<1>8. IsFiniteSet(Left(n)') /\ IsFiniteSet(Came(n)')
  <2>1. IsFiniteSet(Positions')
    BY PlacesFiniteNext DEF PlacesAreFinite, Moves
  <2> PICK f : f = [p \in Positions' |-> At(p)']
    OBVIOUS
  <2>2. f \in Surjection(Positions', LinesAt(Positions)')
    BY DEF Surjection, LinesAt
  <2>3. IsFiniteSet(LinesAt(Positions)')
    BY <2>1, <2>2, FS_Surjection
  <2>4. Left(n)' \in SUBSET LinesAt(Positions)' /\ Came(n)' \in SUBSET LinesAt(Positions)'
    BY DEF Left, Came
  <2> QED BY <2>3, <2>4, FS_Subset
<1> QED BY <1>2, <1>3, <1>4, <1>5, <1>6, <1>7, <1>8

\* Fewer stay fewer, if there are still fewer of them and more of the others.
LEMMA FewerStill ==
    ASSUME NEW X, NEW Y, Fewer(X, Y), IsFiniteSet(X), NEW V, IsFiniteSet(V), Y \subseteq V,
           NEW U, U \subseteq X
    PROVE  Fewer(U, V)
<1>1. Cardinality(U) <= Cardinality(X) /\ IsFiniteSet(U)
  BY FS_Subset
<1>2. Cardinality(Y) <= Cardinality(V) /\ IsFiniteSet(Y)
  BY FS_Subset
<1>3. /\ Cardinality(U) \in Int /\ Cardinality(X) \in Int /\ Cardinality(Y) \in Int
      /\ Cardinality(V) \in Int
  <2>1. /\ Cardinality(U) \in Nat /\ Cardinality(X) \in Nat /\ Cardinality(Y) \in Nat
        /\ Cardinality(V) \in Nat
    BY <1>1, <1>2, FS_CardinalityType
  <2> QED BY <2>1
<1>4. Cardinality(U) <= Cardinality(Y)
  BY <1>1, <1>3, InARow DEF Fewer
<1> QED BY <1>2, <1>3, <1>4, InARow DEF Fewer

\* What was found is so still, ...
LEMMA FindsStay ==
    ASSUME StoreInv, LinesInv, Moves, span = <<1, MaxTime>>, NEW n \in Nat, n <= written,
           NEW A, Finds(A, n)
    PROVE  Finds(A, n)' /\ There(n)' \subseteq There(n)
<1>1. There(n)' \subseteq There(n) /\ LinesAt(Positions) \subseteq LinesAt(Positions)'
  BY ThereShrinks
<1> QED BY <1>1 DEF Finds

\* ... a page of it and what has been read of that, ...
LEMMA ViewStays ==
    ASSUME StoreInv, LinesInv, Moves, span = <<1, MaxTime>>, NEW n \in Nat, n <= written,
           NEW A, NEW D, NEW P, NEW S, View(A, D, P, S, n)
    PROVE  View(A, D, P, S, n)'
<1>1. Finds(A, n) /\ Paged(A, D, P) /\ Shows(P, S, n)
  BY DEF View
<1>2. Finds(A, n)' /\ There(n)' \subseteq There(n)
  BY <1>1, FindsStay
<1>3. Shows(P, S, n)'
  BY <1>1, <1>2 DEF Shows
<1>4. Paged(A, D, P)'
  BY <1>1 DEF Paged
<1> QED BY <1>2, <1>3, <1>4 DEF View

\* ... and what is promised of an answer.
LEMMA PromisesStay ==
    ASSUME StoreInv, LinesInv, Moves, span = <<1, MaxTime>>, NEW n \in Nat, n <= written,
           NEW k, NEW L, NEW F, NEW next, NEW prev, Set(L) \subseteq LinesAt(Positions),
           Promised(k, L, F, n, next, prev)
    PROVE  Promised(k, L, F, n, next, prev)'
<1> PICK S : S = Set(L)
  OBVIOUS
<1> PICK T : T = Set(F)
  OBVIOUS
<1> PICK seen : seen = SeenOf(k, Set(L), Set(F))
  OBVIOUS
<1>1. /\ There(n)' \subseteq There(n) /\ Left(n) \subseteq Left(n)' /\ Came(n)' = Came(n)
      /\ IsFiniteSet(Left(n)') /\ IsFiniteSet(Came(n)')
  BY ThereShrinks
<1>2. IsFiniteSet(There(n)) /\ IsFiniteSet(S)
  BY LinesAre
<1>3. \A X : /\ AllLater(X, n)' \subseteq AllLater(X, n) /\ AllEarlier(X, n)' \subseteq AllEarlier(X, n)
             /\ IsFiniteSet(AllLater(X, n)) /\ IsFiniteSet(AllEarlier(X, n))
  <2> TAKE X
  <2>1. AllLater(X, n) \subseteq There(n) /\ AllEarlier(X, n) \subseteq There(n)
    BY DEF AllLater, AllEarlier
  <2>2. AllLater(X, n)' \subseteq AllLater(X, n)
    BY <1>1 DEF AllLater
  <2>3. AllEarlier(X, n)' \subseteq AllEarlier(X, n)
    BY <1>1 DEF AllEarlier
  <2> QED BY <1>2, <2>1, <2>2, <2>3, FS_Subset
<1>4. \A X : IsFiniteSet(X) =>
          /\ \A U : U \subseteq X /\ Fewer(X, Left(n)) => Fewer(U, Left(n)')
          /\ \A U : U \subseteq X /\ Fewer(X, Came(n)) => Fewer(U, Came(n)')
  BY <1>1, FewerStill
<1>5. IsFiniteSet(S \cap T)
  BY <1>2, FS_Subset
<1>6. \A X, Y : /\ AllLater(X, n)' \cap AllEarlier(Y, n)' \subseteq AllLater(X, n) \cap AllEarlier(Y, n)
                /\ IsFiniteSet(AllLater(X, n) \cap AllEarlier(Y, n))
  <2> TAKE X, Y
  <2>1. AllLater(X, n) \cap AllEarlier(Y, n) \in SUBSET AllLater(X, n)
    OBVIOUS
  <2>2. IsFiniteSet(AllLater(X, n) \cap AllEarlier(Y, n))
    BY <1>3, <2>1, FS_Subset
  <2> QED BY <1>3, <2>2
<1>7. k = "next" => NextNear(S, T, n)'
  <2>1. SUFFICES ASSUME NextNear(S, T, n) PROVE NextNear(S, T, n)'
    BY DEF Promised
  <2>2. Fewer(S \cap T, Came(n)')
    BY <1>4, <1>5, <2>1 DEF NextNear
  <2>3. ASSUME S # {}, T # {}
        PROVE  Fewer(AllLater(T, n)' \cap AllEarlier(S, n)', Left(n)')
    BY <1>4, <1>6, <2>1, <2>3 DEF NextNear
  <2> QED BY <2>2, <2>3 DEF NextNear, Fewer
<1>8. k = "prev" => PrevNear(S, T, n)'
  <2>1. SUFFICES ASSUME PrevNear(S, T, n) PROVE PrevNear(S, T, n)'
    BY DEF Promised
  <2>2. Fewer(S \cap T, Left(n)') \/ \A x \in There(n)' : \E b \in S : ~Earlier(x, b)
    BY <1>1, <1>4, <1>5, <2>1 DEF PrevNear
  <2>3. ASSUME S # {}, T # {}
        PROVE  Fewer(AllLater(S, n)' \cap AllEarlier(T, n)', Came(n)')
    <3>1. Fewer(AllLater(S, n) \cap AllEarlier(T, n), Came(n))
      <4>1. AllLater(S, n) \cap AllEarlier(T, n) = AllEarlier(T, n) \cap AllLater(S, n)
        OBVIOUS
      <4> QED BY <2>1, <2>3, <4>1 DEF PrevNear
    <3> QED BY <1>4, <1>6, <3>1
  <2>4. AllLater(S, n)' \cap AllEarlier(T, n)' = AllEarlier(T, n)' \cap AllLater(S, n)'
    OBVIOUS
  <2> QED BY <2>2, <2>3, <2>4 DEF PrevNear, Fewer
<1>9. EndsNear(seen, n, next, prev)'
  <2>1. EndsNear(seen, n, next, prev)
    BY DEF Promised
  <2>2. ASSUME next = None, seen # {} PROVE Fewer(AllLater(seen, n)', Left(n)')
    BY <1>3, <1>4, <2>1, <2>2 DEF EndsNear
  <2>3. ASSUME prev = None, seen # {} PROVE Fewer(AllEarlier(seen, n)', Came(n)')
    BY <1>3, <1>4, <2>1, <2>3 DEF EndsNear
  <2> QED BY <2>2, <2>3 DEF EndsNear, Fewer
<1>10. Unparted(S, n)'
  <2>1. Unparted(S, n)
    BY DEF Promised
  <2> QED BY <1>1, <2>1 DEF Unparted
<1>11. Rising(L)'
  BY DEF Promised, Rising
<1>12. S = Set(L)' /\ T = Set(F)' /\ seen = SeenOf(k, Set(L), Set(F))'
  BY DEF Set, SeenOf
<1> QED BY <1>7, <1>8, <1>9, <1>10, <1>11, <1>12 DEF Promised

\* The line of every place has a number, ...
EveryLine == StoreInv /\ LinesInv => \A p \in Positions : At(p).id \in Nat

\* ... after a step as well.
LEMMA EveryLineNext == EveryLine'
<1>1. EveryLine
  BY AllWritten DEF EveryLine
<1> QED BY <1>1, PTL

\* What an answer was found among stays so, ...
LEMMA AnswerStaysFound ==
    ASSUME StoreInv, LinesInv, Moves, span = <<1, MaxTime>>, UNCHANGED answer,
           NEW A, NEW D, NEW P, AnswerFound(A, D, P)
    PROVE  AnswerFound(A, D, P)'
<1>1. CASE answer.kind = "none"
  BY <1>1 DEF AnswerFound, NoAnswer
<1>2. CASE answer.kind # "none"
  <2> PICK a : a = answer
    OBVIOUS
  <2>1. /\ a.kind # "none" /\ a.kind \in IndexKinds
        /\ a.lines \in Seq(Entries) /\ a.from \in Seq(Entries)
        /\ FirstLines <= a.top /\ a.top <= written
        /\ View(A, D, P, Set(a.lines), a.top)
        /\ NextNumber(A, D, P, a.next) /\ PrevNumber(D, a.prev)
        /\ Promised(a.kind, a.lines, a.from, a.top, a.next, a.prev)
    BY <1>2 DEF AnswerFound
  <2> PICK n : n = a.top
    OBVIOUS
  <2>2. n \in Nat /\ n <= written /\ Set(a.lines) \subseteq LinesAt(Positions)
    BY <2>1 DEF View, Finds, Paged, Shows
  <2>3. n <= written' /\ View(A, D, P, Set(a.lines), n)'
    <3> PICK S : S = Set(a.lines)
      OBVIOUS
    <3>1. View(A, D, P, S, n)' /\ n <= written'
      BY <2>1, <2>2, ViewStays, ThereShrinks
    <3>2. S = Set(a.lines)'
      BY DEF Set
    <3> QED BY <3>1, <3>2
  <2>4. Promised(a.kind, a.lines, a.from, n, a.next, a.prev)'
    BY <2>1, <2>2, PromisesStay
  <2>5. NextNumber(A, D, P, a.next)' /\ PrevNumber(D, a.prev)'
    BY <2>1 DEF NextNumber, PrevNumber
  <2>6. a = answer'
    OBVIOUS
  <2> QED BY <2>1, <2>3, <2>4, <2>5, <2>6 DEF AnswerFound
<1> QED BY <1>1, <1>2

\* What a request has come to stays so.
LEMMA SizesStay ==
    ASSUME StoreInv, LinesInv, Moves, span = <<1, MaxTime>>, UNCHANGED <<top, fileSizes, answer>>,
           top \in Nat, top <= written, NEW A, Sized(A)
    PROVE  Sized(A)'
<1>1. fileSizes' \in [DOMAIN fileSizes' -> Int]
  BY DEF Sized
<1>2. ASSUME NEW p \in Positions', At(p)'.id <= top, SegmentOf(p) \in DOMAIN fileSizes
      PROVE  IF p[4] <= fileSizes[SegmentOf(p)]
             THEN answer.kind # "none" /\ At(p)'.id <= answer.top => At(p)' \in A
             ELSE p \notin Stored'
  <2>1. At(p)'.id \in Nat /\ written \in Nat
    BY EveryLineNext DEF EveryLine, Moves, Grows
  <2>2. At(p)'.id <= written
    <3> PICK i : i = At(p)'.id
      OBVIOUS
    <3>1. i \in Nat /\ i <= top
      BY <1>2, <2>1
    <3>2. i <= written
      BY <2>1, <3>1
    <3> QED BY <3>2
  <2>3. p \in Positions /\ At(p)' = At(p)
    BY <2>2, OldPlace
  <2>4. p \in Stored' => p \in Stored
    <3>1. SUFFICES ASSUME p \in Stored' PROVE p \in Stored
      OBVIOUS
    <3>2. Matches(At(p))'
      BY EveryLineMatchesNext DEF EveryMatch, Moves
    <3>3. Remains(p, top)'
      BY <1>2, <3>1, <3>2 DEF Remains
    <3> PICK n \in Nat : n = top
      OBVIOUS
    <3>4. Remains(p, n)' /\ n <= written
      BY <1>2, <3>1, <3>2 DEF Remains
    <3> QED BY <3>4, StillRemains DEF Remains
  <2> QED BY <1>2, <2>3, <2>4 DEF Sized
<1> QED BY <1>1, <1>2 DEF Sized

\* ... the entries still to be read, ...
LEMMA ReadingStays ==
    ASSUME StoreInv, LinesInv, Moves, span = <<1, MaxTime>>, UNCHANGED <<lines, entries>>,
           NEW n \in Nat, n <= written, NEW P, ReadingEntries(P, n)
    PROVE  ReadingEntries(P, n)'
<1>1. There(n)' \subseteq There(n)
  BY ThereShrinks
<1>2. \A p \in Positions : p \in Positions' /\ Reference(p)' = Reference(p)
  BY PlacesStay DEF Moves, Reference, SegmentOf
<1>3. \A x : EntryLine(x)' = EntryLine(x)
  BY DEF EntryLine
<1>4. Set(lines)' = Set(lines) /\ Rising(lines)' = Rising(lines)
  BY DEF Set, Rising
<1>5. /\ lines' \in Seq(Entries) /\ Rising(lines)' /\ Set(lines)' \subseteq P
      /\ entries' \in Seq(IndexEntries)
  BY <1>4 DEF ReadingEntries
<1>6. \A i \in 1..Len(entries') :
          /\ EntryLine(entries'[i]) \in P
          /\ \E p \in Positions' : entries'[i] = Reference(p)'
          /\ \A x \in Set(lines)' : Earlier(x, EntryLine(entries'[i]))
  <2> TAKE i \in 1..Len(entries')
  <2>1. /\ EntryLine(entries[i]) \in P
        /\ \E p \in Positions : entries[i] = Reference(p)
        /\ \A x \in Set(lines) : Earlier(x, EntryLine(entries[i]))
    BY DEF ReadingEntries
  <2> QED BY <1>2, <1>4, <2>1
<1>7. \A i, j \in 1..Len(entries') : i < j =>
          Earlier(EntryLine(entries'[i]), EntryLine(entries'[j]))
  BY DEF ReadingEntries
<1>8. \A x \in P \cap There(n)' :
          x \in Set(lines)' \/ \E i \in 1..Len(entries') : EntryLine(entries'[i]) = x
  BY <1>1, <1>4 DEF ReadingEntries
<1> QED BY <1>5, <1>6, <1>7, <1>8 DEF ReadingEntries, EntryLine

\* ... and what a request has found.
LEMMA RequestStaysFound ==
    ASSUME StoreInv, LinesInv, Moves, span = <<1, MaxTime>>, UNCHANGED <<pageVars, indexVars>>,
           NEW A, NEW D, NEW P, RequestFound(A, D, P)
    PROVE  RequestFound(A, D, P)'
<1>1. UNCHANGED <<pc, kind, top, start, at, lines, answer, fileSizes, entries>>
  BY DEF pageVars, indexVars
<1>2. Token' = Token
  BY <1>1 DEF Token
<1>3. written \in Nat /\ written' \in Nat /\ written <= written' /\ FirstLines \in Nat
  BY StoreAssumption DEF Moves, Grows
<1>4. FirstLines <= written' /\ pc' \in {"idle", "stat", "entry"}
  BY <1>1, <1>3 DEF RequestFound
<1>5. /\ pc' = "idle" => fileSizes' = <<>>
      /\ pc' # "entry" => lines' = <<>>
  BY <1>1 DEF RequestFound
<1>6. pc' # "idle" =>
          /\ top' \in Nat /\ FirstLines <= top' /\ top' <= written'
          /\ kind' \in IndexKinds
          /\ answer'.kind # "none" => answer'.top <= top'
          /\ kind' \in {"next", "prev"} => answer'.kind # "none" /\ Token' # None
  BY <1>1, <1>2, <1>3 DEF RequestFound
<1>7. pc' = "stat" => Sized(A)'
  BY <1>1, SizesStay DEF RequestFound
<1>8. ASSUME pc' = "entry"
      PROVE  \E B, E, Q \in SUBSET LinesAt(Positions)' : PageFound(A, D, P, B, E, Q)'
  <2>1. pc = "entry" /\ top \in Nat /\ top <= written
    BY <1>1, <1>8 DEF RequestFound
  <2>2. PICK B, E, Q \in SUBSET LinesAt(Positions) : PageFound(A, D, P, B, E, Q)
    BY <2>1 DEF RequestFound
  <2> PICK n \in Nat : n = top
    BY <2>1
  <2>3. Finds(B, n)' /\ ReadingEntries(Q, n)'
    BY <1>1, <2>1, <2>2, FindsStay, ReadingStays DEF PageFound
  <2>4. LinesAt(Positions) \subseteq LinesAt(Positions)'
    BY <2>1, ThereShrinks
  <2>5. answer.kind # "none" => Later(A, answer'.top, B, top')
    BY <1>1, <2>2 DEF PageFound
  <2>6. Paged(B, E, Q) /\ Placed(kind', D, P, E) /\ start'[1] = Cardinality(E)
        /\ NextNumber(B, E, Q, at')
    BY <1>1, <2>2 DEF PageFound
  <2>7. PageFound(A, D, P, B, E, Q)'
    BY <1>1, <2>3, <2>5, <2>6 DEF PageFound
  <2> QED BY <2>4, <2>7
<1> QED BY <1>4, <1>5, <1>6, <1>7, <1>8 DEF RequestFound

\* As the store changes, and while no request of an index is served, the invariant holds.
LEMMA IndexRests ==
    ASSUME StoreInv, LinesInv, IndexInv, Moves, UNCHANGED <<request, pageVars, indexVars>>
    PROVE  IndexInv'
<1> SUFFICES ASSUME request = "index", NoneMadeAgain'
             PROVE  /\ span' = <<1, MaxTime>>
                    /\ \E A, D, P \in SUBSET LinesAt(Positions)' :
                          AnswerFound(A, D, P)' /\ RequestFound(A, D, P)'
  BY DEF IndexInv, Moves
<1>1. span = <<1, MaxTime>> /\ span' = span
  BY DEF IndexInv, Moves
<1>2. NoneMadeAgain
  BY DEF Moves, Grows, NoneMadeAgain
<1>3. PICK A, D, P \in SUBSET LinesAt(Positions) : AnswerFound(A, D, P) /\ RequestFound(A, D, P)
  BY <1>2 DEF IndexInv
<1>4. AnswerFound(A, D, P)' /\ RequestFound(A, D, P)'
  <2>1. UNCHANGED answer
    BY DEF pageVars
  <2> QED BY <1>1, <1>3, <2>1, AnswerStaysFound, RequestStaysFound
<1>5. LinesAt(Positions) \subseteq LinesAt(Positions)'
  BY PlacesStay DEF Moves, LinesAt
<1> QED BY <1>1, <1>4, <1>5

-----------------------------------------------------------------------------
(* A request of an index, step by step. *)

Indexing ==
    /\ StoreInv /\ LinesInv /\ NoneMadeAgain /\ span = <<1, MaxTime>>
    /\ UNCHANGED <<storeVars, readVars>>

\* While it is served, nothing else changes.
LEMMA IndexStill ==
    ASSUME Indexing
    PROVE  /\ Moves /\ UNCHANGED <<seg, data, written>>
           /\ Positions' = Positions /\ Stored' = Stored /\ (\A p : At(p)' = At(p))
           /\ \A S : LinesAt(S)' = LinesAt(S)
           /\ \A n : There(n)' = There(n)
<1>1. Moves /\ UNCHANGED <<seg, data, written>>
  BY StandsStill DEF Indexing, storeVars
<1>2. Positions' = Positions /\ (\A p : At(p)' = At(p)) /\ Stored' = Stored
  BY <1>1 DEF Positions, At, Stored
<1>3. \A S : LinesAt(S)' = {At(p)' : p \in S}
  BY DEF LinesAt
<1>4. \A S : LinesAt(S)' = LinesAt(S)
  BY <1>2, <1>3 DEF LinesAt
<1>5. \A n : There(n)' = There(n)
  BY <1>2 DEF There, LinesAt
<1> QED BY <1>1, <1>2, <1>4, <1>5

\* A request comes.
LEMMA AskIndexKeeps ==
    ASSUME Indexing, NEW k \in IndexKinds, AskIndex(k),
           NEW A, NEW D, NEW P, AnswerFound(A, D, P), RequestFound(A, D, P)
    PROVE  AnswerFound(A, D, P)' /\ RequestFound(A, D, P)'
<1>1. /\ pc = "idle" /\ pc' = "stat" /\ kind' = k /\ top' = written
      /\ UNCHANGED <<lines, answer, fileSizes, entries>>
      /\ k = "next" => answer.next # None
      /\ k = "prev" => answer.prev # None
  BY DEF AskIndex, Asks, indexVars
<1>2. Moves /\ written' = written /\ written \in Nat
  BY IndexStill DEF Indexing, StoreInv
<1>3. AnswerFound(A, D, P)'
  BY <1>1, <1>2, AnswerStaysFound DEF Indexing
<1>4. FirstLines <= written /\ fileSizes = <<>> /\ lines = <<>>
  BY <1>1 DEF RequestFound
<1>5. answer.kind # "none" => answer.top <= written
  BY DEF AnswerFound
<1>6. k \in {"next", "prev"} => answer.kind # "none" /\ Token' # None
  <2>1. k \in {"next", "prev"} => answer.kind # "none"
    BY <1>1 DEF AnswerFound, NoAnswer
  <2>2. Token' = CASE k = "next" -> answer.next [] k = "prev" -> answer.prev [] OTHER -> None
    BY <1>1 DEF Token
  <2> QED BY <1>1, <2>1, <2>2
<1>7. Sized(A)'
  <2>1. fileSizes' = <<>> /\ DOMAIN fileSizes' = {}
    BY <1>1, <1>4
  <2>2. fileSizes' \in [DOMAIN fileSizes' -> Int]
    BY <2>1
  <2> QED BY <2>1, <2>2 DEF Sized
<1> QED BY <1>1, <1>2, <1>3, <1>4, <1>5, <1>6, <1>7 DEF RequestFound

\* The size of a file that is there is that of its lines; no file of its name was there
\* before.
LEMMA SizeIs ==
    ASSUME StoreInv, LinesInv, NoneMadeAgain, NEW p \in Positions,
           NEW s, s = SegmentOf(p), s \in DOMAIN seg
    PROVE  /\ p \in Stored /\ p[4] \in 1..Len(Content(s)) /\ Content(s)[p[4]] = At(p)
           /\ Len(Content(s)) \in Nat /\ p[4] \in Nat
<1>1. /\ <<s, p[3]>> \in DOMAIN data /\ p[4] \in DOMAIN data[<<s, p[3]>>]
      /\ At(p) = data[<<s, p[3]>>][p[4]] /\ p[4] \in Nat
  BY PlaceHas
<1>2. <<s, seg[s]>> \in DOMAIN data
  BY DEF StoreInv
<1>3. \A f : f = <<s, p[3]>> => f[2] = p[3]
  OBVIOUS
<1>4. \A f : f = <<s, seg[s]>> => f[2] = seg[s]
  OBVIOUS
<1>5. p[3] = 1 /\ seg[s] = 1
  BY <1>1, <1>2, <1>3, <1>4 DEF NoneMadeAgain
<1>6. Content(s) = data[<<s, p[3]>>] /\ IsSequence(Content(s))
  BY <1>1, <1>5 DEF Content, StoreInv
<1>7. Len(Content(s)) \in Nat /\ DOMAIN Content(s) = 1..Len(Content(s))
  BY <1>6, LengthOf
<1>8. p \in Stored
  BY <1>5 DEF Stored, SegmentOf
<1> QED BY <1>1, <1>6, <1>7, <1>8

\* A file is looked at.
LEMMA StatFileKeeps ==
    ASSUME Indexing, StatFile, NEW A, NEW D, NEW P, AnswerFound(A, D, P), RequestFound(A, D, P)
    PROVE  AnswerFound(A, D, P)' /\ RequestFound(A, D, P)'
<1>1. /\ pc = "stat" /\ UNCHANGED <<pc, kind, top, lines, answer>> /\ StoreInv /\ LinesInv
      /\ NoneMadeAgain
  BY DEF StatFile, pageVars, Indexing
<1>2. Moves /\ written' = written /\ Positions' = Positions /\ Stored' = Stored
      /\ \A p : At(p)' = At(p)
  BY IndexStill
<1>3. AnswerFound(A, D, P)'
  BY <1>1, <1>2, AnswerStaysFound DEF Indexing
<1>4. PICK r \in Unchecked :
          fileSizes' = [s \in DOMAIN fileSizes \cup {r[3]} |->
                            IF s # r[3] THEN fileSizes[s]
                            ELSE IF s \in DOMAIN seg THEN Len(Content(s)) ELSE -1]
  BY DEF StatFile
<1> PICK s : s = r[3]
  OBVIOUS
<1>5. /\ Sized(A) /\ fileSizes \in [DOMAIN fileSizes -> Int]
  BY <1>1 DEF RequestFound, Sized
<1>6. DOMAIN fileSizes' = DOMAIN fileSizes \cup {s} /\ s \notin DOMAIN fileSizes
  BY <1>4 DEF Unchecked
<1>7. \A x \in DOMAIN fileSizes : fileSizes'[x] = fileSizes[x]
  BY <1>4, <1>6
<1>8. fileSizes'[s] = IF s \in DOMAIN seg THEN Len(Content(s)) ELSE -1
  BY <1>4, <1>6
<1>9. s \in DOMAIN seg => Len(Content(s)) \in Nat
  <2>1. SUFFICES ASSUME s \in DOMAIN seg PROVE Len(Content(s)) \in Nat
    OBVIOUS
  <2>2. IsSequence(Content(s))
    BY <1>1, <2>1 DEF StoreInv, Content
  <2> QED BY <2>2, LengthOf
<1>10. fileSizes' \in [DOMAIN fileSizes' -> Int]
  <2>1. \A x \in DOMAIN fileSizes' : fileSizes'[x] \in Int
    BY <1>5, <1>6, <1>7, <1>8, <1>9
  <2>2. fileSizes' = [x \in DOMAIN fileSizes' |-> fileSizes'[x]]
    BY <1>4
  <2> QED BY <2>1, <2>2
<1>11. ASSUME NEW p \in Positions, At(p).id <= top, SegmentOf(p) \in DOMAIN fileSizes'
       PROVE  IF p[4] <= fileSizes'[SegmentOf(p)]
              THEN answer.kind # "none" /\ At(p).id <= answer.top => At(p) \in A
              ELSE p \notin Stored
  <2>1. CASE SegmentOf(p) # s
    BY <1>5, <1>6, <1>7, <1>11, <2>1 DEF Sized
  <2>2. CASE SegmentOf(p) = s /\ s \in DOMAIN seg
    <3>1. p \in Stored /\ p[4] \in Nat /\ p[4] <= Len(Content(s))
      BY <1>1, <2>2, SizeIs
    <3>2. answer.kind # "none" /\ At(p).id <= answer.top => At(p) \in A
      <4>1. SUFFICES ASSUME answer.kind # "none", At(p).id <= answer.top PROVE At(p) \in A
        OBVIOUS
      <4>2. Finds(A, answer.top)
        BY <4>1 DEF AnswerFound, View
      <4> QED BY <3>1, <4>1, <4>2 DEF Finds, There, LinesAt
    <3> QED BY <1>8, <2>2, <3>1, <3>2
  <2>3. CASE SegmentOf(p) = s /\ s \notin DOMAIN seg
    <3>1. p \notin Stored /\ p[4] \in Nat /\ fileSizes'[s] = -1
      BY <1>1, <1>8, <2>3, PlaceHas DEF Stored, SegmentOf
    <3>2. ~(p[4] <= -1)
      BY <3>1
    <3> QED BY <2>3, <3>1, <3>2
  <2> QED BY <2>1, <2>2, <2>3
<1>12. Sized(A)'
  <2>1. \A p : SegmentOf(p)' = SegmentOf(p)
    BY DEF SegmentOf
  <2> QED BY <1>1, <1>2, <1>10, <1>11, <2>1 DEF Sized
<1>13. Token' = Token
  BY <1>1 DEF Token
<1> QED BY <1>1, <1>2, <1>3, <1>12, <1>13 DEF RequestFound

\* The g members G of a set from number f on, or as many as there are, after the members K.
Numbered(S, under, f, g, K, G) ==
    /\ Cardinality(K) = f /\ Cardinality(G) \in Nat /\ Cardinality(G) <= g /\ K \cap G = {}
    /\ S # K \cup G => Cardinality(G) = g
    /\ f + Cardinality(G) >= Cardinality(S) => S = K \cup G
    /\ \A x \in K, y \in S \ K : x \in under[y]
    /\ \A x \in G, y \in S \ (K \cup G) : x \in under[y]
    /\ \A x \in G : \E i \in 1..Cardinality(G) : Cardinality(under[x]) = f + i - 1
    /\ \A i \in 1..Cardinality(G) : \E x \in G : Cardinality(under[x]) = f + i - 1

\* They are the next page after K.
LEMMA RankedPage ==
    ASSUME NEW S, IsFiniteSet(S), NEW under, Total(S, under),
           NEW f \in Nat, f <= Cardinality(S), NEW g \in Nat,
           NEW K, K = {x \in S : Cardinality(under[x]) < f},
           NEW G, G = {x \in S : Cardinality(under[x]) \in f..(f + g - 1)}
    PROVE  Numbered(S, under, f, g, K, G)
<1> PICK n : n = Cardinality(S)
  OBVIOUS
<1> PICK c : c = Cardinality(G)
  OBVIOUS
<1>1. /\ n \in Nat
      /\ \A x \in S : Cardinality(under[x]) \in 0..n - 1
      /\ \A k \in 0..n - 1 : \E x \in S : Cardinality(under[x]) = k
  BY Ranked
<1> PICK h \in Nat : h = f + g
  OBVIOUS
<1> PICK M : M = {x \in S : Cardinality(under[x]) < h}
  OBVIOUS
<1>2. /\ IsFiniteSet(K) /\ Cardinality(K) \in Nat /\ Cardinality(K) <= f
      /\ \A x \in S \ K : Cardinality(K) = f /\ \A y \in K : y \in under[x]
  BY Firsts
<1>3. /\ IsFiniteSet(M) /\ Cardinality(M) \in Nat /\ Cardinality(M) <= h
      /\ \A x \in S \ M : Cardinality(M) = h /\ \A y \in M : y \in under[x]
  BY Firsts
<1>4. \A x \in S : x \in G <=> x \notin K /\ x \in M
  <2> TAKE x \in S
  <2> PICK k \in Int : k = Cardinality(under[x])
    BY <1>1
  <2>1. k \in f..(f + g - 1) <=> ~(k < f) /\ k < h
    OBVIOUS
  <2> QED BY <2>1
<1>5. \A x \in K : x \in M
  <2> TAKE x \in K
  <2> PICK k \in Int : k = Cardinality(under[x])
    BY <1>1
  <2>1. k < f
    OBVIOUS
  <2>2. k < h
    BY <2>1
  <2> QED BY <2>2
<1>6. M = K \cup G /\ K \cap G = {} /\ G \subseteq M /\ M \subseteq S
  BY <1>4, <1>5
<1>7. IsFiniteSet(G) /\ c \in Nat
  BY <1>3, <1>6, FS_Subset, FS_CardinalityType
<1>8. Cardinality(M) = Cardinality(K) + c
  <2>1. Cardinality(K \cup G) = Cardinality(K) + Cardinality(G) - Cardinality(K \cap G)
    BY <1>2, <1>7, FS_Union
  <2>2. Cardinality(K \cap G) = 0
    BY <1>6, FS_EmptySet
  <2>3. Cardinality(M) = Cardinality(K) + c - 0
    BY <1>6, <2>1, <2>2
  <2> QED BY <1>2, <1>7, <2>3
<1>9. Cardinality(M) <= n /\ (Cardinality(M) = n => M = S)
  BY <1>6, FS_Subset
<1>10. Cardinality(K) = f
  <2>1. CASE S = K
    <3>1. Cardinality(K) = Cardinality(S)
      BY <2>1
    <3> PICK k \in Nat : k = Cardinality(K)
      BY <1>2
    <3>2. k <= f /\ f <= k
      BY <1>2, <3>1
    <3> QED BY <3>2
  <2>2. CASE S # K
    <3>1. PICK x \in S \ K : TRUE
      BY <2>2
    <3> QED BY <1>2
  <2> QED BY <2>1, <2>2
<1>11. c <= g /\ f + c <= n
  BY <1>1, <1>3, <1>7, <1>8, <1>9, <1>10
<1>12. S # M => c = g
  <2>1. SUFFICES ASSUME S # M PROVE c = g
    OBVIOUS
  <2>2. PICK x \in S \ M : TRUE
    BY <1>6, <2>1
  <2>3. Cardinality(M) = h
    BY <1>3
  <2> QED BY <1>7, <1>8, <1>10, <2>3
<1>13. f + c >= n => S = M
  BY <1>1, <1>8, <1>9, <1>10, <1>11, <1>7
<1>14. ASSUME NEW x \in G PROVE \E i \in 1..c : Cardinality(under[x]) = f + i - 1
  <2> PICK k \in Int : k = Cardinality(under[x])
    BY <1>1
  <2>1. k \in f..(f + g - 1) /\ k <= n - 1
    BY <1>1
  <2>2. k < f + c
    <3>1. CASE S = M
      <4>1. n = f + c
        BY <1>8, <1>10, <3>1
      <4> QED BY <1>1, <1>7, <2>1, <4>1
    <3>2. CASE S # M
      BY <1>7, <1>12, <2>1, <3>2
    <3> QED BY <3>1, <3>2
  <2>3. k - f + 1 \in 1..c /\ f + (k - f + 1) - 1 = k
    BY <1>7, <2>1, <2>2
  <2> QED BY <2>3
<1>15. ASSUME NEW i \in 1..c PROVE \E x \in G : Cardinality(under[x]) = f + i - 1
  <2> PICK k \in Int : k = f + i - 1
    BY <1>7
  <2>1. k \in 0..n - 1 /\ k \in f..(f + g - 1)
    BY <1>1, <1>7, <1>11
  <2>2. PICK x \in S : Cardinality(under[x]) = k
    BY <1>1, <2>1
  <2> QED BY <2>1, <2>2
<1>16. \A x \in K, y \in S \ K : x \in under[y]
  BY <1>2
<1>17. \A x \in G, y \in S \ (K \cup G) : x \in under[y]
  BY <1>3, <1>6
<1> QED BY <1>6, <1>7, <1>10, <1>11, <1>12, <1>13, <1>14, <1>15, <1>16, <1>17 DEF Numbered

\* What the entries of the lines there were are.
LEMMA EntriesAre ==
    ASSUME StoreInv, LinesInv
    PROVE  /\ IsFiniteSet(References)
           /\ \A r \in References :
                 /\ r \in IndexEntries /\ EntryLine(r) \in Entries
                 /\ \E p \in Positions : r = Reference(p) /\ EntryLine(r) = At(p) /\ At(p).id <= top
           /\ \A p \in Positions : At(p).id <= top =>
                 Reference(p) \in References /\ EntryLine(Reference(p)) = At(p)
           /\ \A q, r \in References : EntryLine(q) = EntryLine(r) => q = r
           /\ \A q, r \in References :
                 EntryLess(q, r) <=> Earlier(EntryLine(q), EntryLine(r))
<1>1. ASSUME NEW p \in Positions
      PROVE  /\ Reference(p) \in IndexEntries /\ EntryLine(Reference(p)) = At(p)
             /\ EntryLine(Reference(p)) \in Entries
             /\ Reference(p) = <<At(p).ts, At(p).id, <<p[1], p[2]>>, p[4]>>
  <2>1. At(p) \in Entries /\ SegmentOf(p) \in Segments /\ p[4] \in Nat
    BY PlaceHas DEF Entries
  <2>2. At(p) = [id |-> At(p).id, ts |-> At(p).ts] /\ At(p).ts \in Times /\ At(p).id \in Nat
    BY <2>1 DEF Entries
  <2>3. Reference(p) \in IndexEntries
    BY <2>1, <2>2 DEF Reference, IndexEntries
  <2>4. EntryLine(Reference(p)) = At(p)
    BY <2>2 DEF Reference, EntryLine
  <2> QED BY <2>1, <2>3, <2>4 DEF Reference, SegmentOf
<1> PICK V : V = {q \in Positions : At(q).id <= top}
  OBVIOUS
<1>2. References = {Reference(p) : p \in V}
  BY <1>1 DEF References
<1>3. IsFiniteSet(References)
  <2>1. IsFiniteSet(V)
    BY PlacesFinite
  <2> PICK f : f = [p \in V |-> Reference(p)]
    OBVIOUS
  <2>2. f \in Surjection(V, References)
    BY <1>2 DEF Surjection
  <2> QED BY <2>1, <2>2, FS_Surjection
<1>4. ASSUME NEW r \in References
      PROVE  \E p \in Positions : r = Reference(p) /\ EntryLine(r) = At(p) /\ At(p).id <= top
  BY <1>1, <1>2
<1>5. \A r \in References : r \in IndexEntries /\ EntryLine(r) \in Entries
  BY <1>1, <1>4
<1>6. ASSUME NEW q \in References, NEW r \in References, EntryLine(q) = EntryLine(r) PROVE q = r
  <2> PICK a \in Positions : q = Reference(a) /\ EntryLine(q) = At(a)
    BY <1>4
  <2> PICK b \in Positions : r = Reference(b) /\ EntryLine(r) = At(b)
    BY <1>4
  <2>1. a = b
    BY <1>6, OnePlace
  <2> QED BY <2>1
<1>7. ASSUME NEW q \in References, NEW r \in References
      PROVE  EntryLess(q, r) <=> Earlier(EntryLine(q), EntryLine(r))
  <2> PICK x : x = <<q[1], q[2]>>
    OBVIOUS
  <2> PICK y : y = <<r[1], r[2]>>
    OBVIOUS
  <2>1. q[1] \in Int /\ q[2] \in Int /\ r[1] \in Int /\ r[2] \in Int
    <3>1. q[1] \in Times /\ q[2] \in Nat /\ r[1] \in Times /\ r[2] \in Nat
      BY <1>5 DEF IndexEntries
    <3>2. q[1] \in Int /\ r[1] \in Int
      BY <3>1, TimesInt
    <3> QED BY <3>1, <3>2
  <2>2. x \in Int \X Int /\ y \in Int \X Int /\ x[1] = q[1] /\ x[2] = q[2] /\ y[1] = r[1] /\ y[2] = r[2]
    BY <2>1
  <2>3. Below(x, y) <=> x[1] < y[1] \/ (x[1] = y[1] /\ x[2] < y[2])
    BY <2>2, BelowPairs
  <2>4. Earlier(EntryLine(q), EntryLine(r)) <=> Below(x, y)
    BY DEF Earlier, EntryLine
  <2> QED BY <2>2, <2>3, <2>4 DEF EntryLess
<1> QED BY <1>1, <1>2, <1>3, <1>4, <1>5, <1>6, <1>7

\* The entries found are ordered, and an entry's place is the number of those before it.
EntryOrder(V) == [r \in V |-> {x \in V : EntryLess(x, r)}]

EntriesInOrder(V, under) ==
    /\ V \subseteq References /\ IsFiniteSet(V) /\ Total(V, under)
    /\ \A r \in V : Place(r) = Cardinality(under[r])
    /\ \A x, r \in V : x \in under[r] <=> Earlier(EntryLine(x), EntryLine(r))

\* So they are ordered.
LEMMA EntriesOrdered ==
    ASSUME StoreInv, LinesInv
    PROVE  EntriesInOrder(Available, EntryOrder(Available))
<1> PICK V : V = Available
  OBVIOUS
<1> PICK under : under = EntryOrder(V)
  OBVIOUS
<1>1. V \subseteq References
  BY DEF Available
<1>2. IsFiniteSet(V)
  BY <1>1, EntriesAre, FS_Subset
<1>3. \A x, r \in V : x \in under[r] <=> Earlier(EntryLine(x), EntryLine(r))
  BY <1>1, EntriesAre DEF EntryOrder
<1>4. \A r \in V : Place(r) = Cardinality(under[r])
  BY DEF Place, EntryOrder
<1>5. Total(V, under)
  <2>1. under \in [V -> SUBSET V]
    BY DEF EntryOrder
  <2>2. \A x \in V : EntryLine(x) \in Entries
    BY <1>1, EntriesAre
  <2>3. \A x, y \in V : EntryLine(x) = EntryLine(y) => x = y
    BY <1>1, EntriesAre
  <2>4. \A x \in V : x \notin under[x]
    BY <1>3, <2>2, EarlierOrders
  <2>5. \A x, y \in V : x \in under[y] \/ y \in under[x] \/ x = y
    BY <1>3, <2>2, <2>3, EarlierOrders
  <2>6. \A x, y, z \in V : x \in under[y] /\ y \in under[z] => x \in under[z]
    BY <1>3, <2>2, EarlierOrders
  <2> QED BY <2>1, <2>4, <2>5, <2>6 DEF Total
<1>6. EntriesInOrder(V, under)
  BY <1>1, <1>2, <1>3, <1>4, <1>5 DEF EntriesInOrder
<1> QED BY <1>6

\* There are as many lines as entries.
LEMMA ManyLines ==
    ASSUME StoreInv, LinesInv, NEW V, V \subseteq References,
           NEW B, B = {EntryLine(r) : r \in V}
    PROVE  IsFiniteSet(B) /\ Cardinality(B) = Cardinality(V) /\ Cardinality(V) \in Nat
<1>1. IsFiniteSet(V) /\ Cardinality(V) \in Nat
  BY EntriesAre, FS_Subset, FS_CardinalityType
<1> PICK f : f = [r \in V |-> EntryLine(r)]
  OBVIOUS
<1>2. f \in Surjection(V, B)
  BY DEF Surjection
<1>3. f \in [V -> B] /\ \A q, r \in V : f[q] = f[r] => q = r
  BY EntriesAre
<1>4. f \in Injection(V, B)
  BY <1>3 DEF Injection, IsInjective
<1>5. IsFiniteSet(B) /\ (Cardinality(B) = Cardinality(V) <=> f \in Injection(V, B))
  BY <1>1, <1>2, FS_Surjection
<1> QED BY <1>1, <1>4, <1>5

\* The page of the entries from number f on is one of their lines, ...
Selected(f, G, B, E, Q) ==
    /\ Paged(B, E, Q) /\ Cardinality(E) = f
    /\ Cardinality(Q) = Cardinality(G) /\ Cardinality(G) \in Nat
    /\ f + Cardinality(G) >= Cardinality(Available) => B = E \cup Q
    /\ \A i \in 1..Cardinality(G) : \E r \in G : Place(r) = f + i - 1
    /\ \A r \in G : \E i \in 1..Cardinality(G) : Place(r) = f + i - 1

\* So it is.
LEMMA PageSelected ==
    ASSUME StoreInv, LinesInv, NEW V, V = Available, NEW f \in Nat, f <= Cardinality(V),
           NEW K, K = {r \in V : Place(r) < f},
           NEW G, G = {r \in V : Place(r) \in f..(f + PageSize - 1)},
           NEW B, B = {EntryLine(r) : r \in V}, NEW E, E = {EntryLine(r) : r \in K},
           NEW Q, Q = {EntryLine(r) : r \in G}
    PROVE  Selected(f, G, B, E, Q)
<1> PICK under : under = EntryOrder(V)
  OBVIOUS
<1>1. /\ V \subseteq References /\ IsFiniteSet(V) /\ Total(V, under)
      /\ \A r \in V : Place(r) = Cardinality(under[r])
      /\ \A x, r \in V : x \in under[r] <=> Earlier(EntryLine(x), EntryLine(r))
  <2>1. EntriesInOrder(V, under)
    BY EntriesOrdered
  <2> QED BY <2>1 DEF EntriesInOrder
<1>2. /\ K = {x \in V : Cardinality(under[x]) < f}
      /\ G = {x \in V : Cardinality(under[x]) \in f..(f + PageSize - 1)}
  BY <1>1
<1>3. /\ Cardinality(K) = f /\ Cardinality(G) \in Nat /\ Cardinality(G) <= PageSize /\ K \cap G = {}
      /\ V # K \cup G => Cardinality(G) = PageSize
      /\ f + Cardinality(G) >= Cardinality(V) => V = K \cup G
      /\ \A x \in K, y \in V \ K : x \in under[y]
      /\ \A x \in G, y \in V \ (K \cup G) : x \in under[y]
      /\ \A x \in G : \E i \in 1..Cardinality(G) : Cardinality(under[x]) = f + i - 1
      /\ \A i \in 1..Cardinality(G) : \E x \in G : Cardinality(under[x]) = f + i - 1
  <2>1. PageSize \in Nat
    BY PagesAssumption
  <2> PICK g \in Nat : g = PageSize
    BY <2>1
  <2>2. G = {x \in V : Cardinality(under[x]) \in f..(f + g - 1)}
    BY <1>2
  <2>3. Numbered(V, under, f, g, K, G)
    BY <1>1, <1>2, <2>2, RankedPage
  <2> QED BY <2>3 DEF Numbered
<1>4. \A q, r \in V : EntryLine(q) = EntryLine(r) => q = r
  BY <1>1, EntriesAre
<1>5. K \subseteq V /\ G \subseteq V
  OBVIOUS
<1>6. Cardinality(E) = f /\ Cardinality(Q) = Cardinality(G)
  <2>1. K \subseteq References /\ G \subseteq References
    BY <1>1, <1>5
  <2> QED BY <1>3, <2>1, ManyLines
<1>7. E \subseteq B /\ Q \subseteq B /\ E \cap Q = {}
  BY <1>3, <1>4, <1>5
<1>8. V = K \cup G => B = E \cup Q
  OBVIOUS
<1>9. B # E \cup Q => Cardinality(Q) = PageSize
  BY <1>3, <1>6, <1>8
<1>10. ASSUME NEW x \in E, NEW y \in B \ E PROVE Earlier(x, y)
  <2> PICK a \in K : x = EntryLine(a)
    OBVIOUS
  <2> PICK b \in V : y = EntryLine(b)
    OBVIOUS
  <2>1. b \in V \ K /\ a \in V
    BY <1>5
  <2>2. a \in under[b]
    BY <1>3, <2>1
  <2> QED BY <1>1, <2>1, <2>2
<1>11. ASSUME NEW x \in Q, NEW y \in B \ (E \cup Q) PROVE Earlier(x, y)
  <2> PICK a \in G : x = EntryLine(a)
    OBVIOUS
  <2> PICK b \in V : y = EntryLine(b)
    OBVIOUS
  <2>1. b \in V \ (K \cup G) /\ a \in V
    BY <1>5
  <2>2. a \in under[b]
    BY <1>3, <2>1
  <2> QED BY <1>1, <2>1, <2>2
<1>12. Paged(B, E, Q)
  <2>1. Q \subseteq B \ E
    BY <1>7
  <2> QED BY <1>3, <1>6, <1>7, <1>9, <1>10, <1>11, <2>1 DEF Paged
<1>13. \A r \in G : Place(r) = Cardinality(under[r])
  BY <1>1, <1>5
<1>14. /\ \A i \in 1..Cardinality(G) : \E r \in G : Place(r) = f + i - 1
       /\ \A r \in G : \E i \in 1..Cardinality(G) : Place(r) = f + i - 1
  BY <1>3, <1>13, SMTT(30)
<1>15. f + Cardinality(G) >= Cardinality(V) => B = E \cup Q
  BY <1>3, <1>8
<1>16. V = Available /\ Cardinality(G) \in Nat
  BY <1>3
<1> QED BY <1>6, <1>12, <1>14, <1>15, <1>16 DEF Selected

\* ... and its entries, by their numbers, are in the order of their lines.
EntryList(l, G) ==
    /\ l \in Seq(IndexEntries) /\ Len(l) = Cardinality(G)
    /\ \A i \in 1..Len(l) : l[i] \in G
    /\ \A r \in G : \E i \in 1..Len(l) : l[i] = r
    /\ \A i, j \in 1..Len(l) : i < j => Earlier(EntryLine(l[i]), EntryLine(l[j]))

\* So they are listed.
LEMMA EntriesListed ==
    ASSUME StoreInv, LinesInv, NEW V, V = Available, NEW f \in Nat, f <= Cardinality(V),
           NEW G, G = {r \in V : Place(r) \in f..(f + PageSize - 1)},
           NEW l, l = [i \in 1..Cardinality(G) |-> CHOOSE r \in G : Place(r) = f + i - 1]
    PROVE  EntryList(l, G)
<1> PICK c : c = Cardinality(G)
  OBVIOUS
<1> PICK under : under = EntryOrder(V)
  OBVIOUS
<1>1. /\ V \subseteq References /\ IsFiniteSet(V) /\ Total(V, under)
      /\ \A r \in V : Place(r) = Cardinality(under[r])
      /\ \A x, r \in V : x \in under[r] <=> Earlier(EntryLine(x), EntryLine(r))
  <2>1. EntriesInOrder(V, under)
    BY EntriesOrdered
  <2> QED BY <2>1 DEF EntriesInOrder
<1>2. /\ c \in Nat
      /\ \A i \in 1..c : \E r \in G : Place(r) = f + i - 1
      /\ \A r \in G : \E i \in 1..c : Place(r) = f + i - 1
  <2> PICK K : K = {r \in V : Place(r) < f}
    OBVIOUS
  <2> PICK B : B = {EntryLine(r) : r \in V}
    OBVIOUS
  <2> PICK E : E = {EntryLine(r) : r \in K}
    OBVIOUS
  <2> PICK Q : Q = {EntryLine(r) : r \in G}
    OBVIOUS
  <2>1. Selected(f, G, B, E, Q)
    BY PageSelected
  <2> QED BY <2>1 DEF Selected
<1>3. \A i \in 1..c : l[i] \in G /\ Place(l[i]) = f + i - 1
  <2> TAKE i \in 1..c
  <2>1. \E r \in G : Place(r) = f + i - 1
    BY <1>2
  <2>2. l[i] = CHOOSE r \in G : Place(r) = f + i - 1
    OBVIOUS
  <2> QED BY <2>1, <2>2
<1>4. G \subseteq V /\ G \subseteq IndexEntries
  BY <1>1, EntriesAre
<1>5. l \in [1..c -> IndexEntries]
  <2>1. \A i \in 1..c : l[i] \in IndexEntries
    BY <1>3, <1>4
  <2>2. l = [i \in 1..c |-> l[i]]
    OBVIOUS
  <2> QED BY <2>1, <2>2
<1>6. l \in Seq(IndexEntries) /\ Len(l) = c
  <2>1. \A T, s : \A m \in Nat : s \in [1..m -> T] => s \in Seq(T) /\ Len(s) = m
    BY FunctionSequence
  <2> QED BY <1>2, <1>5, <2>1, Zenon
<1>7. /\ \A x, y \in V : Cardinality(under[x]) = Cardinality(under[y]) => x = y
      /\ \A x, y \in V : x \in under[y] => Cardinality(under[x]) <= Cardinality(under[y])
      /\ \A x \in V : Cardinality(under[x]) \in Int
  <2>1. /\ Cardinality(V) \in Nat
        /\ \A x \in V : Cardinality(under[x]) \in 0..Cardinality(V) - 1
        /\ \A x, y \in V : Cardinality(under[x]) = Cardinality(under[y]) => x = y
        /\ \A x, y \in V : x \in under[y] => Cardinality(under[x]) <= Cardinality(under[y])
    BY <1>1, Ranked
  <2> QED BY <2>1
<1>8. ASSUME NEW r \in G PROVE \E i \in 1..c : l[i] = r
  <2> PICK i \in 1..c : Place(r) = f + i - 1
    BY <1>2
  <2>1. Place(l[i]) = Place(r) /\ l[i] \in V /\ r \in V
    BY <1>3, <1>4
  <2>2. l[i] = r
    BY <1>1, <1>7, <2>1
  <2> QED BY <2>2
<1>9. ASSUME NEW i \in 1..c, NEW j \in 1..c, i < j PROVE Earlier(EntryLine(l[i]), EntryLine(l[j]))
  <2> PICK x \in V : x = l[i]
    BY <1>3, <1>4
  <2> PICK y \in V : y = l[j]
    BY <1>3, <1>4
  <2>1. Cardinality(under[x]) = f + i - 1 /\ Cardinality(under[y]) = f + j - 1
    BY <1>1, <1>3
  <2>2. ~(Cardinality(under[y]) <= Cardinality(under[x])) /\ x # y
    BY <1>2, <1>9, <2>1
  <2>3. y \notin under[x]
    BY <1>7, <2>2
  <2>4. x \in under[y]
    BY <1>1, <2>2, <2>3 DEF Total
  <2> QED BY <1>1, <2>4
<1> QED BY <1>3, <1>6, <1>8, <1>9 DEF EntryList

\* What there is where the files that were looked at are long enough is what a request
\* is to find: there is nothing in it that the answer before could have had and has not.
LEMMA AvailableFound ==
    ASSUME StoreInv, LinesInv, Unchecked = {}, top \in Nat,
           NEW A, Sized(A), NEW V, V = Available, NEW B, B = {EntryLine(r) : r \in V}
    PROVE  /\ Finds(B, top)
           /\ answer.kind # "none" => \A x \in B : x.id <= answer.top => x \in A
           /\ \A r \in V : r \in IndexEntries /\ \E p \in Positions : r = Reference(p)
<1>1. /\ \A r \in References :
             \E p \in Positions : r = Reference(p) /\ EntryLine(r) = At(p) /\ At(p).id <= top
      /\ \A r \in References : r \in IndexEntries
      /\ \A p \in Positions : At(p).id <= top =>
             Reference(p) \in References /\ EntryLine(Reference(p)) = At(p)
  BY EntriesAre
<1>2. \A p : Reference(p)[3] = SegmentOf(p) /\ Reference(p)[4] = p[4]
  BY DEF Reference
<1>3. \A p \in Positions : At(p).id <= top => SegmentOf(p) \in DOMAIN fileSizes
  BY <1>1, <1>2 DEF Unchecked
<1>4. \A p \in Positions : At(p).id <= top => (Reference(p) \in V <=> p[4] <= fileSizes[SegmentOf(p)])
  BY <1>1, <1>2 DEF Available
<1>5. V \subseteq References
  BY DEF Available
<1>6. ASSUME NEW x \in B
      PROVE  \E p \in Positions : x = At(p) /\ At(p).id <= top /\ p[4] <= fileSizes[SegmentOf(p)]
  <2> PICK r \in V : x = EntryLine(r)
    OBVIOUS
  <2>1. r \in References
    BY <1>5
  <2> PICK p \in Positions : r = Reference(p) /\ EntryLine(r) = At(p) /\ At(p).id <= top
    BY <1>1, <2>1
  <2> QED BY <1>4
<1>7. B \subseteq LinesAt(Positions) /\ \A x \in B : x.id <= top
  BY <1>6 DEF LinesAt
<1>8. ASSUME NEW x \in There(top) PROVE x \in B
  <2> PICK p \in Stored : x = At(p) /\ At(p).id <= top
    BY DEF There, LinesAt
  <2>1. p \in Positions
    BY DEF Stored
  <2>2. p[4] <= fileSizes[SegmentOf(p)]
    BY <1>3, <2>1 DEF Sized
  <2> QED BY <1>1, <1>4, <2>1, <2>2
<1>9. answer.kind # "none" => \A x \in B : x.id <= answer.top => x \in A
  <2> SUFFICES ASSUME answer.kind # "none", NEW x \in B, x.id <= answer.top PROVE x \in A
    OBVIOUS
  <2> PICK p \in Positions : x = At(p) /\ At(p).id <= top /\ p[4] <= fileSizes[SegmentOf(p)]
    BY <1>6
  <2> QED BY <1>3 DEF Sized
<1> QED BY <1>1, <1>5, <1>7, <1>8, <1>9 DEF Finds

\* The number that a page is asked for to start with.
AskedNumber == IF Token = None THEN 0 ELSE Token[2]

FirstNumber(total) == IF kind = "last" THEN Greater(0, total - PageSize) ELSE AskedNumber

\* It is that after the answer's page, or of a page before it.
LEMMA NumberAsked ==
    ASSUME StoreInv, LinesInv, NEW A, NEW D, NEW P, AnswerFound(A, D, P), RequestFound(A, D, P),
           pc = "stat", NEW total \in Nat, ~(AskedNumber > total)
    PROVE  /\ FirstNumber(total) \in Nat /\ FirstNumber(total) <= total
           /\ \A E : Cardinality(E) = FirstNumber(total) => Placed(kind, D, P, E)
<1>1. /\ kind \in IndexKinds
      /\ kind \in {"next", "prev"} => answer.kind # "none" /\ Token # None
  BY DEF RequestFound
<1>2. PageSize \in Nat
  BY PagesAssumption
<1>3. \A t, s \in Nat : Greater(0, t - s) \in Nat /\ Greater(0, t - s) <= t
  BY DEF Greater
<1>4. CASE kind \in {"next", "prev"}
  <2> PICK T : T = Set(answer.lines)
    OBVIOUS
  <2>1. /\ View(A, D, P, T, answer.top)
        /\ NextNumber(A, D, P, answer.next) /\ PrevNumber(D, answer.prev)
    BY <1>1, <1>4 DEF AnswerFound
  <2>2. Parts(A, D, P, T, answer.top)
    BY <2>1, ViewParts
  <2>3. Cardinality(D) \in Nat /\ Cardinality(P) \in Nat
    BY <2>2 DEF Parts
  <2>4. FirstNumber(total) = Token[2] /\ AskedNumber = Token[2]
    BY <1>1, <1>4 DEF FirstNumber, AskedNumber
  <2>5. CASE kind = "next"
    <3>1. Token = answer.next
      BY <2>5 DEF Token
    <3>2. Token[2] = Cardinality(D) + Cardinality(P)
      BY <1>1, <1>4, <2>1, <3>1 DEF NextNumber
    <3>3. Token[2] \in Nat /\ Token[2] <= total
      <4>1. Token[2] \in Nat
        BY <2>3, <3>2
      <4> QED BY <2>4, <4>1
    <3>4. \A E : Cardinality(E) = FirstNumber(total) => Placed(kind, D, P, E)
      BY <2>4, <2>5, <3>2 DEF Placed
    <3> QED BY <2>4, <3>3, <3>4
  <2>6. CASE kind = "prev"
    <3>1. Token = answer.prev
      BY <2>6 DEF Token
    <3>2. Token[2] = Greater(0, Cardinality(D) - PageSize)
      BY <1>1, <1>4, <2>1, <3>1 DEF PrevNumber
    <3>3. Token[2] \in Nat /\ Token[2] <= total
      <4>1. Token[2] \in Nat
        BY <1>2, <1>3, <2>3, <3>2
      <4> QED BY <2>4, <4>1
    <3>4. \A E : Cardinality(E) = FirstNumber(total) => Placed(kind, D, P, E)
      BY <2>4, <2>6, <3>2 DEF Placed
    <3> QED BY <2>4, <3>3, <3>4
  <2> QED BY <1>4, <2>5, <2>6
<1>5. CASE kind \notin {"next", "prev"}
  <2>1. Token = None /\ AskedNumber = 0
    <3>1. Token = None
      BY <1>5 DEF Token
    <3> QED BY <3>1 DEF AskedNumber
  <2>2. FirstNumber(total) \in Nat /\ FirstNumber(total) <= total
    BY <1>2, <1>3, <2>1 DEF FirstNumber
  <2>3. \A E : Placed(kind, D, P, E)
    BY <1>5 DEF Placed
  <2> QED BY <2>2, <2>3
<1> QED BY <1>4, <1>5

\* The page is selected.
LEMMA SelectPageKeeps ==
    ASSUME Indexing, SelectPage, NEW A, NEW D, NEW P, AnswerFound(A, D, P), RequestFound(A, D, P)
    PROVE  AnswerFound(A, D, P)' /\ RequestFound(A, D, P)'
<1> PICK V : V = Available
  OBVIOUS
<1> PICK total : total = Cardinality(V)
  OBVIOUS
<1> PICK f : f = FirstNumber(total)
  OBVIOUS
<1> PICK G : G = {r \in V : Place(r) \in f..(f + PageSize - 1)}
  OBVIOUS
<1>1. /\ pc = "stat" /\ Unchecked = {} /\ UNCHANGED answer
      /\ IF AskedNumber > total THEN Err /\ fileSizes' = <<>> /\ UNCHANGED entries ELSE
           /\ pc' = "entry" /\ start' = <<f>>
           /\ at' = IF f + Cardinality(G) < total THEN <<"number", f + Cardinality(G)>> ELSE None
           /\ entries' = [i \in 1..Cardinality(G) |-> CHOOSE r \in G : Place(r) = f + i - 1]
           /\ UNCHANGED <<kind, top, chunks, scan, lines, heap, matching, answer, asks, fileSizes>>
  BY DEF SelectPage, AskedNumber, FirstNumber, Err
<1>2. /\ StoreInv /\ LinesInv /\ NoneMadeAgain /\ span = <<1, MaxTime>>
      /\ Moves /\ written' = written /\ Positions' = Positions /\ Stored' = Stored
      /\ (\A p : At(p)' = At(p)) /\ LinesAt(Positions)' = LinesAt(Positions)
  BY IndexStill DEF Indexing
<1>3. AnswerFound(A, D, P)'
  BY <1>1, <1>2, AnswerStaysFound
<1>4. /\ FirstLines <= written /\ lines = <<>> /\ top \in Nat /\ FirstLines <= top /\ top <= written
      /\ kind \in IndexKinds /\ (answer.kind # "none" => answer.top <= top)
      /\ kind \in {"next", "prev"} => answer.kind # "none" /\ Token # None
      /\ Sized(A)
  BY <1>1 DEF RequestFound
<1>5. CASE AskedNumber > total
  <2>1. pc' = "idle" /\ fileSizes' = <<>> /\ lines' = <<>>
    BY <1>1, <1>5 DEF Err, Idle
  <2> QED BY <1>2, <1>3, <1>4, <2>1 DEF RequestFound
<1>6. CASE ~(AskedNumber > total)
  <2> PICK K : K = {r \in V : Place(r) < f}
    OBVIOUS
  <2> PICK B : B = {EntryLine(r) : r \in V}
    OBVIOUS
  <2> PICK E : E = {EntryLine(r) : r \in K}
    OBVIOUS
  <2> PICK Q : Q = {EntryLine(r) : r \in G}
    OBVIOUS
  <2>1. /\ Finds(B, top)
        /\ answer.kind # "none" => \A x \in B : x.id <= answer.top => x \in A
        /\ \A r \in V : r \in IndexEntries /\ \E p \in Positions : r = Reference(p)
    BY <1>1, <1>2, <1>4, AvailableFound
  <2>2. total \in Nat
    <3>1. V \subseteq References
      BY DEF Available
    <3> QED BY <1>2, <3>1, EntriesAre, FS_Subset, FS_CardinalityType
  <2>3. f \in Nat /\ f <= total /\ \A X : Cardinality(X) = f => Placed(kind, D, P, X)
    BY <1>1, <1>2, <1>6, <2>2, NumberAsked
  <2>4. Selected(f, G, B, E, Q)
    BY <1>2, <2>3, PageSelected
  <2>5. /\ Paged(B, E, Q) /\ Cardinality(E) = f
        /\ Cardinality(Q) = Cardinality(G) /\ Cardinality(G) \in Nat
        /\ f + Cardinality(G) >= total => B = E \cup Q
    BY <2>4 DEF Selected
  <2>6. /\ pc' = "entry" /\ start' = <<f>> /\ UNCHANGED <<kind, top, lines>>
        /\ at' = IF f + Cardinality(G) < total THEN <<"number", f + Cardinality(G)>> ELSE None
        /\ entries' = [i \in 1..Cardinality(G) |-> CHOOSE r \in G : Place(r) = f + i - 1]
    BY <1>1, <1>6
  <2>7. NextNumber(B, E, Q, at')
    <3>1. CASE f + Cardinality(G) < total
      <4>1. at' = <<"number", f + Cardinality(G)>> /\ at' # None
        BY <2>6, <3>1 DEF None
      <4>2. at'[2] = Cardinality(E) + Cardinality(Q)
        BY <2>5, <4>1
      <4> QED BY <4>1, <4>2 DEF NextNumber
    <3>2. CASE ~(f + Cardinality(G) < total)
      <4>1. at' = None
        BY <2>6, <3>2
      <4>2. B = E \cup Q
        BY <2>2, <2>3, <2>5, <3>2
      <4> QED BY <4>1, <4>2 DEF NextNumber
    <3> QED BY <3>1, <3>2
  <2>8. ReadingEntries(Q, top)'
    <3> PICK l : l = entries'
      OBVIOUS
    <3>1. /\ l \in Seq(IndexEntries) /\ Len(l) = Cardinality(G)
          /\ \A i \in 1..Len(l) : l[i] \in G
          /\ \A r \in G : \E i \in 1..Len(l) : l[i] = r
          /\ \A i, j \in 1..Len(l) : i < j => Earlier(EntryLine(l[i]), EntryLine(l[j]))
      <4>1. EntryList(l, G)
        BY <1>2, <2>3, <2>6, EntriesListed
      <4> QED BY <4>1 DEF EntryList
    <3>2. lines' = <<>> /\ lines' \in Seq(Entries) /\ Set(lines)' = {} /\ Rising(lines)'
      BY <1>4, <2>6 DEF Set, Rising
    <3>3. \A i \in 1..Len(l) : EntryLine(l[i]) \in Q
      BY <3>1
    <3>4. \A i \in 1..Len(l) : \E p \in Positions' : l[i] = Reference(p)'
      <4>1. \A p : Reference(p)' = Reference(p)
        BY <1>2 DEF Reference, SegmentOf
      <4> QED BY <1>2, <2>1, <3>1, <4>1
    <3>5. \A x \in Q : \E i \in 1..Len(l) : EntryLine(l[i]) = x
      BY <3>1
    <3> QED BY <3>1, <3>2, <3>3, <3>4, <3>5 DEF ReadingEntries, EntryLine
  <2>9. PageFound(A, D, P, B, E, Q)'
    <3>1. Finds(B, top)'
      <4> PICK n \in Nat : n = top
        BY <1>4
      <4> QED BY <1>2, <1>4, <2>1, <2>6, FindsStay
    <3>2. answer'.kind # "none" => Later(A, answer'.top, B, top')
      <4>1. answer.kind # "none" => FirstLines <= answer.top /\ answer.top <= top
        BY <1>4 DEF AnswerFound
      <4> QED BY <1>1, <2>1, <2>6, <4>1 DEF Later
    <3>3. Placed(kind', D, P, E) /\ start'[1] = Cardinality(E)
      BY <2>3, <2>5, <2>6
    <3> QED BY <2>5, <2>7, <2>8, <3>1, <3>2, <3>3 DEF PageFound
  <2>10. B \in SUBSET LinesAt(Positions)' /\ E \in SUBSET B /\ Q \in SUBSET B
    BY <1>2, <2>1 DEF Finds
  <2>11. Token' = Token
    <3>1. UNCHANGED <<kind, answer>>
      BY <1>1, <2>6
    <3> QED BY <3>1 DEF Token
  <2>12. \E X, Y, Z \in SUBSET LinesAt(Positions)' : PageFound(A, D, P, X, Y, Z)'
    BY <2>9, <2>10
  <2> QED BY <1>1, <1>2, <1>3, <1>4, <2>6, <2>11, <2>12 DEF RequestFound
<1> QED BY <1>5, <1>6

\* The head of a sequence and the rest of it, and what is appended to it.
Rest(s, t) ==
    /\ 1 \in 1..Len(s) /\ Head(s) = s[1]
    /\ \A i \in 1..Len(t) : i + 1 \in 1..Len(s) /\ t[i] = s[i + 1]
    /\ \A j \in 1..Len(s) : j = 1 \/ \E i \in 1..Len(t) : t[i] = s[j]

Appended(s, x, t) ==
    /\ Set(t) = Set(s) \cup {x}
    /\ \A i, j \in 1..Len(t) : i < j =>
          /\ i \in 1..Len(s)
          /\ t[i] = s[i] /\ ((j \in 1..Len(s) /\ t[j] = s[j]) \/ t[j] = x)

\* The head comes first, and what is appended last.
LEMMA RestOf ==
    ASSUME NEW T, NEW s \in Seq(T), s # <<>>
    PROVE  Tail(s) \in Seq(T) /\ Rest(s, Tail(s))
<1> PICK t : t = Tail(s)
  OBVIOUS
<1>1. /\ Len(s) \in Nat /\ Len(s) # 0 /\ Head(s) = s[1] /\ t \in Seq(T)
      /\ Len(t) = Len(s) - 1 /\ \A i \in 1..Len(t) : t[i] = s[i + 1]
  <2>1. Len(s) \in Nat /\ Len(s) # 0 /\ Head(s) = s[1]
    OBVIOUS
  <2>2. t \in Seq(T) /\ Len(t) = Len(s) - 1
    BY <2>1
  <2>3. \A i \in 1..Len(t) : t[i] = s[i + 1]
    BY <2>1, <2>2
  <2> QED BY <2>1, <2>2, <2>3
<1>2. \A i \in 1..Len(t) : i + 1 \in 1..Len(s)
  BY <1>1
<1>3. \A j \in 1..Len(s) : j = 1 \/ \E i \in 1..Len(t) : t[i] = s[j]
  <2> TAKE j \in 1..Len(s)
  <2>1. j # 1 => j - 1 \in 1..Len(t) /\ t[j - 1] = s[j]
    BY <1>1
  <2> QED BY <2>1
<1> QED BY <1>1, <1>2, <1>3 DEF Rest

\* A line that is read is one more of those that have been.
LEMMA OneMore ==
    ASSUME NEW T, NEW s \in Seq(T), NEW x \in T
    PROVE  Append(s, x) \in Seq(T) /\ Appended(s, x, Append(s, x))
<1> PICK t : t = Append(s, x)
  OBVIOUS
<1>1. /\ Len(s) \in Nat /\ Len(t) = Len(s) + 1 /\ t \in Seq(T)
      /\ DOMAIN t = 1..(Len(s) + 1) /\ DOMAIN s = 1..Len(s)
      /\ (\A i \in 1..Len(s) : t[i] = s[i]) /\ t[Len(s) + 1] = x
  OBVIOUS
<1>2. Set(t) = Set(s) \cup {x}
  <2>1. \A i \in DOMAIN t : i \in DOMAIN s \/ i = Len(s) + 1
    BY <1>1
  <2>2. DOMAIN s \subseteq DOMAIN t /\ Len(s) + 1 \in DOMAIN t
    BY <1>1
  <2> QED BY <1>1, <2>1, <2>2 DEF Set
<1>3. ASSUME NEW i \in 1..Len(t), NEW j \in 1..Len(t), i < j
      PROVE  /\ i \in 1..Len(s)
             /\ t[i] = s[i] /\ ((j \in 1..Len(s) /\ t[j] = s[j]) \/ t[j] = x)
  <2>1. i \in 1..Len(s) /\ (j \in 1..Len(s) \/ j = Len(s) + 1)
    BY <1>1, <1>3, SMTT(30)
  <2> QED BY <1>1, <2>1, SMTT(30)
<1> QED BY <1>1, <1>2, <1>3 DEF Appended

\* A line is read, or has gone.
LEMMA ReadingGoesOn ==
    ASSUME StoreInv, LinesInv, NoneMadeAgain, ReadEntry, NEW P, NEW n, ReadingEntries(P, n),
           UNCHANGED <<seg, data>>, P \subseteq LinesAt(Positions)
    PROVE  ReadingEntries(P, n)'
<1> PICK e : e = entries
  OBVIOUS
<1> PICK t : t = Tail(e)
  OBVIOUS
<1> PICK r : r = Head(e)
  OBVIOUS
<1> PICK x : x = EntryLine(r)
  OBVIOUS
<1>1. /\ e # <<>> /\ entries' = t
      /\ lines' = IF r[3] \in DOMAIN seg /\ r[4] <= Len(Content(r[3]))
                  THEN Append(lines, Content(r[3])[r[4]]) ELSE lines
  BY DEF ReadEntry
<1>2. /\ lines \in Seq(Entries) /\ Rising(lines) /\ Set(lines) \subseteq P
      /\ e \in Seq(IndexEntries)
      /\ \A i \in 1..Len(e) : /\ EntryLine(e[i]) \in P
                              /\ \E p \in Positions : e[i] = Reference(p)
                              /\ \A y \in Set(lines) : Earlier(y, EntryLine(e[i]))
      /\ \A i, j \in 1..Len(e) : i < j => Earlier(EntryLine(e[i]), EntryLine(e[j]))
      /\ \A y \in P \cap There(n) :
            y \in Set(lines) \/ \E i \in 1..Len(e) : EntryLine(e[i]) = y
  BY DEF ReadingEntries
<1>3. /\ 1 \in 1..Len(e) /\ r = e[1] /\ t \in Seq(IndexEntries)
      /\ \A i \in 1..Len(t) : i + 1 \in 1..Len(e) /\ t[i] = e[i + 1]
      /\ \A j \in 1..Len(e) : j = 1 \/ \E i \in 1..Len(t) : t[i] = e[j]
  <2>1. t \in Seq(IndexEntries) /\ Rest(e, t)
    BY <1>1, <1>2, RestOf
  <2> QED BY <2>1 DEF Rest
<1>4. PICK p \in Positions : r = Reference(p)
  BY <1>2, <1>3
<1> PICK s : s = SegmentOf(p)
  OBVIOUS
<1>5. /\ Positions' = Positions /\ Stored' = Stored /\ There(n)' = There(n)
      /\ \A q : Reference(q)' = Reference(q)
  BY DEF Positions, Stored, There, LinesAt, At, Reference, SegmentOf
<1>6. r[3] = s /\ r[4] = p[4] /\ x = At(p) /\ x \in Entries
  <2>1. At(p) \in Entries
    BY PlaceHas DEF Entries
  <2>2. At(p) = [id |-> At(p).id, ts |-> At(p).ts]
    BY <2>1 DEF Entries
  <2>3. x = At(p)
    BY <1>4, <2>2 DEF EntryLine, Reference
  <2> QED BY <1>4, <2>1, <2>3 DEF Reference
<1>7. /\ x \in P /\ \A y \in Set(lines) : Earlier(y, x)
      /\ \A i \in 1..Len(t) : Earlier(x, EntryLine(t[i]))
  <2>1. \A i \in 1..Len(t) : 1 < i + 1
    OBVIOUS
  <2> QED BY <1>2, <1>3, <2>1
<1>8. /\ lines' \in Seq(Entries) /\ Rising(lines')
      /\ Set(lines') \subseteq Set(lines) \cup {x} /\ Set(lines) \subseteq Set(lines')
      /\ x \in There(n) => x \in Set(lines')
  <2>1. CASE s \in DOMAIN seg
    <3>1. /\ p[4] \in 1..Len(Content(s)) /\ Content(s)[p[4]] = At(p) /\ Len(Content(s)) \in Nat
          /\ p[4] \in Nat
      BY <2>1, SizeIs
    <3>2. lines' = Append(lines, x)
      BY <1>1, <1>6, <2>1, <3>1
    <3> PICK l : l = lines'
      OBVIOUS
    <3>3. /\ l \in Seq(Entries) /\ Set(l) = Set(lines) \cup {x}
          /\ \A i, j \in 1..Len(l) : i < j =>
                /\ i \in 1..Len(lines)
                /\ l[i] = lines[i] /\ ((j \in 1..Len(lines) /\ l[j] = lines[j]) \/ l[j] = x)
      <4>1. l \in Seq(Entries) /\ Appended(lines, x, l)
        BY <1>2, <1>6, <3>2, OneMore
      <4> QED BY <4>1 DEF Appended
    <3>4. \A i \in 1..Len(lines) : lines[i] \in Set(lines)
      <4>1. DOMAIN lines = 1..Len(lines)
        BY <1>2
      <4> QED BY <4>1 DEF Set
    <3>5. Rising(l)
      <4> SUFFICES ASSUME NEW i \in 1..Len(l), NEW j \in 1..Len(l), i < j
                   PROVE  Earlier(l[i], l[j])
        BY DEF Rising
      <4>1. /\ i \in 1..Len(lines) /\ l[i] = lines[i]
            /\ (j \in 1..Len(lines) /\ l[j] = lines[j]) \/ l[j] = x
        BY <3>3
      <4> QED BY <1>2, <1>7, <3>4, <4>1 DEF Rising
    <3> QED BY <3>3, <3>5
  <2>2. CASE s \notin DOMAIN seg
    <3>1. lines' = lines
      BY <1>1, <1>6, <2>2
    <3>2. x \notin There(n)
      <4> SUFFICES ASSUME x \in There(n) PROVE FALSE
        OBVIOUS
      <4> PICK q \in Stored : x = At(q)
        BY DEF There, LinesAt
      <4>1. q \in Positions /\ SegmentOf(q) \in DOMAIN seg
        BY DEF Stored, SegmentOf
      <4>2. q = p
        BY <1>6, <4>1, OnePlace
      <4> QED BY <2>2, <4>1, <4>2
    <3> QED BY <1>2, <3>1, <3>2
  <2> QED BY <2>1, <2>2
<1>9. Set(lines') \subseteq P
  BY <1>2, <1>7, <1>8
<1>10. \A i \in 1..Len(t) :
           /\ EntryLine(t[i]) \in P
           /\ \E q \in Positions' : t[i] = Reference(q)'
           /\ \A y \in Set(lines') : Earlier(y, EntryLine(t[i]))
  <2> TAKE i \in 1..Len(t)
  <2>1. /\ EntryLine(t[i]) \in P /\ \E q \in Positions : t[i] = Reference(q)
        /\ \A y \in Set(lines) : Earlier(y, EntryLine(t[i]))
        /\ Earlier(x, EntryLine(t[i]))
    <3> PICK j \in 1..Len(e) : t[i] = e[j]
      BY <1>3
    <3> QED BY <1>2, <1>7
  <2>2. \E q \in Positions' : t[i] = Reference(q)'
    BY <1>5, <2>1
  <2> QED BY <1>8, <2>1, <2>2
<1>11. \A i, j \in 1..Len(t) : i < j => Earlier(EntryLine(t[i]), EntryLine(t[j]))
  <2> SUFFICES ASSUME NEW i \in 1..Len(t), NEW j \in 1..Len(t), i < j
               PROVE  Earlier(EntryLine(t[i]), EntryLine(t[j]))
    OBVIOUS
  <2>1. i + 1 < j + 1
    OBVIOUS
  <2> QED BY <1>2, <1>3, <2>1, ZenonT(40)
<1>12. \A y \in P \cap There(n)' :
           y \in Set(lines') \/ \E i \in 1..Len(t) : EntryLine(t[i]) = y
  <2> TAKE y \in P \cap There(n)'
  <2>1. y \in There(n) /\ (y \in Set(lines) \/ \E j \in 1..Len(e) : EntryLine(e[j]) = y)
    BY <1>2, <1>5
  <2> QED BY <1>3, <1>8, <2>1
<1>13. Set(lines)' = Set(lines') /\ Rising(lines)' = Rising(lines')
  BY DEF Set, Rising
<1> QED BY <1>1, <1>3, <1>8, <1>9, <1>10, <1>11, <1>12, <1>13 DEF ReadingEntries, EntryLine

\* A line of the page is read.
LEMMA ReadEntryKeeps ==
    ASSUME Indexing, ReadEntry, NEW A, NEW D, NEW P, AnswerFound(A, D, P), RequestFound(A, D, P)
    PROVE  AnswerFound(A, D, P)' /\ RequestFound(A, D, P)'
<1>1. /\ pc = "entry" /\ UNCHANGED <<pc, kind, top, start, at, answer, fileSizes>>
  BY DEF ReadEntry
<1>2. /\ StoreInv /\ LinesInv /\ NoneMadeAgain /\ span = <<1, MaxTime>>
      /\ Moves /\ UNCHANGED <<seg, data, written>> /\ LinesAt(Positions)' = LinesAt(Positions)
      /\ Positions' = Positions
  BY IndexStill DEF Indexing
<1>3. AnswerFound(A, D, P)'
  BY <1>1, <1>2, AnswerStaysFound
<1>4. /\ FirstLines <= written /\ top \in Nat /\ FirstLines <= top /\ top <= written
      /\ kind \in IndexKinds /\ (answer.kind # "none" => answer.top <= top)
      /\ kind \in {"next", "prev"} => answer.kind # "none" /\ Token # None
  BY <1>1 DEF RequestFound
<1>5. PICK B, E, Q \in SUBSET LinesAt(Positions) : PageFound(A, D, P, B, E, Q)
  BY <1>1 DEF RequestFound
<1>6. ReadingEntries(Q, top)'
  <2> PICK n : n = top
    OBVIOUS
  <2>1. ReadingEntries(Q, n)'
    BY <1>2, <1>5, ReadingGoesOn DEF PageFound
  <2> QED BY <1>1, <2>1
<1>7. Finds(B, top)'
  <2> PICK n \in Nat : n = top
    BY <1>4
  <2> QED BY <1>1, <1>2, <1>4, <1>5, FindsStay DEF PageFound
<1>8. /\ Paged(B, E, Q) /\ Placed(kind', D, P, E) /\ start'[1] = Cardinality(E)
      /\ NextNumber(B, E, Q, at') /\ (answer'.kind # "none" => Later(A, answer'.top, B, top'))
  BY <1>1, <1>5 DEF PageFound
<1>9. PageFound(A, D, P, B, E, Q)'
  BY <1>6, <1>7, <1>8 DEF PageFound
<1>10. \E X, Y, Z \in SUBSET LinesAt(Positions)' : PageFound(A, D, P, X, Y, Z)'
  BY <1>2, <1>5, <1>9
<1>11. Token' = Token
  BY <1>1 DEF Token
<1> QED BY <1>1, <1>2, <1>3, <1>4, <1>10, <1>11 DEF RequestFound

\* An answer is given.
LEMMA IndexAnswerKeeps ==
    ASSUME Indexing, IndexAnswer, NEW A, NEW D, NEW P, AnswerFound(A, D, P), RequestFound(A, D, P)
    PROVE  \E B, E, Q \in SUBSET LinesAt(Positions)' :
               AnswerFound(B, E, Q)' /\ RequestFound(B, E, Q)'
<1> PICK k : k = kind
  OBVIOUS
<1> PICK n : n = top
  OBVIOUS
<1> PICK L : L = lines
  OBVIOUS
<1> PICK F : F = answer.lines
  OBVIOUS
<1> PICK next : next = at
  OBVIOUS
<1> PICK prev : prev = IF start[1] > 0 THEN <<"number", Greater(0, start[1] - PageSize)>> ELSE None
  OBVIOUS
<1>1. /\ pc = "entry" /\ entries = <<>> /\ pc' = "idle" /\ fileSizes' = <<>> /\ lines' = <<>>
      /\ answer' = [kind |-> k, merged |-> TRUE, lines |-> L, next |-> next, prev |-> prev,
                    top |-> n, from |-> F]
  BY DEF IndexAnswer, Answer, Idle
<1>2. /\ StoreInv /\ LinesInv /\ NoneMadeAgain /\ span = <<1, MaxTime>>
      /\ Moves /\ written' = written /\ LinesAt(Positions)' = LinesAt(Positions)
  BY IndexStill DEF Indexing
<1>3. /\ FirstLines <= written /\ n \in Nat /\ FirstLines <= n /\ n <= written
      /\ k \in IndexKinds
      /\ k \in {"next", "prev"} => answer.kind # "none"
  BY <1>1 DEF RequestFound
<1>4. PICK B, E, Q \in SUBSET LinesAt(Positions) : PageFound(A, D, P, B, E, Q)
  BY <1>1 DEF RequestFound
<1>5. /\ Finds(B, n) /\ Paged(B, E, Q) /\ Placed(k, D, P, E)
      /\ start[1] = Cardinality(E) /\ NextNumber(B, E, Q, next)
      /\ answer.kind # "none" => Later(A, answer.top, B, n)
      /\ ReadingEntries(Q, n)
  BY <1>4 DEF PageFound
<1> PICK S : S = Set(L)
  OBVIOUS
<1> PICK T : T = Set(F)
  OBVIOUS
<1>6. L \in Seq(Entries) /\ Rising(L) /\ S \subseteq Q /\ Q \cap There(n) \subseteq S
  <2>1. \A i \in 1..Len(entries) : FALSE
    BY <1>1
  <2> QED BY <1>5, <2>1 DEF ReadingEntries
<1>7. View(B, E, Q, S, n)
  BY <1>3, <1>5, <1>6 DEF View, Shows
<1>8. PrevNumber(E, prev)
  <2>1. IsFiniteSet(E) /\ Cardinality(E) \in Nat
    BY <1>2, LinesAre
  <2>2. CASE Cardinality(E) > 0
    <3>1. prev = <<"number", Greater(0, Cardinality(E) - PageSize)>> /\ prev # None
      BY <1>5, <2>2 DEF None
    <3>2. prev[2] = Greater(0, Cardinality(E) - PageSize)
      BY <3>1
    <3> QED BY <3>1, <3>2 DEF PrevNumber
  <2>3. CASE ~(Cardinality(E) > 0)
    <3>1. prev = None
      BY <1>5, <2>3
    <3>2. Cardinality(E) = 0
      BY <2>1, <2>3
    <3>3. E = {}
      BY <2>1, <3>2, FS_EmptySet
    <3> QED BY <3>1, <3>3 DEF PrevNumber
  <2> QED BY <2>2, <2>3
<1>9. F \in Seq(Entries)
  <2>1. CASE answer.kind = "none"
    <3>1. F = <<>>
      BY <2>1 DEF AnswerFound, NoAnswer
    <3> QED BY <3>1
  <2>2. CASE answer.kind # "none"
    BY <2>2 DEF AnswerFound
  <2> QED BY <2>1, <2>2
<1>10. k \in {"next", "prev"} => Views(A, D, P, T, answer.top, B, E, Q, S, n)
  <2>1. SUFFICES ASSUME k \in {"next", "prev"} PROVE Views(A, D, P, T, answer.top, B, E, Q, S, n)
    OBVIOUS
  <2>2. View(A, D, P, T, answer.top)
    BY <1>3, <2>1 DEF AnswerFound
  <2> QED BY <1>3, <1>5, <1>7, <2>1, <2>2 DEF Views
<1>11. Promised(k, L, F, n, next, prev)
  <2>1. Unparted(S, n)
    BY <1>2, <1>7, PageUnparted
  <2>2. k = "next" => NextNear(S, T, n)
    <3>1. SUFFICES ASSUME k = "next" PROVE NextNear(S, T, n)
      OBVIOUS
    <3>2. Views(A, D, P, T, answer.top, B, E, Q, S, n) /\ Placed("next", D, P, E)
      BY <1>5, <1>10, <3>1
    <3> QED BY <1>2, <3>2, NextIsNear
  <2>3. k = "prev" => PrevNear(S, T, n)
    <3>1. SUFFICES ASSUME k = "prev" PROVE PrevNear(S, T, n)
      OBVIOUS
    <3>2. Views(A, D, P, T, answer.top, B, E, Q, S, n) /\ Placed("prev", D, P, E)
      BY <1>5, <1>10, <3>1
    <3> QED BY <1>2, <3>2, PrevIsNear
  <2>4. EndsNear(SeenOf(k, S, T), n, next, prev)
    BY <1>2, <1>5, <1>7, <1>8, <1>10, EndsAreNear
  <2> QED BY <1>6, <2>1, <2>2, <2>3, <2>4 DEF Promised
<1>12. View(B, E, Q, S, n)' /\ Promised(k, L, F, n, next, prev)'
  <2>1. Set(L) \subseteq LinesAt(Positions)
    BY <1>6
  <2> QED BY <1>2, <1>3, <1>7, <1>11, <2>1, ViewStays, PromisesStay
<1>13. AnswerFound(B, E, Q)'
  <2> PICK a : a = answer'
    OBVIOUS
  <2>1. /\ a.kind = k /\ a.lines = L /\ a.from = F /\ a.top = n /\ a.next = next /\ a.prev = prev
    BY <1>1
  <2>2. k # "none"
    BY <1>3 DEF IndexKinds
  <2>3. S = Set(L)'
    BY DEF Set
  <2>4. NextNumber(B, E, Q, next)' /\ PrevNumber(E, prev)'
    BY <1>5, <1>8 DEF NextNumber, PrevNumber
  <2>5. View(B, E, Q, Set(a.lines), a.top)'
    BY <1>12, <2>1, <2>3
  <2>6. Promised(a.kind, a.lines, a.from, a.top, a.next, a.prev)'
    BY <1>12, <2>1
  <2>7. /\ a.kind # "none" /\ a.kind \in IndexKinds
        /\ a.lines \in Seq(Entries) /\ a.from \in Seq(Entries)
        /\ FirstLines <= a.top /\ a.top <= written'
        /\ NextNumber(B, E, Q, a.next)' /\ PrevNumber(E, a.prev)'
    BY <1>2, <1>3, <1>6, <1>9, <2>1, <2>2, <2>4
  <2> QED BY <2>5, <2>6, <2>7 DEF AnswerFound
<1>14. RequestFound(B, E, Q)'
  BY <1>1, <1>2, <1>3 DEF RequestFound
<1> QED BY <1>2, <1>4, <1>13, <1>14

\* A step of a request.
LEMMA IndexPageStep ==
    ASSUME StoreInv, LinesInv, IndexInv, IndexPage
    PROVE  IndexInv'
<1>0. span' = <<1, MaxTime>>
  BY DEF IndexPage, IndexInv, readVars
<1> SUFFICES ASSUME NoneMadeAgain'
             PROVE  \E A, D, P \in SUBSET LinesAt(Positions)' :
                        AnswerFound(A, D, P)' /\ RequestFound(A, D, P)'
  BY <1>0 DEF IndexInv
<1>1. request = "index" /\ IndexNext /\ UNCHANGED <<storeVars, readVars>>
  BY DEF IndexPage
<1>2. Indexing /\ span' = span
  <2>1. NoneMadeAgain
    BY <1>1 DEF NoneMadeAgain, storeVars
  <2> QED BY <1>1, <2>1 DEF Indexing, IndexInv, readVars
<1>3. PICK A, D, P \in SUBSET LinesAt(Positions) : AnswerFound(A, D, P) /\ RequestFound(A, D, P)
  BY <1>1, <1>2 DEF IndexInv, Indexing
<1>4. CASE IndexAnswer
  BY <1>2, <1>3, <1>4, IndexAnswerKeeps DEF Indexing
<1>5. CASE ~IndexAnswer
  <2>1. (\E k \in IndexKinds : AskIndex(k)) \/ StatFile \/ SelectPage \/ ReadEntry
    BY <1>1, <1>5 DEF IndexNext, IndexKinds
  <2>2. AnswerFound(A, D, P)' /\ RequestFound(A, D, P)'
    BY <1>2, <1>3, <2>1, AskIndexKeeps, StatFileKeeps, SelectPageKeeps, ReadEntryKeeps
  <2>3. LinesAt(Positions)' = LinesAt(Positions)
    BY <1>2, IndexStill
  <2> QED BY <1>2, <1>3, <2>2, <2>3 DEF Indexing
<1> QED BY <1>4, <1>5

\* At first there is no answer and no request.
LEMMA IndexStarts == Init => IndexInv
<1> SUFFICES ASSUME Init, request = "index"
             PROVE  /\ span = <<1, MaxTime>>
                    /\ \E A, D, P \in SUBSET LinesAt(Positions) :
                          AnswerFound(A, D, P) /\ RequestFound(A, D, P)
  BY DEF IndexInv
<1>1. span = <<1, MaxTime>> /\ answer = NoAnswer /\ pc = "idle" /\ fileSizes = <<>> /\ lines = <<>>
  BY DEF Init, PagesInit, IndexInit
<1>2. FirstLines <= written
  BY StoreAssumption DEF Init, StoreInit
<1>3. AnswerFound({}, {}, {}) /\ RequestFound({}, {}, {})
  BY <1>1, <1>2 DEF AnswerFound, RequestFound, NoAnswer
<1> QED BY <1>1, <1>3

\* What a request of an index has found, what it was asked for and has read, and what
\* it was answered, whatever the store does while it runs and afterwards
\* (readReferencePageLocked of manager.go).
THEOREM IndexInvariant == Spec => []IndexInv
<1> DEFINE Inv == StoreInv /\ LinesInv /\ PagesInv
<1>1. Inv /\ Inv' /\ IndexInv /\ [Next]_vars => IndexInv'
  <2> SUFFICES ASSUME StoreInv, LinesInv, PagesInv, StoreInv', LinesInv', IndexInv, [Next]_vars
               PROVE  IndexInv'
    OBVIOUS
  <2>1. CASE Store
    <3>1. StoreNext /\ UNCHANGED <<request, span, pageVars, indexVars>>
      BY <2>1 DEF Store, readVars
    <3>2. Grows /\ \A x \in DOMAIN seg' \ DOMAIN seg : DOMAIN data'[<<x, seg'[x]>>] = {}
      BY <3>1, StoreMoves, LinesMove
    <3>3. Moves
      BY <3>1, <3>2 DEF Moves
    <3> QED BY <3>1, <3>3, IndexRests
  <2>2. CASE IndexPage
    BY <2>2, IndexPageStep
  <2>3. CASE Page
    BY <2>3 DEF IndexInv, Page, readVars
  <2>4. CASE Fetch \/ Find \/ Done \/ UNCHANGED vars
    <3>1. UNCHANGED <<storeVars, readVars, pageVars, indexVars>>
      BY <2>4 DEF Fetch, Find, Done, vars, readVars, IndexInv
    <3>2. Moves
      BY <3>1, StandsStill
    <3>3. request' = request
      BY <3>1 DEF readVars
    <3> QED BY <3>1, <3>2, <3>3, IndexRests
  <2> QED BY <2>1, <2>2, <2>3, <2>4 DEF Next
<1> HIDE DEF Inv
<1>2. Spec => []Inv
  BY PagesInvariant DEF Inv
<1> QED BY <1>1, <1>2, IndexStarts, PTL DEF Spec

\* There are no more places of lines than of lines, nor fewer.
LEMMA LinesCounted ==
    ASSUME StoreInv, LinesInv, NEW X \in SUBSET Positions
    PROVE  /\ Cardinality(LinesAt(X)) = Cardinality(X) /\ Cardinality(X) \in Nat
           /\ IsFiniteSet(LinesAt(X))
<1>1. IsFiniteSet(X) /\ Cardinality(X) \in Nat
  BY PlacesFinite
<1> PICK f : f = [p \in X |-> At(p)]
  OBVIOUS
<1>2. f \in Surjection(X, LinesAt(X))
  BY DEF Surjection, LinesAt
<1>3. f \in [X -> LinesAt(X)] /\ \A p, q \in X : f[p] = f[q] => p = q
  BY OnePlace DEF LinesAt
<1>4. f \in Injection(X, LinesAt(X))
  BY <1>3 DEF Injection, IsInjective
<1>5. IsFiniteSet(LinesAt(X))
      /\ (Cardinality(LinesAt(X)) = Cardinality(X) <=> f \in Injection(X, LinesAt(X)))
  BY <1>1, <1>2, FS_Surjection
<1> QED BY <1>1, <1>4, <1>5

\* What is said of lines is so of their places.
LEMMA PlacesFewer ==
    ASSUME StoreInv, LinesInv, NEW Z \in SUBSET Positions, NEW V, V \subseteq LinesAt(Z),
           NEW U, IsFiniteSet(U), Fewer(U, V)
    PROVE  /\ Cardinality(U) <= Cardinality(Z)
           /\ \A X \in SUBSET Positions :
                 LinesAt(X) \subseteq U => Cardinality(X) <= Cardinality(Z)
<1>1. /\ Cardinality(LinesAt(Z)) = Cardinality(Z) /\ Cardinality(Z) \in Int
      /\ IsFiniteSet(LinesAt(Z))
  BY LinesCounted
<1>2. /\ Cardinality(V) <= Cardinality(LinesAt(Z)) /\ IsFiniteSet(V)
  BY <1>1, FS_Subset
<1>3. Cardinality(U) \in Int /\ Cardinality(V) \in Int
  <2>1. Cardinality(U) \in Nat /\ Cardinality(V) \in Nat
    BY <1>2, FS_CardinalityType
  <2> QED BY <2>1
<1>4. Cardinality(U) <= Cardinality(Z)
  BY <1>1, <1>2, <1>3, InARow DEF Fewer
<1>5. ASSUME NEW X \in SUBSET Positions, LinesAt(X) \subseteq U
      PROVE  Cardinality(X) <= Cardinality(Z)
  <2>1. Cardinality(LinesAt(X)) = Cardinality(X) /\ Cardinality(X) \in Int
    BY LinesCounted
  <2>2. Cardinality(LinesAt(X)) <= Cardinality(U)
    BY <1>5, FS_Subset
  <2> QED BY <1>1, <1>3, <1>4, <2>1, <2>2, InARow
<1> QED BY <1>4, <1>5

\* The pages of an index are in time order, leave out no line between two of their own,
\* and are as near to each other as the lines that have gone or come in between allow,
\* whatever the store does between the requests and within them, while no file is made
\* again (readReferencePageLocked of manager.go).
THEOREM IndexNear == Spec => []IndexPagesNear
<1>1. StoreInv /\ LinesInv /\ IndexInv => IndexPagesNear
  <2> SUFFICES ASSUME StoreInv, LinesInv, IndexInv, Answered, request = "index", NoneMadeAgain
               PROVE  IndexPagesNear
    BY DEF IndexPagesNear
  <2>1. PICK A, D, P \in SUBSET LinesAt(Positions) : AnswerFound(A, D, P)
    BY DEF IndexInv
  <2> PICK k : k = answer.kind
    OBVIOUS
  <2> PICK L : L = answer.lines
    OBVIOUS
  <2> PICK F : F = answer.from
    OBVIOUS
  <2> PICK n : n = answer.top
    OBVIOUS
  <2> PICK S : S = Set(L)
    OBVIOUS
  <2> PICK T : T = Set(F)
    OBVIOUS
  <2> PICK seen : seen = SeenOf(k, S, T)
    OBVIOUS
  <2> PICK gone : gone = {p \in Positions \ Stored : At(p).id <= n}
    OBVIOUS
  <2> PICK come : come = {p \in Positions : At(p).id \in (FirstLines + 1)..n}
    OBVIOUS
  <2>2. /\ L \in Seq(Entries) /\ F \in Seq(Entries) /\ Rising(L) /\ Unparted(S, n)
        /\ View(A, D, P, S, n)
        /\ k = "next" => NextNear(S, T, n)
        /\ k = "prev" => PrevNear(S, T, n)
        /\ EndsNear(seen, n, answer.next, answer.prev)
    BY <2>1 DEF AnswerFound, Answered, Promised
  <2>3. Old = {p \in Stored : At(p).id <= n}
    <3>1. \A p \in Positions : Matches(At(p))
      BY EveryLineMatches DEF EveryMatch, IndexInv
    <3> QED BY <3>1 DEF Old, Stored
  <2>4. Old \subseteq Positions /\ \A p \in Old : At(p) \in There(n)
    BY <2>3 DEF There, LinesAt, Stored
  <2>5. gone \in SUBSET Positions /\ Left(n) \subseteq LinesAt(gone)
    BY DEF Left, LinesAt
  <2>6. come \in SUBSET Positions /\ Came(n) \subseteq LinesAt(come)
    BY DEF Came, LinesAt
  <2>7. DOMAIN L = 1..Len(L) /\ (L # <<>> => S # {}) /\ (F # <<>> => T # {})
    <3>1. \A s \in Seq(Entries) : DOMAIN s = 1..Len(s) /\ (s # <<>> => 1 \in DOMAIN s)
      OBVIOUS
    <3> QED BY <2>2, <3>1 DEF Set
  <2>8. IsFiniteSet(There(n)) /\ IsFiniteSet(S)
    <3>1. S \subseteq LinesAt(Positions)
      BY <2>2 DEF View, Finds, Paged, Shows
    <3> QED BY <3>1, LinesAre
  <2>9. \A X : /\ IsFiniteSet(AllLater(X, n)) /\ IsFiniteSet(AllEarlier(X, n))
               /\ IsFiniteSet(S \cap X)
               /\ \A Y : /\ IsFiniteSet(AllLater(X, n) \cap AllEarlier(Y, n))
                         /\ IsFiniteSet(AllEarlier(X, n) \cap AllLater(Y, n))
    <3> TAKE X
    <3>1. AllLater(X, n) \subseteq There(n) /\ AllEarlier(X, n) \subseteq There(n)
      BY DEF AllLater, AllEarlier
    <3>2. \A W : W \subseteq There(n) => IsFiniteSet(W)
      BY <2>8, FS_Subset
    <3>3. IsFiniteSet(S \cap X)
      BY <2>8, FS_Subset
    <3> QED BY <3>1, <3>2, <3>3
  <2>10. \A i, j \in DOMAIN L : i < j => Earlier(L[i], L[j])
    BY <2>2, <2>7 DEF Rising
  <2>11. ~\E p \in Old : \E a, b \in S : At(p) \notin S /\ Earlier(a, At(p)) /\ Earlier(At(p), b)
    BY <2>2, <2>4 DEF Unparted
  <2>12. Repeated = S \cap T
    BY DEF Repeated
  <2>13. k = "next" => Cardinality(Skipped) <= Cardinality(gone)
                       /\ Cardinality(Repeated) <= Cardinality(come)
    <3> SUFFICES ASSUME k = "next"
                 PROVE  Cardinality(Skipped) <= Cardinality(gone)
                        /\ Cardinality(Repeated) <= Cardinality(come)
      OBVIOUS
    <3>1. Cardinality(Repeated) <= Cardinality(come)
      BY <2>2, <2>6, <2>9, <2>12, PlacesFewer DEF NextNear
    <3>2. Skipped \in SUBSET Positions
      BY <2>4 DEF Skipped
    <3>3. CASE Skipped = {}
      BY <2>5, <3>1, <3>3, LinesCounted, FS_EmptySet
    <3>4. CASE Skipped # {}
      <4>1. S # {} /\ T # {}
        BY <2>7, <3>4 DEF Skipped
      <4>2. LinesAt(Skipped) \subseteq AllLater(T, n) \cap AllEarlier(S, n)
        BY <2>4 DEF Skipped, LinesAt, AllLater, AllEarlier
      <4> PICK U : U = AllLater(T, n) \cap AllEarlier(S, n)
        OBVIOUS
      <4>3. Fewer(U, Left(n)) /\ IsFiniteSet(U)
        BY <2>2, <2>9, <4>1 DEF NextNear
      <4> QED BY <2>5, <3>1, <3>2, <4>2, <4>3, PlacesFewer
    <3> QED BY <3>1, <3>3, <3>4
  <2>14. k = "prev" =>
            /\ Cardinality(Skipped) <= Cardinality(come)
            /\ \/ Cardinality(Repeated) <= Cardinality(gone)
               \/ \A p \in Old : \E b \in S : ~Earlier(At(p), b)
    <3> SUFFICES ASSUME k = "prev"
                 PROVE  /\ Cardinality(Skipped) <= Cardinality(come)
                        /\ \/ Cardinality(Repeated) <= Cardinality(gone)
                           \/ \A p \in Old : \E b \in S : ~Earlier(At(p), b)
      OBVIOUS
    <3>1. \/ Cardinality(Repeated) <= Cardinality(gone)
          \/ \A p \in Old : \E b \in S : ~Earlier(At(p), b)
      <4>1. CASE Fewer(S \cap T, Left(n))
        BY <2>5, <2>9, <2>12, <4>1, PlacesFewer
      <4>2. CASE \A x \in There(n) : \E b \in S : ~Earlier(x, b)
        BY <2>4, <4>2
      <4> QED BY <2>2, <4>1, <4>2 DEF PrevNear
    <3>2. Skipped \in SUBSET Positions
      BY <2>4 DEF Skipped
    <3>3. CASE Skipped = {}
      BY <2>6, <3>1, <3>3, LinesCounted, FS_EmptySet
    <3>4. CASE Skipped # {}
      <4>1. S # {} /\ T # {}
        BY <2>7, <3>4 DEF Skipped
      <4>2. LinesAt(Skipped) \subseteq AllEarlier(T, n) \cap AllLater(S, n)
        BY <2>4 DEF Skipped, LinesAt, AllLater, AllEarlier
      <4> PICK U : U = AllEarlier(T, n) \cap AllLater(S, n)
        OBVIOUS
      <4>3. Fewer(U, Came(n)) /\ IsFiniteSet(U)
        BY <2>2, <2>9, <4>1 DEF PrevNear
      <4> QED BY <2>6, <3>1, <3>2, <4>2, <4>3, PlacesFewer
    <3> QED BY <3>1, <3>3, <3>4
  <2>15. Seen = seen
    BY DEF Seen, SeenOf
  <2>16. answer.next = None /\ Seen # {} =>
            Cardinality({p \in Old : \A a \in Seen : Earlier(a, At(p))}) <= Cardinality(gone)
    <3> SUFFICES ASSUME answer.next = None, Seen # {}
                 PROVE  Cardinality({p \in Old : \A a \in Seen : Earlier(a, At(p))})
                            <= Cardinality(gone)
      OBVIOUS
    <3> PICK X : X = {p \in Old : \A a \in Seen : Earlier(a, At(p))}
      OBVIOUS
    <3>1. X \in SUBSET Positions /\ LinesAt(X) \subseteq AllLater(seen, n)
      BY <2>4, <2>15 DEF LinesAt, AllLater
    <3>2. Fewer(AllLater(seen, n), Left(n))
      BY <2>2, <2>15 DEF EndsNear
    <3> QED BY <2>5, <2>9, <3>1, <3>2, PlacesFewer
  <2>17. answer.prev = None /\ Seen # {} =>
            Cardinality({p \in Old : \A a \in Seen : Earlier(At(p), a)}) <= Cardinality(come)
    <3> SUFFICES ASSUME answer.prev = None, Seen # {}
                 PROVE  Cardinality({p \in Old : \A a \in Seen : Earlier(At(p), a)})
                            <= Cardinality(come)
      OBVIOUS
    <3> PICK X : X = {p \in Old : \A a \in Seen : Earlier(At(p), a)}
      OBVIOUS
    <3>1. X \in SUBSET Positions /\ LinesAt(X) \subseteq AllEarlier(seen, n)
      BY <2>4, <2>15 DEF LinesAt, AllEarlier
    <3>2. Fewer(AllEarlier(seen, n), Came(n))
      BY <2>2, <2>15 DEF EndsNear
    <3> QED BY <2>6, <2>9, <3>1, <3>2, PlacesFewer
  <2> QED BY <2>10, <2>11, <2>13, <2>14, <2>16, <2>17 DEF IndexPagesNear
<1>2. Spec => [](StoreInv /\ LinesInv /\ PagesInv)
  BY PagesInvariant
<1> QED BY <1>1, <1>2, IndexInvariant, PTL
=============================================================================
