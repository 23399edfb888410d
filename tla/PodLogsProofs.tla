--------------------------- MODULE PodLogsProofs ---------------------------
(***************************************************************************)
(* Proofs about PodLogs: for any containers, days, lines, workers, page    *)
(* size and capacities, a search that ends by itself has sent every line   *)
(* there was to find, and sends the lines of a file in its order, each     *)
(* once; a download sends the lines of its containers merged by time, each *)
(* once, and all of them unless it is cut short; and a page merged by time *)
(* is in order and leaves out nothing for what is further away.            *)
(* (PagesProofs has those about pages by offsets.)                         *)
(***************************************************************************)
EXTENDS PodLogs, FiniteSetTheorems, SequenceTheorems, TLAPS

-----------------------------------------------------------------------------
(* Ranks. *)

\* If the sets of those up to each member grow one by one, their sizes are all of
\* the numbers there are: the members have distinct ranks, and each rank a member.
LEMMA Ranks ==
    ASSUME NEW S, IsFiniteSet(S), NEW upTo \in [S -> SUBSET S],
           \A x, y \in S : upTo[x] \subseteq upTo[y] \/ upTo[y] \subseteq upTo[x],
           \A x, y \in S : upTo[x] = upTo[y] => x = y,
           NEW T, IsFiniteSet(T), Cardinality(T) = Cardinality(S),
           \A x \in S : Cardinality(upTo[x]) \in T
    PROVE  /\ \A k \in T : \E x \in S : Cardinality(upTo[x]) = k
           /\ \A x, y \in S : Cardinality(upTo[x]) = Cardinality(upTo[y]) => x = y
<1> DEFINE rank == [x \in S |-> Cardinality(upTo[x])]
<1>1. ASSUME NEW x \in S, NEW y \in S, rank[x] = rank[y]
      PROVE  x = y
  <2>1. IsFiniteSet(upTo[x]) /\ IsFiniteSet(upTo[y])
    BY FS_Subset
  <2>2. ASSUME NEW a \in S, NEW b \in S, upTo[a] \subseteq upTo[b], IsFiniteSet(upTo[b]),
               rank[a] = rank[b]
        PROVE  upTo[a] = upTo[b]
    BY <2>2, FS_Subset
  <2> QED BY <1>1, <2>1, <2>2
<1>2. rank \in [S -> T]
  OBVIOUS
<1>3. rank \in Injection(S, T)
  <2> HIDE DEF rank
  <2> QED BY <1>1, <1>2 DEF Injection, IsInjective
<1>4. rank \in Surjection(S, T)
  <2> HIDE DEF rank
  <2> QED BY <1>3, FS_Injection
<1>5. \A k \in T : \E x \in S : rank[x] = k
  BY <1>4 DEF Surjection
<1> QED BY <1>1, <1>5

\* Of the numbers of a finite set, each has a rank of its own.
LEMMA RankedNumbers ==
    ASSUME NEW S \in SUBSET Nat, IsFiniteSet(S)
    PROVE  \A k \in 1..Cardinality(S) :
              \E i \in S : Cardinality({j \in S : j <= i}) = k
<1> DEFINE upTo == [i \in S |-> {j \in S : j <= i}]
           T == 1..Cardinality(S)
<1>1. Cardinality(S) \in Nat
  BY FS_CardinalityType
<1>2. IsFiniteSet(T) /\ Cardinality(T) = Cardinality(S)
  <2>1. /\ IsFiniteSet(1..Cardinality(S))
        /\ Cardinality(1..Cardinality(S)) =
              IF 1 > Cardinality(S) THEN 0 ELSE Cardinality(S) - 1 + 1
    BY <1>1, FS_Interval
  <2> QED BY <1>1, <2>1
<1>3. /\ upTo \in [S -> SUBSET S]
      /\ \A x, y \in S : upTo[x] \subseteq upTo[y] \/ upTo[y] \subseteq upTo[x]
  <2>1. ASSUME NEW x \in S, NEW y \in S, x <= y PROVE upTo[x] \subseteq upTo[y]
    <3>1. ASSUME NEW j \in S, j <= x PROVE j <= y
      <4>1. j \in Nat /\ x \in Nat /\ y \in Nat
        OBVIOUS
      <4> QED BY <2>1, <3>1, <4>1
    <3> QED BY <3>1
  <2>2. \A x, y \in S : x <= y \/ y <= x
    OBVIOUS
  <2>3. upTo \in [S -> SUBSET S]
    OBVIOUS
  <2> QED BY <2>1, <2>2, <2>3
<1>4. ASSUME NEW x \in S, NEW y \in S, upTo[x] = upTo[y] PROVE x = y
  <2>1. x \in upTo[x] /\ y \in upTo[y]
    OBVIOUS
  <2>2. x <= y /\ y <= x
    BY <1>4, <2>1
  <2> QED BY <2>2
<1>5. ASSUME NEW x \in S PROVE Cardinality(upTo[x]) \in T
  <2>1. IsFiniteSet(upTo[x]) /\ Cardinality(upTo[x]) <= Cardinality(S)
    BY FS_Subset
  <2>2. Cardinality(upTo[x]) \in Nat
    BY <2>1, FS_CardinalityType
  <2>3. upTo[x] # {}
    OBVIOUS
  <2>4. Cardinality(upTo[x]) # 0
    BY <2>1, <2>3, FS_EmptySet
  <2> QED BY <1>1, <2>1, <2>2, <2>4
<1> HIDE DEF upTo, T
<1>6. /\ \A k \in T : \E i \in S : Cardinality(upTo[i]) = k
      /\ \A x, y \in S : Cardinality(upTo[x]) = Cardinality(upTo[y]) => x = y
  <2>1. \A x, y \in S : upTo[x] = upTo[y] => x = y
    BY <1>4
  <2> QED BY <1>2, <1>3, <1>5, <2>1, Ranks
<1> QED BY <1>6 DEF upTo, T

\* A finite set of numbers has a least.
LEMMA LeastOf ==
    ASSUME NEW S \in SUBSET Nat, IsFiniteSet(S), S # {}
    PROVE  \E n \in S : \A m \in S : n <= m
<1>1. Cardinality(S) \in Nat /\ Cardinality(S) # 0
  BY FS_CardinalityType, FS_EmptySet
<1>2. PICK n \in S : Cardinality({m \in S : m <= n}) = 1
  BY <1>1, RankedNumbers
<1>3. ASSUME NEW m \in S, m < n PROVE FALSE
  <2> DEFINE upTo == {j \in S : j <= n}
  <2>1. n \in upTo /\ m \in upTo /\ m # n
    BY <1>3
  <2>2. IsFiniteSet(upTo) /\ Cardinality(upTo) = 1
    BY <1>2, FS_Subset
  <2> HIDE DEF upTo
  <2>3. IsFiniteSet(upTo \ {n}) /\ Cardinality(upTo \ {n}) = 0
    BY <2>1, <2>2, FS_RemoveElement
  <2>4. upTo \ {n} = {}
    BY <2>3, FS_EmptySet
  <2> QED BY <2>1, <2>4
<1> QED BY <1>3

\* The order of tuples of numbers, of segments and of places, which InOrder lists a
\* set by and a heap takes the least of.
Ordered(S) ==
    \A x, y, z \in S :
        /\ Below(x, y) \/ Below(y, x) \/ x = y
        /\ ~Below(x, x)
        /\ Below(x, y) /\ Below(y, z) => Below(x, z)

\* Of two pairs the first numbers decide, or the second ones if those are equal.
LEMMA BelowPairs ==
    ASSUME NEW x \in Int \X Int, NEW y \in Int \X Int
    PROVE  Below(x, y) <=> x[1] < y[1] \/ (x[1] = y[1] /\ x[2] < y[2])
<1>1. Len(x) = 2
  OBVIOUS
<1>2. Below(x, y) <=> \E i \in 1..2 : x[i] < y[i] /\ \A j \in 1..(i - 1) : x[j] = y[j]
  BY <1>1 DEF Below
<1> QED BY <1>2

\* So pairs of numbers, which segments are, are ordered.
LEMMA PairsOrdered == Ordered(Int \X Int)
<1> SUFFICES ASSUME NEW x \in Int \X Int, NEW y \in Int \X Int, NEW z \in Int \X Int
             PROVE  /\ Below(x, y) \/ Below(y, x) \/ x = y
                    /\ ~Below(x, x)
                    /\ Below(x, y) /\ Below(y, z) => Below(x, z)
  BY DEF Ordered
<1>1. /\ x[1] \in Int /\ x[2] \in Int /\ y[1] \in Int /\ y[2] \in Int
      /\ z[1] \in Int /\ z[2] \in Int
  OBVIOUS
<1>2. /\ Below(x, y) <=> x[1] < y[1] \/ (x[1] = y[1] /\ x[2] < y[2])
      /\ Below(y, x) <=> y[1] < x[1] \/ (y[1] = x[1] /\ y[2] < x[2])
      /\ Below(y, z) <=> y[1] < z[1] \/ (y[1] = z[1] /\ y[2] < z[2])
      /\ Below(x, z) <=> x[1] < z[1] \/ (x[1] = z[1] /\ x[2] < z[2])
      /\ Below(x, x) <=> x[1] < x[1] \/ (x[1] = x[1] /\ x[2] < x[2])
  BY BelowPairs
<1>3. x[1] = y[1] /\ x[2] = y[2] => x = y
  OBVIOUS
<1> QED BY <1>1, <1>2, <1>3

Fours == Int \X Int \X Int \X Int

\* Likewise of four numbers, which places in the store and lines in a heap are.
LEMMA BelowFours ==
    ASSUME NEW x \in Fours, NEW y \in Fours
    PROVE  Below(x, y) <=>
              \/ x[1] < y[1]
              \/ x[1] = y[1] /\ x[2] < y[2]
              \/ x[1] = y[1] /\ x[2] = y[2] /\ x[3] < y[3]
              \/ x[1] = y[1] /\ x[2] = y[2] /\ x[3] = y[3] /\ x[4] < y[4]
<1>1. Len(x) = 4
  BY DEF Fours
<1>2. Below(x, y) <=> \E i \in 1..4 : x[i] < y[i] /\ \A j \in 1..(i - 1) : x[j] = y[j]
  BY <1>1 DEF Below
<1>3. /\ \A j \in 1..(1 - 1) : x[j] = y[j]
      /\ (\A j \in 1..(2 - 1) : x[j] = y[j]) <=> x[1] = y[1]
      /\ (\A j \in 1..(3 - 1) : x[j] = y[j]) <=> x[1] = y[1] /\ x[2] = y[2]
      /\ (\A j \in 1..(4 - 1) : x[j] = y[j]) <=> x[1] = y[1] /\ x[2] = y[2] /\ x[3] = y[3]
  OBVIOUS
<1>4. \A i \in 1..4 : i = 1 \/ i = 2 \/ i = 3 \/ i = 4
  OBVIOUS
<1>5. 1 \in 1..4 /\ 2 \in 1..4 /\ 3 \in 1..4 /\ 4 \in 1..4
  OBVIOUS
<1> QED BY <1>2, <1>3, <1>4, <1>5, Zenon

\* So those are ordered.
LEMMA FoursOrdered == Ordered(Fours)
<1> SUFFICES ASSUME NEW x \in Fours, NEW y \in Fours, NEW z \in Fours
             PROVE  /\ Below(x, y) \/ Below(y, x) \/ x = y
                    /\ ~Below(x, x)
                    /\ Below(x, y) /\ Below(y, z) => Below(x, z)
  BY DEF Ordered
<1>1. /\ x[1] \in Int /\ x[2] \in Int /\ x[3] \in Int /\ x[4] \in Int
      /\ y[1] \in Int /\ y[2] \in Int /\ y[3] \in Int /\ y[4] \in Int
      /\ z[1] \in Int /\ z[2] \in Int /\ z[3] \in Int /\ z[4] \in Int
  BY DEF Fours
<1>2. x[1] = y[1] /\ x[2] = y[2] /\ x[3] = y[3] /\ x[4] = y[4] => x = y
  BY DEF Fours
<1>3. Below(x, y) \/ Below(y, x) \/ x = y
  BY <1>1, <1>2, BelowFours
<1>4. ~Below(x, x)
  BY <1>1, BelowFours
<1>5. Below(x, y) /\ Below(y, z) => Below(x, z)
  BY <1>1, BelowFours
<1> QED BY <1>3, <1>4, <1>5

\* Under a strict total order, given by what is before each member, the sizes of these
\* are the numbers below that of the set.
Total(S, under) ==
    /\ under \in [S -> SUBSET S]
    /\ \A x \in S : x \notin under[x]
    /\ \A x, y \in S : x \in under[y] \/ y \in under[x] \/ x = y
    /\ \A x, y, z \in S : x \in under[y] /\ y \in under[z] => x \in under[z]

\* In a total order the number of the members below one tells it apart.
LEMMA Ranked ==
    ASSUME NEW S, IsFiniteSet(S), NEW under, Total(S, under)
    PROVE  /\ Cardinality(S) \in Nat
           /\ \A x \in S : Cardinality(under[x]) \in 0..Cardinality(S) - 1
           /\ \A k \in 0..Cardinality(S) - 1 : \E x \in S : Cardinality(under[x]) = k
           /\ \A x, y \in S : Cardinality(under[x]) = Cardinality(under[y]) => x = y
           /\ \A x, y \in S : x \in under[y] =>
                  under[x] \subseteq under[y] /\ Cardinality(under[x]) <= Cardinality(under[y])
<1> DEFINE n == Cardinality(S)
           T == 0..n - 1
<1>1. n \in Nat
  BY FS_CardinalityType
<1>2. IsFiniteSet(T) /\ Cardinality(T) = n
  <2> HIDE DEF n
  <2>1. 0 \in Int /\ n - 1 \in Int
    BY <1>1
  <2>2. /\ IsFiniteSet(0..n - 1)
        /\ Cardinality(0..n - 1) = IF 0 > n - 1 THEN 0 ELSE n - 1 - 0 + 1
    BY <2>1, FS_Interval
  <2> QED BY <1>1, <2>2
<1>3. ASSUME NEW x \in S PROVE under[x] \in SUBSET S /\ x \notin under[x]
  BY DEF Total
<1>4. ASSUME NEW x \in S, NEW y \in S, x \in under[y] PROVE under[x] \subseteq under[y]
  <2>1. ASSUME NEW z \in under[x] PROVE z \in under[y]
    <3>1. z \in S
      BY <1>3
    <3> QED BY <1>4, <2>1, <3>1 DEF Total
  <2> QED BY <2>1
<1>5. \A x, y \in S : under[x] \subseteq under[y] \/ under[y] \subseteq under[x]
  BY <1>4 DEF Total
<1>6. \A x, y \in S : under[x] = under[y] => x = y
  BY <1>3 DEF Total
<1>7. ASSUME NEW x \in S PROVE Cardinality(under[x]) \in T
  <2>1. /\ IsFiniteSet(under[x]) /\ Cardinality(under[x]) <= n
        /\ Cardinality(under[x]) = n => under[x] = S
    BY <1>3, FS_Subset
  <2>2. Cardinality(under[x]) \in Nat
    BY <2>1, FS_CardinalityType
  <2>3. Cardinality(under[x]) # n
    BY <1>3, <2>1
  <2> QED BY <1>1, <2>1, <2>2, <2>3
<1>8. /\ \A k \in T : \E x \in S : Cardinality(under[x]) = k
      /\ \A x, y \in S : Cardinality(under[x]) = Cardinality(under[y]) => x = y
  <2>1. Cardinality(T) = Cardinality(S) /\ under \in [S -> SUBSET S]
    BY <1>2 DEF Total
  <2>2. IsFiniteSet(T) /\ \A x \in S : Cardinality(under[x]) \in T
    BY <1>2, <1>7
  <2> HIDE DEF n, T
  <2> QED BY <1>5, <1>6, <2>1, <2>2, Ranks
<1>9. ASSUME NEW x \in S, NEW y \in S, x \in under[y]
      PROVE  Cardinality(under[x]) <= Cardinality(under[y])
  <2>1. under[x] \in SUBSET under[y] /\ IsFiniteSet(under[y])
    BY <1>3, <1>4, <1>9, FS_Subset
  <2> QED BY <2>1, FS_Subset
<1> QED BY <1>1, <1>4, <1>7, <1>8, <1>9

\* So the first k of a set are k, or all.
LEMMA Firsts ==
    ASSUME NEW S, IsFiniteSet(S), NEW under, Total(S, under), NEW k \in Nat,
           NEW K, K = {x \in S : Cardinality(under[x]) < k}
    PROVE  /\ IsFiniteSet(K) /\ Cardinality(K) \in Nat /\ Cardinality(K) <= k
           /\ \A x \in S \ K : Cardinality(K) = k /\ \A y \in K : y \in under[x]
<1> PICK n : n = Cardinality(S)
  OBVIOUS
<1>1. /\ n \in Nat
      /\ \A x \in S : Cardinality(under[x]) \in 0..n - 1
      /\ \A j \in 0..n - 1 : \E x \in S : Cardinality(under[x]) = j
      /\ \A x, y \in S : Cardinality(under[x]) = Cardinality(under[y]) => x = y
      /\ \A x, y \in S : x \in under[y] => Cardinality(under[x]) <= Cardinality(under[y])
  BY Ranked
<1> PICK T : T = 0..k - 1
  OBVIOUS
<1>2. IsFiniteSet(T) /\ Cardinality(T) = k
  <2>1. 0 \in Int /\ k - 1 \in Int
    OBVIOUS
  <2>2. /\ IsFiniteSet(0..k - 1)
        /\ Cardinality(0..k - 1) = IF 0 > k - 1 THEN 0 ELSE k - 1 - 0 + 1
    BY <2>1, FS_Interval
  <2> QED BY <2>2
<1> PICK rank : rank = [x \in K |-> Cardinality(under[x])]
  OBVIOUS
<1>3. rank \in [K -> T]
  <2>1. \A x \in K : Cardinality(under[x]) \in T
    BY <1>1
  <2> QED BY <2>1
<1>4. rank \in Injection(K, T)
  <2>1. \A x, y \in K : rank[x] = rank[y] => x = y
    BY <1>1
  <2> QED BY <1>3, <2>1 DEF Injection, IsInjective
<1>5. IsFiniteSet(K) /\ Cardinality(K) <= k /\ Cardinality(K) \in Nat
  <2>1. IsFiniteSet(K) /\ Cardinality(K) <= Cardinality(T)
    BY <1>2, <1>4, FS_Injection
  <2> QED BY <1>2, <2>1, FS_CardinalityType
<1>6. ASSUME NEW x \in S \ K PROVE Cardinality(K) = k
  <2>1. Cardinality(under[x]) >= k /\ Cardinality(under[x]) \in 0..n - 1
    BY <1>1
  <2>2. ASSUME NEW j \in T PROVE \E y \in K : rank[y] = j
    <3>1. j \in 0..n - 1 /\ j < k
      BY <1>1, <2>1
    <3>2. PICK y \in S : Cardinality(under[y]) = j
      BY <1>1, <3>1
    <3> QED BY <3>1, <3>2
  <2>3. rank \in Surjection(K, T)
    BY <1>3, <2>2 DEF Surjection
  <2>4. Cardinality(T) <= Cardinality(K)
    BY <1>5, <2>3, FS_Surjection
  <2> QED BY <1>2, <1>5, <2>4
<1>7. ASSUME NEW x \in S \ K, NEW y \in K PROVE y \in under[x]
  <2>1. Cardinality(under[y]) < k /\ ~(Cardinality(under[x]) < k) /\ x # y
    OBVIOUS
  <2>2. Cardinality(under[x]) \in Int /\ Cardinality(under[y]) \in Int
    BY <1>1
  <2>3. x \notin under[y]
    BY <1>1, <2>1, <2>2
  <2> QED BY <2>1, <2>3 DEF Total
<1> QED BY <1>5, <1>6, <1>7

\* InOrder lists every member of a set once, in order.
LEMMA InOrderLists ==
    ASSUME NEW S, IsFiniteSet(S), Ordered(S)
    PROVE  /\ Cardinality(S) \in Nat /\ InOrder(S) \in [1..Cardinality(S) -> S]
           /\ \A i, j \in 1..Cardinality(S) : i < j => Below(InOrder(S)[i], InOrder(S)[j])
           /\ \A x \in S : \E i \in 1..Cardinality(S) : InOrder(S)[i] = x
<1> DEFINE n == Cardinality(S)
           below(x) == {y \in S : Below(y, x)}
           upTo == [x \in S |-> below(x)]
           T == 0..n - 1
<1>1. n \in Nat
  BY FS_CardinalityType
<1>2. ASSUME NEW x \in S, NEW y \in S, NEW z \in S
      PROVE  /\ Below(x, y) \/ Below(y, x) \/ x = y
             /\ ~Below(x, x)
             /\ Below(x, y) /\ Below(y, z) => Below(x, z)
  BY DEF Ordered
<1>3. upTo \in [S -> SUBSET S]
  OBVIOUS
<1>4. ASSUME NEW x \in S, NEW y \in S
      PROVE  /\ Below(x, y) => upTo[x] \subseteq upTo[y] /\ x \in upTo[y] /\ x \notin upTo[x]
             /\ x \notin upTo[x]
  BY <1>2
<1>5. Total(S, upTo)
  <2>1. \A x, y \in S : x \in upTo[y] <=> Below(x, y)
    OBVIOUS
  <2> HIDE DEF upTo
  <2> QED BY <1>2, <1>3, <2>1 DEF Total
<1>6. \A x \in S : Cardinality(upTo[x]) \in T
  <2> HIDE DEF upTo
  <2> QED BY <1>5, Ranked
<1>7. /\ \A k \in T : \E x \in S : Cardinality(upTo[x]) = k
      /\ \A x, y \in S : Cardinality(upTo[x]) = Cardinality(upTo[y]) => x = y
  <2> HIDE DEF upTo
  <2> QED BY <1>5, Ranked
<1>8. InOrder(S) = [i \in 1..n |-> CHOOSE x \in S : Cardinality(below(x)) = i - 1]
  BY DEF InOrder
<1>9. ASSUME NEW i \in 1..n
       PROVE  InOrder(S)[i] \in S /\ Cardinality(upTo[InOrder(S)[i]]) = i - 1
  <2>1. i - 1 \in T
    BY <1>1
  <2>2. \E x \in S : Cardinality(upTo[x]) = i - 1
    BY <1>7, <2>1
  <2>3. \A x \in S : upTo[x] = below(x)
    OBVIOUS
  <2> HIDE DEF upTo, n, below
  <2>4. InOrder(S)[i] = CHOOSE x \in S : Cardinality(below(x)) = i - 1
    BY <1>8
  <2>5. InOrder(S)[i] \in S /\ Cardinality(below(InOrder(S)[i])) = i - 1
    BY <2>2, <2>3, <2>4
  <2> QED BY <2>3, <2>5
<1>10. InOrder(S) \in [1..n -> S]
  <2> HIDE DEF upTo, n
  <2>1. InOrder(S) = [i \in 1..n |-> InOrder(S)[i]]
    BY <1>8
  <2> QED BY <1>9, <2>1
<1>11. ASSUME NEW i \in 1..n, NEW j \in 1..n, i < j
       PROVE  Below(InOrder(S)[i], InOrder(S)[j])
  <2> DEFINE x == InOrder(S)[i]
             y == InOrder(S)[j]
  <2>1. x \in S /\ y \in S /\ Cardinality(upTo[x]) = i - 1 /\ Cardinality(upTo[y]) = j - 1
    BY <1>9
  <2>2. i \in Nat /\ j \in Nat
    BY <1>1
  <2> HIDE DEF x, y
  <2>3. CASE x = y
    <3> HIDE DEF upTo
    <3> QED BY <1>11, <2>1, <2>2, <2>3
  <2>4. CASE Below(y, x)
    <3>1. upTo[y] \in SUBSET upTo[x] /\ upTo[x] \in SUBSET S
      BY <1>3, <1>4, <2>1, <2>4
    <3> HIDE DEF upTo
    <3>2. Cardinality(upTo[y]) <= Cardinality(upTo[x])
      BY <3>1, FS_Subset
    <3> QED BY <1>11, <2>1, <2>2, <3>2
  <2>5. Below(x, y) \/ Below(y, x) \/ x = y
    BY <1>2, <2>1
  <2> QED BY <2>3, <2>4, <2>5 DEF x, y
<1>12. ASSUME NEW x \in S PROVE \E i \in 1..n : InOrder(S)[i] = x
  <2> DEFINE i == Cardinality(upTo[x]) + 1
  <2>1. i \in 1..n
    BY <1>1, <1>6
  <2>2. InOrder(S)[i] \in S /\ Cardinality(upTo[InOrder(S)[i]]) = i - 1
    BY <1>9, <2>1
  <2>3. i - 1 = Cardinality(upTo[x])
    BY <1>1, <1>6
  <2>4. InOrder(S)[i] = x
    <3> HIDE DEF upTo, i
    <3> QED BY <1>7, <2>2, <2>3
  <2> QED BY <2>1, <2>4
<1> QED BY <1>1, <1>10, <1>11, <1>12

\* So it begins with the least.
LEMMA FirstOf ==
    ASSUME NEW S, IsFiniteSet(S), Ordered(S), S # {}
    PROVE  \E x \in S : \A y \in S : ~Below(y, x)
<1> DEFINE n == Cardinality(S)
<1>1. n \in Nat /\ n # 0
  BY FS_CardinalityType, FS_EmptySet
<1>2. /\ InOrder(S) \in [1..n -> S]
      /\ \A i, j \in 1..n : i < j => Below(InOrder(S)[i], InOrder(S)[j])
      /\ \A x \in S : \E i \in 1..n : InOrder(S)[i] = x
  BY InOrderLists
<1> PICK x : x = InOrder(S)[1]
  OBVIOUS
<1> HIDE DEF n
<1>3. x \in S
  BY <1>1, <1>2
<1>4. ASSUME NEW y \in S, Below(y, x) PROVE FALSE
  <2>1. PICK i \in 1..n : InOrder(S)[i] = y
    BY <1>2
  <2>2. CASE i = 1
    BY <1>4, <2>1, <2>2 DEF Ordered
  <2>3. CASE i # 1
    <3>1. 1 < i /\ 1 \in 1..n
      BY <1>1, <2>3
    <3>2. Below(x, y)
      BY <1>2, <2>1, <3>1
    <3> QED BY <1>3, <1>4, <3>2 DEF Ordered
  <2> QED BY <2>2, <2>3
<1> QED BY <1>3, <1>4

-----------------------------------------------------------------------------
(* The inductive invariant of a search. *)

IsSequence(s) == s \in Seq({s[k] : k \in DOMAIN s})

FilesNamed(s) == {f \in DOMAIN data : f[1] = s}

\* The lines of a file are of its day, and have been written; the files of a name are
\* numbered.
LineOf(f, line) ==
    /\ line.id \in Nat /\ line.id <= written
    /\ line.ts \in Times /\ Day(line.ts) = f[1][1]

StoreInv ==
    /\ seg \in [DOMAIN seg -> Nat] /\ DOMAIN seg \subseteq Segments /\ IsFiniteSet(DOMAIN seg)
    /\ \A s \in DOMAIN seg : <<s, seg[s]>> \in DOMAIN data
    /\ data = [f \in DOMAIN data |-> data[f]]
    /\ DOMAIN data \subseteq Segments \X Nat /\ IsFiniteSet(DOMAIN data)
    /\ \A f \in DOMAIN data : f[2] <= Cardinality(FilesNamed(f[1]))
    /\ \A f \in DOMAIN data :
          IsSequence(data[f]) /\ \A k \in DOMAIN data[f] : LineOf(f, data[f][k])
    /\ written \in Nat

\* A line is numbered once, and the files of a name are as many as there were changes.
LinesInv ==
    /\ \A f \in DOMAIN data : f[2] >= 1
    /\ \A f \in DOMAIN data : \A k \in DOMAIN data[f] : data[f][k] \in [id : Nat, ts : Times]
    /\ \A f, g \in DOMAIN data : \A k \in DOMAIN data[f], l \in DOMAIN data[g] :
          data[f][k].id = data[g][l].id => f = g /\ k = l
    /\ \A s \in Segments : Cardinality(FilesNamed(s)) <= changes + 1
    /\ changes \in Nat /\ changes <= MaxChanges

\* The file of a segment that is stored is the last of its name, and none is longer
\* than what has been written.
FilesInv ==
    /\ \A f \in DOMAIN data : f[1] \in DOMAIN seg => f[2] <= seg[f[1]]
    /\ \A f \in DOMAIN data : \A k \in DOMAIN data[f] : k <= written
    /\ written <= FirstLines + changes

WorkerStates == [pc : {"idle", "scan", "send", "exited"}, job : Segments \cup {None},
                 file : Nat, offset : Nat]

Results == Segments \X Nat \X Nat

SearchTyped ==
    /\ span \in {<<1, MaxTime>>, <<2, MaxTime>>}
    /\ handler \in {"start", "receive", "done", "truncated", "failed"}
    /\ handler = "start" => SearchInit
    /\ handler # "start" => request = "search"
    /\ before \in Nat /\ before <= written
    /\ jobs \in Seq(Segments) /\ todo \in 1..Len(jobs) + 1
    /\ worker \in [Workers -> WorkerStates]
    /\ resultCh \in Seq(Results) /\ sent \in Seq(Results)

\* A job is dispatched once, ...
Dispatched(s) == \E k \in 1..todo - 1 : jobs[k] = s

Busy(w) == worker[w].pc \in {"scan", "send"}

JobsInv ==
    /\ \A i, j \in 1..Len(jobs) : jobs[i] = jobs[j] => i = j
    /\ \A w \in Workers : Busy(w) =>
          Dispatched(worker[w].job) /\ <<worker[w].job, worker[w].file>> \in DOMAIN data
    /\ \A v, w \in Workers : Busy(v) /\ Busy(w) /\ worker[v].job = worker[w].job => v = w

\* ... so that what was found of a file comes before what its worker is to find.
Comes(e, f) == e[1] = f[1] => e[2] = f[2] /\ e[3] < f[3]

Found(e) ==
    /\ Dispatched(e[1])
    /\ \A w \in Workers : Busy(w) /\ worker[w].job = e[1] =>
          /\ e[2] = worker[w].file /\ e[3] <= worker[w].offset
          /\ worker[w].pc = "send" => e[3] < worker[w].offset

OrderInv ==
    /\ \A i \in 1..Len(sent) : Found(sent[i])
    /\ \A i \in 1..Len(resultCh) : Found(resultCh[i])
    /\ \A i, j \in 1..Len(sent) : i < j => Comes(sent[i], sent[j])
    /\ \A i \in 1..Len(sent), j \in 1..Len(resultCh) : Comes(sent[i], resultCh[j])
    /\ \A i, j \in 1..Len(resultCh) : i < j => Comes(resultCh[i], resultCh[j])

\* While nothing ends it early, a search is over only once each job is.
Undisturbed == handler \in {"receive", "done"} /\ ~ctx

EndInv ==
    /\ handler \in {"receive", "done"} => ~stopCh
    /\ Undisturbed =>
          /\ ~dispatching => todo = Len(jobs) + 1
          /\ \A w \in Workers : worker[w].pc = "exited" => ~dispatching
    /\ closed => \A w \in Workers : worker[w].pc = "exited"
    /\ handler = "done" => closed /\ resultCh = <<>>

\* A line that is to be found is in a segment that no worker has taken, or ahead of
\* the one that has, or found.
Wanted(p) == p \in Stored /\ At(p).id <= before /\ Matches(At(p))

SegmentOf(p) == <<p[1], p[2]>>

ToScan(p) == \E k \in todo..Len(jobs) : jobs[k] = SegmentOf(p)

Scanned(p) ==
    \E w \in Workers :
        /\ Busy(w) /\ worker[w].job = SegmentOf(p) /\ worker[w].file = p[3]
        /\ worker[w].offset < p[4] \/ (worker[w].pc = "send" /\ worker[w].offset = p[4])

WasFound(p) ==
    \/ \E i \in 1..Len(sent) : sent[i] = <<SegmentOf(p), p[3], p[4]>>
    \/ \E i \in 1..Len(resultCh) : resultCh[i] = <<SegmentOf(p), p[3], p[4]>>

FindInv == Undisturbed => \A p \in Positions : Wanted(p) => ToScan(p) \/ Scanned(p) \/ WasFound(p)

SearchInv == StoreInv /\ SearchTyped /\ JobsInv /\ OrderInv /\ EndInv /\ FindInv

-----------------------------------------------------------------------------
(* The store. *)

\* A function on the first numbers is a sequence of that length.
LEMMA SequenceOf ==
    ASSUME NEW m \in Nat, NEW s, s = [k \in 1..m |-> s[k]]
    PROVE  IsSequence(s) /\ Len(s) = m
<1> DEFINE S == {s[k] : k \in DOMAIN s}
<1>1. DOMAIN s = 1..m
  OBVIOUS
<1>2. s \in [1..m -> S]
  BY <1>1
<1>3. s \in Seq(S)
  BY <1>2, SeqDef
<1>4. DOMAIN s = 1..Len(s) /\ Len(s) \in Nat
  BY <1>3, LenProperties
<1> QED BY <1>1, <1>3, <1>4 DEF IsSequence

\* The length of a sequence is the number of its last element.
LEMMA LengthOf == ASSUME NEW s, IsSequence(s) PROVE Len(s) \in Nat /\ DOMAIN s = 1..Len(s)
BY LenProperties DEF IsSequence

\* What is appended comes after all there was.
LEMMA LongerSequence ==
    ASSUME NEW s, IsSequence(s), NEW e
    PROVE  /\ IsSequence(Append(s, e)) /\ DOMAIN Append(s, e) = DOMAIN s \cup {Len(s) + 1}
           /\ Len(s) + 1 \notin DOMAIN s /\ Append(s, e)[Len(s) + 1] = e
           /\ \A k \in DOMAIN s : Append(s, e)[k] = s[k]
<1> DEFINE S == {s[k] : k \in DOMAIN s} \cup {e}
           t == Append(s, e)
<1>1. s \in Seq(S) /\ e \in S
  <2>1. {s[k] : k \in DOMAIN s} \subseteq S
    OBVIOUS
  <2> QED BY <2>1, SeqMonotonic DEF IsSequence
<1> HIDE DEF S
<1>2. t \in Seq(S) /\ Len(t) = Len(s) + 1 /\ Len(s) \in Nat /\ Len(t) \in Nat
  BY <1>1
<1>3. t \in [1..Len(t) -> S]
  BY <1>2, LenProperties
<1>4. IsSequence(t)
  BY <1>2, <1>3, SequenceOf
<1>5. DOMAIN s = 1..Len(s) /\ DOMAIN t = 1..Len(t)
  BY <1>1, <1>2, LenProperties
<1>6. DOMAIN t = DOMAIN s \cup {Len(s) + 1} /\ Len(s) + 1 \notin DOMAIN s
  BY <1>2, <1>5
<1>7. t[Len(s) + 1] = e /\ \A k \in DOMAIN s : t[k] = s[k]
  BY <1>1, <1>5, AppendProperties
<1> QED BY <1>4, <1>6, <1>7

\* A segment is a day and a container.
LEMMA DayTyped ==
    ASSUME NEW s \in Segments
    PROVE  s[1] \in Int /\ s[2] \in Nat /\ s = <<s[1], s[2]>>
<1>1. ASSUME NEW t \in Times PROVE Day(t) \in Int
  BY <1>1, StoreAssumption DEF Times, Day
<1>2. s \in Days \X Containers /\ s = <<s[1], s[2]>> /\ s[1] \in Days /\ s[2] \in Containers
  BY DEF Segments
<1> QED BY <1>1, <1>2, StoreAssumption DEF Days

\* What a change of the store does to its lines: they stay, and those that come are
\* numbered on.
Grows ==
    /\ written \in Nat /\ written' \in Nat /\ written <= written'
    /\ \A f \in DOMAIN data :
          /\ f \in DOMAIN data'
          /\ \A k \in DOMAIN data[f] : k \in DOMAIN data'[f] /\ data'[f][k] = data[f][k]
    /\ \A f \in DOMAIN data' : \A k \in DOMAIN data'[f] :
          (f \in DOMAIN data /\ k \in DOMAIN data[f]) \/ data'[f][k].id > written
    /\ \A s \in DOMAIN seg \cap DOMAIN seg' : seg'[s] = seg[s]

\* Creating a segment adds an empty file and changes no other.
LEMMA CreateStore ==
    ASSUME StoreInv, NEW s \in Segments, CreateSegment(s)
    PROVE  StoreInv' /\ Grows /\ ~(DOMAIN seg' \subseteq DOMAIN seg)
<1> DEFINE file == 1 + Cardinality(FilesNamed(s))
           new == <<s, file>>
<1>1. /\ seg' = [x \in DOMAIN seg \cup {s} |-> IF x = s THEN file ELSE seg[x]]
      /\ data' = [f \in DOMAIN data \cup {new} |-> IF f = new THEN <<>> ELSE data[f]]
      /\ s \notin DOMAIN seg /\ written' = written
  BY DEF CreateSegment, FilesNamed
<1>2. /\ IsFiniteSet(FilesNamed(s)) /\ Cardinality(FilesNamed(s)) \in Nat
      /\ file \in Nat /\ new \notin DOMAIN data
  <2>1. FilesNamed(s) \in SUBSET DOMAIN data /\ IsFiniteSet(DOMAIN data)
    BY DEF FilesNamed, StoreInv
  <2>2. IsFiniteSet(FilesNamed(s)) /\ Cardinality(FilesNamed(s)) \in Nat
    BY <2>1, FS_Subset, FS_CardinalityType
  <2>3. new \in DOMAIN data => file <= Cardinality(FilesNamed(s))
    BY DEF StoreInv
  <2> QED BY <2>2, <2>3
<1> HIDE DEF file
<1>3. /\ new \in Segments \X Nat /\ new[1] = s /\ new[2] = file
      /\ file = 1 + Cardinality(FilesNamed(s))
  BY <1>2 DEF file
<1> HIDE DEF new
<1>4. /\ seg' \in [DOMAIN seg' -> Nat] /\ DOMAIN seg' \subseteq Segments
      /\ \A x \in DOMAIN seg' : <<x, seg'[x]>> \in DOMAIN data'
  <2>1. new = <<s, file>>
    BY DEF new
  <2> QED BY <1>1, <1>2, <2>1 DEF StoreInv
<1>5. IsFiniteSet(DOMAIN seg') /\ IsFiniteSet(DOMAIN data')
  <2>1. IsFiniteSet(DOMAIN seg \cup {s}) /\ IsFiniteSet(DOMAIN data \cup {new})
    BY FS_AddElement DEF StoreInv
  <2> QED BY <1>1, <2>1
<1>6. /\ data' = [f \in DOMAIN data' |-> data'[f]] /\ DOMAIN data' \subseteq Segments \X Nat
      /\ \A f \in DOMAIN data' : f = new \/ f \in DOMAIN data
      /\ data'[new] = <<>> /\ \A f \in DOMAIN data : f \in DOMAIN data' /\ data'[f] = data[f]
  BY <1>1, <1>2, <1>3 DEF StoreInv
<1>7. ASSUME NEW f \in DOMAIN data'
      PROVE  IsSequence(data'[f]) /\ \A k \in DOMAIN data'[f] : LineOf(f, data[f][k])'
  <2>1. CASE f = new
    <3>1. data'[f] = <<>>
      BY <1>6, <2>1
    <3>2. <<>> \in Seq({}) /\ DOMAIN (<<>>) = {}
      BY EmptySeq
    <3>3. IsSequence(<<>>)
      BY EmptySeq DEF IsSequence
    <3> QED BY <3>1, <3>2, <3>3
  <2>2. CASE f # new
    BY <1>1, <1>6, <2>2 DEF StoreInv, LineOf
  <2> QED BY <2>1, <2>2
<1>8. ASSUME NEW f \in DOMAIN data' PROVE f[2] <= Cardinality(FilesNamed(f[1]))'
  <2>1. CASE f[1] = s
    <3>1. FilesNamed(s)' = FilesNamed(s) \cup {new} /\ new \notin FilesNamed(s)
      BY <1>1, <1>2, <1>3 DEF FilesNamed
    <3>2. Cardinality(FilesNamed(s) \cup {new}) = Cardinality(FilesNamed(s)) + 1
      BY <1>2, <3>1, FS_AddElement
    <3>3. f \in DOMAIN data => f[2] <= Cardinality(FilesNamed(s)) /\ f[2] \in Nat
      BY <2>1 DEF StoreInv
    <3>4. f[2] <= Cardinality(FilesNamed(s)) + 1
      BY <1>2, <1>3, <1>6, <3>3
    <3> QED BY <2>1, <3>1, <3>2, <3>4
  <2>2. CASE f[1] # s
    <3>1. f \in DOMAIN data /\ FilesNamed(f[1])' = FilesNamed(f[1])
      BY <1>1, <1>3, <2>2 DEF FilesNamed
    <3> QED BY <3>1 DEF StoreInv
  <2> QED BY <2>1, <2>2
<1>9. StoreInv'
  BY <1>1, <1>4, <1>5, <1>6, <1>7, <1>8 DEF StoreInv
<1>10. Grows
  <2>1. \A x \in DOMAIN seg : seg'[x] = seg[x]
    BY <1>1
  <2>2. \A k \in DOMAIN data'[new] : FALSE
    BY <1>6, EmptySeq
  <2>3. written' = written /\ written \in Nat
    BY <1>1 DEF StoreInv
  <2> QED BY <1>6, <2>1, <2>2, <2>3 DEF Grows
<1> QED BY <1>1, <1>9, <1>10

\* Appending a line keeps every line where it is.
LEMMA AppendStore ==
    ASSUME StoreInv, NEW c \in Containers, NEW t \in Times, AppendLine(c, t)
    PROVE  StoreInv' /\ Grows /\ seg' = seg
<1> DEFINE f0 == <<<<Day(t), c>>, seg[<<Day(t), c>>]>>
           line == [id |-> written + 1, ts |-> t]
<1>1. /\ data' = [data EXCEPT ![f0] = Append(@, line)] /\ seg' = seg
      /\ f0 \in DOMAIN data /\ written' = written + 1 /\ written \in Nat
  BY DEF AppendLine, StoreInv
<1>2. /\ f0[1][1] = Day(t) /\ line.id = written + 1 /\ line.ts = t
  OBVIOUS
<1> HIDE DEF f0, line
<1>3. /\ DOMAIN data' = DOMAIN data /\ data' = [f \in DOMAIN data' |-> data'[f]]
      /\ \A f \in DOMAIN data : data'[f] = IF f = f0 THEN Append(data[f], line) ELSE data[f]
  BY <1>1 DEF StoreInv
<1>4. ASSUME NEW f \in DOMAIN data
      PROVE  /\ IsSequence(data'[f])
             /\ \A k \in DOMAIN data[f] : k \in DOMAIN data'[f] /\ data'[f][k] = data[f][k]
             /\ \A k \in DOMAIN data'[f] :
                   k \in DOMAIN data[f] \/ (f = f0 /\ data'[f][k] = line)
  <2>1. IsSequence(data[f])
    BY DEF StoreInv
  <2>2. CASE f = f0
    <3>1. data'[f] = Append(data[f], line)
      BY <1>3, <2>2
    <3> QED BY <2>1, <2>2, <3>1, LongerSequence
  <2>3. CASE f # f0
    BY <1>3, <2>1, <2>3
  <2> QED BY <2>2, <2>3
<1>5. ASSUME NEW f \in DOMAIN data', NEW k \in DOMAIN data'[f]
      PROVE  LineOf(f, data[f][k])' /\ (k \in DOMAIN data[f] \/ data'[f][k].id > written)
  <2>1. CASE k \in DOMAIN data[f]
    <3>1. LineOf(f, data[f][k]) /\ data'[f][k] = data[f][k]
      BY <1>3, <1>4, <2>1 DEF StoreInv
    <3>2. /\ data[f][k].id \in Nat /\ data[f][k].id <= written + 1
          /\ data[f][k].ts \in Times /\ Day(data[f][k].ts) = f[1][1]
      BY <1>1, <3>1 DEF LineOf
    <3> QED BY <1>1, <2>1, <3>1, <3>2 DEF LineOf
  <2>2. CASE k \notin DOMAIN data[f]
    <3>1. f = f0 /\ data'[f][k] = line
      BY <1>3, <1>4, <2>2
    <3>2. line.id \in Nat /\ line.id > written /\ line.id <= written'
      BY <1>1, <1>2
    <3> QED BY <1>2, <3>1, <3>2 DEF LineOf
  <2> QED BY <2>1, <2>2
<1>6. \A f \in DOMAIN data' : f[2] <= Cardinality(FilesNamed(f[1]))'
  <2>1. \A s : FilesNamed(s)' = FilesNamed(s)
    BY <1>3 DEF FilesNamed
  <2> QED BY <1>3, <2>1 DEF StoreInv
<1>7. StoreInv'
  <2>1. \A f \in DOMAIN data' :
            IsSequence(data'[f]) /\ \A k \in DOMAIN data'[f] : LineOf(f, data[f][k])'
    BY <1>3, <1>4, <1>5
  <2>2. written' \in Nat
    BY <1>1
  <2> QED BY <1>1, <1>3, <1>6, <2>1, <2>2 DEF StoreInv
<1>8. Grows
  <2>1. written <= written' /\ written' \in Nat
    BY <1>1
  <2> QED BY <1>1, <1>3, <1>4, <1>5, <2>1 DEF Grows
<1> QED BY <1>1, <1>7, <1>8

\* Removing a segment leaves its file to those who have it open.
LEMMA DeleteStore ==
    ASSUME StoreInv, NEW s \in Segments, DeleteSegment(s)
    PROVE  StoreInv' /\ Grows
<1>1. seg' = [x \in DOMAIN seg \ {s} |-> seg[x]] /\ data' = data /\ written' = written
  BY DEF DeleteSegment
<1>2. DOMAIN seg' \in SUBSET DOMAIN seg /\ IsFiniteSet(DOMAIN seg)
  BY <1>1 DEF StoreInv
<1>3. IsFiniteSet(DOMAIN seg')
  BY <1>2, FS_Subset
<1>4. /\ seg' \in [DOMAIN seg' -> Nat] /\ DOMAIN seg' \subseteq Segments
      /\ \A x \in DOMAIN seg' : <<x, seg'[x]>> \in DOMAIN data'
  BY <1>1 DEF StoreInv
<1>5. \A x : FilesNamed(x)' = FilesNamed(x)
  BY <1>1 DEF FilesNamed
<1>6. \A f, x : LineOf(f, x)' <=> LineOf(f, x)
  BY <1>1 DEF LineOf
<1>7. StoreInv'
  BY <1>1, <1>3, <1>4, <1>5, <1>6 DEF StoreInv
<1>8. Grows
  BY <1>1 DEF Grows, StoreInv
<1> QED BY <1>7, <1>8

\* So does every step of the store: files only grow.
LEMMA StoreMoves ==
    ASSUME StoreInv, StoreNext
    PROVE  StoreInv' /\ Grows
<1>1. ASSUME NEW s \in Segments, CreateSegment(s) \/ DeleteSegment(s)
      PROVE  StoreInv' /\ Grows
  BY <1>1, CreateStore, DeleteStore
<1>2. ASSUME NEW c \in Containers, NEW t \in Times, AppendLine(c, t)
      PROVE  StoreInv' /\ Grows
  BY <1>2, AppendStore
<1> QED BY <1>1, <1>2 DEF StoreNext

\* The store starts with each line in the segment of its day.
LEMMA StoreStarts == StoreInit => StoreInv /\ LinesInv /\ FilesInv
<1>1. SUFFICES
        ASSUME NEW n \in 0..FirstLines, NEW line \in [1..n -> Containers \X Times],
               NEW new \in {{}} \cup {{s} : s \in Segments},
               LET segment(i) == <<Day(line[i][2]), line[i][1]>>
                   names == new \cup {segment(i) : i \in 1..n}
                   own(s) == {i \in 1..n : segment(i) = s}
                   held(s) == [k \in 1..Cardinality(own(s)) |->
                       LET i == CHOOSE i \in own(s) : Cardinality({j \in own(s) : j <= i}) = k
                       IN  [id |-> i, ts |-> line[i][2]]]
               IN  /\ seg = [s \in names |-> 1]
                   /\ data = [f \in names \X {1} |-> held(f[1])]
                   /\ written = FirstLines /\ changes = 0
        PROVE  StoreInv /\ LinesInv /\ FilesInv
  BY ZenonT(40) DEF StoreInit
<1> DEFINE segment(i) == <<Day(line[i][2]), line[i][1]>>
           names == new \cup {segment(i) : i \in 1..n}
           own(s) == {i \in 1..n : segment(i) = s}
           number(s, k) == CHOOSE i \in own(s) : Cardinality({j \in own(s) : j <= i}) = k
           held(s) == [k \in 1..Cardinality(own(s)) |->
                [id |-> number(s, k), ts |-> line[number(s, k)][2]]]
<1>2. data = [f \in names \X {1} |-> held(f[1])] /\ written = FirstLines /\ changes = 0
  BY <1>1
<1>3. seg = [s \in names |-> 1]
  BY <1>1
<1>4. n \in Nat /\ n <= FirstLines /\ FirstLines \in Nat
  BY StoreAssumption
<1>5. IsFiniteSet(1..n)
  BY <1>4, FS_Interval
<1>6. IsFiniteSet(names)
  <2> DEFINE named == [i \in 1..n |-> segment(i)]
             image == {segment(i) : i \in 1..n}
  <2>1. named \in Surjection(1..n, image)
    <3>1. named \in [1..n -> image] /\ \A s \in image : \E i \in 1..n : named[i] = s
      OBVIOUS
    <3> HIDE DEF named, image
    <3> QED BY <3>1 DEF Surjection
  <2>2. IsFiniteSet(image)
    <3> HIDE DEF named, image
    <3> QED BY <1>5, <2>1, FS_Surjection
  <2>3. CASE new = {}
    BY <2>2, <2>3
  <2>4. ASSUME NEW s \in Segments, new = {s} PROVE IsFiniteSet(names)
    <3>1. names = image \cup {s}
      BY <2>4
    <3> HIDE DEF image, names
    <3> QED BY <2>2, <3>1, FS_AddElement
  <2> QED BY <2>3, <2>4
<1>7. IsFiniteSet(names \X {1})
  <2> DEFINE name == [f \in names \X {1} |-> f[1]]
  <2>1. name \in [names \X {1} -> names] /\ \A f, g \in names \X {1} : name[f] = name[g] => f = g
    <3> HIDE DEF names
    <3> QED OBVIOUS
  <2>2. name \in Injection(names \X {1}, names)
    <3> HIDE DEF name, names
    <3> QED BY <2>1 DEF Injection, IsInjective
  <2> HIDE DEF name, names
  <2> QED BY <1>6, <2>2, FS_Injection
<1>8. ASSUME NEW s
      PROVE  /\ IsFiniteSet(own(s)) /\ Cardinality(own(s)) \in Nat
             /\ \A k \in 1..Cardinality(own(s)) : number(s, k) \in own(s)
             /\ \A k, l \in 1..Cardinality(own(s)) : number(s, k) = number(s, l) => k = l
  <2>1. own(s) \in SUBSET (1..n) /\ own(s) \in SUBSET Nat
    BY <1>4
  <2> HIDE DEF own
  <2>2. IsFiniteSet(own(s)) /\ Cardinality(own(s)) \in Nat
    BY <1>5, <2>1, FS_Subset, FS_CardinalityType
  <2>3. \A k \in 1..Cardinality(own(s)) :
            \E i \in own(s) : Cardinality({j \in own(s) : j <= i}) = k
    BY <2>1, <2>2, RankedNumbers
  <2>4. \A k \in 1..Cardinality(own(s)) :
            number(s, k) \in own(s) /\ Cardinality({j \in own(s) : j <= number(s, k)}) = k
    BY <2>3
  <2> HIDE DEF number
  <2> QED BY <2>2, <2>4
<1>9. \A i \in 1..n : line[i][2] \in Times /\ Day(line[i][2]) = segment(i)[1]
  OBVIOUS
<1>10. ASSUME NEW s, NEW k \in 1..Cardinality(own(s))
      PROVE  /\ number(s, k) \in 1..n /\ segment(number(s, k)) = s
  <2>1. number(s, k) \in own(s)
    BY <1>8
  <2> HIDE DEF number, segment
  <2> QED BY <2>1
<1>11. ASSUME NEW f \in DOMAIN data
      PROVE  /\ IsSequence(data[f]) /\ \A k \in DOMAIN data[f] : LineOf(f, data[f][k])
             /\ \A k \in DOMAIN data[f] :
                   /\ k \in 1..Cardinality(own(f[1])) /\ data[f][k].id = number(f[1], k)
                   /\ data[f][k] \in [id : Nat, ts : Times]
  <2>1. data[f] = held(f[1])
    <3> HIDE DEF held, names
    <3> QED BY <1>2
  <2>2. Cardinality(own(f[1])) \in Nat
    BY <1>8
  <2>3. IsSequence(data[f])
    <3>1. held(f[1]) = [k \in 1..Cardinality(own(f[1])) |-> held(f[1])[k]]
      OBVIOUS
    <3> HIDE DEF held, own
    <3> QED BY <2>1, <2>2, <3>1, SequenceOf
  <2>4. ASSUME NEW k \in DOMAIN data[f]
        PROVE  /\ LineOf(f, data[f][k]) /\ data[f][k].id = number(f[1], k)
               /\ data[f][k] \in [id : Nat, ts : Times]
    <3>1. k \in 1..Cardinality(own(f[1]))
      <4> HIDE DEF own
      <4> QED BY <2>1
    <3>2. number(f[1], k) \in 1..n /\ segment(number(f[1], k)) = f[1]
      BY <1>10, <3>1
    <3> DEFINE record(j) == [id |-> number(f[1], j), ts |-> line[number(f[1], j)][2]]
    <3>3. data[f][k] = record(k)
      <4>1. held(f[1]) = [j \in 1..Cardinality(own(f[1])) |-> record(j)]
        OBVIOUS
      <4> HIDE DEF own, number, held, record
      <4> QED BY <2>1, <3>1, <4>1
    <3>6. data[f][k].id = number(f[1], k) /\ data[f][k].ts = line[number(f[1], k)][2]
      <4> HIDE DEF own, number, held
      <4> QED BY <3>3
    <3>7. data[f][k] = [id |-> number(f[1], k), ts |-> line[number(f[1], k)][2]]
      <4> HIDE DEF own, number, held
      <4> QED BY <3>3
    <3> HIDE DEF number, segment, own, held, record
    <3>4. line[number(f[1], k)][2] \in Times /\ Day(line[number(f[1], k)][2]) = f[1][1]
      BY <1>9, <3>2
    <3>5. number(f[1], k) \in Nat /\ number(f[1], k) <= FirstLines
      <4>1. \A i \in 1..n : i \in Nat /\ i <= FirstLines
        BY <1>4
      <4> QED BY <3>2, <4>1
    <3> QED BY <1>2, <3>4, <3>5, <3>6, <3>7 DEF LineOf
  <2>5. \A k \in DOMAIN data[f] : k \in 1..Cardinality(own(f[1]))
    <3> HIDE DEF own
    <3> QED BY <2>1
  <2> HIDE DEF own, number
  <2> QED BY <2>3, <2>4, <2>5
<1>19. ASSUME NEW f \in DOMAIN data, NEW g \in DOMAIN data, NEW k \in DOMAIN data[f],
              NEW l \in DOMAIN data[g], data[f][k].id = data[g][l].id
       PROVE  f = g /\ k = l
  <2>1. /\ k \in 1..Cardinality(own(f[1])) /\ l \in 1..Cardinality(own(g[1]))
        /\ number(f[1], k) = number(g[1], l)
    <3> HIDE DEF own, number
    <3> QED BY <1>11, <1>19
  <2>2. f[1] = g[1]
    <3> HIDE DEF own, number, segment
    <3> QED BY <1>10, <2>1
  <2>3. f \in names \X {1} /\ g \in names \X {1}
    <3> HIDE DEF names, held
    <3> QED BY <1>2
  <2>4. f = g
    <3> HIDE DEF names
    <3> QED BY <2>2, <2>3
  <2> HIDE DEF own, number, names
  <2> QED BY <1>8, <2>1, <2>4
<1> HIDE DEF names, held, own, number, segment
<1>12. /\ data = [f \in DOMAIN data |-> data[f]] /\ DOMAIN data = names \X {1}
       /\ seg \in [DOMAIN seg -> Nat] /\ DOMAIN seg = names
       /\ \A s \in DOMAIN seg : <<s, seg[s]>> \in DOMAIN data
  <2>1. /\ seg \in [names -> Nat] /\ DOMAIN seg = names /\ \A s \in names : seg[s] = 1
    BY <1>3
  <2>2. data = [f \in DOMAIN data |-> data[f]] /\ DOMAIN data = names \X {1}
    BY <1>2
  <2> QED BY <2>1, <2>2
<1>13. ASSUME NEW f \in DOMAIN data PROVE f[2] <= Cardinality(FilesNamed(f[1]))
  <2>1. FilesNamed(f[1]) \in SUBSET DOMAIN data /\ f \in FilesNamed(f[1]) /\ f[2] = 1
    BY <1>12 DEF FilesNamed
  <2>2. IsFiniteSet(FilesNamed(f[1]))
    BY <1>7, <1>12, <2>1, FS_Subset
  <2>3. Cardinality(FilesNamed(f[1])) \in Nat /\ Cardinality(FilesNamed(f[1])) # 0
    <3>1. FilesNamed(f[1]) # {}
      BY <2>1
    <3> QED BY <2>2, <3>1, FS_CardinalityType, FS_EmptySet
  <2> QED BY <2>1, <2>3
<1>14. names \subseteq Segments /\ DOMAIN data \subseteq Segments \X Nat
  <2>1. names \subseteq Segments
    BY DEF names, segment, Segments, Days
  <2> QED BY <1>12, <2>1
<1>15. StoreInv
  <2>1. \A f \in DOMAIN data :
            IsSequence(data[f]) /\ \A k \in DOMAIN data[f] : LineOf(f, data[f][k])
    BY <1>11
  <2> QED BY <1>2, <1>4, <1>6, <1>7, <1>12, <1>13, <1>14, <2>1 DEF StoreInv
<1>16. ASSUME NEW s \in Segments PROVE Cardinality(FilesNamed(s)) <= changes + 1
  <2> DEFINE name == <<s, 1>>
  <2>1. FilesNamed(s) \in SUBSET {name}
    BY <1>12 DEF FilesNamed
  <2> HIDE DEF name
  <2>2. IsFiniteSet({name}) /\ Cardinality({name}) = 1
    BY FS_Singleton
  <2>3. IsFiniteSet(FilesNamed(s)) /\ Cardinality(FilesNamed(s)) <= 1
    BY <2>1, <2>2, FS_Subset
  <2> QED BY <1>2, <2>3
<1>17. \A f \in DOMAIN data : f[2] >= 1
  BY <1>12
<1>18. \A f \in DOMAIN data : \A k \in DOMAIN data[f] : data[f][k] \in [id : Nat, ts : Times]
  BY <1>11
<1>20. changes \in Nat /\ changes <= MaxChanges
  BY <1>2, StoreAssumption
<1>21. LinesInv
  BY <1>16, <1>17, <1>18, <1>19, <1>20 DEF LinesInv
<1>22. FilesInv
  <2>1. \A f \in DOMAIN data : f[1] \in DOMAIN seg => f[2] <= seg[f[1]]
    BY <1>3, <1>12
  <2>2. ASSUME NEW f \in DOMAIN data, NEW k \in DOMAIN data[f] PROVE k <= written
    <3>1. own(f[1]) \in SUBSET (1..n)
      <4> HIDE DEF segment, names, number, held
      <4> QED BY <1>4 DEF own
    <3>2. IsFiniteSet(1..n) /\ Cardinality(1..n) = n
      <4>1. 1 \in Int /\ n \in Int
        BY <1>4
      <4>2. Cardinality(1..n) = IF 1 > n THEN 0 ELSE n - 1 + 1
        BY <4>1, FS_Interval
      <4> QED BY <1>4, <1>5, <4>2
    <3>3. k \in 1..Cardinality(own(f[1]))
      BY <1>11
    <3> HIDE DEF own
    <3>4. Cardinality(own(f[1])) <= n /\ Cardinality(own(f[1])) \in Nat
      BY <1>8, <3>1, <3>2, FS_Subset
    <3> QED BY <1>2, <1>4, <3>3, <3>4
  <2>3. written <= FirstLines + changes
    BY <1>2, <1>4
  <2> QED BY <2>1, <2>2, <2>3 DEF FilesInv
<1> QED BY <1>15, <1>21, <1>22

\* A file that is new has no line.
LEMMA CreateLines ==
    ASSUME StoreInv, LinesInv, NEW s \in Segments, CreateSegment(s)
    PROVE  LinesInv' /\ \A x \in DOMAIN seg' \ DOMAIN seg : DOMAIN data'[<<x, seg'[x]>>] = {}
<1> DEFINE file == 1 + Cardinality(FilesNamed(s))
           new == <<s, file>>
<1>1. /\ seg' = [x \in DOMAIN seg \cup {s} |-> IF x = s THEN file ELSE seg[x]]
      /\ data' = [f \in DOMAIN data \cup {new} |-> IF f = new THEN <<>> ELSE data[f]]
      /\ changes < MaxChanges /\ changes' = changes + 1
  BY DEF CreateSegment, Change, FilesNamed
<1>2. IsFiniteSet(FilesNamed(s)) /\ Cardinality(FilesNamed(s)) \in Nat
  <2>1. FilesNamed(s) \in SUBSET DOMAIN data /\ IsFiniteSet(DOMAIN data)
    BY DEF FilesNamed, StoreInv
  <2> QED BY <2>1, FS_Subset, FS_CardinalityType
<1>3. new[1] = s /\ new[2] >= 1
  BY <1>2
<1>4. \A x \in DOMAIN seg' \ DOMAIN seg : <<x, seg'[x]>> = new
  BY <1>1
<1> HIDE DEF new, file
<1>5. /\ data'[new] = <<>> /\ DOMAIN data'[new] = {}
      /\ DOMAIN data' = DOMAIN data \cup {new}
  BY <1>1, EmptySeq
<1>6. \A f \in DOMAIN data' : \A k \in DOMAIN data'[f] : f \in DOMAIN data /\ data'[f] = data[f]
  BY <1>1, <1>5
<1>7. ASSUME NEW x \in Segments PROVE Cardinality(FilesNamed(x))' <= changes' + 1
  <2>1. Cardinality(FilesNamed(x)) <= changes + 1 /\ changes \in Nat
    BY DEF LinesInv
  <2>2. Cardinality(FilesNamed(x)) \in Nat
    <3>1. FilesNamed(x) \in SUBSET DOMAIN data /\ IsFiniteSet(DOMAIN data)
      BY DEF FilesNamed, StoreInv
    <3> QED BY <3>1, FS_Subset, FS_CardinalityType
  <2>3. CASE x = s
    <3>1. FilesNamed(s)' = FilesNamed(s) \cup {new}
      BY <1>3, <1>5 DEF FilesNamed
    <3>2. Cardinality(FilesNamed(s) \cup {new}) =
              IF new \in FilesNamed(s) THEN Cardinality(FilesNamed(s))
              ELSE Cardinality(FilesNamed(s)) + 1
      BY <1>2, FS_AddElement
    <3> QED BY <1>1, <2>1, <2>2, <2>3, <3>1, <3>2
  <2>4. CASE x # s
    <3>1. FilesNamed(x)' = FilesNamed(x)
      BY <1>3, <1>5, <2>4 DEF FilesNamed
    <3> QED BY <1>1, <2>1, <2>2, <3>1
  <2> QED BY <2>3, <2>4
<1>8. \A f \in DOMAIN data' : f[2] >= 1
  BY <1>3, <1>5 DEF LinesInv
<1>9. changes' \in Nat /\ changes' <= MaxChanges
  BY <1>1, StoreAssumption DEF LinesInv
<1>10. LinesInv'
  BY <1>6, <1>7, <1>8, <1>9 DEF LinesInv
<1> QED BY <1>4, <1>5, <1>10

\* A line written has a number of its own, the highest.
LEMMA AppendLines ==
    ASSUME StoreInv, LinesInv, NEW c \in Containers, NEW t \in Times, AppendLine(c, t)
    PROVE  LinesInv'
<1> DEFINE f0 == <<<<Day(t), c>>, seg[<<Day(t), c>>]>>
           line == [id |-> written + 1, ts |-> t]
<1>1. /\ data' = [data EXCEPT ![f0] = Append(@, line)]
      /\ f0 \in DOMAIN data /\ written \in Nat
      /\ changes < MaxChanges /\ changes' = changes + 1
  BY DEF AppendLine, Change, StoreInv
<1>2. line \in [id : Nat, ts : Times] /\ line.id = written + 1
  BY <1>1
<1> HIDE DEF f0, line
<1>3. /\ DOMAIN data' = DOMAIN data
      /\ \A f \in DOMAIN data : data'[f] = IF f = f0 THEN Append(data[f], line) ELSE data[f]
  BY <1>1 DEF StoreInv
<1>4. ASSUME NEW f \in DOMAIN data', NEW k \in DOMAIN data'[f]
      PROVE  \/ k \in DOMAIN data[f] /\ data'[f][k] = data[f][k]
             \/ f = f0 /\ k = Len(data[f0]) + 1 /\ data'[f][k] = line
  <2>1. IsSequence(data[f]) /\ f \in DOMAIN data
    BY <1>3 DEF StoreInv
  <2>2. CASE f = f0
    <3>1. data'[f] = Append(data[f], line)
      BY <1>3, <2>1, <2>2
    <3> QED BY <2>1, <2>2, <3>1, LongerSequence
  <2>3. CASE f # f0
    BY <1>3, <2>1, <2>3
  <2> QED BY <2>2, <2>3
<1>5. \A f \in DOMAIN data : \A k \in DOMAIN data[f] :
          data[f][k].id \in Nat /\ data[f][k].id # line.id
  BY <1>1, <1>2 DEF StoreInv, LineOf
<1>6. \A f \in DOMAIN data' : \A k \in DOMAIN data'[f] :
          data'[f][k] \in [id : Nat, ts : Times]
  BY <1>2, <1>3, <1>4 DEF LinesInv
<1>7. ASSUME NEW f \in DOMAIN data', NEW g \in DOMAIN data', NEW k \in DOMAIN data'[f],
             NEW l \in DOMAIN data'[g], data'[f][k].id = data'[g][l].id
      PROVE  f = g /\ k = l
  <2>1. CASE /\ k \in DOMAIN data[f] /\ data'[f][k] = data[f][k]
             /\ l \in DOMAIN data[g] /\ data'[g][l] = data[g][l]
    BY <1>3, <1>7, <2>1 DEF LinesInv
  <2>2. CASE /\ f = f0 /\ k = Len(data[f0]) + 1 /\ data'[f][k] = line
             /\ g = f0 /\ l = Len(data[f0]) + 1 /\ data'[g][l] = line
    BY <2>2
  <2>3. CASE /\ k \in DOMAIN data[f] /\ data'[f][k] = data[f][k] /\ data'[g][l] = line
    BY <1>3, <1>5, <1>7, <2>3
  <2>4. CASE /\ l \in DOMAIN data[g] /\ data'[g][l] = data[g][l] /\ data'[f][k] = line
    BY <1>3, <1>5, <1>7, <2>4
  <2> QED BY <1>4, <2>1, <2>2, <2>3, <2>4
<1>8. \A s : FilesNamed(s)' = FilesNamed(s)
  BY <1>3 DEF FilesNamed
<1>9. ASSUME NEW s \in Segments PROVE Cardinality(FilesNamed(s))' <= changes' + 1
  <2>1. FilesNamed(s) \in SUBSET DOMAIN data /\ IsFiniteSet(DOMAIN data)
    BY DEF FilesNamed, StoreInv
  <2>2. Cardinality(FilesNamed(s)) \in Nat
    BY <2>1, FS_Subset, FS_CardinalityType
  <2>3. Cardinality(FilesNamed(s)) <= changes + 1 /\ changes \in Nat
    BY DEF LinesInv
  <2> QED BY <1>1, <1>8, <2>2, <2>3
<1>10. changes' \in Nat /\ changes' <= MaxChanges
  BY <1>1, StoreAssumption DEF LinesInv
<1>11. \A f \in DOMAIN data' : f[2] >= 1
  BY <1>3 DEF LinesInv
<1> QED BY <1>6, <1>7, <1>9, <1>10, <1>11 DEF LinesInv

\* Removing a segment changes no line.
LEMMA DeleteLines ==
    ASSUME StoreInv, LinesInv, NEW s \in Segments, DeleteSegment(s)
    PROVE  LinesInv'
<1>1. data' = data /\ changes < MaxChanges /\ changes' = changes + 1
  BY DEF DeleteSegment, Change
<1>2. ASSUME NEW x \in Segments PROVE Cardinality(FilesNamed(x))' <= changes' + 1
  <2>1. FilesNamed(x) \in SUBSET DOMAIN data /\ IsFiniteSet(DOMAIN data)
    BY DEF FilesNamed, StoreInv
  <2>2. Cardinality(FilesNamed(x)) \in Nat
    BY <2>1, FS_Subset, FS_CardinalityType
  <2>3. Cardinality(FilesNamed(x)) <= changes + 1 /\ changes \in Nat
    BY DEF LinesInv
  <2>4. FilesNamed(x)' = FilesNamed(x)
    BY <1>1 DEF FilesNamed
  <2> QED BY <1>1, <2>2, <2>3, <2>4
<1>3. changes' \in Nat /\ changes' <= MaxChanges
  BY <1>1, StoreAssumption DEF LinesInv
<1> QED BY <1>1, <1>2, <1>3 DEF LinesInv

\* Lines stay as they are numbered, and a segment that appears is empty.
LEMMA LinesMove ==
    ASSUME StoreInv, LinesInv, StoreNext
    PROVE  LinesInv' /\ \A x \in DOMAIN seg' \ DOMAIN seg : DOMAIN data'[<<x, seg'[x]>>] = {}
<1>1. ASSUME NEW s \in Segments, CreateSegment(s)
      PROVE  LinesInv' /\ \A x \in DOMAIN seg' \ DOMAIN seg : DOMAIN data'[<<x, seg'[x]>>] = {}
  BY <1>1, CreateLines
<1>2. ASSUME NEW s \in Segments, DeleteSegment(s)
      PROVE  LinesInv' /\ DOMAIN seg' \subseteq DOMAIN seg
  BY <1>2, DeleteLines DEF DeleteSegment
<1>3. ASSUME NEW c \in Containers, NEW t \in Times, AppendLine(c, t)
      PROVE  LinesInv' /\ seg' = seg
  BY <1>3, AppendLines DEF AppendLine
<1> QED BY <1>1, <1>2, <1>3 DEF StoreNext

-----------------------------------------------------------------------------
(* The search. *)

\* The jobs are the segments of the range, each once.
LEMMA SortedLists ==
    ASSUME NEW S \in SUBSET Segments, IsFiniteSet(S), NEW newestFirst \in BOOLEAN
    PROVE  /\ Sorted(S, newestFirst) \in Seq(S)
           /\ \A i, j \in 1..Len(Sorted(S, newestFirst)) :
                 Sorted(S, newestFirst)[i] = Sorted(S, newestFirst)[j] => i = j
           /\ \A s \in S : \E i \in 1..Len(Sorted(S, newestFirst)) :
                 Sorted(S, newestFirst)[i] = s
<1> DEFINE key(s) == IF newestFirst THEN <<-s[1], s[2]>> ELSE s
           K == {key(s) : s \in S}
           keys == InOrder(K)
           n == Cardinality(K)
<1>1. ASSUME NEW s \in S PROVE key(s) \in Int \X Int /\ key(key(s)) = s
  <2>1. s[1] \in Int /\ s[2] \in Nat /\ s = <<s[1], s[2]>>
    BY DayTyped
  <2>2. CASE newestFirst
    <3>1. -s[1] \in Int /\ -(-s[1]) = s[1]
      BY <2>1
    <3>2. key(s) = <<-s[1], s[2]>> /\ key(key(s)) = <<-(-s[1]), s[2]>>
      BY <2>2
    <3> HIDE DEF key
    <3> QED BY <2>1, <3>1, <3>2
  <2>3. CASE ~newestFirst
    BY <2>1, <2>3
  <2> QED BY <2>2, <2>3
<1>2. IsFiniteSet(K)
  <2> DEFINE f == [s \in S |-> key(s)]
  <2>1. f \in [S -> K] /\ \A k \in K : \E s \in S : f[s] = k
    OBVIOUS
  <2>2. f \in Surjection(S, K)
    <3> HIDE DEF f, K
    <3> QED BY <2>1 DEF Surjection
  <2> HIDE DEF f, K
  <2> QED BY <2>2, FS_Surjection
<1>3. K \in SUBSET (Int \X Int)
  <2>1. \A s \in S : key(s) \in Int \X Int
    BY <1>1, Zenon
  <2> HIDE DEF key
  <2> QED BY <2>1
<1>4. /\ n \in Nat /\ keys \in [1..n -> K]
      /\ \A i, j \in 1..n : i < j => Below(keys[i], keys[j])
      /\ \A k \in K : \E i \in 1..n : keys[i] = k
  <2> HIDE DEF K
  <2>1. Ordered(K)
    BY <1>3, PairsOrdered DEF Ordered
  <2> QED BY <1>2, <2>1, InOrderLists
<1>5. Sorted(S, newestFirst) = [i \in 1..n |-> key(keys[i])]
  <2>1. DOMAIN keys = 1..n
    BY <1>4
  <2> QED BY <2>1 DEF Sorted
<1>6. ASSUME NEW i \in 1..n
      PROVE  /\ Sorted(S, newestFirst)[i] = key(keys[i]) /\ keys[i] \in K
             /\ key(keys[i]) \in S /\ key(key(keys[i])) = keys[i]
  <2>1. keys[i] \in K
    <3> HIDE DEF keys, K
    <3> QED BY <1>4
  <2>2. PICK s \in S : keys[i] = key(s)
    BY <2>1
  <2> HIDE DEF key, keys, n
  <2> QED BY <1>1, <1>5, <2>1, <2>2
<1>7. Sorted(S, newestFirst) \in Seq(S) /\ Len(Sorted(S, newestFirst)) = n
  <2> HIDE DEF key, keys, n
  <2>1. Sorted(S, newestFirst) \in [1..n -> S]
    BY <1>5, <1>6
  <2>2. n \in Nat
    BY <1>4
  <2>3. Sorted(S, newestFirst) \in Seq(S)
    BY <2>1, <2>2, SeqDef
  <2>4. DOMAIN Sorted(S, newestFirst) = 1..Len(Sorted(S, newestFirst))
        /\ Len(Sorted(S, newestFirst)) \in Nat
    BY <2>3, LenProperties
  <2> QED BY <2>1, <2>2, <2>3, <2>4
<1>8. ASSUME NEW i \in 1..n, NEW j \in 1..n,
             Sorted(S, newestFirst)[i] = Sorted(S, newestFirst)[j]
      PROVE  i = j
  <2>1. keys[i] = keys[j]
    <3> HIDE DEF key, keys, n
    <3> QED BY <1>6, <1>8
  <2>2. ~Below(keys[i], keys[j]) /\ ~Below(keys[j], keys[i])
    <3>1. keys[i] \in Int \X Int
      <4> HIDE DEF keys, K
      <4> QED BY <1>3, <1>6
    <3>2. ~Below(keys[i], keys[i])
      <4> HIDE DEF keys
      <4> QED BY <3>1, BelowPairs
    <3> QED BY <2>1, <3>2
  <2> HIDE DEF keys
  <2>3. ~(i < j) /\ ~(j < i) /\ i \in Nat /\ j \in Nat
    BY <1>4, <2>2
  <2> QED BY <2>3
<1>9. ASSUME NEW s \in S PROVE \E i \in 1..n : Sorted(S, newestFirst)[i] = s
  <2>1. key(s) \in K
    OBVIOUS
  <2> HIDE DEF key, keys, n, K
  <2>2. PICK i \in 1..n : keys[i] = key(s)
    BY <1>4, <2>1
  <2> QED BY <1>1, <1>6, <2>2
<1> QED BY <1>7, <1>8, <1>9

\* Day, of two times: it does not decrease.
LEMMA Division ==
    ASSUME NEW a \in Nat, NEW b \in Nat, a <= b, NEW n \in Nat \ {0}
    PROVE  a \div n <= b \div n /\ (a \div n) * n <= a
OBVIOUS

\* A line of the range of time is in a segment of the range.
LEMMA RangeOfLine ==
    ASSUME span \in {<<1, MaxTime>>, <<2, MaxTime>>}, NEW line, line.ts \in Times, Matches(line),
           NEW s, s[1] = Day(line.ts)
    PROVE  InRange(s)
<1> DEFINE first == span[1]
           t == line.ts
<1>1. first \in {1, 2} /\ span[2] = MaxTime
  OBVIOUS
<1>2. first - 1 \in Nat /\ t - 1 \in Nat /\ first - 1 <= t - 1 /\ t <= MaxTime
      /\ DayLength \in Nat \ {0} /\ MaxTime \in Nat
  BY <1>1, StoreAssumption DEF Times, Matches
<1> HIDE DEF first, t
<1>3. /\ (first - 1) \div DayLength <= (t - 1) \div DayLength
      /\ ((t - 1) \div DayLength) * DayLength <= t - 1
  <2> DEFINE a == first - 1
             b == t - 1
  <2>1. a \in Nat /\ b \in Nat /\ a <= b /\ DayLength \in Nat \ {0}
    BY <1>2
  <2> HIDE DEF a, b
  <2>2. a \div DayLength <= b \div DayLength /\ (b \div DayLength) * DayLength <= b
    BY <2>1, Division
  <2> QED BY <2>2 DEF a, b
<1>4. Day(first) <= s[1] /\ s[1] * DayLength <= t - 1 /\ s[1] = (t - 1) \div DayLength
  BY <1>3 DEF Day, t
<1>5. s[1] \in Int
  BY <1>2, <1>4
<1>6. s[1] * DayLength \in Int
  BY <1>2, <1>5
<1>7. s[1] * DayLength + 1 <= MaxTime
  <2> DEFINE begins == s[1] * DayLength
  <2>1. begins \in Int /\ begins <= t - 1 /\ t \in Int /\ t <= MaxTime /\ MaxTime \in Int
    BY <1>2, <1>4, <1>6, StoreAssumption DEF t, Times
  <2> HIDE DEF begins
  <2>2. begins + 1 <= MaxTime
    BY <2>1
  <2> QED BY <2>2 DEF begins
<1> QED BY <1>1, <1>4, <1>7 DEF InRange, first

\* The search's invariant holds at first.
LEMMA StartsInv == Init => SearchInv
<1> SUFFICES ASSUME Init PROVE SearchInv
  OBVIOUS
<1>1. StoreInv /\ SearchInit /\ span \in {<<1, MaxTime>>, <<2, MaxTime>>}
  BY StoreStarts DEF Init, ReadsInit
<1>2. /\ jobs = <<>> /\ sent = <<>> /\ resultCh = <<>> /\ Len(jobs) = 0 /\ Len(sent) = 0
      /\ Len(resultCh) = 0 /\ jobs \in Seq(Segments) /\ sent \in Seq(Results)
      /\ resultCh \in Seq(Results)
  BY <1>1, EmptySeq DEF SearchInit
<1>3. worker = [w \in Workers |-> NoJob] /\ NoJob \in WorkerStates
  BY <1>1 DEF SearchInit, NoJob, WorkerStates, None
<1>4. \A w \in Workers : ~Busy(w)
  BY <1>3 DEF Busy, NoJob
<1>5. SearchTyped
  <2>1. before \in Nat /\ before <= written /\ todo \in 1..Len(jobs) + 1
    BY <1>1, <1>2 DEF SearchInit, StoreInv
  <2> QED BY <1>1, <1>2, <1>3, <2>1 DEF SearchTyped, SearchInit
<1>6. JobsInv /\ OrderInv
  BY <1>2, <1>4 DEF JobsInv, OrderInv
<1>7. EndInv /\ FindInv
  BY <1>1 DEF EndInv, FindInv, Undisturbed, SearchInit
<1> QED BY <1>1, <1>5, <1>6, <1>7 DEF SearchInv

\* The store's invariant reads nothing but the store.
LEMMA StoreStays == ASSUME StoreInv, UNCHANGED storeVars PROVE StoreInv'
<1>1. \A x : FilesNamed(x)' = FilesNamed(x)
  BY DEF FilesNamed, storeVars
<1>2. \A f, x : LineOf(f, x)' <=> LineOf(f, x)
  BY DEF LineOf, storeVars
<1> QED BY <1>1, <1>2 DEF StoreInv, storeVars

\* What a search is to find changes only with the store.
LEMMA WantedStays ==
    ASSUME UNCHANGED <<storeVars, span, before>>
    PROVE  Positions' = Positions /\ \A p : Wanted(p)' <=> Wanted(p)
BY DEF storeVars, Positions, Wanted, Stored, At, Matches

\* The store changes: a search has its segments still, and what it is to find was
\* there before.
LEMMA StoreKeeps ==
    ASSUME SearchInv, Store
    PROVE  SearchInv'
<1> USE DEF SearchInv
<1>1. /\ StoreInv' /\ Grows /\ UNCHANGED <<readVars, searchVars>>
      /\ request = "search" => DOMAIN seg' \subseteq DOMAIN seg
  BY StoreMoves DEF Store
<1>2. /\ UNCHANGED <<handler, before, jobs, todo, dispatching, worker, resultCh, closed>>
      /\ UNCHANGED <<stopCh, ctx, sent, request, span>>
  BY <1>1 DEF searchVars, readVars
<1>3. SearchTyped'
  <2>1. before <= written'
    BY <1>1 DEF SearchTyped, Grows
  <2>2. SearchInit' <=> SearchInit
    BY <1>2 DEF SearchInit
  <2> QED BY <1>2, <2>1, <2>2 DEF SearchTyped
<1>4. JobsInv'
  <2>1. \A f \in DOMAIN data : f \in DOMAIN data'
    BY <1>1 DEF Grows
  <2> QED BY <1>2, <2>1 DEF JobsInv, Busy, Dispatched
<1>5. OrderInv'
  BY <1>2 DEF OrderInv, Found, Busy, Dispatched, Comes
<1>6. EndInv'
  BY <1>2 DEF EndInv, Undisturbed
<1>7. ASSUME NEW p \in Positions', Wanted(p)', Undisturbed
      PROVE  p \in Positions /\ Wanted(p)
  <2> DEFINE s == SegmentOf(p)
             f == <<s, p[3]>>
  <2>1. /\ p \in Days \X Containers \X (1..MaxChanges + 1) \X (1..MaxLines)
        /\ f \in DOMAIN data' /\ p[4] \in DOMAIN data'[f]
        /\ s \in DOMAIN seg' /\ seg'[s] = p[3]
        /\ data'[f][p[4]].id <= before /\ At(p)' = data'[f][p[4]] /\ Matches(At(p))'
    BY <1>2, <1>7 DEF Positions, Wanted, Stored, At, SegmentOf
  <2> HIDE DEF f
  <2>2. data'[f][p[4]].id \in Nat
    BY <1>1, <2>1 DEF StoreInv, LineOf
  <2>3. f \in DOMAIN data /\ p[4] \in DOMAIN data[f]
    <3>1. ~(data'[f][p[4]].id > written)
      BY <2>1, <2>2 DEF SearchTyped, StoreInv
    <3> QED BY <1>1, <2>1, <3>1 DEF Grows
  <2>4. data'[f][p[4]] = data[f][p[4]]
    BY <1>1, <2>3 DEF Grows
  <2>5. s \in DOMAIN seg /\ seg[s] = p[3]
    BY <1>1, <1>7, <2>1 DEF SearchTyped, Undisturbed, Grows
  <2>6. p \in Positions /\ At(p) = data[f][p[4]]
    BY <2>1, <2>3 DEF Positions, At, f, SegmentOf
  <2>7. Matches(At(p)) /\ At(p).id <= before
    BY <1>2, <2>1, <2>4, <2>6 DEF Matches
  <2> QED BY <2>5, <2>6, <2>7 DEF Wanted, Stored, SegmentOf
<1>8. FindInv'
  <2> SUFFICES ASSUME Undisturbed', NEW p \in Positions', Wanted(p)'
               PROVE  ToScan(p)' \/ Scanned(p)' \/ WasFound(p)'
    BY DEF FindInv
  <2>1. Undisturbed
    BY <1>2 DEF Undisturbed
  <2>2. ToScan(p) \/ Scanned(p) \/ WasFound(p)
    BY <1>7, <2>1 DEF FindInv
  <2> QED BY <1>2, <2>2 DEF ToScan, Scanned, WasFound, Busy
<1> QED BY <1>1, <1>3, <1>4, <1>5, <1>6, <1>8

\* Search starts: the jobs are the segments listed, none taken.
LEMMA StartKeeps ==
    ASSUME SearchInv, UNCHANGED <<storeVars, readVars>>, request = "search", StartSearch
    PROVE  SearchInv'
<1> USE DEF SearchInv
<1> DEFINE S == {s \in DOMAIN seg : InRange(s)}
<1>1. /\ handler' = "receive" /\ before' = written /\ dispatching' = TRUE
      /\ UNCHANGED <<todo, worker, resultCh, closed, stopCh, ctx, sent>> /\ UNCHANGED storeVars
      /\ UNCHANGED <<request, span>> /\ SearchInit
  BY DEF StartSearch, SearchTyped, readVars
<1>2. PICK newestFirst \in BOOLEAN : jobs' = Sorted(S, newestFirst)
  BY DEF StartSearch
<1>3. S \in SUBSET Segments /\ IsFiniteSet(S)
  <2>1. S \in SUBSET DOMAIN seg /\ DOMAIN seg \subseteq Segments /\ IsFiniteSet(DOMAIN seg)
    BY DEF StoreInv
  <2> HIDE DEF S
  <2> QED BY <2>1, FS_Subset
<1>4. /\ jobs' \in Seq(S)
      /\ \A i, j \in 1..Len(jobs') : jobs'[i] = jobs'[j] => i = j
      /\ \A s \in S : \E i \in 1..Len(jobs') : jobs'[i] = s
  <2> HIDE DEF S
  <2> QED BY <1>2, <1>3, SortedLists
<1>5. /\ \A w \in Workers : worker'[w] = NoJob
      /\ sent' = <<>> /\ resultCh' = <<>> /\ Len(sent') = 0 /\ Len(resultCh') = 0
      /\ todo' = 1 /\ ctx' = FALSE /\ stopCh' = FALSE /\ closed' = FALSE
  BY <1>1, EmptySeq DEF SearchInit
<1>6. \A w \in Workers : ~Busy(w)' /\ worker'[w].pc = "idle"
  BY <1>5 DEF Busy, NoJob
<1>7. StoreInv'
  BY <1>1, StoreStays
<1>8. SearchTyped'
  <2>1. jobs' \in Seq(Segments) /\ Len(jobs') \in Nat
    BY <1>3, <1>4, SeqMonotonic, LenProperties
  <2>2. before' \in Nat /\ before' <= written' /\ todo' \in 1..Len(jobs') + 1
    BY <1>1, <1>5, <2>1 DEF StoreInv, storeVars
  <2> QED BY <1>1, <2>1, <2>2 DEF SearchTyped
<1>9. JobsInv' /\ OrderInv'
  BY <1>4, <1>5, <1>6 DEF JobsInv, OrderInv
<1>10. EndInv'
  BY <1>1, <1>5, <1>6 DEF EndInv
<1>11. FindInv'
  <2> SUFFICES ASSUME NEW p \in Positions', Wanted(p)' PROVE ToScan(p)'
    BY DEF FindInv
  <2>1. /\ SegmentOf(p) \in DOMAIN seg /\ <<SegmentOf(p), p[3]>> \in DOMAIN data
        /\ p[4] \in DOMAIN data[<<SegmentOf(p), p[3]>>] /\ Matches(At(p))
        /\ At(p) = data[<<SegmentOf(p), p[3]>>][p[4]]
    BY <1>1 DEF storeVars, Positions, Wanted, Stored, At, Matches, SegmentOf
  <2>2. At(p).ts \in Times /\ Day(At(p).ts) = SegmentOf(p)[1]
    BY <2>1 DEF StoreInv, LineOf
  <2>3. SegmentOf(p) \in S
    BY <2>1, <2>2, RangeOfLine DEF SearchTyped
  <2>4. PICK i \in 1..Len(jobs') : jobs'[i] = SegmentOf(p)
    BY <1>4, <2>3
  <2>5. todo' = 1
    BY <1>5
  <2> QED BY <2>4, <2>5 DEF ToScan, SegmentOf
<1> QED BY <1>7, <1>8, <1>9, <1>10, <1>11

\* A step of a worker is of no other.
LEMMA WorkerMoves ==
    ASSUME SearchTyped, NEW w \in Workers, NEW state \in WorkerStates, WorkerTo(w, state)
    PROVE  /\ worker' \in [Workers -> WorkerStates] /\ worker'[w] = state
           /\ \A v \in Workers \ {w} : worker'[v] = worker[v]
BY DEF SearchTyped, WorkerTo

\* A worker that has a job no longer is of no account to the others, or to what was
\* found.
LEMMA WorkerRests ==
    ASSUME SearchInv, NEW w \in Workers, ~Busy(w)',
           \A v \in Workers \ {w} : worker'[v] = worker[v],
           UNCHANGED <<jobs, data, sent, resultCh>>, todo' \in {todo, todo + 1}
    PROVE  JobsInv' /\ OrderInv'
<1> USE DEF SearchInv
<1>1. \A s : Dispatched(s) => Dispatched(s)'
  <2>1. todo \in Nat
    BY LenProperties DEF SearchTyped
  <2>2. \A k \in 1..todo - 1 : k \in 1..todo' - 1
    BY <2>1
  <2> QED BY <2>2 DEF Dispatched
<1>2. \A v \in Workers : Busy(v)' => Busy(v) /\ worker'[v] = worker[v]
  BY DEF Busy
<1>3. JobsInv'
  BY <1>1, <1>2 DEF JobsInv
<1>4. \A e : Found(e) => Found(e)'
  BY <1>1, <1>2 DEF Found
<1>5. OrderInv'
  BY <1>4 DEF OrderInv, Comes
<1> QED BY <1>3, <1>5

\* The states of a worker that has no job are states of a worker.
LEMMA NoJobRests == NoJob \in WorkerStates /\ [NoJob EXCEPT !.pc = "exited"] \in WorkerStates
                    /\ NoJob.pc = "idle" /\ [NoJob EXCEPT !.pc = "exited"].pc = "exited"
BY DEF NoJob, WorkerStates, None

\* What keeps its place is still to be scanned, or found.
LEMMA StillTo ==
    ASSUME SearchInv, UNCHANGED <<storeVars, readVars, before>>,
           NEW p \in Positions', Wanted(p)', Undisturbed
    PROVE  p \in Positions /\ Wanted(p) /\ (ToScan(p) \/ Scanned(p) \/ WasFound(p))
BY WantedStays DEF SearchInv, FindInv, readVars

\* A worker takes the next job, whose segment may be gone, or ends with the search.
LEMMA TakeKeeps ==
    ASSUME SearchInv, UNCHANGED <<storeVars, readVars>>, NEW w \in Workers, TakeJob(w)
    PROVE  SearchInv'
<1> USE DEF SearchInv
<1> DEFINE s == jobs[todo]
<1>1. /\ dispatching /\ todo <= Len(jobs) /\ worker[w].pc = "idle" /\ todo' = todo + 1
      /\ UNCHANGED <<handler, before, jobs, dispatching, resultCh, closed, stopCh, ctx, sent>>
      /\ UNCHANGED <<request, span>> /\ UNCHANGED storeVars /\ UNCHANGED data
  BY DEF TakeJob, readVars, storeVars
<1>2. handler # "start"
  BY <1>1 DEF SearchTyped, SearchInit
<1>3. Len(jobs) \in Nat /\ todo \in 1..Len(jobs) /\ s \in Segments
  BY <1>1 DEF SearchTyped
<1>4. PICK state \in WorkerStates :
        /\ WorkerTo(w, state)
        /\ \/ SearchDone /\ state = [NoJob EXCEPT !.pc = "exited"]
           \/ ~SearchDone /\ s \notin DOMAIN seg /\ state = NoJob
           \/ ~SearchDone /\ s \in DOMAIN seg
              /\ state = [pc |-> "scan", job |-> s, file |-> seg[s], offset |-> 0]
  <2>1. CASE SearchDone
    BY <2>1, NoJobRests DEF TakeJob
  <2>2. CASE ~SearchDone /\ s \notin DOMAIN seg
    BY <2>2, NoJobRests DEF TakeJob
  <2>3. CASE ~SearchDone /\ s \in DOMAIN seg
    <3> DEFINE state == [pc |-> "scan", job |-> s, file |-> seg[s], offset |-> 0]
    <3>1. state \in WorkerStates
      BY <1>3, <2>3 DEF WorkerStates, StoreInv
    <3>2. WorkerTo(w, state)
      BY <2>3 DEF TakeJob
    <3> QED BY <2>3, <3>1, <3>2
  <2> QED BY <2>1, <2>2, <2>3
<1>5. /\ worker' \in [Workers -> WorkerStates] /\ worker'[w] = state
      /\ \A v \in Workers \ {w} : worker'[v] = worker[v]
  BY <1>4, WorkerMoves
<1>6. StoreInv'
  BY StoreStays
<1>7. SearchTyped'
  <2>1. todo' \in 1..Len(jobs') + 1
    BY <1>1, <1>3
  <2> QED BY <1>1, <1>2, <1>5, <2>1 DEF SearchTyped, storeVars
<1>8. /\ \A x : Dispatched(x)' <=> Dispatched(x) \/ x = s
      /\ ~Dispatched(s)
  <2>1. todo' - 1 = todo /\ todo \in Nat
    BY <1>1, <1>3
  <2>2. \A x : Dispatched(x)' <=> Dispatched(x) \/ x = s
    BY <1>1, <1>3, <2>1 DEF Dispatched
  <2>3. ~Dispatched(s)
    BY <1>3 DEF Dispatched, JobsInv
  <2> QED BY <2>2, <2>3
<1>9. JobsInv' /\ OrderInv'
  <2>1. CASE state.pc \in {"idle", "exited"}
    <3>1. ~Busy(w)'
      BY <1>5, <2>1 DEF Busy
    <3> QED BY <1>1, <1>5, <3>1, WorkerRests
  <2>2. CASE state = [pc |-> "scan", job |-> s, file |-> seg[s], offset |-> 0] /\ s \in DOMAIN seg
    <3>1. state.job = s /\ state.file = seg[s] /\ state.pc = "scan"
      BY <2>2
    <3>2. \A v \in Workers : Busy(v)' =>
              \/ v = w
              \/ v # w /\ Busy(v) /\ worker'[v] = worker[v] /\ worker[v].job # s
      BY <1>5, <1>8 DEF Busy, JobsInv
    <3>3. JobsInv'
      <4>1. <<s, seg[s]>> \in DOMAIN data'
        BY <1>1, <2>2 DEF StoreInv
      <4> QED BY SMTT(30), <1>1, <1>5, <1>8, <3>1, <3>2, <4>1 DEF JobsInv
    <3>4. \A e : Found(e) => Found(e)'
      BY <1>5, <1>8, <3>1, <3>2 DEF Found
    <3>5. OrderInv'
      <4>1. UNCHANGED <<sent, resultCh>>
        BY <1>1
      <4>2. \A e, f : Comes(e, f)' <=> Comes(e, f)
        BY DEF Comes
      <4>3. OrderInv
        BY DEF SearchInv
      <4> QED BY <3>4, <4>1, <4>2, <4>3 DEF OrderInv
    <3> QED BY <3>3, <3>5
  <2> QED BY <1>4, <2>1, <2>2, NoJobRests
<1>10. Undisturbed' <=> Undisturbed
  BY <1>1 DEF Undisturbed
<1>11. Undisturbed => ~SearchDone
  BY DEF Undisturbed, EndInv, SearchDone
<1>12. EndInv'
  <2>1. Undisturbed => \A v \in Workers :
            worker'[v].pc = "exited" => v # w /\ worker[v].pc = "exited"
    BY <1>4, <1>5, <1>11, NoJobRests
  <2>2. ~closed
    BY <1>1 DEF EndInv
  <2> QED BY <1>1, <1>10, <2>1, <2>2 DEF EndInv
<1>13. FindInv'
  <2> SUFFICES ASSUME Undisturbed, NEW p \in Positions', Wanted(p)'
               PROVE  ToScan(p)' \/ Scanned(p)' \/ WasFound(p)'
    BY <1>10 DEF FindInv
  <2>1. Wanted(p) /\ (ToScan(p) \/ Scanned(p) \/ WasFound(p))
    BY <1>1, StillTo
  <2>2. CASE ToScan(p)
    <3>1. PICK k \in todo..Len(jobs) : jobs[k] = SegmentOf(p)
      BY <2>2 DEF ToScan
    <3>2. CASE k # todo
      <4>1. k \in todo'..Len(jobs')
        BY <1>1, <1>3, <3>2
      <4> QED BY <1>1, <3>1, <4>1 DEF ToScan
    <3>3. CASE k = todo
      <4>1. s = SegmentOf(p) /\ s \in DOMAIN seg /\ seg[s] = p[3]
        BY <2>1, <3>1, <3>3 DEF Wanted, Stored, SegmentOf
      <4>2. state = [pc |-> "scan", job |-> s, file |-> seg[s], offset |-> 0]
        BY <1>4, <1>11, <4>1
      <4>3. 0 < p[4]
        BY <2>1 DEF Wanted, Stored, Positions
      <4>4. /\ worker'[w].pc = "scan" /\ worker'[w].job = SegmentOf(p)
            /\ worker'[w].file = p[3] /\ worker'[w].offset < p[4]
        BY <1>5, <4>1, <4>2, <4>3
      <4> QED BY <4>4 DEF Scanned, Busy
    <3> QED BY <3>2, <3>3
  <2>3. CASE Scanned(p)
    <3>1. PICK v \in Workers :
            /\ Busy(v) /\ worker[v].job = SegmentOf(p) /\ worker[v].file = p[3]
            /\ worker[v].offset < p[4] \/ (worker[v].pc = "send" /\ worker[v].offset = p[4])
      BY <2>3 DEF Scanned
    <3>2. v # w /\ worker'[v] = worker[v]
      BY <1>1, <1>5, <3>1 DEF Busy
    <3> QED BY <3>1, <3>2 DEF Scanned, Busy
  <2>4. CASE WasFound(p)
    BY <1>1, <2>4 DEF WasFound
  <2> QED BY <2>1, <2>2, <2>3, <2>4
<1> QED BY <1>6, <1>7, <1>9, <1>12, <1>13

\* The steps that change what is dispatched or closed, or that end the search.
LEMMA ClosingKeeps ==
    ASSUME SearchInv, UNCHANGED <<storeVars, readVars>>,
           CloseJobs \/ CloseResults \/ ReceiveLast \/ Cancel
    PROVE  SearchInv'
<1> USE DEF SearchInv
<1>1. /\ UNCHANGED <<before, jobs, todo, worker, resultCh, stopCh, sent, request, span>>
      /\ UNCHANGED storeVars /\ UNCHANGED data /\ written' = written
  BY DEF CloseJobs, CloseResults, ReceiveLast, Cancel, readVars, storeVars
<1>2. /\ handler # "start" /\ handler' # "start" /\ handler' \in {handler, "done"}
      /\ handler' # handler => handler = "receive" /\ ReceiveLast
  BY DEF CloseJobs, CloseResults, ReceiveLast, Cancel, SearchTyped, SearchInit
<1>3. StoreInv'
  BY StoreStays
<1>4. SearchTyped'
  BY <1>1, <1>2 DEF SearchTyped
<1>5. JobsInv' /\ OrderInv'
  <2>1. JobsInv'
    BY <1>1 DEF JobsInv, Dispatched, Busy
  <2>2. \A e : Found(e) => Found(e)'
    BY <1>1 DEF Found, Dispatched, Busy
  <2>3. OrderInv'
    BY <1>1, <2>2 DEF OrderInv, Comes
  <2> QED BY <2>1, <2>3
<1>6. Undisturbed' => Undisturbed
  BY <1>2 DEF Undisturbed, CloseJobs, CloseResults, ReceiveLast, Cancel
<1>7. EndInv'
  <2>1. CASE CloseJobs
    <3>1. Undisturbed => todo = Len(jobs) + 1
      <4>1. Undisturbed => ~SearchDone
        BY DEF EndInv, Undisturbed, SearchDone
      <4> QED BY <2>1, <4>1 DEF CloseJobs, SearchTyped
    <3> QED BY <1>1, <1>6, <2>1, <3>1 DEF EndInv, CloseJobs
  <2>2. CASE CloseResults
    BY <1>1, <1>6, <2>2 DEF EndInv, CloseResults
  <2>3. CASE ReceiveLast
    BY <1>1, <1>6, <2>3 DEF EndInv, ReceiveLast
  <2>4. CASE Cancel
    BY <1>1, <2>4 DEF EndInv, Cancel, Undisturbed
  <2> QED BY <2>1, <2>2, <2>3, <2>4
<1>8. FindInv'
  <2> SUFFICES ASSUME Undisturbed, NEW p \in Positions', Wanted(p)'
               PROVE  ToScan(p)' \/ Scanned(p)' \/ WasFound(p)'
    BY <1>6 DEF FindInv
  <2>1. ToScan(p) \/ Scanned(p) \/ WasFound(p)
    BY <1>1, StillTo
  <2> QED BY <1>1, <2>1 DEF ToScan, Scanned, WasFound, Busy
<1> QED BY <1>3, <1>4, <1>5, <1>7, <1>8

\* A worker ends, as no more jobs come.
LEMMA ExitKeeps ==
    ASSUME SearchInv, UNCHANGED <<storeVars, readVars>>, NEW w \in Workers, ExitWorker(w)
    PROVE  SearchInv'
<1> USE DEF SearchInv
<1>1. /\ UNCHANGED <<handler, before, jobs, todo, dispatching, resultCh, closed, stopCh, ctx>>
      /\ UNCHANGED <<sent, request, span>> /\ UNCHANGED storeVars /\ UNCHANGED data
      /\ worker[w].pc = "idle" /\ ~dispatching /\ handler # "start" /\ written' = written
  BY DEF ExitWorker, readVars, storeVars
<1>2. /\ worker' \in [Workers -> WorkerStates] /\ worker'[w].pc = "exited"
      /\ \A v \in Workers \ {w} : worker'[v] = worker[v]
  BY NoJobRests, WorkerMoves DEF ExitWorker
<1>3. StoreInv' /\ SearchTyped'
  BY <1>1, <1>2, StoreStays DEF SearchTyped
<1>4. JobsInv' /\ OrderInv'
  <2>1. ~Busy(w)'
    BY <1>2 DEF Busy
  <2> QED BY <1>1, <1>2, <2>1, WorkerRests
<1>5. EndInv'
  BY <1>1, <1>2 DEF EndInv, Undisturbed
<1>6. FindInv'
  <2> SUFFICES ASSUME Undisturbed, NEW p \in Positions', Wanted(p)'
               PROVE  ToScan(p)' \/ Scanned(p)' \/ WasFound(p)'
    BY <1>1 DEF FindInv, Undisturbed
  <2>1. ToScan(p) \/ Scanned(p) \/ WasFound(p)
    BY <1>1, StillTo
  <2>2. \A v \in Workers : Busy(v) => worker'[v] = worker[v]
    BY <1>1, <1>2 DEF Busy
  <2>3. ToScan(p) => ToScan(p)'
    BY <1>1 DEF ToScan
  <2>4. Scanned(p) => Scanned(p)'
    BY <2>2 DEF Scanned, Busy
  <2>5. WasFound(p) => WasFound(p)'
    BY <1>1 DEF WasFound
  <2> QED BY <2>1, <2>3, <2>4, <2>5
<1> QED BY <1>3, <1>4, <1>5, <1>6

\* A worker reads a segment.
LEMMA ScanKeeps ==
    ASSUME SearchInv, UNCHANGED <<storeVars, readVars>>, NEW w \in Workers, Scan(w)
    PROVE  SearchInv'
<1> USE DEF SearchInv
<1> DEFINE text == data[<<worker[w].job, worker[w].file>>]
           ahead == {i \in DOMAIN text : i > worker[w].offset /\ Matches(text[i])}
           next == CHOOSE i \in ahead : \A j \in ahead : i <= j
           sending == [worker[w] EXCEPT !.pc = "send", !.offset = next]
           over == SearchDone \/ ahead = {}
<1>1. /\ UNCHANGED <<handler, before, jobs, todo, dispatching, resultCh, closed, stopCh, ctx>>
      /\ UNCHANGED <<sent, request, span>> /\ UNCHANGED storeVars /\ UNCHANGED data
      /\ worker[w].pc = "scan" /\ WorkerTo(w, IF over THEN NoJob ELSE sending)
      /\ written' = written
  BY DEF Scan, readVars, storeVars
<1>2. handler # "start" /\ Busy(w) /\ worker[w] \in WorkerStates
  BY <1>1 DEF SearchTyped, SearchInit, Busy, NoJob
<1>3. ahead \in SUBSET Nat /\ IsFiniteSet(ahead) /\ worker[w].offset \in Nat
  <2>1. <<worker[w].job, worker[w].file>> \in DOMAIN data
    BY <1>2 DEF JobsInv
  <2>2. Len(text) \in Nat /\ DOMAIN text = 1..Len(text)
    BY <2>1, LengthOf DEF StoreInv
  <2>3. IsFiniteSet(1..Len(text))
    <3>1. 1 \in Int /\ Len(text) \in Int
      BY <2>2
    <3> HIDE DEF text
    <3> QED BY <3>1, FS_Interval
  <2>4. ahead \in SUBSET (1..Len(text)) /\ ahead \in SUBSET Nat
    BY <2>2
  <2> HIDE DEF ahead, text
  <2> QED BY <1>2, <2>3, <2>4, FS_Subset DEF WorkerStates
<1>4. ~over => next \in ahead /\ \A j \in ahead : next <= j
  <2> HIDE DEF ahead
  <2>1. ahead # {} => \E i \in ahead : \A j \in ahead : i <= j
    BY <1>3, LeastOf, Zenon
  <2> QED BY <2>1
<1>5. ASSUME ~over
      PROVE  /\ next \in Nat /\ next > worker[w].offset
             /\ sending \in WorkerStates /\ sending.pc = "send" /\ sending.offset = next
             /\ sending.job = worker[w].job /\ sending.file = worker[w].file
  <2>1. next \in ahead
    BY <1>4, <1>5, Zenon
  <2>2. next \in Nat /\ next > worker[w].offset
    <3> HIDE DEF next
    <3> QED BY <1>3, <2>1
  <2> HIDE DEF next
  <2> QED BY <1>2, <2>2, Zenon DEF WorkerStates
<1>6. /\ worker' \in [Workers -> WorkerStates]
      /\ worker'[w] = IF over THEN NoJob ELSE sending
      /\ \A v \in Workers \ {w} : worker'[v] = worker[v]
  <2>1. (IF over THEN NoJob ELSE sending) \in WorkerStates
    <3> HIDE DEF over, sending
    <3> QED BY <1>5, NoJobRests, SMTT(30)
  <2> HIDE DEF over, sending
  <2> QED BY <1>1, <2>1, WorkerMoves
<1>7. StoreInv' /\ SearchTyped'
  BY <1>1, <1>2, <1>6, StoreStays DEF SearchTyped
<1> HIDE DEF sending, next, over
<1>8. JobsInv' /\ OrderInv'
  <2>1. CASE over
    <3>1. ~Busy(w)'
      BY <1>6, <2>1, NoJobRests DEF Busy
    <3> QED BY <1>1, <1>6, <3>1, WorkerRests
  <2>2. CASE ~over
    <3>1. \A v \in Workers : /\ Busy(v)' <=> Busy(v)
                             /\ worker'[v].job = worker[v].job
                             /\ worker'[v].file = worker[v].file
      BY <1>2, <1>5, <1>6, <2>2 DEF Busy
    <3>2. \A x : Dispatched(x)' <=> Dispatched(x)
      BY <1>1 DEF Dispatched
    <3>3. JobsInv'
      BY <1>1, <3>1, <3>2 DEF JobsInv
    <3>4. ASSUME NEW e \in Results, Found(e) PROVE Found(e)'
      <4>1. ASSUME NEW v \in Workers, Busy(v)', worker'[v].job = e[1]
            PROVE  /\ e[2] = worker'[v].file /\ e[3] <= worker'[v].offset
                   /\ worker'[v].pc = "send" => e[3] < worker'[v].offset
        <5>1. /\ e[2] = worker[v].file /\ e[3] <= worker[v].offset
              /\ worker[v].pc = "send" => e[3] < worker[v].offset
          BY <3>1, <3>4, <4>1 DEF Found
        <5>2. CASE v = w
          <6>1. e[3] < next /\ e[3] \in Nat
            <7>1. e[3] \in Nat
              BY DEF Results
            <7> QED BY <1>3, <1>5, <2>2, <5>1, <5>2, <7>1
          <6>2. e[3] <= next
            BY <1>5, <2>2, <6>1
          <6> QED BY <1>5, <1>6, <2>2, <3>1, <5>1, <5>2, <6>1, <6>2
        <5>3. CASE v # w
          BY <1>6, <5>1, <5>3
        <5> QED BY <5>2, <5>3
      <4> QED BY <3>2, <3>4, <4>1 DEF Found
    <3>5. /\ \A i \in 1..Len(sent) : sent[i] \in Results
          /\ \A i \in 1..Len(resultCh) : resultCh[i] \in Results
      BY DEF SearchTyped
    <3>6. OrderInv'
      BY <1>1, <3>4, <3>5 DEF OrderInv, Comes
    <3> QED BY <3>3, <3>6
  <2> QED BY <2>1, <2>2
<1>9. EndInv'
  <2>1. worker'[w].pc # "exited"
    BY <1>5, <1>6, NoJobRests
  <2>2. ~closed
    BY <1>1 DEF EndInv
  <2> QED BY <1>1, <1>6, <2>1, <2>2 DEF EndInv, Undisturbed
<1>10. FindInv'
  <2> SUFFICES ASSUME Undisturbed, NEW p \in Positions', Wanted(p)'
               PROVE  ToScan(p)' \/ Scanned(p)' \/ WasFound(p)'
    BY <1>1 DEF FindInv, Undisturbed
  <2>1. p \in Positions /\ Wanted(p) /\ (ToScan(p) \/ Scanned(p) \/ WasFound(p))
    BY <1>1, StillTo
  <2>2. CASE Scanned(p)
    <3>1. PICK v \in Workers :
            /\ Busy(v) /\ worker[v].job = SegmentOf(p) /\ worker[v].file = p[3]
            /\ worker[v].offset < p[4] \/ (worker[v].pc = "send" /\ worker[v].offset = p[4])
      BY <2>2 DEF Scanned
    <3>2. CASE v # w
      BY <1>6, <3>1, <3>2 DEF Scanned, Busy
    <3>3. CASE v = w
      <4>1. worker[w].offset < p[4] /\ worker[w].job = SegmentOf(p) /\ worker[w].file = p[3]
        BY <1>1, <3>1, <3>3
      <4>2. /\ p[4] \in DOMAIN text /\ text[p[4]] = At(p) /\ Matches(At(p))
            /\ p[4] \in Nat
        BY <2>1, <4>1 DEF Positions, At, Wanted, SegmentOf
      <4>3. p[4] \in ahead
        <5>1. p[4] > worker[w].offset
          BY <1>3, <4>1, <4>2
        <5> HIDE DEF text
        <5> QED BY <4>2, <5>1
      <4>4. ~over
        BY <4>3 DEF over, SearchDone, Undisturbed, EndInv
      <4>5. next <= p[4] /\ next \in Nat
        BY <1>4, <1>5, <4>3, <4>4
      <4>6. next < p[4] \/ next = p[4]
        BY <4>2, <4>5
      <4>7. /\ worker'[w].pc = "send" /\ worker'[w].job = SegmentOf(p)
            /\ worker'[w].file = p[3] /\ worker'[w].offset = next
        BY <1>5, <1>6, <4>1, <4>4
      <4> QED BY <4>6, <4>7 DEF Scanned, Busy
    <3> QED BY <3>2, <3>3
  <2>3. ToScan(p) => ToScan(p)'
    BY <1>1 DEF ToScan
  <2>4. WasFound(p) => WasFound(p)'
    BY <1>1 DEF WasFound
  <2> QED BY <2>1, <2>2, <2>3, <2>4
<1> QED BY <1>7, <1>8, <1>9, <1>10

\* A worker sends a result, or finds that nobody wants it.
LEMMA SendKeeps ==
    ASSUME SearchInv, UNCHANGED <<storeVars, readVars>>, NEW w \in Workers, SendResult(w)
    PROVE  SearchInv'
<1> USE DEF SearchInv
<1>1. /\ UNCHANGED <<handler, before, jobs, todo, dispatching, closed, stopCh, ctx, sent>>
      /\ UNCHANGED <<request, span>> /\ UNCHANGED storeVars /\ UNCHANGED data
      /\ worker[w].pc = "send" /\ written' = written
  BY DEF SendResult, readVars, storeVars
<1>2. handler # "start" /\ Busy(w) /\ worker[w] \in WorkerStates
  BY <1>1 DEF SearchTyped, SearchInit, Busy, NoJob
<1>3. Dispatched(worker[w].job) /\ worker[w].job \in Segments
  <2>1. Dispatched(worker[w].job)
    BY <1>2 DEF JobsInv
  <2>2. PICK k \in 1..todo - 1 : jobs[k] = worker[w].job
    BY <2>1 DEF Dispatched
  <2>3. k \in 1..Len(jobs) /\ jobs \in Seq(Segments)
    BY LenProperties DEF SearchTyped
  <2> QED BY <2>1, <2>2, <2>3
<1>4. PICK found \in Results, scanning \in WorkerStates :
        /\ found = <<worker[w].job, worker[w].file, worker[w].offset>>
        /\ found[1] = worker[w].job /\ found[2] = worker[w].file /\ found[3] = worker[w].offset
        /\ scanning = [worker[w] EXCEPT !.pc = "scan"]
        /\ scanning.pc = "scan" /\ scanning.job = worker[w].job
        /\ scanning.file = worker[w].file /\ scanning.offset = worker[w].offset
        /\ worker[w].offset \in Nat
  <2> DEFINE f == <<worker[w].job, worker[w].file, worker[w].offset>>
             g == [worker[w] EXCEPT !.pc = "scan"]
  <2>1. worker[w].file \in Nat /\ worker[w].offset \in Nat
    BY <1>2 DEF WorkerStates
  <2>2. /\ f \in Results /\ f[1] = worker[w].job /\ f[2] = worker[w].file
        /\ f[3] = worker[w].offset
    BY <1>3, <2>1 DEF Results
  <2>3. /\ g \in WorkerStates /\ g.pc = "scan" /\ g.job = worker[w].job
        /\ g.file = worker[w].file /\ g.offset = worker[w].offset
    BY <1>2 DEF WorkerStates
  <2>4. f = <<worker[w].job, worker[w].file, worker[w].offset>>
        /\ g = [worker[w] EXCEPT !.pc = "scan"]
    OBVIOUS
  <2> HIDE DEF f, g
  <2> QED BY <2>1, <2>2, <2>3, <2>4
<1>5. StoreInv'
  BY <1>1, StoreStays
<1>6. ~closed
  BY <1>2 DEF EndInv, Busy
<1>7. CASE Len(resultCh) < ResultCap /\ resultCh' = Append(resultCh, found)
           /\ WorkerTo(w, scanning)
  <2>1. /\ worker' \in [Workers -> WorkerStates] /\ worker'[w] = scanning
        /\ \A v \in Workers \ {w} : worker'[v] = worker[v]
    BY <1>4, <1>7, WorkerMoves
  <2>2. /\ resultCh' \in Seq(Results) /\ Len(resultCh') = Len(resultCh) + 1
        /\ Len(resultCh) \in Nat /\ resultCh'[Len(resultCh) + 1] = found
        /\ \A i \in 1..Len(resultCh) : resultCh'[i] = resultCh[i]
    BY <1>4, <1>7, SMTT(30) DEF SearchTyped
  <2>3. SearchTyped'
    BY <1>1, <1>2, <2>1, <2>2 DEF SearchTyped
  <2>4. \A v \in Workers : /\ Busy(v)' <=> Busy(v) 
                           /\ worker'[v].job = worker[v].job /\ worker'[v].file = worker[v].file
                           /\ worker'[v].offset = worker[v].offset
                           /\ worker'[v].pc = "send" => worker[v].pc = "send"
    BY <1>2, <1>4, <2>1 DEF Busy
  <2>5. \A x : Dispatched(x)' <=> Dispatched(x)
    BY <1>1 DEF Dispatched
  <2>6. JobsInv'
    BY <1>1, <2>4, <2>5 DEF JobsInv
  <2>7. \A e : Found(e) => Found(e)'
    BY <2>4, <2>5 DEF Found
  <2>8. Found(found)'
    <3>1. ASSUME NEW v \in Workers, Busy(v)', worker'[v].job = worker[w].job PROVE v = w
      BY <1>2, <2>4, <3>1 DEF JobsInv
    <3>2. Dispatched(found[1])'
      BY <1>3, <1>4, <2>5
    <3>3. /\ found[2] = worker'[w].file /\ found[3] <= worker'[w].offset
          /\ worker'[w].pc = "scan"
      BY <1>4, <2>1
    <3> QED BY <1>4, <3>1, <3>2, <3>3 DEF Found
  <2>9. \A e : Found(e) => Comes(e, found)
    BY <1>1, <1>2, <1>4 DEF Found, Comes
  <2>10. \A i \in 1..Len(resultCh') : i \in 1..Len(resultCh) \/ i = Len(resultCh) + 1
    BY <2>2
  <2>11. OrderInv'
    <3>1. \A i \in 1..Len(sent') : Found(sent[i])'
      BY <1>1, <2>7 DEF OrderInv
    <3>2. \A i \in 1..Len(resultCh') : Found(resultCh[i])'
      <4>1. ASSUME NEW i \in 1..Len(resultCh') PROVE Found(resultCh[i])'
        <5>1. CASE i \in 1..Len(resultCh)
          <6> PICK e : e = resultCh[i]
            OBVIOUS
          <6>1. Found(e) /\ resultCh'[i] = e
            BY <2>2, <5>1 DEF OrderInv
          <6> QED BY <2>7, <6>1
        <5>2. CASE i = Len(resultCh) + 1
          <6>1. resultCh'[i] = found
            BY <2>2, <5>2
          <6> QED BY <2>8, <6>1
        <5> QED BY <2>10, <5>1, <5>2
      <4> QED BY <4>1
    <3>3. \A i, j \in 1..Len(sent') : i < j => Comes(sent[i], sent[j])'
      BY <1>1 DEF OrderInv, Comes
    <3>4. ASSUME NEW i \in 1..Len(sent), NEW j \in 1..Len(resultCh')
          PROVE  Comes(sent[i], resultCh'[j])
      <4>1. CASE j \in 1..Len(resultCh)
        BY <2>2, <4>1 DEF OrderInv
      <4>2. CASE j = Len(resultCh) + 1
        BY <2>2, <2>9, <4>2 DEF OrderInv
      <4> QED BY <2>10, <4>1, <4>2
    <3>5. ASSUME NEW i \in 1..Len(resultCh'), NEW j \in 1..Len(resultCh'), i < j
          PROVE  Comes(resultCh'[i], resultCh'[j])
      <4>1. i \in 1..Len(resultCh)
        BY <2>2, <3>5
      <4>2. CASE j \in 1..Len(resultCh)
        BY <2>2, <3>5, <4>1, <4>2 DEF OrderInv
      <4>3. CASE j = Len(resultCh) + 1
        BY <2>2, <2>9, <4>1, <4>3 DEF OrderInv
      <4> QED BY <2>10, <4>2, <4>3
    <3>6. /\ \A i \in 1..Len(sent'), j \in 1..Len(resultCh') : Comes(sent[i], resultCh[j])'
          /\ \A i, j \in 1..Len(resultCh') : i < j => Comes(resultCh[i], resultCh[j])'
      BY <1>1, <3>4, <3>5 DEF Comes
    <3> QED BY <3>1, <3>2, <3>3, <3>6 DEF OrderInv
  <2>12. EndInv'
    <3>1. worker'[w].pc = "scan"
      BY <1>4, <2>1
    <3>2. handler # "done"
      BY <1>6 DEF EndInv
    <3> QED BY <1>1, <1>6, <2>1, <3>1, <3>2 DEF EndInv, Undisturbed
  <2>13. FindInv'
    <3> SUFFICES ASSUME Undisturbed, NEW p \in Positions', Wanted(p)'
                 PROVE  ToScan(p)' \/ Scanned(p)' \/ WasFound(p)'
      BY <1>1 DEF FindInv, Undisturbed
    <3>1. p \in Positions /\ (ToScan(p) \/ Scanned(p) \/ WasFound(p))
      BY <1>1, StillTo
    <3>2. ToScan(p) => ToScan(p)'
      BY <1>1 DEF ToScan
    <3>3. CASE WasFound(p)
      <4>1. CASE \E i \in 1..Len(sent) : sent[i] = <<SegmentOf(p), p[3], p[4]>>
        BY <1>1, <4>1 DEF WasFound
      <4>2. ASSUME NEW i \in 1..Len(resultCh), resultCh[i] = <<SegmentOf(p), p[3], p[4]>>
            PROVE  WasFound(p)'
        <5>1. i \in 1..Len(resultCh') /\ resultCh'[i] = resultCh[i]
          BY <2>2
        <5> QED BY <4>2, <5>1 DEF WasFound, SegmentOf
      <4> QED BY <3>3, <4>1, <4>2 DEF WasFound
    <3>4. CASE Scanned(p)
      <4>1. PICK v \in Workers :
              /\ Busy(v) /\ worker[v].job = SegmentOf(p) /\ worker[v].file = p[3]
              /\ worker[v].offset < p[4] \/ (worker[v].pc = "send" /\ worker[v].offset = p[4])
        BY <3>4 DEF Scanned
      <4>2. CASE worker[v].offset < p[4]
        BY <2>4, <4>1, <4>2 DEF Scanned
      <4>3. CASE v # w
        BY <2>1, <4>1, <4>3 DEF Scanned, Busy
      <4>4. CASE v = w /\ worker[v].offset = p[4]
        <5>1. found = <<SegmentOf(p), p[3], p[4]>>
          BY <1>4, <4>1, <4>4
        <5>2. Len(resultCh) + 1 \in 1..Len(resultCh')
          BY <2>2
        <5> QED BY <2>2, <5>1, <5>2 DEF WasFound, SegmentOf
      <4> QED BY <4>1, <4>2, <4>3, <4>4
    <3> QED BY <3>1, <3>2, <3>3, <3>4
  <2> QED BY <1>5, <2>3, <2>6, <2>11, <2>12, <2>13
<1>8. CASE SearchDone /\ UNCHANGED resultCh /\ WorkerTo(w, NoJob)
  <2>1. /\ worker' \in [Workers -> WorkerStates] /\ worker'[w] = NoJob
        /\ \A v \in Workers \ {w} : worker'[v] = worker[v]
    BY <1>8, WorkerMoves, NoJobRests
  <2>2. ~Busy(w)' /\ worker'[w].pc # "exited"
    BY <2>1, NoJobRests DEF Busy
  <2>3. SearchTyped'
    BY <1>1, <1>2, <1>8, <2>1 DEF SearchTyped
  <2>4. JobsInv' /\ OrderInv'
    BY <1>1, <1>8, <2>1, <2>2, WorkerRests
  <2>5. ~Undisturbed /\ ~Undisturbed'
    BY <1>1, <1>8 DEF Undisturbed, EndInv, SearchDone
  <2>6. EndInv' /\ FindInv'
    BY <1>1, <1>6, <1>8, <2>1, <2>2, <2>5 DEF EndInv, FindInv
  <2> QED BY <1>5, <2>3, <2>4, <2>6
<1> QED BY <1>4, <1>7, <1>8 DEF SendResult

\* The handler takes a result from the channel and sends it to the client.
LEMMA ReceiveKeeps ==
    ASSUME SearchInv, UNCHANGED <<storeVars, readVars>>, Receive
    PROVE  SearchInv'
<1> USE DEF SearchInv
<1>1. /\ UNCHANGED <<before, jobs, todo, dispatching, worker, closed, ctx, request, span>>
      /\ UNCHANGED storeVars /\ UNCHANGED data /\ written' = written
      /\ handler = "receive" /\ resultCh # <<>> /\ resultCh' = Tail(resultCh)
  BY DEF Receive, readVars, storeVars
<1>2. PICK first \in Results : first = resultCh[1]
  BY <1>1 DEF SearchTyped
<1>3. /\ resultCh' \in Seq(Results) /\ Len(resultCh) \in Nat /\ Len(resultCh) >= 1
      /\ Len(resultCh') = Len(resultCh) - 1
      /\ \A i \in 1..Len(resultCh') : resultCh'[i] = resultCh[i + 1] /\ i + 1 \in 1..Len(resultCh)
  BY <1>1 DEF SearchTyped
<1>4. StoreInv'
  BY <1>1, StoreStays
<1>5. \A e : Found(e) <=> Found(e)'
  BY <1>1 DEF Found, Dispatched, Busy
<1>6. JobsInv'
  BY <1>1 DEF JobsInv, Dispatched, Busy
<1>7. /\ \A i \in 1..Len(resultCh') : Found(resultCh[i])'
      /\ \A i, j \in 1..Len(resultCh') : i < j => Comes(resultCh[i], resultCh[j])'
  <2>1. ASSUME NEW i \in 1..Len(resultCh') PROVE Found(resultCh[i])'
    <3> PICK e : e = resultCh[i + 1]
      OBVIOUS
    <3>1. Found(e) /\ resultCh'[i] = e
      BY <1>3 DEF OrderInv
    <3> QED BY <1>5, <3>1
  <2>2. ASSUME NEW i \in 1..Len(resultCh'), NEW j \in 1..Len(resultCh'), i < j
        PROVE  Comes(resultCh'[i], resultCh'[j])
    <3>1. i + 1 < j + 1 /\ i + 1 \in 1..Len(resultCh) /\ j + 1 \in 1..Len(resultCh)
      BY <1>3, <2>2
    <3> QED BY <1>3, <3>1 DEF OrderInv
  <2> QED BY <2>1, <2>2 DEF Comes
<1>8. CASE handler' = "failed" /\ stopCh' = TRUE /\ UNCHANGED sent
  <2>1. SearchTyped'
    BY <1>1, <1>3, <1>8 DEF SearchTyped
  <2>2. OrderInv'
    <3>1. \A i \in 1..Len(sent') : Found(sent[i])'
      BY <1>5, <1>8 DEF OrderInv
    <3>2. \A i, j \in 1..Len(sent') : i < j => Comes(sent[i], sent[j])'
      BY <1>8 DEF OrderInv, Comes
    <3>3. ASSUME NEW i \in 1..Len(sent), NEW j \in 1..Len(resultCh')
          PROVE  Comes(sent[i], resultCh'[j])
      BY <1>3 DEF OrderInv
    <3>4. \A i \in 1..Len(sent'), j \in 1..Len(resultCh') : Comes(sent[i], resultCh[j])'
      BY <1>8, <3>3 DEF Comes
    <3> QED BY <1>7, <3>1, <3>2, <3>4 DEF OrderInv
  <2>3. EndInv' /\ FindInv'
    BY <1>1, <1>8 DEF EndInv, FindInv, Undisturbed
  <2> QED BY <1>4, <1>6, <2>1, <2>2, <2>3
<1>9. CASE /\ ~ctx /\ sent' = Append(sent, first)
           /\ stopCh' = (Len(sent') >= MaxResults)
           /\ handler' = IF stopCh' THEN "truncated" ELSE handler
  <2>1. /\ sent' \in Seq(Results) /\ Len(sent) \in Nat /\ Len(sent') = Len(sent) + 1
        /\ sent'[Len(sent) + 1] = first /\ \A i \in 1..Len(sent) : sent'[i] = sent[i]
    BY <1>9 DEF SearchTyped
  <2>2. \A i \in 1..Len(sent') : i \in 1..Len(sent) \/ i = Len(sent) + 1
    BY <2>1
  <2>3. handler' \in {"receive", "truncated"} /\ (handler' = "receive" => ~stopCh')
    BY <1>1, <1>9
  <2>4. SearchTyped'
    BY <1>1, <1>3, <2>1, <2>3 DEF SearchTyped
  <2>5. 1 \in 1..Len(resultCh)
    BY <1>3
  <2>6. OrderInv'
    <3>1. \A i \in 1..Len(sent') : Found(sent[i])'
      <4>1. ASSUME NEW i \in 1..Len(sent') PROVE Found(sent[i])'
        <5>1. CASE i \in 1..Len(sent)
          <6> PICK e : e = sent[i]
            OBVIOUS
          <6>1. Found(e) /\ sent'[i] = e
            BY <2>1, <5>1 DEF OrderInv
          <6> QED BY <1>5, <6>1
        <5>2. CASE i = Len(sent) + 1
          <6>1. Found(first) /\ sent'[i] = first
            BY <1>2, <2>1, <2>5, <5>2 DEF OrderInv
          <6> QED BY <1>5, <6>1
        <5> QED BY <2>2, <5>1, <5>2
      <4> QED BY <4>1
    <3>2. ASSUME NEW i \in 1..Len(sent'), NEW j \in 1..Len(sent'), i < j
          PROVE  Comes(sent'[i], sent'[j])
      <4>1. i \in 1..Len(sent)
        BY <2>1, <3>2
      <4>2. CASE j \in 1..Len(sent)
        BY <2>1, <3>2, <4>1, <4>2 DEF OrderInv
      <4>3. CASE j = Len(sent) + 1
        BY <1>2, <2>1, <2>5, <4>1, <4>3 DEF OrderInv
      <4> QED BY <2>2, <4>2, <4>3
    <3>3. ASSUME NEW i \in 1..Len(sent'), NEW j \in 1..Len(resultCh')
          PROVE  Comes(sent'[i], resultCh'[j])
      <4>1. CASE i \in 1..Len(sent)
        BY <1>3, <2>1, <4>1 DEF OrderInv
      <4>2. CASE i = Len(sent) + 1
        <5>1. 1 < j + 1 /\ j + 1 \in 1..Len(resultCh) /\ resultCh'[j] = resultCh[j + 1]
          BY <1>3
        <5> QED BY <1>2, <2>1, <2>5, <4>2, <5>1 DEF OrderInv
      <4> QED BY <2>2, <4>1, <4>2
    <3>4. /\ \A i, j \in 1..Len(sent') : i < j => Comes(sent[i], sent[j])'
          /\ \A i \in 1..Len(sent'), j \in 1..Len(resultCh') : Comes(sent[i], resultCh[j])'
      BY <3>2, <3>3 DEF Comes
    <3> QED BY <1>7, <3>1, <3>4 DEF OrderInv
  <2>7. EndInv'
    BY <1>1, <2>3 DEF EndInv, Undisturbed
  <2>8. FindInv'
    <3> SUFFICES ASSUME Undisturbed, NEW p \in Positions', Wanted(p)'
                 PROVE  ToScan(p)' \/ Scanned(p)' \/ WasFound(p)'
      BY <1>1 DEF FindInv, Undisturbed
    <3>1. ToScan(p) \/ Scanned(p) \/ WasFound(p)
      BY <1>1, StillTo
    <3>2. ToScan(p) => ToScan(p)'
      BY <1>1 DEF ToScan
    <3>3. Scanned(p) => Scanned(p)'
      BY <1>1 DEF Scanned, Busy
    <3>4. CASE WasFound(p)
      <4>1. ASSUME NEW i \in 1..Len(sent), sent[i] = <<SegmentOf(p), p[3], p[4]>>
            PROVE  WasFound(p)'
        <5>1. i \in 1..Len(sent') /\ sent'[i] = sent[i]
          BY <2>1
        <5> QED BY <4>1, <5>1 DEF WasFound, SegmentOf
      <4>2. ASSUME NEW i \in 1..Len(resultCh), resultCh[i] = <<SegmentOf(p), p[3], p[4]>>
            PROVE  WasFound(p)'
        <5>1. CASE i = 1
          <6>1. Len(sent) + 1 \in 1..Len(sent')
            BY <2>1
          <6> QED BY <1>2, <2>1, <4>2, <5>1, <6>1 DEF WasFound, SegmentOf
        <5>2. CASE i # 1
          <6>1. i - 1 \in 1..Len(resultCh') /\ (i - 1) + 1 = i
            BY <1>3, <5>2
          <6>2. resultCh'[i - 1] = resultCh[i]
            BY <1>3, <6>1
          <6> QED BY <4>2, <6>1, <6>2 DEF WasFound, SegmentOf
        <5> QED BY <5>1, <5>2
      <4> QED BY <3>4, <4>1, <4>2 DEF WasFound
    <3> QED BY <3>1, <3>2, <3>3, <3>4
  <2> QED BY <1>4, <1>6, <2>4, <2>6, <2>7, <2>8
<1> QED BY <1>2, <1>8, <1>9 DEF Receive

\* The channel is emptied once the handler has what it wants.
LEMMA DrainKeeps ==
    ASSUME SearchInv, UNCHANGED <<storeVars, readVars>>, Drain
    PROVE  SearchInv'
<1> USE DEF SearchInv
<1>1. /\ UNCHANGED <<handler, before, jobs, todo, dispatching, worker, closed, stopCh, ctx>>
      /\ UNCHANGED <<sent, request, span>> /\ UNCHANGED storeVars /\ UNCHANGED data
      /\ handler = "truncated" /\ resultCh # <<>> /\ resultCh' = Tail(resultCh)
      /\ written' = written
  BY DEF Drain, readVars, storeVars
<1>2. /\ resultCh' \in Seq(Results) /\ Len(resultCh) \in Nat
      /\ \A i \in 1..Len(resultCh') : resultCh'[i] = resultCh[i + 1] /\ i + 1 \in 1..Len(resultCh)
  BY <1>1 DEF SearchTyped
<1>3. StoreInv' /\ SearchTyped'
  BY <1>1, <1>2, StoreStays DEF SearchTyped
<1>4. JobsInv'
  BY <1>1 DEF JobsInv, Dispatched, Busy
<1>5. \A e : Found(e) <=> Found(e)'
  BY <1>1 DEF Found, Dispatched, Busy
<1>6. OrderInv'
  <2>1. \A i \in 1..Len(sent') : Found(sent[i])'
    BY <1>1, <1>5 DEF OrderInv
  <2>2. \A i, j \in 1..Len(sent') : i < j => Comes(sent[i], sent[j])'
    BY <1>1 DEF OrderInv, Comes
  <2>3. ASSUME NEW i \in 1..Len(sent), NEW j \in 1..Len(resultCh')
        PROVE  Comes(sent[i], resultCh'[j])
    BY <1>2 DEF OrderInv
  <2>4. ASSUME NEW i \in 1..Len(resultCh') PROVE Found(resultCh[i])'
    <3> PICK e : e = resultCh[i + 1]
      OBVIOUS
    <3>1. Found(e) /\ resultCh'[i] = e
      BY <1>2 DEF OrderInv
    <3> QED BY <1>5, <3>1
  <2>5. ASSUME NEW i \in 1..Len(resultCh'), NEW j \in 1..Len(resultCh'), i < j
        PROVE  Comes(resultCh'[i], resultCh'[j])
    <3>1. i + 1 < j + 1 /\ i + 1 \in 1..Len(resultCh) /\ j + 1 \in 1..Len(resultCh)
      BY <1>2, <2>5
    <3> QED BY <1>2, <3>1 DEF OrderInv
  <2>6. /\ \A i \in 1..Len(sent'), j \in 1..Len(resultCh') : Comes(sent[i], resultCh[j])'
        /\ \A i, j \in 1..Len(resultCh') : i < j => Comes(resultCh[i], resultCh[j])'
    BY <1>1, <2>3, <2>5 DEF Comes
  <2> QED BY <2>1, <2>2, <2>4, <2>6 DEF OrderInv
<1>7. EndInv' /\ FindInv'
  BY <1>1 DEF EndInv, FindInv, Undisturbed
<1> QED BY <1>3, <1>4, <1>6, <1>7

\* What is not a search's is not in its invariant.
LEMMA OthersKeep ==
    ASSUME SearchInv, UNCHANGED <<storeVars, readVars, searchVars>>
    PROVE  SearchInv'
<1> USE DEF SearchInv
<1>1. /\ UNCHANGED <<handler, before, jobs, todo, dispatching, worker, resultCh, closed>>
      /\ UNCHANGED <<stopCh, ctx, sent, request, span, written, data>>
      /\ UNCHANGED <<storeVars, readVars, before>>
  BY DEF searchVars, readVars, storeVars
<1>2. StoreInv'
  BY <1>1, StoreStays
<1>3. SearchTyped'
  BY <1>1 DEF SearchTyped, SearchInit
<1>4. JobsInv' /\ EndInv'
  <2>1. JobsInv'
    BY <1>1 DEF JobsInv, Dispatched, Busy
  <2>2. EndInv'
    BY <1>1 DEF EndInv, Undisturbed
  <2> QED BY <2>1, <2>2
<1>5. OrderInv'
  <2>1. \A e : Found(e) <=> Found(e)'
    BY <1>1 DEF Found, Dispatched, Busy
  <2> QED BY <1>1, <2>1 DEF OrderInv, Comes
<1>6. FindInv'
  <2> SUFFICES ASSUME Undisturbed, NEW p \in Positions', Wanted(p)'
               PROVE  ToScan(p)' \/ Scanned(p)' \/ WasFound(p)'
    BY <1>1 DEF FindInv, Undisturbed
  <2>1. ToScan(p) \/ Scanned(p) \/ WasFound(p)
    BY <1>1, StillTo
  <2> QED BY <1>1, <2>1 DEF ToScan, Scanned, WasFound, Busy
<1> QED BY <1>2, <1>3, <1>4, <1>5, <1>6

\* What a search has dispatched, found and sent, whatever the store and its other
\* readers do (searchJobsFor, scanSearchJob and SearchLogs).
THEOREM SearchInvariant == Spec => []SearchInv
<1>1. SearchInv /\ [Next]_vars => SearchInv'
  <2> SUFFICES ASSUME SearchInv, [Next]_vars PROVE SearchInv'
    OBVIOUS
  <2>1. CASE Store
    BY <2>1, StoreKeeps
  <2>2. CASE Find
    <3>1. UNCHANGED <<storeVars, readVars>> /\ request = "search" /\ SearchNext
      BY <2>2 DEF Find
    <3>2. CASE StartSearch
      BY <3>1, <3>2, StartKeeps
    <3>3. ASSUME NEW w \in Workers, TakeJob(w) \/ Scan(w) \/ SendResult(w) \/ ExitWorker(w)
          PROVE  SearchInv'
      BY <3>1, <3>3, TakeKeeps, ScanKeeps, SendKeeps, ExitKeeps
    <3>4. CASE CloseJobs \/ CloseResults \/ ReceiveLast \/ Cancel
      BY <3>1, <3>4, ClosingKeeps
    <3>5. CASE Receive
      BY <3>1, <3>5, ReceiveKeeps
    <3>6. CASE Drain
      BY <3>1, <3>6, DrainKeeps
    <3> QED BY <3>1, <3>2, <3>3, <3>4, <3>5, <3>6 DEF SearchNext, Goroutines
  <2>3. CASE Page \/ IndexPage \/ Fetch \/ Done \/ UNCHANGED vars
    <3>1. UNCHANGED <<storeVars, readVars, searchVars>>
      BY <2>3 DEF Page, IndexPage, Fetch, Done, vars
    <3> QED BY <3>1, OthersKeep
  <2> QED BY <2>1, <2>2, <2>3 DEF Next
<1> QED BY <1>1, StartsInv, PTL DEF Spec

\* A search sends nothing twice or out of the order of its file, and one that ends by
\* itself has sent every line that was there to find (search_service.go:89, :148).
THEOREM SearchFinds == Spec => []SearchExact
<1>1. SearchInv => SearchExact
  <2> SUFFICES ASSUME SearchInv PROVE SearchExact
    OBVIOUS
  <2> USE DEF SearchInv
  <2>1. ResultsInFileOrder
    <3>1. DOMAIN sent = 1..Len(sent)
      BY LenProperties DEF SearchTyped
    <3> QED BY <3>1 DEF OrderInv, Comes, ResultsInFileOrder
  <2>2. ASSUME handler = "done", ~ctx, NEW p \in Stored, At(p).id <= before, Matches(At(p))
        PROVE  \E i \in DOMAIN sent : sent[i] = <<<<p[1], p[2]>>, p[3], p[4]>>
    <3>1. Undisturbed /\ closed /\ resultCh = <<>>
      BY <2>2 DEF Undisturbed, EndInv
    <3>2. /\ \A w \in Workers : worker[w].pc = "exited"
          /\ todo = Len(jobs) + 1 /\ Len(jobs) \in Nat
      BY <3>1, SearchAssumption, LenProperties DEF EndInv, SearchTyped
    <3>3. p \in Positions /\ Wanted(p)
      BY <2>2 DEF Stored, Wanted
    <3>4. ToScan(p) \/ Scanned(p) \/ WasFound(p)
      BY <3>1, <3>3 DEF FindInv
    <3>5. ~ToScan(p)
      BY <3>2 DEF ToScan
    <3>6. ~Scanned(p)
      BY <3>2 DEF Scanned, Busy
    <3>7. PICK i \in 1..Len(sent) : sent[i] = <<SegmentOf(p), p[3], p[4]>>
      <4>1. Len(resultCh) = 0
        BY <3>1
      <4> QED BY <3>4, <3>5, <3>6, <4>1 DEF WasFound
    <3>8. DOMAIN sent = 1..Len(sent)
      BY LenProperties DEF SearchTyped
    <3> QED BY <3>7, <3>8 DEF SegmentOf
  <2> QED BY <2>1, <2>2 DEF SearchExact, SearchFindsAll
<1> QED BY <1>1, SearchInvariant, PTL

-----------------------------------------------------------------------------
(* The inductive invariant of a download. *)

Iterators == [chunks : Seq(Segments), at : Nat, file : Nat, offset : Nat]

\* What an entry of the merge heap says.
Line(y) == [id |-> y[4], ts |-> y[1]]

DownloadTyped ==
    /\ download \in {"start", "list", "open", "fill", "merge", "whole", "cut", "error",
                     "not found"}
    /\ download = "start" => DownloadInit
    /\ download # "start" => request = "download"
    /\ asked \in Nat /\ asked <= written
    /\ left \in SUBSET Nat /\ IsFiniteSet(left)
    /\ iterators \in Seq(Iterators)
    /\ peeked \in SUBSET (Times \X Nat \X Nat \X Nat) /\ IsFiniteSet(peeked)
    /\ counter \in Nat /\ body \in Seq([id : Nat, ts : Times])

\* An iterator's container, and the place of the line it has read last.
ContainerOf(n) == iterators[n].chunks[1][2]

Now(n) == <<iterators[n].chunks[iterators[n].at][1], ContainerOf(n),
            iterators[n].file, iterators[n].offset>>

\* The last iterator listed has no file yet, or did not get one.
HasFile(n) == n < Len(iterators) \/ download \notin {"open", "error"}

IteratorInv(n) ==
    LET it == iterators[n]
    IN  /\ Len(it.chunks) >= 1 /\ it.at \in 1..Len(it.chunks)
        /\ \A i, j \in 1..Len(it.chunks) : i < j => it.chunks[i][1] < it.chunks[j][1]
        /\ \A i \in 1..Len(it.chunks) : it.chunks[i][2] = ContainerOf(n)
        /\ HasFile(n) => <<it.chunks[it.at], it.file>> \in DOMAIN data
        /\ ~HasFile(n) => it.at = 1 /\ it.offset = 0

IteratorsInv ==
    /\ \A n \in 1..Len(iterators) : IteratorInv(n)
    /\ \A m, n \in 1..Len(iterators) : ContainerOf(m) = ContainerOf(n) => m = n
    /\ download \in {"list", "open"} => \A n \in 1..Len(iterators) : ContainerOf(n) \notin left
    /\ download = "open" => Len(iterators) >= 1

\* A line that is stored, and where.
Holds(p, line) == p \in Positions /\ At(p) = line

\* The heap has a line at most of each iterator, the one read last.
PeekedInv ==
    /\ \A y \in peeked : y[3] \in 1..Len(iterators) /\ Holds(Now(y[3]), Line(y))
    /\ \A y, z \in peeked : y[3] = z[3] => y = z
    /\ download = "fill" => left \subseteq 1..Len(iterators) /\ \A y \in peeked : y[3] \notin left
    /\ download \in {"list", "open", "whole"} => peeked = {}
    /\ download \in {"list", "open", "fill"} => body = <<>>

\* What was sent, an iterator has gone past, ...
Passed(n, p) ==
    /\ p[2] = ContainerOf(n)
    /\ Below(p, Now(n)) \/ (p = Now(n) /\ \A y \in peeked : y[3] # n)

\* ... and a line comes after a later one because of one that is before it in its
\* own container.
Explained(line, q) == \E x \in Positions : x[2] = q[2] /\ Below(x, q) /\ At(x).ts >= line.ts

BodyInv ==
    /\ \A i \in 1..Len(body) :
          \E p \in Positions : At(p) = body[i] /\ \E n \in 1..Len(iterators) : Passed(n, p)
    /\ \A i, j \in 1..Len(body) : i < j =>
          \A p, q \in Positions : At(p) = body[i] /\ At(q) = body[j] =>
              /\ p[2] = q[2] => Below(p, q)
              /\ body[i].ts > body[j].ts => Explained(body[i], q)
    /\ \A i \in 1..Len(body) : \A y \in peeked :
          body[i].ts > y[1] => Explained(body[i], Now(y[3]))

\* A line of those there were once, in the range, that is still stored.
Remains(p, n) == p \in Stored /\ At(p).id <= n /\ Matches(At(p))

\* A line that is to be sent is in a container not listed yet, ahead of an iterator
\* that will be asked for more, on the heap, or sent.
ToSend(p) == Remains(p, asked)

WillRefill(n) ==
    \/ download \in {"list", "open"}
    \/ download = "fill" /\ n \in left
    \/ \E y \in peeked : y[3] = n

AheadIn(it, p) ==
    \E k \in it.at..Len(it.chunks) :
        /\ it.chunks[k] = SegmentOf(p)
        /\ k = it.at => it.file = p[3] /\ it.offset < p[4]

AheadOf(n, p) ==
    IF HasFile(n) THEN AheadIn(iterators[n], p)
    ELSE \E k \in 1..Len(iterators[n].chunks) : iterators[n].chunks[k] = SegmentOf(p)

WholeInv ==
    download \in {"list", "open", "fill", "merge", "whole"} =>
        \A p \in Positions : ToSend(p) =>
            \/ download \in {"list", "open"} /\ p[2] \in left
            \/ \E n \in 1..Len(iterators) : AheadOf(n, p) /\ WillRefill(n)
            \/ \E y \in peeked : Line(y) = At(p)
            \/ \E i \in 1..Len(body) : body[i] = At(p)

DownloadInv == DownloadTyped /\ IteratorsInv /\ PeekedInv /\ BodyInv /\ WholeInv


-----------------------------------------------------------------------------
(* Places in the store. *)

\* Where there is a line in a file, there is a place in the store.
LEMMA PlaceOf ==
    ASSUME StoreInv, LinesInv, NEW f \in DOMAIN data, NEW k \in DOMAIN data[f], k \in 1..MaxLines
    PROVE  /\ <<f[1][1], f[1][2], f[2], k>> \in Positions
           /\ At(<<f[1][1], f[1][2], f[2], k>>) = data[f][k]
<1>1. /\ f \in Segments \X Nat /\ f = <<f[1], f[2]>> /\ f[1] \in Segments /\ f[2] \in Nat
      /\ f[1] = <<f[1][1], f[1][2]>> /\ f[1][1] \in Days /\ f[1][2] \in Containers
  BY DEF StoreInv, Segments
<1>2. f[2] \in 1..MaxChanges + 1
  <2>1. FilesNamed(f[1]) \in SUBSET DOMAIN data /\ IsFiniteSet(DOMAIN data)
    BY DEF FilesNamed, StoreInv
  <2>2. Cardinality(FilesNamed(f[1])) \in Nat
    BY <2>1, FS_Subset, FS_CardinalityType
  <2>3. /\ f[2] <= Cardinality(FilesNamed(f[1])) /\ Cardinality(FilesNamed(f[1])) <= changes + 1
        /\ changes \in Nat /\ changes <= MaxChanges /\ f[2] >= 1
    BY <1>1 DEF StoreInv, LinesInv
  <2> QED BY <1>1, <2>2, <2>3, StoreAssumption
<1> DEFINE p == <<f[1][1], f[1][2], f[2], k>>
<1>3. p[1] = f[1][1] /\ p[2] = f[1][2] /\ p[3] = f[2] /\ p[4] = k
  OBVIOUS
<1>4. p \in Days \X Containers \X (1..MaxChanges + 1) \X (1..MaxLines)
  BY <1>1, <1>2
<1> HIDE DEF p
<1>5. <<<<p[1], p[2]>>, p[3]>> = f
  BY <1>1, <1>3
<1>6. p \in Positions /\ At(p) = data[f][k]
  BY <1>3, <1>4, <1>5 DEF Positions, At
<1> QED BY <1>6 DEF p

\* A place holds a line, of a number written and a time there is.
LEMMA PlaceHas ==
    ASSUME StoreInv, LinesInv, NEW p \in Positions
    PROVE  /\ p = <<p[1], p[2], p[3], p[4]>> /\ p \in Fours /\ SegmentOf(p) \in Segments
           /\ p[1] \in Int /\ p[2] \in Nat /\ p[3] \in Nat /\ p[4] \in Nat /\ p[4] \in 1..MaxLines
           /\ <<SegmentOf(p), p[3]>> \in DOMAIN data
           /\ p[4] \in DOMAIN data[<<SegmentOf(p), p[3]>>]
           /\ At(p) = data[<<SegmentOf(p), p[3]>>][p[4]]
           /\ At(p) \in [id : Nat, ts : Times] /\ At(p).id <= written
<1>1. /\ p = <<p[1], p[2], p[3], p[4]>> /\ p[1] \in Days /\ p[2] \in Containers
      /\ p[3] \in 1..MaxChanges + 1 /\ p[4] \in 1..MaxLines
      /\ <<SegmentOf(p), p[3]>> \in DOMAIN data /\ p[4] \in DOMAIN data[<<SegmentOf(p), p[3]>>]
      /\ At(p) = data[<<SegmentOf(p), p[3]>>][p[4]]
  BY DEF Positions, At, SegmentOf
<1>2. SegmentOf(p) \in Segments /\ SegmentOf(p)[1] = p[1] /\ SegmentOf(p)[2] = p[2]
  BY <1>1 DEF SegmentOf, Segments
<1>3. p[1] \in Int /\ p[2] \in Nat /\ p[3] \in Nat /\ p[4] \in Nat
  BY <1>1, <1>2, DayTyped, StoreAssumption DEF MaxLines
<1>4. p \in Fours
  BY <1>1, <1>3 DEF Fours
<1>5. At(p) \in [id : Nat, ts : Times] /\ At(p).id <= written
  BY <1>1 DEF StoreInv, LinesInv, LineOf
<1> QED BY <1>1, <1>2, <1>3, <1>4, <1>5

\* Two places do not hold the same line.
LEMMA OnePlace ==
    ASSUME StoreInv, LinesInv, NEW p \in Positions, NEW q \in Positions, At(p) = At(q)
    PROVE  p = q
<1>1. <<SegmentOf(p), p[3]>> = <<SegmentOf(q), q[3]>> /\ p[4] = q[4]
  <2> DEFINE f == <<SegmentOf(p), p[3]>>
             g == <<SegmentOf(q), q[3]>>
  <2>1. f \in DOMAIN data /\ p[4] \in DOMAIN data[f] /\ At(p) = data[f][p[4]]
    BY PlaceHas
  <2>2. g \in DOMAIN data /\ q[4] \in DOMAIN data[g] /\ At(q) = data[g][q[4]]
    BY PlaceHas
  <2> HIDE DEF f, g
  <2>3. data[f][p[4]].id = data[g][q[4]].id
    BY <2>1, <2>2
  <2>4. f = g /\ p[4] = q[4]
    BY <2>1, <2>2, <2>3 DEF LinesInv
  <2> QED BY <2>4 DEF f, g
<1>2. p[1] = q[1] /\ p[2] = q[2] /\ p[3] = q[3]
  BY <1>1 DEF SegmentOf
<1> QED BY <1>1, <1>2, PlaceHas

\* A place stays, and its line.
LEMMA PlacesStay ==
    ASSUME Grows, NEW p \in Positions
    PROVE  p \in Positions' /\ At(p)' = At(p)
BY DEF Grows, Positions, At

\* Segments that appear and are removed add nothing to what remains of the lines there were.
LEMMA RemainsStay ==
    ASSUME StoreInv', Grows, UNCHANGED span, NEW n \in Nat, n <= written,
           \A x \in DOMAIN seg' \ DOMAIN seg : DOMAIN data'[<<x, seg'[x]>>] = {},
           NEW p \in Positions', Remains(p, n)'
    PROVE  p \in Positions /\ Remains(p, n) /\ At(p)' = At(p)
<1> DEFINE s == SegmentOf(p)
           f == <<s, p[3]>>
<1>1. /\ p \in Days \X Containers \X (1..MaxChanges + 1) \X (1..MaxLines)
      /\ f \in DOMAIN data' /\ p[4] \in DOMAIN data'[f]
      /\ s \in DOMAIN seg' /\ seg'[s] = p[3]
      /\ data'[f][p[4]].id <= n /\ At(p)' = data'[f][p[4]] /\ Matches(At(p))'
  BY DEF Positions, Remains, Stored, At, SegmentOf
<1>2. s \in DOMAIN seg
  <2>1. <<s, seg'[s]>> = f
    BY <1>1
  <2> HIDE DEF f, s
  <2> QED BY <1>1, <2>1
<1> HIDE DEF f
<1>3. data'[f][p[4]].id \in Nat
  BY <1>1 DEF StoreInv, LineOf
<1>4. f \in DOMAIN data /\ p[4] \in DOMAIN data[f]
  <2>1. ~(data'[f][p[4]].id > written)
    BY <1>1, <1>3 DEF Grows
  <2> QED BY <1>1, <2>1 DEF Grows
<1>5. data'[f][p[4]] = data[f][p[4]]
  BY <1>4 DEF Grows
<1>6. seg[s] = p[3]
  BY <1>1, <1>2 DEF Grows
<1>7. p \in Positions /\ At(p) = data[f][p[4]]
  BY <1>1, <1>4 DEF Positions, At, f, SegmentOf
<1>8. Matches(At(p)) /\ At(p).id <= n
  BY <1>1, <1>5, <1>7 DEF Matches
<1> QED BY <1>1, <1>2, <1>5, <1>6, <1>7, <1>8 DEF Remains, Stored, SegmentOf

\* A download has no more to send than there was when it was asked for.
LEMMA ToSendStays ==
    ASSUME StoreInv', Grows, UNCHANGED <<span, asked>>, asked \in Nat, asked <= written,
           \A x \in DOMAIN seg' \ DOMAIN seg : DOMAIN data'[<<x, seg'[x]>>] = {},
           NEW p \in Positions', ToSend(p)'
    PROVE  p \in Positions /\ ToSend(p) /\ At(p)' = At(p)
<1> PICK n \in Nat : n = asked
  OBVIOUS
<1>1. Remains(p, n)'
  BY DEF ToSend, Remains
<1>2. p \in Positions /\ Remains(p, n) /\ At(p)' = At(p)
  BY <1>1, RemainsStay
<1> QED BY <1>2 DEF ToSend

-----------------------------------------------------------------------------
(* The download. *)

\* What an iterator is made of.
LEMMA IteratorIs ==
    ASSUME DownloadTyped, NEW n \in 1..Len(iterators)
    PROVE  /\ iterators[n] \in Iterators /\ iterators[n].chunks \in Seq(Segments)
           /\ iterators[n].at \in Nat /\ iterators[n].file \in Nat /\ iterators[n].offset \in Nat
           /\ Len(iterators[n].chunks) \in Nat
           /\ \A k \in 1..Len(iterators[n].chunks) : iterators[n].chunks[k] \in Segments
<1>1. iterators[n] \in Iterators
  <2>1. iterators \in Seq(Iterators)
    BY Zenon DEF DownloadTyped
  <2> QED BY <2>1, ElementOfSeq
<1>2. /\ iterators[n].chunks \in Seq(Segments) /\ iterators[n].at \in Nat
      /\ iterators[n].file \in Nat /\ iterators[n].offset \in Nat
  BY <1>1 DEF Iterators
<1> QED BY <1>1, <1>2

\* The store changes, and the download does not.
LEMMA DownloadRests ==
    ASSUME StoreInv, LinesInv, DownloadInv, StoreInv', Grows,
           UNCHANGED <<request, span, downloadVars>>,
           \A x \in DOMAIN seg' \ DOMAIN seg : DOMAIN data'[<<x, seg'[x]>>] = {}
    PROVE  DownloadInv'
<1> USE DEF DownloadInv
<1>1. UNCHANGED <<request, span, download, asked, left, iterators, peeked, counter, body>>
  BY DEF downloadVars
<1>2. DownloadTyped'
  <2>1. asked \in Nat /\ asked <= written'
    <3>1. asked \in Nat /\ asked <= written
      BY Zenon DEF DownloadTyped
    <3> QED BY <3>1 DEF Grows
  <2>2. DownloadInit' <=> DownloadInit
    BY <1>1 DEF DownloadInit
  <2> QED BY <1>1, <2>1, <2>2, Zenon DEF DownloadTyped
<1>3. IteratorsInv'
  <2>1. \A n : ContainerOf(n)' = ContainerOf(n) /\ (HasFile(n)' <=> HasFile(n))
    BY <1>1 DEF ContainerOf, HasFile
  <2>2. ASSUME NEW n \in 1..Len(iterators) PROVE IteratorInv(n)'
    <3>1. \A f \in DOMAIN data : f \in DOMAIN data'
      BY DEF Grows
    <3>2. IteratorInv(n)
      BY DEF IteratorsInv
    <3> QED BY <1>1, <2>1, <3>1, <3>2 DEF IteratorInv
  <2> QED BY <1>1, <2>1, <2>2 DEF IteratorsInv
<1>4. /\ \A n : Now(n)' = Now(n) /\ \A p : Passed(n, p)' <=> Passed(n, p)
      /\ \A n, p : AheadOf(n, p)' <=> AheadOf(n, p)
      /\ \A n : WillRefill(n)' <=> WillRefill(n)
  <2>1. \A n : Now(n)' = Now(n)
    BY <1>1 DEF Now, ContainerOf
  <2>2. \A n, p : Passed(n, p)' <=> Passed(n, p)
    BY <1>1, <2>1 DEF Passed, ContainerOf, Below
  <2>3. \A n, p : AheadOf(n, p)' <=> AheadOf(n, p)
    BY <1>1 DEF AheadOf, AheadIn, HasFile, SegmentOf
  <2>4. \A n : WillRefill(n)' <=> WillRefill(n)
    BY <1>1 DEF WillRefill
  <2> QED BY <2>1, <2>2, <2>3, <2>4
<1>5. PeekedInv'
  <2>1. ASSUME NEW y \in peeked PROVE y[3] \in 1..Len(iterators) /\ Holds(Now(y[3]), Line(y))'
    <3> PICK p : p = Now(y[3])
      OBVIOUS
    <3>1. y[3] \in 1..Len(iterators) /\ p \in Positions /\ At(p) = Line(y)
      BY DEF PeekedInv, Holds
    <3>2. p \in Positions' /\ At(p)' = Line(y)
      BY <3>1, PlacesStay
    <3>3. Line(y)' = Line(y) /\ Now(y[3])' = p
      BY <1>4 DEF Line
    <3>4. Holds(p, Line(y))'
      BY <3>2, <3>3 DEF Holds
    <3> QED BY <3>1, <3>3, <3>4 DEF Holds
  <2> QED BY <1>1, <2>1 DEF PeekedInv
<1>6. ASSUME NEW i \in 1..Len(body), NEW p \in Positions', At(p)' = body[i]
      PROVE  p \in Positions /\ At(p) = body[i]
  <2>1. PICK q \in Positions : At(q) = body[i]
    BY DEF BodyInv
  <2> DEFINE f == <<SegmentOf(p), p[3]>>
             g == <<SegmentOf(q), q[3]>>
  <2>2. /\ p \in Days \X Containers \X (1..MaxChanges + 1) \X (1..MaxLines)
        /\ f \in DOMAIN data' /\ p[4] \in DOMAIN data'[f] /\ data'[f][p[4]] = At(q)
    BY <1>6, <2>1 DEF Positions, At, SegmentOf
  <2>3. At(q).id \in Nat /\ At(q).id <= written /\ written \in Nat
    BY PlaceHas DEF StoreInv
  <2> HIDE DEF f
  <2>4. f \in DOMAIN data /\ p[4] \in DOMAIN data[f]
    BY <2>2, <2>3 DEF Grows
  <2>5. data[f][p[4]] = At(q)
    BY <2>2, <2>4 DEF Grows
  <2>6. p \in Positions /\ At(p) = data[f][p[4]]
    BY <2>2, <2>4 DEF Positions, At, f, SegmentOf
  <2> QED BY <2>1, <2>5, <2>6
<1>7. ASSUME NEW line, NEW q, Explained(line, q) PROVE Explained(line, q)'
  BY <1>7, PlacesStay DEF Explained, Below
<1>8. BodyInv'
  <2>1. ASSUME NEW i \in 1..Len(body)
        PROVE  \E p \in Positions' : At(p)' = body[i] /\ \E n \in 1..Len(iterators) : Passed(n, p)'
    BY <1>4, PlacesStay DEF BodyInv
  <2>2. ASSUME NEW i \in 1..Len(body), NEW j \in 1..Len(body), i < j,
               NEW p \in Positions', NEW q \in Positions', At(p)' = body[i], At(q)' = body[j]
        PROVE  /\ p[2] = q[2] => Below(p, q)
               /\ body[i].ts > body[j].ts => Explained(body[i], q)'
    <3>1. p \in Positions /\ q \in Positions /\ At(p) = body[i] /\ At(q) = body[j]
      BY <1>6, <2>2
    <3> QED BY <1>1, <1>7, <2>2, <3>1 DEF BodyInv
  <2>3. ASSUME NEW i \in 1..Len(body), NEW y \in peeked, body[i].ts > y[1]
        PROVE  Explained(body[i], Now(y[3]))'
    <3> PICK q : q = Now(y[3])
      OBVIOUS
    <3>1. Explained(body[i], q)
      BY <2>3 DEF BodyInv
    <3> QED BY <1>1, <1>4, <1>7, <3>1
  <2> QED BY <1>1, <2>1, <2>2, <2>3 DEF BodyInv, Below
<1>9. WholeInv'
  <2> SUFFICES ASSUME download \in {"list", "open", "fill", "merge", "whole"},
                      NEW p \in Positions', ToSend(p)'
               PROVE  \/ download \in {"list", "open"} /\ p[2] \in left
                      \/ \E n \in 1..Len(iterators) : AheadOf(n, p) /\ WillRefill(n)
                      \/ \E y \in peeked : Line(y) = At(p)'
                      \/ \E i \in 1..Len(body) : body[i] = At(p)'
    BY <1>1, <1>4 DEF WholeInv, Line
  <2>1. p \in Positions /\ ToSend(p) /\ At(p)' = At(p)
    BY <1>1, ToSendStays, Zenon DEF DownloadTyped
  <2> QED BY <2>1 DEF WholeInv
<1> QED BY <1>2, <1>3, <1>5, <1>8, <1>9


\* Nothing has been sent.
LEMMA NothingSent ==
    ASSUME body' = <<>>
    PROVE  BodyInv'
<1>1. ASSUME NEW i \in 1..Len(body') PROVE FALSE
  <2>1. Len(body') = 0
    OBVIOUS
  <2> QED BY <2>1
<1>2. (\A i \in 1..Len(body) :
          \E p \in Positions : At(p) = body[i] /\ \E n \in 1..Len(iterators) : Passed(n, p))'
  <2> SUFFICES ASSUME NEW i \in 1..Len(body') PROVE FALSE
    OBVIOUS
  <2> QED BY <1>1
<1>3. (\A i, j \in 1..Len(body) : i < j =>
          \A p, q \in Positions : At(p) = body[i] /\ At(q) = body[j] =>
              /\ p[2] = q[2] => Below(p, q)
              /\ body[i].ts > body[j].ts => Explained(body[i], q))'
  <2> SUFFICES ASSUME NEW i \in 1..Len(body') PROVE FALSE
    OBVIOUS
  <2> QED BY <1>1
<1>4. (\A i \in 1..Len(body) : \A y \in peeked :
          body[i].ts > y[1] => Explained(body[i], Now(y[3])))'
  <2> SUFFICES ASSUME NEW i \in 1..Len(body') PROVE FALSE
    OBVIOUS
  <2> QED BY <1>1
<1> QED BY <1>2, <1>3, <1>4 DEF BodyInv

\* A download is asked for: nothing has been sent or listed.
LEMMA AskKeeps ==
    ASSUME StoreInv, LinesInv, DownloadInv, UNCHANGED <<storeVars, readVars>>, AskDownload,
           request = "download"
    PROVE  DownloadInv'
<1> USE DEF DownloadInv
<1>1. /\ DownloadInit /\ asked' = written /\ left' = {s[2] : s \in DOMAIN seg}
      /\ download' = "list" /\ request' = "download" /\ UNCHANGED <<seg, data, written, span>>
      /\ UNCHANGED <<iterators, peeked, counter, body>>
  BY DEF AskDownload, DownloadTyped, storeVars, readVars
<1>2. /\ iterators' = <<>> /\ peeked' = {} /\ body' = <<>> /\ Len(iterators') = 0
      /\ Len(body') = 0
  BY <1>1 DEF DownloadInit
<1>3. left' \in SUBSET Nat /\ IsFiniteSet(left')
  <2>1. \A s \in DOMAIN seg : s[2] \in Nat
    BY DayTyped DEF StoreInv
  <2> DEFINE f == [s \in DOMAIN seg |-> s[2]]
             T == {s[2] : s \in DOMAIN seg}
  <2>2. f \in [DOMAIN seg -> T] /\ \A t \in T : \E s \in DOMAIN seg : f[s] = t
    OBVIOUS
  <2>3. f \in Surjection(DOMAIN seg, T)
    <3> HIDE DEF f, T
    <3> QED BY <2>2 DEF Surjection
  <2>4. IsFiniteSet(T)
    <3> HIDE DEF f, T
    <3> QED BY <2>3, FS_Surjection DEF StoreInv
  <2> QED BY <1>1, <2>1, <2>4
<1>4. DownloadTyped'
  <2>1. counter' \in Nat /\ asked' \in Nat /\ asked' <= written' /\ IsFiniteSet(peeked')
    BY <1>1, <1>2, FS_EmptySet DEF StoreInv, DownloadInit
  <2>2. iterators' \in Seq(Iterators) /\ body' \in Seq([id : Nat, ts : Times])
    BY <1>2, EmptySeq
  <2> QED BY <1>1, <1>2, <1>3, <2>1, <2>2, Zenon DEF DownloadTyped
<1>5. IteratorsInv' /\ PeekedInv' /\ BodyInv'
  BY <1>1, <1>2 DEF IteratorsInv, PeekedInv, BodyInv
<1>6. WholeInv'
  <2> SUFFICES ASSUME NEW p \in Positions', ToSend(p)' PROVE p[2] \in left'
    BY <1>1 DEF WholeInv
  <2>1. SegmentOf(p) \in DOMAIN seg
    BY <1>1 DEF ToSend, Remains, Stored, SegmentOf
  <2>2. SegmentOf(p)[2] = p[2]
    BY DEF SegmentOf
  <2> QED BY <1>1, <2>1, <2>2
<1> QED BY <1>4, <1>5, <1>6

\* There is a least container left.
LEMMA LeastLeft ==
    ASSUME DownloadTyped, left # {}
    PROVE  Least(left) \in left /\ Least(left) \in Nat
<1>1. \E n \in left : \A m \in left : n <= m
  BY LeastOf, Zenon DEF DownloadTyped
<1> QED BY <1>1, Zenon DEF Least, DownloadTyped

\* Segments of one container in order are those of its days in order.
LEMMA OwnListed ==
    ASSUME NEW own \in SUBSET Segments, IsFiniteSet(own), own # {}, NEW c,
           \A s \in own : s[2] = c
    PROVE  /\ InOrder(own) \in Seq(Segments) /\ Len(InOrder(own)) \in Nat
           /\ Len(InOrder(own)) >= 1
           /\ \A i \in 1..Len(InOrder(own)) : InOrder(own)[i] \in own /\ InOrder(own)[i][2] = c
           /\ \A i, j \in 1..Len(InOrder(own)) : i < j => InOrder(own)[i][1] < InOrder(own)[j][1]
           /\ \A s \in own : \E i \in 1..Len(InOrder(own)) : InOrder(own)[i] = s
<1> DEFINE m == Cardinality(own)
<1>1. ASSUME NEW s \in own PROVE s \in Int \X Int /\ s[2] = c
  <2>1. s[1] \in Int /\ s[2] \in Nat /\ s = <<s[1], s[2]>>
    BY DayTyped
  <2>2. <<s[1], s[2]>> \in Int \X Int
    BY <2>1
  <2> QED BY <2>1, <2>2
<1>2. Ordered(own)
  BY <1>1, PairsOrdered DEF Ordered
<1>3. /\ m \in Nat /\ InOrder(own) \in [1..m -> own]
      /\ \A i, j \in 1..m : i < j => Below(InOrder(own)[i], InOrder(own)[j])
      /\ \A x \in own : \E i \in 1..m : InOrder(own)[i] = x
  BY <1>2, InOrderLists
<1>4. m # 0
  BY FS_EmptySet
<1> HIDE DEF m
<1>5. InOrder(own) \in Seq(own)
  BY <1>3, SeqDef
<1>6. InOrder(own) \in Seq(Segments)
  BY <1>5, SeqMonotonic
<1>7. Len(InOrder(own)) = m
  <2>1. DOMAIN InOrder(own) = 1..m
    BY <1>3
  <2> QED BY <1>3, <1>5, <2>1, LenProperties
<1>8. ASSUME NEW i \in 1..m, NEW j \in 1..m, i < j
      PROVE  InOrder(own)[i][1] < InOrder(own)[j][1]
  <2> PICK x \in own : x = InOrder(own)[i]
    BY <1>3
  <2> PICK y \in own : y = InOrder(own)[j]
    BY <1>3
  <2>1. Below(x, y)
    BY <1>3, <1>8
  <2>2. x \in Int \X Int /\ y \in Int \X Int /\ x[2] = c /\ y[2] = c
    BY <1>1
  <2>3. x[2] \in Int
    BY <2>2
  <2>4. x[1] < y[1]
    BY <2>1, <2>2, <2>3, BelowPairs
  <2> QED BY <2>4
<1> QED BY <1>1, <1>3, <1>4, <1>6, <1>7, <1>8

\* A container's segments are listed.
LEMMA ListKeeps ==
    ASSUME StoreInv, LinesInv, DownloadInv, UNCHANGED <<storeVars, readVars>>, ListChunks,
           request = "download"
    PROVE  DownloadInv'
<1> USE DEF DownloadInv
<1> DEFINE c == Least(left)
           own == {s \in DOMAIN seg : s[2] = c}
           it == [chunks |-> InOrder(own), at |-> 1, file |-> 0, offset |-> 0]
<1>1. /\ download = "list" /\ left # {} /\ left' = left \ {c}
      /\ UNCHANGED <<asked, peeked, counter, body, request, span, seg, data, written>>
      /\ own = {} => UNCHANGED <<download, iterators>>
      /\ own # {} => download' = "open" /\ iterators' = Append(iterators, it)
  BY DEF ListChunks, storeVars, readVars
<1>2. c \in left /\ c \in Nat
  BY <1>1, LeastLeft
<1>3. left' \in SUBSET Nat /\ IsFiniteSet(left')
  <2> HIDE DEF c
  <2>1. left \ {c} \in SUBSET left /\ IsFiniteSet(left)
    BY Zenon DEF DownloadTyped
  <2>2. IsFiniteSet(left \ {c})
    BY <2>1, FS_Subset
  <2> QED BY <1>1, <2>2 DEF DownloadTyped
<1>4. Positions' = Positions /\ \A p : At(p)' = At(p) /\ (ToSend(p)' <=> ToSend(p))
  BY <1>1 DEF Positions, At, ToSend, Remains, Stored, Matches
<1>5. Len(iterators) \in Nat /\ iterators \in Seq(Iterators) /\ peeked = {} /\ body = <<>>
      /\ Len(body) = 0
  BY <1>1 DEF DownloadTyped, PeekedInv
<1> HIDE DEF c, own, it
<1>6. CASE own = {}
  <2>1. download' = "list" /\ iterators' = iterators
    BY <1>1, <1>6
  <2>2. DownloadTyped'
    BY <1>1, <1>3, <2>1 DEF DownloadTyped
  <2>3. IteratorsInv'
    <3>1. \A n : IteratorInv(n)' <=> IteratorInv(n)
      BY <1>1, <2>1 DEF IteratorInv, ContainerOf, HasFile
    <3>2. \A n : ContainerOf(n)' = ContainerOf(n)
      BY <2>1 DEF ContainerOf
    <3> QED BY <1>1, <2>1, <3>1, <3>2 DEF IteratorsInv
  <2>4. PeekedInv' /\ BodyInv'
    BY <1>1, <1>5, <2>1 DEF PeekedInv, BodyInv
  <2>5. WholeInv'
    <3> SUFFICES ASSUME NEW p \in Positions, ToSend(p)
                 PROVE  \/ p[2] \in left'
                        \/ \E n \in 1..Len(iterators') : AheadOf(n, p)' /\ WillRefill(n)'
      BY <1>4, <2>1 DEF WholeInv
    <3>1. p[2] \in left \/ \E n \in 1..Len(iterators) : AheadOf(n, p)
      BY <1>1, <1>5 DEF WholeInv
    <3>2. p[2] # c
      <4>1. SegmentOf(p) \in DOMAIN seg /\ SegmentOf(p)[2] = p[2]
        BY DEF ToSend, Remains, Stored, SegmentOf
      <4> QED BY <1>6, <4>1 DEF own
    <3>3. \A n : (AheadOf(n, p)' <=> AheadOf(n, p)) /\ WillRefill(n)'
      BY <1>1, <2>1 DEF AheadOf, AheadIn, HasFile, SegmentOf, WillRefill
    <3> QED BY <1>1, <2>1, <3>1, <3>2, <3>3
  <2> QED BY <2>2, <2>3, <2>4, <2>5
<1>7. CASE own # {}
  <2> PICK listed : listed = InOrder(own)
    OBVIOUS
  <2>1. /\ listed \in Seq(Segments) /\ Len(listed) \in Nat /\ Len(listed) >= 1
        /\ \A i \in 1..Len(listed) : listed[i] \in own /\ listed[i][2] = c
        /\ \A i, j \in 1..Len(listed) : i < j => listed[i][1] < listed[j][1]
        /\ \A s \in own : \E i \in 1..Len(listed) : listed[i] = s
    <3>1. own \in SUBSET DOMAIN seg /\ own \in SUBSET Segments /\ \A s \in own : s[2] = c
      BY DEF own, StoreInv
    <3>2. IsFiniteSet(own)
      BY <3>1, FS_Subset DEF StoreInv
    <3>3. /\ InOrder(own) \in Seq(Segments) /\ Len(InOrder(own)) \in Nat
          /\ Len(InOrder(own)) >= 1
          /\ \A i \in 1..Len(InOrder(own)) : InOrder(own)[i] \in own /\ InOrder(own)[i][2] = c
          /\ \A i, j \in 1..Len(InOrder(own)) :
                i < j => InOrder(own)[i][1] < InOrder(own)[j][1]
          /\ \A s \in own : \E i \in 1..Len(InOrder(own)) : InOrder(own)[i] = s
      BY <1>7, <3>1, <3>2, OwnListed
    <3> QED BY <3>3, Zenon
  <2> PICK m : m = Len(iterators) + 1
    OBVIOUS
  <2>2. /\ it \in Iterators /\ it.chunks = listed /\ it.at = 1 /\ it.file = 0 /\ it.offset = 0
    BY <2>1 DEF it, Iterators
  <2>3. /\ iterators' \in Seq(Iterators) /\ Len(iterators') = m /\ m \in Nat
        /\ iterators'[m] = it /\ \A n \in 1..Len(iterators) : iterators'[n] = iterators[n]
        /\ download' = "open"
    BY <1>1, <1>5, <1>7, <2>2
  <2>4. \A n \in 1..m : n \in 1..Len(iterators) \/ n = m
    BY <1>5
  <2>5. DownloadTyped'
    BY <1>1, <1>3, <2>3 DEF DownloadTyped
  <2>6. /\ \A n \in 1..Len(iterators) : ContainerOf(n)' = ContainerOf(n) /\ HasFile(n) /\ HasFile(n)'
        /\ ContainerOf(m)' = c /\ ~HasFile(m)'
    <3>1. 1 \in 1..Len(listed)
      BY <2>1
    <3>2. ContainerOf(m)' = c
      BY <2>1, <2>2, <2>3, <3>1 DEF ContainerOf
    <3>3. \A n \in 1..Len(iterators) : n < Len(iterators')
      BY <1>5, <2>3
    <3>4. ~(m < Len(iterators'))
      BY <2>3
    <3>5. \A n \in 1..Len(iterators) : ContainerOf(n)' = ContainerOf(n)
      BY <2>3 DEF ContainerOf
    <3> QED BY <1>1, <2>3, <3>2, <3>3, <3>4, <3>5 DEF HasFile
  <2>7. IteratorsInv'
    <3>1. ASSUME NEW n \in 1..Len(iterators) PROVE IteratorInv(n)'
      <4>1. IteratorInv(n)
        BY DEF IteratorsInv
      <4> QED BY <1>1, <2>3, <2>6, <4>1 DEF IteratorInv
    <3>2. IteratorInv(m)'
      <4>1. 1 \in 1..Len(listed)
        BY <2>1
      <4> QED BY <2>1, <2>2, <2>3, <2>6, <4>1 DEF IteratorInv
    <3>3. \A n \in 1..Len(iterators) : ContainerOf(n) # c
      BY <1>1, <1>2 DEF IteratorsInv
    <3>4. \A n \in 1..m : IteratorInv(n)'
      BY <2>4, <3>1, <3>2
    <3>5. \A k, n \in 1..m : ContainerOf(k)' = ContainerOf(n)' => k = n
      BY <2>4, <2>6, <3>3 DEF IteratorsInv
    <3>6. \A n \in 1..m : ContainerOf(n)' \notin left'
      BY <1>1, <2>4, <2>6 DEF IteratorsInv
    <3>7. m >= 1
      BY <1>5
    <3> QED BY <2>3, <3>4, <3>5, <3>6, <3>7 DEF IteratorsInv
  <2>8. PeekedInv' /\ BodyInv'
    BY <1>1, <1>5, <2>3 DEF PeekedInv, BodyInv
  <2>9. WholeInv'
    <3> SUFFICES ASSUME NEW p \in Positions, ToSend(p)
                 PROVE  \/ p[2] \in left'
                        \/ \E n \in 1..Len(iterators') : AheadOf(n, p)' /\ WillRefill(n)'
      BY <1>4, <2>3 DEF WholeInv
    <3>1. p[2] \in left \/ \E n \in 1..Len(iterators) : AheadOf(n, p)
      BY <1>1, <1>5 DEF WholeInv
    <3>2. \A n : WillRefill(n)'
      BY <2>3 DEF WillRefill
    <3>3. CASE p[2] = c
      <4>1. SegmentOf(p) \in own
        BY <3>3 DEF ToSend, Remains, Stored, SegmentOf, own
      <4>2. \E k \in 1..Len(listed) : listed[k] = SegmentOf(p)
        BY <2>1, <4>1
      <4>3. SegmentOf(p)' = SegmentOf(p)
        BY DEF SegmentOf
      <4>4. AheadOf(m, p)'
        BY <2>2, <2>3, <2>6, <4>2, <4>3 DEF AheadOf
      <4>5. m \in 1..Len(iterators')
        BY <1>5, <2>3
      <4> QED BY <3>2, <4>4, <4>5
    <3>4. CASE p[2] \in left /\ p[2] # c
      BY <1>1, <3>4
    <3>5. ASSUME NEW n \in 1..Len(iterators), AheadOf(n, p)
          PROVE  n \in 1..Len(iterators') /\ AheadOf(n, p)'
      <4>1. n \in 1..Len(iterators')
        BY <1>5, <2>3
      <4> QED BY <2>3, <2>6, <3>5, <4>1 DEF AheadOf, AheadIn, SegmentOf
    <3> QED BY <3>1, <3>2, <3>3, <3>4, <3>5
  <2> QED BY <2>5, <2>7, <2>8, <2>9
<1> QED BY <1>6, <1>7

\* Its first segment is opened.
LEMMA OpenKeeps ==
    ASSUME StoreInv, LinesInv, DownloadInv, UNCHANGED <<storeVars, readVars>>, OpenFirst,
           request = "download"
    PROVE  DownloadInv'
<1> USE DEF DownloadInv
<1> PICK m : m = Len(iterators)
  OBVIOUS
<1> PICK first : first = iterators[m].chunks[1]
  OBVIOUS
<1>1. /\ download = "open"
      /\ UNCHANGED <<asked, left, peeked, counter, body, request, span, seg, data, written>>
      /\ \/ /\ first \in DOMAIN seg /\ download' = "list"
            /\ iterators' = [iterators EXCEPT ![m].file = seg[first]]
         \/ /\ download' = "error" /\ UNCHANGED iterators
  BY DEF OpenFirst, storeVars, readVars
<1>2. /\ m \in Nat /\ m >= 1 /\ m \in 1..Len(iterators) /\ iterators \in Seq(Iterators)
      /\ peeked = {} /\ body = <<>> /\ Len(body) = 0
  <2>1. m \in Nat /\ m >= 1
    BY <1>1 DEF DownloadTyped, IteratorsInv
  <2> QED BY <1>1, <2>1 DEF DownloadTyped, PeekedInv
<1>3. Positions' = Positions /\ \A p : At(p)' = At(p) /\ (ToSend(p)' <=> ToSend(p))
  BY <1>1 DEF Positions, At, ToSend, Remains, Stored, Matches
<1>4. CASE download' = "error" /\ UNCHANGED iterators
  <2>1. DownloadTyped'
    BY <1>1, <1>4 DEF DownloadTyped
  <2>2. IteratorsInv'
    <3>1. \A n : IteratorInv(n)' <=> IteratorInv(n)
      BY <1>1, <1>4 DEF IteratorInv, ContainerOf, HasFile
    <3>2. \A n : ContainerOf(n)' = ContainerOf(n)
      BY <1>4 DEF ContainerOf
    <3> QED BY <1>1, <1>4, <3>1, <3>2 DEF IteratorsInv
  <2>3. PeekedInv' /\ BodyInv' /\ WholeInv'
    BY <1>1, <1>2, <1>4 DEF PeekedInv, BodyInv, WholeInv
  <2> QED BY <2>1, <2>2, <2>3
<1>5. CASE /\ first \in DOMAIN seg /\ download' = "list"
           /\ iterators' = [iterators EXCEPT ![m].file = seg[first]]
  <2> PICK it : it = iterators[m]
    OBVIOUS
  <2> PICK read : read = [it EXCEPT !.file = seg[first]]
    OBVIOUS
  <2>1. seg[first] \in Nat /\ <<first, seg[first]>> \in DOMAIN data /\ first = it.chunks[1]
    BY <1>5 DEF StoreInv
  <2>2. it \in Iterators
    BY <1>2, IteratorIs
  <2>3. /\ read \in Iterators /\ read.chunks = it.chunks /\ read.at = it.at
        /\ read.file = seg[first] /\ read.offset = it.offset
    BY <2>1, <2>2 DEF Iterators
  <2>4. iterators' = [iterators EXCEPT ![m] = read]
    BY <1>2, <1>5
  <2>5. /\ iterators' \in Seq(Iterators) /\ Len(iterators') = Len(iterators)
        /\ iterators'[m] = read
        /\ \A n \in 1..Len(iterators) : n # m => iterators'[n] = iterators[n]
    BY <1>2, <2>3, <2>4
  <2>6. DownloadTyped'
    BY <1>1, <1>5, <2>5 DEF DownloadTyped
  <2>7. \A n \in 1..Len(iterators) : ContainerOf(n)' = ContainerOf(n) /\ HasFile(n)'
    BY <1>5, <2>3, <2>5 DEF ContainerOf, HasFile
  <2>8. ~HasFile(m) /\ it.at = 1 /\ it.offset = 0
    <3>1. ~HasFile(m)
      BY <1>1, <1>2 DEF HasFile
    <3> QED BY <1>2, <3>1 DEF IteratorsInv, IteratorInv
  <2>9. \A n \in 1..Len(iterators) : n # m => HasFile(n)
    BY <1>2 DEF HasFile
  <2>10. IteratorsInv'
    <3>1. ASSUME NEW n \in 1..Len(iterators), n # m PROVE IteratorInv(n)'
      <4>1. IteratorInv(n)
        BY DEF IteratorsInv
      <4> QED BY <1>1, <2>5, <2>7, <2>9, <3>1, <4>1 DEF IteratorInv
    <3>2. IteratorInv(m)'
      <4>1. IteratorInv(m)
        BY <1>2 DEF IteratorsInv
      <4>2. /\ ContainerOf(m)' = ContainerOf(m) /\ HasFile(m)' /\ m \in 1..Len(iterators)
            /\ iterators[m] = it /\ iterators'[m] = read /\ data' = data
            /\ <<read.chunks[read.at], read.file>> \in DOMAIN data
        BY <1>1, <1>2, <2>1, <2>3, <2>5, <2>7, <2>8
      <4> QED BY <2>3, <4>1, <4>2 DEF IteratorInv
    <3>3. \A n \in 1..Len(iterators) : IteratorInv(n)'
      BY <3>1, <3>2
    <3>4. /\ \A k, n \in 1..Len(iterators) : ContainerOf(k)' = ContainerOf(n)' => k = n
          /\ \A n \in 1..Len(iterators) : ContainerOf(n)' \notin left'
      BY <1>1, <2>7 DEF IteratorsInv
    <3> QED BY <1>5, <2>5, <3>3, <3>4 DEF IteratorsInv
  <2>11. PeekedInv' /\ BodyInv'
    BY <1>1, <1>2, <1>5 DEF PeekedInv, BodyInv
  <2>12. WholeInv'
    <3> SUFFICES ASSUME NEW p \in Positions, ToSend(p)
                 PROVE  \/ p[2] \in left'
                        \/ \E n \in 1..Len(iterators') : AheadOf(n, p)' /\ WillRefill(n)'
      BY <1>3, <1>5 DEF WholeInv
    <3>1. p[2] \in left \/ \E n \in 1..Len(iterators) : AheadOf(n, p)
      BY <1>1, <1>2 DEF WholeInv
    <3>2. \A n : WillRefill(n)'
      BY <1>5 DEF WillRefill
    <3>3. ASSUME NEW n \in 1..Len(iterators), n # m, AheadOf(n, p) PROVE AheadOf(n, p)'
      BY <2>5, <2>7, <2>9, <3>3 DEF AheadOf, AheadIn, SegmentOf
    <3>4. ASSUME AheadOf(m, p) PROVE AheadOf(m, p)'
      <4>1. PICK k \in 1..Len(it.chunks) : it.chunks[k] = SegmentOf(p)
        BY <2>8, <3>4 DEF AheadOf
      <4>2. k = 1 => seg[first] = p[3]
        BY <2>1, <4>1 DEF ToSend, Remains, Stored, SegmentOf
      <4>3. 0 < p[4]
        <5>1. p[4] \in 1..MaxLines
          BY PlaceHas
        <5> QED BY <5>1
      <4>4. AheadIn(read, p)
        BY <2>3, <2>8, <4>1, <4>2, <4>3 DEF AheadIn
      <4>5. AheadIn(iterators[m], p)'
        BY <2>5, <4>4 DEF AheadIn, SegmentOf
      <4> QED BY <1>2, <2>7, <4>5 DEF AheadOf
    <3>5. ASSUME NEW n \in 1..Len(iterators), AheadOf(n, p)
          PROVE  n \in 1..Len(iterators') /\ AheadOf(n, p)'
      <4>1. n \in 1..Len(iterators')
        BY <2>5
      <4> QED BY <3>3, <3>4, <3>5, <4>1
    <3> QED BY <1>1, <3>1, <3>2, <3>5
  <2> QED BY <2>6, <2>10, <2>11, <2>12
<1> QED BY <1>1, <1>4, <1>5

\* All containers are listed.
LEMMA ListedKeeps ==
    ASSUME StoreInv, LinesInv, DownloadInv, UNCHANGED <<storeVars, readVars>>, Listed,
           request = "download"
    PROVE  DownloadInv'
<1> USE DEF DownloadInv
<1>1. /\ download = "list" /\ left = {} /\ left' = DOMAIN iterators
      /\ download' = IF iterators = <<>> THEN "not found" ELSE "fill"
      /\ UNCHANGED <<asked, iterators, peeked, counter, body, request, span, seg, data, written>>
  BY Zenon DEF Listed, storeVars, readVars
<1>2. /\ Len(iterators) \in Nat /\ DOMAIN iterators = 1..Len(iterators)
      /\ peeked = {} /\ body = <<>> /\ Len(body) = 0
  <2>1. iterators \in Seq(Iterators) /\ peeked = {} /\ body = <<>>
    BY <1>1, Zenon DEF DownloadTyped, PeekedInv
  <2> QED BY <2>1, LenProperties, EmptySeq
<1>3. IsFiniteSet(1..Len(iterators)) /\ 1..Len(iterators) \in SUBSET Nat
  <2>1. 1 \in Int /\ Len(iterators) \in Int
    BY <1>2
  <2> QED BY <1>2, <2>1, FS_Interval
<1>4. Positions' = Positions /\ \A p : At(p)' = At(p) /\ (ToSend(p)' <=> ToSend(p))
  BY <1>1, Zenon DEF Positions, At, ToSend, Remains, Stored, Matches
<1>5. DownloadTyped'
  BY <1>1, <1>2, <1>3, Zenon DEF DownloadTyped
<1>6. \A n : ContainerOf(n)' = ContainerOf(n) /\ HasFile(n) /\ HasFile(n)'
  BY <1>1, Zenon DEF ContainerOf, HasFile
<1>7. IteratorsInv'
  <2>1. \A n : IteratorInv(n)' <=> IteratorInv(n)
    BY <1>1, <1>6, ZenonT(40) DEF IteratorInv
  <2> QED BY <1>1, <1>6, <2>1, Zenon DEF IteratorsInv
<1>8. PeekedInv' /\ BodyInv'
  <2>1. /\ peeked' = {} /\ body' = <<>> /\ Len(body') = 0 /\ left' = 1..Len(iterators')
        /\ download' \in {"not found", "fill"}
    BY <1>1, <1>2, Zenon
  <2>2. PeekedInv'
    BY <2>1, Zenon DEF PeekedInv
  <2>3. BodyInv'
    BY <2>1, NothingSent, Zenon
  <2> QED BY <2>2, <2>3
<1>9. WholeInv'
  <2> SUFFICES ASSUME NEW p \in Positions, ToSend(p), download' = "fill"
               PROVE  \E n \in 1..Len(iterators') : AheadOf(n, p)' /\ WillRefill(n)'
    BY <1>1, <1>4, Zenon DEF WholeInv
  <2>1. PICK n \in 1..Len(iterators) : AheadOf(n, p)
    BY <1>1, <1>2 DEF WholeInv
  <2>2. AheadOf(n, p)'
    BY <1>1, <1>6, <2>1, SMTT(30) DEF AheadOf, AheadIn, SegmentOf
  <2>3. WillRefill(n)'
    BY <1>1, <1>2, <2>1 DEF WillRefill
  <2> QED BY <1>1, <2>1, <2>2, <2>3
<1> QED BY <1>5, <1>7, <1>8, <1>9

\* Iterator n reads on: it is then at the line at p, and has left nothing out.
ReadsOn(n, it, p) ==
    /\ it \in Iterators /\ it.chunks = iterators[n].chunks
    /\ it.at \in iterators[n].at..Len(it.chunks)
    /\ it.at = iterators[n].at =>
          it.file = iterators[n].file /\ iterators[n].offset < it.offset
    /\ <<it.chunks[it.at], it.file>> \in DOMAIN data
    /\ p \in Positions
    /\ p = <<it.chunks[it.at][1], it.chunks[it.at][2], it.file, it.offset>>
    /\ \A q \in Positions : q \in Stored /\ Matches(At(q)) /\ AheadIn(iterators[n], q) =>
          q = p \/ AheadIn(it, q)

Peek(n, p) == <<At(p).ts, counter, n, At(p).id>>

\* A refill ends the download, finds nothing more, or reads on.
LEMMA RefillDoes ==
    ASSUME StoreInv, LinesInv, DownloadTyped, NEW n \in 1..Len(iterators), IteratorInv(n),
           HasFile(n), NEW rest, Refill(n, rest)
    PROVE  \/ download' = "cut" /\ peeked' = rest /\ UNCHANGED <<iterators, counter>>
           \/ /\ peeked' = rest /\ UNCHANGED <<download, iterators, counter>>
              /\ \A q \in Positions : q \in Stored /\ Matches(At(q)) => ~AheadIn(iterators[n], q)
           \/ \E it, p : /\ ReadsOn(n, it, p) /\ iterators' = [iterators EXCEPT ![n] = it]
                         /\ peeked' = rest \cup {Peek(n, p)} /\ counter' = counter + 1
                         /\ UNCHANGED download
<1> DEFINE it == iterators[n]
           next == CHOOSE p \in Ahead(it) : ~\E q \in Ahead(it) : Below(q, p)
           file == Opened(it, next[1])
           new == [it EXCEPT !.at = next[1], !.file = file[2], !.offset = next[2]]
<1>1. /\ it \in Iterators /\ it.chunks \in Seq(Segments) /\ Len(it.chunks) \in Nat
      /\ it.at \in Nat /\ it.file \in Nat /\ it.offset \in Nat
      /\ it.at \in 1..Len(it.chunks) /\ <<it.chunks[it.at], it.file>> \in DOMAIN data
      /\ \A k \in 1..Len(it.chunks) : it.chunks[k] \in Segments
  BY IteratorIs, SMTT(30) DEF IteratorInv
<1>2. \/ download' = "cut" /\ peeked' = rest /\ UNCHANGED <<iterators, counter>>
      \/ Ahead(it) = {} /\ peeked' = rest /\ UNCHANGED <<download, iterators, counter>>
      \/ /\ Ahead(it) # {} /\ UNCHANGED download /\ counter' = counter + 1
         /\ iterators' = [iterators EXCEPT ![n] = new]
         /\ peeked' = rest \cup {<<data[file][next[2]].ts, counter, n, data[file][next[2]].id>>}
  BY DEF Refill
<1>3. MaxLines \in Nat
  BY StoreAssumption DEF MaxLines
<1>4. /\ Ahead(it) \in SUBSET (Int \X Int) /\ IsFiniteSet(Ahead(it)) /\ Ordered(Ahead(it))
      /\ \A p \in Ahead(it) : /\ p[1] \in it.at..Len(it.chunks) /\ p[1] \in Nat /\ p[1] >= it.at
                              /\ p[2] \in 1..MaxLines /\ p[2] \in Nat /\ p = <<p[1], p[2]>>
                              /\ p[1] \notin Gone(it) /\ p[2] \in DOMAIN data[Opened(it, p[1])]
                              /\ p[1] = it.at => p[2] > it.offset
  <2> HIDE DEF it
  <2> DEFINE X == (it.at..Len(it.chunks)) \X (1..MaxLines)
  <2>1. IsFiniteSet(X)
    <3>1. it.at \in Int /\ Len(it.chunks) \in Int /\ 1 \in Int /\ MaxLines \in Int
      BY <1>1, <1>3
    <3>2. IsFiniteSet(it.at..Len(it.chunks))
      BY <3>1, FS_Interval
    <3>3. IsFiniteSet(1..MaxLines)
      BY <3>1, FS_Interval
    <3> QED BY <3>2, <3>3, FS_Product
  <2>2. Ahead(it) \in SUBSET X
    BY DEF Ahead
  <2>3. \A p \in X : /\ p \in Int \X Int /\ p[1] \in it.at..Len(it.chunks) /\ p[1] \in Nat
                     /\ p[1] >= it.at /\ p[2] \in 1..MaxLines /\ p[2] \in Nat
                     /\ p = <<p[1], p[2]>>
    BY <1>1, <1>3
  <2> HIDE DEF X
  <2>4. IsFiniteSet(Ahead(it))
    BY <2>1, <2>2, FS_Subset
  <2>5. Ahead(it) \in SUBSET (Int \X Int)
    BY <2>2, <2>3
  <2>6. Ordered(Ahead(it))
    BY <2>5, PairsOrdered DEF Ordered
  <2>7. \A p \in Ahead(it) : /\ p[1] \notin Gone(it) /\ p[2] \in DOMAIN data[Opened(it, p[1])]
                             /\ p[1] = it.at => p[2] > it.offset
    BY DEF Ahead
  <2> QED BY <2>2, <2>3, <2>4, <2>5, <2>6, <2>7
<1>5. ASSUME NEW k \in it.at..Len(it.chunks), k \notin Gone(it)
      PROVE  /\ Opened(it, k) \in DOMAIN data /\ Opened(it, k)[1] = it.chunks[k]
             /\ k = it.at => Opened(it, k)[2] = it.file
  <2>1. k = it.at \/ k \in it.at + 1..Len(it.chunks)
    BY <1>1
  <2>2. CASE k = it.at
    BY <1>1, <2>2 DEF Opened
  <2>3. CASE k \in it.at + 1..Len(it.chunks)
    <3>1. k # it.at
      BY <1>1, <2>3
    <3>2. it.chunks[k] \in DOMAIN seg
      BY <1>5, <2>3 DEF Gone
    <3> QED BY <3>1, <3>2 DEF Opened, StoreInv
  <2> QED BY <2>1, <2>2, <2>3
<1>6. ASSUME NEW q \in Positions, q \in Stored, Matches(At(q)), NEW k \in it.at..Len(it.chunks),
             it.chunks[k] = SegmentOf(q), k = it.at => it.file = q[3] /\ it.offset < q[4]
      PROVE  <<k, q[4]>> \in Ahead(it) /\ Opened(it, k) = <<SegmentOf(q), q[3]>>
  <2>1. SegmentOf(q) \in DOMAIN seg /\ seg[SegmentOf(q)] = q[3]
    BY <1>6 DEF Stored, SegmentOf
  <2>2. k \notin Gone(it)
    BY <1>6, <2>1 DEF Gone
  <2>3. Opened(it, k) = <<SegmentOf(q), q[3]>>
    BY <1>6, <2>1 DEF Opened
  <2>4. /\ q[4] \in 1..MaxLines /\ q[4] \in DOMAIN data[Opened(it, k)] /\ q[4] \in Nat
        /\ At(q) = data[Opened(it, k)][q[4]]
    BY <2>3, PlaceHas
  <2>5. k = it.at => q[4] > it.offset
    BY <1>1, <1>6, <2>4
  <2> PICK p : p = <<k, q[4]>>
    OBVIOUS
  <2>6. p[1] = k /\ p[2] = q[4] /\ p \in (it.at..Len(it.chunks)) \X (1..MaxLines)
    BY <2>4
  <2> HIDE DEF it
  <2>7. p \in Ahead(it)
    BY <1>6, <2>2, <2>4, <2>5, <2>6 DEF Ahead
  <2> QED BY <2>3, <2>7
<1>7. CASE Ahead(it) = {} /\ peeked' = rest /\ UNCHANGED <<download, iterators, counter>>
  <2>1. ASSUME NEW q \in Positions, q \in Stored, Matches(At(q)), AheadIn(it, q) PROVE FALSE
    BY <1>6, <1>7, <2>1 DEF AheadIn
  <2> QED BY <1>7, <2>1
<1>8. CASE /\ Ahead(it) # {} /\ UNCHANGED download /\ counter' = counter + 1
           /\ iterators' = [iterators EXCEPT ![n] = new]
           /\ peeked' = rest \cup {<<data[file][next[2]].ts, counter, n, data[file][next[2]].id>>}
  <2>1. next \in Ahead(it) /\ \A q \in Ahead(it) : ~Below(q, next)
    <3>1. \E p \in Ahead(it) : \A q \in Ahead(it) : ~Below(q, p)
      BY <1>4, <1>8, FirstOf
    <3> HIDE DEF it
    <3> QED BY <3>1
  <2> HIDE DEF next
  <2>2. /\ next[1] \in it.at..Len(it.chunks) /\ next[1] \in Nat /\ next[1] >= it.at
        /\ next[2] \in 1..MaxLines /\ next[2] \in Nat /\ next[1] \notin Gone(it)
        /\ next[2] \in DOMAIN data[file] /\ next = <<next[1], next[2]>>
        /\ next[1] = it.at => next[2] > it.offset
    BY <1>4, <2>1
  <2>3. /\ file \in DOMAIN data /\ file[1] = it.chunks[next[1]]
        /\ next[1] = it.at => file[2] = it.file
    BY <1>5, <2>2
  <2> HIDE DEF file
  <2>4. file[2] \in Nat /\ file = <<file[1], file[2]>>
    BY <2>3 DEF StoreInv
  <2>5. /\ new \in Iterators /\ new.chunks = it.chunks /\ new.at = next[1] /\ new.file = file[2]
        /\ new.offset = next[2]
    <3> HIDE DEF it
    <3> QED BY <1>1, <2>2, <2>4 DEF Iterators
  <2> DEFINE p == <<file[1][1], file[1][2], file[2], next[2]>>
  <2>6. p \in Positions /\ At(p) = data[file][next[2]]
    BY <2>2, <2>3, PlaceOf
  <2>7. /\ p = <<new.chunks[new.at][1], new.chunks[new.at][2], new.file, new.offset>>
        /\ <<new.chunks[new.at], new.file>> \in DOMAIN data
    BY <2>3, <2>4, <2>5
  <2>8. p[4] = next[2] /\ p[3] = file[2] /\ p[1] = file[1][1] /\ p[2] = file[1][2]
    OBVIOUS
  <2> HIDE DEF new, p
  <2>9. ASSUME NEW q \in Positions, q \in Stored, Matches(At(q)), AheadIn(it, q)
        PROVE  q = p \/ AheadIn(new, q)
    <3>1. PICK k \in it.at..Len(it.chunks) :
              /\ it.chunks[k] = SegmentOf(q) /\ (k = it.at => it.file = q[3] /\ it.offset < q[4])
      BY <2>9 DEF AheadIn
    <3>2. <<k, q[4]>> \in Ahead(it) /\ Opened(it, k) = <<SegmentOf(q), q[3]>>
      BY <1>6, <2>9, <3>1
    <3>3. next = <<k, q[4]>> \/ Below(next, <<k, q[4]>>)
      BY <1>4, <2>1, <3>2 DEF Ordered
    <3>4. CASE next = <<k, q[4]>>
      <4>1. next[1] = k /\ next[2] = q[4]
        BY <3>4
      <4>2. file = <<SegmentOf(q), q[3]>>
        BY <3>2, <4>1 DEF file
      <4>3. q = <<q[1], q[2], q[3], q[4]>> /\ SegmentOf(q) = <<q[1], q[2]>>
        BY PlaceHas DEF SegmentOf
      <4>4. q = p
        BY <4>1, <4>2, <4>3 DEF p
      <4> QED BY <4>4
    <3>5. CASE Below(next, <<k, q[4]>>)
      <4> PICK e : e = <<k, q[4]>>
        OBVIOUS
      <4>1. k \in Nat /\ q[4] \in Nat /\ e \in Int \X Int /\ e[1] = k /\ e[2] = q[4]
        <5>1. q[4] \in Nat
          BY PlaceHas
        <5>2. k \in Nat
          BY <1>1
        <5> QED BY <5>1, <5>2
      <4>2. next \in Int \X Int
        BY <1>4, <2>1
      <4>3. next[1] < k \/ (next[1] = k /\ next[2] < q[4])
        BY <3>5, <4>1, <4>2, BelowPairs
      <4>4. k \in new.at..Len(new.chunks) /\ new.chunks[k] = SegmentOf(q)
        BY <1>1, <2>2, <2>5, <3>1, <4>1, <4>3, SMTT(30)
      <4>5. k = new.at => new.file = q[3] /\ new.offset < q[4]
        <5>1. k = next[1] => file = <<SegmentOf(q), q[3]>>
          BY <3>2 DEF file
        <5>2. k = next[1] => file[2] = q[3]
          BY <5>1
        <5> QED BY <2>2, <2>5, <4>1, <4>3, <5>2
      <4>6. AheadIn(new, q)
        BY <4>4, <4>5 DEF AheadIn
      <4> QED BY <4>6
    <3> QED BY <3>3, <3>4, <3>5
  <2>10. new.at = it.at => new.file = it.file /\ it.offset < new.offset
    BY <1>1, <2>2, <2>3, <2>5
  <2>11. ReadsOn(n, new, p)
    BY <2>2, <2>5, <2>6, <2>7, <2>9, <2>10 DEF ReadsOn
  <2>12. peeked' = rest \cup {Peek(n, p)}
    BY <1>8, <2>6 DEF Peek
  <2> QED BY <1>8, <2>11, <2>12
<1> QED BY <1>2, <1>7, <1>8, ZenonT(40)

\* What follows for the iterators and the heap.
Refilled(n, rest) ==
    /\ iterators' \in Seq(Iterators) /\ Len(iterators') = Len(iterators) /\ counter' \in Nat
    /\ peeked' \in SUBSET (Times \X Nat \X Nat \X Nat) /\ IsFiniteSet(peeked')
    /\ download' = download \/ download' = "cut"
    /\ \A m \in 1..Len(iterators) :
          /\ IteratorInv(m)' /\ ContainerOf(m)' = ContainerOf(m) /\ HasFile(m) /\ HasFile(m)'
          /\ m # n => iterators'[m] = iterators[m] /\ Now(m)' = Now(m)
    /\ rest \subseteq peeked' /\ \A y \in peeked' : y \in rest \/ y[3] = n
    /\ \A y \in peeked' : y[3] \in 1..Len(iterators) /\ Holds(Now(y[3]), Line(y))'
    /\ \A y, z \in peeked' : y[3] = z[3] => y = z
    /\ (\E y \in peeked' : y[3] = n) => Below(Now(n), Now(n)')
    /\ (\A y \in peeked' : y[3] # n) => Now(n)' = Now(n)
    /\ download' # "cut" =>
          \A q \in Positions : q \in Stored /\ Matches(At(q)) /\ AheadOf(n, q) =>
              \/ \E y \in peeked' : Line(y) = At(q)
              \/ AheadOf(n, q)' /\ \E y \in peeked' : y[3] = n

\* The place of an iterator.
LEMMA NowIs ==
    ASSUME DownloadTyped, NEW n \in 1..Len(iterators), IteratorInv(n)
    PROVE  /\ Now(n) \in Fours /\ ContainerOf(n) \in Nat
           /\ Now(n)[1] = iterators[n].chunks[iterators[n].at][1] /\ Now(n)[2] = ContainerOf(n)
           /\ Now(n)[3] = iterators[n].file /\ Now(n)[4] = iterators[n].offset
<1> PICK it : it = iterators[n]
  OBVIOUS
<1>1. /\ it.at \in Nat /\ it.file \in Nat /\ it.offset \in Nat /\ Len(it.chunks) \in Nat
      /\ it.at \in 1..Len(it.chunks) /\ Len(it.chunks) >= 1
      /\ \A k \in 1..Len(it.chunks) : it.chunks[k] \in Segments
  BY IteratorIs DEF IteratorInv
<1>2. 1 \in 1..Len(it.chunks)
  BY <1>1
<1>3. it.chunks[1][2] \in Nat /\ it.chunks[it.at][1] \in Int
  BY <1>1, <1>2, DayTyped
<1>4. ContainerOf(n) = it.chunks[1][2]
  BY DEF ContainerOf
<1>5. Now(n) = <<it.chunks[it.at][1], ContainerOf(n), it.file, it.offset>>
  BY DEF Now
<1>6. it.chunks[it.at][1] \in Int /\ ContainerOf(n) \in Int /\ it.file \in Int /\ it.offset \in Int
  BY <1>1, <1>3, <1>4
<1> QED BY <1>3, <1>4, <1>5, <1>6 DEF Fours

\* An iterator's next line is put in the heap: it is ahead of no line that is left out.
LEMMA RefillKeeps ==
    ASSUME StoreInv, LinesInv, DownloadTyped, IteratorsInv, PeekedInv,
           download \in {"fill", "merge"}, UNCHANGED <<storeVars, readVars>>,
           NEW n \in 1..Len(iterators), NEW rest \in SUBSET peeked, \A y \in rest : y[3] # n,
           Refill(n, rest)
    PROVE  Refilled(n, rest)
<1>1. UNCHANGED <<seg, data, written, span>> /\ Positions' = Positions /\ \A p : At(p)' = At(p)
  BY DEF storeVars, readVars, Positions, At
<1>2. \A m \in 1..Len(iterators) : HasFile(m) /\ IteratorInv(m)
  BY DEF HasFile, IteratorsInv
<1>3. /\ iterators \in Seq(Iterators) /\ counter \in Nat
      /\ rest \in SUBSET (Times \X Nat \X Nat \X Nat) /\ IsFiniteSet(rest)
  BY FS_Subset, Zenon DEF DownloadTyped
<1>4. \A y \in rest : y[3] \in 1..Len(iterators) /\ Holds(Now(y[3]), Line(y))
  BY DEF PeekedInv
<1>5. CASE /\ peeked' = rest /\ UNCHANGED <<iterators, counter>>
           /\ download' = download \/ download' = "cut"
           /\ \A q \in Positions : q \in Stored /\ Matches(At(q)) /\ download' # "cut" =>
                  ~AheadIn(iterators[n], q)
  <2>1. \A m \in 1..Len(iterators) : HasFile(m)'
    BY <1>5 DEF HasFile
  <2>2. \A m : ContainerOf(m)' = ContainerOf(m) /\ Now(m)' = Now(m)
    BY <1>5 DEF ContainerOf, Now
  <2>3. \A m \in 1..Len(iterators) : IteratorInv(m)'
    BY <1>1, <1>2, <1>5, <2>1, <2>2 DEF IteratorInv
  <2>4. ASSUME NEW y \in rest PROVE Holds(Now(y[3]), Line(y))'
    <3> PICK p : p = Now(y[3])
      OBVIOUS
    <3>1. p \in Positions /\ At(p) = Line(y)
      BY <1>4 DEF Holds
    <3> QED BY <1>1, <2>2, <3>1 DEF Holds, Line
  <2>5. \A y, z \in rest : y[3] = z[3] => y = z
    BY DEF PeekedInv
  <2>6. \A q \in Positions : q \in Stored /\ Matches(At(q)) /\ download' # "cut" => ~AheadOf(n, q)
    BY <1>2, <1>5 DEF AheadOf
  <2> QED BY <1>2, <1>3, <1>4, <1>5, <2>1, <2>2, <2>3, <2>4, <2>5, <2>6 DEF Refilled
<1>6. ASSUME NEW it, NEW p, ReadsOn(n, it, p), iterators' = [iterators EXCEPT ![n] = it],
             peeked' = rest \cup {Peek(n, p)}, counter' = counter + 1, UNCHANGED download
      PROVE  Refilled(n, rest)
  <2> PICK was : was = iterators[n]
    OBVIOUS
  <2>1. /\ it \in Iterators /\ it.chunks = was.chunks /\ it.at \in was.at..Len(it.chunks)
        /\ it.at = was.at => it.file = was.file /\ was.offset < it.offset
        /\ <<it.chunks[it.at], it.file>> \in DOMAIN data /\ p \in Positions
        /\ p = <<it.chunks[it.at][1], it.chunks[it.at][2], it.file, it.offset>>
    BY <1>6 DEF ReadsOn
  <2>2. /\ iterators' \in Seq(Iterators) /\ Len(iterators') = Len(iterators)
        /\ iterators'[n] = it /\ \A m \in 1..Len(iterators) : m # n => iterators'[m] = iterators[m]
    BY <1>3, <1>6, <2>1
  <2>3. \A m \in 1..Len(iterators) : ContainerOf(m)' = ContainerOf(m) /\ HasFile(m)'
    BY <1>6, <2>1, <2>2 DEF ContainerOf, HasFile
  <2>4. \A m \in 1..Len(iterators) : m # n => Now(m)' = Now(m)
    BY <2>2, <2>3 DEF Now
  <2>5. /\ was.at \in Nat /\ was.at \in 1..Len(was.chunks) /\ Len(was.chunks) \in Nat
        /\ was.file \in Nat /\ was.offset \in Nat
        /\ \A i, j \in 1..Len(was.chunks) : i < j => was.chunks[i][1] < was.chunks[j][1]
        /\ \A i \in 1..Len(was.chunks) : was.chunks[i][2] = ContainerOf(n)
    BY <1>2, IteratorIs DEF IteratorInv
  <2>6. it.at \in 1..Len(was.chunks) /\ it.at \in Nat /\ it.at >= was.at
    BY <2>1, <2>5
  <2>7. Now(n)' = p
    <3>1. it.chunks[it.at][2] = ContainerOf(n)
      BY <2>1, <2>5, <2>6
    <3> QED BY <2>1, <2>2, <2>3, <3>1 DEF Now
  <2>8. IteratorInv(n)'
    <3>1. IteratorInv(n) /\ HasFile(n)'
      BY <1>2, <2>3
    <3> QED BY <1>1, <2>1, <2>2, <2>3, <2>6, <3>1 DEF IteratorInv
  <2>9. ASSUME NEW m \in 1..Len(iterators), m # n PROVE IteratorInv(m)'
    <3>1. IteratorInv(m) /\ HasFile(m) /\ HasFile(m)' /\ ContainerOf(m)' = ContainerOf(m)
      BY <1>2, <2>3
    <3>2. iterators'[m] = iterators[m]
      BY <2>2, <2>9
    <3> QED BY <1>1, <3>1, <3>2 DEF IteratorInv
  <2>10. Below(Now(n), p)
    <3> PICK old : old = Now(n)
      OBVIOUS
    <3>1. /\ old \in Fours /\ p \in Fours
          /\ old[1] = was.chunks[was.at][1] /\ old[2] = ContainerOf(n)
          /\ old[3] = was.file /\ old[4] = was.offset
      BY <1>2, <2>1, NowIs, PlaceHas
    <3>2. /\ p[1] = was.chunks[it.at][1] /\ p[2] = ContainerOf(n) /\ p[3] = it.file
          /\ p[4] = it.offset
      BY <2>1, <2>5, <2>6
    <3>3. CASE it.at = was.at
      <4>1. old[1] = p[1] /\ old[2] = p[2] /\ old[3] = p[3] /\ old[4] < p[4]
        BY <2>1, <3>1, <3>2, <3>3
      <4> QED BY <3>1, <4>1, BelowFours
    <3>4. CASE it.at # was.at
      <4>1. was.at < it.at
        BY <2>5, <2>6, <3>4
      <4>2. old[1] < p[1]
        BY <2>5, <2>6, <3>1, <3>2, <4>1
      <4> QED BY <3>1, <4>2, BelowFours
    <3> QED BY <3>3, <3>4
  <2> PICK y0 : y0 = Peek(n, p)
    OBVIOUS
  <2>11. /\ y0[1] = At(p).ts /\ y0[2] = counter /\ y0[3] = n /\ y0[4] = At(p).id
         /\ y0 \in Times \X Nat \X Nat \X Nat /\ Line(y0) = At(p)
    <3>1. At(p) \in [id : Nat, ts : Times] /\ n \in Nat
      <4>1. At(p) \in [id : Nat, ts : Times]
        BY <2>1, PlaceHas
      <4> QED BY <1>3, <4>1
    <3>2. Line(y0) = [id |-> At(p).id, ts |-> At(p).ts]
      BY DEF Line, Peek
    <3> QED BY <1>3, <3>1, <3>2 DEF Peek
  <2>12. peeked' \in SUBSET (Times \X Nat \X Nat \X Nat) /\ IsFiniteSet(peeked')
    <3>1. IsFiniteSet(rest \cup {y0})
      BY <1>3, FS_AddElement, Zenon
    <3> QED BY <1>3, <1>6, <2>11, <3>1
  <2>13. ASSUME NEW y \in peeked' PROVE y[3] \in 1..Len(iterators) /\ Holds(Now(y[3]), Line(y))'
    <3>1. CASE y = y0
      <4>1. Line(y)' = At(p) /\ Now(y[3])' = p
        BY <2>7, <2>11, <3>1 DEF Line
      <4> QED BY <1>1, <2>1, <2>11, <3>1, <4>1, Zenon DEF Holds
    <3>2. CASE y \in rest
      <4> PICK m \in 1..Len(iterators) : m = y[3]
        BY <1>4, <3>2
      <4> PICK x : x = Now(m)
        OBVIOUS
      <4>1. m # n /\ x \in Positions /\ At(x) = Line(y)
        BY <1>4, <3>2 DEF Holds
      <4>2. Now(m)' = x
        BY <2>4, <4>1
      <4>3. Holds(Now(m), Line(y))'
        BY <1>1, <4>1, <4>2 DEF Holds, Line
      <4> QED BY <4>3
    <3> QED BY <1>6, <3>1, <3>2
  <2>14. \A y, z \in peeked' : y[3] = z[3] => y = z
    BY <1>6, <2>11 DEF PeekedInv
  <2>15. /\ rest \subseteq peeked' /\ \A y \in peeked' : y \in rest \/ y[3] = n
         /\ \E y \in peeked' : y[3] = n /\ Line(y) = At(p)
    BY <1>6, <2>11, SMTT(30)
  <2>16. ASSUME NEW q \in Positions, q \in Stored, Matches(At(q)), AheadOf(n, q)
         PROVE  q = p \/ AheadOf(n, q)'
    <3>1. q = p \/ AheadIn(it, q)
      BY <1>2, <1>6, <2>16 DEF AheadOf, ReadsOn
    <3> QED BY <2>2, <2>3, <3>1, SMTT(30) DEF AheadOf, AheadIn, SegmentOf
  <2>17. counter' \in Nat
    BY <1>3, <1>6
  <2>18. \A m \in 1..Len(iterators) :
            /\ IteratorInv(m)' /\ ContainerOf(m)' = ContainerOf(m) /\ HasFile(m) /\ HasFile(m)'
            /\ m # n => iterators'[m] = iterators[m] /\ Now(m)' = Now(m)
    BY <1>2, <2>2, <2>3, <2>4, <2>8, <2>9
  <2>19. /\ (\E y \in peeked' : y[3] = n) => Below(Now(n), Now(n)')
         /\ (\A y \in peeked' : y[3] # n) => Now(n)' = Now(n)
    BY <2>7, <2>10, <2>15
  <2>20. \A q \in Positions : q \in Stored /\ Matches(At(q)) /\ AheadOf(n, q) =>
              \/ \E y \in peeked' : Line(y) = At(q)
              \/ AheadOf(n, q)' /\ \E y \in peeked' : y[3] = n
    BY <2>15, <2>16
  <2> QED BY <1>6, <2>2, <2>12, <2>13, <2>14, <2>15, <2>17, <2>18, <2>19, <2>20 DEF Refilled
<1> QED BY <1>2, <1>5, <1>6, RefillDoes

\* Where the store is the same, so are the places in it.
LEMMA StoreSame ==
    ASSUME UNCHANGED <<storeVars, readVars>>
    PROVE  /\ UNCHANGED <<seg, data, written, request, span>> /\ Positions' = Positions
           /\ \A p : At(p)' = At(p)
           /\ asked' = asked => \A p : ToSend(p)' <=> ToSend(p)
BY DEF storeVars, readVars, Positions, At, ToSend, Remains, Stored, Matches

\* The sources are filled, or the heap is empty.
LEMMA TurnKeeps ==
    ASSUME StoreInv, LinesInv, DownloadInv, UNCHANGED <<storeVars, readVars>>,
           UNCHANGED <<asked, left, iterators, peeked, counter, body>>,
           \/ download = "fill" /\ left = {} /\ download' = "merge"
           \/ download = "merge" /\ peeked = {} /\ download' = "whole"
    PROVE  DownloadInv'
<1> USE DEF DownloadInv
<1>1. /\ UNCHANGED <<seg, data, written, request, span>> /\ Positions' = Positions
      /\ \A p : At(p)' = At(p) /\ (ToSend(p)' <=> ToSend(p))
  BY StoreSame
<1>2. /\ \A n : ContainerOf(n)' = ContainerOf(n) /\ Now(n)' = Now(n)
      /\ \A n : HasFile(n) /\ HasFile(n)'
  BY DEF ContainerOf, Now, HasFile
<1>3. DownloadTyped'
  BY <1>1, Zenon DEF DownloadTyped
<1>4. IteratorsInv'
  <2>1. \A n : IteratorInv(n)' <=> IteratorInv(n)
    BY <1>1, <1>2 DEF IteratorInv
  <2> QED BY <1>2, <2>1 DEF IteratorsInv
<1>5. PeekedInv'
  BY <1>1, <1>2 DEF PeekedInv, Holds, Line
<1>6. BodyInv'
  <2>1. \A n, p : Passed(n, p)' <=> Passed(n, p)
    BY <1>2 DEF Passed, Below
  <2>2. \A line, q : Explained(line, q)' <=> Explained(line, q)
    BY <1>1 DEF Explained, Below
  <2>3. (\A i \in 1..Len(body) :
            \E p \in Positions : At(p) = body[i] /\ \E n \in 1..Len(iterators) : Passed(n, p))'
    BY <1>1, <2>1 DEF BodyInv
  <2>4. (\A i, j \in 1..Len(body) : i < j =>
            \A p, q \in Positions : At(p) = body[i] /\ At(q) = body[j] =>
                /\ p[2] = q[2] => Below(p, q)
                /\ body[i].ts > body[j].ts => Explained(body[i], q))'
    BY <1>1, <2>2 DEF BodyInv, Below
  <2>5. (\A i \in 1..Len(body) : \A y \in peeked :
            body[i].ts > y[1] => Explained(body[i], Now(y[3])))'
    BY <1>2, <2>2 DEF BodyInv
  <2> QED BY <2>3, <2>4, <2>5 DEF BodyInv
<1>7. WholeInv'
  <2> SUFFICES ASSUME NEW p \in Positions, ToSend(p)
               PROVE  \/ \E n \in 1..Len(iterators) : AheadOf(n, p)' /\ WillRefill(n)'
                      \/ \E y \in peeked : Line(y) = At(p)
                      \/ \E i \in 1..Len(body) : body[i] = At(p)
    BY <1>1 DEF WholeInv, Line
  <2>1. ASSUME NEW n, AheadOf(n, p), WillRefill(n) PROVE AheadOf(n, p)' /\ WillRefill(n)'
    <3>1. AheadOf(n, p)'
      BY <1>2, <2>1 DEF AheadOf, AheadIn, SegmentOf
    <3>2. WillRefill(n)'
      BY <2>1 DEF WillRefill
    <3> QED BY <3>1, <3>2
  <2> QED BY <2>1 DEF WholeInv
<1> QED BY <1>3, <1>4, <1>5, <1>6, <1>7

\* Refilling one iterator leaves what is ahead of the others.
LEMMA IteratorsStay ==
    ASSUME IteratorsInv, download \in {"fill", "merge"}, NEW n, NEW rest, Refilled(n, rest)
    PROVE  /\ IteratorsInv'
           /\ \A m \in 1..Len(iterators) : \A p : m # n /\ AheadOf(m, p) => AheadOf(m, p)'
<1>1. /\ Len(iterators') = Len(iterators) /\ download' \in {"fill", "merge", "cut"}
      /\ \A m \in 1..Len(iterators) :
            /\ IteratorInv(m)' /\ ContainerOf(m)' = ContainerOf(m) /\ HasFile(m) /\ HasFile(m)'
            /\ m # n => iterators'[m] = iterators[m]
  BY DEF Refilled
<1>2. IteratorsInv'
  BY <1>1 DEF IteratorsInv
<1>3. ASSUME NEW m \in 1..Len(iterators), NEW p, m # n, AheadOf(m, p) PROVE AheadOf(m, p)'
  BY <1>1, <1>3 DEF AheadOf, AheadIn, SegmentOf
<1> QED BY <1>2, <1>3

\* The heap is filled at first.
LEMMA FillKeeps ==
    ASSUME StoreInv, LinesInv, DownloadInv, UNCHANGED <<storeVars, readVars>>, Fill,
           request = "download"
    PROVE  DownloadInv'
<1> USE DEF DownloadInv
<1>1. CASE left = {}
  <2>1. /\ download = "fill" /\ download' = "merge"
        /\ UNCHANGED <<asked, left, iterators, peeked, counter, body>>
    BY <1>1 DEF Fill
  <2> QED BY <1>1, <2>1, TurnKeeps
<1>2. CASE left # {}
  <2> PICK n : n = Least(left)
    OBVIOUS
  <2>1. /\ download = "fill" /\ Refill(n, peeked) /\ left' = left \ {n}
        /\ UNCHANGED <<asked, body>>
    BY <1>2 DEF Fill
  <2>2. n \in left
    BY <1>2, LeastLeft
  <2>3. n \in 1..Len(iterators) /\ (\A y \in peeked : y[3] # n) /\ body = <<>>
    BY <2>1, <2>2 DEF PeekedInv
  <2>4. Refilled(n, peeked)
    BY <2>1, <2>3, RefillKeeps
  <2>5. /\ UNCHANGED <<seg, data, written, request, span>> /\ Positions' = Positions
        /\ \A p : At(p)' = At(p) /\ (ToSend(p)' <=> ToSend(p))
    BY <2>1, StoreSame
  <2>6. /\ iterators' \in Seq(Iterators) /\ Len(iterators') = Len(iterators) /\ counter' \in Nat
        /\ peeked' \in SUBSET (Times \X Nat \X Nat \X Nat) /\ IsFiniteSet(peeked')
        /\ download' \in {"fill", "cut"}
    BY <2>1, <2>4 DEF Refilled
  <2>7. DownloadTyped'
    <3>1. left' \in SUBSET Nat /\ IsFiniteSet(left')
      <4>1. left' \in SUBSET left /\ left \in SUBSET Nat /\ IsFiniteSet(left)
        BY <2>1 DEF DownloadTyped
      <4>2. IsFiniteSet(left')
        BY <4>1, FS_Subset
      <4> QED BY <4>1, <4>2
    <3> QED BY <2>1, <2>5, <2>6, <3>1, Zenon DEF DownloadTyped
  <2>8. IteratorsInv'
    BY <2>1, <2>4, IteratorsStay
  <2>9. PeekedInv'
    <3>1. \A y \in peeked' : y[3] \in 1..Len(iterators') /\ Holds(Now(y[3]), Line(y))'
      BY <2>4 DEF Refilled
    <3>2. \A y, z \in peeked' : y[3] = z[3] => y = z
      BY <2>4 DEF Refilled
    <3>3. left' \subseteq 1..Len(iterators')
      BY <2>1, <2>6 DEF PeekedInv
    <3>4. \A y \in peeked' : y[3] \notin left'
      <4>1. \A y \in peeked' : y \in peeked \/ y[3] = n
        BY <2>4 DEF Refilled
      <4> QED BY <2>1, <4>1 DEF PeekedInv
    <3> QED BY <2>1, <2>3, <2>6, <3>1, <3>2, <3>3, <3>4 DEF PeekedInv
  <2>10. BodyInv'
    BY <2>1, <2>3, NothingSent
  <2>11. WholeInv'
    <3> SUFFICES ASSUME download' = "fill", NEW p \in Positions, ToSend(p)
                 PROVE  \/ \E m \in 1..Len(iterators') : AheadOf(m, p)' /\ WillRefill(m)'
                        \/ \E y \in peeked' : Line(y) = At(p)
      BY <2>5, <2>6 DEF WholeInv, Line
    <3>1. \/ \E m \in 1..Len(iterators) : AheadOf(m, p) /\ WillRefill(m)
          \/ \E y \in peeked : Line(y) = At(p)
      <4>1. Len(body) = 0
        BY <2>3
      <4> QED BY <2>1, <4>1 DEF WholeInv
    <3>2. peeked \subseteq peeked'
      BY <2>4 DEF Refilled
    <3>3. ASSUME NEW m \in 1..Len(iterators), m # n, AheadOf(m, p), WillRefill(m)
          PROVE  AheadOf(m, p)' /\ WillRefill(m)'
      <4>1. AheadOf(m, p)'
        BY <2>1, <2>4, <3>3, IteratorsStay
      <4>2. WillRefill(m)'
        BY <2>1, <3>2, <3>3 DEF WillRefill
      <4> QED BY <4>1, <4>2
    <3>4. ASSUME AheadOf(n, p)
          PROVE  \/ \E y \in peeked' : Line(y) = At(p)
                 \/ AheadOf(n, p)' /\ WillRefill(n)'
      <4>1. p \in Stored /\ Matches(At(p))
        BY DEF ToSend, Remains
      <4>2. \/ \E y \in peeked' : Line(y) = At(p)
            \/ AheadOf(n, p)' /\ \E y \in peeked' : y[3] = n
        BY <2>4, <3>4, <4>1 DEF Refilled
      <4> QED BY <4>2 DEF WillRefill
    <3> QED BY <2>3, <2>6, <3>1, <3>2, <3>3, <3>4
  <2> QED BY <2>7, <2>8, <2>9, <2>10, <2>11
<1> QED BY <1>1, <1>2

\* The heap's least line is no later than any other.
LEMMA HeapLeast ==
    ASSUME DownloadTyped, peeked # {},
           NEW item, item = CHOOSE x \in peeked : ~\E y \in peeked : Below(y, x)
    PROVE  item \in peeked /\ \A y \in peeked : item[1] <= y[1]
<1>1. peeked \in SUBSET Fours /\ IsFiniteSet(peeked)
  <2>1. peeked \in SUBSET (Times \X Nat \X Nat \X Nat) /\ IsFiniteSet(peeked)
    BY Zenon DEF DownloadTyped
  <2>2. ASSUME NEW y \in peeked PROVE y \in Fours
    <3>1. /\ y[1] \in Times /\ y[2] \in Nat /\ y[3] \in Nat /\ y[4] \in Nat
          /\ y = <<y[1], y[2], y[3], y[4]>>
      BY <2>1
    <3>2. y[1] \in Int
      BY <3>1 DEF Times
    <3> QED BY <3>1, <3>2 DEF Fours
  <2> QED BY <2>1, <2>2
<1>2. Ordered(peeked)
  BY <1>1, FoursOrdered DEF Ordered
<1>3. \E x \in peeked : \A y \in peeked : ~Below(y, x)
  BY <1>1, <1>2, FirstOf
<1>4. item \in peeked /\ \A y \in peeked : ~Below(y, item)
  BY <1>3
<1>5. ASSUME NEW y \in peeked PROVE item[1] <= y[1]
  <2>1. item \in Fours /\ y \in Fours
    BY <1>1, <1>4
  <2>2. item[1] \in Int /\ y[1] \in Int
    BY <2>1 DEF Fours
  <2>3. ~(y[1] < item[1])
    BY <1>4, <2>1, BelowFours
  <2> QED BY <2>2, <2>3
<1> QED BY <1>4, <1>5

\* What has been sent stays passed, and what is sent now is.
LEMMA PassedStays ==
    ASSUME StoreInv, LinesInv, DownloadTyped, IteratorsInv, PeekedInv,
           UNCHANGED <<storeVars, readVars>>,
           download = "merge", NEW item \in peeked, Refilled(item[3], peeked \ {item})
    PROVE  /\ \A m \in 1..Len(iterators) : \A p \in Positions : Passed(m, p) => Passed(m, p)'
           /\ \E p \in Positions : p = Now(item[3]) /\ Passed(item[3], p)'
<1> PICK n \in 1..Len(iterators) : n = item[3]
  BY DEF PeekedInv
<1> PICK old : old = Now(n)
  OBVIOUS
<1> PICK new : new = Now(n)'
  OBVIOUS
<1>1. old \in Positions /\ old \in Fours /\ old[2] = ContainerOf(n)
  <2>1. IteratorInv(n)
    BY DEF IteratorsInv
  <2> QED BY <2>1, NowIs DEF PeekedInv, Holds
<1>2. /\ \A m \in 1..Len(iterators) : ContainerOf(m)' = ContainerOf(m)
      /\ \A m \in 1..Len(iterators) : m # n => Now(m)' = Now(m)
      /\ \A y \in peeked' : y \in peeked \ {item} \/ y[3] = n
      /\ (\E y \in peeked' : y[3] = n) => Below(old, new)
      /\ (\A y \in peeked' : y[3] # n) => new = old
  BY DEF Refilled
<1>3. (\E y \in peeked' : y[3] = n) => new \in Fours
  <2> SUFFICES ASSUME NEW y \in peeked', y[3] = n PROVE new \in Fours
    OBVIOUS
  <2>1. Holds(Now(y[3]), Line(y))'
    BY DEF Refilled
  <2>2. Now(y[3])' = new
    OBVIOUS
  <2>3. new \in Positions
    BY <2>1, <2>2, StoreSame DEF Holds
  <2> QED BY <2>3, PlaceHas
<1>4. ASSUME NEW m \in 1..Len(iterators), NEW p \in Positions, Passed(m, p), m # n
      PROVE  Passed(m, p)'
  <2>1. (\A y \in peeked : y[3] # m) => \A y \in peeked' : y[3] # m
    BY <1>2, <1>4
  <2>2. ContainerOf(m)' = ContainerOf(m) /\ Now(m)' = Now(m)
    BY <1>2, <1>4
  <2> QED BY <1>4, <2>1, <2>2 DEF Passed, Below
<1>5. ASSUME NEW p \in Positions, p = old \/ Below(p, old), p[2] = ContainerOf(n)
      PROVE  Passed(n, p)'
  <2>1. p \in Fours
    BY PlaceHas
  <2>2. CASE \E y \in peeked' : y[3] = n
    <3>1. Below(old, new) /\ new \in Fours
      BY <1>2, <1>3, <2>2
    <3>2. Below(p, new)
      BY <1>1, <1>5, <2>1, <3>1, FoursOrdered DEF Ordered
    <3>3. Below(p, Now(n))'
      BY <3>2 DEF Below
    <3>4. p[2] = ContainerOf(n)'
      BY <1>2, <1>5
    <3> QED BY <3>3, <3>4 DEF Passed
  <2>3. CASE \A y \in peeked' : y[3] # n
    <3>1. Now(n)' = old /\ p[2] = ContainerOf(n)'
      BY <1>2, <1>5, <2>3
    <3>2. Below(p, Now(n))' \/ p = Now(n)'
      BY <1>5, <3>1 DEF Below
    <3> QED BY <2>3, <3>1, <3>2 DEF Passed
  <2> QED BY <2>2, <2>3
<1>6. ASSUME NEW p \in Positions, Passed(n, p) PROVE Passed(n, p)'
  <2>1. p[2] = ContainerOf(n) /\ Below(p, old)
    BY <1>6 DEF Passed
  <2> QED BY <1>5, <2>1
<1>7. Passed(n, old)'
  BY <1>1, <1>5
<1> QED BY <1>1, <1>4, <1>6, <1>7

\* The least line is sent, and its iterator's next one put in the heap.
LEMMA MergeKeeps ==
    ASSUME StoreInv, LinesInv, DownloadInv, UNCHANGED <<storeVars, readVars>>, Merge,
           request = "download"
    PROVE  DownloadInv'
<1> USE DEF DownloadInv
<1> PICK item : item = CHOOSE x \in peeked : ~\E y \in peeked : Below(y, x)
  OBVIOUS
<1> PICK n : n = item[3]
  OBVIOUS
<1> PICK rest : rest = peeked \ {item}
  OBVIOUS
<1>1. /\ download = "merge" /\ peeked # {} /\ body' = Append(body, Line(item))
      /\ Refill(n, rest) /\ UNCHANGED <<asked, left>>
  BY DEF Merge, Line
<1>2. item \in peeked /\ \A y \in peeked : item[1] <= y[1]
  BY <1>1, HeapLeast
<1>3. n \in 1..Len(iterators) /\ rest \in SUBSET peeked /\ \A y \in rest : y[3] # n
  BY <1>2 DEF PeekedInv
<1>4. Refilled(n, rest)
  BY <1>1, <1>3, RefillKeeps
<1>5. /\ UNCHANGED <<seg, data, written, request, span>> /\ Positions' = Positions
      /\ \A p : At(p)' = At(p) /\ (ToSend(p)' <=> ToSend(p))
  BY <1>1, StoreSame
<1>6. /\ iterators' \in Seq(Iterators) /\ Len(iterators') = Len(iterators) /\ counter' \in Nat
      /\ peeked' \in SUBSET (Times \X Nat \X Nat \X Nat) /\ IsFiniteSet(peeked')
      /\ download' \in {"merge", "cut"}
  BY <1>1, <1>4 DEF Refilled
<1>7. /\ item[1] \in Times /\ item[1] \in Int /\ item[4] \in Nat
      /\ Line(item) \in [id : Nat, ts : Times] /\ Line(item).ts = item[1]
  <2>1. item \in Times \X Nat \X Nat \X Nat
    BY <1>2, Zenon DEF DownloadTyped
  <2>2. item[1] \in Times /\ item[4] \in Nat
    BY <2>1
  <2> QED BY <2>2 DEF Line, Times
<1> PICK k : k = Len(body) + 1
  OBVIOUS
<1>8. /\ body \in Seq([id : Nat, ts : Times]) /\ body' \in Seq([id : Nat, ts : Times])
      /\ Len(body) \in Nat /\ k \in Nat /\ Len(body') = k /\ body'[k] = Line(item)
      /\ \A i \in 1..Len(body) : body'[i] = body[i] /\ body[i].ts \in Int /\ i \in 1..k
      /\ \A i \in 1..k : i \in 1..Len(body) \/ i = k
      /\ k \in 1..k /\ body'[k].ts = item[1]
  <2>1. body \in Seq([id : Nat, ts : Times])
    BY Zenon DEF DownloadTyped
  <2>2. ASSUME NEW i \in 1..Len(body) PROVE body[i].ts \in Int
    <3>1. body[i] \in [id : Nat, ts : Times]
      BY <2>1, ElementOfSeq
    <3>2. body[i].ts \in Times
      BY <3>1
    <3> QED BY <3>2 DEF Times
  <2> QED BY <1>1, <1>7, <2>1, <2>2
<1>9. DownloadTyped'
  BY <1>1, <1>5, <1>6, <1>8, Zenon DEF DownloadTyped
<1>10. IteratorsInv'
  BY <1>1, <1>4, IteratorsStay
<1>11. PeekedInv'
  <2>1. \A y \in peeked' : y[3] \in 1..Len(iterators') /\ Holds(Now(y[3]), Line(y))'
    BY <1>4 DEF Refilled
  <2>2. \A y, z \in peeked' : y[3] = z[3] => y = z
    BY <1>4 DEF Refilled
  <2> QED BY <1>6, <2>1, <2>2 DEF PeekedInv
<1>12. WholeInv'
  <2> SUFFICES ASSUME download' = "merge", NEW p \in Positions, ToSend(p)
               PROVE  \/ \E m \in 1..Len(iterators') : AheadOf(m, p)' /\ WillRefill(m)'
                      \/ \E y \in peeked' : Line(y) = At(p)
                      \/ \E i \in 1..Len(body') : body'[i] = At(p)
    BY <1>5, <1>6 DEF WholeInv, Line
  <2>1. \/ \E m \in 1..Len(iterators) : AheadOf(m, p) /\ WillRefill(m)
        \/ \E y \in peeked : Line(y) = At(p)
        \/ \E i \in 1..Len(body) : body[i] = At(p)
    BY <1>1 DEF WholeInv
  <2>2. rest \subseteq peeked'
    BY <1>4 DEF Refilled
  <2>3. ASSUME NEW m \in 1..Len(iterators), m # n, AheadOf(m, p), WillRefill(m)
        PROVE  AheadOf(m, p)' /\ WillRefill(m)'
    <3>1. AheadOf(m, p)'
      BY <1>1, <1>4, <2>3, IteratorsStay
    <3>2. \E y \in rest : y[3] = m
      BY <1>1, <2>3 DEF WillRefill
    <3>3. WillRefill(m)'
      BY <2>2, <3>2 DEF WillRefill
    <3> QED BY <3>1, <3>3
  <2>4. ASSUME AheadOf(n, p)
        PROVE  \/ \E y \in peeked' : Line(y) = At(p)
               \/ AheadOf(n, p)' /\ WillRefill(n)'
    <3>1. p \in Stored /\ Matches(At(p))
      BY DEF ToSend, Remains
    <3>2. \/ \E y \in peeked' : Line(y) = At(p)
          \/ AheadOf(n, p)' /\ \E y \in peeked' : y[3] = n
      BY <1>6, <2>4, <3>1, <1>4 DEF Refilled
    <3> QED BY <3>2 DEF WillRefill
  <2>5. ASSUME NEW y \in peeked, Line(y) = At(p)
        PROVE  \/ \E z \in peeked' : Line(z) = At(p)
               \/ \E i \in 1..Len(body') : body'[i] = At(p)
    BY <1>8, <2>2, <2>5
  <2>6. ASSUME NEW i \in 1..Len(body), body[i] = At(p)
        PROVE  \E j \in 1..Len(body') : body'[j] = At(p)
    BY <1>8, <2>6
  <2> QED BY <1>3, <1>6, <2>1, <2>3, <2>4, <2>5, <2>6
<1> PICK old : old = Now(n)
  OBVIOUS
<1>13. /\ old \in Positions /\ At(old) = Line(item) /\ old[2] = ContainerOf(n)
       /\ \A m \in 1..Len(iterators) : \A p \in Positions : Passed(m, p) => Passed(m, p)'
       /\ Passed(n, old)'
  <2>1. old \in Positions /\ At(old) = Line(item)
    BY <1>2 DEF PeekedInv, Holds
  <2>2. old[2] = ContainerOf(n)
    BY DEF Now
  <2>3. Refilled(item[3], peeked \ {item})
    BY <1>4
  <2>4. /\ \A m \in 1..Len(iterators) : \A p \in Positions : Passed(m, p) => Passed(m, p)'
        /\ \E p \in Positions : p = Now(item[3]) /\ Passed(item[3], p)'
    BY <1>1, <1>2, <2>3, PassedStays
  <2> QED BY <2>1, <2>2, <2>4
<1>14. (\A i \in 1..Len(body) :
           \E p \in Positions : At(p) = body[i] /\ \E m \in 1..Len(iterators) : Passed(m, p))'
  <2> SUFFICES ASSUME NEW i \in 1..k
               PROVE  \E p \in Positions : At(p) = body'[i] /\ \E m \in 1..Len(iterators) : Passed(m, p)'
    BY <1>5, <1>6, <1>8
  <2>1. CASE i = k
    BY <1>3, <1>8, <1>13, <2>1
  <2>2. CASE i \in 1..Len(body)
    <3>1. PICK p \in Positions : At(p) = body[i] /\ \E m \in 1..Len(iterators) : Passed(m, p)
      BY <2>2 DEF BodyInv
    <3> QED BY <1>8, <1>13, <2>2, <3>1
  <2> QED BY <1>8, <2>1, <2>2
<1>15. \A line, q : Explained(line, q)' <=> Explained(line, q)
  BY <1>5 DEF Explained, Below
<1>16. (\A i, j \in 1..Len(body) : i < j =>
           \A p, q \in Positions : At(p) = body[i] /\ At(q) = body[j] =>
               /\ p[2] = q[2] => Below(p, q)
               /\ body[i].ts > body[j].ts => Explained(body[i], q))'
  <2> SUFFICES ASSUME NEW i \in 1..k, NEW j \in 1..k, i < j,
                      NEW p \in Positions, NEW q \in Positions,
                      At(p) = body'[i], At(q) = body'[j]
               PROVE  /\ p[2] = q[2] => Below(p, q)
                      /\ body'[i].ts > body'[j].ts => Explained(body'[i], q)
    <3>1. 1..Len(body') = 1..k
      BY <1>8
    <3>2. \A p, q \in Positions : Below(p, q)' <=> Below(p, q)
      BY DEF Below
    <3> QED BY <1>5, <1>15, <3>1, <3>2, ZenonT(30)
  <2>1. i \in 1..Len(body)
    BY <1>8
  <2>2. CASE j \in 1..Len(body)
    <3>1. body'[i] = body[i] /\ body'[j] = body[j]
      BY <1>8, <2>1, <2>2
    <3> QED BY <2>1, <2>2, <3>1 DEF BodyInv
  <2>3. CASE j = k
    <3>1. q = old /\ body'[i] = body[i] /\ body'[j] = Line(item)
      BY <1>8, <1>13, <2>1, <2>3, OnePlace
    <3>2. PICK m \in 1..Len(iterators) : Passed(m, p)
      <4>1. PICK x \in Positions : At(x) = body[i] /\ \E m \in 1..Len(iterators) : Passed(m, x)
        BY <2>1 DEF BodyInv
      <4>2. x = p
        BY <3>1, <4>1, OnePlace
      <4> QED BY <4>1, <4>2
    <3>3. ASSUME p[2] = q[2] PROVE Below(p, q)
      <4>1. ContainerOf(m) = ContainerOf(n)
        BY <1>13, <3>1, <3>2, <3>3 DEF Passed
      <4>2. m = n
        BY <1>3, <4>1 DEF IteratorsInv
      <4> QED BY <1>2, <3>1, <3>2, <4>2 DEF Passed
    <3>4. ASSUME body'[i].ts > body'[j].ts PROVE Explained(body'[i], q)
      <4>1. body[i].ts > item[1]
        BY <1>7, <3>1, <3>4
      <4>2. Explained(body[i], old)
        BY <1>2, <2>1, <4>1 DEF BodyInv
      <4> QED BY <3>1, <4>2
    <3> QED BY <3>3, <3>4
  <2> QED BY <1>8, <2>2, <2>3
<1>17. (\A i \in 1..Len(body) : \A y \in peeked :
           body[i].ts > y[1] => Explained(body[i], Now(y[3])))'
  <2> SUFFICES ASSUME NEW i \in 1..k, NEW y \in peeked', body'[i].ts > y[1], NEW now, now = Now(y[3])'
               PROVE  Explained(body'[i], now)
    BY <1>8, <1>15
  <2>1. y[1] \in Int
    BY <1>6 DEF Times
  <2>2. CASE y \in rest
    <3>1. now = Now(y[3])
      BY <1>3, <1>4, <2>2 DEF Refilled, PeekedInv
    <3>2. i # k
      <4>1. item[1] <= y[1]
        BY <1>2, <1>3, <2>2
      <4>2. body'[i].ts > y[1]
        OBVIOUS
      <4> QED BY <1>7, <1>8, <2>1, <4>1, <4>2
    <3>3. i \in 1..Len(body) /\ body'[i] = body[i]
      BY <1>8, <3>2
    <3> QED BY <1>3, <2>2, <3>1, <3>3 DEF BodyInv
  <2>3. CASE y[3] = n
    <3>1. Below(old, now)
      BY <1>4, <2>3 DEF Refilled
    <3>2. now \in Positions /\ now \in Fours /\ old \in Fours
      <4>1. Holds(Now(y[3]), Line(y))'
        BY <1>11 DEF PeekedInv
      <4>2. now \in Positions
        BY <1>5, <4>1 DEF Holds
      <4> QED BY <1>13, <4>2, PlaceHas
    <3>3. now[2] = old[2]
      <4>1. now[2] = ContainerOf(n)'
        BY <2>3 DEF Now
      <4>2. ContainerOf(n)' = ContainerOf(n)
        BY <1>3, <1>4 DEF Refilled
      <4> QED BY <1>13, <4>1, <4>2
    <3>4. At(old).ts = item[1]
      BY <1>7, <1>13
    <3>5. CASE i \in 1..Len(body) /\ body[i].ts > item[1]
      <4>1. Explained(body[i], old) /\ body'[i] = body[i]
        BY <1>2, <1>8, <3>5 DEF BodyInv
      <4>2. PICK x \in Positions : x[2] = old[2] /\ Below(x, old) /\ At(x).ts >= body[i].ts
        BY <4>1 DEF Explained
      <4>3. x \in Fours
        BY PlaceHas
      <4>4. Below(x, now)
        BY <3>1, <3>2, <4>2, <4>3, FoursOrdered DEF Ordered
      <4> QED BY <3>3, <4>1, <4>2, <4>4 DEF Explained
    <3>6. CASE i = k \/ ~(body[i].ts > item[1])
      <4>1. At(old).ts >= body'[i].ts
        <5>1. CASE i = k
          <6>1. body'[i].ts = item[1]
            BY <1>8, <5>1
          <6> QED BY <1>7, <3>4, <6>1
        <5>2. CASE i \in 1..Len(body) /\ ~(body[i].ts > item[1])
          <6>1. body'[i].ts = body[i].ts /\ body[i].ts \in Int
            BY <1>8, <5>2
          <6> QED BY <1>7, <3>4, <5>2, <6>1
        <5>3. i = k \/ i \in 1..Len(body)
          BY <1>8
        <5> QED BY <3>6, <5>1, <5>2, <5>3
      <4> QED BY <1>13, <3>1, <3>3, <4>1 DEF Explained
    <3> QED BY <1>8, <3>5, <3>6
  <2>4. y \in rest \/ y[3] = n
    BY <1>4 DEF Refilled
  <2> QED BY <2>2, <2>3, <2>4
<1>18. BodyInv'
  BY <1>14, <1>16, <1>17 DEF BodyInv
<1> QED BY <1>9, <1>10, <1>11, <1>12, <1>18

\* Another reader takes a step, or none does.
LEMMA DownloadWaits ==
    ASSUME StoreInv, LinesInv, DownloadInv, UNCHANGED <<storeVars, readVars, downloadVars>>
    PROVE  StoreInv' /\ LinesInv' /\ DownloadInv'
<1>1. UNCHANGED <<seg, data, written, changes, request, span>>
  BY DEF storeVars, readVars
<1>2. StoreInv'
  BY StoreStays
<1>3. LinesInv'
  <2>1. \A s : FilesNamed(s)' = FilesNamed(s)
    BY <1>1 DEF FilesNamed
  <2> QED BY <1>1, <2>1 DEF LinesInv
<1>4. Grows
  BY <1>1 DEF Grows, StoreInv
<1>5. \A x \in DOMAIN seg' \ DOMAIN seg : DOMAIN data'[<<x, seg'[x]>>] = {}
  BY <1>1
<1>6. DownloadInv'
  BY <1>1, <1>2, <1>4, <1>5, DownloadRests
<1> QED BY <1>2, <1>3, <1>6

\* The download's invariant holds at first.
LEMMA DownloadStarts == Init => DownloadInv
<1> SUFFICES ASSUME Init PROVE DownloadInv
  OBVIOUS
<1>1. StoreInv /\ DownloadInit
  BY StoreStarts DEF Init
<1>2. /\ download = "start" /\ asked = 0 /\ left = {} /\ iterators = <<>>
      /\ peeked = {} /\ counter = 0 /\ body = <<>> /\ Len(iterators) = 0 /\ Len(body) = 0
  BY <1>1 DEF DownloadInit
<1>3. DownloadTyped
  <2>1. asked <= written
    BY <1>1, <1>2 DEF StoreInv
  <2>2. IsFiniteSet(left) /\ IsFiniteSet(peeked)
    BY <1>2, FS_EmptySet
  <2>3. iterators \in Seq(Iterators) /\ body \in Seq([id : Nat, ts : Times])
    BY <1>2, EmptySeq
  <2> QED BY <1>1, <1>2, <2>1, <2>2, <2>3 DEF DownloadTyped
<1>4. IteratorsInv
  BY <1>2 DEF IteratorsInv
<1>5. PeekedInv
  BY <1>2 DEF PeekedInv
<1>6. BodyInv
  <2>1. ASSUME NEW i \in 1..Len(body) PROVE FALSE
    BY <1>2
  <2>2. \A i \in 1..Len(body) :
           \E p \in Positions : At(p) = body[i] /\ \E n \in 1..Len(iterators) : Passed(n, p)
    <3> SUFFICES ASSUME NEW i \in 1..Len(body) PROVE FALSE
      OBVIOUS
    <3> QED BY <2>1
  <2>3. \A i, j \in 1..Len(body) : i < j =>
           \A p, q \in Positions : At(p) = body[i] /\ At(q) = body[j] =>
               /\ p[2] = q[2] => Below(p, q)
               /\ body[i].ts > body[j].ts => Explained(body[i], q)
    <3> SUFFICES ASSUME NEW i \in 1..Len(body) PROVE FALSE
      OBVIOUS
    <3> QED BY <2>1
  <2>4. \A i \in 1..Len(body) : \A y \in peeked :
           body[i].ts > y[1] => Explained(body[i], Now(y[3]))
    <3> SUFFICES ASSUME NEW i \in 1..Len(body) PROVE FALSE
      OBVIOUS
    <3> QED BY <2>1
  <2> QED BY <2>2, <2>3, <2>4 DEF BodyInv
<1>7. WholeInv
  BY <1>2 DEF WholeInv
<1> QED BY <1>3, <1>4, <1>5, <1>6, <1>7 DEF DownloadInv

\* What a download has listed, opened, peeked and sent, whatever the store does while it
\* runs (DownloadLogs, podLineIterator and the merge of download.go).
THEOREM DownloadInvariant == Spec => [](StoreInv /\ LinesInv /\ DownloadInv)
<1> DEFINE Inv == StoreInv /\ LinesInv /\ DownloadInv
<1>1. Init => Inv
  BY StoreStarts, DownloadStarts DEF Init
<1>2. Inv /\ [Next]_vars => Inv'
  <2> SUFFICES ASSUME StoreInv, LinesInv, DownloadInv, [Next]_vars
               PROVE  StoreInv' /\ LinesInv' /\ DownloadInv'
    OBVIOUS
  <2>1. CASE Store
    <3>1. StoreNext /\ UNCHANGED <<readVars, downloadVars>>
      BY <2>1 DEF Store
    <3>2. StoreInv' /\ Grows
      BY <3>1, StoreMoves
    <3>3. LinesInv' /\ \A x \in DOMAIN seg' \ DOMAIN seg : DOMAIN data'[<<x, seg'[x]>>] = {}
      BY <3>1, LinesMove
    <3>4. UNCHANGED <<request, span, downloadVars>>
      BY <3>1 DEF readVars
    <3> QED BY <3>2, <3>3, <3>4, DownloadRests
  <2>2. CASE Fetch
    <3>1. UNCHANGED <<storeVars, readVars>> /\ request = "download" /\ DownloadNext
      BY <2>2 DEF Fetch
    <3>2. StoreInv'
      BY <3>1, StoreStays
    <3>3. LinesInv'
      <4>1. \A s : FilesNamed(s)' = FilesNamed(s)
        BY <3>1 DEF FilesNamed, storeVars
      <4> QED BY <3>1, <4>1 DEF LinesInv, storeVars
    <3>4. CASE AskDownload \/ ListChunks \/ OpenFirst
      BY <3>1, <3>2, <3>3, <3>4, AskKeeps, ListKeeps, OpenKeeps
    <3>5. CASE Listed \/ Fill \/ Merge
      BY <3>1, <3>2, <3>3, <3>5, ListedKeeps, FillKeeps, MergeKeeps
    <3>6. CASE Merged
      <4>1. /\ download = "merge" /\ peeked = {} /\ download' = "whole"
            /\ UNCHANGED <<asked, left, iterators, peeked, counter, body>>
        BY <3>6 DEF Merged
      <4> QED BY <3>1, <3>2, <3>3, <4>1, TurnKeeps
    <3> QED BY <3>1, <3>4, <3>5, <3>6 DEF DownloadNext
  <2>3. CASE Page \/ IndexPage \/ Find \/ Done \/ UNCHANGED vars
    <3>1. UNCHANGED <<storeVars, readVars, downloadVars>>
      BY <2>3 DEF Page, IndexPage, Find, Done, vars
    <3> QED BY <3>1, DownloadWaits
  <2> QED BY <2>1, <2>2, <2>3 DEF Next
<1> QED BY <1>1, <1>2, PTL DEF Spec

\* What is downloaded is in order and comes once, and it is all there is unless the
\* download is cut short by a segment that goes (download.go:182).
THEOREM DownloadMerges == Spec => []DownloadExact
<1>1. StoreInv /\ LinesInv /\ DownloadInv => DownloadExact
  <2> SUFFICES ASSUME StoreInv, LinesInv, DownloadInv PROVE DownloadExact
    OBVIOUS
  <2> USE DEF DownloadInv
  <2>1. body \in Seq([id : Nat, ts : Times]) /\ DOMAIN body = 1..Len(body)
    <3>1. body \in Seq([id : Nat, ts : Times])
      BY Zenon DEF DownloadTyped
    <3> QED BY <3>1, LenProperties
  <2>2. DownloadInOrder
    <3> SUFFICES ASSUME NEW i \in 1..Len(body), NEW j \in 1..Len(body), i < j
                 PROVE  /\ body[i] # body[j]
                        /\ \A p, q \in Positions : At(p) = body[i] /\ At(q) = body[j] =>
                              /\ p[2] = q[2] => Below(p, q)
                              /\ body[i].ts > body[j].ts =>
                                    \E x \in Positions : x[2] = q[2] /\ Below(x, q)
                                                         /\ At(x).ts >= body[i].ts
      BY <2>1 DEF DownloadInOrder
    <3>1. ASSUME NEW p \in Positions, NEW q \in Positions, At(p) = body[i], At(q) = body[j]
          PROVE  /\ p[2] = q[2] => Below(p, q)
                 /\ body[i].ts > body[j].ts => Explained(body[i], q)
      BY <3>1 DEF BodyInv
    <3>2. body[i] # body[j]
      <4>1. PICK p \in Positions : At(p) = body[i]
        BY DEF BodyInv
      <4>2. body[i] = body[j] => Below(p, p)
        BY <3>1, <4>1
      <4>3. ~Below(p, p)
        BY PlaceHas, FoursOrdered DEF Ordered
      <4> QED BY <4>2, <4>3
    <3> QED BY <3>1, <3>2 DEF Explained
  <2>3. DownloadWhole
    <3> SUFFICES ASSUME download = "whole", NEW p \in Stored, At(p).id <= asked, Matches(At(p))
                 PROVE  At(p) \in Set(body)
      BY DEF DownloadWhole
    <3>1. p \in Positions /\ ToSend(p)
      BY DEF Stored, ToSend, Remains
    <3>2. peeked = {} /\ \A n : ~WillRefill(n)
      BY DEF PeekedInv, WillRefill
    <3>3. \E i \in 1..Len(body) : body[i] = At(p)
      BY <3>1, <3>2 DEF WholeInv
    <3> QED BY <2>1, <3>3 DEF Set
  <2> QED BY <2>2, <2>3 DEF DownloadExact
<1> QED BY <1>1, DownloadInvariant, PTL

-----------------------------------------------------------------------------
(* The inductive invariant of merged pages. *)

\* What MergedPagesExact says of an answer holds as long as the client has it.
AsksFor(t) ==
    /\ answer.kind = "next" => \A line \in Final(answer.from) : t > line.ts
    /\ answer.kind = "prev" => \A line \in First(answer.from) : t < line.ts

PageExact ==
    /\ \A i, j \in DOMAIN answer.lines : i < j =>
          answer.lines[i].ts <= answer.lines[j].ts /\ answer.lines[i] # answer.lines[j]
    /\ \A i \in DOMAIN answer.lines : AsksFor(answer.lines[i].ts)
    /\ \A p \in Positions :
          Remains(p, answer.top) /\ At(p) \notin Set(answer.lines) /\ AsksFor(At(p).ts) =>
              /\ Len(answer.lines) = PageSize
              /\ \A line \in Set(answer.lines) :
                    IF answer.kind \in {"last", "prev"} THEN At(p).ts <= line.ts
                    ELSE At(p).ts >= line.ts

\* The tokens of a merged answer are the times of its last and first lines.
AnswerInv ==
    /\ answer.top \in Nat /\ answer.top <= written
    /\ answer.merged \in BOOLEAN
    /\ answer.merged => answer.lines \in Seq([id : Nat, ts : Times]) /\ PageExact
    /\ answer.next # None =>
          IF answer.merged
          THEN answer.lines # <<>> /\ answer.next = ForwardToken(answer.lines[Len(answer.lines)].ts)
          ELSE answer.next[1] = "offset"
    /\ answer.prev # None =>
          IF answer.merged THEN answer.lines # <<>> /\ answer.prev = BackwardToken(answer.lines[1].ts)
          ELSE answer.prev[1] = "offset"

RequestInv ==
    /\ pc \in {"idle", "dispatch"} => heap = {}
    /\ pc = "prev" => at = None \/ at[1] = "offset"
    /\ pc # "idle" =>
          /\ top \in Nat /\ top <= written
          /\ kind \in {"first", "last", "next", "prev"}
          /\ kind = "next" => answer.next # None
          /\ kind = "prev" => answer.prev # None

\* An entry of the heap is a line of the segment it names, ...
Entry(e) == \E f \in DOMAIN data : f[1] = chunks[e[2]] /\ e[3] \in DOMAIN data[f] /\ data[f][e[3]] = Line(e)

\* ... and what was not kept comes after what was, if it has come to be too much.
Outdone(p) ==
    /\ Cardinality(heap) = PageSize
    /\ \A e \in heap : IF Reversed THEN At(p).ts <= e[1] ELSE At(p).ts >= e[1]

ListedBefore(p, n) == \E c \in 1..Len(chunks) : c < n /\ chunks[c] = SegmentOf(p)

MergeInv ==
    /\ Token # None => answer.merged
    /\ chunks \in Seq(Segments)
    /\ \A i, j \in 1..Len(chunks) : chunks[i] = chunks[j] => i = j
    /\ \A p \in Positions : Remains(p, top) => ListedBefore(p, Len(chunks) + 1)
    /\ at[1] \in 1..Len(chunks) + 1
    /\ heap \in SUBSET (Times \X Nat \X Nat \X Nat) /\ IsFiniteSet(heap)
    /\ Cardinality(heap) <= PageSize
    /\ \A e \in heap : e[2] \in 1..Len(chunks) /\ e[2] < at[1] /\ Entry(e) /\ Eligible(Line(e))
    /\ \A p \in Positions :
          Remains(p, top) /\ Eligible(At(p)) /\ ListedBefore(p, at[1]) =>
              (\E e \in heap : Line(e) = At(p)) \/ Outdone(p)

PagesInv == request # "index" => AnswerInv /\ RequestInv /\ (pc = "merge" => MergeInv)

-----------------------------------------------------------------------------
(* Merged pages. *)

\* The order of numbers is transitive.
LEMMA InARow ==
    ASSUME NEW a \in Int, NEW b \in Int, NEW c \in Int, a <= b, b <= c
    PROVE  a <= c
OBVIOUS

\* Times are numbers.
LEMMA TimesInt == Times \in SUBSET Int
BY DEF Times

\* What an entry of the merge's heap is made of.
LEMMA EntryIs ==
    ASSUME NEW y \in Times \X Nat \X Nat \X Nat
    PROVE  /\ y[1] \in Times /\ y[1] \in Int /\ y[2] \in Nat /\ y[3] \in Nat /\ y[4] \in Nat
           /\ y = <<y[1], y[2], y[3], y[4]>> /\ y \in Fours
<1>1. /\ y[1] \in Times /\ y[2] \in Nat /\ y[3] \in Nat /\ y[4] \in Nat
      /\ y = <<y[1], y[2], y[3], y[4]>>
  OBVIOUS
<1>2. y[1] \in Int
  BY <1>1, TimesInt
<1>3. y \in Fours
  BY <1>1, <1>2 DEF Fours
<1> QED BY <1>1, <1>2, <1>3

\* A set that is as large as one that holds it may be is that one.
LEMMA AsLarge ==
    ASSUME NEW A, NEW B, IsFiniteSet(B), A \in SUBSET B, NEW n \in Nat,
           Cardinality(A) = n, Cardinality(B) <= n
    PROVE  A = B
<1>1. Cardinality(A) <= Cardinality(B) /\ (Cardinality(A) = Cardinality(B) => A = B)
  BY FS_Subset
<1>2. Cardinality(B) \in Nat
  BY FS_CardinalityType
<1>3. Cardinality(A) = Cardinality(B)
  BY <1>1, <1>2
<1> QED BY <1>1, <1>3

\* What the heap keeps comes before what it drops.
LEMMA KeptFirst ==
    ASSUME NEW S \in SUBSET Fours, IsFiniteSet(S)
    PROVE  /\ Kept(S) \in SUBSET S /\ IsFiniteSet(Kept(S))
           /\ Cardinality(Kept(S)) \in Nat /\ Cardinality(Kept(S)) <= PageSize
           /\ \A x \in S \ Kept(S) :
                 /\ Cardinality(Kept(S)) = PageSize
                 /\ \A y \in Kept(S) : IF Reversed THEN x[1] <= y[1] ELSE y[1] <= x[1]
<1>1. PageSize \in Nat
  BY PagesAssumption
<1>2. ASSUME NEW x \in S, NEW y \in S, NEW z \in S
      PROVE  /\ Below(x, y) \/ Below(y, x) \/ x = y
             /\ ~Below(x, x)
             /\ Below(x, y) /\ Below(y, z) => Below(x, z)
             /\ Below(x, y) => x[1] <= y[1]
  <2>1. x \in Fours /\ y \in Fours /\ z \in Fours
    OBVIOUS
  <2>2. x[1] \in Int /\ y[1] \in Int
    BY <2>1 DEF Fours
  <2>3. Below(x, y) => x[1] <= y[1]
    BY <2>1, <2>2, BelowFours
  <2> QED BY <2>1, <2>3, FoursOrdered DEF Ordered
<1>3. CASE Reversed
  <2> DEFINE under == [e \in S |-> {x \in S : Below(e, x)}]
  <2>1. /\ under \in [S -> SUBSET S] /\ \A x, y \in S : x \in under[y] <=> Below(y, x)
        /\ \A e \in S : under[e] = {x \in S : Below(e, x)}
    OBVIOUS
  <2> HIDE DEF under
  <2>2. Total(S, under)
    BY <1>2, <2>1 DEF Total
  <2> PICK K : K = {x \in S : Cardinality(under[x]) < PageSize}
    OBVIOUS
  <2>3. Kept(S) = K
    BY <1>3, <2>1 DEF Kept
  <2>4. /\ IsFiniteSet(K) /\ Cardinality(K) \in Nat /\ Cardinality(K) <= PageSize
        /\ \A x \in S \ K : Cardinality(K) = PageSize /\ \A y \in K : y \in under[x]
    BY <1>1, <2>2, Firsts
  <2>5. \A x \in S \ K : \A y \in K : x[1] <= y[1]
    BY <1>2, <2>1, <2>4
  <2> QED BY <1>3, <2>3, <2>4, <2>5
<1>4. CASE ~Reversed
  <2> DEFINE under == [e \in S |-> {x \in S : Below(x, e)}]
  <2>1. /\ under \in [S -> SUBSET S] /\ \A x, y \in S : x \in under[y] <=> Below(x, y)
        /\ \A e \in S : under[e] = {x \in S : Below(x, e)}
    OBVIOUS
  <2> HIDE DEF under
  <2>2. Total(S, under)
    BY <1>2, <2>1 DEF Total
  <2> PICK K : K = {x \in S : Cardinality(under[x]) < PageSize}
    OBVIOUS
  <2>3. Kept(S) = K
    BY <1>4, <2>1 DEF Kept
  <2>4. /\ IsFiniteSet(K) /\ Cardinality(K) \in Nat /\ Cardinality(K) <= PageSize
        /\ \A x \in S \ K : Cardinality(K) = PageSize /\ \A y \in K : y \in under[x]
    BY <1>1, <2>2, Firsts
  <2>5. \A x \in S \ K : \A y \in K : y[1] <= x[1]
    BY <1>2, <2>1, <2>4
  <2> QED BY <1>4, <2>3, <2>4, <2>5
<1> QED BY <1>3, <1>4

\* No answer is given, and the store is as it was.
LEMMA AnswerStays ==
    ASSUME AnswerInv, UNCHANGED <<storeVars, readVars, answer>>
    PROVE  AnswerInv'
<1>1. /\ \A p : Remains(p, answer.top)' <=> Remains(p, answer.top)
      /\ Positions' = Positions /\ \A p : At(p)' = At(p) /\ written' = written
  BY DEF storeVars, readVars, Positions, At, Remains, Stored, Matches
<1>2. \A t : AsksFor(t)' <=> AsksFor(t)
  BY DEF AsksFor
<1>3. PageExact' <=> PageExact
  BY <1>1, <1>2 DEF PageExact
<1> QED BY <1>1, <1>3 DEF AnswerInv

\* Pages by offsets.
LEMMA OffsetAnswer ==
    ASSUME AnswerInv, RequestInv, UNCHANGED <<storeVars, readVars>>, pc # "idle",
           NEW page, NEW next, NEW prev, Answer(FALSE, page, next, prev),
           next = None \/ next[1] = "offset", prev = None \/ prev[1] = "offset"
    PROVE  AnswerInv' /\ RequestInv' /\ pc' = "idle"
<1>1. /\ answer'.merged = FALSE /\ answer'.next = next /\ answer'.prev = prev
      /\ answer'.top = top /\ pc' = "idle" /\ heap' = {} /\ written' = written
  BY DEF Answer, Idle, storeVars
<1>2. top \in Nat /\ top <= written
  BY DEF RequestInv
<1> QED BY <1>1, <1>2 DEF AnswerInv, RequestInv

\* An error leaves the answer there was.
LEMMA ErrKeeps ==
    ASSUME AnswerInv, UNCHANGED <<storeVars, readVars>>, Err
    PROVE  AnswerInv' /\ RequestInv' /\ pc' = "idle"
<1>1. UNCHANGED answer /\ pc' = "idle" /\ heap' = {}
  BY DEF Err, Idle
<1> QED BY <1>1, AnswerStays DEF RequestInv

\* A request comes.
LEMMA AskKeepsPages ==
    ASSUME AnswerInv, RequestInv, StoreInv, UNCHANGED <<storeVars, readVars>>,
           NEW k \in {"first", "last", "next", "prev"}, Ask(k)
    PROVE  AnswerInv' /\ RequestInv' /\ pc' # "merge"
<1>1. /\ pc = "idle" /\ pc' = "dispatch" /\ kind' = k /\ top' = written /\ written' = written
      /\ k = "next" => answer.next # None
      /\ k = "prev" => answer.prev # None
      /\ UNCHANGED <<answer, heap>>
  BY DEF Ask, Asks, storeVars
<1>2. written \in Nat
  BY DEF StoreInv
<1>3. RequestInv'
  BY <1>1, <1>2 DEF RequestInv
<1> QED BY <1>1, <1>3, AnswerStays

\* A page by offsets looks for its start: no merged answer comes of it.
LEMMA ScanFileKeeps ==
    ASSUME AnswerInv, RequestInv, UNCHANGED <<storeVars, readVars>>, ScanFile
    PROVE  AnswerInv' /\ RequestInv' /\ pc' # "merge"
<1>1. CASE /\ UNCHANGED <<kind, top, answer, heap, written>>
           /\ \/ pc \in {"scan", "prev"} /\ UNCHANGED <<pc, at>>
              \/ pc = "scan" /\ pc' = "read"
  <2>1. RequestInv'
    BY <1>1 DEF RequestInv
  <2> QED BY <1>1, <2>1, AnswerStays
<1>2. ASSUME NEW back, pc = "prev", Answer(FALSE, lines, at, <<"offset", chunks[back[1]], back[2]>>)
      PROVE  AnswerInv' /\ RequestInv' /\ pc' # "merge"
  <2>1. at = None \/ at[1] = "offset"
    BY <1>2 DEF RequestInv
  <2>2. <<"offset", chunks[back[1]], back[2]>>[1] = "offset"
    OBVIOUS
  <2>3. AnswerInv' /\ RequestInv' /\ pc' = "idle"
    BY <1>2, <2>1, <2>2, OffsetAnswer
  <2> QED BY <2>3
<1>3. CASE Err
  BY <1>3, ErrKeeps
<1> QED BY <1>1, <1>2, <1>3 DEF ScanFile, storeVars

\* Nor of its reading a file.
LEMMA ReadFileKeeps ==
    ASSUME AnswerInv, RequestInv, UNCHANGED <<storeVars, readVars>>, ReadFile
    PROVE  AnswerInv' /\ RequestInv' /\ pc' # "merge"
<1>1. ASSUME NEW page, NEW next, PageRead(page, next), pc = "read", next = None \/ next[1] = "offset"
      PROVE  AnswerInv' /\ RequestInv' /\ pc' # "merge"
  <2>1. CASE start = <<1, 0>>
    <3>1. Answer(FALSE, page, next, None)
      BY <1>1, <2>1 DEF PageRead
    <3>2. AnswerInv' /\ RequestInv' /\ pc' = "idle"
      BY <1>1, <3>1, OffsetAnswer
    <3> QED BY <3>2
  <2>2. CASE start # <<1, 0>>
    <3>1. pc' = "prev" /\ at' = next /\ UNCHANGED <<kind, top, heap, answer, written>>
      BY <1>1, <2>2 DEF PageRead, storeVars
    <3>2. RequestInv'
      BY <1>1, <3>1 DEF RequestInv
    <3> QED BY <3>1, <3>2, AnswerStays
  <2> QED BY <2>1, <2>2
<1>2. CASE Err
  <2>1. AnswerInv' /\ RequestInv' /\ pc' = "idle"
    BY <1>2, ErrKeeps
  <2> QED BY <2>1
<1>3. CASE pc = "read" /\ UNCHANGED <<pc, kind, top, heap, answer, written>>
  <2>1. RequestInv'
    BY <1>3, SMTT(30) DEF RequestInv
  <2> QED BY <1>3, <2>1, AnswerStays, SMTT(30)
<1>4. pc = "read"
  BY SMTT(30) DEF ReadFile
<1> DEFINE here == chunks[at[1]]
           all  == Content(here)
           take == ToTake(all, at[2])
           room == PageSize - Len(lines)
           full == Len(take) >= room
           last == take[room][1]
           page == lines \o [k \in 1..(IF full THEN room ELSE Len(take)) |-> all[take[k][1]]]
           token == IF HasMore(last, Len(all)) THEN Position(here, last) ELSE None
<1>5. \/ Err \/ PageRead(page, token) \/ PageRead(page, None)
      \/ UNCHANGED <<pc, kind, top, heap, answer>>
  BY DEF ReadFile
<1>6. token = None \/ token[1] = "offset"
  BY DEF Position
<1> HIDE DEF page, token
<1>7. written' = written
  BY DEF storeVars
<1> QED BY <1>1, <1>2, <1>3, <1>4, <1>5, <1>6, <1>7

\* The segments of a pod are listed each once.
LEMMA ChunksListed ==
    ASSUME StoreInv
    PROVE  /\ Chunks \in Seq(Segments) /\ Len(Chunks) \in Nat
           /\ \A i, j \in 1..Len(Chunks) : Chunks[i] = Chunks[j] => i = j
           /\ \A s \in DOMAIN seg : \E i \in 1..Len(Chunks) : Chunks[i] = s
           /\ \A i, j \in 1..Len(Chunks) : i < j => Below(Chunks[i], Chunks[j])
<1> PICK S : S = DOMAIN seg
  OBVIOUS
<1>1. S \in SUBSET Segments /\ IsFiniteSet(S)
  BY DEF StoreInv
<1>2. Ordered(S)
  <2>1. ASSUME NEW s \in S PROVE s \in Int \X Int
    <3>1. s[1] \in Int /\ s[2] \in Nat /\ s = <<s[1], s[2]>>
      BY <1>1, DayTyped
    <3> QED BY <3>1
  <2> QED BY <2>1, PairsOrdered DEF Ordered
<1> PICK m : m = Cardinality(S)
  OBVIOUS
<1> PICK listed : listed = InOrder(S)
  OBVIOUS
<1>3. /\ m \in Nat /\ listed \in [1..m -> S]
      /\ \A i, j \in 1..m : i < j => Below(listed[i], listed[j])
      /\ \A x \in S : \E i \in 1..m : listed[i] = x
  BY <1>1, <1>2, InOrderLists
<1>4. listed \in Seq(Segments) /\ Len(listed) = m
  <2>1. listed \in Seq(S) /\ DOMAIN listed = 1..m
    BY <1>3, SeqDef
  <2>2. listed \in Seq(Segments)
    BY <1>1, <2>1, SeqMonotonic
  <2> QED BY <1>3, <2>1, <2>2, LenProperties
<1>5. ASSUME NEW i \in 1..m, NEW j \in 1..m, listed[i] = listed[j] PROVE i = j
  <2>1. listed[i] \in S /\ listed[j] \in S
    BY <1>3
  <2>2. ~(i < j) /\ ~(j < i)
    BY <1>2, <1>3, <1>5, <2>1 DEF Ordered
  <2> QED BY <1>3, <2>2
<1>6. Chunks = listed
  BY DEF Chunks
<1> QED BY <1>3, <1>4, <1>5, <1>6

\* A merge starts with an empty heap, and has passed no file.
LEMMA DispatchKeeps ==
    ASSUME StoreInv, LinesInv, AnswerInv, RequestInv, UNCHANGED <<storeVars, readVars>>, Dispatch
    PROVE  AnswerInv' /\ RequestInv' /\ (pc' = "merge" => MergeInv')
<1> DEFINE merged == Merges
           foreign == Token # None /\ (Token[1] = "offset") = merged
<1>1. pc = "dispatch" /\ heap = {} /\ kind \in {"first", "last", "next", "prev"}
  BY DEF Dispatch, RequestInv
<1>2. CASE Err
  <2>1. AnswerInv' /\ RequestInv' /\ pc' = "idle"
    BY <1>2, ErrKeeps
  <2> QED BY <2>1
<1>3. CASE pc' \in {"scan", "read"} /\ UNCHANGED <<kind, top, heap, answer, written>>
  <2>1. RequestInv'
    BY <1>1, <1>3 DEF RequestInv
  <2> QED BY <1>3, <2>1, AnswerStays
<1>4. CASE /\ merged /\ ~foreign /\ pc' = "merge" /\ chunks' = Chunks /\ at' = <<1, 0>>
           /\ UNCHANGED <<kind, top, heap, answer, seg, data, written, span>>
  <2>1. RequestInv' /\ AnswerInv'
    <3>1. RequestInv'
      BY <1>1, <1>4 DEF RequestInv
    <3> QED BY <1>4, <3>1, AnswerStays
  <2>2. Token' = Token
    BY <1>4 DEF Token
  <2>3. Token # None => answer.merged
    <3>1. merged \in BOOLEAN
      BY DEF Merges
    <3>2. Token # None => Token[1] # "offset"
      BY <1>4, <3>1
    <3>3. \/ Token = None
          \/ Token = answer.next /\ answer.next # None
          \/ Token = answer.prev /\ answer.prev # None
      BY DEF Token
    <3> QED BY <3>2, <3>3 DEF AnswerInv
  <2> PICK listed : listed = Chunks
    OBVIOUS
  <2>4. /\ listed \in Seq(Segments) /\ Len(listed) \in Nat
        /\ \A i, j \in 1..Len(listed) : listed[i] = listed[j] => i = j
        /\ \A s \in DOMAIN seg : \E i \in 1..Len(listed) : listed[i] = s
    BY ChunksListed
  <2>5. chunks' = listed /\ heap' = {} /\ at'[1] = 1
    BY <1>1, <1>4
  <2>6. ASSUME NEW p \in Positions', Remains(p, top)' PROVE ListedBefore(p, Len(chunks) + 1)'
    <3>1. SegmentOf(p) \in DOMAIN seg
      BY <1>4, <2>6 DEF Remains, Stored, SegmentOf
    <3>2. PICK i \in 1..Len(listed) : listed[i] = SegmentOf(p)
      BY <2>4, <3>1
    <3>3. i < Len(listed) + 1
      BY <2>4
    <3> QED BY <2>5, <3>2, <3>3 DEF ListedBefore, SegmentOf
  <2>7. \A p : ~ListedBefore(p, at[1])'
    BY <2>5 DEF ListedBefore
  <2>8. IsFiniteSet(heap') /\ Cardinality(heap') <= PageSize
    BY <2>5, FS_EmptySet, PagesAssumption
  <2>9. at'[1] \in 1..Len(chunks') + 1
    BY <2>4, <2>5
  <2>10. MergeInv'
    BY <1>4, <2>2, <2>3, <2>4, <2>5, <2>6, <2>7, <2>8, <2>9 DEF MergeInv
  <2> QED BY <2>1, <2>10
<1>5. UNCHANGED <<seg, data, written, span>>
  BY DEF storeVars, readVars
<1> QED BY <1>2, <1>3, <1>4, <1>5 DEF Dispatch

\* A merge reads a file: what it drops is further away than all it keeps.
LEMMA MergeFileKeeps ==
    ASSUME StoreInv, LinesInv, AnswerInv, RequestInv, MergeInv, UNCHANGED <<storeVars, readVars>>,
           MergeFile
    PROVE  AnswerInv' /\ RequestInv' /\ MergeInv'
<1> PICK c : c = at[1]
  OBVIOUS
<1> PICK here : here = chunks[c]
  OBVIOUS
<1> PICK all : all = IF here \in DOMAIN seg THEN Content(here) ELSE <<>>
  OBVIOUS
<1> PICK J : J = {j \in DOMAIN all : Eligible(all[j])}
  OBVIOUS
<1> PICK new : new = {<<all[i].ts, c, i, all[i].id>> : i \in J}
  OBVIOUS
<1> PICK S : S = heap \cup new
  OBVIOUS
<1>1. /\ pc = "merge" /\ c <= Len(chunks) /\ heap' = Kept(S) /\ at' = <<c + 1, 0>>
      /\ UNCHANGED <<pc, kind, top, chunks, answer, seg, data, written, span>>
  <2>1. pc = "merge" /\ c <= Len(chunks) /\ UNCHANGED <<pc, kind, top, chunks, answer>>
    BY SMTT(30) DEF MergeFile
  <2>2. at' = <<c + 1, 0>>
    BY SMTT(30) DEF MergeFile
  <2>3. heap' = Kept(S)
    BY DEF MergeFile
  <2>4. UNCHANGED <<seg, data, written, span>>
    BY DEF storeVars, readVars
  <2> QED BY <2>1, <2>2, <2>3, <2>4, SMTT(30)
<1>2. /\ Len(chunks) \in Nat /\ c \in Nat /\ c >= 1 /\ c \in 1..Len(chunks)
      /\ chunks \in Seq(Segments) /\ here \in Segments
      /\ at'[1] = c + 1 /\ c + 1 \in 1..Len(chunks) + 1
  <2>1. chunks \in Seq(Segments) /\ c \in 1..Len(chunks) + 1
    BY DEF MergeInv
  <2>2. Len(chunks) \in Nat
    BY <2>1
  <2>3. c \in Nat /\ c >= 1 /\ c \in 1..Len(chunks)
    BY <1>1, <2>1, <2>2
  <2>4. here \in Segments
    BY <2>1, <2>3, ElementOfSeq
  <2> QED BY <1>1, <2>1, <2>2, <2>3, <2>4
<1>3. /\ DOMAIN all = 1..Len(all) /\ Len(all) \in Nat
      /\ \A i \in DOMAIN all : all[i] \in [id : Nat, ts : Times]
      /\ here \in DOMAIN seg =>
            <<here, seg[here]>> \in DOMAIN data /\ all = data[<<here, seg[here]>>]
  <2>1. CASE here \in DOMAIN seg
    <3>1. <<here, seg[here]>> \in DOMAIN data /\ all = data[<<here, seg[here]>>]
      BY <2>1 DEF Content, StoreInv
    <3> PICK f \in DOMAIN data : f = <<here, seg[here]>>
      BY <3>1
    <3>2. IsSequence(data[f]) /\ \A k \in DOMAIN data[f] : data[f][k] \in [id : Nat, ts : Times]
      BY DEF StoreInv, LinesInv
    <3>3. all = data[f]
      BY <3>1
    <3>4. Len(all) \in Nat /\ DOMAIN all = 1..Len(all)
      BY <3>2, <3>3, LengthOf
    <3> QED BY <3>1, <3>2, <3>3, <3>4
  <2>2. CASE here \notin DOMAIN seg
    <3>1. all = <<>>
      BY <2>2
    <3>2. Len(all) = 0 /\ DOMAIN all = 1..0
      BY <3>1
    <3>3. \A i \in 1..0 : FALSE
      OBVIOUS
    <3> QED BY <2>2, <3>2, <3>3
  <2> QED BY <2>1, <2>2
<1>4. /\ heap \in SUBSET (Times \X Nat \X Nat \X Nat) /\ IsFiniteSet(heap)
      /\ Cardinality(heap) \in Nat /\ Cardinality(heap) <= PageSize
  <2>1. IsFiniteSet(heap)
    BY DEF MergeInv
  <2> QED BY <2>1, FS_CardinalityType DEF MergeInv
<1>5. ASSUME NEW i \in J
      PROVE  LET e == <<all[i].ts, c, i, all[i].id>>
             IN  /\ e \in Times \X Nat \X Nat \X Nat /\ e[1] = all[i].ts /\ e[2] = c /\ e[3] = i
                 /\ Line(e) = all[i] /\ i \in DOMAIN all /\ Eligible(all[i]) /\ here \in DOMAIN seg
  <2>1. i \in DOMAIN all /\ Eligible(all[i]) /\ i \in Nat
    BY <1>3
  <2>2. all[i] \in [id : Nat, ts : Times]
    BY <1>3, <2>1
  <2>3. all[i].ts \in Times /\ all[i].id \in Nat /\ all[i] = [id |-> all[i].id, ts |-> all[i].ts]
    BY <2>2
  <2>4. Line(<<all[i].ts, c, i, all[i].id>>) = all[i]
    BY <2>3 DEF Line
  <2>5. here \in DOMAIN seg
    <3>1. here \notin DOMAIN seg => all = <<>>
      OBVIOUS
    <3>2. all = <<>> => DOMAIN all = {}
      OBVIOUS
    <3> QED BY <2>1, <3>1, <3>2
  <2> QED BY <1>2, <2>1, <2>3, <2>4, <2>5
<1>6. IsFiniteSet(new)
  <2>1. IsFiniteSet(1..Len(all))
    <3>1. 1 \in Int /\ Len(all) \in Int
      BY <1>3
    <3> QED BY <3>1, FS_Interval
  <2>2. J \in SUBSET (1..Len(all))
    BY <1>3
  <2>3. IsFiniteSet(J)
    BY <2>1, <2>2, FS_Subset
  <2> DEFINE g == [i \in J |-> <<all[i].ts, c, i, all[i].id>>]
  <2>4. g \in [J -> new] /\ \A t \in new : \E i \in J : g[i] = t
    OBVIOUS
  <2> HIDE DEF g
  <2>5. g \in Surjection(J, new)
    BY <2>4, SMTT(30) DEF Surjection
  <2> QED BY <2>3, <2>5, FS_Surjection
<1>7. /\ S \in SUBSET (Times \X Nat \X Nat \X Nat) /\ S \in SUBSET Fours /\ IsFiniteSet(S)
      /\ Cardinality(S) \in Nat /\ heap \in SUBSET S /\ \A e \in S : e[1] \in Int
  <2>1. \A e \in new : e \in Times \X Nat \X Nat \X Nat
    BY <1>5
  <2>2. S \in SUBSET (Times \X Nat \X Nat \X Nat)
    BY <1>4, <2>1
  <2>3. ASSUME NEW y \in S PROVE y \in Fours /\ y[1] \in Int
    <3>1. y \in Times \X Nat \X Nat \X Nat
      BY <2>2
    <3> QED BY <3>1, EntryIs, Zenon
  <2>4. IsFiniteSet(heap \cup new)
    BY <1>4, <1>6, FS_Union
  <2> QED BY <2>2, <2>3, <2>4, FS_CardinalityType
<1> PICK K : K = Kept(S)
  BY ZenonT(40)
<1>8. /\ K \in SUBSET S /\ IsFiniteSet(K) /\ Cardinality(K) \in Nat /\ Cardinality(K) <= PageSize
      /\ \A x \in S \ K :
            /\ Cardinality(K) = PageSize
            /\ \A y \in K : IF Reversed THEN x[1] <= y[1] ELSE y[1] <= x[1]
  <2>1. S \in SUBSET Fours /\ IsFiniteSet(S)
    BY <1>7, ZenonT(40)
  <2>2. /\ Kept(S) \in SUBSET S /\ IsFiniteSet(Kept(S))
        /\ Cardinality(Kept(S)) \in Nat /\ Cardinality(Kept(S)) <= PageSize
        /\ \A x \in S \ Kept(S) :
              /\ Cardinality(Kept(S)) = PageSize
              /\ \A y \in Kept(S) : IF Reversed THEN x[1] <= y[1] ELSE y[1] <= x[1]
    BY <2>1, KeptFirst, Zenon
  <2>3. Kept(S) = K
    OBVIOUS
  <2> QED BY <2>2, <2>3, Zenon
<1>9. /\ Positions' = Positions /\ \A p : At(p)' = At(p) /\ (Remains(p, top)' <=> Remains(p, top))
      /\ Token' = Token /\ (Reversed' <=> Reversed) /\ \A x : Eligible(x)' <=> Eligible(x)
      /\ \A p, n : ListedBefore(p, n)' <=> ListedBefore(p, n)
      /\ \A e : Entry(e)' <=> Entry(e)
  <2>1. Positions' = Positions /\ \A p : At(p)' = At(p)
    BY <1>1 DEF Positions, At
  <2>2. \A p : Remains(p, top)' <=> Remains(p, top)
    BY <1>1, <2>1 DEF Remains, Stored, Matches
  <2>3. Token' = Token
    BY <1>1 DEF Token
  <2>4. (Reversed' <=> Reversed) /\ \A x : Eligible(x)' <=> Eligible(x)
    BY <1>1, <2>3, ZenonT(40) DEF Reversed, Eligible, Matches
  <2>5. \A p, n : ListedBefore(p, n)' <=> ListedBefore(p, n)
    BY <1>1 DEF ListedBefore, SegmentOf
  <2>6. \A e : Entry(e)' <=> Entry(e)
    BY <1>1 DEF Entry, Line
  <2> QED BY <2>1, <2>2, <2>3, <2>4, <2>5, <2>6
<1>10. RequestInv'
  BY <1>1 DEF RequestInv
<1>11. ASSUME NEW e \in K
       PROVE  e[2] \in 1..Len(chunks) /\ e[2] < c + 1 /\ Entry(e) /\ Eligible(Line(e))
  <2>1. CASE e \in heap
    <3>1. e[2] \in 1..Len(chunks) /\ e[2] < c /\ Entry(e) /\ Eligible(Line(e))
      BY <2>1 DEF MergeInv
    <3>2. e[2] \in Nat /\ c \in Nat
      <4>1. e[2] \in 1..Len(chunks) /\ Len(chunks) \in Nat /\ c \in Nat
        BY <1>2, <3>1, Zenon
      <4> QED BY <4>1
    <3>3. e[2] < c + 1
      BY <3>1, <3>2
    <3> QED BY <3>1, <3>3
  <2>2. CASE e \in new
    <3>1. PICK i \in J : e = <<all[i].ts, c, i, all[i].id>>
      BY <2>2
    <3>2. /\ e[2] = c /\ e[3] = i /\ Line(e) = all[i] /\ i \in DOMAIN all /\ Eligible(all[i])
          /\ here \in DOMAIN seg
      BY <1>5, <3>1, ZenonT(40)
    <3> PICK f : f = <<here, seg[here]>>
      OBVIOUS
    <3>3. f \in DOMAIN data /\ f[1] = chunks[e[2]] /\ data[f] = all
      BY <1>3, <3>2
    <3>4. Entry(e)
      BY <3>2, <3>3, SMTT(30) DEF Entry
    <3> QED BY <1>2, <3>2, <3>4
  <2> QED BY <1>8, <2>1, <2>2, ZenonT(40)
<1>12. ASSUME NEW p \in Positions, Remains(p, top), Eligible(At(p)), ListedBefore(p, c + 1),
              \A e \in K : Line(e) # At(p)
       PROVE  /\ Cardinality(K) = PageSize
              /\ \A e \in K : IF Reversed THEN At(p).ts <= e[1] ELSE At(p).ts >= e[1]
  <2>1. ASSUME NEW x \in S, Line(x) = At(p)
        PROVE  /\ Cardinality(K) = PageSize
               /\ \A e \in K : IF Reversed THEN At(p).ts <= e[1] ELSE At(p).ts >= e[1]
    <3>1. x \in S \ K
      BY <1>12, <2>1, SMTT(30)
    <3>2. At(p).ts = x[1] /\ x[1] \in Int /\ \A e \in K : e[1] \in Int
      <4>1. Line(x).ts = x[1]
        BY DEF Line
      <4>2. \A e \in S : e[1] \in Int
        BY <1>7, ZenonT(40)
      <4>3. x[1] \in Int /\ \A e \in K : e[1] \in Int
        BY <1>8, <4>2, ZenonT(40)
      <4> QED BY <2>1, <4>1, <4>3, SMTT(30)
    <3>3. ASSUME NEW e \in K PROVE IF Reversed THEN At(p).ts <= e[1] ELSE At(p).ts >= e[1]
      <4>1. IF Reversed THEN x[1] <= e[1] ELSE e[1] <= x[1]
        BY <1>8, <3>1, ZenonT(40)
      <4>2. x[1] \in Int /\ e[1] \in Int
        BY <3>2
      <4> QED BY <3>2, <4>1, <4>2, ZenonT(40)
    <3> QED BY <1>8, <3>1, <3>3, ZenonT(40)
  <2>2. PICK k \in 1..Len(chunks) : k < c + 1 /\ chunks[k] = SegmentOf(p)
    BY <1>12 DEF ListedBefore
  <2>3. CASE k = c
    <3>1. here \in DOMAIN seg /\ seg[here] = p[3] /\ here = SegmentOf(p)
      BY <1>12, <2>2, <2>3 DEF Remains, Stored, SegmentOf
    <3>2. p[4] \in DOMAIN all /\ At(p) = all[p[4]]
      <4>1. /\ p[4] \in DOMAIN data[<<SegmentOf(p), p[3]>>]
            /\ At(p) = data[<<SegmentOf(p), p[3]>>][p[4]]
        BY PlaceHas, SMTT(30)
      <4> QED BY <1>3, <3>1, <4>1
    <3> PICK i \in J : i = p[4]
      BY <1>12, <3>2
    <3> PICK x : x = <<all[i].ts, c, i, all[i].id>>
      OBVIOUS
    <3>3. x \in S /\ Line(x) = At(p)
      BY <1>5, <3>2, ZenonT(40)
    <3> QED BY <2>1, <3>3, ZenonT(40)
  <2>4. CASE k # c
    <3>1. ListedBefore(p, c)
      <4>1. k < c
        BY <1>2, <2>2, <2>4
      <4> QED BY <2>2, <4>1 DEF ListedBefore
    <3>2. (\E e \in heap : Line(e) = At(p)) \/ Outdone(p)
      BY <1>12, <3>1, SMTT(30) DEF MergeInv
    <3>3. CASE \E e \in heap : Line(e) = At(p)
      BY <1>7, <2>1, <3>3, ZenonT(40)
    <3>4. CASE Outdone(p)
      <4>1. /\ Cardinality(heap) = PageSize
            /\ \A e \in heap : IF Reversed THEN At(p).ts <= e[1] ELSE At(p).ts >= e[1]
        BY <3>4 DEF Outdone
      <4>2. At(p).ts \in Int /\ \A e \in S : e[1] \in Int
        <5>1. At(p) \in [id : Nat, ts : Times]
          BY PlaceHas
        <5>2. At(p).ts \in Times
          BY <5>1
        <5>3. \A e \in S : e[1] \in Int
          BY <1>7, ZenonT(40)
        <5> QED BY <5>2, <5>3, TimesInt
      <4>3. CASE heap \subseteq K
        <5>1. PageSize \in Nat
          BY PagesAssumption
        <5>2. IsFiniteSet(K) /\ heap \in SUBSET K /\ Cardinality(K) <= PageSize
          BY <1>8, <4>3, ZenonT(40)
        <5>3. Cardinality(heap) = PageSize
          BY <4>1, SMTT(30)
        <5>4. heap = K
          BY <5>1, <5>2, <5>3, AsLarge, ZenonT(40)
        <5> QED BY <4>1, <5>4, ZenonT(40)
      <4>4. CASE ~(heap \subseteq K)
        <5>1. PICK h \in heap : h \notin K
          BY <4>4, ZenonT(40)
        <5>2. h \in S \ K
          BY <1>7, <5>1, ZenonT(40)
        <5>3. /\ Cardinality(K) = PageSize
              /\ \A y \in K : IF Reversed THEN h[1] <= y[1] ELSE y[1] <= h[1]
          BY <1>8, <5>2, ZenonT(40)
        <5>4. IF Reversed THEN At(p).ts <= h[1] ELSE At(p).ts >= h[1]
          BY <4>1
        <5>5. ASSUME NEW y \in K PROVE IF Reversed THEN At(p).ts <= y[1] ELSE At(p).ts >= y[1]
          <6>1. y[1] \in Int /\ h[1] \in Int
            BY <1>8, <4>2, <5>2, ZenonT(40)
          <6>2. IF Reversed THEN h[1] <= y[1] ELSE y[1] <= h[1]
            BY <5>3
          <6>3. CASE Reversed
            <7>1. At(p).ts <= h[1] /\ h[1] <= y[1]
              BY <5>4, <6>2, <6>3
            <7>2. At(p).ts \in Int
              BY <4>2
            <7>3. At(p).ts <= y[1]
              BY <6>1, <7>1, <7>2, InARow, Zenon
            <7> QED BY <6>3, <7>3
          <6>4. CASE ~Reversed
            <7>1. At(p).ts >= h[1] /\ y[1] <= h[1]
              BY <5>4, <6>2, <6>4
            <7>2. At(p).ts \in Int
              BY <4>2
            <7>3. y[1] <= At(p).ts
              BY <6>1, <7>1, <7>2, InARow, Zenon
            <7> QED BY <6>4, <7>3
          <6> QED BY <6>3, <6>4, SMTT(30)
        <5> QED BY <5>3, <5>5
      <4> QED BY <4>3, <4>4
    <3> QED BY <3>2, <3>3, <3>4
  <2> QED BY <2>3, <2>4, SMTT(30)
<1>13. MergeInv'
  <2>1. /\ Token' # None => answer'.merged
        /\ chunks' \in Seq(Segments)
        /\ \A i, j \in 1..Len(chunks') : chunks'[i] = chunks'[j] => i = j
    BY <1>1, <1>9 DEF MergeInv
  <2>2. (\A p \in Positions : Remains(p, top) => ListedBefore(p, Len(chunks) + 1))'
    <3>1. \A p \in Positions : Remains(p, top) => ListedBefore(p, Len(chunks) + 1)
      BY DEF MergeInv
    <3>2. \A p : ListedBefore(p, Len(chunks) + 1)' <=> ListedBefore(p, Len(chunks) + 1)
      BY <1>1 DEF ListedBefore, SegmentOf
    <3> QED BY <1>9, <3>1, <3>2
  <2>3. at'[1] \in 1..Len(chunks') + 1
    BY <1>1, <1>2
  <2>4. /\ heap' = K /\ heap' \in SUBSET (Times \X Nat \X Nat \X Nat) /\ IsFiniteSet(heap')
        /\ Cardinality(heap') <= PageSize
    BY <1>1, <1>7, <1>8, ZenonT(40)
  <2>5. (\A e \in heap : e[2] \in 1..Len(chunks) /\ e[2] < at[1] /\ Entry(e) /\ Eligible(Line(e)))'
    <3> SUFFICES ASSUME NEW e \in heap'
                 PROVE  (e[2] \in 1..Len(chunks) /\ e[2] < at[1] /\ Entry(e) /\ Eligible(Line(e)))'
      OBVIOUS
    <3>1. e[2] \in 1..Len(chunks) /\ e[2] < c + 1 /\ Entry(e) /\ Eligible(Line(e))
      BY <1>11, <2>4, ZenonT(40)
    <3>2. Line(e)' = Line(e)
      BY DEF Line
    <3>3. Eligible(Line(e))'
      BY <1>9, <3>1, <3>2
    <3> QED BY <1>1, <1>2, <1>9, <3>1, <3>3
  <2>6. (\A p \in Positions :
            Remains(p, top) /\ Eligible(At(p)) /\ ListedBefore(p, at[1]) =>
                (\E e \in heap : Line(e) = At(p)) \/ Outdone(p))'
    <3> SUFFICES ASSUME NEW p \in Positions', Remains(p, top)', Eligible(At(p))',
                        ListedBefore(p, at[1])', \A e \in heap' : Line(e)' # At(p)'
                 PROVE  Outdone(p)'
      OBVIOUS
    <3>1. p \in Positions /\ Remains(p, top) /\ At(p)' = At(p)
      BY <1>9
    <3>2. Eligible(At(p))
      <4> PICK x : x = At(p)
        OBVIOUS
      <4>1. At(p)' = x /\ Token' = Token
        BY <1>9, SMTT(30)
      <4>2. Eligible(x)'
        BY <4>1, SMTT(30) DEF Eligible, Matches
      <4> QED BY <1>9, <4>2
    <3>3. ListedBefore(p, c + 1)
      BY <1>1, <1>2, SMTT(30) DEF ListedBefore, SegmentOf
    <3>4. \A e \in K : Line(e) # At(p)
      BY <2>4, <3>1, ZenonT(40) DEF Line
    <3>5. /\ Cardinality(K) = PageSize
          /\ \A e \in K : IF Reversed THEN At(p).ts <= e[1] ELSE At(p).ts >= e[1]
      BY <1>12, <3>1, <3>2, <3>3, <3>4, SMTT(30)
    <3> QED BY <1>9, <2>4, <3>1, <3>5, ZenonT(40) DEF Outdone
  <2> QED BY <2>1, <2>2, <2>3, <2>4, <2>5, <2>6, ZenonT(40) DEF MergeInv
<1>14. AnswerInv'
  BY <1>1, AnswerStays
<1> QED BY <1>10, <1>13, <1>14

\* A function from the first numbers is a sequence.
LEMMA FunctionSequence ==
    ASSUME NEW T, NEW m \in Nat, NEW s \in [1..m -> T]
    PROVE  s \in Seq(T) /\ Len(s) = m
<1>1. s \in Seq(T)
  BY SeqDef
<1>2. DOMAIN s = 1..Len(s) /\ Len(s) \in Nat
  BY <1>1, LenProperties
<1> QED BY <1>1, <1>2

\* The page of a merge lists what the heap has, in time order.
PageOf(S) == [i \in DOMAIN InOrder(S) |-> [id |-> InOrder(S)[i][4], ts |-> InOrder(S)[i][1]]]

\* The page of a heap is its lines, each once, in the order of time.
LEMMA PageListed ==
    ASSUME StoreInv, LinesInv, MergeInv
    PROVE  \E page : /\ page = PageOf(heap)
                     /\ page \in Seq([id : Nat, ts : Times]) /\ DOMAIN page = 1..Len(page)
                     /\ Len(page) \in Nat /\ Len(page) = Cardinality(heap)
                     /\ \A i \in 1..Len(page) : \E e \in heap : page[i] = Line(e)
                     /\ \A e \in heap : \E i \in 1..Len(page) : page[i] = Line(e)
                     /\ \A i, j \in 1..Len(page) : i < j => page[i].ts <= page[j].ts /\ page[i] # page[j]
<1> PICK page : page = PageOf(heap)
  OBVIOUS
<1>1. heap \in SUBSET (Times \X Nat \X Nat \X Nat) /\ IsFiniteSet(heap)
  BY DEF MergeInv
<1>2. ASSUME NEW e \in heap
      PROVE  /\ e[1] \in Times /\ e[1] \in Int /\ e[2] \in Nat /\ e[3] \in Nat /\ e[4] \in Nat
             /\ e = <<e[1], e[2], e[3], e[4]>> /\ e \in Fours
             /\ Line(e) \in [id : Nat, ts : Times] /\ Line(e).ts = e[1] /\ Line(e).id = e[4]
  <2>1. e \in Times \X Nat \X Nat \X Nat
    BY <1>1
  <2>2. /\ e[1] \in Times /\ e[1] \in Int /\ e[2] \in Nat /\ e[3] \in Nat /\ e[4] \in Nat
        /\ e = <<e[1], e[2], e[3], e[4]>> /\ e \in Fours
    BY <2>1, EntryIs, Zenon
  <2>3. Line(e) \in [id : Nat, ts : Times] /\ Line(e).ts = e[1] /\ Line(e).id = e[4]
    BY <2>2 DEF Line
  <2> QED BY <2>2, <2>3
<1>3. Ordered(heap)
  <2>1. heap \in SUBSET Fours
    BY <1>2
  <2> QED BY <2>1, FoursOrdered DEF Ordered
<1> PICK n : n = Cardinality(heap)
  OBVIOUS
<1> PICK sorted : sorted = InOrder(heap)
  OBVIOUS
<1>4. /\ n \in Nat /\ sorted \in [1..n -> heap]
      /\ \A i, j \in 1..n : i < j => Below(sorted[i], sorted[j])
      /\ \A e \in heap : \E i \in 1..n : sorted[i] = e
  BY <1>1, <1>3, InOrderLists
<1>5. /\ DOMAIN page = 1..n
      /\ \A i \in 1..n : sorted[i] \in heap /\ page[i] = Line(sorted[i])
      /\ page \in [1..n -> [id : Nat, ts : Times]]
  <2>1. page = [i \in 1..n |-> [id |-> sorted[i][4], ts |-> sorted[i][1]]]
    BY <1>4 DEF PageOf
  <2>2. \A i \in 1..n : sorted[i] \in heap
    BY <1>4
  <2>3. \A i \in 1..n : page[i] = Line(sorted[i])
    BY <2>1 DEF Line
  <2>4. \A i \in 1..n : page[i] \in [id : Nat, ts : Times]
    BY <1>2, <2>2, <2>3
  <2> QED BY <2>1, <2>2, <2>3, <2>4
<1>6. page \in Seq([id : Nat, ts : Times]) /\ Len(page) = n
  <2>1. page \in [1..n -> [id : Nat, ts : Times]] /\ n \in Nat
    BY <1>4, <1>5
  <2> QED BY <2>1, FunctionSequence, Zenon
<1>8. ASSUME NEW e \in heap, NEW f \in heap, Line(e) = Line(f) PROVE e = f
  <2>1. PICK g \in DOMAIN data : g[1] = chunks[e[2]] /\ e[3] \in DOMAIN data[g]
                                  /\ data[g][e[3]] = Line(e)
    BY DEF MergeInv, Entry
  <2>2. PICK h \in DOMAIN data : h[1] = chunks[f[2]] /\ f[3] \in DOMAIN data[h]
                                  /\ data[h][f[3]] = Line(f)
    BY DEF MergeInv, Entry
  <2>3. data[g][e[3]].id = data[h][f[3]].id
    BY <1>8, <2>1, <2>2
  <2>4. g = h /\ e[3] = f[3]
    BY <2>1, <2>2, <2>3 DEF LinesInv
  <2>5. e[2] \in 1..Len(chunks) /\ f[2] \in 1..Len(chunks) /\ chunks[e[2]] = chunks[f[2]]
    BY <2>1, <2>2, <2>4 DEF MergeInv
  <2>6. e[2] = f[2]
    BY <2>5 DEF MergeInv
  <2>7. e[1] = f[1] /\ e[4] = f[4]
    BY <1>2, <1>8
  <2> QED BY <1>2, <2>4, <2>6, <2>7
<1>9. ASSUME NEW i \in 1..n, NEW j \in 1..n, i < j
      PROVE  page[i].ts <= page[j].ts /\ page[i] # page[j]
  <2>1. Below(sorted[i], sorted[j])
    BY <1>4, <1>9
  <2> PICK e \in heap : e = sorted[i]
    BY <1>5
  <2> PICK f \in heap : f = sorted[j]
    BY <1>5
  <2>2. e \in Fours /\ f \in Fours /\ e[1] \in Int /\ f[1] \in Int /\ Below(e, f)
    BY <1>2, <2>1
  <2>3. e[1] <= f[1]
    BY <2>2, BelowFours
  <2>4. e # f
    BY <2>2, FoursOrdered DEF Ordered
  <2>5. page[i] = Line(e) /\ page[j] = Line(f)
    BY <1>5
  <2> QED BY <1>2, <1>8, <2>3, <2>4, <2>5
<1>10. ASSUME NEW e \in heap PROVE \E i \in 1..n : page[i] = Line(e)
  <2>1. PICK i \in 1..n : sorted[i] = e
    BY <1>4
  <2>2. page[i] = Line(sorted[i])
    BY <1>5
  <2> QED BY <2>1, <2>2
<1>11. /\ page \in Seq([id : Nat, ts : Times]) /\ DOMAIN page = 1..Len(page)
       /\ Len(page) \in Nat /\ Len(page) = Cardinality(heap)
       /\ \A i \in 1..Len(page) : \E e \in heap : page[i] = Line(e)
       /\ \A e \in heap : \E i \in 1..Len(page) : page[i] = Line(e)
       /\ \A i, j \in 1..Len(page) : i < j => page[i].ts <= page[j].ts /\ page[i] # page[j]
  BY <1>4, <1>5, <1>6, <1>9, <1>10
<1> WITNESS page
<1> QED BY <1>11

\* A merge starts at the time that the token names: that of the last line before, or
\* the first.
LEMMA TokenTimes ==
    ASSUME AnswerInv, RequestInv, MergeInv, pc = "merge"
    PROVE  /\ kind = "next" =>
                 /\ Token # None /\ Token[1] = "after" /\ Token[1] # "before"
                 /\ Final(answer.lines) = {answer.lines[Len(answer.lines)]}
                 /\ Token[2] = answer.lines[Len(answer.lines)].ts
           /\ kind = "prev" =>
                 /\ Token # None /\ Token[1] = "before"
                 /\ First(answer.lines) = {answer.lines[1]}
                 /\ Token[2] = answer.lines[1].ts
           /\ kind \notin {"next", "prev"} => Token = None
           /\ Reversed <=> kind \in {"last", "prev"}
<1>1. /\ kind \in {"first", "last", "next", "prev"}
      /\ kind = "next" => answer.next # None
      /\ kind = "prev" => answer.prev # None
  BY DEF RequestInv
<1>2. ASSUME kind = "next"
      PROVE  /\ Token # None /\ Token[1] = "after" /\ Token[1] # "before"
             /\ Final(answer.lines) = {answer.lines[Len(answer.lines)]}
             /\ Token[2] = answer.lines[Len(answer.lines)].ts
  <2>1. Token = answer.next /\ Token # None
    BY <1>1, <1>2 DEF Token
  <2>2. answer.merged
    BY <2>1 DEF MergeInv
  <2>3. answer.lines # <<>> /\ Token = ForwardToken(answer.lines[Len(answer.lines)].ts)
    BY <1>1, <1>2, <2>1, <2>2 DEF AnswerInv
  <2>4. answer.lines \in Seq([id : Nat, ts : Times])
    BY <2>2 DEF AnswerInv
  <2>5. Final(answer.lines) = {answer.lines[Len(answer.lines)]}
    <3>1. DOMAIN answer.lines = 1..Len(answer.lines) /\ Len(answer.lines) \in Nat
      BY <2>4, LenProperties
    <3>2. Len(answer.lines) \in DOMAIN answer.lines
      BY <2>3, <2>4, <3>1
    <3>3. {Len(answer.lines)} \cap DOMAIN answer.lines = {Len(answer.lines)}
      BY <3>2
    <3> QED BY <3>3 DEF Final
  <2> QED BY <2>1, <2>3, <2>5 DEF ForwardToken
<1>3. ASSUME kind = "prev"
      PROVE  /\ Token # None /\ Token[1] = "before"
             /\ First(answer.lines) = {answer.lines[1]}
             /\ Token[2] = answer.lines[1].ts
  <2>1. Token = answer.prev /\ Token # None
    BY <1>1, <1>3 DEF Token
  <2>2. answer.merged
    BY <2>1 DEF MergeInv
  <2>3. answer.lines # <<>> /\ Token = BackwardToken(answer.lines[1].ts)
    BY <1>1, <1>3, <2>1, <2>2 DEF AnswerInv
  <2>4. answer.lines \in Seq([id : Nat, ts : Times])
    BY <2>2 DEF AnswerInv
  <2>5. First(answer.lines) = {answer.lines[1]}
    <3>1. DOMAIN answer.lines = 1..Len(answer.lines) /\ Len(answer.lines) \in Nat
      BY <2>4, LenProperties
    <3>2. 1 \in DOMAIN answer.lines
      BY <2>3, <2>4, <3>1
    <3>3. {1} \cap DOMAIN answer.lines = {1}
      BY <3>2
    <3> QED BY <3>3 DEF First
  <2> QED BY <2>1, <2>3, <2>5 DEF BackwardToken
<1>4. kind \notin {"next", "prev"} => Token = None
  BY DEF Token
<1>5. Reversed <=> kind \in {"last", "prev"}
  BY <1>1, <1>2, <1>3, <1>4 DEF Reversed
<1> QED BY <1>2, <1>3, <1>4, <1>5

\* A merge answers: what is not on its page is not in its heap, and so further away.
LEMMA MergeAnswerKeeps ==
    ASSUME StoreInv, LinesInv, AnswerInv, RequestInv, MergeInv, UNCHANGED <<storeVars, readVars>>,
           MergeAnswer
    PROVE  AnswerInv' /\ RequestInv' /\ pc' = "idle"
<1> PICK page : /\ page = PageOf(heap)
                /\ page \in Seq([id : Nat, ts : Times]) /\ DOMAIN page = 1..Len(page)
                /\ Len(page) \in Nat /\ Len(page) = Cardinality(heap)
                /\ \A i \in 1..Len(page) : \E e \in heap : page[i] = Line(e)
                /\ \A e \in heap : \E i \in 1..Len(page) : page[i] = Line(e)
                /\ \A i, j \in 1..Len(page) : i < j => page[i].ts <= page[j].ts /\ page[i] # page[j]
  BY PageListed, Zenon
<1> PICK n : n = Len(page)
  OBVIOUS
<1>1. /\ page \in Seq([id : Nat, ts : Times]) /\ DOMAIN page = 1..n
      /\ n \in Nat /\ n = Cardinality(heap)
      /\ \A i \in 1..n : \E e \in heap : page[i] = Line(e)
      /\ \A e \in heap : \E i \in 1..n : page[i] = Line(e)
      /\ \A i, j \in 1..n : i < j => page[i].ts <= page[j].ts /\ page[i] # page[j]
  BY Zenon
<1>2. /\ pc = "merge" /\ at[1] > Len(chunks)
      /\ \E next, prev :
            /\ Answer(TRUE, page, next, prev)
            /\ next # None => page # <<>> /\ next = ForwardToken(page[n].ts)
            /\ prev # None => page # <<>> /\ prev = BackwardToken(page[1].ts)
  <2> DEFINE more(s) == matching > Len(s)
             newer(s) == IF Reversed THEN Token # None ELSE more(s)
             older(s) == IF Reversed THEN more(s) ELSE Token # None
             next(s) == IF newer(s) /\ s # <<>> THEN ForwardToken(s[Len(s)].ts) ELSE None
             prev(s) == IF older(s) /\ s # <<>> THEN BackwardToken(s[1].ts) ELSE None
  <2>1. /\ pc = "merge" /\ at[1] > Len(chunks)
        /\ Answer(TRUE, page, next(page), prev(page))
    <3>1. /\ pc = "merge" /\ at[1] > Len(chunks)
          /\ Answer(TRUE, PageOf(heap), next(PageOf(heap)), prev(PageOf(heap)))
      BY Zenon DEF MergeAnswer, PageOf
    <3> HIDE DEF next, prev
    <3> QED BY <3>1
  <2>2. next(page) # None => page # <<>> /\ next(page) = ForwardToken(page[n].ts)
    BY Zenon
  <2>3. prev(page) # None => page # <<>> /\ prev(page) = BackwardToken(page[1].ts)
    BY Zenon
  <2> HIDE DEF next, prev
  <2> QED BY <2>1, <2>2, <2>3
<1>3. /\ answer'.kind = kind /\ answer'.merged = TRUE /\ answer'.lines = page
      /\ answer'.top = top /\ answer'.from = answer.lines
      /\ answer'.next # None => page # <<>> /\ answer'.next = ForwardToken(page[n].ts)
      /\ answer'.prev # None => page # <<>> /\ answer'.prev = BackwardToken(page[1].ts)
      /\ pc' = "idle" /\ heap' = {} /\ UNCHANGED <<seg, data, written, span>>
  <2> PICK next, prev :
         /\ Answer(TRUE, page, next, prev)
         /\ next # None => page # <<>> /\ next = ForwardToken(page[n].ts)
         /\ prev # None => page # <<>> /\ prev = BackwardToken(page[1].ts)
    BY <1>2
  <2> QED BY DEF Answer, Idle, storeVars, readVars
<1>4. /\ top \in Nat /\ top <= written
      /\ kind \in {"first", "last", "next", "prev"}
      /\ kind = "next" => answer.next # None
      /\ kind = "prev" => answer.prev # None
  BY <1>2 DEF RequestInv
<1>5. /\ Positions' = Positions /\ \A p : At(p)' = At(p)
      /\ \A p : Remains(p, answer.top)' <=> Remains(p, top)
  <2>1. Positions' = Positions /\ \A p : At(p)' = At(p)
    BY <1>3 DEF Positions, At
  <2> QED BY <1>3, <2>1 DEF Remains, Stored, Matches
<1>6. /\ kind = "next" =>
            /\ Token # None /\ Token[1] = "after"
            /\ Final(answer.lines) = {answer.lines[Len(answer.lines)]}
            /\ Token[2] = answer.lines[Len(answer.lines)].ts
      /\ kind = "prev" =>
            /\ Token # None /\ Token[1] = "before"
            /\ First(answer.lines) = {answer.lines[1]}
            /\ Token[2] = answer.lines[1].ts
      /\ kind \notin {"next", "prev"} => Token = None
      /\ Reversed <=> kind \in {"last", "prev"}
  BY <1>2, TokenTimes
<1>7. ASSUME NEW line
       PROVE  Eligible(line) <=> Matches(line) /\ AsksFor(line.ts)'
  <2>1. AsksFor(line.ts)' <=>
            /\ kind = "next" => \A x \in Final(answer.lines) : line.ts > x.ts
            /\ kind = "prev" => \A x \in First(answer.lines) : line.ts < x.ts
    <3>1. \A s : Final(s)' = Final(s) /\ First(s)' = First(s)
      OBVIOUS
    <3>2. Final(answer.from)' = Final(answer.lines) /\ First(answer.from)' = First(answer.lines)
      BY <1>3 DEF Final, First
    <3> QED BY <1>3, <3>2 DEF AsksFor
  <2>2. CASE kind = "next"
    BY <1>6, <2>1, <2>2 DEF Eligible
  <2>3. CASE kind = "prev"
    BY <1>6, <2>1, <2>3 DEF Eligible
  <2>4. CASE kind \notin {"next", "prev"}
    BY <1>6, <2>1, <2>4 DEF Eligible
  <2> QED BY <2>2, <2>3, <2>4
<1>8. ASSUME NEW i \in 1..n PROVE AsksFor(page[i].ts)'
  <2>1. PICK e \in heap : page[i] = Line(e)
    BY <1>1
  <2>2. Eligible(Line(e))
    BY DEF MergeInv
  <2> PICK line : line = page[i]
    OBVIOUS
  <2>3. AsksFor(line.ts)'
    BY <1>7, <2>1, <2>2
  <2> QED BY <2>3
<1>9. ASSUME NEW p \in Positions, Remains(p, top), AsksFor(At(p).ts)', At(p) \notin Set(page)
       PROVE  /\ n = PageSize
              /\ \A line \in Set(page) : IF kind \in {"last", "prev"} THEN At(p).ts <= line.ts
                                         ELSE At(p).ts >= line.ts
  <2> PICK line : line = At(p)
    OBVIOUS
  <2>1. Eligible(line)
    <3>1. Matches(line)
      BY <1>9 DEF Remains
    <3>2. AsksFor(line.ts)'
      BY <1>5, <1>9
    <3> QED BY <1>7, <3>1, <3>2
  <2>2. ListedBefore(p, at[1])
    <3>1. ListedBefore(p, Len(chunks) + 1)
      BY <1>9 DEF MergeInv
    <3>2. at[1] = Len(chunks) + 1
      <4>1. at[1] \in 1..Len(chunks) + 1 /\ chunks \in Seq(Segments)
        BY DEF MergeInv
      <4>2. Len(chunks) \in Nat
        BY <4>1
      <4> QED BY <1>2, <4>1, <4>2
    <3> QED BY <3>1, <3>2
  <2>3. (\E e \in heap : Line(e) = At(p)) \/ Outdone(p)
    BY <1>9, <2>1, <2>2 DEF MergeInv
  <2>4. ~\E e \in heap : Line(e) = At(p)
    BY <1>1, <1>9 DEF Set
  <2>5. /\ Cardinality(heap) = PageSize
        /\ \A e \in heap : IF Reversed THEN At(p).ts <= e[1] ELSE At(p).ts >= e[1]
    BY <2>3, <2>4 DEF Outdone
  <2>6. ASSUME NEW x \in Set(page)
        PROVE  IF kind \in {"last", "prev"} THEN At(p).ts <= x.ts ELSE At(p).ts >= x.ts
    <3>1. PICK e \in heap : x = Line(e)
      BY <1>1 DEF Set
    <3>2. x.ts = e[1]
      BY <3>1 DEF Line
    <3> QED BY <1>6, <2>5, <3>2
  <2> QED BY <1>1, <2>5, <2>6
<1>10. PageExact'
  <2>1. DOMAIN answer'.lines = 1..n
    BY <1>1, <1>3
  <2>2. (\A i, j \in DOMAIN answer.lines : i < j =>
            answer.lines[i].ts <= answer.lines[j].ts /\ answer.lines[i] # answer.lines[j])'
    <3>1. \A i, j \in 1..n : i < j =>
             answer'.lines[i].ts <= answer'.lines[j].ts /\ answer'.lines[i] # answer'.lines[j]
      BY <1>1, <1>3
    <3> QED BY <2>1, <3>1, Zenon
  <2>3. (\A i \in DOMAIN answer.lines : AsksFor(answer.lines[i].ts))'
    <3> SUFFICES ASSUME NEW i \in 1..n PROVE AsksFor(answer.lines[i].ts)'
      BY <2>1
    <3>1. AsksFor(page[i].ts)'
      BY <1>8
    <3> QED BY <1>3, <3>1 DEF AsksFor
  <2>4. (\A p \in Positions :
            Remains(p, answer.top) /\ At(p) \notin Set(answer.lines) /\ AsksFor(At(p).ts) =>
                /\ Len(answer.lines) = PageSize
                /\ \A line \in Set(answer.lines) :
                      IF answer.kind \in {"last", "prev"} THEN At(p).ts <= line.ts
                      ELSE At(p).ts >= line.ts)'
    <3> SUFFICES ASSUME NEW p \in Positions, Remains(p, answer.top)',
                        At(p)' \notin Set(answer.lines)', AsksFor(At(p).ts)'
                 PROVE  (/\ Len(answer.lines) = PageSize
                         /\ \A line \in Set(answer.lines) :
                               IF answer.kind \in {"last", "prev"} THEN At(p).ts <= line.ts
                               ELSE At(p).ts >= line.ts)'
      BY <1>5
    <3>1. Set(answer.lines)' = Set(page) /\ At(p)' = At(p)
      BY <1>3, <1>5 DEF Set
    <3>2. Remains(p, top) /\ At(p) \notin Set(page)
      BY <1>5, <3>1
    <3>3. /\ n = PageSize
          /\ \A line \in Set(page) : IF kind \in {"last", "prev"} THEN At(p).ts <= line.ts
                                     ELSE At(p).ts >= line.ts
      BY <1>9, <3>2
    <3> QED BY <1>3, <3>1, <3>3
  <2> QED BY <2>2, <2>3, <2>4 DEF PageExact
<1>11. AnswerInv'
  BY <1>1, <1>3, <1>4, <1>10 DEF AnswerInv
<1>12. RequestInv'
  BY <1>3 DEF RequestInv
<1> QED BY <1>3, <1>11, <1>12

\* The store changes: what was answered, and what the merge has kept, is as it was.
LEMMA PagesRest ==
    ASSUME StoreInv, LinesInv, PagesInv, StoreInv', Grows, UNCHANGED <<request, span, pageVars>>,
           \A x \in DOMAIN seg' \ DOMAIN seg : DOMAIN data'[<<x, seg'[x]>>] = {}
    PROVE  PagesInv'
<1> SUFFICES ASSUME request # "index"
             PROVE  AnswerInv' /\ RequestInv' /\ (pc = "merge" => MergeInv')
  BY DEF PagesInv, pageVars
<1>1. AnswerInv /\ RequestInv /\ (pc = "merge" => MergeInv)
  BY DEF PagesInv
<1>2. /\ UNCHANGED <<span, pc, kind, top, chunks, at, heap, answer>>
      /\ written \in Nat /\ written' \in Nat /\ written <= written'
  BY DEF pageVars, Grows
<1>3. ASSUME NEW n \in Nat, n <= written, NEW p \in Positions', Remains(p, n)'
      PROVE  p \in Positions /\ Remains(p, n) /\ At(p)' = At(p)
  BY <1>2, <1>3, RemainsStay
<1>4. AnswerInv'
  <2>1. answer.top \in Nat /\ answer.top <= written /\ answer.top <= written'
    BY <1>1, <1>2 DEF AnswerInv
  <2>2. ASSUME answer.merged PROVE PageExact'
    <3>1. PageExact
      BY <1>1, <2>2 DEF AnswerInv
    <3>2. \A t : AsksFor(t)' <=> AsksFor(t)
      BY <1>2 DEF AsksFor
    <3>3. (\A i, j \in DOMAIN answer.lines : i < j =>
              answer.lines[i].ts <= answer.lines[j].ts /\ answer.lines[i] # answer.lines[j])'
      BY <1>2, <3>1 DEF PageExact
    <3>4. (\A i \in DOMAIN answer.lines : AsksFor(answer.lines[i].ts))'
      BY <1>2, <3>1 DEF PageExact, AsksFor
    <3>5. (\A p \in Positions :
              Remains(p, answer.top) /\ At(p) \notin Set(answer.lines) /\ AsksFor(At(p).ts) =>
                  /\ Len(answer.lines) = PageSize
                  /\ \A line \in Set(answer.lines) :
                        IF answer.kind \in {"last", "prev"} THEN At(p).ts <= line.ts
                        ELSE At(p).ts >= line.ts)'
      <4> SUFFICES ASSUME NEW p \in Positions', Remains(p, answer.top)',
                          At(p)' \notin Set(answer.lines)', AsksFor(At(p).ts)'
                   PROVE  (/\ Len(answer.lines) = PageSize
                           /\ \A line \in Set(answer.lines) :
                                 IF answer.kind \in {"last", "prev"} THEN At(p).ts <= line.ts
                                 ELSE At(p).ts >= line.ts)'
        OBVIOUS
      <4> PICK n \in Nat : n = answer.top
        BY <2>1
      <4>1. Remains(p, n)'
        BY <1>2 DEF Remains
      <4>2. p \in Positions /\ Remains(p, n) /\ At(p)' = At(p)
        BY <1>3, <2>1, <4>1
      <4>3. At(p) \notin Set(answer.lines) /\ AsksFor(At(p).ts)
        BY <1>2, <4>2 DEF Set, AsksFor
      <4>4. /\ Len(answer.lines) = PageSize
            /\ \A line \in Set(answer.lines) :
                  IF answer.kind \in {"last", "prev"} THEN At(p).ts <= line.ts
                  ELSE At(p).ts >= line.ts
        BY <3>1, <4>2, <4>3 DEF PageExact
      <4>5. Set(answer.lines)' = Set(answer.lines)
        BY <1>2 DEF Set
      <4> QED BY <1>2, <4>2, <4>4, <4>5
    <3> QED BY <3>3, <3>4, <3>5 DEF PageExact
  <2> QED BY <1>1, <1>2, <2>1, <2>2 DEF AnswerInv
<1>5. RequestInv'
  <2>1. ASSUME pc # "idle" PROVE top <= written'
    <3>1. top \in Nat /\ top <= written
      BY <1>1, <2>1 DEF RequestInv
    <3> QED BY <1>2, <3>1
  <2> QED BY <1>1, <1>2, <2>1 DEF RequestInv
<1>6. ASSUME pc = "merge" PROVE MergeInv'
  <2>1. MergeInv /\ top \in Nat /\ top <= written
    BY <1>1, <1>6 DEF RequestInv
  <2> USE <2>1
  <2>2. /\ \A p, n : ListedBefore(p, n)' <=> ListedBefore(p, n)
        /\ Token' = Token /\ (Reversed' <=> Reversed)
    <3>1. Token' = Token
      BY <1>2 DEF Token
    <3> QED BY <1>2, <3>1 DEF ListedBefore, SegmentOf, Reversed
  <2>3. \A x : Eligible(x)' <=> Eligible(x)
    BY <1>2, <2>2 DEF Eligible, Matches
  <2>4. ASSUME NEW e, Entry(e) PROVE Entry(e)'
    <3>1. PICK f \in DOMAIN data : /\ f[1] = chunks[e[2]] /\ e[3] \in DOMAIN data[f]
                                   /\ data[f][e[3]] = Line(e)
      BY <2>4 DEF Entry
    <3>2. f \in DOMAIN data' /\ e[3] \in DOMAIN data'[f] /\ data'[f][e[3]] = data[f][e[3]]
      BY <3>1 DEF Grows
    <3> QED BY <1>2, <3>1, <3>2 DEF Entry, Line
  <2>5. (\A p \in Positions : Remains(p, top) => ListedBefore(p, Len(chunks) + 1))'
    <3> SUFFICES ASSUME NEW p \in Positions', Remains(p, top)'
                 PROVE  ListedBefore(p, Len(chunks) + 1)'
      OBVIOUS
    <3>1. Remains(p, top) /\ p \in Positions
      <4> PICK n \in Nat : n = top
        OBVIOUS
      <4>1. Remains(p, n)'
        BY <1>2 DEF Remains
      <4> QED BY <1>3, <4>1
    <3>2. ListedBefore(p, Len(chunks) + 1)
      BY <3>1 DEF MergeInv
    <3> QED BY <1>2, <3>2 DEF ListedBefore, SegmentOf
  <2>6. (\A p \in Positions :
            Remains(p, top) /\ Eligible(At(p)) /\ ListedBefore(p, at[1]) =>
                (\E e \in heap : Line(e) = At(p)) \/ Outdone(p))'
    <3> SUFFICES ASSUME NEW p \in Positions', Remains(p, top)', Eligible(At(p))',
                        ListedBefore(p, at[1])'
                 PROVE  (\E e \in heap' : Line(e)' = At(p)') \/ Outdone(p)'
      OBVIOUS
    <3>1. Remains(p, top) /\ p \in Positions /\ At(p)' = At(p)
      <4> PICK n \in Nat : n = top
        OBVIOUS
      <4>1. Remains(p, n)'
        BY <1>2 DEF Remains
      <4> QED BY <1>3, <4>1
    <3>2. Eligible(At(p))
      <4> PICK x : x = At(p)
        OBVIOUS
      <4>1. At(p)' = x
        BY <3>1
      <4>2. Eligible(x)'
        BY <2>2, <4>1 DEF Eligible, Matches
      <4> QED BY <2>3, <4>2
    <3>3. ListedBefore(p, at[1])
      BY <1>2 DEF ListedBefore, SegmentOf
    <3>4. (\E e \in heap : Line(e) = At(p)) \/ Outdone(p)
      BY <3>1, <3>2, <3>3 DEF MergeInv
    <3>5. Outdone(p) => Outdone(p)'
      BY <1>2, <2>2, <3>1 DEF Outdone
    <3> QED BY <1>2, <3>1, <3>4, <3>5 DEF Line
  <2>7. (\A e \in heap : e[2] \in 1..Len(chunks) /\ e[2] < at[1] /\ Entry(e) /\ Eligible(Line(e)))'
    <3> SUFFICES ASSUME NEW e \in heap
                 PROVE  (e[2] \in 1..Len(chunks) /\ e[2] < at[1] /\ Entry(e) /\ Eligible(Line(e)))'
      BY <1>2
    <3>1. e[2] \in 1..Len(chunks) /\ e[2] < at[1] /\ Entry(e) /\ Eligible(Line(e))
      BY DEF MergeInv
    <3>2. Line(e)' = Line(e) /\ Eligible(Line(e))'
      BY <2>3, <3>1 DEF Line
    <3> QED BY <1>2, <2>4, <3>1, <3>2
  <2>8. /\ Token' # None => answer'.merged
        /\ chunks' \in Seq(Segments)
        /\ \A i, j \in 1..Len(chunks') : chunks'[i] = chunks'[j] => i = j
        /\ at'[1] \in 1..Len(chunks') + 1
        /\ heap' \in SUBSET (Times \X Nat \X Nat \X Nat) /\ IsFiniteSet(heap')
        /\ Cardinality(heap') <= PageSize
    BY <1>2, <2>2 DEF MergeInv
  <2> QED BY <2>5, <2>6, <2>7, <2>8 DEF MergeInv
<1> QED BY <1>4, <1>5, <1>6

\* The merged pages' invariant holds at first.
LEMMA PagesStart == Init => PagesInv
<1> SUFFICES ASSUME Init PROVE AnswerInv /\ RequestInv /\ pc = "idle"
  BY DEF PagesInv
<1>1. /\ pc = "idle" /\ heap = {} /\ answer = NoAnswer /\ StoreInv
  BY StoreStarts DEF Init, PagesInit
<1>2. written \in Nat
  BY <1>1 DEF StoreInv
<1> QED BY <1>1, <1>2 DEF AnswerInv, RequestInv, NoAnswer, None

\* What a merge has listed, kept and answered, whatever the store does while it runs and
\* afterwards (GetLogs by its paths, GetWorkloadLogs, mergedLogsPage of log_service.go).
THEOREM PagesInvariant == Spec => [](StoreInv /\ LinesInv /\ PagesInv)
<1> DEFINE Inv == StoreInv /\ LinesInv /\ PagesInv
<1>1. Init => Inv
  BY StoreStarts, PagesStart DEF Init
<1>2. Inv /\ [Next]_vars => Inv'
  <2> SUFFICES ASSUME StoreInv, LinesInv, PagesInv, [Next]_vars
               PROVE  StoreInv' /\ LinesInv' /\ PagesInv'
    OBVIOUS
  <2>1. CASE Store
    <3>1. StoreNext /\ UNCHANGED <<readVars, pageVars>>
      BY <2>1 DEF Store
    <3>2. StoreInv' /\ Grows
      BY <3>1, StoreMoves
    <3>3. LinesInv' /\ \A x \in DOMAIN seg' \ DOMAIN seg : DOMAIN data'[<<x, seg'[x]>>] = {}
      BY <3>1, LinesMove
    <3>4. UNCHANGED <<request, span, pageVars>>
      BY <3>1 DEF readVars
    <3> QED BY <3>2, <3>3, <3>4, PagesRest
  <2>2. CASE ~Store
    <3>1. UNCHANGED <<storeVars, readVars>>
      BY <2>2 DEF Next, Page, IndexPage, Fetch, Find, Done, vars
    <3>2. StoreInv' /\ LinesInv'
      <4>1. \A s : FilesNamed(s)' = FilesNamed(s)
        BY <3>1 DEF FilesNamed, storeVars
      <4> QED BY <3>1, <4>1, StoreStays DEF LinesInv, storeVars
    <3>3. CASE Page
      <4>1. request' = request /\ AnswerInv /\ RequestInv /\ (pc = "merge" => MergeInv) /\ PagesNext
        BY <3>1, <3>3 DEF Page, PagesInv, readVars
      <4>2. CASE \E k \in {"first", "last", "next", "prev"} : Ask(k)
        <5>1. AnswerInv' /\ RequestInv' /\ pc' # "merge"
          BY <3>1, <4>1, <4>2, AskKeepsPages
        <5> QED BY <3>2, <5>1 DEF PagesInv
      <4>3. CASE Dispatch
        <5>1. AnswerInv' /\ RequestInv' /\ (pc' = "merge" => MergeInv')
          BY <3>1, <4>1, <4>3, DispatchKeeps
        <5> QED BY <3>2, <5>1 DEF PagesInv
      <4>4. CASE ScanFile
        <5>1. AnswerInv' /\ RequestInv' /\ pc' # "merge"
          BY <3>1, <4>1, <4>4, ScanFileKeeps
        <5> QED BY <3>2, <5>1 DEF PagesInv
      <4>5. CASE ReadFile
        <5>1. AnswerInv' /\ RequestInv' /\ pc' # "merge"
          BY <3>1, <4>1, <4>5, ReadFileKeeps
        <5> QED BY <3>2, <5>1 DEF PagesInv
      <4>6. CASE MergeFile
        <5>1. pc = "merge"
          BY <4>6 DEF MergeFile
        <5>2. AnswerInv' /\ RequestInv' /\ MergeInv'
          BY <3>1, <4>1, <4>6, <5>1, MergeFileKeeps
        <5> QED BY <3>2, <5>2 DEF PagesInv
      <4>7. CASE MergeAnswer
        <5>1. pc = "merge"
          BY <4>7 DEF MergeAnswer
        <5>2. AnswerInv' /\ RequestInv' /\ pc' = "idle"
          BY <3>1, <4>1, <4>7, <5>1, MergeAnswerKeeps
        <5> QED BY <3>2, <5>2 DEF PagesInv
      <4> QED BY <4>1, <4>2, <4>3, <4>4, <4>5, <4>6, <4>7 DEF PagesNext
    <3>4. CASE IndexPage
      <4>1. request' = "index"
        BY <3>4 DEF IndexPage, readVars
      <4> QED BY <3>2, <4>1 DEF PagesInv
    <3>5. CASE Fetch \/ Find \/ Done \/ UNCHANGED vars
      <4>1. UNCHANGED <<storeVars, readVars, pageVars>>
        BY <3>5 DEF Fetch, Find, Done, vars
      <4>2. Grows
        BY <4>1 DEF Grows, StoreInv, storeVars
      <4>3. DOMAIN seg' \ DOMAIN seg = {} /\ UNCHANGED <<request, span, pageVars>>
        BY <4>1 DEF storeVars, readVars
      <4>4. PagesInv'
        BY <3>2, <4>2, <4>3, PagesRest
      <4> QED BY <3>2, <4>4
    <3> QED BY <2>2, <3>3, <3>4, <3>5 DEF Next
  <2> QED BY <2>1, <2>2
<1> QED BY <1>1, <1>2, PTL DEF Spec

\* A merged page is in time order, repeats no line, is of the lines asked for, and
\* leaves out none that belongs in it for one further from where it was asked for
\* (workload_service.go:142).
THEOREM PagesMerge == Spec => []MergedPagesExact
<1>1. StoreInv /\ LinesInv /\ PagesInv => MergedPagesExact
  <2> SUFFICES ASSUME PagesInv, answer.merged, request # "index" PROVE
         LET page == answer.lines
             back == answer.kind \in {"last", "prev"}
             wanted(t) == /\ answer.kind = "next" => \A line \in Final(answer.from) : t > line.ts
                          /\ answer.kind = "prev" => \A line \in First(answer.from) : t < line.ts
         IN  /\ \A i, j \in DOMAIN page : i < j => page[i].ts <= page[j].ts /\ page[i] # page[j]
             /\ \A i \in DOMAIN page : wanted(page[i].ts)
             /\ \A p \in Old : At(p) \notin Set(page) /\ wanted(At(p).ts) =>
                 /\ Len(page) = PageSize
                 /\ \A line \in Set(page) :
                       IF back THEN At(p).ts <= line.ts ELSE At(p).ts >= line.ts
    BY Zenon DEF MergedPagesExact
  <2>1. PageExact
    BY DEF PagesInv, AnswerInv
  <2>2. \A p \in Old : p \in Positions /\ Remains(p, answer.top)
    BY DEF Old, Remains, Stored
  <2> QED BY <2>1, <2>2 DEF PageExact, AsksFor
<1> QED BY <1>1, PagesInvariant, PTL
=============================================================================
