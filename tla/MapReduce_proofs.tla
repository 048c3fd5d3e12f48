------------------------- MODULE MapReduce_proofs -------------------------
(***************************************************************************)
(* Proofs about MapReduce, for every number of threads, tasks and keys.    *)
(* The inductive invariant is built in layers, each an invariant given the *)
(* ones before it: IInv and TInv say where the caller and the workers are  *)
(* and what the arrays hold, MapInv where each emission of the map phase   *)
(* is, ReduceInv how far each reduce task has come, Ordered and SlicesDone *)
(* what a merge round has put in order, and Merging and AllMerged that     *)
(* merging loses no record. From them follow GatherComplete, ArraysSorted, *)
(* EveryKeyProcessed, ResultCorrect and EmissionOnce. The first sections   *)
(* are about the arrays of Keyvals, of any length: what the binary search  *)
(* returns, that an insertion keeps the order and every value, and what a  *)
(* concatenation contains.  The next ones show for which calls             *)
(* gen_reduce_tasks queues every reduce task, and that the slices of a     *)
(* merge round partition its input. FaultInv, from which FailsOnlyIfShort  *)
(* follows, says what a call must have asked for when the program fails.   *)
(***************************************************************************)
EXTENDS MapReduce, WellFoundedInduction, NaturalsInduction, SequenceTheorems,
        FiniteSetTheorems, TLAPS

---------------
(* Induction. *)

SmallerThan == {ss \in Nat \X Nat : ss[1] < ss[2]}

\* The order of Nat, on which the recursion of the loops rests, is well-founded.
LEMMA SmallerThanWellFounded == IsWellFoundedOn(SmallerThan, Nat)
<1>1. OpToRel(<, Nat) = SmallerThan
  BY Zenon DEF OpToRel, SmallerThan
<1> QED BY <1>1, NatLessThanWellFounded, Zenon

\* A set of naturals that is not empty has a least element.
LEMMA Least ==
    ASSUME NEW T, T \subseteq Nat, T # {}
    PROVE  \E x \in T : \A y \in T : x <= y
<1>1. PICK x \in T : \A y \in T : ~(<<y, x>> \in SmallerThan)
  BY SmallerThanWellFounded, WFMin
<1>2. ASSUME NEW y \in T PROVE x <= y
  <2>1. x \in Nat /\ y \in Nat
    OBVIOUS
  <2>2. y < x => <<y, x>> \in SmallerThan
    BY <2>1 DEF SmallerThan
  <2> QED BY <1>1, <2>1, <2>2
<1> QED BY <1>2

\* Induction on Nat for a set T, which stands for the predicate "n is in T".
LEMMA Induction ==
    ASSUME NEW T, 0 \in T, \A n \in Nat : n \in T => n + 1 \in T
    PROVE  \A n \in Nat : n \in T
<1> DEFINE U == {n \in Nat : n \notin T}
<1> SUFFICES ASSUME U # {} PROVE FALSE
  OBVIOUS
<1>1. PICK x \in U : \A y \in U : x <= y
  BY Least, U \subseteq Nat
<1>2. x # 0
  OBVIOUS
<1>3. x - 1 \in Nat /\ x - 1 \notin U
  BY <1>1, <1>2
<1>4. (x - 1) + 1 \in T
  BY <1>3
<1> QED BY <1>4

---------------
(* The binary search. *)

Pairs(n) == (0..n) \X (-1..n)
Turn(arr, key, low, p) ==
    LET next == (p[1] + p[2]) \div 2
    IN  IF p[1] - p[2] <= 1 THEN p[2]
        ELSE IF arr[next + 1].key > key THEN low[<<next, p[2]>>] ELSE low[<<p[1], next>>]

\* BinarySearch is the function that its loop defines, with the body named Turn.
LEMMA SearchDef ==
    ASSUME NEW arr, NEW key
    PROVE  BinarySearch(arr, key) =
             (CHOOSE low : low = [p \in Pairs(Len(arr)) |-> Turn(arr, key, low, p)])[<<Len(arr), -1>>]
BY DEF BinarySearch, Turn, Pairs

\* The recursion is well founded: the distance of the bounds gets smaller.
LEMMA SearchExists ==
    ASSUME NEW arr, NEW key, Len(arr) \in Nat
    PROVE  \E low : low = [p \in Pairs(Len(arr)) |-> Turn(arr, key, low, p)]
<1> DEFINE N == Len(arr)
           Part(low, n) == low = [p \in Pairs(N) |-> IF p[1] - p[2] <= n + 1
                                                     THEN Turn(arr, key, low, p) ELSE 0]
           T == {n \in Nat : \E low : Part(low, n)}
<1>1. 0 \in T
  <2> DEFINE low == [p \in Pairs(N) |-> IF p[1] - p[2] <= 1 THEN p[2] ELSE 0]
  <2>1. Part(low, 0)
    <3> HIDE DEF low
    <3>1. \A p \in Pairs(N) : p[1] - p[2] <= 1 => Turn(arr, key, low, p) = p[2]
      BY DEF Turn
    <3>2. [p \in Pairs(N) |-> IF p[1] - p[2] <= 1 THEN p[2] ELSE 0]
            = [p \in Pairs(N) |-> IF p[1] - p[2] <= 1 THEN Turn(arr, key, low, p) ELSE 0]
      BY <3>1
    <3> QED BY <3>2, 0 + 1 = 1 DEF low
  <2> QED BY <2>1
<1>2. ASSUME NEW n \in Nat, n \in T PROVE n + 1 \in T
  <2>1. PICK f : Part(f, n)
    BY <1>2
  <2> DEFINE g == [p \in Pairs(N) |-> IF p[1] - p[2] <= n + 2 THEN Turn(arr, key, f, p) ELSE 0]
  <2>2. ASSUME NEW p \in Pairs(N), p[1] - p[2] <= n + 1 PROVE f[p] = g[p]
    <3>1. p[1] - p[2] <= n + 2
      BY <2>2 DEF Pairs
    <3>2. f[p] = Turn(arr, key, f, p)
      <4>1. f = [r \in Pairs(N) |-> IF r[1] - r[2] <= n + 1 THEN Turn(arr, key, f, r) ELSE 0]
        BY <2>1
      <4> HIDE DEF Part, g
      <4> QED BY <2>2, <4>1
    <3>3. g[p] = Turn(arr, key, f, p)
      BY <3>1
    <3> QED BY <3>2, <3>3
  <2>3. ASSUME NEW p \in Pairs(N), p[1] - p[2] <= n + 2
        PROVE  Turn(arr, key, f, p) = Turn(arr, key, g, p)
    <3>1. p[1] \in 0..N /\ p[2] \in -1..N
      BY DEF Pairs
    <3>2. CASE p[1] - p[2] <= 1
      BY <3>2 DEF Turn
    <3>3. CASE p[1] - p[2] > 1
      <4> DEFINE next == (p[1] + p[2]) \div 2
      <4>1. next \in 0..N /\ next < p[1] /\ next > p[2]
        BY <3>1, <3>3
      <4>2. <<next, p[2]>> \in Pairs(N) /\ <<p[1], next>> \in Pairs(N)
        BY <3>1, <4>1 DEF Pairs
      <4>3. next - p[2] <= n + 1 /\ p[1] - next <= n + 1
        BY <2>3, <3>1, <4>1
      <4> HIDE DEF g
      <4>4. f[<<next, p[2]>>] = g[<<next, p[2]>>] /\ f[<<p[1], next>>] = g[<<p[1], next>>]
        BY <2>2, <4>2, <4>3
      <4> QED BY <4>4 DEF Turn
    <3> QED BY <3>1, <3>2, <3>3
  <2>4. g = [p \in Pairs(N) |-> IF p[1] - p[2] <= n + 2 THEN Turn(arr, key, g, p) ELSE 0]
    <3> HIDE DEF g
    <3>1. [p \in Pairs(N) |-> IF p[1] - p[2] <= n + 2 THEN Turn(arr, key, f, p) ELSE 0]
            = [p \in Pairs(N) |-> IF p[1] - p[2] <= n + 2 THEN Turn(arr, key, g, p) ELSE 0]
      BY <2>3
    <3> QED BY <3>1 DEF g
  <2>5. Part(g, n + 1)
    <3> HIDE DEF g
    <3> QED BY <2>4, (n + 1) + 1 = n + 2
  <2> HIDE DEF g, Part
  <2> QED BY <2>5
<1> HIDE DEF T
<1>3. N + 1 \in T
  BY <1>1, <1>2, Induction
<1>4. PICK low : Part(low, N + 1)
  BY <1>3 DEF T
<1>5. \A p \in Pairs(N) : p[1] - p[2] <= (N + 1) + 1
  BY DEF Pairs
<1>6. low = [p \in Pairs(N) |-> Turn(arr, key, low, p)]
  BY <1>4, <1>5
<1> QED BY <1>6

\* low, when the loop ends: the last position whose key is not greater, if any.
LEMMA SearchResult ==
    ASSUME NEW arr, NEW key, Len(arr) \in Nat
    PROVE  LET low == BinarySearch(arr, key)
           IN  /\ low \in -1..(Len(arr) - 1)
               /\ low >= 0 => ~(arr[low + 1].key > key)
               /\ low + 1 < Len(arr) => arr[low + 2].key > key
<1> DEFINE N == Len(arr)
           Def(f) == f = [p \in Pairs(N) |-> Turn(arr, key, f, p)]
           low == CHOOSE f : Def(f)
           Good(h, l) == /\ low[<<h, l>>] \in -1..(N - 1)
                         /\ low[<<h, l>>] >= 0 => ~(arr[low[<<h, l>>] + 1].key > key)
                         /\ low[<<h, l>>] + 1 < N => arr[low[<<h, l>>] + 2].key > key
           Bounds(h, l) == /\ h \in 0..N /\ l \in -1..(N - 1) /\ l < h
                           /\ l >= 0 => ~(arr[l + 1].key > key)
                           /\ h < N => arr[h + 1].key > key
           T == {n \in Nat : \A h, l \in -1..N : Bounds(h, l) /\ h - l <= n + 1 => Good(h, l)}
<1>1. BinarySearch(arr, key) = low[<<N, -1>>]
  BY SearchDef
<1>2. Def(low)
  <2>1. \E f : Def(f)
    BY SearchExists
  <2> QED BY <2>1
<1> HIDE DEF low
<1>3. ASSUME NEW h \in 0..N, NEW l \in -1..N
      PROVE  low[<<h, l>>] = Turn(arr, key, low, <<h, l>>)
  <2>1. <<h, l>> \in Pairs(N)
    BY DEF Pairs
  <2> QED BY <1>2, <2>1
<1> HIDE DEF Def
<1>4. 0 \in T
  <2> SUFFICES ASSUME NEW h \in -1..N, NEW l \in -1..N, Bounds(h, l), h - l <= 1
               PROVE  Good(h, l)
    OBVIOUS
  <2>1. h - l = 1
    OBVIOUS
  <2>2. low[<<h, l>>] = l
    BY <1>3, <2>1 DEF Turn
  <2> QED BY <2>1, <2>2
<1>5. ASSUME NEW n \in Nat, n \in T PROVE n + 1 \in T
  <2> SUFFICES ASSUME NEW h \in -1..N, NEW l \in -1..N, Bounds(h, l), h - l <= n + 2
               PROVE  Good(h, l)
    OBVIOUS
  <2>1. CASE h - l <= 1
    <3>1. Bounds(h, l) /\ h - l <= n + 1
      BY <2>1
    <3> HIDE DEF Bounds, Good
    <3> QED BY <1>5, <3>1
  <2>2. CASE h - l > 1
    <3> DEFINE next == (h + l) \div 2
    <3>0. h \in Int /\ l \in Int /\ h <= N /\ l >= -1 /\ h - l >= 2
      BY <2>2
    <3>1. next \in 0..(N - 1) /\ l < next /\ next < h
      <4> HIDE DEF Bounds, Good
      <4>1. next \in Int /\ 2 * next <= h + l /\ h + l <= 2 * next + 1
        BY <3>0
      <4> HIDE DEF next
      <4> QED BY <3>0, <4>1
    <3>2. next - l <= n + 1 /\ h - next <= n + 1
      BY <3>1
    <3>3. low[<<h, l>>] = IF arr[next + 1].key > key THEN low[<<next, l>>] ELSE low[<<h, next>>]
      BY <1>3, <2>2 DEF Turn
    <3> HIDE DEF next
    <3>4. CASE arr[next + 1].key > key
      <4>1. Bounds(next, l)
        BY <3>1, <3>4
      <4>2. next \in -1..N
        BY <3>1
      <4>3. Good(next, l)
        <5> HIDE DEF Bounds, Good
        <5> QED BY <1>5, <3>2, <4>1, <4>2
      <4> QED BY <3>3, <3>4, <4>3
    <3>5. CASE ~(arr[next + 1].key > key)
      <4>1. Bounds(h, next)
        BY <3>1, <3>5
      <4>2. next \in -1..N
        BY <3>1
      <4>3. Good(h, next)
        <5> HIDE DEF Bounds, Good
        <5> QED BY <1>5, <3>2, <4>1, <4>2
      <4> QED BY <3>3, <3>5, <4>3
    <3> QED BY <3>4, <3>5
  <2> QED BY <2>1, <2>2
<1>6. N \in T
  <2> HIDE DEF T
  <2> QED BY <1>4, <1>5, Induction
<1>7. CASE N > 0
  <2>1. Bounds(N, -1) /\ N - (-1) <= N + 1
    BY <1>7
  <2>2. N \in -1..N /\ -1 \in -1..N
    OBVIOUS
  <2>3. Good(N, -1)
    <3> HIDE DEF Bounds, Good
    <3> QED BY <1>6, <2>1, <2>2
  <2> QED BY <1>1, <2>3
<1>8. CASE N = 0
  <2>1. low[<<N, -1>>] = -1
    BY <1>3, <1>8 DEF Turn
  <2> QED BY <1>1, <1>8, <2>1
<1> QED BY <1>7, <1>8

---------------
(* Insertion. *)

\* The elements of a sequence after an insertion at place i.
LEMMA InsertAtElements ==
    ASSUME NEW S, NEW s \in Seq(S), NEW i \in 1..(Len(s) + 1), NEW e \in S
    PROVE  /\ InsertAt(s, i, e) \in Seq(S)
           /\ Len(InsertAt(s, i, e)) = Len(s) + 1
           /\ \A k \in 1..(Len(s) + 1) :
                 InsertAt(s, i, e)[k] = IF k < i THEN s[k] ELSE IF k = i THEN e ELSE s[k - 1]
<1> DEFINE a == SubSeq(s, 1, i - 1)
           b == SubSeq(s, i, Len(s))
           c == a \o <<e>>
<1>1. a \in Seq(S) /\ Len(a) = i - 1 /\ \A k \in 1..(i - 1) : a[k] = s[k]
  OBVIOUS
<1>2. b \in Seq(S) /\ Len(b) = Len(s) - i + 1 /\ \A k \in 1..(Len(s) - i + 1) : b[k] = s[k + i - 1]
  OBVIOUS
<1>3. InsertAt(s, i, e) = c \o b
  BY DEF InsertAt
<1> HIDE DEF a, b
<1>4. c \in Seq(S) /\ Len(c) = i /\ \A k \in 1..i : c[k] = IF k < i THEN s[k] ELSE e
  BY <1>1
<1> HIDE DEF c
<1>5. /\ c \o b \in Seq(S) /\ Len(c \o b) = Len(c) + Len(b)
      /\ \A k \in 1..(Len(c) + Len(b)) : (c \o b)[k] = IF k <= Len(c) THEN c[k] ELSE b[k - Len(c)]
  BY <1>2, <1>4, ConcatProperties
<1>6. Len(c) + Len(b) = Len(s) + 1
  BY <1>2, <1>4
<1>7. ASSUME NEW k \in 1..(Len(s) + 1)
      PROVE  (c \o b)[k] = IF k < i THEN s[k] ELSE IF k = i THEN e ELSE s[k - 1]
  <2>1. CASE k <= i
    BY <1>4, <1>5, <1>6, <2>1
  <2>2. CASE k > i
    <3>1. k - i \in 1..(Len(s) - i + 1)
      BY <2>2
    <3>2. b[k - i] = s[(k - i) + i - 1]
      BY <1>2, <3>1
    <3>3. (k - i) + i - 1 = k - 1
      OBVIOUS
    <3> QED BY <1>4, <1>5, <1>6, <2>2, <3>2, <3>3
  <2>3. k <= i \/ k > i
    BY LenProperties
  <2> QED BY <2>1, <2>2, <2>3, Zenon
<1> QED BY <1>3, <1>5, <1>6, <1>7

\* The keys before the place found are not greater, and less if the array has
\* each key once; those from there on are not less.
THEOREM SearchPosition ==
    ASSUME NEW arr, Len(arr) \in Nat, \A k \in 1..Len(arr) : arr[k].key \in Int,
           \A k, l \in 1..Len(arr) : k < l => arr[k].key <= arr[l].key,
           NEW key \in Int, arr = <<>> \/ Last(arr).key > key
    PROVE  /\ SearchPos(arr, key) \in 1..(Len(arr) + 1)
           /\ arr # <<>> => SearchPos(arr, key) <= Len(arr)
           /\ \A k \in 1..Len(arr) : k < SearchPos(arr, key) => arr[k].key <= key
           /\ \A k \in 1..Len(arr) : k < SearchPos(arr, key) =>
                 arr[k].key < key \/ \E l \in 1..Len(arr) : k < l /\ arr[l].key = key
           /\ \A k \in 1..Len(arr) : SearchPos(arr, key) <= k => arr[k].key >= key
<1> DEFINE N == Len(arr)
           low == BinarySearch(arr, key)
           at == IF low < 0 THEN 0 ELSE low
           at1 == IF arr # <<>> /\ arr[at + 1].key < key THEN at + 2 ELSE at + 1
<1>1. /\ low \in -1..(N - 1)
      /\ low >= 0 => ~(arr[low + 1].key > key)
      /\ low + 1 < N => arr[low + 2].key > key
  BY SearchResult
<1>2. SearchPos(arr, key) = at1
  BY DEF SearchPos
<1> HIDE DEF low
<1>3. CASE arr = <<>>
  <2>1. N = 0 /\ low = -1 /\ at1 = 1
    BY <1>1, <1>3
  <2> QED BY <1>2, <2>1
<1>4. CASE arr # <<>> /\ N > 0
  <2>1. arr[N].key > key /\ arr[N].key \in Int
    BY <1>4 DEF Last
  <2>2. CASE low = -1
    <3>1. arr[1].key > key /\ arr[1].key \in Int
      BY <1>1, <1>4, <2>2
    <3>2. at1 = 1
      BY <2>2, <3>1
    <3>3. \A k \in 1..N : arr[1].key <= arr[k].key /\ arr[k].key \in Int
      BY <1>4, <3>1
    <3> HIDE DEF at1
    <3> QED BY <1>2, <1>4, <3>1, <3>2, <3>3
  <2>3. CASE low \in Nat
    <3>1. low + 1 \in 1..N /\ arr[low + 1].key \in Int /\ arr[low + 1].key <= key
      BY <1>1, <2>3
    <3>2. low + 1 < N
      BY <1>1, <2>1, <3>1
    <3>3. low + 2 \in 1..N /\ arr[low + 2].key > key /\ arr[low + 2].key \in Int
      BY <1>1, <3>2
    <3>4. at = low
      BY <1>1, <2>3
    <3>5. CASE arr[low + 1].key < key
      <4>1. at1 = low + 2
        BY <1>4, <3>4, <3>5
      <4> HIDE DEF at1, at
      <4>2. \A k \in 1..N : k < low + 2 => arr[k].key <= arr[low + 1].key /\ arr[k].key \in Int
        BY <1>1, <3>1
      <4>3. \A k \in 1..N : low + 2 <= k => arr[low + 2].key <= arr[k].key /\ arr[k].key \in Int
        BY <1>1, <3>3
      <4> QED BY <1>2, <3>1, <3>3, <3>5, <4>1, <4>2, <4>3, SMTT(60)
    <3>6. CASE arr[low + 1].key = key
      <4>1. at1 = low + 1
        BY <1>4, <3>4, <3>6
      <4> HIDE DEF at1, at
      <4>2. \A k \in 1..N : k < low + 1 => arr[k].key <= arr[low + 1].key /\ arr[k].key \in Int
        BY <1>1, <3>1
      <4>3. \A k \in 1..N : low + 1 <= k => arr[low + 1].key <= arr[k].key /\ arr[k].key \in Int
        BY <1>1, <3>1
      <4> QED BY <1>2, <3>1, <3>3, <3>6, <4>1, <4>2, <4>3
    <3> QED BY <3>1, <3>5, <3>6
  <2> QED BY <1>1, <2>2, <2>3
<1>5. arr # <<>> => N > 0
  OBVIOUS
<1> QED BY <1>3, <1>4, <1>5

\* new is arr with e put in at place p.
PutIn(new, arr, p, e) ==
    /\ p \in 1..(Len(arr) + 1)
    /\ Len(new) = Len(arr) + 1
    /\ \A k \in 1..Len(new) : new[k] = IF k < p THEN arr[k] ELSE IF k = p THEN e ELSE arr[k - 1]

\* An insertion at place i puts the element in there.
LEMMA InsertAtPutIn ==
    ASSUME NEW S, NEW s \in Seq(S), NEW i \in 1..(Len(s) + 1), NEW e \in S
    PROVE  InsertAt(s, i, e) \in Seq(S) /\ PutIn(InsertAt(s, i, e), s, i, e)
<1>1. /\ InsertAt(s, i, e) \in Seq(S)
      /\ Len(InsertAt(s, i, e)) = Len(s) + 1
      /\ \A k \in 1..(Len(s) + 1) :
            InsertAt(s, i, e)[k] = IF k < i THEN s[k] ELSE IF k = i THEN e ELSE s[k - 1]
  BY InsertAtElements
<1> QED BY <1>1 DEF PutIn

\* Putting e between the keys that are no greater and those that are no smaller keeps
\* an array sorted, ...
LEMMA PutInSorted ==
    ASSUME NEW S, NEW arr \in Seq(S), NEW new \in Seq(S), \A s \in S : s.key \in Int,
           NEW p, NEW e \in S, PutIn(new, arr, p, e), Sorted(arr),
           \A k \in 1..Len(arr) : /\ k < p => arr[k].key <= e.key
                                  /\ p <= k => e.key <= arr[k].key
    PROVE  Sorted(new)
<1> SUFFICES ASSUME NEW k \in 1..Len(new), NEW l \in 1..Len(new), k < l
             PROVE  new[k].key <= new[l].key
  BY DEF Sorted
<1>1. \A i, j \in 1..Len(arr) : i < j => arr[i].key <= arr[j].key
  BY DEF Sorted
<1>2. p \in 1..(Len(arr) + 1) /\ Len(new) = Len(arr) + 1 /\ Len(arr) \in Nat
  BY DEF PutIn
<1>3. \A i \in 1..Len(arr) : arr[i].key \in Int
  OBVIOUS
<1>4. /\ new[k] = IF k < p THEN arr[k] ELSE IF k = p THEN e ELSE arr[k - 1]
      /\ new[l] = IF l < p THEN arr[l] ELSE IF l = p THEN e ELSE arr[l - 1]
  BY DEF PutIn
<1>5. CASE l < p
  BY <1>1, <1>2, <1>4, <1>5
<1>6. CASE l = p
  BY <1>2, <1>4, <1>6, SMTT(60)
<1>7. CASE l > p /\ k < p
  <2>1. k \in 1..Len(arr) /\ l - 1 \in 1..Len(arr) /\ k < l - 1
    BY <1>2, <1>7
  <2>2. new[k] = arr[k] /\ new[l] = arr[l - 1]
    BY <1>2, <1>4, <1>7
  <2> QED BY <1>1, <2>1, <2>2
<1>8. CASE l > p /\ k = p
  BY <1>2, <1>4, <1>8
<1>9. CASE l > p /\ k > p
  <2>1. k - 1 \in 1..Len(arr) /\ l - 1 \in 1..Len(arr) /\ k - 1 < l - 1
    BY <1>2, <1>9
  <2>2. new[k] = arr[k - 1] /\ new[l] = arr[l - 1]
    BY <1>2, <1>4, <1>9
  <2> QED BY <1>1, <2>1, <2>2
<1> QED BY <1>2, <1>5, <1>6, <1>7, <1>8, <1>9

\* ... and strictly so when its key is new.
LEMMA PutInStrictlySorted ==
    ASSUME NEW S, NEW arr \in Seq(S), NEW new \in Seq(S), \A s \in S : s.key \in Int,
           NEW p, NEW e \in S, PutIn(new, arr, p, e), StrictlySorted(arr),
           \A k \in 1..Len(arr) : /\ k < p => arr[k].key < e.key
                                  /\ p <= k => e.key < arr[k].key
    PROVE  StrictlySorted(new)
<1> SUFFICES ASSUME NEW k \in 1..Len(new), NEW l \in 1..Len(new), k < l
             PROVE  new[k].key < new[l].key
  BY DEF StrictlySorted
<1>1. \A i, j \in 1..Len(arr) : i < j => arr[i].key < arr[j].key
  BY DEF StrictlySorted
<1>2. p \in 1..(Len(arr) + 1) /\ Len(new) = Len(arr) + 1 /\ Len(arr) \in Nat
  BY DEF PutIn
<1>3. \A i \in 1..Len(arr) : arr[i].key \in Int
  OBVIOUS
<1>4. /\ new[k] = IF k < p THEN arr[k] ELSE IF k = p THEN e ELSE arr[k - 1]
      /\ new[l] = IF l < p THEN arr[l] ELSE IF l = p THEN e ELSE arr[l - 1]
  BY DEF PutIn
<1>5. CASE l < p
  BY <1>1, <1>2, <1>4, <1>5
<1>6. CASE l = p
  BY <1>2, <1>4, <1>6, SMTT(60)
<1>7. CASE l > p /\ k < p
  <2>1. k \in 1..Len(arr) /\ l - 1 \in 1..Len(arr) /\ k < p /\ p <= l - 1
    BY <1>2, <1>7
  <2>2. new[k] = arr[k] /\ new[l] = arr[l - 1]
    BY <1>2, <1>4, <1>7
  <2>3. arr[k].key < e.key /\ e.key < arr[l - 1].key
    BY <2>1
  <2>4. arr[k].key \in Int /\ arr[l - 1].key \in Int /\ e.key \in Int
    BY <1>3, <2>1
  <2> QED BY <2>2, <2>3, <2>4
<1>8. CASE l > p /\ k = p
  BY <1>2, <1>4, <1>8
<1>9. CASE l > p /\ k > p
  <2>1. k - 1 \in 1..Len(arr) /\ l - 1 \in 1..Len(arr) /\ k - 1 < l - 1
    BY <1>2, <1>9
  <2>2. new[k] = arr[k - 1] /\ new[l] = arr[l - 1]
    BY <1>2, <1>4, <1>9
  <2> QED BY <1>1, <2>1, <2>2
<1> QED BY <1>2, <1>5, <1>6, <1>7, <1>8, <1>9

\* What emit makes of an array with elements of S, and what emit_intermediate makes
\* of one whose values are in V.
Inserted(new, arr, key, val, S) ==
    /\ new \in Seq(S)
    /\ Sorted(new)
    /\ (\A k \in 1..Len(arr) : arr[k].key # key) /\ StrictlySorted(arr) => StrictlySorted(new)
    /\ \E p : PutIn(new, arr, p, [key |-> key, val |-> val])
Merged(new, arr, key, val, V) ==
    /\ new \in Seq([key : Int, vals : Seq(V)])
    /\ StrictlySorted(new)
    /\ \A j \in 1..Len(arr) : arr[j].key # key => \E k \in 1..Len(new) : new[k] = arr[j]
    /\ \A k \in 1..Len(new) : new[k].key # key => \E j \in 1..Len(arr) : new[k] = arr[j]
    /\ \E k \in 1..Len(new) : new[k].key = key
    /\ \A k \in 1..Len(new) : new[k].key = key =>
          \/ \E j \in 1..Len(arr) : /\ arr[j].key = key
                                   /\ new[k].vals = Append(arr[j].vals, val)
          \/ /\ new[k].vals = <<val>>
             /\ \A j \in 1..Len(arr) : arr[j].key # key

\* emit: the new entry is put in at a place that keeps the order, also when it is
\* appended, provided that then no key of the array is greater.
THEOREM InsertSorted ==
    ASSUME NEW V, NEW arr \in Seq([key : Int, val : V]), Sorted(arr),
           NEW key \in Int, NEW val \in V, NEW append \in BOOLEAN,
           append => \A k \in 1..Len(arr) : arr[k].key <= key
    PROVE  Inserted(insert_keyval(arr, key, val, append), arr, key, val, [key : Int, val : V])
<1> DEFINE new == insert_keyval(arr, key, val, append)
           S == [key : Int, val : V]
           e == [key |-> key, val |-> val]
           search == ~append /\ arr # <<>> /\ Last(arr).key > key
           p == IF search THEN SearchPos(arr, key) ELSE Len(arr) + 1
<1>1. new = InsertAt(arr, p, e)
  BY DEF insert_keyval
<1> HIDE DEF new
<1>2. /\ Len(arr) \in Nat /\ \A k \in 1..Len(arr) : arr[k].key \in Int
      /\ \A k, l \in 1..Len(arr) : k < l => arr[k].key <= arr[l].key
  <2>1. DOMAIN arr = 1..Len(arr) /\ Len(arr) \in Nat
    OBVIOUS
  <2>2. \A k, l \in 1..Len(arr) : k < l => arr[k].key <= arr[l].key
    BY <2>1 DEF Sorted
  <2>3. \A k \in 1..Len(arr) : arr[k].key \in Int
    <3>1. \A k \in 1..Len(arr) : arr[k] \in S
      BY ElementOfSeq
    <3> QED BY <3>1
  <2> QED BY <2>1, <2>2, <2>3, Zenon
<1>5. /\ p \in 1..(Len(arr) + 1)
      /\ \A k \in 1..Len(arr) : k < p => arr[k].key <= key
      /\ \A k \in 1..Len(arr) : p <= k => arr[k].key >= key
  <2>1. CASE search
    BY <1>2, <2>1, SearchPosition
  <2>2. CASE ~search
    <3>1. p = Len(arr) + 1
      BY <2>2
    <3>2. \A k \in 1..Len(arr) : arr[k].key <= key
      <4>1. CASE append
        BY <4>1
      <4>2. CASE ~append /\ arr # <<>> /\ ~(Last(arr).key > key)
        BY <1>2, <4>2 DEF Last
      <4>3. CASE arr = <<>>
        BY <4>3
      <4> QED BY <2>2, <4>1, <4>2, <4>3
    <3> QED BY <1>2, <3>1, <3>2
  <2> QED BY <2>1, <2>2
<1> HIDE DEF p
<1>6. /\ e \in S /\ e.key = key /\ \A s \in S : s.key \in Int
  OBVIOUS
<1>7. new \in Seq(S) /\ PutIn(new, arr, p, e)
  <2> HIDE DEF e, S
  <2>1. arr \in Seq(S)
    BY DEF S
  <2>2. e \in S /\ p \in 1..(Len(arr) + 1)
    BY <1>5, <1>6
  <2> QED BY <1>1, <2>1, <2>2, InsertAtPutIn
<1> HIDE DEF e
<1>8. Sorted(new)
  BY <1>5, <1>6, <1>7, PutInSorted
<1>9. ASSUME \A k \in 1..Len(arr) : arr[k].key # key, StrictlySorted(arr)
      PROVE  StrictlySorted(new)
  <2>1. \A k \in 1..Len(arr) : /\ k < p => arr[k].key < e.key
                               /\ p <= k => e.key < arr[k].key
    BY <1>2, <1>5, <1>6, <1>9
  <2> QED BY <1>6, <1>7, <1>9, <2>1, PutInStrictlySorted
<1>10. Inserted(new, arr, key, val, S)
  BY <1>7, <1>8, <1>9 DEF e, Inserted
<1> QED BY <1>10 DEF new

\* emit_intermediate: the list of the key gets the value, and the lists of the other
\* keys stay.
THEOREM InsertMerged ==
    ASSUME NEW V, NEW arr \in Seq([key : Int, vals : Seq(V)]), StrictlySorted(arr),
           NEW key \in Int, NEW val \in V
    PROVE  Merged(insert_keyval_merged(arr, key, val), arr, key, val, V)
<1> DEFINE new == insert_keyval_merged(arr, key, val)
           S == [key : Int, vals : Seq(V)]
           search == arr = <<>> \/ Last(arr).key > key
           p == IF search THEN SearchPos(arr, key)
                ELSE IF Last(arr).key < key THEN Len(arr) + 1 ELSE Len(arr)
           e == [key |-> key, vals |-> <<val>>]
           Post(s) == Merged(s, arr, key, val, V)
<1>1. new = IF p <= Len(arr) /\ arr[p].key = key
              THEN [arr EXCEPT ![p].vals = Append(@, val)] ELSE InsertAt(arr, p, e)
  BY DEF insert_keyval_merged
<1> HIDE DEF new
<1>2. /\ DOMAIN arr = 1..Len(arr) /\ Len(arr) \in Nat
      /\ \A k \in 1..Len(arr) : arr[k] \in S /\ arr[k].key \in Int /\ arr[k].vals \in Seq(V)
  <2>1. \A k \in 1..Len(arr) : arr[k] \in S
    BY ElementOfSeq
  <2>2. \A k \in 1..Len(arr) : arr[k].key \in Int /\ arr[k].vals \in Seq(V)
    BY <2>1
  <2>3. DOMAIN arr = 1..Len(arr) /\ Len(arr) \in Nat
    OBVIOUS
  <2> QED BY <2>1, <2>2, <2>3, Zenon
<1>3. \A k, l \in 1..Len(arr) : k < l => arr[k].key < arr[l].key
  BY <1>2 DEF StrictlySorted
<1>4. \A k, l \in 1..Len(arr) : k < l => arr[k].key <= arr[l].key
  BY <1>2, <1>3
\* The place is that of the key, or where it is missing.
<1>5. /\ p \in 1..(Len(arr) + 1)
      /\ \A k \in 1..Len(arr) : k < p => arr[k].key < key
      /\ \A k \in 1..Len(arr) : p < k => key < arr[k].key
      /\ p <= Len(arr) => key <= arr[p].key
  <2>1. CASE search
    <3>1. /\ p \in 1..(Len(arr) + 1)
          /\ \A k \in 1..Len(arr) : k < p =>
                 arr[k].key < key \/ \E l \in 1..Len(arr) : k < l /\ arr[l].key = key
          /\ \A k \in 1..Len(arr) : p <= k => arr[k].key >= key
      <4>1. \A k \in 1..Len(arr) : arr[k].key \in Int
        BY <1>2
      <4> HIDE DEF S
      <4> QED BY <1>2, <1>4, <2>1, <4>1, SearchPosition
    <3> HIDE DEF p
    <3>2. \A k \in 1..Len(arr) : k < p => arr[k].key < key
      BY <1>2, <1>3, <3>1
    <3>3. p <= Len(arr) => key <= arr[p].key /\ arr[p].key \in Int
      <4> SUFFICES ASSUME p \in 1..Len(arr) PROVE key <= arr[p].key /\ arr[p].key \in Int
        BY <1>2, <3>1
      <4>1. p <= p /\ \A x, y \in Int : x >= y => y <= x
        OBVIOUS
      <4> QED BY <1>2, <3>1, <4>1, Zenon
    <3>4. \A k \in 1..Len(arr) : p < k => key < arr[k].key
      <4> SUFFICES ASSUME NEW k \in 1..Len(arr), p < k PROVE key < arr[k].key
        OBVIOUS
      <4>1. p \in 1..Len(arr)
        BY <1>2, <3>1
      <4>2. arr[p].key < arr[k].key
        BY <1>3, <4>1, Zenon
      <4> QED BY <1>2, <3>3, <4>1, <4>2
    <3> QED BY <3>1, <3>2, <3>3, <3>4, Zenon
  <2>2. CASE ~search /\ Last(arr).key < key
    <3>1. p = Len(arr) + 1
      BY <2>2
    <3>2. Len(arr) \in 1..Len(arr) /\ arr[Len(arr)].key < key
      BY <1>2, <2>2 DEF Last
    <3>3. \A k \in 1..Len(arr) : arr[k].key <= arr[Len(arr)].key /\ arr[k].key \in Int
      <4> SUFFICES ASSUME NEW k \in 1..Len(arr)
                   PROVE  arr[k].key <= arr[Len(arr)].key /\ arr[k].key \in Int
        OBVIOUS
      <4> HIDE DEF p, search, S
      <4>1. arr[k].key \in Int /\ arr[Len(arr)].key \in Int
        BY <1>2, <3>2
      <4>2. CASE k = Len(arr)
        BY <4>1, <4>2
      <4>3. CASE k # Len(arr)
        <5>1. k < Len(arr)
          <6> DEFINE n == Len(arr)
          <6>1. n \in Nat /\ k \in 1..n /\ k # n
            BY <1>2, <4>3
          <6> HIDE DEF n
          <6>2. k < n
            BY <6>1
          <6> QED BY <6>2 DEF n
        <5> QED BY <1>4, <3>2, <4>1, <5>1
      <4> QED BY <4>2, <4>3
    <3> HIDE DEF p, search, S
    <3>4. \A k \in 1..Len(arr) : arr[k].key < key
      <4>1. arr[Len(arr)].key \in Int /\ arr[Len(arr)].key < key
        BY <3>2, <3>3
      <4> QED BY <3>3, <4>1
    <3> QED BY <1>2, <3>1, <3>4
  <2>3. CASE ~search /\ ~(Last(arr).key < key)
    <3>1. p = Len(arr)
      BY <2>3
    <3>2. Len(arr) \in 1..Len(arr) /\ arr[Len(arr)].key = key
      BY <1>2, <2>3, SMTT(60) DEF Last
    <3> HIDE DEF p, search, S
    <3>3. \A k \in 1..Len(arr) : k < Len(arr) => arr[k].key < key
      BY <1>3, <3>2
    <3>4. \A k \in 1..Len(arr) : ~(Len(arr) < k)
      BY <1>2
    <3> QED BY <1>2, <3>1, <3>2, <3>3, <3>4
  <2> QED BY <2>1, <2>2, <2>3
<1> HIDE DEF p, Post
<1>6. ASSUME p <= Len(arr) /\ arr[p].key = key PROVE Post(new)
  <2> DEFINE f == [arr[p] EXCEPT !.vals = Append(@, val)]
             s == [arr EXCEPT ![p] = f]
  <2>1. f \in S /\ f.key = key /\ f.vals = Append(arr[p].vals, val)
    <3>1. arr[p] \in S /\ arr[p].vals \in Seq(V)
      BY <1>2, <1>5, <1>6
    <3>2. Append(arr[p].vals, val) \in Seq(V)
      BY <3>1
    <3> QED BY <1>6, <3>1, <3>2
  <2>2. p \in 1..Len(arr)
    BY <1>5, <1>6
  <2> HIDE DEF f, S
  <2>3. /\ s \in Seq(S) /\ Len(s) = Len(arr) /\ DOMAIN s = 1..Len(s)
        /\ \A k \in 1..Len(arr) : s[k] = IF k = p THEN f ELSE arr[k]
    BY <1>2, <2>1, <2>2 DEF S
  <2>4. new = s
    BY <1>1, <1>6 DEF f
  <2> HIDE DEF s
  <2>5. \A k \in 1..Len(arr) : s[k].key = arr[k].key
    BY <1>6, <2>1, <2>3
  <2>6. StrictlySorted(s)
    BY <1>3, <2>3, <2>5 DEF StrictlySorted
  <2>7. \A k \in 1..Len(s) : s[k].key = key => k = p
    BY <1>2, <1>5, <2>3, <2>5
  <2>8. Post(s)
    BY <1>6, <2>1, <2>2, <2>3, <2>5, <2>6, <2>7 DEF Post, Merged, S
  <2> QED BY <2>4, <2>8
<1>7. ASSUME ~(p <= Len(arr) /\ arr[p].key = key) PROVE Post(new)
  <2>1. \A k \in 1..Len(arr) : /\ k < p => arr[k].key < key
                               /\ p <= k => key < arr[k].key
    BY <1>2, <1>5, <1>7
  <2>2. e \in S /\ e.key = key /\ e.vals = <<val>> /\ \A s \in S : s.key \in Int
    OBVIOUS
  <2>3. \A k \in 1..Len(arr) : arr[k].key # key
    <3> SUFFICES ASSUME NEW k \in 1..Len(arr) PROVE arr[k].key # key
      OBVIOUS
    <3>1. k < p \/ p <= k
      BY <1>2, <1>5
    <3>2. arr[k].key \in Int
      BY <1>2
    <3>3. arr[k].key < key \/ key < arr[k].key
      BY <2>1, <3>1
    <3> QED BY <3>2, <3>3
  <2> HIDE DEF e, S
  <2>4. new = InsertAt(arr, p, e)
    BY <1>1, <1>7
  <2>5. arr \in Seq(S)
    BY DEF S
  <2>6. e \in S /\ p \in 1..(Len(arr) + 1)
    BY <1>5, <2>2
  <2>7. new \in Seq(S) /\ PutIn(new, arr, p, e)
    BY <2>4, <2>5, <2>6, InsertAtPutIn
  <2>8. StrictlySorted(new)
    <3>1. \A k \in 1..Len(arr) : /\ k < p => arr[k].key < e.key
                                 /\ p <= k => e.key < arr[k].key
      BY <2>1, <2>2
    <3>2. new \in Seq(S) /\ PutIn(new, arr, p, e) /\ StrictlySorted(arr)
      BY <2>7
    <3>3. e \in S /\ \A s \in S : s.key \in Int
      BY <2>2
    <3> HIDE DEF search
    <3> QED BY <2>5, <3>1, <3>2, <3>3, PutInStrictlySorted
  <2>p. /\ Len(new) = Len(arr) + 1
        /\ \A k \in 1..Len(new) : new[k] = IF k < p THEN arr[k] ELSE IF k = p THEN e ELSE arr[k - 1]
    BY <2>7 DEF PutIn
  <2>9. ASSUME NEW j \in 1..Len(arr) PROVE \E k \in 1..Len(new) : new[k] = arr[j]
    <3>1. CASE j < p
      <4>1. j \in 1..Len(new) /\ new[j] = arr[j]
        BY <1>2, <1>5, <2>p, <3>1
      <4> QED BY <4>1
    <3>2. CASE j >= p
      <4>1. j + 1 \in 1..Len(new) /\ new[j + 1] = arr[(j + 1) - 1] /\ (j + 1) - 1 = j
        BY <1>2, <1>5, <2>p, <3>2, SMTT(60)
      <4> QED BY <4>1
    <3> QED BY <1>2, <1>5, <3>1, <3>2
  <2>10. ASSUME NEW k \in 1..Len(new), k # p PROVE \E j \in 1..Len(arr) : new[k] = arr[j]
    <3>1. CASE k < p
      BY <1>2, <1>5, <2>p, <3>1
    <3>2. CASE k > p
      <4>1. k - 1 \in 1..Len(arr) /\ new[k] = arr[k - 1]
        BY <1>2, <1>5, <2>p, <3>2
      <4> QED BY <4>1
    <3>3. k \in Int /\ p \in Int /\ k # p
      BY <1>2, <1>5, <2>p, <2>10
    <3>4. k < p \/ k > p
      BY <3>3
    <3> QED BY <3>1, <3>2, <3>4
  <2>11. p \in 1..Len(new) /\ new[p] = e
    BY <1>5, <2>7 DEF PutIn
  <2>12. \A k \in 1..Len(new) : new[k].key = key => k = p
    BY <2>3, <2>10
  <2>13. Post(new)
    BY <2>2, <2>3, <2>7, <2>8, <2>9, <2>10, <2>11, <2>12 DEF Post, Merged, S
  <2> QED BY <2>13
<1>8. Post(new)
  BY <1>6, <1>7
<1> QED BY <1>8 DEF Post, new

---------------
(* FlattenSeq. *)

Joined(seqs, f, i) == IF i = 1 THEN seqs[i] ELSE f[i - 1] \o seqs[i]

\* FlattenSeq is the last of the partial concatenations f of its sequences.
LEMMA FlattenDef ==
    ASSUME NEW seqs, Len(seqs) # 0
    PROVE  FlattenSeq(seqs) =
             (CHOOSE f : f = [i \in 1..Len(seqs) |-> Joined(seqs, f, i)])[Len(seqs)]
BY DEF FlattenSeq, Joined

\* The partial concatenations exist: the recursion f[i - 1] goes down to 1.
LEMMA FlattenExists ==
    ASSUME NEW seqs, NEW N \in Nat
    PROVE  \E f : f = [i \in 1..N |-> Joined(seqs, f, i)]
<1> DEFINE Part(f, n) == f = [i \in 1..n |-> Joined(seqs, f, i)]
           T == {n \in Nat : \E f : Part(f, n)}
<1>1. 0 \in T
  <2> DEFINE f == [i \in 1..0 |-> seqs]
  <2>1. f = [i \in 1..0 |-> Joined(seqs, f, i)]
    OBVIOUS
  <2> QED BY <2>1
<1>2. ASSUME NEW n \in Nat, n \in T PROVE n + 1 \in T
  <2>1. PICK f : Part(f, n)
    BY <1>2
  <2> DEFINE g == [i \in 1..(n + 1) |-> Joined(seqs, f, i)]
  <2>2. ASSUME NEW i \in 1..n PROVE f[i] = g[i]
    <3>1. f[i] = Joined(seqs, f, i)
      BY <2>1
    <3> QED BY <3>1
  <2> HIDE DEF g
  <2>3. ASSUME NEW i \in 1..(n + 1) PROVE Joined(seqs, f, i) = Joined(seqs, g, i)
    <3>1. CASE i = 1
      BY <3>1 DEF Joined
    <3>2. CASE i # 1
      <4>1. i - 1 \in 1..n
        BY <3>2
      <4>2. f[i - 1] = g[i - 1]
        BY <2>2, <4>1
      <4> QED BY <3>2, <4>2 DEF Joined
    <3> QED BY <3>1, <3>2
  <2>4. [i \in 1..(n + 1) |-> Joined(seqs, f, i)] = [i \in 1..(n + 1) |-> Joined(seqs, g, i)]
    BY <2>3
  <2>5. Part(g, n + 1)
    BY <2>4 DEF g
  <2> HIDE DEF Part
  <2> QED BY <2>5
<1> HIDE DEF T
<1>3. N \in T
  BY <1>1, <1>2, Induction
<1> QED BY <1>3 DEF T

\* s has the elements of the first n of seqs, each at a place of its own: at says
\* which sequence and which of its elements the one at a place of s is.
Spread(s, seqs, n, at) ==
    /\ \A p \in 1..Len(s) : /\ at[p][1] \in 1..n
                            /\ at[p][2] \in 1..Len(seqs[at[p][1]])
                            /\ s[p] = seqs[at[p][1]][at[p][2]]
    /\ \A p, q \in 1..Len(s) : at[p][1] = at[q][1] /\ at[p][2] = at[q][2] => p = q
    /\ \A i \in 1..n : \A k \in 1..Len(seqs[i]) :
          \E p \in 1..Len(s) : at[p][1] = i /\ at[p][2] = k

\* One more sequence is appended: its elements come behind those that are there.
LEMMA SpreadStep ==
    ASSUME NEW S, NEW seqs \in Seq(Seq(S)), NEW n \in Nat, n + 1 <= Len(seqs),
           NEW s \in Seq(S), NEW at, Spread(s, seqs, n, at)
    PROVE  \E bt : Spread(s \o seqs[n + 1], seqs, n + 1, bt)
<1> DEFINE t == seqs[n + 1]
           m == Len(s)
           u == s \o t
           bt == [p \in 1..(m + Len(t)) |-> IF p <= m THEN at[p] ELSE <<n + 1, p - m>>]
<1>1. t \in Seq(S)
  OBVIOUS
<1> HIDE DEF t
<1>2. /\ m \in Nat /\ Len(t) \in Nat /\ Len(u) = m + Len(t)
      /\ \A p \in 1..(m + Len(t)) : u[p] = IF p <= m THEN s[p] ELSE t[p - m]
  BY <1>1, ConcatProperties
<1>3. /\ \A p \in 1..m : bt[p] = at[p]
      /\ \A p \in 1..(m + Len(t)) : p > m => bt[p] = <<n + 1, p - m>>
  BY <1>2
<1> HIDE DEF m, u, bt
<1>4. ASSUME NEW p \in 1..Len(u)
      PROVE  /\ bt[p][1] \in 1..(n + 1)
             /\ bt[p][2] \in 1..Len(seqs[bt[p][1]])
             /\ u[p] = seqs[bt[p][1]][bt[p][2]]
  <2>1. CASE p <= m
    <3>1. p \in 1..m /\ u[p] = s[p] /\ bt[p] = at[p]
      BY <1>2, <1>3, <2>1
    <3>2. /\ at[p][1] \in 1..n
          /\ at[p][2] \in 1..Len(seqs[at[p][1]])
          /\ s[p] = seqs[at[p][1]][at[p][2]]
      BY <3>1 DEF Spread, m
    <3>3. at[p][1] \in 1..(n + 1)
      BY <3>2
    <3> QED BY <3>1, <3>2, <3>3
  <2>2. CASE p > m
    <3>1. u[p] = t[p - m] /\ bt[p] = <<n + 1, p - m>> /\ p - m \in 1..Len(t)
      BY <1>2, <1>3, <2>2
    <3> QED BY <3>1 DEF t
  <2> QED BY <1>2, <2>1, <2>2
<1>5. ASSUME NEW p \in 1..Len(u), NEW q \in 1..Len(u),
             bt[p][1] = bt[q][1], bt[p][2] = bt[q][2]
      PROVE  p = q
  <2>1. ASSUME NEW i \in 1..m PROVE bt[i][1] # n + 1
    <3>1. bt[i] = at[i] /\ at[i][1] \in 1..n
      BY <1>3, <2>1 DEF Spread, m
    <3> QED BY <3>1
  <2>2. CASE p <= m /\ q <= m
    <3>1. p \in 1..m /\ q \in 1..m
      BY <1>2, <2>2
    <3> QED BY <1>3, <1>5, <3>1 DEF Spread, m
  <2>3. CASE p > m /\ q > m
    <3>1. bt[p] = <<n + 1, p - m>> /\ bt[q] = <<n + 1, q - m>>
      BY <1>2, <1>3, <2>3
    <3>2. bt[p][2] = p - m /\ bt[q][2] = q - m
      BY <3>1
    <3>3. p - m = q - m
      BY <1>5, <3>2
    <3> QED BY <1>2, <3>3
  <2>4. CASE p <= m /\ q > m
    BY <1>2, <1>3, <2>4, <1>5, <2>1
  <2>5. CASE p > m /\ q <= m
    BY <1>2, <1>3, <2>5, <1>5, <2>1
  <2> QED BY <1>2, <2>2, <2>3, <2>4, <2>5
<1>6. ASSUME NEW i \in 1..(n + 1), NEW k \in 1..Len(seqs[i])
      PROVE  \E p \in 1..Len(u) : bt[p][1] = i /\ bt[p][2] = k
  <2>1. CASE i = n + 1
    <3>1. m + k \in 1..Len(u) /\ m + k > m /\ (m + k) - m = k
      BY <1>2, <2>1 DEF t
    <3>2. bt[m + k] = <<n + 1, (m + k) - m>>
      BY <1>2, <1>3, <3>1
    <3>3. bt[m + k][1] = n + 1 /\ bt[m + k][2] = k
      BY <3>1, <3>2
    <3> QED BY <2>1, <3>1, <3>3
  <2>2. CASE i # n + 1
    <3>1. i \in 1..n
      BY <2>2
    <3>2. PICK p \in 1..m : at[p][1] = i /\ at[p][2] = k
      BY <3>1 DEF Spread, m
    <3>3. p \in 1..Len(u) /\ bt[p] = at[p]
      BY <1>2, <1>3, <3>2
    <3> QED BY <3>2, <3>3
  <2> QED BY <2>1, <2>2
<1>7. Spread(u, seqs, n + 1, bt)
  BY <1>4, <1>5, <1>6 DEF Spread
<1> QED BY <1>7 DEF u, t

\* A concatenation holds each element of each sequence at a place of its own, and
\* nothing else.
LEMMA FlattenElements ==
    ASSUME NEW S, NEW seqs \in Seq(Seq(S))
    PROVE  /\ FlattenSeq(seqs) \in Seq(S)
           /\ \E at : Spread(FlattenSeq(seqs), seqs, Len(seqs), at)
<1> DEFINE N == Len(seqs)
           Def(f) == f = [i \in 1..N |-> Joined(seqs, f, i)]
           f == CHOOSE g : Def(g)
           Good(i) == f[i] \in Seq(S) /\ \E at : Spread(f[i], seqs, i, at)
           T == {n \in Nat : n + 1 <= N => Good(n + 1)}
<1>1. N \in Nat /\ \A i \in 1..N : seqs[i] \in Seq(S)
  OBVIOUS
<1>2. CASE N = 0
  <2>1. seqs = <<>> /\ FlattenSeq(seqs) = seqs
    BY <1>2 DEF FlattenSeq
  <2>2. Spread(<<>>, seqs, 0, <<>>)
    BY DEF Spread
  <2>3. Len(seqs) = 0
    BY <1>2
  <2>4. <<>> \in Seq(S)
    OBVIOUS
  <2>5. \E at : Spread(<<>>, seqs, 0, at)
    BY <2>2
  <2> HIDE DEF Def, f, Good, T
  <2> QED BY <2>1, <2>3, <2>4, <2>5
<1>3. CASE N # 0
  <2>1. FlattenSeq(seqs) = f[N]
    BY <1>3, FlattenDef
  <2>2. Def(f)
    <3>1. \E g : Def(g)
      BY <1>1, FlattenExists
    <3> QED BY <3>1
  <2> HIDE DEF f
  <2>3. ASSUME NEW i \in 1..N PROVE f[i] = Joined(seqs, f, i)
    BY <2>2
  <2> HIDE DEF Def
  <2>4. 0 \in T
    <3>1. f[1] = seqs[1] /\ seqs[1] \in Seq(S)
      BY <1>1, <1>3, <2>3 DEF Joined
    <3> DEFINE s == seqs[1]
               at == [p \in 1..Len(s) |-> <<1, p>>]
    <3>2. Spread(s, seqs, 1, at)
      <4>1. s \in Seq(S) /\ Len(s) \in Nat
        BY <3>1
      <4>2. \A p \in 1..Len(s) : at[p] = <<1, p>>
        OBVIOUS
      <4> HIDE DEF at
      <4>3. \A p \in 1..Len(s) : at[p][1] = 1 /\ at[p][2] = p
        BY <4>2
      <4>4. \A i \in 1..1 : i = 1
        OBVIOUS
      <4> QED BY <4>1, <4>2, <4>3, <4>4 DEF Spread
    <3> HIDE DEF at, s
    <3>3. f[1] \in Seq(S) /\ \E bt : Spread(f[1], seqs, 1, bt)
      BY <3>1, <3>2 DEF s
    <3> QED BY <3>3
  <2>5. ASSUME NEW n \in Nat, n \in T PROVE n + 1 \in T
    <3> SUFFICES ASSUME n + 2 <= N PROVE Good(n + 2)
      OBVIOUS
    <3>1. Good(n + 1)
      BY <1>1, <2>5
    <3>2. PICK at : Spread(f[n + 1], seqs, n + 1, at)
      BY <3>1
    <3>3. f[n + 2] = f[n + 1] \o seqs[n + 2]
      <4>1. n + 2 \in 1..N /\ n + 2 # 1 /\ (n + 2) - 1 = n + 1
        BY <1>1
      <4> QED BY <2>3, <4>1 DEF Joined
    <3>4. f[n + 2] \in Seq(S)
      BY <1>1, <3>1, <3>3, ConcatProperties
    <3>5. n + 1 \in Nat /\ (n + 1) + 1 = n + 2 /\ (n + 1) + 1 <= Len(seqs) /\ f[n + 1] \in Seq(S)
      BY <3>1
    <3>6. \E bt : Spread(f[n + 1] \o seqs[(n + 1) + 1], seqs, (n + 1) + 1, bt)
      BY <3>2, <3>5, SpreadStep
    <3> QED BY <3>3, <3>4, <3>5, <3>6
  <2>6. N - 1 \in T
    <3> HIDE DEF T
    <3>1. N - 1 \in Nat
      BY <1>1, <1>3
    <3> QED BY <2>4, <2>5, <3>1, Induction
  <2>7. Good(N)
    <3>1. (N - 1) + 1 = N
      BY <1>1
    <3> HIDE DEF Good
    <3> QED BY <1>1, <2>6, <3>1
  <2> QED BY <2>1, <2>7
<1> QED BY <1>2, <1>3

---------------
(* Arithmetic. *)

\* A natural is its quotient times the divisor, plus the remainder.
LEMMA Division ==
    ASSUME NEW a \in Nat, NEW b \in Nat \ {0}
    PROVE  /\ a \div b \in Nat /\ a % b \in 0..(b - 1)
           /\ (a \div b) * b \in Nat
           /\ a = (a \div b) * b + (a % b)
OBVIOUS

\* A product grows with its factor.
LEMMA ProductMonotone ==
    ASSUME NEW a \in Nat, NEW b \in Nat, NEW c \in Nat, b <= c
    PROVE  /\ a * b \in Nat /\ a * c \in Nat
           /\ a * b <= a * c
OBVIOUS

\* A product grows by at least a when its factor grows.
LEMMA ProductStep ==
    ASSUME NEW a \in Nat, NEW b \in Nat, NEW c \in Nat, b < c
    PROVE  /\ b * a \in Nat /\ c * a \in Nat
           /\ b * a + a <= c * a
OBVIOUS

---------------
(* gen_reduce_tasks. *)

\* With no more map threads than reduce threads gen_reduce_tasks queues every
\* reduce task, though it computes tasks_leftover from the wrong number: it is
\* then too large rather than too small.
THEOREM AllReduceTasksQueued ==
    ASSUME args \in Args, num_map_threads \in Nat,
           num_map_threads <= args.num_reduce_threads
    PROVE  ReduceTasksQueued = args.num_reduce_tasks
<1> DEFINE T == args.num_reduce_tasks
           R == args.num_reduce_threads
           P == T \div R
           L == T - P * num_map_threads
<1>1. T \in Nat /\ R \in Nat \ {0}
  BY ArgsAssumption
<1>2. P \in Nat /\ P * R \in Nat /\ T = P * R + (T % R) /\ T % R \in 0..(R - 1)
  BY <1>1, Division
<1>3. P * num_map_threads \in Nat /\ P * num_map_threads <= P * R
  BY <1>1, <1>2, ProductMonotone
<1>4. L \in Int /\ L >= T % R
  <2>1. L = T - P * num_map_threads
    OBVIOUS
  <2> HIDE DEF T, R, P, L
  <2> QED BY <1>1, <1>2, <1>3, <2>1
<1>5. ReduceTasksQueued = Min2(T, P * R + Min2(Max2(L, 0), R))
  BY DEF ReduceTasksQueued
<1> HIDE DEF T, R, P, L
<1>6. P * R + Min2(Max2(L, 0), R) >= T
  BY <1>1, <1>2, <1>4 DEF Min2, Max2
<1>7. Min2(Max2(L, 0), R) \in Nat
  BY <1>1, <1>4 DEF Min2, Max2
<1>8. ReduceTasksQueued = T
  BY <1>1, <1>2, <1>5, <1>6, <1>7 DEF Min2
<1> QED BY <1>8 DEF T

---------------
(* The slices of the merge workers. *)

First(w) == w * SliceLength + Min2(w, Len(merge_input) % num_merge_threads)
Size(w)  == SliceLength + IF w < Len(merge_input) % num_merge_threads THEN 1 ELSE 0

\* With at least two arrays for each thread the fallback "Let's make some
\* progress here" (merge_worker) is not taken.
LEMMA LongSlices ==
    ASSUME Len(merge_input) \in Nat, num_merge_threads \in Nat \ {0},
           2 * num_merge_threads <= Len(merge_input)
    PROVE  /\ SliceLength \in Nat /\ SliceLength >= 2
           /\ Len(merge_input) % num_merge_threads \in 0..(num_merge_threads - 1)
           /\ SliceLength * num_merge_threads \in Nat
           /\ Len(merge_input) = SliceLength * num_merge_threads
                                   + (Len(merge_input) % num_merge_threads)
           /\ \A w \in Nat : Slice(w) = First(w) + 1..Min2(First(w) + Size(w), Len(merge_input))
<1> DEFINE n == Len(merge_input)
           T == num_merge_threads
           L == SliceLength
<1>1. /\ L \in Nat /\ n % T \in 0..(T - 1) /\ L * T \in Nat
      /\ n = L * T + (n % T)
  BY Division DEF SliceLength
<1>2. L >= 2
  <2> SUFFICES ASSUME L <= 1 PROVE FALSE
    BY <1>1
  <2>1. L * T <= T
    <3>1. CASE L = 0
      BY <3>1
    <3>2. CASE L = 1
      BY <3>2
    <3> QED BY <1>1, <3>1, <3>2
  <2> HIDE DEF L, n, T
  <2>2. n \in Nat /\ T \in Nat /\ 2 * T <= n
    BY DEF n, T
  <2> QED BY <1>1, <2>1, <2>2
<1>3. ASSUME NEW w \in Nat
      PROVE  Slice(w) = First(w) + 1..Min2(First(w) + Size(w), Len(merge_input))
  BY <1>1, <1>2 DEF First, Min2, Slice, Size
<1> QED BY <1>1, <1>2, <1>3

\* A slice ends where the next can begin.
LEMMA SlicesApart ==
    ASSUME Len(merge_input) \in Nat, num_merge_threads \in Nat \ {0},
           2 * num_merge_threads <= Len(merge_input),
           NEW v \in Nat, NEW w \in Nat, v < w
    PROVE  /\ First(v) \in Nat /\ First(w) \in Nat /\ Size(v) \in Nat /\ Size(w) \in Nat
           /\ First(v) + Size(v) <= First(w)
<1> DEFINE L == SliceLength
           mod == Len(merge_input) % num_merge_threads
<1>1. L \in Nat /\ mod \in Nat
  BY LongSlices
<1>2. v * L \in Nat /\ w * L \in Nat /\ v * L + L <= w * L
  BY <1>1, ProductStep
<1>3. First(v) = v * L + Min2(v, mod) /\ First(w) = w * L + Min2(w, mod)
  BY DEF First
<1>4. Size(v) = L + (IF v < mod THEN 1 ELSE 0) /\ Size(w) = L + (IF w < mod THEN 1 ELSE 0)
  BY DEF Size
<1> HIDE DEF L, mod
<1>5. Min2(v, mod) + (IF v < mod THEN 1 ELSE 0) <= Min2(w, mod)
  BY <1>1 DEF Min2
<1>6. Min2(v, mod) \in Nat /\ Min2(w, mod) \in Nat
  BY <1>1 DEF Min2
<1>7. First(v) \in Nat /\ First(w) \in Nat
  BY <1>2, <1>3, <1>6
<1>8. Size(v) \in Nat /\ Size(w) \in Nat
  BY <1>1, <1>4
<1>9. First(v) + Size(v) <= First(w)
  <2> DEFINE one == IF v < mod THEN 1 ELSE 0
             a == v * L
             b == w * L
             c == Min2(v, mod)
             d == Min2(w, mod)
  <2>1. one \in Nat
    OBVIOUS
  <2>2. a \in Nat /\ b \in Nat /\ a + L <= b /\ c \in Nat /\ d \in Nat /\ c + one <= d
    BY <1>2, <1>5, <1>6
  <2>3. First(v) = a + c /\ First(w) = b + d /\ Size(v) = L + one
    BY <1>3, <1>4
  <2> HIDE DEF one, a, b, c, d
  <2> QED BY <1>1, <2>1, <2>2, <2>3
<1> QED BY <1>7, <1>8, <1>9

\* Each array of the round's input is in the slice of one merge worker, whatever
\* the number of arrays and workers: it is merged, and freed, exactly once.
THEOREM SlicesPartition ==
    ASSUME Len(merge_input) \in Nat, num_merge_threads \in Nat \ {0},
           2 * num_merge_threads <= Len(merge_input)
    PROVE  \A q \in 1..Len(merge_input) :
             \E w \in 0..(num_merge_threads - 1) :
                /\ q \in Slice(w)
                /\ \A v \in 0..(num_merge_threads - 1) : q \in Slice(v) => v = w
<1> DEFINE n == Len(merge_input)
           T == num_merge_threads
           L == SliceLength
           mod == n % T
           B == mod * (L + 1)
<1>1. /\ n \in Nat /\ T \in Nat \ {0} /\ L \in Nat /\ L >= 2 /\ mod \in 0..(T - 1)
      /\ L * T \in Nat /\ n = L * T + mod
  BY LongSlices
<1>2. \A w \in Nat : Slice(w) = First(w) + 1..Min2(First(w) + Size(w), n)
  BY LongSlices
<1>3. SUFFICES ASSUME NEW q \in 1..n
               PROVE  \E w \in 0..(T - 1) : /\ q \in Slice(w)
                                            /\ \A v \in 0..(T - 1) : q \in Slice(v) => v = w
  OBVIOUS
<1>4. \E w \in 0..(T - 1) : q \in Slice(w)
  <2>1. B \in Nat /\ mod * L \in Nat /\ B = mod * L + mod
    BY <1>1
  <2>2. CASE q - 1 < B
    <3> DEFINE w == (q - 1) \div (L + 1)
    <3>1. /\ w \in Nat /\ w * (L + 1) \in Nat
          /\ q - 1 >= w * (L + 1) /\ q - 1 < w * (L + 1) + (L + 1)
      <4>1. q - 1 \in Nat /\ L + 1 \in Nat \ {0}
        BY <1>1
      <4>2. /\ w \in Nat /\ w * (L + 1) \in Nat
            /\ (q - 1) % (L + 1) \in 0..L
            /\ q - 1 = w * (L + 1) + ((q - 1) % (L + 1))
        <5> DEFINE a == q - 1
                   b == L + 1
        <5>1. a \in Nat /\ b \in Nat \ {0} /\ b - 1 = L
          BY <1>1, <4>1
        <5>2. w = a \div b
          OBVIOUS
        <5> HIDE DEF a, b, w
        <5>3. /\ w \in Nat /\ w * b \in Nat /\ a % b \in 0..(b - 1)
              /\ a = w * b + (a % b)
          BY <5>1, <5>2, Division
        <5>4. a % b \in 0..L
          BY <5>1, <5>3
        <5> QED BY <5>3, <5>4 DEF a, b
      <4> HIDE DEF w
      <4> QED BY <1>1, <4>1, <4>2
    <3> HIDE DEF w
    <3>2. w < mod
      <4> SUFFICES ASSUME mod <= w PROVE FALSE
        BY <1>1, <3>1
      <4>1. (L + 1) * mod <= (L + 1) * w
        BY <1>1, <3>1, ProductMonotone
      <4>2. (L + 1) * mod = B /\ (L + 1) * w = w * (L + 1)
        BY <1>1, <3>1
      <4> QED BY <1>1, <2>1, <2>2, <3>1, <4>1, <4>2
    <3>3. w * L \in Nat /\ w * (L + 1) = w * L + w
      BY <1>1, <3>1
    <3>4. First(w) = w * L + w /\ Size(w) = L + 1
      BY <1>1, <3>1, <3>2 DEF First, Size, Min2
    <3>5. q \in Slice(w)
      <4> HIDE DEF n, T, L, mod, B
      <4>1. First(w) \in Nat /\ Size(w) \in Nat /\ q >= First(w) + 1 /\ q <= First(w) + Size(w)
        BY <1>1, <3>1, <3>3, <3>4
      <4>2. q <= Min2(First(w) + Size(w), n)
        BY <1>1, <4>1 DEF Min2
      <4>3. Min2(First(w) + Size(w), n) \in Nat
        BY <1>1, <4>1 DEF Min2
      <4> QED BY <1>1, <1>2, <3>1, <4>1, <4>2, <4>3
    <3>6. w \in 0..(T - 1)
      BY <1>1, <3>1, <3>2
    <3> QED BY <3>5, <3>6
  <2>3. CASE q - 1 >= B
    <3> DEFINE y == (q - 1) - B
               d == y \div L
               w == mod + d
    <3>1. y \in Nat /\ L \in Nat \ {0}
      BY <1>1, <2>1, <2>3
    <3>2. d \in Nat /\ d * L \in Nat /\ y >= d * L /\ y < d * L + L
      <4> HIDE DEF y
      <4>1. d \in Nat /\ d * L \in Nat /\ y % L \in 0..(L - 1) /\ y = d * L + (y % L)
        BY <3>1, Division
      <4> HIDE DEF d
      <4> QED BY <3>1, <4>1
    <3> HIDE DEF d
    <3>3. w \in Nat /\ w * L \in Nat /\ w * L = mod * L + d * L
      BY <1>1, <2>1, <3>2, SMTT(60)
    <3>4. w < T
      <4> SUFFICES ASSUME T <= w PROVE FALSE
        BY <1>1, <3>3
      <4>1. L * T <= L * w /\ L * w = w * L
        BY <1>1, <3>3, ProductMonotone
      <4> HIDE DEF n, T, L, mod, B, w
      <4>2. y = (q - 1) - B
        OBVIOUS
      <4> HIDE DEF y
      <4> QED BY <1>1, <2>1, <3>1, <3>2, <3>3, <4>1, <4>2
    <3>5. First(w) = w * L + mod /\ Size(w) = L
      BY <1>1, <3>2, <3>3, SMTT(60) DEF First, Size, Min2
    <3>6. q \in Slice(w)
      <4> HIDE DEF n, T, L, mod, B, w
      <4>1. y = (q - 1) - B
        OBVIOUS
      <4> HIDE DEF y
      <4>2. First(w) \in Nat /\ Size(w) \in Nat /\ q >= First(w) + 1 /\ q <= First(w) + Size(w)
        BY <1>1, <2>1, <3>1, <3>2, <3>3, <3>5, <4>1
      <4>3. q <= Min2(First(w) + Size(w), n)
        BY <1>1, <4>2 DEF Min2
      <4>4. Min2(First(w) + Size(w), n) \in Nat
        BY <1>1, <4>2 DEF Min2
      <4> QED BY <1>1, <1>2, <3>3, <4>2, <4>3, <4>4
    <3>7. w \in 0..(T - 1)
      BY <1>1, <3>3, <3>4
    <3> QED BY <3>6, <3>7
  <2> QED BY <1>1, <2>1, <2>2, <2>3
<1>5. ASSUME NEW v \in Nat, NEW w \in Nat, v < w, q \in Slice(v), q \in Slice(w)
      PROVE  FALSE
  <2>1. /\ First(v) \in Nat /\ First(w) \in Nat /\ Size(v) \in Nat /\ Size(w) \in Nat
        /\ First(v) + Size(v) <= First(w)
    BY <1>5, SlicesApart
  <2>2. /\ q \in First(v) + 1..Min2(First(v) + Size(v), n)
        /\ q \in First(w) + 1..Min2(First(w) + Size(w), n)
    BY <1>2, <1>5
  <2> HIDE DEF n
  <2>3. q >= First(w) + 1 /\ q <= First(v) + Size(v)
    <3>1. n \in Nat
      BY <1>1
    <3> QED BY <2>1, <2>2, <3>1 DEF Min2
  <2> QED BY <1>1, <2>1, <2>3
<1> HIDE DEF n, T, L, mod, B
<1>6. PICK w \in 0..(T - 1) : q \in Slice(w)
  BY <1>4
<1>7. ASSUME NEW v \in 0..(T - 1), q \in Slice(v) PROVE v = w
  BY <1>1, <1>5, <1>6, <1>7
<1> QED BY <1>6, <1>7

---------------
(* Phases, places and numbers of workers.                                     *)

\* A step is one of the operations, or none, or a failure, which leaves the job as it is.
LEMMA Steps ==
    ASSUME [Next]_vars
    PROVE  \/ Split \/ StartMap \/ StartReduce \/ StartMerge \/ NextMergeRound
           \/ NextCall \/ map_reduce_finalize
           \/ \E w \in Threads : \/ NextMapTask(w) \/ emit_intermediate(w) \/ EndMapTask(w)
                                 \/ FinishMap(w) \/ NextReduceTask(w) \/ Gather(w)
                                 \/ Reduce(w) \/ identity_reduce(w) \/ FinishReduce(w)
                                 \/ MergeStep(w) \/ FinishMerge(w)
           \/ UNCHANGED jobVars
BY DEF Next, Caller, Worker, Finished, tpool_set_fails, NoLock, vars

Phases == {"split", "map", "reduce", "merge", "done", "finalized"}
Places == {"off", "task", "emit", "gather", "reduce", "iterate", "merge"}
Counts == /\ num_map_threads \in Nat /\ num_map_threads <= args.num_map_threads
          /\ num_merge_threads \in Nat \ {0}
          /\ phase = "split" => IsFiniteSet(tasks)
\* The number of workers of the phase.
WorkersNow == CASE phase = "map" -> num_map_threads
                [] phase = "reduce" -> args.num_reduce_threads
                [] phase = "merge" -> num_merge_threads
                [] OTHER -> 0
Numbered == \A w \in Threads : pc[w] # "off" => w < WorkersNow
IInv == /\ args \in Args /\ calls \in Seq(Args) /\ phase \in Phases
        /\ pc \in [Threads -> Places]
        /\ Counts /\ Numbered

\* What Args says of the arguments of one call.
LEMMA CallType ==
    ASSUME NEW a \in Args
    PROVE  /\ a.num_map_threads \in Nat \ {0} /\ a.num_reduce_threads \in Nat \ {0}
           /\ a.num_merge_threads \in Nat \ {0} /\ a.num_reduce_tasks \in Nat \ {0, 1}
           /\ a.use_one_queue_per_task \in BOOLEAN
BY ArgsAssumption

\* There are merge threads, no more than were asked for or than half the reduce threads.
LEMMA MergeThreadsBound ==
    ASSUME NEW a \in Args
    PROVE  /\ MergeThreads(a) \in Nat \ {0}
           /\ \/ MergeThreads(a) <= a.num_reduce_threads
              \/ a.use_one_queue_per_task /\ MergeThreads(a) <= a.num_merge_threads
<1> DEFINE r == a.num_reduce_threads
           g == a.num_merge_threads
           t == a.num_reduce_tasks
<1>1. r \in Nat \ {0} /\ g \in Nat \ {0} /\ t \in Nat \ {0, 1}
  BY CallType
<1>2. MergeThreads(a) = Min2(Max2(IF a.use_one_queue_per_task THEN g ELSE r \div 2, 1), t \div 2)
  BY DEF MergeThreads
<1> HIDE DEF r, g, t
<1>3. r \div 2 \in Nat /\ r \div 2 <= r /\ t \div 2 \in Nat \ {0}
  BY <1>1
<1>4. /\ Max2(g, 1) \in Nat \ {0} /\ Max2(g, 1) <= g
      /\ Max2(r \div 2, 1) \in Nat \ {0} /\ Max2(r \div 2, 1) <= r
  BY <1>1, <1>3 DEF Max2
<1>5. CASE a.use_one_queue_per_task
  BY <1>1, <1>2, <1>3, <1>4, <1>5 DEF Min2, g
<1>6. CASE ~a.use_one_queue_per_task
  BY <1>1, <1>2, <1>3, <1>4, <1>6 DEF Min2, r
<1> QED BY <1>5, <1>6

\* The workers that are started have the numbers below the number of workers.
LEMMA StartNumbers ==
    ASSUME NEW n, NEW place \in Places, Start(n, place)
    PROVE  /\ pc' \in [Threads -> Places]
           /\ \A w \in Threads : pc'[w] # "off" => w < n
BY DEF Start, Places

\* A step that moves one worker, of a phase that goes on.
LEMMA MoveKeeps ==
    ASSUME IInv, UNCHANGED <<envVars, phase>>, IsFiniteSet(tasks) => IsFiniteSet(tasks'),
           NEW w \in Threads, pc[w] # "off",
           NEW place \in Places, pc' = [pc EXCEPT ![w] = place]
    PROVE  IInv'
BY DEF envVars, IInv, Numbered, WorkersNow, Counts

\* A step that moves no worker.
LEMMA StayKeeps ==
    ASSUME IInv, UNCHANGED <<envVars, phase, pc>>, IsFiniteSet(tasks) => IsFiniteSet(tasks')
    PROVE  IInv'
BY DEF envVars, IInv, Numbered, WorkersNow, Counts

\* No step of a worker disturbs IInv.
LEMMA WorkerKeeps ==
    ASSUME IInv, NEW w \in Threads,
           \/ NextMapTask(w) \/ emit_intermediate(w) \/ EndMapTask(w) \/ FinishMap(w)
           \/ NextReduceTask(w) \/ Gather(w) \/ Reduce(w) \/ identity_reduce(w)
           \/ FinishReduce(w) \/ MergeStep(w) \/ FinishMerge(w)
    PROVE  IInv'
<1>1. CASE NextMapTask(w)
  <2>1. PICK t \in tasks : tasks' = tasks \ {t}
    BY <1>1 DEF NextMapTask
  <2>2. IsFiniteSet(tasks) => IsFiniteSet(tasks')
    BY <2>1, FS_RemoveElement
  <2> QED BY <1>1, <2>2, MoveKeeps DEF NextMapTask, Goto, Places
<1>2. CASE emit_intermediate(w)
  BY <1>2, StayKeeps DEF emit_intermediate, callerVars
<1>3. CASE EndMapTask(w)
  BY <1>3, MoveKeeps DEF EndMapTask, Goto, callerVars, Places
<1>4. CASE FinishMap(w)
  BY <1>4, MoveKeeps DEF FinishMap, Goto, callerVars, Places
<1>5. CASE NextReduceTask(w)
  <2>1. PICK t \in tasks : tasks' = tasks \ {t}
    BY <1>5 DEF NextReduceTask
  <2>2. IsFiniteSet(tasks) => IsFiniteSet(tasks')
    BY <2>1, FS_RemoveElement
  <2> QED BY <1>5, <2>2, MoveKeeps DEF NextReduceTask, Goto, Places
<1>6. CASE Gather(w)
  <2>1. PICK place \in Places : pc' = [pc EXCEPT ![w] = place]
    BY <1>6 DEF Gather, Places
  <2>2. pc[w] # "off" /\ UNCHANGED <<envVars, phase>> /\ tasks' = tasks
    BY <1>6 DEF Gather, callerVars
  <2> QED BY <2>1, <2>2, MoveKeeps
<1>7. CASE Reduce(w)
  <2>1. PICK place \in Places : pc' = [pc EXCEPT ![w] = place]
    BY <1>7 DEF Reduce, NextKey, Places
  <2>2. pc[w] # "off" /\ UNCHANGED <<envVars, phase>> /\ tasks' = tasks
    BY <1>7 DEF Reduce, callerVars
  <2> QED BY <2>1, <2>2, MoveKeeps
<1>8. CASE identity_reduce(w)
  <2>1. PICK place \in Places : pc' = [pc EXCEPT ![w] = place]
    BY <1>8 DEF identity_reduce, NextKey, Places
  <2>2. pc[w] # "off" /\ UNCHANGED <<envVars, phase>> /\ tasks' = tasks
    BY <1>8 DEF identity_reduce, callerVars
  <2> QED BY <2>1, <2>2, MoveKeeps
<1>9. CASE FinishReduce(w)
  BY <1>9, MoveKeeps DEF FinishReduce, Goto, callerVars, Places
<1>10. CASE MergeStep(w)
  BY <1>10, StayKeeps DEF MergeStep, callerVars
<1>11. CASE FinishMerge(w)
  BY <1>11, MoveKeeps DEF FinishMerge, Goto, callerVars, Places
<1> QED BY <1>1, <1>2, <1>3, <1>4, <1>5, <1>6, <1>7, <1>8, <1>9, <1>10, <1>11

\* No step of the caller disturbs IInv.
LEMMA CallerKeeps ==
    ASSUME IInv,
           \/ Split \/ StartMap \/ StartReduce \/ StartMerge \/ NextMergeRound \/ NextCall
           \/ map_reduce_finalize
    PROVE  IInv'
<1>0. /\ args.num_map_threads \in Nat \ {0} /\ args.num_reduce_threads \in Nat \ {0}
  BY CallType DEF IInv
<1>1. CASE Split
  <2>1. PICK t : tasks' = tasks \cup {t}
    BY <1>1 DEF Split
  <2>2. IsFiniteSet(tasks) => IsFiniteSet(tasks')
    BY <2>1, FS_AddElement
  <2> QED BY <1>1, <2>2, StayKeeps DEF Split
<1>2. CASE StartMap
  <2>1. /\ args' = args /\ calls' = calls /\ pool' = pool
        /\ num_merge_threads' = num_merge_threads /\ phase = "split" /\ phase' = "map"
        /\ num_map_threads' = Min2(Cardinality(tasks), num_map_threads)
        /\ Start(num_map_threads', "task")
    BY <1>2 DEF StartMap
  <2>2. Cardinality(tasks) \in Nat
    BY <2>1, FS_CardinalityType DEF IInv, Counts
  <2>3. num_map_threads' \in Nat /\ num_map_threads' <= args.num_map_threads
    BY <1>0, <2>1, <2>2 DEF IInv, Counts, Min2
  <2>4. Counts'
    BY <2>1, <2>3 DEF IInv, Counts
  <2>6. WorkersNow' = num_map_threads'
    BY <2>1 DEF WorkersNow
  <2>7. pc' \in [Threads -> Places] /\ Numbered'
    BY <2>1, <2>6, StartNumbers DEF Numbered, Places
  <2> QED BY <2>1, <2>4, <2>7 DEF IInv, Phases
<1>3. CASE StartReduce
  <2>1. /\ args' = args /\ calls' = calls /\ pool' = pool /\ phase = "map" /\ phase' = "reduce"
        /\ num_merge_threads' = num_merge_threads /\ num_map_threads' = num_map_threads
        /\ Start(args.num_reduce_threads, "task")
    BY <1>3 DEF StartReduce, envVars
  <2>2. Counts'
    BY <2>1 DEF IInv, Counts
  <2>3. WorkersNow' = args.num_reduce_threads
    BY <2>1 DEF WorkersNow
  <2>4. pc' \in [Threads -> Places] /\ Numbered'
    BY <2>1, <2>3, StartNumbers DEF Numbered, Places
  <2> QED BY <2>1, <2>2, <2>4 DEF IInv, Phases
<1>4. CASE StartMerge
  <2>1. /\ args' = args /\ calls' = calls /\ pool' = pool /\ phase = "reduce" /\ AllOff
        /\ num_merge_threads' = num_merge_threads /\ num_map_threads' = num_map_threads
    BY <1>4 DEF StartMerge, envVars
  <2>2. CASE phase' = "done" /\ pc' = pc
    BY <2>1, <2>2 DEF IInv, Counts, Numbered, AllOff, Phases
  <2>3. CASE phase' = "merge" /\ Start(num_merge_threads, "merge")
    BY <2>1, <2>3, StartNumbers DEF IInv, Counts, WorkersNow, Numbered, Places, Phases
  <2> QED BY <1>4, <2>2, <2>3 DEF StartMerge
<1>5. CASE NextMergeRound
  <2>1. /\ args' = args /\ calls' = calls /\ pool' = pool /\ phase = "merge" /\ AllOff
        /\ num_map_threads' = num_map_threads
        /\ num_merge_threads' = Max2(num_merge_threads \div 2, 1)
    BY <1>5 DEF NextMergeRound
  <2>2. num_merge_threads \in Nat \ {0}
    BY DEF IInv, Counts
  <2>3. num_merge_threads' \in Nat \ {0} /\ num_merge_threads' <= num_merge_threads
    BY <2>1, <2>2 DEF Max2
  <2>4. CASE phase' = "merge" /\ Start(num_merge_threads', "merge")
    BY <2>1, <2>3, <2>4, StartNumbers DEF IInv, Counts, WorkersNow, Numbered, Places, Phases
  <2>5. CASE phase' = "done" /\ pc' = pc
    BY <2>1, <2>3, <2>5 DEF IInv, Counts, Numbered, AllOff, Phases
  <2> QED BY <1>5, <2>4, <2>5 DEF NextMergeRound
<1>6. CASE NextCall
  <2>1. /\ phase = "done" /\ phase' = "split" /\ calls # <<>>
        /\ args' = Head(calls) /\ calls' = Tail(calls) /\ pool' = pool /\ pc' = pc
        /\ num_map_threads' = args'.num_map_threads
        /\ num_merge_threads' = MergeThreads(args') /\ tasks' = {}
    BY <1>6 DEF NextCall
  <2>2. /\ Head(calls) = calls[1] /\ Len(calls) \in Nat \ {0} /\ calls[1] \in Args
        /\ Tail(calls) \in Seq(Args) /\ Len(Tail(calls)) = Len(calls) - 1
        /\ \A k \in 1..(Len(calls) - 1) : Tail(calls)[k] = calls[k + 1]
    BY <2>1 DEF IInv
  <2>4. args' \in Args
    BY <2>1, <2>2
  <2>5. num_merge_threads' \in Nat \ {0}
    BY <2>1, <2>4, MergeThreadsBound
  <2>6. Counts'
    BY <2>1, <2>4, <2>5, CallType, FS_EmptySet DEF Counts
  <2>8. Numbered'
    BY <2>1 DEF Threads, WorkersNow, IInv, Numbered
  <2> QED BY <2>1, <2>2, <2>4, <2>6, <2>8 DEF IInv, Phases
<1>7. CASE map_reduce_finalize
  BY <1>7 DEF map_reduce_finalize, IInv, Counts, WorkersNow, Phases, Numbered
<1> QED BY <1>1, <1>2, <1>3, <1>4, <1>5, <1>6, <1>7

LEMMA PhaseInvariant == Spec => []IInv
<1>1. Init => IInv
  <2> SUFFICES ASSUME Init PROVE IInv
    OBVIOUS
  <2>1. PICK p \in Programs : args = p[1] /\ calls = Tail(p)
    BY DEF Init
  <2>2. p \in Seq(Args) /\ p # <<>>
    BY ProgramsAssumption
  <2>3. args \in Args /\ calls \in Seq(Args)
    BY <2>1, <2>2
  <2>4. /\ num_map_threads = args.num_map_threads /\ num_merge_threads = MergeThreads(args)
        /\ phase = "split" /\ tasks = {} /\ pc = [w \in Threads |-> "off"]
    BY DEF Init
  <2>5. Counts
    BY <2>3, <2>4, CallType, MergeThreadsBound, FS_EmptySet DEF Counts
  <2>6. Numbered
    BY <2>4 DEF Numbered
  <2> QED BY <2>3, <2>4, <2>5, <2>6 DEF IInv, Phases, Places
<1>2. IInv /\ [Next]_vars => IInv'
  <2> SUFFICES ASSUME IInv, [Next]_vars PROVE IInv'
    OBVIOUS
  <2>1. CASE UNCHANGED jobVars
    BY <2>1, StayKeeps DEF jobVars, callerVars
  <2> QED BY <2>1, Steps, CallerKeeps, WorkerKeeps
<1> QED BY <1>1, <1>2, PTL DEF Spec

---------------
(* The types of the arrays and of the workers' variables. *)

MapWorkers == 0..(args.num_map_threads - 1)
Entries    == [key : Int, vals : Seq(SUBSET Emissions)]
Results    == [key : Int, val : SUBSET Emissions]
Works      == [task : ReduceTasks \cup {-1}, min : Seq(Int), next : Seq(Int), itr : Seq(Entries)]
Arr(m, r)  == intermediate_vals[m][r]
Row(key)   == args.partition[key] % args.num_reduce_tasks
Held(w)    == pc[w] \in {"gather", "reduce", "iterate"}

ArraysOK ==
    /\ intermediate_vals \in [MapWorkers -> [ReduceTasks -> Seq(Entries)]]
    /\ \A m \in MapWorkers, r \in ReduceTasks :
          /\ StrictlySorted(Arr(m, r))
          /\ \A k \in 1..Len(Arr(m, r)) : Arr(m, r)[k].vals # <<>>
PosOK ==
    /\ pos \in [MapWorkers -> [ReduceTasks -> Nat]]
    /\ \A m \in MapWorkers, r \in ReduceTasks :
          /\ pos[m][r] <= Len(Arr(m, r))
          /\ phase \in {"split", "map"} => pos[m][r] = 0
FinalOK == final_vals \in [Queues(args) -> Seq(Results)]
MergeOK == /\ merge_input \in Seq(Seq(Results)) /\ merge_vals \in Seq(Seq(Results))
           /\ result \in Seq(Results)
           /\ phase = "merge" => /\ Len(merge_vals) = num_merge_threads
                                 /\ 2 * num_merge_threads <= Len(merge_input)
TodoOK == todo \in [Threads -> Seq(Emissions)]
WorkOK == work \in [Threads -> Works]

\* Where a worker can be in each phase; map tasks are finished when they are left.
PlacesIn == CASE phase = "map" -> {"off", "task", "emit"}
              [] phase = "reduce" -> {"off", "task", "gather", "reduce", "iterate"}
              [] phase = "merge" -> {"off", "merge"}
              [] OTHER -> {"off"}
PlacesOK == \A w \in Threads : pc[w] \in PlacesIn /\ (pc[w] # "emit" => todo[w] = <<>>)

NumbersOK ==
    /\ num_map_threads \in 1..args.num_map_threads
    /\ num_merge_threads \in 1..MaxThreads
    /\ phase \in {"split", "map", "reduce"} => num_merge_threads = MergeThreads(args)
    /\ pool \in 0..MaxThreads

TasksOK ==
    /\ splitter_pos \in 0..Units
    /\ IF phase \in {"split", "map"}
         THEN \A t \in tasks : t.first \in 1..t.last /\ t.last \in 1..Units
         ELSE tasks \subseteq 0..(ReduceTasksQueued - 1)
    /\ phase = "split" => splitter_pos = 0 \/ tasks # {}

\* The array of some map thread for task t has the key at its position.
Waits(t, key) == \E m \in MapThreads : /\ pos[m][t] < Len(Arr(m, t))
                                       /\ Arr(m, t)[pos[m][t] + 1].key = key

\* A reduce task is in the queue or with one worker, and while the worker has it
\* the keys it goes for are really there and the values not empty.
Holder(w) ==
    /\ ~Held(w) => work[w].itr = <<>>
    /\ Held(w) => work[w].task \in ReduceTasks /\ work[w].task \notin tasks
    /\ pc[w] = "gather" =>
          /\ work[w].next = <<>> /\ work[w].itr = <<>>
          /\ work[w].min # <<>> => /\ Len(work[w].min) = 1
                                   /\ Waits(work[w].task, work[w].min[1])
    /\ pc[w] \in {"reduce", "iterate"} =>
          /\ Len(work[w].min) = 1
          /\ work[w].next # <<>> => /\ Len(work[w].next) = 1
                                    /\ Waits(work[w].task, work[w].next[1])
          /\ work[w].itr # <<>>
          /\ \A l \in 1..Len(work[w].itr) : work[w].itr[l].vals # <<>>
    /\ pc[w] = "iterate" => Len(work[w].itr) = 1
HeldApart == \A v, w \in Threads : Held(v) /\ Held(w) /\ work[v].task = work[w].task => v = w
HeldOK == HeldApart /\ \A w \in Threads : Holder(w)

TInv == /\ ArraysOK /\ PosOK /\ FinalOK /\ MergeOK /\ TodoOK /\ WorkOK
        /\ PlacesOK /\ NumbersOK /\ TasksOK /\ HeldOK

---------------
(* What an operation may change. *)

\* Only the caller changes the phase, the call and the numbers of threads.
LEMMA PhaseChange ==
    ASSUME [Next]_vars
    PROVE  \/ UNCHANGED <<args, phase, num_map_threads, num_merge_threads>>
           \/ StartMap \/ StartReduce \/ StartMerge \/ NextMergeRound \/ NextCall
           \/ map_reduce_finalize
BY Steps, ZenonT(60) DEF Split, NextMapTask, emit_intermediate, EndMapTask, FinishMap, NextReduceTask, Gather,
     Reduce, identity_reduce, FinishReduce, MergeStep, FinishMerge, jobVars, envVars, callerVars

\* The arrays of the map workers change where a worker emits or combines.
LEMMA ArrayChange ==
    ASSUME [Next]_vars
    PROVE  \/ UNCHANGED <<args, intermediate_vals>>
           \/ NextCall
           \/ \E w \in Threads : emit_intermediate(w) /\ args' = args
           \/ \E w \in Threads : FinishMap(w) /\ args' = args
BY Steps, ZenonT(60) DEF Split, StartMap, StartReduce, StartMerge, NextMergeRound, map_reduce_finalize,
     NextMapTask, emit_intermediate, EndMapTask, FinishMap, NextReduceTask, Gather, Reduce,
     identity_reduce, FinishReduce, MergeStep, FinishMerge, jobVars, envVars

\* The reduce workers' positions change where a worker gathers.
LEMMA PosChange ==
    ASSUME [Next]_vars
    PROVE  \/ UNCHANGED <<args, pos>>
           \/ NextCall
           \/ \E w \in Threads : Gather(w) /\ args' = args
BY Steps, ZenonT(60) DEF Split, StartMap, StartReduce, StartMerge, NextMergeRound, map_reduce_finalize,
     NextMapTask, emit_intermediate, EndMapTask, FinishMap, NextReduceTask, Gather, Reduce,
     identity_reduce, FinishReduce, MergeStep, FinishMerge, jobVars, envVars

\* The arrays of results change where a worker reduces.
LEMMA FinalChange ==
    ASSUME [Next]_vars
    PROVE  \/ UNCHANGED <<args, final_vals>>
           \/ NextCall
           \/ \E w \in Threads : Reduce(w) /\ args' = args
           \/ \E w \in Threads : identity_reduce(w) /\ args' = args
BY Steps, ZenonT(60) DEF Split, StartMap, StartReduce, StartMerge, NextMergeRound, map_reduce_finalize,
     NextMapTask, emit_intermediate, EndMapTask, FinishMap, NextReduceTask, Gather, Reduce,
     identity_reduce, FinishReduce, MergeStep, FinishMerge, jobVars, envVars

\* The arrays of the merge phase change at a step of it and where a round begins.
LEMMA MergeChange ==
    ASSUME [Next]_vars
    PROVE  \/ UNCHANGED <<args, mergeVars>>
           \/ NextCall \/ StartMerge \/ NextMergeRound
           \/ \E w \in Threads : MergeStep(w) /\ args' = args
BY Steps, ZenonT(60) DEF Split, StartMap, StartReduce, map_reduce_finalize,
     NextMapTask, emit_intermediate, EndMapTask, FinishMap, NextReduceTask, Gather, Reduce,
     identity_reduce, FinishReduce, MergeStep, FinishMerge, jobVars, envVars

\* What a map worker has left to emit changes where it takes a task or emits.
LEMMA TodoChange ==
    ASSUME [Next]_vars
    PROVE  \/ UNCHANGED <<args, todo>>
           \/ NextCall
           \/ \E w \in Threads : NextMapTask(w) /\ args' = args
           \/ \E w \in Threads : emit_intermediate(w) /\ args' = args
BY Steps, ZenonT(60) DEF Split, StartMap, StartReduce, StartMerge, NextMergeRound, map_reduce_finalize,
     NextMapTask, emit_intermediate, EndMapTask, FinishMap, NextReduceTask, Gather, Reduce,
     identity_reduce, FinishReduce, MergeStep, FinishMerge, jobVars, envVars

\* What a reduce worker works on changes at the steps of the reduce phase.
LEMMA WorkChange ==
    ASSUME [Next]_vars
    PROVE  \/ UNCHANGED <<args, work>>
           \/ NextCall
           \/ \E w \in Threads : NextReduceTask(w) /\ args' = args
           \/ \E w \in Threads : Gather(w) /\ args' = args
           \/ \E w \in Threads : Reduce(w) /\ args' = args
           \/ \E w \in Threads : identity_reduce(w) /\ args' = args
BY Steps, ZenonT(60) DEF Split, StartMap, StartReduce, StartMerge, NextMergeRound, map_reduce_finalize,
     NextMapTask, emit_intermediate, EndMapTask, FinishMap, NextReduceTask, Gather, Reduce,
     identity_reduce, FinishReduce, MergeStep, FinishMerge, jobVars, envVars

\* The keys that are emitted are integers of the partition.
LEMMA EmitsType ==
    ASSUME args \in Args
    PROVE  /\ Units \in Nat \ {0}
           /\ \A u \in 1..Units : args.emits[u] \in Seq(DOMAIN args.partition)
           /\ DOMAIN args.partition \subseteq Int
           /\ \A key \in DOMAIN args.partition : args.partition[key] \in Nat
BY ArgsAssumption DEF Units

\* The partition gives each key a reduce task.
LEMMA RowType ==
    ASSUME args \in Args, NEW key \in DOMAIN args.partition
    PROVE  key \in Int /\ Row(key) \in ReduceTasks
<1>1. key \in Int /\ args.partition[key] \in Nat /\ args.num_reduce_tasks \in Nat \ {0}
  BY EmitsType, CallType
<1> QED BY <1>1 DEF Row, ReduceTasks

\* An emission is the k-th of a unit of the input, and its key is in the partition.
LEMMA EmissionType ==
    ASSUME args \in Args, NEW e \in Emissions
    PROVE  /\ e[1] \in 1..Units /\ e[2] \in 1..Len(args.emits[e[1]]) /\ e = <<e[1], e[2]>>
           /\ KeyOf(e) \in DOMAIN args.partition /\ KeyOf(e) \in Int
           /\ Row(KeyOf(e)) \in ReduceTasks
<1>1. PICK u \in 1..Units : \E k \in DOMAIN args.emits[u] : e = <<u, k>>
  BY DEF Emissions
<1>2. PICK k \in DOMAIN args.emits[u] : e = <<u, k>>
  BY <1>1
<1>3. args.emits[u] \in Seq(DOMAIN args.partition)
  BY EmitsType
<1>4. k \in 1..Len(args.emits[u]) /\ args.emits[u][k] \in DOMAIN args.partition
  BY <1>3
<1>5. e[1] = u /\ e[2] = k /\ e = <<e[1], e[2]>>
  BY <1>2
<1>6. KeyOf(e) = args.emits[u][k]
  BY <1>5 DEF KeyOf
<1> QED BY <1>4, <1>5, <1>6, RowType

\* Each place of each unit's emissions is an emission.
LEMMA EmissionIn ==
    ASSUME args \in Args, NEW u \in 1..Units, NEW k \in 1..Len(args.emits[u])
    PROVE  <<u, k>> \in Emissions
<1>1. DOMAIN args.emits[u] = 1..Len(args.emits[u])
  BY EmitsType
<1> QED BY <1>1 DEF Emissions

\* The types of one array and of its entries, whose keys ascend.
LEMMA ArrayType ==
    ASSUME ArraysOK, NEW m \in MapWorkers, NEW r \in ReduceTasks
    PROVE  /\ Arr(m, r) \in Seq(Entries) /\ Len(Arr(m, r)) \in Nat
           /\ DOMAIN Arr(m, r) = 1..Len(Arr(m, r))
           /\ \A k \in 1..Len(Arr(m, r)) : /\ Arr(m, r)[k] \in Entries /\ Arr(m, r)[k].key \in Int
                                           /\ Arr(m, r)[k].vals \in Seq(SUBSET Emissions)
                                           /\ Arr(m, r)[k].vals # <<>>
           /\ \A k, l \in 1..Len(Arr(m, r)) : k < l => Arr(m, r)[k].key < Arr(m, r)[l].key
<1>1. Arr(m, r) \in Seq(Entries)
  BY DEF ArraysOK, Arr
<1>2. Len(Arr(m, r)) \in Nat /\ DOMAIN Arr(m, r) = 1..Len(Arr(m, r))
  BY <1>1
<1>3. \A k \in 1..Len(Arr(m, r)) : Arr(m, r)[k] \in Entries /\ Arr(m, r)[k].vals # <<>>
  BY <1>1, ElementOfSeq DEF ArraysOK
<1>4. \A s \in Entries : s.key \in Int /\ s.vals \in Seq(SUBSET Emissions)
  BY DEF Entries
<1>5. \A k, l \in 1..Len(Arr(m, r)) : k < l => Arr(m, r)[k].key < Arr(m, r)[l].key
  BY <1>2 DEF ArraysOK, StrictlySorted
<1> QED BY <1>1, <1>2, <1>3, <1>4, <1>5

\* A worker has the number of a thread of its phase.
LEMMA WorkerNumber ==
    ASSUME IInv, PlacesOK, NumbersOK, NEW w \in Threads, pc[w] # "off"
    PROVE  /\ w \in Nat
           /\ phase \in {"map", "reduce", "merge"}
           /\ phase = "map" => w \in MapThreads /\ w \in MapWorkers
           /\ phase = "reduce" => w < args.num_reduce_threads
           /\ phase = "merge" => w \in 0..(num_merge_threads - 1)
<1>1. w \in Nat /\ w < WorkersNow
  BY DEF IInv, Numbered, Threads
<1>2. phase \in {"map", "reduce", "merge"}
  BY DEF PlacesOK, PlacesIn, IInv, Phases
<1>3. args.num_map_threads \in Nat /\ num_map_threads \in 1..args.num_map_threads
  BY CallType DEF IInv, NumbersOK
<1>4. num_merge_threads \in Nat /\ args.num_reduce_threads \in Nat
  BY CallType DEF IInv, Counts
<1>5. CASE phase = "map"
  BY <1>1, <1>3, <1>5 DEF WorkersNow, MapThreads, MapWorkers
<1>6. CASE phase = "reduce"
  BY <1>1, <1>4, <1>6 DEF WorkersNow
<1>7. CASE phase = "merge"
  BY <1>1, <1>4, <1>7 DEF WorkersNow
<1> QED BY <1>1, <1>2, <1>5, <1>6, <1>7

---------------
(* The arrays of the map workers. *)

\* The map workers of a call are among the rows its arguments ask for.
LEMMA MapSubset ==
    ASSUME IInv, NumbersOK
    PROVE  MapThreads \subseteq MapWorkers /\ args.num_map_threads \in Nat /\ num_map_threads \in Nat
BY CallType DEF IInv, NumbersOK, MapThreads, MapWorkers

\* What is defined from the arguments stays while they do.
LEMMA ArgsStay ==
    ASSUME args' = args
    PROVE  /\ Units' = Units /\ Emissions' = Emissions /\ ReduceTasks' = ReduceTasks
           /\ MapWorkers' = MapWorkers /\ Entries' = Entries /\ Results' = Results
           /\ Works' = Works /\ Queues(args)' = Queues(args)
           /\ ReduceTasksQueued' = ReduceTasksQueued \/ num_map_threads' # num_map_threads
           /\ \A key : Row(key)' = Row(key)
           /\ \A e : KeyOf(e)' = KeyOf(e)
<1>1. Units' = Units /\ ReduceTasks' = ReduceTasks /\ MapWorkers' = MapWorkers
  BY DEF Units, ReduceTasks, MapWorkers
<1>2. Emissions' = Emissions
  BY <1>1 DEF Emissions
<1>3. Entries' = Entries /\ Results' = Results
  BY <1>2 DEF Entries, Results
<1>4. Works' = Works
  BY <1>1, <1>3 DEF Works
<1>5. Queues(args)' = Queues(args)
  OBVIOUS
<1>6. ReduceTasksQueued' = ReduceTasksQueued \/ num_map_threads' # num_map_threads
  BY DEF ReduceTasksQueued
<1>7. (\A key : Row(key)' = Row(key)) /\ (\A e : KeyOf(e)' = KeyOf(e))
  BY DEF Row, KeyOf
<1> QED BY <1>1, <1>2, <1>3, <1>4, <1>5, <1>6, <1>7

\* A step that leaves the arrays alone keeps what is said of them.
LEMMA ArraysStay ==
    ASSUME ArraysOK, UNCHANGED <<args, intermediate_vals>>
    PROVE  ArraysOK' /\ \A m, r : Arr(m, r)' = Arr(m, r)
BY ArgsStay DEF Arr, ArraysOK

\* What emit_intermediate does to the array of the key.
LEMMA EmitArrays ==
    ASSUME IInv, TInv, NEW w \in Threads, emit_intermediate(w)
    PROVE  /\ phase = "map" /\ w \in MapThreads /\ w \in MapWorkers
           /\ Len(todo[w]) \in Nat \ {0} /\ Head(todo[w]) = todo[w][1] /\ todo[w][1] \in Emissions
           /\ LET e == todo[w][1]
                  r == Row(KeyOf(e))
              IN  /\ r \in ReduceTasks
                  /\ intermediate_vals' = [intermediate_vals EXCEPT ![w] = [@ EXCEPT ![r] =
                                             insert_keyval_merged(Arr(w, r), KeyOf(e), {e})]]
                  /\ \A m \in MapWorkers, s \in ReduceTasks :
                        Arr(m, s)' = IF m = w /\ s = r
                                       THEN insert_keyval_merged(Arr(w, r), KeyOf(e), {e})
                                       ELSE Arr(m, s)
<1>1. pc[w] = "emit" /\ todo[w] # <<>> /\ todo[w] \in Seq(Emissions)
  BY DEF emit_intermediate, TInv, TodoOK
<1>2. phase = "map" /\ w \in MapThreads /\ w \in MapWorkers
  BY <1>1, WorkerNumber DEF TInv, PlacesOK, PlacesIn
<1>3. Len(todo[w]) \in Nat \ {0} /\ Head(todo[w]) = todo[w][1] /\ todo[w][1] \in Emissions
  BY <1>1
<1> DEFINE e == todo[w][1]
           r == Row(KeyOf(e))
           new == insert_keyval_merged(Arr(w, r), KeyOf(e), {e})
<1>4. r \in ReduceTasks
  BY <1>3, EmissionType DEF IInv
<1>5. intermediate_vals' = [intermediate_vals EXCEPT ![w] = [@ EXCEPT ![r] = new]]
  BY <1>3 DEF emit_intermediate, Row, Arr
<1> HIDE DEF e, r, new
<1>6. intermediate_vals \in [MapWorkers -> [ReduceTasks -> Seq(Entries)]]
  BY DEF TInv, ArraysOK
<1>7. ASSUME NEW m \in MapWorkers, NEW s \in ReduceTasks
      PROVE  intermediate_vals'[m][s] = IF m = w /\ s = r THEN new ELSE intermediate_vals[m][s]
  BY <1>2, <1>4, <1>5, <1>6
<1> QED BY <1>2, <1>3, <1>4, <1>5, <1>7 DEF e, r, new, Arr

\* The combiner leaves each key one value, the union of those it had.
LEMMA CombinedArray ==
    ASSUME NEW V, NEW arr \in Seq([key : Int, vals : Seq(SUBSET V)])
    PROVE  /\ Combined(arr) \in Seq([key : Int, vals : Seq(SUBSET V)])
           /\ Len(Combined(arr)) = Len(arr)
           /\ \A k \in 1..Len(arr) :
                 /\ Combined(arr)[k].key = arr[k].key
                 /\ Combined(arr)[k].vals = <<UNION ToSet(arr[k].vals)>>
<1> DEFINE S == [key : Int, vals : Seq(SUBSET V)]
           e(k) == [arr[k] EXCEPT !.vals = <<UNION ToSet(@)>>]
<1>1. DOMAIN arr = 1..Len(arr) /\ Len(arr) \in Nat /\ \A k \in 1..Len(arr) : arr[k] \in S
  BY ElementOfSeq, LenProperties
<1>2. ASSUME NEW k \in 1..Len(arr)
      PROVE  e(k) \in S /\ e(k).key = arr[k].key /\ e(k).vals = <<UNION ToSet(arr[k].vals)>>
  <2>1. arr[k] \in S /\ arr[k].vals \in Seq(SUBSET V)
    BY <1>1
  <2>2. UNION ToSet(arr[k].vals) \in SUBSET V
    BY <2>1 DEF ToSet
  <2> DEFINE u == UNION ToSet(arr[k].vals)
  <2> HIDE DEF u
  <2>3. <<u>> \in Seq(SUBSET V)
    BY <2>2 DEF u
  <2>4. e(k) = [arr[k] EXCEPT !.vals = <<u>>]
    BY DEF u
  <2> QED BY <2>1, <2>3, <2>4 DEF u
<1>3. Combined(arr) = [k \in 1..Len(arr) |-> e(k)]
  BY <1>1 DEF Combined
<1> HIDE DEF e
<1>4. [k \in 1..Len(arr) |-> e(k)] \in Seq(S)
  BY <1>1, <1>2, IsASeq
<1>5. Len([k \in 1..Len(arr) |-> e(k)]) = Len(arr)
  BY <1>1
<1>6. \A k \in 1..Len(arr) : Combined(arr)[k] = e(k)
  BY <1>3
<1> QED BY <1>2, <1>3, <1>4, <1>5, <1>6

\* What the combiner does to the arrays of its worker.
LEMMA CombineArrays ==
    ASSUME IInv, TInv, NEW w \in Threads, FinishMap(w)
    PROVE  /\ phase = "map" /\ w \in MapThreads /\ w \in MapWorkers
           /\ intermediate_vals' = intermediate_vals
              \/ /\ intermediate_vals' = [intermediate_vals EXCEPT ![w] =
                                            [r \in ReduceTasks |-> Combined(Arr(w, r))]]
                 /\ \A m \in MapWorkers, s \in ReduceTasks :
                       Arr(m, s)' = IF m = w THEN Combined(Arr(w, s)) ELSE Arr(m, s)
<1>1. phase = "map" /\ pc[w] = "task"
  BY DEF FinishMap, Goto
<1>2. w \in MapThreads /\ w \in MapWorkers
  BY <1>1, WorkerNumber DEF TInv, PlacesOK, PlacesIn
<1>3. intermediate_vals \in [MapWorkers -> [ReduceTasks -> Seq(Entries)]]
  BY DEF TInv, ArraysOK
<1>4. CASE intermediate_vals' = [intermediate_vals EXCEPT ![w] =
                                   [r \in ReduceTasks |-> Combined(Arr(w, r))]]
  <2>1. ASSUME NEW m \in MapWorkers, NEW s \in ReduceTasks
        PROVE  intermediate_vals'[m][s] = IF m = w THEN Combined(Arr(w, s)) ELSE Arr(m, s)
    BY <1>2, <1>3, <1>4 DEF Arr
  <2> QED BY <1>1, <1>2, <1>4, <2>1 DEF Arr
<1>5. CASE intermediate_vals' = intermediate_vals
  BY <1>1, <1>2, <1>5
<1> QED BY <1>4, <1>5 DEF FinishMap, Arr

\* Emitting and combining keep an array's keys ascending and its entries not empty.
LEMMA ArraysKeep ==
    ASSUME IInv, TInv, [Next]_vars, IInv'
    PROVE  ArraysOK'
<1>1. CASE UNCHANGED <<args, intermediate_vals>>
  BY <1>1, ArraysStay DEF TInv
<1>2. CASE NextCall
  <2>1. intermediate_vals' = NoVals(args', <<>>)
    BY <1>2 DEF NextCall
  <2>2. NoVals(args', <<>>) = [m \in MapWorkers' |-> [r \in ReduceTasks' |-> <<>>]]
    BY DEF NoVals, MapWorkers, ReduceTasks
  <2>3. <<>> \in Seq(Entries')
    OBVIOUS
  <2>4. \A m \in MapWorkers', r \in ReduceTasks' : Arr(m, r)' = <<>>
    BY <2>1, <2>2 DEF Arr
  <2>5. intermediate_vals' \in [MapWorkers' -> [ReduceTasks' -> Seq(Entries')]]
    BY <2>1, <2>2, <2>3
  <2> QED BY <2>4, <2>5 DEF ArraysOK, StrictlySorted
<1>3. ASSUME NEW w \in Threads, emit_intermediate(w), args' = args PROVE ArraysOK'
  <2> DEFINE e == todo[w][1]
             r == Row(KeyOf(e))
             new == insert_keyval_merged(Arr(w, r), KeyOf(e), {e})
  <2>1. /\ w \in MapWorkers /\ r \in ReduceTasks /\ e \in Emissions
        /\ intermediate_vals' = [intermediate_vals EXCEPT ![w] = [@ EXCEPT ![r] = new]]
        /\ \A m \in MapWorkers, s \in ReduceTasks :
              Arr(m, s)' = IF m = w /\ s = r THEN new ELSE Arr(m, s)
    BY <1>3, EmitArrays
  <2>2. KeyOf(e) \in Int /\ {e} \in SUBSET Emissions
    BY <2>1, EmissionType DEF IInv
  <2>3. /\ Arr(w, r) \in Seq([key : Int, vals : Seq(SUBSET Emissions)])
        /\ StrictlySorted(Arr(w, r))
    BY <2>1, ArrayType DEF TInv, ArraysOK, Entries
  <2>4. /\ new \in Seq(Entries) /\ StrictlySorted(new)
        /\ \A k \in 1..Len(new) : new[k].key # KeyOf(e) =>
              \E j \in 1..Len(Arr(w, r)) : new[k] = Arr(w, r)[j]
        /\ \A k \in 1..Len(new) : new[k].key = KeyOf(e) =>
                     \/ \E j \in 1..Len(Arr(w, r)) :
                           new[k].vals = Append(Arr(w, r)[j].vals, {e})
                     \/ new[k].vals = <<{e}>>
    <3> DEFINE arr == Arr(w, r)
               key == KeyOf(e)
               val == {e}
               V == SUBSET Emissions
    <3>1. arr \in Seq([key : Int, vals : Seq(V)]) /\ StrictlySorted(arr) /\ key \in Int /\ val \in V
      BY <2>2, <2>3
    <3>2. new = insert_keyval_merged(arr, key, val)
      OBVIOUS
    <3> HIDE DEF arr, key, val, V, new, e, r
    <3>3. Merged(insert_keyval_merged(arr, key, val), arr, key, val, V)
      BY <3>1, InsertMerged
    <3>4. Merged(new, arr, key, val, V)
      BY <3>2, <3>3
    <3> QED BY <3>4 DEF arr, key, val, V, Entries, Merged
  <2> HIDE DEF e, r, new
  <2>5. \A k \in 1..Len(new) : new[k].vals # <<>>
    <3> SUFFICES ASSUME NEW k \in 1..Len(new) PROVE new[k].vals # <<>>
      OBVIOUS
    <3>1. \A j \in 1..Len(Arr(w, r)) : /\ Arr(w, r)[j].vals # <<>>
                                       /\ Arr(w, r)[j].vals \in Seq(SUBSET Emissions)
      BY <2>1, ArrayType DEF TInv
    <3>2. CASE new[k].key # KeyOf(e)
      BY <2>4, <3>1, <3>2
    <3>3. CASE new[k].key = KeyOf(e)
      <4>1. CASE new[k].vals = <<{e}>>
        BY <4>1
      <4>2. ASSUME NEW j \in 1..Len(Arr(w, r)), new[k].vals = Append(Arr(w, r)[j].vals, {e})
            PROVE  new[k].vals # <<>>
        <5> DEFINE v == Arr(w, r)[j].vals
        <5>1. v \in Seq(SUBSET Emissions)
          BY <3>1
        <5> HIDE DEF v
        <5>2. Append(v, {e}) # <<>>
          BY <2>2, <5>1
        <5> QED BY <4>2, <5>2 DEF v
      <4> QED BY <2>4, <3>3, <4>1, <4>2
    <3> QED BY <3>2, <3>3
  <2>6. intermediate_vals \in [MapWorkers -> [ReduceTasks -> Seq(Entries)]]
    BY DEF TInv, ArraysOK
  <2>7. intermediate_vals' \in [MapWorkers -> [ReduceTasks -> Seq(Entries)]]
    BY <2>1, <2>4, <2>6
  <2>8. ASSUME NEW m \in MapWorkers, NEW s \in ReduceTasks
        PROVE  /\ StrictlySorted(Arr(m, s)')
               /\ \A k \in 1..Len(Arr(m, s)') : (Arr(m, s)')[k].vals # <<>>
    <3>1. CASE m = w /\ s = r
      BY <2>1, <2>4, <2>5, <3>1
    <3>2. CASE ~(m = w /\ s = r)
      <4>1. Arr(m, s)' = Arr(m, s)
        BY <2>1, <3>2
      <4> QED BY <4>1 DEF TInv, ArraysOK
    <3> QED BY <3>1, <3>2
  <2> QED BY <1>3, <2>7, <2>8, ArgsStay DEF ArraysOK
<1>4. ASSUME NEW w \in Threads, FinishMap(w), args' = args PROVE ArraysOK'
  <2>1. CASE intermediate_vals' = intermediate_vals
    BY <1>4, <2>1, ArraysStay DEF TInv
  <2>2. CASE intermediate_vals' # intermediate_vals
    <3>1. /\ w \in MapWorkers
          /\ intermediate_vals' = [intermediate_vals EXCEPT ![w] =
                                      [r \in ReduceTasks |-> Combined(Arr(w, r))]]
          /\ \A m \in MapWorkers, s \in ReduceTasks :
                Arr(m, s)' = IF m = w THEN Combined(Arr(w, s)) ELSE Arr(m, s)
      BY <1>4, <2>2, CombineArrays
    <3>2. ASSUME NEW r \in ReduceTasks
          PROVE  /\ Combined(Arr(w, r)) \in Seq(Entries)
                 /\ StrictlySorted(Combined(Arr(w, r)))
                 /\ \A k \in 1..Len(Combined(Arr(w, r))) : Combined(Arr(w, r))[k].vals # <<>>
      <4> DEFINE arr == Arr(w, r)
                 c == Combined(arr)
      <4>1. arr \in Seq([key : Int, vals : Seq(SUBSET Emissions)])
        BY <3>1, ArrayType DEF TInv, Entries
      <4>2. \A k, l \in 1..Len(arr) : k < l => arr[k].key < arr[l].key
        BY <3>1, ArrayType DEF TInv
      <4> HIDE DEF arr
      <4>3. /\ c \in Seq([key : Int, vals : Seq(SUBSET Emissions)]) /\ Len(c) = Len(arr)
            /\ \A k \in 1..Len(arr) : /\ c[k].key = arr[k].key
                                      /\ c[k].vals = <<UNION ToSet(arr[k].vals)>>
        BY <4>1, CombinedArray
      <4> HIDE DEF c
      <4>4. DOMAIN c = 1..Len(arr)
        BY <4>3, LenProperties
      <4>5. StrictlySorted(c)
        BY <4>2, <4>3, <4>4 DEF StrictlySorted
      <4>6. \A k \in 1..Len(c) : c[k].vals # <<>>
        <5>1. \A u : <<u>> # <<>>
          OBVIOUS
        <5> QED BY <4>3, <5>1
      <4> QED BY <4>3, <4>5, <4>6 DEF c, arr, Entries
    <3>3. intermediate_vals \in [MapWorkers -> [ReduceTasks -> Seq(Entries)]]
      BY DEF TInv, ArraysOK
    <3>4. intermediate_vals' \in [MapWorkers -> [ReduceTasks -> Seq(Entries)]]
      BY <3>1, <3>2, <3>3
    <3>5. ASSUME NEW m \in MapWorkers, NEW s \in ReduceTasks
          PROVE  /\ StrictlySorted(Arr(m, s)')
                 /\ \A k \in 1..Len(Arr(m, s)') : (Arr(m, s)')[k].vals # <<>>
      <4>1. CASE m = w
        BY <3>1, <3>2, <4>1
      <4>2. CASE m # w
        <5>1. Arr(m, s)' = Arr(m, s)
          BY <3>1, <4>2
        <5> QED BY <5>1 DEF TInv, ArraysOK
      <4> QED BY <4>1, <4>2
    <3> QED BY <1>4, <3>4, <3>5, ArgsStay DEF ArraysOK
  <2> QED BY <2>1, <2>2
<1> QED BY <1>1, <1>2, <1>3, <1>4, ArrayChange

---------------
(* Where the reduce workers are in the arrays. *)

\* The array of map thread m for task t has an entry left, the next of which has the
\* key min.
Unread(m, t)     == pos[m][t] < Len(Arr(m, t))
Here(m, t)       == Arr(m, t)[pos[m][t] + 1]
Takes(m, t, min) == Unread(m, t) /\ min = <<Here(m, t).key>>

\* A position is within its array, and the entry behind it is one of the array.
LEMMA PosType ==
    ASSUME ArraysOK, PosOK, NEW m \in MapWorkers, NEW t \in ReduceTasks
    PROVE  /\ pos[m][t] \in Nat /\ pos[m][t] <= Len(Arr(m, t)) /\ Len(Arr(m, t)) \in Nat
           /\ Unread(m, t) => /\ pos[m][t] + 1 \in 1..Len(Arr(m, t))
                              /\ Here(m, t) \in Entries /\ Here(m, t).key \in Int
                              /\ Here(m, t).vals \in Seq(SUBSET Emissions)
                              /\ Here(m, t).vals # <<>>
<1>1. pos[m][t] \in Nat /\ pos[m][t] <= Len(Arr(m, t))
  BY DEF PosOK
<1>2. Len(Arr(m, t)) \in Nat
  BY ArrayType
<1>3. ASSUME Unread(m, t) PROVE pos[m][t] + 1 \in 1..Len(Arr(m, t))
  BY <1>1, <1>2, <1>3 DEF Unread
<1> QED BY <1>1, <1>2, <1>3, ArrayType DEF Here

\* What is left of an array are its entries from the position on.
LEMMA LeftElements ==
    ASSUME ArraysOK, PosOK, NEW m \in MapWorkers, NEW t \in ReduceTasks
    PROVE  /\ Left(m, t) \in Seq(Entries)
           /\ Len(Left(m, t)) = Len(Arr(m, t)) - pos[m][t]
           /\ \A i \in 1..Len(Left(m, t)) : /\ pos[m][t] + i \in 1..Len(Arr(m, t))
                                            /\ Left(m, t)[i] = Arr(m, t)[pos[m][t] + i]
           /\ DOMAIN Left(m, t) = 1..Len(Left(m, t))
<1> DEFINE arr == Arr(m, t)
           p == pos[m][t]
           left == SubSeq(arr, p + 1, Len(arr))
<1>1. p \in Nat /\ p <= Len(arr) /\ Len(arr) \in Nat
  BY PosType
<1>2. arr \in Seq(Entries) /\ DOMAIN arr = 1..Len(arr)
  BY ArrayType
<1>3. Left(m, t) = left
  BY DEF Left, Arr
<1> HIDE DEF arr, p
<1>4. \A i \in (p + 1)..Len(arr) : arr[i] \in Entries
  BY <1>1, <1>2, ElementOfSeq
<1>5. /\ left \in Seq(Entries)
      /\ Len(left) = Len(arr) - p
      /\ \A i \in 1..(Len(arr) - p) : left[i] = arr[p + i]
  <2>1. /\ left \in Seq(Entries)
        /\ Len(left) = IF p + 1 <= Len(arr) THEN Len(arr) - (p + 1) + 1 ELSE 0
        /\ \A i \in 1..(Len(arr) - (p + 1) + 1) : left[i] = arr[(p + 1) + i - 1]
    <3>1. p + 1 \in Int /\ Len(arr) \in Int
      BY <1>1
    <3> QED BY <1>4, <3>1, SubSeqProperties
  <2>2. Len(left) = Len(arr) - p
    BY <1>1, <2>1
  <2>3. ASSUME NEW i \in 1..(Len(arr) - p) PROVE left[i] = arr[p + i]
    BY <1>1, <2>1
  <2> QED BY <2>1, <2>2, <2>3
<1> HIDE DEF left
<1>6. \A i \in 1..Len(left) : p + i \in 1..Len(arr)
  BY <1>1, <1>5
<1>7. DOMAIN left = 1..Len(left)
  BY <1>5, LenProperties
<1> QED BY <1>3, <1>5, <1>6, <1>7 DEF arr, p

\* The keys of an array differ, so one entry at most is taken.
LEMMA TakenElements ==
    ASSUME ArraysOK, PosOK, NEW m \in MapWorkers, NEW t \in ReduceTasks, NEW min
    PROVE  /\ Takes(m, t, min) => /\ Taken(m, t, min) = <<Here(m, t)>>
                                  /\ Len(Taken(m, t, min)) = 1
           /\ ~Takes(m, t, min) => /\ Taken(m, t, min) = <<>>
                                   /\ Len(Taken(m, t, min)) = 0
<1> DEFINE left == Left(m, t)
           p == pos[m][t]
           same == {k \in DOMAIN left : \A l \in 1..k : min = <<left[l].key>>}
<1>1. /\ left \in Seq(Entries) /\ Len(left) = Len(Arr(m, t)) - p
      /\ DOMAIN left = 1..Len(left)
      /\ \A i \in 1..Len(left) : p + i \in 1..Len(Arr(m, t)) /\ left[i] = Arr(m, t)[p + i]
  BY LeftElements
<1>2. p \in Nat /\ p <= Len(Arr(m, t)) /\ Len(Arr(m, t)) \in Nat
  BY PosType
<1>3. Unread(m, t) <=> 1 \in 1..Len(left)
  BY <1>1, <1>2 DEF Unread
<1>4. Unread(m, t) => left[1] = Here(m, t)
  BY <1>1, <1>3 DEF Here
<1>5. Taken(m, t, min) = SubSeq(left, 1, Cardinality(same))
  BY DEF Taken
<1>6. Len(left) \in Nat
  BY <1>1
<1>7. \A k, l \in 1..Len(left) : k < l => left[k].key # left[l].key
  <2> SUFFICES ASSUME NEW k \in 1..Len(left), NEW l \in 1..Len(left), k < l
               PROVE  left[k].key # left[l].key
    OBVIOUS
  <2>1. /\ p + k \in 1..Len(Arr(m, t)) /\ p + l \in 1..Len(Arr(m, t)) /\ p + k < p + l
        /\ left[k] = Arr(m, t)[p + k] /\ left[l] = Arr(m, t)[p + l]
    BY <1>1, <1>2
  <2>2. Arr(m, t)[p + k].key \in Int /\ Arr(m, t)[p + l].key \in Int
    BY <2>1, ArrayType
  <2>3. Arr(m, t)[p + k].key < Arr(m, t)[p + l].key
    BY <2>1, ArrayType
  <2> QED BY <2>1, <2>2, <2>3
<1> HIDE DEF left, p
<1>8. ASSUME Takes(m, t, min)
      PROVE  Taken(m, t, min) = <<Here(m, t)>> /\ Len(Taken(m, t, min)) = 1
  <2>1. 1 \in 1..Len(left) /\ min = <<left[1].key>>
    BY <1>3, <1>4, <1>8 DEF Takes
  <2>2. same = {1}
    <3>1. 1 \in same
      <4>1. \A l \in 1..1 : l = 1
        OBVIOUS
      <4> QED BY <1>1, <2>1, <4>1
    <3>2. ASSUME NEW k \in same PROVE k = 1
      <4>1. k \in 1..Len(left) /\ \A l \in 1..k : min = <<left[l].key>>
        BY <1>1
      <4>2. k \in 1..k
        BY <4>1
      <4>3. min = <<left[k].key>>
        BY <4>1, <4>2
      <4>4. left[1].key = left[k].key
        BY <2>1, <4>3
      <4>5. ~(1 < k)
        BY <1>7, <2>1, <4>1, <4>4
      <4> QED BY <4>1, <4>5
    <3> QED BY <3>1, <3>2
  <2>3. Cardinality(same) = 1
    BY <2>2, FS_Singleton
  <2>4. left[1] \in Entries
    BY <1>1, <2>1, ElementOfSeq
  <2>5. SubSeq(left, 1, 1) = <<left[1]>>
    <3>1. \A i \in 1..1 : left[i] \in Entries
      BY <2>4
    <3>2. /\ SubSeq(left, 1, 1) \in Seq(Entries)
          /\ Len(SubSeq(left, 1, 1)) = 1
          /\ SubSeq(left, 1, 1)[1] = left[1]
      BY <3>1, SubSeqProperties
    <3> DEFINE s == SubSeq(left, 1, 1)
    <3> HIDE DEF s
    <3>3. s \in Seq(Entries) /\ Len(s) = 1 /\ s[1] = left[1]
      BY <3>2 DEF s
    <3>4. s = <<left[1]>>
      BY <3>3
    <3> QED BY <3>4 DEF s
  <2>6. Taken(m, t, min) = <<left[1]>>
    BY <1>5, <2>3, <2>5
  <2>7. left[1] = Here(m, t)
    BY <1>4, <1>8 DEF Takes
  <2> QED BY <2>6, <2>7
<1>9. ASSUME ~Takes(m, t, min)
      PROVE  Taken(m, t, min) = <<>> /\ Len(Taken(m, t, min)) = 0
  <2>1. same = {}
    <3> SUFFICES ASSUME NEW k \in same PROVE FALSE
      OBVIOUS
    <3>1. k \in 1..Len(left) /\ \A l \in 1..k : min = <<left[l].key>>
      BY <1>1
    <3>2. 1 \in 1..k /\ 1 \in 1..Len(left)
      BY <1>6, <3>1
    <3> QED BY <1>3, <1>4, <1>9, <3>1, <3>2 DEF Takes
  <2>2. Cardinality(same) = 0
    BY <2>1, FS_EmptySet
  <2>3. SubSeq(left, 1, 0) = <<>>
    BY SubSeqEmpty
  <2> HIDE DEF same
  <2> QED BY <1>5, <2>2, <2>3
<1> QED BY <1>8, <1>9

\* A function on part of a finite interval has a least value.
LEMMA LeastValue ==
    ASSUME NEW f \in [Nat -> Int], NEW n \in Nat
    PROVE  \A D \in SUBSET (0..n) : D # {} => \E d \in D : \A c \in D : f[d] <= f[c]
<1> DEFINE Has(k) == \A D \in SUBSET (0..k) : D # {} => \E d \in D : \A c \in D : f[d] <= f[c]
           T == {k \in Nat : Has(k)}
<1>1. 0 \in T
  <2> SUFFICES ASSUME NEW D \in SUBSET (0..0), D # {}
               PROVE  \E d \in D : \A c \in D : f[d] <= f[c]
    OBVIOUS
  <2>1. \A c \in D : c = 0
    OBVIOUS
  <2>3. 0 \in D
    BY <2>1
  <2>2. f[0] \in Int
    OBVIOUS
  <2> QED BY <2>1, <2>2, <2>3
<1>2. ASSUME NEW k \in Nat, k \in T PROVE k + 1 \in T
  <2> SUFFICES ASSUME NEW D \in SUBSET (0..(k + 1)), D # {}
               PROVE  \E d \in D : \A c \in D : f[d] <= f[c]
    OBVIOUS
  <2> DEFINE E == D \ {k + 1}
  <2>1. E \in SUBSET (0..k)
    OBVIOUS
  <2>2. \A c \in D : c \in Nat /\ f[c] \in Int
    OBVIOUS
  <2>3. CASE E = {}
    <3>1. k + 1 \in D /\ \A c \in D : c = k + 1
      BY <2>3
    <3> QED BY <2>2, <3>1
  <2>4. CASE E # {}
    <3>1. Has(k)
      BY <1>2
    <3>2. PICK d \in E : \A c \in E : f[d] <= f[c]
      <4> HIDE DEF E
      <4> QED BY <2>1, <2>4, <3>1
    <3>3. d \in D
      OBVIOUS
    <3>4. CASE k + 1 \in D /\ f[k + 1] < f[d]
      BY <2>2, <3>2, <3>3, <3>4
    <3>5. CASE k + 1 \in D /\ ~(f[k + 1] < f[d])
      <4>1. \A c \in D : f[d] <= f[c]
        BY <2>2, <3>2, <3>3, <3>5
      <4> QED BY <3>3, <4>1
    <3>6. CASE k + 1 \notin D
      BY <3>2, <3>6
    <3> QED BY <3>4, <3>5, <3>6
  <2> QED BY <2>3, <2>4
<1> HIDE DEF T
<1>3. n \in T
  BY <1>1, <1>2, Induction
<1> QED BY <1>3 DEF T

\* The iterator itr takes, for the key min, the next entry of each map thread's array
\* that has it: h says of which.
Taking(itr, h, t, min) ==
    /\ \A k \in 1..Len(itr) : h[k] \in MapThreads /\ Takes(h[k], t, min) /\ itr[k] = Here(h[k], t)
    /\ \A k, j \in 1..Len(itr) : h[k] = h[j] => k = j
    /\ \A m \in MapThreads : Takes(m, t, min) => \E k \in 1..Len(itr) : h[k] = m
Iterator(t, min) == FlattenSeq([m \in 1..Cardinality(MapThreads) |-> Taken(m - 1, t, min)])

\* The iterator holds one entry of each map thread whose next key is min.
LEMMA IteratorElements ==
    ASSUME IInv, ArraysOK, PosOK, NumbersOK, NEW t \in ReduceTasks, NEW min
    PROVE  /\ Iterator(t, min) \in Seq(Entries)
           /\ \E h : Taking(Iterator(t, min), h, t, min)
<1> DEFINE N == Cardinality(MapThreads)
           seqs == [m \in 1..N |-> Taken(m - 1, t, min)]
           itr == FlattenSeq(seqs)
<1>1. N \in Nat /\ MapThreads = 0..(N - 1) /\ MapThreads \subseteq MapWorkers
  <2>1. num_map_threads \in Nat /\ MapThreads \subseteq MapWorkers
    BY MapSubset
  <2>2. N = num_map_threads
    BY <2>1, FS_Interval DEF MapThreads
  <2> QED BY <2>1, <2>2 DEF MapThreads
<1> HIDE DEF N
<1>2. ASSUME NEW m \in MapThreads
      PROVE  /\ Taken(m, t, min) \in Seq(Entries)
             /\ Takes(m, t, min) => Taken(m, t, min) = <<Here(m, t)>> /\ Len(Taken(m, t, min)) = 1
             /\ ~Takes(m, t, min) => Len(Taken(m, t, min)) = 0
  <2>1. m \in MapWorkers
    BY <1>1
  <2>2. CASE Takes(m, t, min)
    <3>1. Here(m, t) \in Entries
      BY <2>1, <2>2, PosType DEF Takes
    <3>2. Taken(m, t, min) = <<Here(m, t)>> /\ Len(Taken(m, t, min)) = 1
      BY <2>1, <2>2, TakenElements
    <3> QED BY <2>2, <3>1, <3>2
  <2>3. CASE ~Takes(m, t, min)
    <3>1. Taken(m, t, min) = <<>> /\ Len(Taken(m, t, min)) = 0
      BY <2>1, <2>3, TakenElements
    <3> QED BY <2>3, <3>1
  <2> QED BY <2>2, <2>3
<1>3. \A m \in 1..N : m - 1 \in MapThreads
  BY <1>1
<1>4. /\ seqs \in Seq(Seq(Entries)) /\ Len(seqs) = N
      /\ \A m \in 1..N : seqs[m] = Taken(m - 1, t, min)
  BY <1>2, <1>3, <1>1, IsASeq
<1> HIDE DEF seqs
<1>5. itr \in Seq(Entries) /\ \E at : Spread(itr, seqs, N, at)
  BY <1>4, FlattenElements
<1> HIDE DEF itr
<1>6. PICK at : Spread(itr, seqs, N, at)
  BY <1>5
<1> DEFINE h == [k \in 1..Len(itr) |-> at[k][1] - 1]
<1>7. ASSUME NEW k \in 1..Len(itr)
      PROVE  /\ h[k] \in MapThreads /\ Takes(h[k], t, min) /\ itr[k] = Here(h[k], t)
             /\ at[k][1] = h[k] + 1 /\ at[k][2] = 1
  <2>1. /\ at[k][1] \in 1..N /\ at[k][2] \in 1..Len(seqs[at[k][1]])
        /\ itr[k] = seqs[at[k][1]][at[k][2]]
    BY <1>6 DEF Spread
  <2>2. h[k] = at[k][1] - 1 /\ h[k] \in MapThreads /\ at[k][1] = h[k] + 1
    BY <1>3, <2>1
  <2> HIDE DEF h
  <2>3. seqs[at[k][1]] = Taken(h[k], t, min)
    BY <1>4, <2>1, <2>2
  <2>4. Takes(h[k], t, min)
    <3>1. Len(Taken(h[k], t, min)) # 0
      BY <2>1, <2>3
    <3> QED BY <1>2, <2>2, <3>1
  <2>5. Taken(h[k], t, min) = <<Here(h[k], t)>> /\ Len(Taken(h[k], t, min)) = 1
    BY <1>2, <2>2, <2>4
  <2>6. at[k][2] = 1
    BY <2>1, <2>3, <2>5
  <2>7. itr[k] = Here(h[k], t)
    BY <2>1, <2>3, <2>5, <2>6
  <2> QED BY <2>2, <2>4, <2>6, <2>7
<1>8. ASSUME NEW k \in 1..Len(itr), NEW j \in 1..Len(itr), h[k] = h[j]
      PROVE  k = j
  <2>1. at[k][1] = at[j][1] /\ at[k][2] = at[j][2]
    <3> HIDE DEF h
    <3> QED BY <1>7, <1>8
  <2> QED BY <1>6, <2>1 DEF Spread
<1>9. ASSUME NEW m \in MapThreads, Takes(m, t, min)
      PROVE  \E k \in 1..Len(itr) : h[k] = m
  <2>1. m + 1 \in 1..N /\ (m + 1) - 1 = m
    BY <1>1
  <2>2. 1 \in 1..Len(seqs[m + 1])
    <3>1. seqs[m + 1] = Taken(m, t, min) /\ Len(Taken(m, t, min)) = 1
      BY <1>2, <1>4, <1>9, <2>1
    <3> QED BY <3>1
  <2>3. PICK k \in 1..Len(itr) : at[k][1] = m + 1 /\ at[k][2] = 1
    BY <1>6, <2>1, <2>2 DEF Spread
  <2>4. h[k] = m
    BY <2>1, <2>3
  <2> QED BY <2>4
<1> HIDE DEF h
<1>10. Taking(itr, h, t, min)
  BY <1>7, <1>8, <1>9 DEF Taking
<1>11. itr = Iterator(t, min)
  BY DEF itr, seqs, Iterator, N
<1> QED BY <1>5, <1>10, <1>11

\* next is the least key the arrays for task t have left, or missing.
LeastKey(next, t) ==
    \/ next = <<>> /\ \A m \in MapThreads : ~Unread(m, t)
    \/ /\ next \in Seq(Int) /\ Len(next) = 1
       /\ \E m \in MapThreads : Unread(m, t) /\ Here(m, t).key = next[1]
       /\ \A m \in MapThreads : Unread(m, t) => next[1] <= Here(m, t).key

\* Finitely many keys have a least one.
LEMMA LeastKeyExists ==
    ASSUME NEW N \in Nat, NEW D \in SUBSET (0..N), NEW f \in [Nat -> Int],
           NEW others, others = {f[m] : m \in D}, others # {}
    PROVE  \E k \in others : \A l \in others : k <= l
<1>3. D # {}
  OBVIOUS
<1>4. PICK d \in D : \A c \in D : f[d] <= f[c]
  BY <1>3, LeastValue
<1>5. f[d] \in others /\ \A l \in others : f[d] <= l
  BY <1>4
<1> QED BY <1>5

\* What a turn of the reduce worker's loop does, up to the call of reduce.
LEMMA GatherPos ==
    ASSUME IInv, TInv, NEW w \in Threads, Gather(w),
           NEW t, t = work[w].task, NEW min, min = work[w].min
    PROVE  /\ phase = "reduce" /\ t \in ReduceTasks /\ pc[w] = "gather"
           /\ min \in Seq(Int)
           /\ MapThreads \subseteq MapWorkers
           /\ \A m \in MapWorkers, s \in ReduceTasks :
                 pos'[m][s] = IF m \in MapThreads /\ s = t /\ Takes(m, t, min)
                                THEN pos[m][s] + 1 ELSE pos[m][s]
           /\ pos' \in [MapWorkers -> [ReduceTasks -> Nat]]
<1>1. pc[w] = "gather"
  BY DEF Gather
<1>2. phase = "reduce"
  BY <1>1, WorkerNumber DEF TInv, PlacesOK, PlacesIn
<1>3. t \in ReduceTasks /\ min \in Seq(Int)
  BY <1>1 DEF TInv, WorkOK, HeldOK, Holder, Held, Works
<1>4. MapThreads \subseteq MapWorkers
  BY MapSubset DEF TInv
<1>5. pos \in [MapWorkers -> [ReduceTasks -> Nat]]
  BY DEF TInv, PosOK
<1> DEFINE n(m) == Len(Taken(m, t, min))
<1>6. pos' = [m \in MapWorkers |-> IF m \in MapThreads THEN [pos[m] EXCEPT ![t] = @ + n(m)]
                                   ELSE pos[m]]
  <2>1. DOMAIN pos = MapWorkers
    BY <1>5
  <2> QED BY <2>1 DEF Gather
<1>7. ASSUME NEW m \in MapThreads
      PROVE  n(m) = IF Takes(m, t, min) THEN 1 ELSE 0
  <2>1. m \in MapWorkers
    BY <1>4
  <2> QED BY <1>3, <2>1, TakenElements DEF TInv
<1> HIDE DEF n
<1>8. ASSUME NEW m \in MapWorkers, NEW s \in ReduceTasks
      PROVE  pos'[m][s] = IF m \in MapThreads /\ s = t /\ Takes(m, t, min)
                            THEN pos[m][s] + 1 ELSE pos[m][s]
  <2>1. pos[m] \in [ReduceTasks -> Nat]
    BY <1>5
  <2>2. pos'[m] = IF m \in MapThreads THEN [pos[m] EXCEPT ![t] = @ + n(m)] ELSE pos[m]
    BY <1>6
  <2>3. CASE m \in MapThreads
    BY <1>3, <2>1, <2>2, <2>3, <1>7
  <2>4. CASE m \notin MapThreads
    BY <2>2, <2>4
  <2> QED BY <2>3, <2>4
<1>9. pos' \in [MapWorkers -> [ReduceTasks -> Nat]]
  <2>1. ASSUME NEW m \in MapWorkers PROVE pos'[m] \in [ReduceTasks -> Nat]
    BY <1>5, <1>7, <1>6, <1>3
  <2> QED BY <1>6, <2>1
<1> QED BY <1>1, <1>2, <1>3, <1>4, <1>8, <1>9

\* The worker w, with task t, goes on to the key next.
Turns(w, t, min, next) ==
    /\ LeastKey(next, t)'
    /\ IF min = <<>>
         THEN /\ work' = [work EXCEPT ![w] = [@ EXCEPT !.min = next]]
              /\ pc' = [pc EXCEPT ![w] = IF next # <<>> THEN "gather" ELSE "task"]
         ELSE /\ work' = [work EXCEPT ![w] = [@ EXCEPT !.next = next, !.itr = Iterator(t, min)]]
              /\ pc' = [pc EXCEPT ![w] = "reduce"]

\* One round over the arrays advances the positions of those that have the key min, and
\* finds the least of the keys that are then next.
LEMMA GatherEffect ==
    ASSUME IInv, TInv, NEW w \in Threads, Gather(w), args' = args,
           NEW t, t = work[w].task, NEW min, min = work[w].min
    PROVE  /\ PosOK'
           /\ \E next \in Seq(Int) : Turns(w, t, min, next)
<1>1. /\ phase = "reduce" /\ t \in ReduceTasks /\ min \in Seq(Int) /\ MapThreads \subseteq MapWorkers
      /\ \A m \in MapWorkers, s \in ReduceTasks :
            pos'[m][s] = IF m \in MapThreads /\ s = t /\ Takes(m, t, min)
                           THEN pos[m][s] + 1 ELSE pos[m][s]
      /\ pos' \in [MapWorkers -> [ReduceTasks -> Nat]]
  BY GatherPos
<1>2. /\ MapThreads' = MapThreads /\ MapWorkers' = MapWorkers /\ ReduceTasks' = ReduceTasks
      /\ ArraysOK' /\ \A m, r : Arr(m, r)' = Arr(m, r)
  BY ArgsStay, ArraysStay DEF TInv, Gather, envVars, MapThreads
<1>3. PosOK'
  <2>1. ASSUME NEW m \in MapWorkers, NEW s \in ReduceTasks PROVE pos'[m][s] <= Len(Arr(m, s))
    <3>1. pos[m][s] \in Nat /\ Len(Arr(m, s)) \in Nat /\ pos[m][s] <= Len(Arr(m, s))
      BY PosType DEF TInv
    <3>2. Takes(m, s, min) => pos[m][s] < Len(Arr(m, s))
      BY DEF Takes, Unread
    <3>3. CASE m \in MapThreads /\ s = t /\ Takes(m, t, min)
      BY <1>1, <3>1, <3>2, <3>3
    <3>4. CASE ~(m \in MapThreads /\ s = t /\ Takes(m, t, min))
      BY <1>1, <3>1, <3>4
    <3> QED BY <3>3, <3>4
  <2>2. phase' = "reduce"
    BY <1>1 DEF Gather, callerVars
  <2> QED BY <1>1, <1>2, <2>1, <2>2 DEF PosOK
<1> DEFINE n(m) == Len(Taken(m, t, min))
           M == {k \in MapThreads : n(k) < Len(Left(k, t))}
           key(m) == Left(m, t)[n(m) + 1].key
           others == {key(m) : m \in M}
           next == IF others = {} THEN <<>> ELSE <<CHOOSE k \in others : \A l \in others : k <= l>>
<1>4. /\ pc' = [pc EXCEPT ![w] = IF min # <<>> THEN "reduce"
                                   ELSE IF others # {} THEN "gather" ELSE "task"]
      /\ work' = [work EXCEPT ![w] = IF min = <<>>
                                       THEN [@ EXCEPT !.min = next]
                                       ELSE [@ EXCEPT !.next = next, !.itr = Iterator(t, min)]]
  <2> DEFINE keys(u, k) == {Left(m, u)[Len(Taken(m, u, k)) + 1].key :
                            m \in {l \in MapThreads : Len(Taken(l, u, k)) < Len(Left(l, u))}}
             least(s) == IF s = {} THEN <<>> ELSE <<CHOOSE k \in s : \A l \in s : k <= l>>
             u == work[w].task
             v == work[w].min
  <2>1. /\ pc' = [pc EXCEPT ![w] = IF v # <<>> THEN "reduce"
                                    ELSE IF keys(u, v) # {} THEN "gather" ELSE "task"]
        /\ work' = [work EXCEPT ![w] =
                       IF v = <<>> THEN [@ EXCEPT !.min = least(keys(u, v))]
                       ELSE [@ EXCEPT !.next = least(keys(u, v)), !.itr = Iterator(u, v)]]
    BY Zenon DEF Gather, Iterator
  <2>2. others = keys(t, min) /\ next = least(others)
    OBVIOUS
  <2> HIDE DEF keys, least, others, next
  <2> QED BY <2>1, <2>2, Zenon
<1>5. ASSUME NEW m \in MapThreads
      PROVE  /\ n(m) < Len(Left(m, t)) <=> Unread(m, t)'
             /\ Unread(m, t)' => key(m) = Here(m, t)'.key /\ key(m) \in Int
  <2>1. m \in MapWorkers
    BY <1>1
  <2>2. n(m) = IF Takes(m, t, min) THEN 1 ELSE 0
    <3>1. t \in ReduceTasks /\ ArraysOK /\ PosOK
      BY <1>1 DEF TInv
    <3>2. /\ Takes(m, t, min) => Len(Taken(m, t, min)) = 1
          /\ ~Takes(m, t, min) => Len(Taken(m, t, min)) = 0
      BY <2>1, <3>1, TakenElements
    <3> QED BY <3>2
  <2>3. pos[m][t] \in Nat /\ Len(Arr(m, t)) \in Nat /\ pos'[m][t] = pos[m][t] + n(m)
    BY <1>1, <2>1, <2>2, PosType DEF TInv
  <2> HIDE DEF n
  <2>4. /\ Len(Left(m, t)) = Len(Arr(m, t)) - pos[m][t]
        /\ \A i \in 1..Len(Left(m, t)) : Left(m, t)[i] = Arr(m, t)[pos[m][t] + i]
    BY <1>1, <2>1, LeftElements DEF TInv
  <2>5. Unread(m, t)' <=> pos'[m][t] < Len(Arr(m, t))
    BY <1>2 DEF Unread
  <2>6. Here(m, t)' = Arr(m, t)[pos'[m][t] + 1]
    BY <1>2 DEF Here
  <2>7. n(m) < Len(Left(m, t)) <=> Unread(m, t)'
    BY <2>2, <2>3, <2>4, <2>5
  <2>8. ASSUME Unread(m, t)' PROVE key(m) = Here(m, t)'.key /\ key(m) \in Int
    <3>1. n(m) + 1 \in 1..Len(Left(m, t))
      BY <2>2, <2>3, <2>4, <2>5, <2>8
    <3>2. pos[m][t] + (n(m) + 1) = pos'[m][t] + 1
      BY <2>2, <2>3
    <3>3. Left(m, t)[n(m) + 1] = Here(m, t)'
      BY <2>4, <2>6, <3>1, <3>2
    <3>4. pos'[m][t] + 1 \in 1..Len(Arr(m, t))
      BY <2>2, <2>3, <2>5, <2>8
    <3>5. Arr(m, t)[pos'[m][t] + 1].key \in Int
      BY <1>1, <2>1, <3>4, ArrayType DEF TInv
    <3> QED BY <2>6, <3>3, <3>5
  <2> QED BY <2>7, <2>8
<1>6. M = {k \in MapThreads : Unread(k, t)'}
  BY <1>5
<1> HIDE DEF n, M, key
<1>7. \A m \in M : m \in MapThreads /\ Unread(m, t)' /\ key(m) = Here(m, t)'.key /\ key(m) \in Int
  BY <1>5, <1>6
<1>8. M \in SUBSET (0..num_map_threads) /\ num_map_threads \in Nat
  BY <1>6, MapSubset DEF TInv, MapThreads
<1>9. CASE others = {}
  <2>1. M = {}
    BY <1>9
  <2>2. \A m \in MapThreads : ~Unread(m, t)'
    BY <1>6, <2>1
  <2>3. LeastKey(<<>>, t)'
    BY <1>2, <2>2 DEF LeastKey
  <2> HIDE DEF others, next
  <2>4. next = <<>> /\ <<>> \in Seq(Int)
    BY <1>9 DEF next
  <2>5. Turns(w, t, min, <<>>)
    BY <1>4, <1>9, <2>3, <2>4 DEF Turns
  <2> QED BY <1>3, <2>4, <2>5
<1>10. CASE others # {}
  <2> DEFINE k == CHOOSE x \in others : \A l \in others : x <= l
             f == [m \in Nat |-> IF m \in M THEN key(m) ELSE 0]
  <2>1. k \in Int /\ (\E m \in M : key(m) = k) /\ \A m \in M : k <= key(m)
    <3>1. f \in [Nat -> Int]
      BY <1>7
    <3>2. \A m \in M : f[m] = key(m)
      BY <1>8
    <3> HIDE DEF f
    <3>3. others = {f[m] : m \in M}
      BY <3>2
    <3> HIDE DEF others
    <3>4. \E x \in others : \A l \in others : x <= l
      BY <1>8, <1>10, <3>1, <3>3, LeastKeyExists
    <3>5. k \in others /\ \A l \in others : k <= l
      BY <3>4
    <3> HIDE DEF k
    <3> QED BY <1>7, <3>2, <3>3, <3>5
  <2> HIDE DEF f
  <2>2. next = <<k>>
    BY <1>10
  <2> HIDE DEF k, others, next
  <2>3. PICK nx : nx = next
    OBVIOUS
  <2>4. nx \in Seq(Int) /\ Len(nx) = 1 /\ nx[1] = k /\ nx # <<>>
    BY <2>1, <2>2, <2>3
  <2>5. \E m \in MapThreads : Unread(m, t)' /\ Here(m, t)'.key = nx[1]
    BY <1>7, <2>1, <2>4
  <2>6. \A m \in MapThreads : Unread(m, t)' => nx[1] <= Here(m, t)'.key
    BY <1>6, <1>7, <2>1, <2>4
  <2>7. LeastKey(nx, t)'
    BY <1>2, <2>4, <2>5, <2>6 DEF LeastKey
  <2>8. Turns(w, t, min, nx)
    BY <1>4, <1>10, <2>3, <2>4, <2>7 DEF Turns
  <2> QED BY <1>3, <2>4, <2>8
<1> QED BY <1>9, <1>10

\* vals are the values of the lists of an iterator: at says which list, and which of
\* its values, the one at a place of vals is.
Listed(vals, itr, at) ==
    /\ \A p \in 1..Len(vals) : /\ at[p][1] \in 1..Len(itr)
                               /\ at[p][2] \in 1..Len(itr[at[p][1]].vals)
                               /\ vals[p] = itr[at[p][1]].vals[at[p][2]]
    /\ \A p, q \in 1..Len(vals) : at[p][1] = at[q][1] /\ at[p][2] = at[q][2] => p = q
    /\ \A k \in 1..Len(itr) : \A l \in 1..Len(itr[k].vals) :
          \E p \in 1..Len(vals) : at[p][1] = k /\ at[p][2] = l

\* The values an iterator walks over are those of its entries, each once.
LEMMA ValuesElements ==
    ASSUME NEW w, work[w].itr \in Seq(Entries)
    PROVE  /\ ValuesOf(w) \in Seq(SUBSET Emissions)
           /\ \E at : Listed(ValuesOf(w), work[w].itr, at)
           /\ work[w].itr # <<>> /\ (\A l \in 1..Len(work[w].itr) : work[w].itr[l].vals # <<>>)
                 => ValuesOf(w) # <<>>
<1> DEFINE itr == work[w].itr
           seqs == [l \in 1..Len(itr) |-> itr[l].vals]
           vals == FlattenSeq(seqs)
<1>1. itr \in Seq(Entries) /\ Len(itr) \in Nat /\ DOMAIN itr = 1..Len(itr)
  BY LenProperties
<1>2. \A l \in 1..Len(itr) : itr[l].vals \in Seq(SUBSET Emissions)
  <2>1. \A l \in 1..Len(itr) : itr[l] \in Entries
    BY <1>1, ElementOfSeq
  <2> QED BY <2>1 DEF Entries
<1>3. ValuesOf(w) = vals
  BY <1>1 DEF ValuesOf
<1> HIDE DEF itr
<1>4. /\ seqs \in Seq(Seq(SUBSET Emissions)) /\ Len(seqs) = Len(itr)
      /\ \A l \in 1..Len(itr) : seqs[l] = itr[l].vals
  BY <1>1, <1>2, IsASeq
<1> HIDE DEF seqs
<1>5. vals \in Seq(SUBSET Emissions) /\ \E at : Spread(vals, seqs, Len(itr), at)
  BY <1>4, FlattenElements
<1> HIDE DEF vals
<1>6. PICK at : Spread(vals, seqs, Len(itr), at)
  BY <1>5
<1>7. Listed(vals, itr, at)
  <2>1. ASSUME NEW p \in 1..Len(vals)
        PROVE  /\ at[p][1] \in 1..Len(itr) /\ at[p][2] \in 1..Len(itr[at[p][1]].vals)
               /\ vals[p] = itr[at[p][1]].vals[at[p][2]]
    BY <1>6, <1>4 DEF Spread
  <2>2. \A p, q \in 1..Len(vals) : at[p][1] = at[q][1] /\ at[p][2] = at[q][2] => p = q
    BY <1>6 DEF Spread
  <2>3. ASSUME NEW k \in 1..Len(itr), NEW l \in 1..Len(itr[k].vals)
        PROVE  \E p \in 1..Len(vals) : at[p][1] = k /\ at[p][2] = l
    <3>1. l \in 1..Len(seqs[k])
      BY <1>4
    <3> QED BY <1>6, <3>1 DEF Spread
  <2> QED BY <2>1, <2>2, <2>3 DEF Listed
<1>8. ASSUME itr # <<>>, \A l \in 1..Len(itr) : itr[l].vals # <<>>
      PROVE  vals # <<>>
  BY <1>1, <1>8, <1>2, <1>7 DEF Listed
<1> QED BY <1>3, <1>5, <1>7, <1>8 DEF itr

\* An insertion keeps the type whatever the keys are.
LEMMA InsertType ==
    ASSUME NEW V, NEW arr \in Seq([key : Int, val : V]),
           NEW key \in Int, NEW val \in V, NEW append \in BOOLEAN
    PROVE  /\ insert_keyval(arr, key, val, append) \in Seq([key : Int, val : V])
           /\ \E p : PutIn(insert_keyval(arr, key, val, append), arr, p, [key |-> key, val |-> val])
<1> DEFINE S == [key : Int, val : V]
           e == [key |-> key, val |-> val]
           search == ~append /\ arr # <<>> /\ Last(arr).key > key
           p == IF search THEN SearchPos(arr, key) ELSE Len(arr) + 1
<1>1. insert_keyval(arr, key, val, append) = InsertAt(arr, p, e)
  BY DEF insert_keyval
<1>2. e \in S /\ Len(arr) \in Nat
  OBVIOUS
<1>3. p \in 1..(Len(arr) + 1)
  <2>1. CASE search
    <3>1. arr # <<>> /\ p = SearchPos(arr, key)
      BY <2>1
    <3>2. BinarySearch(arr, key) \in -1..(Len(arr) - 1)
      BY <1>2, SearchResult
    <3> DEFINE b == BinarySearch(arr, key)
               N == Len(arr)
               low == IF b < 0 THEN 0 ELSE b
    <3>3. SearchPos(arr, key) = low + 1 \/ SearchPos(arr, key) = low + 2
      BY DEF SearchPos
    <3>4. N \in Nat /\ N > 0
      BY <1>2, <3>1
    <3> HIDE DEF b, N
    <3>5. b \in -1..(N - 1)
      BY <3>2 DEF b, N
    <3>6. low + 1 \in 1..(N + 1) /\ low + 2 \in 1..(N + 1)
      BY <3>4, <3>5
    <3> HIDE DEF low, p, search
    <3>7. p \in 1..(N + 1)
      BY <3>1, <3>3, <3>6
    <3> QED BY <3>7 DEF N
  <2>2. CASE ~search
    <3>1. p = Len(arr) + 1
      BY <2>2
    <3> QED BY <1>2, <3>1
  <2> QED BY <2>1, <2>2
<1> HIDE DEF p, e
<1>4. arr \in Seq(S)
  OBVIOUS
<1> HIDE DEF S
<1>5. /\ InsertAt(arr, p, e) \in Seq(S)
      /\ Len(InsertAt(arr, p, e)) = Len(arr) + 1
      /\ \A k \in 1..(Len(arr) + 1) :
            InsertAt(arr, p, e)[k] = IF k < p THEN arr[k] ELSE IF k = p THEN e ELSE arr[k - 1]
  <2>1. e \in S
    BY <1>2
  <2> QED BY <1>3, <1>4, <2>1, InsertAtElements
<1>6. PutIn(InsertAt(arr, p, e), arr, p, e)
  BY <1>3, <1>5 DEF PutIn
<1> QED BY <1>1, <1>5, <1>6 DEF S, e

\* What the reduce function and identity_reduce find: the key, and the array of
\* results the worker emits to.
LEMMA ReducePlace ==
    ASSUME IInv, TInv, NEW w \in Threads, pc[w] \in {"reduce", "iterate"}
    PROVE  /\ phase = "reduce" /\ work[w] \in Works
           /\ work[w].task \in ReduceTasks /\ Queue(w) \in Queues(args)
           /\ Len(work[w].min) = 1 /\ work[w].min \in Seq(Int)
           /\ Head(work[w].min) = work[w].min[1] /\ work[w].min[1] \in Int
           /\ work[w].itr \in Seq(Entries) /\ ValuesOf(w) \in Seq(SUBSET Emissions)
           /\ ValuesOf(w) # <<>>
           /\ args.use_one_queue_per_task \in BOOLEAN
<1>1. phase = "reduce" /\ w \in Nat /\ w < args.num_reduce_threads
  BY WorkerNumber DEF TInv, PlacesOK, PlacesIn
<1>2. /\ work[w].task \in ReduceTasks /\ Len(work[w].min) = 1 /\ work[w].itr # <<>>
      /\ \A l \in 1..Len(work[w].itr) : work[w].itr[l].vals # <<>>
  BY DEF TInv, HeldOK, Holder, Held
<1>3. work[w] \in Works
  BY DEF TInv, WorkOK
<1>4. work[w].min \in Seq(Int) /\ work[w].itr \in Seq(Entries)
  BY <1>3 DEF Works
<1>5. Head(work[w].min) = work[w].min[1] /\ work[w].min[1] \in Int
  <2> DEFINE min == work[w].min
  <2>1. min \in Seq(Int) /\ Len(min) = 1
    BY <1>2, <1>4
  <2> HIDE DEF min
  <2>2. min # <<>>
    <3> SUFFICES ASSUME min = <<>> PROVE FALSE
      OBVIOUS
    <3>1. Len(min) = 0
      OBVIOUS
    <3> QED BY <2>1, <3>1
  <2>3. Head(min) = min[1] /\ min[1] \in Int
    BY <2>1, <2>2
  <2> QED BY <2>3 DEF min
<1>6. args.use_one_queue_per_task \in BOOLEAN /\ args.num_reduce_tasks \in Nat
      /\ args.num_reduce_threads \in Nat
  BY CallType DEF IInv
<1>7. Queue(w) \in Queues(args)
  <2>1. CASE args.use_one_queue_per_task
    BY <1>2, <1>6, <2>1 DEF Queue, Queues, ReduceTasks
  <2>2. CASE ~args.use_one_queue_per_task
    BY <1>1, <1>6, <2>2 DEF Queue, Queues
  <2> QED BY <2>1, <2>2
<1>8. ValuesOf(w) \in Seq(SUBSET Emissions) /\ ValuesOf(w) # <<>>
  BY <1>2, <1>4, ValuesElements
<1> QED BY <1>1, <1>2, <1>3, <1>4, <1>5, <1>6, <1>7, <1>8

\* emit puts one record into the array of results of the worker's queue.
LEMMA EmitFinal ==
    ASSUME IInv, TInv, NEW w \in Threads, pc[w] \in {"reduce", "iterate"},
           NEW val \in SUBSET Emissions, emit(w, val)
    PROVE  LET q == Queue(w)
               key == work[w].min[1]
               one == args.use_one_queue_per_task
           IN  /\ final_vals' = [final_vals EXCEPT ![q] =
                                    insert_keyval(final_vals[q], key, val, one)]
               /\ final_vals' \in [Queues(args) -> Seq(Results)]
               /\ insert_keyval(final_vals[q], key, val, one) \in Seq(Results)
<1> DEFINE q == Queue(w)
           key == work[w].min[1]
           one == args.use_one_queue_per_task
           new == insert_keyval(final_vals[q], key, val, one)
<1>1. /\ q \in Queues(args) /\ Head(work[w].min) = key /\ key \in Int /\ one \in BOOLEAN
  BY ReducePlace
<1>2. final_vals \in [Queues(args) -> Seq(Results)]
  BY DEF TInv, FinalOK
<1>3. final_vals' = [final_vals EXCEPT ![q] = new]
  BY <1>1 DEF emit
<1> DEFINE arr == final_vals[q]
           V == SUBSET Emissions
<1>4. arr \in Seq([key : Int, val : V])
  BY <1>1, <1>2 DEF Results
<1> HIDE DEF q, key, one, arr, V
<1>5. insert_keyval(arr, key, val, one) \in Seq([key : Int, val : V])
  <2>1. val \in V
    BY DEF V
  <2> QED BY <1>1, <1>4, <2>1, InsertType
<1>6. new \in Seq(Results)
  BY <1>5 DEF arr, V, Results
<1> HIDE DEF new
<1>7. final_vals' \in [Queues(args) -> Seq(Results)]
  BY <1>1, <1>2, <1>3, <1>6
<1> QED BY <1>3, <1>6, <1>7 DEF q, key, one, new

\* Reduce emits the union of the values and turns to the next key.
LEMMA ReduceEffect ==
    ASSUME IInv, TInv, NEW w \in Threads, Reduce(w)
    PROVE  /\ UNION ToSet(ValuesOf(w)) \in SUBSET Emissions
           /\ emit(w, UNION ToSet(ValuesOf(w))) /\ NextKey(w) /\ pc[w] = "reduce"
           /\ pc[w] \in {"reduce", "iterate"}
BY ReducePlace DEF Reduce, ToSet

\* The identity reducer emits the first value and goes on with the others, or with
\* the next key after the last.
LEMMA IdentityEffect ==
    ASSUME IInv, TInv, NEW w \in Threads, identity_reduce(w)
    PROVE  /\ pc[w] \in {"reduce", "iterate"}
           /\ Head(ValuesOf(w)) = ValuesOf(w)[1] /\ ValuesOf(w)[1] \in SUBSET Emissions
           /\ emit(w, ValuesOf(w)[1])
           /\ \/ Len(ValuesOf(w)) = 1 /\ NextKey(w)
              \/ LET list == [key |-> work[w].min[1], vals |-> Tail(ValuesOf(w))]
                 IN  /\ list \in Entries /\ Tail(ValuesOf(w)) # <<>>
                     /\ work' = [work EXCEPT ![w] = [@ EXCEPT !.itr = <<list>>]]
                     /\ pc' = [pc EXCEPT ![w] = "iterate"]
<1>1. pc[w] \in {"reduce", "iterate"} /\ emit(w, Head(ValuesOf(w)))
  BY DEF identity_reduce
<1> DEFINE vals == ValuesOf(w)
           key == work[w].min[1]
           list == [key |-> key, vals |-> Tail(vals)]
<1>2. /\ vals \in Seq(SUBSET Emissions) /\ vals # <<>> /\ key \in Int /\ Head(work[w].min) = key
  BY <1>1, ReducePlace
<1>3. \/ Len(vals) = 1 /\ NextKey(w)
      \/ /\ Len(vals) # 1 /\ pc' = [pc EXCEPT ![w] = "iterate"]
         /\ work' = [work EXCEPT ![w] = [@ EXCEPT !.itr = <<list>>]]
  BY <1>2 DEF identity_reduce
<1> HIDE DEF vals, key
<1>4. Head(vals) = vals[1] /\ vals[1] \in SUBSET Emissions /\ Tail(vals) \in Seq(SUBSET Emissions)
  BY <1>2
<1>5. Len(vals) # 1 => Tail(vals) # <<>>
  <2>1. Len(Tail(vals)) = Len(vals) - 1 /\ Len(vals) \in Nat /\ Len(vals) # 0
    BY <1>2, HeadTailProperties
  <2>2. Len(<<>>) = 0
    OBVIOUS
  <2> QED BY <2>1, <2>2
<1>6. list \in Entries
  BY <1>2, <1>4 DEF Entries
<1> QED BY <1>1, <1>3, <1>4, <1>5, <1>6 DEF vals, key

\* Positions stay within their arrays.
LEMMA PosKeep ==
    ASSUME IInv, TInv, [Next]_vars, IInv', ArraysOK'
    PROVE  PosOK'
<1>1. CASE NextCall
  <2>1. pos' = NoVals(args', 0) /\ intermediate_vals' = NoVals(args', <<>>)
    BY <1>1 DEF NextCall
  <2>2. /\ NoVals(args', 0) = [m \in MapWorkers' |-> [r \in ReduceTasks' |-> 0]]
        /\ NoVals(args', <<>>) = [m \in MapWorkers' |-> [r \in ReduceTasks' |-> <<>>]]
    BY DEF NoVals, MapWorkers, ReduceTasks
  <2>3. \A m \in MapWorkers', r \in ReduceTasks' : pos'[m][r] = 0 /\ Arr(m, r)' = <<>>
    BY <2>1, <2>2 DEF Arr
  <2>4. pos' \in [MapWorkers' -> [ReduceTasks' -> Nat]]
    BY <2>1, <2>2
  <2>5. \A m \in MapWorkers', r \in ReduceTasks' : pos'[m][r] <= Len(Arr(m, r)')
    BY <2>3
  <2> QED BY <2>3, <2>4, <2>5 DEF PosOK
<1>2. ASSUME NEW w \in Threads, Gather(w), args' = args PROVE PosOK'
  <2>1. PICK t : t = work[w].task
    OBVIOUS
  <2>2. PICK min : min = work[w].min
    OBVIOUS
  <2> QED BY <1>2, <2>1, <2>2, GatherEffect
<1>3. CASE UNCHANGED <<args, pos>> /\ ~NextCall
  <2>1. MapWorkers' = MapWorkers /\ ReduceTasks' = ReduceTasks
    BY <1>3, ArgsStay
  <2>2. ASSUME phase' \in {"split", "map"} PROVE phase \in {"split", "map"}
    BY <1>3, <2>2, PhaseChange DEF StartMap, StartReduce, StartMerge, NextMergeRound,
       map_reduce_finalize
  <2>3. ASSUME NEW m \in MapWorkers, NEW r \in ReduceTasks PROVE pos[m][r] <= Len(Arr(m, r)')
    <3>1. pos[m][r] \in Nat /\ pos[m][r] <= Len(Arr(m, r))
      BY PosType DEF TInv
    <3>2. (Arr(m, r)') \in Seq(Entries')
      BY <2>1 DEF ArraysOK, Arr
    <3>3. Len(Arr(m, r)') \in Nat
      BY <3>2
    <3>4. CASE phase = "map"
      <4>1. pos[m][r] = 0
        BY <3>4 DEF TInv, PosOK
      <4> QED BY <3>3, <4>1
    <3>5. CASE phase # "map"
      <4>1. intermediate_vals' = intermediate_vals
        BY <1>3, <3>5, ArrayChange, EmitArrays, CombineArrays
      <4>2. Arr(m, r)' = Arr(m, r)
        BY <4>1 DEF Arr
      <4> QED BY <3>1, <4>2
    <3> QED BY <3>4, <3>5
  <2> QED BY <1>3, <2>1, <2>2, <2>3 DEF TInv, PosOK
<1> QED BY <1>1, <1>2, <1>3, PosChange

\* The arrays of results keep their type.
LEMMA FinalKeep ==
    ASSUME IInv, TInv, [Next]_vars
    PROVE  FinalOK'
<1>1. CASE UNCHANGED <<args, final_vals>>
  BY <1>1, ArgsStay DEF TInv, FinalOK
<1>2. CASE NextCall
  BY <1>2 DEF NextCall, FinalOK
<1>3. ASSUME NEW w \in Threads, Reduce(w), args' = args PROVE FinalOK'
  <2>1. Results' = Results /\ Queues(args)' = Queues(args)
    BY <1>3, ArgsStay
  <2> DEFINE val == UNION ToSet(ValuesOf(w))
  <2>2. val \in SUBSET Emissions /\ emit(w, val) /\ pc[w] \in {"reduce", "iterate"}
    BY <1>3, ReduceEffect
  <2> HIDE DEF val
  <2>3. final_vals' \in [Queues(args) -> Seq(Results)]
    BY <2>2, EmitFinal
  <2> QED BY <2>1, <2>3 DEF FinalOK
<1>4. ASSUME NEW w \in Threads, identity_reduce(w), args' = args PROVE FinalOK'
  <2>1. Results' = Results /\ Queues(args)' = Queues(args)
    BY <1>4, ArgsStay
  <2> DEFINE val == ValuesOf(w)[1]
  <2>2. val \in SUBSET Emissions /\ emit(w, val) /\ pc[w] \in {"reduce", "iterate"}
    BY <1>4, IdentityEffect
  <2> HIDE DEF val
  <2>3. final_vals' \in [Queues(args) -> Seq(Results)]
    BY <2>2, EmitFinal
  <2> QED BY <2>1, <2>3 DEF FinalOK
<1> QED BY <1>1, <1>2, <1>3, <1>4, FinalChange

\* The emissions of a map task, in the order of the input.
TaskLists(t) == [u \in 1..(t.last - t.first + 1) |->
                    [k \in DOMAIN args.emits[t.first + u - 1] |-> <<t.first + u - 1, k>>]]

\* The emissions of a task are those of its units.
LEMMA TaskElements ==
    ASSUME args \in Args, NEW t, t.first \in 1..t.last, t.last \in 1..Units
    PROVE  /\ TaskLists(t) \in Seq(Seq(Emissions))
           /\ Len(TaskLists(t)) = t.last - t.first + 1
           /\ \A u \in 1..(t.last - t.first + 1) :
                 /\ t.first + u - 1 \in t.first..t.last /\ t.first + u - 1 \in 1..Units
                 /\ Len(TaskLists(t)[u]) = Len(args.emits[t.first + u - 1])
                 /\ \A k \in 1..Len(TaskLists(t)[u]) : TaskLists(t)[u][k] = <<t.first + u - 1, k>>
<1> DEFINE n == t.last - t.first + 1
           list(u) == [k \in DOMAIN args.emits[t.first + u - 1] |-> <<t.first + u - 1, k>>]
<1>1. Units \in Nat \ {0} /\ \A u \in 1..Units : args.emits[u] \in Seq(DOMAIN args.partition)
  BY EmitsType
<1>2. t.first \in Nat \ {0} /\ t.last \in Nat /\ n \in Nat /\ t.last <= Units
  BY <1>1
<1>3. ASSUME NEW u \in 1..n
      PROVE  t.first + u - 1 \in t.first..t.last /\ t.first + u - 1 \in 1..Units
  BY <1>1, <1>2
<1>4. ASSUME NEW u \in 1..n
      PROVE  /\ list(u) \in Seq(Emissions) /\ Len(list(u)) = Len(args.emits[t.first + u - 1])
             /\ \A k \in 1..Len(list(u)) : list(u)[k] = <<t.first + u - 1, k>>
  <2> DEFINE v == t.first + u - 1
             s == args.emits[v]
  <2>1. v \in 1..Units
    BY <1>3
  <2>2. s \in Seq(DOMAIN args.partition)
    BY <1>1, <2>1
  <2>3. \A k \in 1..Len(s) : <<v, k>> \in Emissions
    <3> HIDE DEF v
    <3> QED BY <2>1, EmissionIn DEF s
  <2> HIDE DEF s, v
  <2>4. Len(s) \in Nat /\ DOMAIN s = 1..Len(s)
    BY <2>2
  <2>5. [k \in 1..Len(s) |-> <<v, k>>] \in Seq(Emissions)
    BY <2>3, <2>4, IsASeq
  <2>6. Len([k \in 1..Len(s) |-> <<v, k>>]) = Len(s)
    BY <2>4
  <2> QED BY <2>4, <2>5, <2>6 DEF s, v
<1>5. TaskLists(t) = [u \in 1..n |-> list(u)]
  BY DEF TaskLists
<1> HIDE DEF n, list
<1>6. [u \in 1..n |-> list(u)] \in Seq(Seq(Emissions)) /\ Len([u \in 1..n |-> list(u)]) = n
  BY <1>2, <1>4, IsASeq
<1>7. \A u \in 1..n : TaskLists(t)[u] = list(u)
  BY <1>5
<1> QED BY <1>3, <1>4, <1>5, <1>6, <1>7 DEF n

\* The map task that is taken: its emissions, each once, are the worker's to emit.
LEMMA TakeTask ==
    ASSUME IInv, TInv, NEW w \in Threads, NextMapTask(w)
    PROVE  /\ phase = "map" /\ w \in MapThreads /\ pc[w] = "task" /\ todo[w] = <<>>
           /\ \E t \in tasks :
                 /\ t.first \in 1..t.last /\ t.last \in 1..Units
                 /\ tasks' = tasks \ {t}
                 /\ todo' = [todo EXCEPT ![w] = FlattenSeq(TaskLists(t))]
                 /\ FlattenSeq(TaskLists(t)) \in Seq(Emissions)
<1>1. phase = "map" /\ pc[w] = "task"
  BY DEF NextMapTask, Goto
<1>2. w \in MapThreads /\ todo[w] = <<>>
  BY <1>1, WorkerNumber DEF TInv, PlacesOK, PlacesIn
<1>3. PICK t \in tasks : /\ tasks' = tasks \ {t}
                         /\ todo' = [todo EXCEPT ![w] = FlattenSeq(TaskLists(t))]
  BY DEF NextMapTask, TaskLists
<1>4. t.first \in 1..t.last /\ t.last \in 1..Units
  BY <1>1 DEF TInv, TasksOK
<1>5. TaskLists(t) \in Seq(Seq(Emissions))
  BY <1>4, TaskElements DEF IInv
<1>6. FlattenSeq(TaskLists(t)) \in Seq(Emissions)
  BY <1>5, FlattenElements
<1> QED BY <1>1, <1>2, <1>3, <1>4, <1>6

\* What a map worker has left to emit keeps its type.
LEMMA TodoKeep ==
    ASSUME IInv, TInv, [Next]_vars
    PROVE  TodoOK'
<1>1. CASE UNCHANGED <<args, todo>>
  <2>1. Emissions' = Emissions
    BY <1>1, ArgsStay
  <2> QED BY <1>1, <2>1 DEF TInv, TodoOK
<1>2. CASE NextCall
  BY <1>2 DEF NextCall, TInv, PlacesOK, PlacesIn, TodoOK
<1>3. ASSUME NEW w \in Threads, NextMapTask(w), args' = args PROVE TodoOK'
  <2>1. PICK t \in tasks : /\ todo' = [todo EXCEPT ![w] = FlattenSeq(TaskLists(t))]
                           /\ FlattenSeq(TaskLists(t)) \in Seq(Emissions)
    BY <1>3, TakeTask
  <2> DEFINE s == FlattenSeq(TaskLists(t))
  <2> HIDE DEF s
  <2>2. todo' \in [Threads -> Seq(Emissions)]
    BY <2>1 DEF TInv, TodoOK, s
  <2> QED BY <1>3, <2>2, ArgsStay DEF TodoOK
<1>4. ASSUME NEW w \in Threads, emit_intermediate(w), args' = args PROVE TodoOK'
  BY <1>4, ArgsStay DEF emit_intermediate, TInv, TodoOK
<1> QED BY <1>1, <1>2, <1>3, <1>4, TodoChange

\* The merge phase has two arrays for each of its threads.
LEMMA MergeThreadsType ==
    ASSUME NEW a \in Args
    PROVE  /\ MergeThreads(a) \in 1..MaxThreads
           /\ a.use_one_queue_per_task => 2 * MergeThreads(a) <= a.num_reduce_tasks
           /\ ~a.use_one_queue_per_task /\ a.num_reduce_threads > 1
                 => 2 * MergeThreads(a) <= a.num_reduce_threads
<1> DEFINE r == a.num_reduce_threads
           g == a.num_merge_threads
           t == a.num_reduce_tasks
<1>1. /\ r \in Nat \ {0} /\ g \in Nat \ {0} /\ t \in Nat \ {0, 1}
      /\ r <= MaxThreads /\ g <= MaxThreads /\ MaxThreads \in Nat \ {0}
  BY ArgsAssumption, MaxThreadsAssumption
<1>2. MergeThreads(a) = Min2(Max2(IF a.use_one_queue_per_task THEN g ELSE r \div 2, 1), t \div 2)
  BY DEF MergeThreads
<1> HIDE DEF r, g, t
<1>3. r \div 2 \in Nat /\ 2 * (r \div 2) <= r /\ t \div 2 \in Nat \ {0} /\ 2 * (t \div 2) <= t
  BY <1>1
<1>4. CASE a.use_one_queue_per_task
  BY <1>1, <1>2, <1>4, <1>3 DEF Max2, Min2, t
<1>5. CASE ~a.use_one_queue_per_task
  <2> DEFINE h == Max2(r \div 2, 1)
  <2>1. h \in 1..MaxThreads /\ (r > 1 => 2 * h <= r)
    BY <1>1, <1>3 DEF Max2
  <2>2. MergeThreads(a) = Min2(h, t \div 2)
    BY <1>2, <1>5
  <2> HIDE DEF h
  <2>3. MergeThreads(a) \in 1..MaxThreads /\ MergeThreads(a) <= h
    BY <1>1, <1>3, <2>1, <2>2 DEF Min2
  <2>4. r > 1 => 2 * MergeThreads(a) <= r
    BY <1>1, <2>1, <2>3
  <2> QED BY <1>5, <2>3, <2>4 DEF r
<1> QED BY <1>4, <1>5

\* The numbers of threads stay in their ranges.
LEMMA NumbersKeep ==
    ASSUME IInv, TInv, [Next]_vars, IInv'
    PROVE  NumbersOK'
<1>1. MaxThreads \in Nat \ {0}
  BY MaxThreadsAssumption
<1>2. /\ num_map_threads \in 1..args.num_map_threads /\ num_merge_threads \in 1..MaxThreads
      /\ phase \in {"split", "map", "reduce"} => num_merge_threads = MergeThreads(args)
      /\ pool \in 0..MaxThreads
  BY DEF TInv, NumbersOK
<1>3. args.num_map_threads \in Nat \ {0}
  BY CallType DEF IInv
<1>4. pool' \in 0..MaxThreads
  <2>1. pool' = pool \/ pool' = 0
    BY Steps, ZenonT(60) DEF Split, StartMap, StartReduce, StartMerge, NextMergeRound, NextCall,
       map_reduce_finalize, NextMapTask, emit_intermediate, EndMapTask, FinishMap, NextReduceTask,
       Gather, Reduce, identity_reduce, FinishReduce, MergeStep, FinishMerge, jobVars, envVars
  <2> QED BY <1>1, <1>2, <2>1
<1>5. CASE UNCHANGED <<args, phase, num_map_threads, num_merge_threads>>
  BY <1>5, <1>2, <1>4 DEF NumbersOK
<1>6. CASE StartMap
  <2>1. /\ phase = "split" /\ splitter_pos = Units /\ phase' = "map" /\ args' = args
        /\ num_map_threads' = Min2(Cardinality(tasks), num_map_threads)
        /\ num_merge_threads' = num_merge_threads
    BY <1>6 DEF StartMap
  <2>2. tasks # {}
    <3>1. Units # 0
      BY EmitsType DEF IInv
    <3> QED BY <2>1, <3>1 DEF TInv, TasksOK
  <2>3. Cardinality(tasks) \in Nat \ {0}
    <3>1. IsFiniteSet(tasks)
      BY <2>1 DEF IInv, Counts
    <3> QED BY <2>2, <3>1, FS_CardinalityType, FS_EmptySet
  <2>4. num_map_threads' \in 1..args.num_map_threads
    BY <1>2, <1>3, <2>1, <2>3 DEF Min2
  <2>5. MergeThreads(args)' = MergeThreads(args)
    BY <2>1
  <2> QED BY <1>2, <1>4, <2>1, <2>4, <2>5 DEF NumbersOK
<1>7. CASE StartReduce
  BY <1>7, <1>2, <1>4 DEF StartReduce, envVars, NumbersOK
<1>8. CASE StartMerge
  BY <1>8, <1>2, <1>4 DEF StartMerge, envVars, NumbersOK
<1>9. CASE NextMergeRound
  BY <1>9, <1>1, <1>2, <1>4 DEF NextMergeRound, TInv, Max2, NumbersOK
<1>10. CASE NextCall
  <2>1. num_map_threads' = args'.num_map_threads /\ num_merge_threads' = MergeThreads(args')
    BY <1>10 DEF NextCall
  <2>2. args' \in Args
    BY DEF IInv
  <2>3. args'.num_map_threads \in Nat \ {0}
    BY <2>2, CallType
  <2>4. MergeThreads(args') \in 1..MaxThreads
    BY <2>2, MergeThreadsType
  <2>5. num_map_threads' \in 1..args'.num_map_threads
    BY <2>1, <2>3
  <2> QED BY <1>4, <2>1, <2>4, <2>5 DEF NumbersOK
<1>11. CASE map_reduce_finalize
  BY <1>11, <1>2, <1>4 DEF map_reduce_finalize, NumbersOK
<1> QED BY <1>5, <1>6, <1>7, <1>8, <1>9, <1>10, <1>11, PhaseChange

\* A merge worker's slice is of the round's input.
LEMMA SliceIn ==
    ASSUME Len(merge_input) \in Nat, num_merge_threads \in Nat \ {0}, NEW w \in Nat
    PROVE  Slice(w) \subseteq 1..Len(merge_input)
<1> DEFINE short  == SliceLength <= 1
           length == IF short THEN 2 ELSE SliceLength
           modlen == Len(merge_input) % IF short THEN 2 ELSE num_merge_threads
           first  == w * length + Min2(w, modlen)
           b == first + length + IF w < modlen THEN 1 ELSE 0
           n == Len(merge_input)
<1>1. SliceLength \in Nat
  BY DEF SliceLength
<1>2. modlen \in Nat
  OBVIOUS
<1>3. length \in Nat
  BY <1>1
<1>4. Slice(w) = first + 1..Min2(b, n)
  BY DEF Slice
<1> HIDE DEF modlen, length
<1>5. w * length \in Nat
  BY <1>3
<1>6. Min2(w, modlen) \in Nat
  BY <1>2 DEF Min2
<1>7. first \in Nat
  BY <1>5, <1>6
<1> HIDE DEF first
<1>8. b \in Nat
  BY <1>2, <1>3, <1>7
<1> HIDE DEF b
<1>9. Min2(b, n) \in Nat /\ Min2(b, n) <= n
  BY <1>8 DEF Min2
<1> QED BY <1>4, <1>7, <1>9

\* What one step of a merge worker moves.
LEMMA MergeMove ==
    ASSUME IInv, TInv, NEW w \in Threads, MergeStep(w)
    PROVE  /\ phase = "merge" /\ w \in 0..(num_merge_threads - 1)
           /\ w + 1 \in 1..Len(merge_vals)
           /\ \E q \in Slice(w) :
                 /\ q \in 1..Len(merge_input)
                 /\ Len(merge_input[q]) \in Nat \ {0} /\ merge_input[q] \in Seq(Results)
                 /\ \A r \in Slice(w) : Len(merge_input[r]) # 0 =>
                       /\ r \in 1..Len(merge_input)
                       /\ merge_input[q][1].key <= merge_input[r][1].key
                 /\ merge_input[q][1] \in Results
                 /\ Tail(merge_input[q]) \in Seq(Results)
                 /\ Len(Tail(merge_input[q])) = Len(merge_input[q]) - 1
                 /\ \A i \in 1..(Len(merge_input[q]) - 1) :
                       Tail(merge_input[q])[i] = merge_input[q][i + 1]
                 /\ merge_vals' = [merge_vals EXCEPT ![w + 1] = Append(@, merge_input[q][1])]
                 /\ merge_input' = [merge_input EXCEPT ![q] = Tail(@)]
<1>1. pc[w] = "merge"
  BY DEF MergeStep
<1>2. phase = "merge" /\ w \in 0..(num_merge_threads - 1) /\ w \in Nat
  <2>1. phase = "merge"
    BY <1>1 DEF TInv, PlacesOK, PlacesIn, IInv, Phases
  <2> QED BY <1>1, <2>1, WorkerNumber DEF TInv
<1>3. /\ Len(merge_vals) = num_merge_threads /\ merge_vals \in Seq(Seq(Results))
      /\ merge_input \in Seq(Seq(Results)) /\ num_merge_threads \in Nat \ {0}
      /\ Len(merge_input) \in Nat
  BY <1>2 DEF TInv, MergeOK, IInv, Counts
<1>4. w + 1 \in 1..Len(merge_vals)
  BY <1>2, <1>3
<1>5. PICK q \in Live(w) :
          /\ \A r \in Live(w) : LET k == merge_input[q][1].key
                                    l == merge_input[r][1].key
                                IN  k < l \/ (k = l /\ q <= r)
          /\ merge_vals' = [merge_vals EXCEPT ![w + 1] = Append(@, Head(merge_input[q]))]
          /\ merge_input' = [merge_input EXCEPT ![q] = Tail(@)]
  BY DEF MergeStep
<1>6. Slice(w) \subseteq 1..Len(merge_input)
  BY <1>2, <1>3, SliceIn
<1>7. ASSUME NEW r \in Slice(w)
      PROVE  /\ r \in 1..Len(merge_input) /\ merge_input[r] \in Seq(Results)
             /\ Len(merge_input[r]) \in Nat
             /\ Len(merge_input[r]) # 0 <=> merge_input[r] # <<>>
             /\ Len(merge_input[r]) # 0 => /\ merge_input[r][1] \in Results
                                           /\ merge_input[r][1].key \in Int
  <2>1. r \in 1..Len(merge_input) /\ merge_input[r] \in Seq(Results)
    BY <1>3, <1>6
  <2> DEFINE s == merge_input[r]
  <2> HIDE DEF s
  <2>2. s \in Seq(Results)
    BY <2>1 DEF s
  <2>3. Len(s) \in Nat /\ (Len(s) # 0 <=> s # <<>>) /\ (Len(s) # 0 => s[1] \in Results)
    BY <2>2
  <2>4. \A e \in Results : e.key \in Int
    BY DEF Results
  <2> QED BY <2>1, <2>3, <2>4 DEF s
<1>8. q \in Slice(w) /\ merge_input[q] # <<>>
  BY DEF Live
<1>9. ASSUME NEW r \in Slice(w), Len(merge_input[r]) # 0
      PROVE  r \in 1..Len(merge_input) /\ merge_input[q][1].key <= merge_input[r][1].key
  <2>1. r \in Live(w)
    BY <1>7, <1>9 DEF Live
  <2>2. \/ merge_input[q][1].key < merge_input[r][1].key
        \/ merge_input[q][1].key = merge_input[r][1].key
    BY <1>5, <2>1
  <2>3. merge_input[q][1].key \in Int /\ merge_input[r][1].key \in Int
    BY <1>7, <1>8, <1>9
  <2> QED BY <1>7, <2>2, <2>3
<1> DEFINE s == merge_input[q]
<1> HIDE DEF s
<1>10. s \in Seq(Results) /\ s # <<>>
  BY <1>7, <1>8 DEF s
<1>11. /\ Head(s) = s[1] /\ Tail(s) \in Seq(Results) /\ Len(Tail(s)) = Len(s) - 1
       /\ \A i \in 1..(Len(s) - 1) : Tail(s)[i] = s[i + 1]
  BY <1>10, HeadTailProperties
<1>12. merge_vals' = [merge_vals EXCEPT ![w + 1] = Append(@, merge_input[q][1])]
  BY <1>5, <1>11 DEF s
<1>13. /\ q \in 1..Len(merge_input)
       /\ Len(merge_input[q]) \in Nat \ {0} /\ merge_input[q] \in Seq(Results)
       /\ merge_input[q][1] \in Results
  BY <1>7, <1>8
<1>14. /\ Tail(merge_input[q]) \in Seq(Results)
       /\ Len(Tail(merge_input[q])) = Len(merge_input[q]) - 1
       /\ \A i \in 1..(Len(merge_input[q]) - 1) : Tail(merge_input[q])[i] = merge_input[q][i + 1]
  BY <1>11 DEF s
<1> QED BY <1>2, <1>4, <1>5, <1>8, <1>9, <1>12, <1>13, <1>14

\* The arrays of a new round are empty.
LEMMA EmptyArrays ==
    ASSUME NEW n \in Nat, NEW S
    PROVE  /\ [w \in 1..n |-> <<>>] \in Seq(Seq(S)) /\ Len([w \in 1..n |-> <<>>]) = n
           /\ \A q \in 1..n : [w \in 1..n |-> <<>>][q] = <<>>
BY IsASeq

\* When reduce ends there is an array for each reduce worker or task.
LEMMA FinalArrays ==
    ASSUME IInv, TInv
    PROVE  /\ final_vals \in Seq(Seq(Results))
           /\ DOMAIN final_vals = 1..Len(final_vals)
           /\ 1..Len(final_vals) = Queues(args)
           /\ Len(final_vals) = IF args.use_one_queue_per_task THEN args.num_reduce_tasks
                                                               ELSE args.num_reduce_threads
           /\ Len(final_vals) \in Nat \ {0}
<1> DEFINE n == IF args.use_one_queue_per_task THEN args.num_reduce_tasks
                                               ELSE args.num_reduce_threads
<1>1. n \in Nat \ {0}
  BY CallType DEF IInv
<1>2. Queues(args) = 1..n
  BY DEF Queues
<1> HIDE DEF n
<1>3. final_vals \in [1..n -> Seq(Results)]
  BY <1>2 DEF TInv, FinalOK
<1>4. final_vals \in Seq(Seq(Results)) /\ Len(final_vals) = n
  BY <1>1, <1>3
<1> QED BY <1>1, <1>2, <1>3, <1>4 DEF n

\* What a merge round starts from.
LEMMA MergeStarts ==
    ASSUME IInv, TInv, StartMerge
    PROVE  /\ phase = "reduce" /\ args' = args /\ num_map_threads' = num_map_threads
           /\ num_merge_threads' = num_merge_threads /\ num_merge_threads \in Nat \ {0}
           /\ \/ /\ phase' = "done" /\ Len(final_vals) = 1 /\ result' = final_vals[1]
                 /\ UNCHANGED <<merge_input, merge_vals, pc>>
              \/ /\ phase' = "merge" /\ UNCHANGED result
                 /\ merge_input' = final_vals
                 /\ merge_vals' = [w \in 1..num_merge_threads |-> <<>>]
                 /\ 2 * num_merge_threads <= Len(final_vals)
                 /\ pc' = [w \in Threads |-> IF w < num_merge_threads THEN "merge" ELSE "off"]
<1>1. /\ phase = "reduce" /\ args' = args /\ num_map_threads' = num_map_threads
      /\ num_merge_threads' = num_merge_threads /\ num_merge_threads \in Nat \ {0}
  BY DEF StartMerge, envVars, IInv, Counts
<1>2. Len(final_vals) \in Nat \ {0}
  BY FinalArrays
<1>3. CASE Len(final_vals) <= 1
  <2>1. Len(final_vals) = 1
    <3> DEFINE n == Len(final_vals)
    <3>1. n \in Nat \ {0} /\ n <= 1
      BY <1>2, <1>3
    <3> HIDE DEF n
    <3>2. n = 1
      BY <3>1
    <3> QED BY <3>2 DEF n
  <2> QED BY <1>1, <1>3, <2>1 DEF StartMerge
<1>4. CASE Len(final_vals) > 1
  <2>1. 2 * num_merge_threads <= Len(final_vals)
    BY <1>1, <1>4, MergeThreadsType, FinalArrays DEF TInv, NumbersOK, IInv
  <2>2. ~(Len(final_vals) <= 1)
    BY <1>2, <1>4
  <2> QED BY <1>1, <2>1, <2>2 DEF StartMerge, Start
<1> QED BY <1>2, <1>3, <1>4

\* What the caller does when a merge round is over: it halves the threads and starts
\* the next round over the arrays the last one made, or it has the result.
LEMMA RoundEnds ==
    ASSUME IInv, TInv, NextMergeRound
    PROVE  /\ phase = "merge" /\ args' = args /\ num_map_threads' = num_map_threads
           /\ Len(merge_vals) = num_merge_threads /\ num_merge_threads \in Nat \ {0}
           /\ merge_input' = merge_vals
           /\ num_merge_threads' \in Nat \ {0}
           /\ \/ /\ phase' = "done" /\ Len(merge_vals) = 1 /\ result' = merge_vals[1]
                 /\ UNCHANGED <<merge_vals, pc>>
              \/ /\ phase' = "merge" /\ UNCHANGED result
                 /\ merge_vals' = [w \in 1..num_merge_threads' |-> <<>>]
                 /\ 2 * num_merge_threads' <= Len(merge_vals)
                 /\ pc' = [w \in Threads |-> IF w < num_merge_threads' THEN "merge" ELSE "off"]
<1>1. /\ phase = "merge" /\ args' = args /\ num_map_threads' = num_map_threads
      /\ merge_input' = merge_vals /\ num_merge_threads' = Max2(num_merge_threads \div 2, 1)
  BY DEF NextMergeRound
<1>2. Len(merge_vals) = num_merge_threads /\ num_merge_threads \in Nat \ {0}
  BY <1>1 DEF TInv, MergeOK, IInv, Counts
<1>3. /\ num_merge_threads' \in Nat \ {0}
      /\ num_merge_threads > 1 => 2 * num_merge_threads' <= num_merge_threads
  BY <1>1, <1>2 DEF Max2
<1>4. CASE Len(merge_vals) > 1
  BY <1>1, <1>2, <1>3, <1>4 DEF NextMergeRound, Start
<1>5. CASE ~(Len(merge_vals) > 1)
  <2>1. Len(merge_vals) = 1
    BY <1>2, <1>5
  <2> QED BY <1>1, <1>2, <1>3, <1>5, <2>1 DEF NextMergeRound
<1> QED BY <1>4, <1>5

\* The arrays of the merge phase keep their types.
LEMMA MergeKeep ==
    ASSUME IInv, TInv, [Next]_vars
    PROVE  MergeOK'
<1>0. merge_input \in Seq(Seq(Results)) /\ merge_vals \in Seq(Seq(Results)) /\ result \in Seq(Results)
  BY DEF TInv, MergeOK
<1>1. CASE NextCall
  BY <1>1 DEF NextCall, MergeOK
<1>2. CASE StartMerge
  <2>1. Results' = Results /\ final_vals \in Seq(Seq(Results)) /\ Len(final_vals) \in Nat \ {0}
    BY <1>2, MergeStarts, ArgsStay, FinalArrays
  <2>2. CASE phase' = "done"
    BY <1>2, <2>2, <2>1, <1>0, MergeStarts DEF MergeOK
  <2>3. CASE phase' = "merge"
    <3>1. /\ result' = result /\ merge_input' = final_vals
          /\ merge_vals' = [w \in 1..num_merge_threads |-> <<>>]
          /\ 2 * num_merge_threads <= Len(final_vals)
          /\ num_merge_threads' = num_merge_threads /\ num_merge_threads \in Nat \ {0}
      BY <1>2, <2>3, MergeStarts
    <3>2. merge_vals' \in Seq(Seq(Results)) /\ Len(merge_vals') = num_merge_threads
      BY <3>1, EmptyArrays
    <3> QED BY <1>0, <2>1, <2>3, <3>1, <3>2 DEF MergeOK
  <2> QED BY <1>2, <2>2, <2>3, MergeStarts
<1>3. CASE NextMergeRound
  <2>1. Results' = Results /\ merge_input' = merge_vals
    BY <1>3, RoundEnds, ArgsStay
  <2>2. CASE phase' = "done"
    <3>1. merge_vals' = merge_vals /\ result' = merge_vals[1] /\ Len(merge_vals) = 1
      BY <1>3, <2>2, RoundEnds
    <3>2. merge_vals[1] \in Seq(Results)
      <4>1. 1 \in 1..Len(merge_vals)
        BY <3>1
      <4> QED BY <1>0, <4>1, ElementOfSeq
    <3> QED BY <1>0, <2>1, <2>2, <3>1, <3>2 DEF MergeOK
  <2>3. CASE phase' = "merge"
    <3>1. /\ result' = result
          /\ merge_vals' = [w \in 1..num_merge_threads' |-> <<>>]
          /\ 2 * num_merge_threads' <= Len(merge_vals)
          /\ num_merge_threads' \in Nat \ {0}
      BY <1>3, <2>3, RoundEnds
    <3>2. merge_vals' \in Seq(Seq(Results)) /\ Len(merge_vals') = num_merge_threads'
      BY <3>1, EmptyArrays
    <3> QED BY <1>0, <2>1, <2>3, <3>1, <3>2 DEF MergeOK
  <2> QED BY <1>3, <2>2, <2>3, RoundEnds
<1>4. ASSUME NEW w \in Threads, MergeStep(w), args' = args PROVE MergeOK'
  <2>1. /\ phase = "merge" /\ w + 1 \in 1..Len(merge_vals)
    BY <1>4, MergeMove
  <2>2. PICK q \in 1..Len(merge_input) :
            /\ merge_input[q][1] \in Results /\ Tail(merge_input[q]) \in Seq(Results)
            /\ merge_vals' = [merge_vals EXCEPT ![w + 1] = Append(@, merge_input[q][1])]
            /\ merge_input' = [merge_input EXCEPT ![q] = Tail(@)]
    BY <1>4, MergeMove
  <2>3. UNCHANGED <<phase, num_merge_threads, result>> /\ Results' = Results
    BY <1>4, ArgsStay DEF MergeStep, envVars, callerVars
  <2>4. merge_input' \in Seq(Seq(Results)) /\ Len(merge_input') = Len(merge_input)
    <3> DEFINE s == Tail(merge_input[q])
    <3> HIDE DEF s
    <3>1. s \in Seq(Results) /\ merge_input' = [merge_input EXCEPT ![q] = s]
      BY <2>2 DEF s
    <3> QED BY <1>0, <2>2, <3>1
  <2>5. merge_vals' \in Seq(Seq(Results)) /\ Len(merge_vals') = Len(merge_vals)
    <3>1. merge_vals[w + 1] \in Seq(Results)
      BY <1>0, <2>1
    <3> DEFINE s == Append(merge_vals[w + 1], merge_input[q][1])
    <3>2. s \in Seq(Results)
      BY <2>2, <3>1
    <3>3. merge_vals' = [merge_vals EXCEPT ![w + 1] = s]
      BY <2>2
    <3> HIDE DEF s
    <3> QED BY <1>0, <2>1, <3>2, <3>3
  <2> QED BY <1>0, <2>1, <2>3, <2>4, <2>5 DEF MergeOK, TInv
<1>5. CASE UNCHANGED <<args, mergeVars>> /\ ~NextCall /\ ~StartMerge /\ ~NextMergeRound
  <2>1. UNCHANGED <<merge_input, merge_vals, result>> /\ Results' = Results
    BY <1>5, ArgsStay DEF mergeVars
  <2>2. phase' = "merge" => phase = "merge" /\ num_merge_threads' = num_merge_threads
    BY <1>5, PhaseChange DEF StartMap, StartReduce, map_reduce_finalize
  <2> QED BY <2>1, <2>2 DEF TInv, MergeOK
<1> QED BY <1>1, <1>2, <1>3, <1>4, <1>5, MergeChange

\* The reduce tasks that are queued are the first ones.
LEMMA QueuedType ==
    ASSUME args \in Args, NumbersOK
    PROVE  /\ ReduceTasksQueued \in Nat /\ ReduceTasksQueued <= args.num_reduce_tasks
           /\ 0..(ReduceTasksQueued - 1) \subseteq ReduceTasks
<1> DEFINE T == args.num_reduce_tasks
           R == args.num_reduce_threads
           P == T \div R
           L == T - P * num_map_threads
<1>1. T \in Nat \ {0} /\ R \in Nat \ {0} /\ num_map_threads \in Nat
  BY CallType DEF NumbersOK
<1>2. P \in Nat /\ P * R \in Nat
  BY <1>1, Division
<1>3. L \in Int
  <2> HIDE DEF T, P
  <2> QED BY <1>1, <1>2
<1>4. ReduceTasksQueued = Min2(T, P * R + Min2(Max2(L, 0), R))
  BY DEF ReduceTasksQueued
<1>5. ReduceTasks = 0..(T - 1)
  BY DEF ReduceTasks
<1> HIDE DEF T, R, P, L
<1>6. Min2(Max2(L, 0), R) \in Nat
  BY <1>1, <1>3 DEF Min2, Max2
<1>7. ReduceTasksQueued \in Nat /\ ReduceTasksQueued <= T
  BY <1>1, <1>2, <1>4, <1>6 DEF Min2
<1>8. 0..(ReduceTasksQueued - 1) \subseteq ReduceTasks
  BY <1>1, <1>5, <1>7
<1> QED BY <1>7, <1>8 DEF T

\* What a reduce worker works on keeps its type.
LEMMA WorkKeep ==
    ASSUME IInv, TInv, [Next]_vars, IInv'
    PROVE  WorkOK'
<1>0. work \in [Threads -> Works]
  BY DEF TInv, WorkOK
<1>1. CASE UNCHANGED <<args, work>>
  BY <1>0, <1>1, ArgsStay DEF WorkOK
<1>2. CASE NextCall
  BY <1>2 DEF NextCall, Idle, Works, WorkOK
<1>3. ASSUME NEW w \in Threads, NextReduceTask(w), args' = args PROVE WorkOK'
  <2>1. PICK t \in tasks : work' = [work EXCEPT ![w] = [Idle EXCEPT !.task = t]]
    BY <1>3 DEF NextReduceTask
  <2>2. phase = "reduce"
    BY <1>3 DEF NextReduceTask
  <2>3. t \in ReduceTasks
    BY <2>2, QueuedType, CallType DEF TInv, IInv, TasksOK, ReduceTasks
  <2>4. [Idle EXCEPT !.task = t] \in Works
    <3>1. [Idle EXCEPT !.task = t] = [task |-> t, min |-> <<>>, next |-> <<>>, itr |-> <<>>]
      BY DEF Idle
    <3>2. <<>> \in Seq(Int) /\ <<>> \in Seq(Entries)
      OBVIOUS
    <3> QED BY <2>3, <3>1, <3>2 DEF Works
  <2>5. work' \in [Threads -> Works]
    BY <1>0, <2>1, <2>4
  <2> QED BY <1>3, <2>5, ArgsStay DEF WorkOK
<1>4. ASSUME NEW w \in Threads, Gather(w), args' = args PROVE WorkOK'
  <2>1. PICK t : t = work[w].task
    OBVIOUS
  <2>2. PICK min : min = work[w].min
    OBVIOUS
  <2>3. PICK next \in Seq(Int) :
            \/ work' = [work EXCEPT ![w] = [@ EXCEPT !.min = next]]
            \/ work' = [work EXCEPT ![w] = [@ EXCEPT !.next = next, !.itr = Iterator(t, min)]]
    <3>1. PICK next \in Seq(Int) : Turns(w, t, min, next)
      BY <1>4, <2>1, <2>2, GatherEffect
    <3> QED BY <3>1 DEF Turns
  <2>4. t \in ReduceTasks
    BY <1>4, <2>1, <2>2, GatherPos
  <2>5. Iterator(t, min) \in Seq(Entries)
    BY <2>4, IteratorElements DEF TInv
  <2>6. work[w] \in Works
    BY <1>0
  <2>7. /\ [work[w] EXCEPT !.min = next] \in Works
        /\ [work[w] EXCEPT !.next = next, !.itr = Iterator(t, min)] \in Works
    BY <2>3, <2>5, <2>6 DEF Works
  <2>8. work' \in [Threads -> Works]
    BY <1>0, <2>3, <2>7
  <2> QED BY <1>4, <2>8, ArgsStay DEF WorkOK
<1>5. ASSUME NEW w \in Threads, NextKey(w), args' = args PROVE WorkOK'
  <2>1. work[w] \in Works
    BY <1>0
  <2>2. [work[w] EXCEPT !.min = work[w].next, !.next = <<>>, !.itr = <<>>] \in Works
    <3>1. <<>> \in Seq(Int) /\ <<>> \in Seq(Entries)
      OBVIOUS
    <3> QED BY <2>1, <3>1 DEF Works
  <2>3. work' \in [Threads -> Works]
    BY <1>0, <1>5, <2>2 DEF NextKey
  <2> QED BY <1>5, <2>3, ArgsStay DEF WorkOK
<1>6. ASSUME NEW w \in Threads, Reduce(w), args' = args PROVE WorkOK'
  BY <1>5, <1>6, ReduceEffect
<1>7. ASSUME NEW w \in Threads, identity_reduce(w), args' = args PROVE WorkOK'
  <2>1. CASE NextKey(w)
    BY <1>5, <1>7, <2>1
  <2>2. CASE ~NextKey(w)
    <3> DEFINE list == [key |-> work[w].min[1], vals |-> Tail(ValuesOf(w))]
    <3>1. list \in Entries /\ work' = [work EXCEPT ![w] = [@ EXCEPT !.itr = <<list>>]]
      BY <1>7, <2>2, IdentityEffect
    <3> HIDE DEF list
    <3>2. <<list>> \in Seq(Entries)
      BY <3>1
    <3>3. work[w] \in Works
      BY <1>0
    <3>4. [work[w] EXCEPT !.itr = <<list>>] \in Works
      BY <3>2, <3>3 DEF Works
    <3>5. work' \in [Threads -> Works]
      BY <1>0, <3>1, <3>4
    <3> QED BY <1>7, <3>5, ArgsStay DEF WorkOK
  <2> QED BY <2>1, <2>2
<1> QED BY <1>1, <1>2, <1>3, <1>4, <1>6, <1>7, WorkChange

\* A step that moves one worker, in a phase that goes on.
LEMMA PlaceMove ==
    ASSUME IInv, PlacesOK, phase' = phase, NEW w \in Threads, NEW place,
           pc' = [pc EXCEPT ![w] = place], place \in PlacesIn,
           \A v \in Threads : v # w => todo'[v] = todo[v],
           place # "emit" => todo'[w] = <<>>
    PROVE  PlacesOK'
BY DEF PlacesIn, IInv, PlacesOK

\* A step that moves no worker.
LEMMA PlaceStay ==
    ASSUME PlacesOK, UNCHANGED <<phase, pc, todo>>
    PROVE  PlacesOK'
BY DEF PlacesOK, PlacesIn

\* Workers are started, or all of them have returned.
LEMMA PlaceStart ==
    ASSUME IInv, PlacesOK, AllOff \/ phase \notin {"map", "reduce", "merge"},
           todo' = todo,
           \/ pc' = pc
           \/ \E n, place : /\ pc' = [w \in Threads |-> IF w < n THEN place ELSE "off"]
                            /\ place \in PlacesIn' /\ place # "emit"
    PROVE  PlacesOK'
<1>1. \A w \in Threads : pc[w] = "off" /\ todo[w] = <<>>
  BY DEF PlacesOK, PlacesIn, AllOff
<1>2. "off" \in PlacesIn'
  BY DEF PlacesIn
<1>3. CASE pc' = pc
  BY <1>1, <1>2, <1>3 DEF PlacesOK
<1>4. ASSUME NEW n, NEW place, pc' = [w \in Threads |-> IF w < n THEN place ELSE "off"],
             place \in PlacesIn', place # "emit"
      PROVE  PlacesOK'
  BY <1>1, <1>2, <1>4 DEF PlacesOK
<1> QED BY <1>3, <1>4

\* A worker is at a place of its phase, and only an emitting one has emissions left.
LEMMA PlacesKeep ==
    ASSUME IInv, TInv, [Next]_vars
    PROVE  PlacesOK'
<1>0. PlacesOK /\ todo \in [Threads -> Seq(Emissions)]
  BY DEF TInv, TodoOK
<1>1. CASE Split
  BY <1>0, <1>1, PlaceStay DEF Split
<1>2. CASE StartMap
  BY <1>2, <1>0, PlaceStart DEF StartMap, PlacesIn, Start
<1>3. CASE StartReduce
  BY <1>3, <1>0, PlaceStart DEF StartReduce, PlacesIn, Start
<1>4. CASE StartMerge
  BY <1>4, <1>0, PlaceStart DEF StartMerge, PlacesIn, Start
<1>5. CASE NextMergeRound
  <2>1. /\ AllOff /\ todo' = todo
        /\ pc' = pc \/ (phase' = "merge" /\ Start(num_merge_threads', "merge"))
    BY <1>5 DEF NextMergeRound
  <2>2. phase' = "merge" => "merge" \in PlacesIn'
    BY DEF PlacesIn
  <2> QED BY <1>0, <2>1, <2>2, PlaceStart DEF Start
<1>6. CASE NextCall
  BY <1>0, <1>6, PlaceStart DEF NextCall
<1>7. CASE map_reduce_finalize
  BY <1>0, <1>7, PlaceStart DEF map_reduce_finalize
<1>8. ASSUME NEW w \in Threads, NextMapTask(w) PROVE PlacesOK'
  BY <1>8, <1>0, PlaceMove DEF NextMapTask, Goto, PlacesIn
<1>9. ASSUME NEW w \in Threads, emit_intermediate(w) PROVE PlacesOK'
  BY <1>9, <1>0 DEF emit_intermediate, callerVars, PlacesOK, PlacesIn
<1>10. ASSUME NEW w \in Threads, EndMapTask(w) PROVE PlacesOK'
  BY <1>10, <1>0, PlaceMove DEF EndMapTask, Goto, callerVars, PlacesOK, PlacesIn
<1>11. ASSUME NEW w \in Threads, NEW place \in {"off", "task", "gather", "reduce", "iterate"},
              phase = "reduce" \/ place = "off",
              phase' = phase, todo' = todo, pc' = [pc EXCEPT ![w] = place], pc[w] # "emit"
       PROVE PlacesOK'
  BY <1>0, <1>11, PlaceMove DEF PlacesOK, PlacesIn
<1>12. ASSUME NEW w \in Threads, FinishMap(w) PROVE PlacesOK'
  BY <1>11, <1>12 DEF FinishMap, Goto, callerVars
<1>13. ASSUME NEW w \in Threads, NextReduceTask(w) PROVE PlacesOK'
  BY <1>11, <1>13 DEF NextReduceTask, Goto
<1>14. ASSUME NEW w \in Threads, Gather(w) PROVE PlacesOK'
  BY <1>14, <1>11, GatherPos DEF Gather, callerVars
<1>15. ASSUME NEW w \in Threads, Reduce(w) PROVE PlacesOK'
  BY <1>15, <1>11, ReducePlace DEF Reduce, callerVars, NextKey
<1>16. ASSUME NEW w \in Threads, identity_reduce(w) PROVE PlacesOK'
  BY <1>16, <1>11, ReducePlace DEF identity_reduce, callerVars, NextKey
<1>17. ASSUME NEW w \in Threads, FinishReduce(w) PROVE PlacesOK'
  BY <1>11, <1>17 DEF FinishReduce, Goto, callerVars
<1>18. ASSUME NEW w \in Threads, MergeStep(w) PROVE PlacesOK'
  BY <1>0, <1>18, PlaceStay DEF MergeStep, callerVars
<1>19. ASSUME NEW w \in Threads, FinishMerge(w) PROVE PlacesOK'
  BY <1>11, <1>19 DEF FinishMerge, Goto, callerVars
<1>20. CASE UNCHANGED jobVars
  BY <1>0, <1>20, PlaceStay DEF jobVars, callerVars
<1> QED BY <1>1, <1>2, <1>3, <1>4, <1>5, <1>6, <1>7, <1>8, <1>9, <1>10, <1>12, <1>13, <1>14, <1>15,
           <1>16, <1>17, <1>18, <1>19, <1>20, Steps

\* The tasks are of the units of the input, or reduce tasks.
LEMMA TasksKeep ==
    ASSUME IInv, TInv, [Next]_vars, IInv'
    PROVE  TasksOK'
<1>0. /\ splitter_pos \in 0..Units /\ Units \in Nat \ {0} /\ args.chunk_size \in Nat \ {0}
      /\ IF phase \in {"split", "map"}
           THEN \A t \in tasks : t.first \in 1..t.last /\ t.last \in 1..Units
           ELSE tasks \subseteq 0..(ReduceTasksQueued - 1)
      /\ phase = "split" => splitter_pos = 0 \/ tasks # {}
  BY EmitsType, ArgsAssumption DEF TInv, TasksOK, IInv
<1>1. CASE Split
  <2> DEFINE end == Min2(splitter_pos + args.chunk_size, Units)
             t == [first |-> splitter_pos + 1, last |-> end]
  <2>1. /\ phase = "split" /\ phase' = phase /\ args' = args /\ splitter_pos < Units
        /\ tasks' = tasks \cup {t} /\ splitter_pos' = end
    BY <1>1 DEF Split, envVars
  <2>2. end \in 0..Units /\ splitter_pos + 1 \in 1..end /\ end \in 1..Units
    BY <1>0, <2>1 DEF Min2
  <2> HIDE DEF end
  <2>3. t.first = splitter_pos + 1 /\ t.last = end
    OBVIOUS
  <2>4. Units' = Units
    BY <2>1 DEF Units
  <2> HIDE DEF t
  <2> QED BY <1>0, <2>1, <2>2, <2>3, <2>4 DEF TasksOK
<1>2. CASE StartMap
  BY <1>2, <1>0 DEF StartMap, Units, TasksOK
<1>3. CASE StartReduce
  BY <1>3, <1>0 DEF StartReduce, envVars, Units, ReduceTasksQueued, TasksOK
<1>4. ASSUME phase \notin {"split", "map"}, phase' \notin {"split", "map"},
             UNCHANGED <<args, splitter_pos, num_map_threads>>, tasks' \subseteq tasks
      PROVE TasksOK'
  BY <1>4, <1>0 DEF Units, ReduceTasksQueued, TasksOK
<1>5. CASE StartMerge
  BY <1>5, <1>4 DEF StartMerge, envVars
<1>6. CASE NextMergeRound
  BY <1>6, <1>4 DEF NextMergeRound
<1>7. CASE NextCall
  <2>1. phase' = "split" /\ splitter_pos' = 0 /\ tasks' = {}
    BY <1>7 DEF NextCall
  <2>2. Units' \in Nat
    BY ArgsAssumption DEF IInv, Units
  <2> QED BY <2>1, <2>2 DEF TasksOK
<1>8. CASE map_reduce_finalize
  BY <1>8, <1>4 DEF map_reduce_finalize
<1>9. ASSUME UNCHANGED <<args, splitter_pos, num_map_threads, phase>>, tasks' \subseteq tasks,
             phase # "split" \/ tasks' = tasks
      PROVE TasksOK'
  BY <1>9, <1>0 DEF Units, ReduceTasksQueued, TasksOK
<1>10. ASSUME NEW w \in Threads, NextMapTask(w) \/ NextReduceTask(w) PROVE TasksOK'
  BY <1>9, <1>10 DEF NextMapTask, NextReduceTask, envVars
<1>11. CASE UNCHANGED <<envVars, callerVars>>
  BY <1>9, <1>11 DEF envVars, callerVars
<1> QED BY <1>1, <1>2, <1>3, <1>5, <1>6, <1>7, <1>8, <1>10, <1>11, Steps
      DEF emit_intermediate, EndMapTask, FinishMap, Gather, Reduce, identity_reduce, FinishReduce,
          MergeStep, FinishMerge, jobVars

\* Outside the reduce phase no worker has a reduce task.
LEMMA NoneHeld ==
    ASSUME PlacesOK, phase # "reduce"
    PROVE  \A w \in Threads : /\ ~Held(w)
                              /\ pc[w] # "gather" /\ pc[w] \notin {"reduce", "iterate"}
                              /\ pc[w] # "reduce" /\ pc[w] # "iterate"
BY DEF PlacesOK, PlacesIn, Held

\* A key waits in a task's arrays as long as they and the positions stay.
LEMMA WaitsStay ==
    ASSUME UNCHANGED num_map_threads, NEW t, NEW key,
           \A m \in MapThreads : pos'[m][t] = pos[m][t] /\ Arr(m, t)' = Arr(m, t)
    PROVE  Waits(t, key) => Waits(t, key)'
<1>1. MapThreads' = MapThreads
  BY DEF MapThreads
<1> QED BY <1>1 DEF Waits

\* A step of another worker, which does not touch the task of this one.
LEMMA HolderStay ==
    ASSUME NEW w \in Threads, Holder(w), pc'[w] = pc[w], work'[w] = work[w],
           UNCHANGED <<args, num_map_threads>>,
           Held(w) => /\ work[w].task \notin tasks'
                      /\ \A m \in MapThreads : /\ pos'[m][work[w].task] = pos[m][work[w].task]
                                               /\ Arr(m, work[w].task)' = Arr(m, work[w].task)
    PROVE  Holder(w)'
<1>1. ReduceTasks' = ReduceTasks /\ (Held(w)' <=> Held(w))
  BY DEF ReduceTasks, Held
<1>2. PICK t : t = work[w].task
  OBVIOUS
<1>3. Held(w) => \A key : Waits(t, key) => Waits(t, key)'
  BY <1>2, WaitsStay
<1>4. ASSUME pc[w] = "gather", work[w].min # <<>> PROVE Waits(work[w].task, work[w].min[1])'
  <2>1. PICK key : key = work[w].min[1]
    OBVIOUS
  <2>2. Waits(t, key)'
    BY <1>2, <1>3, <1>4, <2>1 DEF Holder, Held
  <2>3. t = work[w].task' /\ key = work[w].min[1]'
    BY <1>2, <2>1
  <2> QED BY <2>2, <2>3
<1>5. ASSUME pc[w] \in {"reduce", "iterate"}, work[w].next # <<>>
      PROVE  Waits(work[w].task, work[w].next[1])'
  <2>1. PICK key : key = work[w].next[1]
    OBVIOUS
  <2>2. Waits(t, key)'
    BY <1>2, <1>3, <1>5, <2>1 DEF Holder, Held
  <2>3. t = work[w].task' /\ key = work[w].next[1]'
    BY <1>2, <2>1
  <2> QED BY <2>2, <2>3
<1> QED BY <1>1, <1>4, <1>5 DEF Holder

\* The lists stay empty in a step to or from another phase, or outside of reduce.
LEMMA HeldNot ==
    ASSUME \A w \in Threads : ~Held(w)' /\ work'[w].itr = <<>>
    PROVE  HeldOK'
<1>1. \A w \in Threads : Holder(w)'
  BY DEF Holder, Held
<1> QED BY <1>1 DEF HeldOK, HeldApart

\* A step of worker w that keeps its task or has none afterwards.
LEMMA HeldMove ==
    ASSUME IInv, TInv, NEW w \in Threads, UNCHANGED <<args, num_map_threads, tasks, intermediate_vals>>,
           NEW place, pc' = [pc EXCEPT ![w] = place],
           NEW rec, work' = [work EXCEPT ![w] = rec],
           Held(w)' => Held(w) /\ rec.task = work[w].task,
           \A m \in MapThreads : \A t \in ReduceTasks :
              pos'[m][t] = pos[m][t] \/ (Held(w) /\ t = work[w].task),
           Holder(w)'
    PROVE  HeldOK'
<1>1. pc \in [Threads -> Places] /\ work \in [Threads -> Works]
  BY DEF IInv, TInv, WorkOK
<1>2. \A v \in Threads : v # w => pc'[v] = pc[v] /\ work'[v] = work[v] /\ (Held(v)' <=> Held(v))
  BY <1>1 DEF Held
<1>3. work'[w] = rec
  BY <1>1
<1>4. \A m, r : Arr(m, r)' = Arr(m, r)
  BY DEF Arr
<1>5. ASSUME NEW v \in Threads, v # w PROVE Holder(v)'
  <2>1. Holder(v)
    BY DEF TInv, HeldOK
  <2>2. ASSUME Held(v)
        PROVE  /\ work[v].task \notin tasks'
               /\ \A m \in MapThreads : pos'[m][work[v].task] = pos[m][work[v].task]
    BY <2>1, <2>2, <1>5 DEF Holder, TInv, HeldOK, HeldApart
  <2> QED BY <1>2, <1>4, <1>5, <2>1, <2>2, HolderStay
<1>6. HeldApart'
  BY <1>2, <1>3 DEF TInv, HeldOK, HeldApart
<1>7. \A v \in Threads : Holder(v)'
  BY <1>5
<1> QED BY <1>6, <1>7 DEF HeldOK

\* Gathering leaves the worker with a key and its values, or with no key.
LEMMA HeldGather ==
    ASSUME IInv, TInv, NEW w \in Threads, Gather(w), args' = args
    PROVE  HeldOK'
<1>0. PICK t : t = work[w].task
  OBVIOUS
<1>1. PICK min : min = work[w].min
  OBVIOUS
<1>2. /\ phase = "reduce" /\ t \in ReduceTasks /\ pc[w] = "gather" /\ min \in Seq(Int)
      /\ MapThreads \subseteq MapWorkers
      /\ \A m \in MapWorkers, s \in ReduceTasks :
            pos'[m][s] = IF m \in MapThreads /\ s = t /\ Takes(m, t, min)
                           THEN pos[m][s] + 1 ELSE pos[m][s]
  BY <1>0, <1>1, GatherPos
<1>3. UNCHANGED <<args, num_map_threads, tasks, intermediate_vals>> /\ MapThreads' = MapThreads
  BY DEF Gather, envVars, callerVars, MapThreads
<1>4. PICK next \in Seq(Int) : Turns(w, t, min, next)
  BY <1>0, <1>1, GatherEffect
<1>5. Holder(w) /\ Held(w) /\ work[w] \in Works
  BY <1>2 DEF TInv, HeldOK, Held, WorkOK
<1>6. \A m \in MapThreads : \A s \in ReduceTasks :
         pos'[m][s] = pos[m][s] \/ (Held(w) /\ s = work[w].task)
  BY <1>0, <1>2, <1>5
<1>7. next # <<>> => Len(next) = 1 /\ Waits(t, next[1])'
  BY <1>4, <1>3 DEF Turns, LeastKey, Unread, Here, Waits
<1>8. pc \in [Threads -> Places] /\ work \in [Threads -> Works]
  BY DEF IInv, TInv, WorkOK
<1>9. CASE min = <<>>
  <2> DEFINE rec == [work[w] EXCEPT !.min = next]
             place == IF next # <<>> THEN "gather" ELSE "task"
  <2>1. work' = [work EXCEPT ![w] = rec] /\ pc' = [pc EXCEPT ![w] = place]
    BY <1>4, <1>9 DEF Turns
  <2>2. /\ rec.task = t /\ rec.min = next /\ rec.next = work[w].next /\ rec.itr = work[w].itr
    BY <1>0, <1>5 DEF Works
  <2>3. /\ work[w].next = <<>> /\ work[w].itr = <<>>
        /\ t \notin tasks
    BY <1>0, <1>2, <1>5 DEF Holder
  <2> HIDE DEF rec
  <2>4. PICK r : r = rec
    OBVIOUS
  <2>5. work'[w] = r /\ pc'[w] = place
    BY <1>8, <2>1, <2>4
  <2>6. Holder(w)'
    <3>1. next # <<>> => Waits(work[w].task, work[w].min[1])'
      BY <2>2, <2>4, <2>5, <1>7
    <3>2. ReduceTasks' = ReduceTasks
      BY <1>3 DEF ReduceTasks
    <3> QED BY <1>2, <1>3, <1>7, <2>2, <2>3, <2>4, <2>5, <3>1, <3>2 DEF Holder, Held
  <2>7. PICK pl : pl = place
    OBVIOUS
  <2>8. work' = [work EXCEPT ![w] = r] /\ pc' = [pc EXCEPT ![w] = pl]
    BY <2>1, <2>4, <2>7
  <2>9. Held(w)' => Held(w) /\ r.task = work[w].task
    BY <1>0, <1>5, <2>2, <2>4
  <2> QED BY <1>3, <1>6, <2>6, <2>8, <2>9, HeldMove
<1>10. CASE min # <<>>
  <2> DEFINE rec == [work[w] EXCEPT !.next = next, !.itr = Iterator(t, min)]
  <2>1. work' = [work EXCEPT ![w] = rec] /\ pc' = [pc EXCEPT ![w] = "reduce"]
    BY <1>4, <1>10 DEF Turns
  <2>2. /\ rec.task = t /\ rec.min = min /\ rec.next = next /\ rec.itr = Iterator(t, min)
    BY <1>0, <1>1, <1>5 DEF Works
  <2>3. Len(min) = 1 /\ Waits(t, min[1]) /\ t \notin tasks
    BY <1>0, <1>1, <1>2, <1>5, <1>10 DEF Holder
  <2>4. /\ Iterator(t, min) # <<>>
        /\ \A l \in 1..Len(Iterator(t, min)) : Iterator(t, min)[l].vals # <<>>
    <3>1. PICK h : Taking(Iterator(t, min), h, t, min)
      BY <1>2, IteratorElements DEF TInv
    <3>2. PICK m \in MapThreads : Unread(m, t) /\ Here(m, t).key = min[1]
      BY <2>3 DEF Waits, Unread, Here
    <3>3. min = <<Here(m, t).key>>
      BY <1>2, <2>3, <3>2
    <3>4. PICK k \in 1..Len(Iterator(t, min)) : h[k] = m
      BY <3>1, <3>2, <3>3 DEF Taking, Takes
    <3>5. Iterator(t, min) # <<>>
      <4> SUFFICES ASSUME Iterator(t, min) = <<>> PROVE FALSE
        OBVIOUS
      <4>1. Len(Iterator(t, min)) = 0
        OBVIOUS
      <4> QED BY <3>4, <4>1
    <3>6. ASSUME NEW l \in 1..Len(Iterator(t, min)) PROVE Iterator(t, min)[l].vals # <<>>
      <4>1. h[l] \in MapWorkers /\ Unread(h[l], t) /\ Iterator(t, min)[l] = Here(h[l], t)
        BY <1>2, <3>1 DEF Taking, Takes
      <4> QED BY <1>2, <4>1, PosType DEF TInv
    <3> QED BY <3>5, <3>6
  <2> HIDE DEF rec
  <2>5. PICK r : r = rec
    OBVIOUS
  <2>6. PICK itr : itr = Iterator(t, min)
    OBVIOUS
  <2>7. work'[w] = r /\ pc'[w] = "reduce"
    BY <1>8, <2>1, <2>5
  <2>8. Holder(w)'
    <3>1. next # <<>> => Waits(work[w].task, work[w].next[1])'
      BY <2>2, <2>5, <2>7, <1>7
    <3>2. ReduceTasks' = ReduceTasks
      BY <1>3 DEF ReduceTasks
    <3>3. /\ work'[w].min = min /\ work'[w].next = next /\ work'[w].itr = itr /\ work'[w].task = t
          /\ itr # <<>> /\ \A l \in 1..Len(itr) : itr[l].vals # <<>>
      BY <2>2, <2>4, <2>5, <2>6, <2>7
    <3> QED BY <1>2, <1>3, <1>7, <2>3, <2>7, <3>1, <3>2, <3>3 DEF Holder, Held
  <2>9. work' = [work EXCEPT ![w] = r]
    BY <2>1, <2>5
  <2>10. Held(w)' => Held(w) /\ r.task = work[w].task
    BY <1>0, <1>5, <2>2, <2>5
  <2> QED BY <1>3, <1>6, <2>1, <2>8, <2>9, <2>10, HeldMove
<1> QED BY <1>9, <1>10

\* The worker takes a task of the queue.
LEMMA HeldTask ==
    ASSUME IInv, TInv, NEW w \in Threads, NextReduceTask(w), args' = args
    PROVE  HeldOK'
<1>1. PICK t \in tasks : /\ tasks' = tasks \ {t}
                         /\ work' = [work EXCEPT ![w] = [Idle EXCEPT !.task = t]]
  BY DEF NextReduceTask
<1>2. /\ phase = "reduce" /\ pc[w] = "task" /\ pc' = [pc EXCEPT ![w] = "gather"]
      /\ UNCHANGED <<args, num_map_threads, intermediate_vals, pos>>
  BY DEF NextReduceTask, Goto, envVars
<1>3. t \in ReduceTasks
  BY <1>2, QueuedType DEF TInv, TasksOK, IInv
<1>4. pc \in [Threads -> Places] /\ work \in [Threads -> Works]
  BY DEF IInv, TInv, WorkOK
<1>5. \A v \in Threads : v # w => pc'[v] = pc[v] /\ work'[v] = work[v] /\ (Held(v)' <=> Held(v))
  BY <1>1, <1>2, <1>4 DEF Held
<1>6. /\ work'[w].task = t /\ work'[w].min = <<>> /\ work'[w].next = <<>> /\ work'[w].itr = <<>>
      /\ pc'[w] = "gather"
  BY <1>1, <1>2, <1>4 DEF Idle
<1>7. \A m, r : Arr(m, r)' = Arr(m, r)
  BY <1>2 DEF Arr
<1>8. ASSUME NEW v \in Threads, v # w PROVE Holder(v)'
  <2>1. Holder(v)
    BY DEF TInv, HeldOK
  <2>2. Held(v) => work[v].task \notin tasks'
    BY <1>1, <2>1 DEF Holder
  <2> QED BY <1>2, <1>5, <1>7, <1>8, <2>1, <2>2, HolderStay
<1>9. Holder(w)'
  BY <1>2, <1>6, <1>1, <1>3 DEF ReduceTasks, Held, Holder
<1>10. \A v \in Threads : Held(v) => work[v].task # t
  BY DEF TInv, HeldOK, Holder
<1>11. HeldApart'
  BY <1>5, <1>6, <1>10 DEF TInv, HeldOK, HeldApart
<1> QED BY <1>8, <1>9, <1>11 DEF HeldOK

\* The worker has emitted for the key, and goes on with the next.
LEMMA HeldNext ==
    ASSUME IInv, TInv, NEW w \in Threads, NextKey(w), pc[w] \in {"reduce", "iterate"},
           UNCHANGED <<args, num_map_threads, tasks, intermediate_vals, pos>>
    PROVE  HeldOK'
<1> DEFINE rec == [work[w] EXCEPT !.min = work[w].next, !.next = <<>>, !.itr = <<>>]
           place == IF work[w].next # <<>> THEN "gather" ELSE "task"
<1>1. work' = [work EXCEPT ![w] = rec] /\ pc' = [pc EXCEPT ![w] = place]
  BY DEF NextKey
<1>2. pc \in [Threads -> Places] /\ work \in [Threads -> Works] /\ work[w] \in Works
  BY DEF IInv, TInv, WorkOK
<1>3. /\ rec.task = work[w].task /\ rec.min = work[w].next /\ rec.next = <<>> /\ rec.itr = <<>>
  BY <1>2 DEF Works
<1>4. work'[w] = rec /\ pc'[w] = place
  BY <1>1, <1>2
<1>5. Holder(w) /\ Held(w)
  BY DEF TInv, HeldOK, Held
<1> HIDE DEF rec
<1>6. Holder(w)'
  <2>1. ReduceTasks' = ReduceTasks
    BY DEF ReduceTasks
  <2>2. /\ work[w].task \in ReduceTasks /\ work[w].task \notin tasks
        /\ work[w].next # <<>> => /\ Len(work[w].next) = 1
                                  /\ Waits(work[w].task, work[w].next[1])
    BY <1>5 DEF Holder
  <2>3. PICK t : t = work[w].task
    OBVIOUS
  <2>4. PICK next : next = work[w].next
    OBVIOUS
  <2>5. work'[w].task = t /\ work'[w].min = next /\ work'[w].next = <<>> /\ work'[w].itr = <<>>
    BY <1>3, <1>4, <2>3, <2>4
  <2>6. next # <<>> => Waits(t, next[1])'
    <3>1. \A m \in MapThreads : pos'[m][t] = pos[m][t] /\ Arr(m, t)' = Arr(m, t)
      BY DEF Arr
    <3>2. PICK key : key = next[1]
      OBVIOUS
    <3>3. Waits(t, key) => Waits(t, key)'
      BY <3>1, WaitsStay
    <3> QED BY <2>2, <2>3, <2>4, <3>2, <3>3
  <2>7. next # <<>> => Waits(work[w].task, work[w].min[1])'
    BY <2>5, <2>6
  <2>8. pc'[w] = IF next # <<>> THEN "gather" ELSE "task"
    BY <1>4, <2>4
  <2> QED BY <2>1, <2>2, <2>3, <2>4, <2>5, <2>7, <2>8 DEF Holder, Held
<1>7. PICK r : r = rec
  OBVIOUS
<1>8. PICK pl : pl = place
  OBVIOUS
<1>9. work' = [work EXCEPT ![w] = r] /\ pc' = [pc EXCEPT ![w] = pl]
  BY <1>1, <1>7, <1>8
<1>10. Held(w)' => Held(w) /\ r.task = work[w].task
  BY <1>3, <1>5, <1>7
<1> QED BY <1>6, <1>9, <1>10, HeldMove

\* identity_reduce has emitted one of several values.
LEMMA HeldIterate ==
    ASSUME IInv, TInv, NEW w \in Threads, pc[w] \in {"reduce", "iterate"},
           UNCHANGED <<args, num_map_threads, tasks, intermediate_vals, pos>>,
           NEW list \in Entries, list.vals # <<>>,
           work' = [work EXCEPT ![w] = [@ EXCEPT !.itr = <<list>>]],
           pc' = [pc EXCEPT ![w] = "iterate"]
    PROVE  HeldOK'
<1> DEFINE rec == [work[w] EXCEPT !.itr = <<list>>]
<1>1. work' = [work EXCEPT ![w] = rec]
  OBVIOUS
<1>2. pc \in [Threads -> Places] /\ work \in [Threads -> Works] /\ work[w] \in Works
  BY DEF IInv, TInv, WorkOK
<1>3. /\ rec.task = work[w].task /\ rec.min = work[w].min /\ rec.next = work[w].next
      /\ rec.itr = <<list>>
  BY <1>2 DEF Works
<1>4. work'[w] = rec /\ pc'[w] = "iterate"
  BY <1>2
<1>5. Holder(w) /\ Held(w)
  BY DEF TInv, HeldOK, Held
<1> HIDE DEF rec
<1>6. Holder(w)'
  <2>1. ReduceTasks' = ReduceTasks
    BY DEF ReduceTasks
  <2>2. /\ work[w].task \in ReduceTasks /\ work[w].task \notin tasks
        /\ Len(work[w].min) = 1
        /\ work[w].next # <<>> => /\ Len(work[w].next) = 1
                                  /\ Waits(work[w].task, work[w].next[1])
    BY <1>5 DEF Holder
  <2>3. PICK t : t = work[w].task
    OBVIOUS
  <2>4. PICK next : next = work[w].next
    OBVIOUS
  <2>5. /\ work'[w].task = t /\ work'[w].min = work[w].min /\ work'[w].next = next
        /\ work'[w].itr = <<list>>
    BY <1>3, <1>4, <2>3, <2>4
  <2>6. next # <<>> => Waits(t, next[1])'
    <3>1. \A m \in MapThreads : pos'[m][t] = pos[m][t] /\ Arr(m, t)' = Arr(m, t)
      BY DEF Arr
    <3>2. PICK key : key = next[1]
      OBVIOUS
    <3>3. Waits(t, key) => Waits(t, key)'
      BY <3>1, WaitsStay
    <3> QED BY <2>2, <2>3, <2>4, <3>2, <3>3
  <2>7. next # <<>> => Waits(work[w].task, work[w].next[1])'
    BY <2>5, <2>6
  <2>8. /\ <<list>> # <<>> /\ Len(<<list>>) = 1 /\ \A l \in 1..Len(<<list>>) : <<list>>[l] = list
    OBVIOUS
  <2> QED BY <1>4, <2>1, <2>2, <2>3, <2>4, <2>5, <2>7, <2>8, SMTT(60) DEF Holder, Held
<1>7. PICK r : r = rec
  OBVIOUS
<1>8. work' = [work EXCEPT ![w] = r]
  BY <1>1, <1>7
<1>9. Held(w)' => Held(w) /\ r.task = work[w].task
  BY <1>3, <1>5, <1>7
<1> QED BY <1>6, <1>8, <1>9, HeldMove

\* A reduce task has one worker, and the worker has the key and the values it says.
LEMMA HeldKeep ==
    ASSUME IInv, TInv, [Next]_vars, PlacesOK'
    PROVE  HeldOK'
<1>1. CASE phase' # "reduce"
  <2>1. \A w \in Threads : ~Held(w)'
    BY <1>1 DEF PlacesIn, PlacesOK, Held
  <2>2. ASSUME NEW w \in Threads PROVE work'[w].itr = <<>>
    <3>1. CASE phase = "reduce"
      <4>1. StartMerge \/ UNCHANGED phase
        BY <3>1, Steps DEF Split, StartMap, StartReduce, NextMergeRound, NextCall, map_reduce_finalize,
           NextMapTask, emit_intermediate, EndMapTask, FinishMap, NextReduceTask, Gather, Reduce,
           identity_reduce, FinishReduce, MergeStep, FinishMerge, jobVars, callerVars
      <4>2. StartMerge
        BY <1>1, <3>1, <4>1
      <4>3. work' = work /\ pc[w] = "off"
        BY <4>2 DEF StartMerge, AllOff
      <4> QED BY <4>3 DEF TInv, HeldOK, Holder, Held
    <3>2. CASE phase # "reduce"
      <4>1. ~Held(w) /\ work[w].itr = <<>> /\ pc[w] \notin {"gather", "reduce", "iterate"}
        BY <3>2, NoneHeld DEF TInv, HeldOK, Holder, Held
      <4>2. CASE work' = work
        BY <4>1, <4>2
      <4>3. CASE NextCall
        BY <4>3 DEF NextCall, Idle
      <4>4. work' = work \/ NextCall
        BY <3>2, WorkChange, NoneHeld DEF TInv, NextReduceTask, Gather, Reduce, identity_reduce
      <4> QED BY <4>2, <4>3, <4>4
    <3> QED BY <3>1, <3>2
  <2> QED BY <2>1, <2>2, HeldNot
<1>2. CASE StartReduce
  <2>1. phase = "map" /\ work' = work /\ pc' \in [Threads -> {"off", "task"}]
    BY <1>2 DEF StartReduce, Start
  <2>2. ASSUME NEW w \in Threads PROVE ~Held(w)' /\ work'[w].itr = <<>>
    BY <2>1, NoneHeld DEF TInv, HeldOK, Holder, Held
  <2> QED BY <2>2, HeldNot
<1>3. CASE phase = "reduce" /\ phase' = "reduce"
  <2>1. CASE UNCHANGED jobVars
    BY <2>1 DEF jobVars, envVars, callerVars, TInv, HeldOK, HeldApart, Holder, Held, Waits, Arr, MapThreads, ReduceTasks
  <2>2. ASSUME NEW w \in Threads, NextReduceTask(w) PROVE HeldOK'
    BY <2>2, HeldTask DEF NextReduceTask, envVars
  <2>3. ASSUME NEW w \in Threads, Gather(w) PROVE HeldOK'
    BY <2>3, HeldGather DEF Gather, envVars
  <2>4. ASSUME NEW w \in Threads, Reduce(w) PROVE HeldOK'
    BY <2>4, HeldNext DEF Reduce, envVars, callerVars
  <2>5. ASSUME NEW w \in Threads, identity_reduce(w) PROVE HeldOK'
    <3>1. UNCHANGED <<args, num_map_threads, tasks, intermediate_vals, pos>>
      BY <2>5 DEF identity_reduce, envVars, callerVars
    <3>2. PICK list : list = [key |-> work[w].min[1], vals |-> Tail(ValuesOf(w))]
      OBVIOUS
    <3>3. /\ pc[w] \in {"reduce", "iterate"}
          /\ \/ NextKey(w)
             \/ /\ list \in Entries /\ list.vals # <<>>
                /\ work' = [work EXCEPT ![w] = [@ EXCEPT !.itr = <<list>>]]
                /\ pc' = [pc EXCEPT ![w] = "iterate"]
      BY <2>5, <3>2, IdentityEffect
    <3>4. CASE NextKey(w)
      BY <3>1, <3>3, <3>4, HeldNext
    <3>5. CASE /\ list \in Entries /\ list.vals # <<>>
               /\ work' = [work EXCEPT ![w] = [@ EXCEPT !.itr = <<list>>]]
               /\ pc' = [pc EXCEPT ![w] = "iterate"]
      BY <3>1, <3>3, <3>5, HeldIterate
    <3> QED BY <3>3, <3>4, <3>5
  <2>6. ASSUME NEW w \in Threads, FinishReduce(w) PROVE HeldOK'
    <3>1. /\ UNCHANGED <<args, num_map_threads, tasks, intermediate_vals, pos>>
          /\ pc[w] = "task" /\ pc' = [pc EXCEPT ![w] = "off"] /\ work' = work
      BY <2>6 DEF FinishReduce, Goto, envVars, callerVars
    <3>2. /\ Holder(w) /\ ~Held(w) /\ work \in [Threads -> Works]
          /\ pc \in [Threads -> Places]
      BY <3>1 DEF TInv, HeldOK, Held, WorkOK, IInv
    <3>3. pc'[w] = "off" /\ ~Held(w)'
      BY <3>1, <3>2 DEF Held
    <3>4. Holder(w)'
      BY <3>1, <3>2, <3>3 DEF Holder
    <3>5. PICK r : r = work[w]
      OBVIOUS
    <3>6. work' = [work EXCEPT ![w] = r]
      BY <3>1, <3>2, <3>5
    <3> QED BY <3>1, <3>3, <3>4, <3>6, HeldMove
  <2>7. \A w \in Threads : /\ ~NextMapTask(w) /\ ~emit_intermediate(w) /\ ~EndMapTask(w)
                           /\ ~FinishMap(w) /\ ~MergeStep(w) /\ ~FinishMerge(w)
    <3>1. \A w \in Threads : pc[w] \notin {"emit", "merge"}
      BY <1>3 DEF TInv, PlacesOK, PlacesIn
    <3> QED BY <1>3, <3>1 DEF NextMapTask, emit_intermediate, EndMapTask, FinishMap, MergeStep,
               FinishMerge, Goto
  <2>8. /\ ~Split /\ ~StartMap /\ ~StartReduce /\ ~NextMergeRound /\ ~NextCall /\ ~map_reduce_finalize
        /\ ~StartMerge
    BY <1>3 DEF Split, StartMap, StartReduce, NextMergeRound, NextCall, map_reduce_finalize, StartMerge
  <2> QED BY <2>1, <2>2, <2>3, <2>4, <2>5, <2>6, <2>7, <2>8, Steps
<1>4. phase' # "reduce" \/ StartReduce \/ (phase = "reduce" /\ phase' = "reduce")
  <2>1. CASE UNCHANGED phase
    BY <2>1
  <2>2. CASE StartMap \/ StartMerge \/ NextMergeRound \/ NextCall \/ map_reduce_finalize
    BY <2>2 DEF StartMap, StartMerge, NextMergeRound, NextCall, map_reduce_finalize
  <2> QED BY <2>1, <2>2, PhaseChange
<1> QED BY <1>1, <1>2, <1>3, <1>4

\* The types hold initially.
LEMMA TypesInit ==
    ASSUME Init, IInv
    PROVE  TInv
<1>1. /\ num_map_threads = args.num_map_threads /\ num_merge_threads = MergeThreads(args)
      /\ phase = "split" /\ splitter_pos = 0 /\ tasks = {} /\ pool = args.num_map_threads
      /\ intermediate_vals = NoVals(args, <<>>) /\ pos = NoVals(args, 0)
      /\ final_vals = [q \in Queues(args) |-> <<>>]
      /\ merge_input = <<>> /\ merge_vals = <<>> /\ result = <<>>
      /\ pc = [w \in Threads |-> "off"] /\ todo = [w \in Threads |-> <<>>]
      /\ work = [w \in Threads |-> Idle] /\ args \in Args
  BY DEF Init, IInv
<1>2. /\ args.num_map_threads \in Nat \ {0} /\ args.num_map_threads <= MaxThreads
      /\ MaxThreads \in Nat \ {0} /\ Units \in Nat \ {0}
  BY <1>1, EmitsType, ArgsAssumption, MaxThreadsAssumption
<1>3. /\ NoVals(args, 0) = [m \in MapWorkers |-> [r \in ReduceTasks |-> 0]]
      /\ NoVals(args, <<>>) = [m \in MapWorkers |-> [r \in ReduceTasks |-> <<>>]]
  BY DEF NoVals, MapWorkers, ReduceTasks
<1>4. \A m \in MapWorkers, r \in ReduceTasks : pos[m][r] = 0 /\ Arr(m, r) = <<>>
  BY <1>1, <1>3 DEF Arr
<1>5. ArraysOK
  <2>1. <<>> \in Seq(Entries)
    OBVIOUS
  <2>2. intermediate_vals \in [MapWorkers -> [ReduceTasks -> Seq(Entries)]]
    BY <1>1, <1>3, <2>1
  <2> QED BY <1>4, <2>2 DEF ArraysOK, StrictlySorted
<1>6. PosOK
  BY <1>1, <1>3, <1>4 DEF PosOK
<1>7. FinalOK /\ MergeOK
  BY <1>1 DEF FinalOK, MergeOK
<1>8. TodoOK /\ PlacesOK
  <2>1. <<>> \in Seq(Emissions)
    OBVIOUS
  <2> QED BY <1>1, <2>1 DEF TodoOK, PlacesOK, PlacesIn
<1>9. WorkOK
  <2>1. Idle \in Works
    BY DEF Idle, Works
  <2> QED BY <1>1, <2>1 DEF WorkOK
<1>10. NumbersOK
  BY <1>1, <1>2, MergeThreadsType DEF NumbersOK
<1>11. TasksOK
  BY <1>1, <1>2 DEF TasksOK
<1>12. HeldOK
  BY <1>1 DEF HeldOK, HeldApart, Holder, Held, Idle
<1> QED BY <1>5, <1>6, <1>7, <1>8, <1>9, <1>10, <1>11, <1>12 DEF TInv

\* Every step keeps the types.
LEMMA TypesKeep ==
    ASSUME IInv, TInv, [Next]_vars, IInv'
    PROVE  TInv'
<1>1. ArraysOK' /\ PlacesOK'
  BY ArraysKeep, PlacesKeep
<1> QED BY <1>1, PosKeep, FinalKeep, MergeKeep, TodoKeep, WorkKeep, NumbersKeep, TasksKeep, HeldKeep
       DEF TInv

\* The first layer of the invariant: the types, for every number of threads and tasks.
LEMMA TypeInvariant == Spec => [](IInv /\ TInv)
<1>1. Init /\ IInv => TInv
  BY TypesInit
<1>2. IInv /\ TInv /\ [Next]_vars /\ IInv' => TInv'
  BY TypesKeep
<1>3. Spec => []IInv
  BY PhaseInvariant
<1> QED BY <1>1, <1>2, <1>3, PTL DEF Spec

\* TypeOK follows.
LEMMA TypesHold ==
    ASSUME IInv, TInv, fault \in {"none", "assert", "lock"}
    PROVE  TypeOK
<1>1. /\ args \in Args /\ calls \in Seq(Args) /\ pool \in 0..MaxThreads
      /\ num_map_threads \in 1..args.num_map_threads /\ num_merge_threads \in 1..MaxThreads
      /\ phase \in {"split", "map", "reduce", "merge", "done", "finalized"}
  BY DEF IInv, TInv, NumbersOK, Phases
<1>2. /\ splitter_pos \in 0..Units
      /\ IF phase \in {"split", "map"}
           THEN \A t \in tasks : t.first \in 1..t.last /\ t.last \in 1..Units
           ELSE tasks \subseteq ReduceTasks
  BY QueuedType DEF IInv, TInv, TasksOK
<1>3. \A arr \in Seq(Entries) : Keyvals(arr)
  <2> SUFFICES ASSUME NEW arr \in Seq(Entries), NEW k \in DOMAIN arr, NEW l \in DOMAIN arr[k].vals
               PROVE  arr[k].vals[l] \subseteq Emissions
    BY DEF Keyvals
  <2>1. arr[k] \in Entries
    BY LenProperties
  <2>2. arr[k].vals \in Seq(SUBSET Emissions)
    BY <2>1 DEF Entries
  <2> QED BY <2>2, LenProperties
<1>4. \A arr \in Seq(Results) : Keyval(arr)
  <2> SUFFICES ASSUME NEW arr \in Seq(Results), NEW k \in DOMAIN arr
               PROVE  arr[k].val \subseteq Emissions
    BY DEF Keyval
  <2>1. arr[k] \in Results
    BY LenProperties
  <2> QED BY <2>1 DEF Results
<1>5. \A m \in DOMAIN intermediate_vals : \A r \in ReduceTasks :
         /\ Keyvals(intermediate_vals[m][r])
         /\ pos[m][r] \in 0..Len(intermediate_vals[m][r])
  <2> SUFFICES ASSUME NEW m \in DOMAIN intermediate_vals, NEW r \in ReduceTasks
               PROVE  Keyvals(Arr(m, r)) /\ pos[m][r] \in 0..Len(Arr(m, r))
    BY DEF Arr
  <2>1. m \in MapWorkers
    BY DEF TInv, ArraysOK
  <2>2. Arr(m, r) \in Seq(Entries)
    BY <2>1, ArrayType DEF TInv
  <2> QED BY <1>3, <2>1, <2>2, PosType DEF TInv
<1>6. \A arrs \in {final_vals, merge_input, merge_vals} : \A q \in DOMAIN arrs : Keyval(arrs[q])
  BY <1>4, LenProperties DEF TInv, FinalOK, MergeOK
<1>7. Keyval(result)
  BY <1>4 DEF TInv, MergeOK
<1>8. pc \in [Threads -> {"off", "task", "emit", "gather", "reduce", "iterate", "merge"}]
  BY DEF IInv, Places
<1>9. ASSUME NEW w \in Threads
      PROVE  /\ ToSet(todo[w]) \subseteq Emissions
             /\ work[w].task \in ReduceTasks \cup {-1} /\ Keyvals(work[w].itr)
  BY <1>3 DEF TInv, TodoOK, WorkOK, Works, ToSet
<1> QED BY <1>1, <1>2, <1>5, <1>6, <1>7, <1>8, <1>9 DEF TypeOK

\* The variables always have their types.
THEOREM JobTypeCorrect == Spec => []TypeOK
<1> DEFINE FaultType == fault \in {"none", "assert", "lock"}
<1>1. IInv /\ TInv /\ FaultType => TypeOK
  BY TypesHold
<1>2. Init => FaultType
  BY DEF Init
<1>3. FaultType /\ [Next]_vars => FaultType'
  BY DEF Next, Caller, Worker, Finished, tpool_set_fails, NoLock, vars
<1> QED BY <1>1, <1>2, <1>3, PhaseInvariant, TypeInvariant, PTL DEF Spec

---------------
(* When the program fails.                                                   *)

\* The call that runs is one of a program, on the pool made by its first, and nothing
\* but what it asks for has made it fail.
Wants(a, n) == \/ a.num_map_threads > n \/ a.num_reduce_threads > n
               \/ a.use_one_queue_per_task /\ a.num_merge_threads > n
Running(p, k) == /\ args = p[k] /\ calls = SubSeq(p, k + 1, Len(p))
                 /\ phase # "finalized" => pool = p[1].num_map_threads
                 /\ fault = "assert" => Wants(args, p[1].num_map_threads + 1)
                 /\ fault = "lock" => args.num_reduce_threads > args.num_map_threads
FaultInv == /\ \E p \in Programs : \E k \in DOMAIN p : Running(p, k)
            /\ phase = "merge" => num_merge_threads - 1 <= pool

\* It stays so in a step within a call that does not make the program fail.
LEMMA RunningStays ==
    ASSUME FaultInv, UNCHANGED <<args, calls, fault, pool>>, phase = "finalized" => phase' = phase,
           phase' = "merge" => num_merge_threads' - 1 <= pool
    PROVE  FaultInv'
<1>1. PICK p \in Programs : \E k \in DOMAIN p : Running(p, k)
  BY DEF FaultInv
<1>2. PICK k \in DOMAIN p : Running(p, k)
  BY <1>1
<1>3. Running(p, k)'
  BY <1>2 DEF Running
<1> QED BY <1>3 DEF FaultInv

\* The next call finds the pool of the first.
LEMMA NextRuns ==
    ASSUME FaultInv, NextCall, UNCHANGED fault, fault = "none"
    PROVE  FaultInv'
<1>1. PICK p \in Programs : \E k \in DOMAIN p : Running(p, k)
  BY DEF FaultInv
<1>2. PICK k \in DOMAIN p : Running(p, k)
  BY <1>1
<1>3. p \in Seq(Args) /\ k \in 1..Len(p) /\ Len(p) \in Nat
  BY ProgramsAssumption
<1>4. /\ calls = SubSeq(p, k + 1, Len(p)) /\ calls # <<>>
      /\ args' = Head(calls) /\ calls' = Tail(calls)
      /\ pool' = pool /\ phase = "done" /\ phase' = "split"
  BY <1>2 DEF NextCall, Running
<1>5. k + 1 \in 1..Len(p)
  BY <1>3, <1>4
<1>6. Head(calls) = p[k + 1] /\ Tail(calls) = SubSeq(p, (k + 1) + 1, Len(p))
  <2>1. Len(p) \in (k + 1)..Len(p)
    BY <1>3, <1>5
  <2> QED BY <1>3, <1>4, <1>5, <2>1, HeadTailOfSubSeq
<1>7. Running(p, k + 1)'
  BY <1>2, <1>4, <1>6 DEF Running
<1>8. k + 1 \in DOMAIN p
  BY <1>3, <1>5
<1> QED BY <1>4, <1>7, <1>8 DEF FaultInv

\* The assertion of tpool_set fails for too few threads at the start of a phase; after
\* the first merge round it does not, since every round has fewer threads.
LEMMA AssertsShort ==
    ASSUME IInv, TInv, FaultInv, tpool_set_fails
    PROVE  FaultInv'
<1>1. PICK p \in Programs : \E k \in DOMAIN p : Running(p, k)
  BY DEF FaultInv
<1>2. PICK k \in DOMAIN p : Running(p, k)
  BY <1>1
<1>3. ~(NextThreads - 1 <= pool) /\ fault' = "assert"
      /\ UNCHANGED <<args, calls, pool, phase, num_merge_threads>>
  BY DEF tpool_set_fails, PoolSuffices, jobVars, envVars, callerVars
<1>4. /\ args \in Args /\ num_map_threads \in Nat /\ num_map_threads <= args.num_map_threads
      /\ num_merge_threads \in Nat \ {0} /\ pool \in Nat
      /\ args.num_map_threads \in Nat /\ args.num_reduce_threads \in Nat
      /\ args.num_merge_threads \in Nat
  BY CallType DEF IInv, Counts, TInv, NumbersOK
<1> DEFINE n == p[1].num_map_threads + 1
<1>5. phase # "finalized" /\ pool = p[1].num_map_threads
  <2>1. phase # "finalized"
    BY <1>3, <1>4 DEF NextThreads
  <2> QED BY <1>2, <2>1 DEF Running
<1>6. Wants(args, n)
  <2>1. CASE phase = "split" /\ splitter_pos = Units
    BY <2>1, <1>4, <1>3, <1>5, FS_CardinalityType DEF NextThreads, IInv, Counts, Min2, Wants
  <2>2. CASE phase = "map" /\ AllOff
    BY <2>2, <1>3, <1>4, <1>5 DEF NextThreads, Wants
  <2>3. CASE phase = "reduce" /\ AllOff /\ Len(final_vals) > 1
    BY <2>3, <1>4, <1>3, <1>5, MergeThreadsBound DEF NextThreads, TInv, NumbersOK, Wants
  <2>4. CASE phase = "merge" /\ AllOff /\ Len(merge_vals) > 1
    BY <2>4, <1>4, <1>3 DEF NextThreads, Max2, FaultInv
  <2>5. CASE /\ ~(phase = "split" /\ splitter_pos = Units) /\ ~(phase = "map" /\ AllOff)
             /\ ~(phase = "reduce" /\ AllOff /\ Len(final_vals) > 1)
             /\ ~(phase = "merge" /\ AllOff /\ Len(merge_vals) > 1)
    <3>1. NextThreads = 0
      BY <2>5 DEF NextThreads
    <3> QED BY <1>3, <1>4, <3>1
  <2> QED BY <2>1, <2>2, <2>3, <2>4, <2>5
<1>7. Running(p, k)'
  BY <1>2, <1>3, <1>5, <1>6 DEF Running
<1> QED BY <1>3, <1>7 DEF FaultInv

\* Map workers have their locks, since their number is only lowered after tq_init.
LEMMA LocklessReduces ==
    ASSUME IInv, TInv, FaultInv, NEW w \in Threads, NoLock(w)
    PROVE  FaultInv'
<1>1. PICK p \in Programs : \E k \in DOMAIN p : Running(p, k)
  BY DEF FaultInv
<1>2. PICK k \in DOMAIN p : Running(p, k)
  BY <1>1
<1>3. /\ pc[w] = "task" /\ ~(w < args.num_map_threads) /\ fault' = "lock"
      /\ UNCHANGED <<args, calls, pool, phase, num_merge_threads>>
  BY DEF NoLock, HasLock, jobVars, envVars, callerVars
<1>4. /\ num_map_threads \in Nat /\ num_map_threads <= args.num_map_threads /\ w \in Nat
      /\ args.num_map_threads \in Nat /\ args.num_reduce_threads \in Nat
      /\ w < WorkersNow
  BY <1>3, CallType DEF IInv, Counts, Numbered, Threads
<1>5. phase \in {"map", "reduce"}
  BY <1>3 DEF TInv, PlacesOK, PlacesIn
<1>6. phase # "map"
  BY <1>3, <1>4 DEF WorkersNow
<1>7. args.num_reduce_threads > args.num_map_threads
  BY <1>3, <1>4, <1>5, <1>6 DEF WorkersNow
<1>8. Running(p, k)'
  BY <1>2, <1>3, <1>7 DEF Running
<1> QED BY <1>3, <1>8 DEF FaultInv

\* No step of the job disturbs FaultInv.
LEMMA FaultKept ==
    ASSUME IInv, TInv, FaultInv, [Next]_vars
    PROVE  FaultInv'
<1>1. CASE tpool_set_fails
  BY <1>1, AssertsShort
<1>2. CASE \E w \in Threads : NoLock(w)
  BY <1>2, LocklessReduces
<1>3. CASE UNCHANGED vars
  BY <1>3, RunningStays DEF FaultInv, vars, jobVars, envVars, callerVars
<1>4. CASE fault = "none" /\ UNCHANGED fault /\ NextCall
  BY <1>4, NextRuns
<1>5. CASE UNCHANGED fault /\ map_reduce_finalize /\ fault = "none"
  <2>1. PICK p \in Programs : \E k \in DOMAIN p : Running(p, k)
    BY DEF FaultInv
  <2>2. PICK k \in DOMAIN p : Running(p, k)
    BY <2>1
  <2>3. args' = args /\ calls' = calls /\ phase' = "finalized" /\ fault' = fault
    BY <1>5 DEF map_reduce_finalize
  <2>4. Running(p, k)'
    BY <2>2, <2>3 DEF Running
  <2> QED BY <2>3, <2>4 DEF FaultInv
<1>6. CASE UNCHANGED fault /\ (Split \/ StartMap \/ StartReduce)
  BY <1>6, RunningStays DEF Split, StartMap, StartReduce, envVars
<1>7. CASE UNCHANGED fault /\ (StartMerge \/ NextMergeRound)
  <2>1. UNCHANGED <<args, calls, pool>> /\ phase \in {"reduce", "merge"} /\ AllOff
        /\ NextThreads - 1 <= pool
    BY <1>7 DEF StartMerge, NextMergeRound, envVars, PoolSuffices
  <2>2. phase' = "merge" => num_merge_threads' - 1 <= pool
    <3> SUFFICES ASSUME phase' = "merge" PROVE num_merge_threads' = NextThreads
      BY <2>1
    <3>1. CASE StartMerge
      <4>1. phase = "reduce" /\ ~(Len(final_vals) <= 1) /\ num_merge_threads' = num_merge_threads
        BY <3>1 DEF StartMerge, envVars
      <4>2. Len(final_vals) > 1
        <5>1. Len(final_vals) \in Nat
          BY FinalArrays
        <5> QED BY <4>1, <5>1
      <4> QED BY <2>1, <4>1, <4>2 DEF NextThreads
    <3>2. CASE NextMergeRound
      BY <3>2, <2>1 DEF NextMergeRound, NextThreads
    <3> QED BY <1>7, <3>1, <3>2
  <2> QED BY <1>7, <2>1, <2>2, RunningStays
<1>8. ASSUME UNCHANGED fault, NEW w \in Threads,
             \/ NextMapTask(w) \/ emit_intermediate(w) \/ EndMapTask(w) \/ FinishMap(w)
             \/ NextReduceTask(w) \/ Gather(w) \/ Reduce(w) \/ identity_reduce(w)
             \/ FinishReduce(w) \/ MergeStep(w) \/ FinishMerge(w)
      PROVE  FaultInv'
  <2>1. UNCHANGED <<args, calls, pool, phase, num_merge_threads>>
    BY <1>8 DEF NextMapTask, emit_intermediate, EndMapTask, FinishMap, NextReduceTask, Gather,
                Reduce, identity_reduce, FinishReduce, MergeStep, FinishMerge, envVars, callerVars
  <2> QED BY <1>8, <2>1, RunningStays DEF FaultInv
<1> QED BY <1>1, <1>2, <1>3, <1>4, <1>5, <1>6, <1>7, <1>8 DEF Next, Caller, Worker, Finished

\* A program fails only in a call that asks for more threads than the map threads of
\* the first call and the caller, or for more reduce than map threads; nothing is
\* assumed of what the calls ask for.
THEOREM JobFailsOnlyIfShort == Spec => []FailsOnlyIfShort
<1>1. Init => FaultInv
  <2> SUFFICES ASSUME Init PROVE FaultInv
    OBVIOUS
  <2>1. PICK p \in Programs : args = p[1] /\ calls = Tail(p)
    BY DEF Init
  <2>2. p \in Seq(Args) /\ p # <<>>
    BY ProgramsAssumption
  <2>3. 1 \in DOMAIN p /\ Tail(p) = SubSeq(p, 1 + 1, Len(p))
    BY <2>2
  <2>4. pool = args.num_map_threads /\ fault = "none" /\ phase = "split"
    BY DEF Init
  <2>5. Running(p, 1)
    BY <2>1, <2>3, <2>4 DEF Running
  <2> QED BY <2>3, <2>4, <2>5 DEF FaultInv
<1>2. IInv /\ TInv /\ FaultInv /\ [Next]_vars => FaultInv'
  BY FaultKept
<1>3. FaultInv => FailsOnlyIfShort
  <2> SUFFICES ASSUME FaultInv PROVE FailsOnlyIfShort
    OBVIOUS
  <2>1. PICK p \in Programs : \E k \in DOMAIN p : Running(p, k)
    BY DEF FaultInv
  <2>2. PICK k \in DOMAIN p : Running(p, k)
    BY <2>1
  <2> QED BY <2>2 DEF FailsOnlyIfShort, Running, Wants
<1> QED BY <1>1, <1>2, <1>3, PhaseInvariant, TypeInvariant, PTL DEF Spec

---------------
(* What the map workers have emitted, and where it is. *)

\* List l of entry k of the array has the emission.
Has(arr, k, l, e) == k \in 1..Len(arr) /\ l \in 1..Len(arr[k].vals) /\ e \in arr[k].vals[l]
Stored(e)         == \E m \in MapWorkers, r \in ReduceTasks : \E k, l : Has(Arr(m, r), k, l, e)
Covers(t, u)      == t.first <= u /\ u <= t.last
Hand(w, i, e)     == i \in 1..Len(todo[w]) /\ todo[w][i] = e

\* An emission is under its key, in the row of the key, of a map thread.
Keyed ==
    \A m \in MapWorkers, r \in ReduceTasks :
        /\ \A k \in 1..Len(Arr(m, r)) : /\ Arr(m, r)[k].key \in DOMAIN args.partition
                                        /\ Row(Arr(m, r)[k].key) = r
        /\ \A k, l : \A e : Has(Arr(m, r), k, l, e) => Arr(m, r)[k].key = KeyOf(e)
        /\ phase = "split" \/ m \notin MapThreads => Arr(m, r) = <<>>

StoredOnce ==
    \A m, n \in MapWorkers, r \in ReduceTasks : \A k, j, l, i, e :
        Has(Arr(m, r), k, l, e) /\ Has(Arr(n, r), j, i, e) => m = n /\ l = i

\* The tasks cover the input up to the splitter, and no unit twice.
SplitOK ==
    /\ phase \in {"split", "map"} =>
          \A s, t \in tasks : \A u \in Nat : Covers(s, u) /\ Covers(t, u) => s = t
    /\ phase = "split" => /\ \A t \in tasks : t.last <= splitter_pos
                          /\ \A u \in 1..splitter_pos : \E t \in tasks : Covers(t, u)

MapOnce ==
    /\ phase = "map" => \A e \in Emissions :
          /\ \/ \E t \in tasks : Covers(t, e[1])
             \/ \E w \in Threads : \E i : Hand(w, i, e)
             \/ Stored(e)
          /\ \A t \in tasks : Covers(t, e[1]) =>
                ~Stored(e) /\ \A w \in Threads : \A i : ~Hand(w, i, e)
          /\ \A w \in Threads : \A i : Hand(w, i, e) =>
                ~Stored(e) /\ \A v \in Threads : \A j : Hand(v, j, e) => v = w /\ j = i
    /\ phase \notin {"split", "map"} => \A e \in Emissions : Stored(e)

\* A worker that has returned has found the queue of tasks empty.
Drained ==
    phase \in {"map", "reduce"} =>
        \A w \in Threads : w < WorkersNow /\ pc[w] = "off" => tasks = {}

MapInv == Keyed /\ StoredOnce /\ SplitOK /\ MapOnce /\ Drained

\* Where the values are after emit_intermediate.
Placed(new, arr, key, e) ==
    /\ \A k, l, x : Has(new, k, l, x) =>
          \/ \E j : Has(arr, j, l, x) /\ arr[j].key = new[k].key
          \/ x = e /\ new[k].key = key /\ l = Len(new[k].vals)
    /\ \A j, l, x : Has(arr, j, l, x) => \E k : Has(new, k, l, x) /\ new[k].key = arr[j].key
    /\ \E k, l : Has(new, k, l, e)
    /\ \A k \in 1..Len(new) : new[k].key = key \/ \E j \in 1..Len(arr) : arr[j].key = new[k].key

\* Merging {e} under its key into an array puts e at one new place and moves no value
\* to another key or another place among its key's values.
LEMMA EmitPlaces ==
    ASSUME NEW V, NEW arr \in Seq([key : Int, vals : Seq(SUBSET V)]), StrictlySorted(arr),
           NEW key \in Int, NEW e \in V, NEW new, Merged(new, arr, key, {e}, SUBSET V)
    PROVE  Placed(new, arr, key, e)
<1> DEFINE S == [key : Int, vals : Seq(SUBSET V)]
           val == {e}
<1>1. /\ new \in Seq(S) /\ StrictlySorted(new)
      /\ \A j \in 1..Len(arr) : arr[j].key # key => \E k \in 1..Len(new) : new[k] = arr[j]
      /\ \A k \in 1..Len(new) : new[k].key # key => \E j \in 1..Len(arr) : new[k] = arr[j]
      /\ \E k \in 1..Len(new) : new[k].key = key
      /\ \A k \in 1..Len(new) : new[k].key = key =>
            \/ \E j \in 1..Len(arr) : /\ arr[j].key = key
                                      /\ new[k].vals = Append(arr[j].vals, val)
            \/ /\ new[k].vals = <<val>>
               /\ \A j \in 1..Len(arr) : arr[j].key # key
  BY DEF Merged
<1>2. /\ Len(arr) \in Nat /\ DOMAIN arr = 1..Len(arr)
      /\ \A j \in 1..Len(arr) : arr[j] \in S /\ arr[j].key \in Int /\ arr[j].vals \in Seq(SUBSET V)
  <2>1. Len(arr) \in Nat /\ DOMAIN arr = 1..Len(arr)
    BY LenProperties
  <2>2. ASSUME NEW j \in 1..Len(arr)
        PROVE  arr[j] \in S /\ arr[j].key \in Int /\ arr[j].vals \in Seq(SUBSET V)
    <3>1. arr[j] \in S
      BY ElementOfSeq
    <3> QED BY <3>1
  <2> QED BY <2>1, <2>2
<1>3. val \in SUBSET V /\ \A x : x \in val <=> x = e
  OBVIOUS
<1> HIDE DEF S, val
<1>4. ASSUME NEW j \in 1..Len(arr)
      PROVE  LET a == Append(arr[j].vals, val)
             IN  /\ Len(a) = Len(arr[j].vals) + 1 /\ Len(arr[j].vals) \in Nat
                 /\ \A l \in 1..Len(arr[j].vals) : a[l] = arr[j].vals[l]
                 /\ a[Len(a)] = val
  <2> DEFINE s == arr[j].vals
  <2>1. s \in Seq(SUBSET V)
    BY <1>2
  <2> HIDE DEF s
  <2>2. LET a == Append(s, val)
        IN  /\ Len(a) = Len(s) + 1 /\ Len(s) \in Nat
            /\ \A l \in 1..Len(s) : a[l] = s[l]
            /\ a[Len(a)] = val
    BY <1>3, <2>1
  <2> QED BY <2>2 DEF s
<1>5. Len(<<val>>) = 1 /\ <<val>>[1] = val
  OBVIOUS
<1>6. ASSUME NEW k, NEW l, NEW x, Has(new, k, l, x)
      PROVE  \/ \E j : Has(arr, j, l, x) /\ arr[j].key = new[k].key
             \/ x = e /\ new[k].key = key /\ l = Len(new[k].vals)
  <2>1. k \in 1..Len(new) /\ l \in 1..Len(new[k].vals) /\ x \in new[k].vals[l]
    BY <1>6 DEF Has
  <2>2. CASE new[k].key # key
    BY <1>1, <2>1, <2>2 DEF Has
  <2>3. CASE new[k].key = key
    <3>1. CASE new[k].vals = <<val>>
      <4>1. l = 1
        BY <1>5, <2>1, <3>1
      <4> QED BY <1>3, <1>5, <2>1, <2>3, <3>1, <4>1
    <3>2. ASSUME NEW j \in 1..Len(arr), arr[j].key = key, new[k].vals = Append(arr[j].vals, val)
          PROVE  \/ \E i : Has(arr, i, l, x) /\ arr[i].key = new[k].key
                 \/ x = e /\ new[k].key = key /\ l = Len(new[k].vals)
      <4>1. CASE l \in 1..Len(arr[j].vals)
        <5>1. Has(arr, j, l, x)
          BY <1>4, <2>1, <3>2, <4>1 DEF Has
        <5> QED BY <2>3, <3>2, <5>1
      <4>2. CASE l \notin 1..Len(arr[j].vals)
        <5>1. PICK n \in Nat : n = Len(arr[j].vals) /\ Len(new[k].vals) = n + 1
          BY <1>4, <3>2
        <5>2. n \in Nat /\ l \in 1..(n + 1) /\ l \notin 1..n
          BY <2>1, <4>2, <5>1
        <5>3. l = n + 1
          BY ONLY <5>2
        <5>4. l = Len(new[k].vals) /\ new[k].vals[l] = val
          BY <1>4, <3>2, <5>1, <5>3
        <5> QED BY <1>3, <2>1, <2>3, <5>4
      <4> QED BY <4>1, <4>2
    <3> QED BY <1>1, <2>1, <2>3, <3>1, <3>2
  <2> QED BY <2>2, <2>3
<1>7. ASSUME NEW j, NEW l, NEW x, Has(arr, j, l, x)
      PROVE  \E k : Has(new, k, l, x) /\ new[k].key = arr[j].key
  <2>1. j \in 1..Len(arr) /\ l \in 1..Len(arr[j].vals) /\ x \in arr[j].vals[l]
    BY <1>7 DEF Has
  <2>2. CASE arr[j].key # key
    BY <1>1, <2>1, <2>2 DEF Has
  <2>3. CASE arr[j].key = key
    <3>1. PICK k \in 1..Len(new) : new[k].key = key
      BY <1>1
    <3>2. PICK i \in 1..Len(arr) : arr[i].key = key /\ new[k].vals = Append(arr[i].vals, val)
      BY <1>1, <2>1, <2>3, <3>1
    <3>3. i = j
      <4>1. \A a, b \in 1..Len(arr) : a < b => arr[a].key < arr[b].key
        BY <1>2 DEF StrictlySorted
      <4>2. ~(i < j) /\ ~(j < i)
        BY <1>2, <2>1, <2>3, <3>2, <4>1, SMTT(60)
      <4> QED BY <1>2, <2>1, <3>2, <4>2
    <3>4. l \in 1..Len(new[k].vals) /\ x \in new[k].vals[l]
      BY <1>4, <2>1, <3>2, <3>3
    <3> QED BY <2>3, <3>1, <3>4 DEF Has
  <2> QED BY <2>2, <2>3
<1>8. \E k, l : Has(new, k, l, e)
  <2>1. PICK k \in 1..Len(new) : new[k].key = key
    BY <1>1
  <2>2. CASE new[k].vals = <<val>>
    <3>1. 1 \in 1..Len(new[k].vals) /\ e \in new[k].vals[1]
      BY <1>3, <1>5, <2>2
    <3> QED BY <2>1, <3>1 DEF Has
  <2>3. ASSUME NEW j \in 1..Len(arr), new[k].vals = Append(arr[j].vals, val)
        PROVE  \E i, l : Has(new, i, l, e)
    <3>1. Len(new[k].vals) \in 1..Len(new[k].vals) /\ e \in new[k].vals[Len(new[k].vals)]
      BY <1>3, <1>4, <2>3
    <3> QED BY <2>1, <3>1 DEF Has
  <2> QED BY <1>1, <2>1, <2>2, <2>3
<1>9. \A k \in 1..Len(new) : new[k].key = key \/ \E j \in 1..Len(arr) : arr[j].key = new[k].key
  BY <1>1
<1> QED BY <1>6, <1>7, <1>8, <1>9 DEF Placed

\* And after run_combiner.
LEMMA CombinePlaces ==
    ASSUME NEW V, NEW arr \in Seq([key : Int, vals : Seq(SUBSET V)])
    PROVE  \A k, l, x : Has(Combined(arr), k, l, x) <=> l = 1 /\ \E i : Has(arr, k, i, x)
<1> DEFINE c == Combined(arr)
<1>1. /\ Len(c) = Len(arr)
      /\ \A k \in 1..Len(arr) : c[k].key = arr[k].key /\ c[k].vals = <<UNION ToSet(arr[k].vals)>>
  BY CombinedArray
<1>2. \A k \in 1..Len(arr) : arr[k].vals \in Seq(SUBSET V)
  <2>1. \A k \in 1..Len(arr) : arr[k] \in [key : Int, vals : Seq(SUBSET V)]
    BY ElementOfSeq
  <2> QED BY <2>1
<1> HIDE DEF c
<1>3. ASSUME NEW k \in 1..Len(arr), NEW x
      PROVE  /\ Len(c[k].vals) = 1
             /\ x \in c[k].vals[1] <=> \E i \in 1..Len(arr[k].vals) : x \in arr[k].vals[i]
  <2> DEFINE s == arr[k].vals
             u == UNION ToSet(s)
  <2>1. s \in Seq(SUBSET V) /\ c[k].vals = <<u>>
    BY <1>1, <1>2
  <2>2. x \in u <=> \E i \in 1..Len(s) : x \in s[i]
    BY <2>1 DEF ToSet
  <2> HIDE DEF u
  <2>3. Len(<<u>>) = 1 /\ <<u>>[1] = u
    OBVIOUS
  <2> QED BY <2>1, <2>2, <2>3
<1>4. ASSUME NEW k, NEW l, NEW x
      PROVE  Has(c, k, l, x) <=> l = 1 /\ \E i : Has(arr, k, i, x)
  <2>1. CASE k \in 1..Len(arr)
    <3>1. Has(c, k, l, x) <=> l \in 1..1 /\ x \in c[k].vals[l]
      BY <1>1, <1>3, <2>1 DEF Has
    <3>2. l \in 1..1 <=> l = 1
      OBVIOUS
    <3>3. x \in c[k].vals[1] <=> \E i : Has(arr, k, i, x)
      BY <1>3, <2>1 DEF Has
    <3> QED BY <3>1, <3>2, <3>3
  <2>2. CASE k \notin 1..Len(arr)
    BY <1>1, <2>2 DEF Has
  <2> QED BY <2>1, <2>2
<1> QED BY <1>4 DEF c

\* What a map worker's emit does to the arrays.
Emits(w, e, r) ==
    /\ \A m \in MapWorkers, s \in ReduceTasks : m # w \/ s # r => Arr(m, s)' = Arr(m, s)
    /\ Placed(Arr(w, r)', Arr(w, r), KeyOf(e), e)

\* emit_intermediate puts the first emission of the worker's list into its array of the
\* reduce task of the key.
LEMMA EmitChange ==
    ASSUME IInv, TInv, NEW w \in Threads, emit_intermediate(w)
    PROVE  /\ phase = "map" /\ w \in MapThreads /\ w \in MapWorkers
           /\ \E e \in Emissions, r \in ReduceTasks :
                /\ Len(todo[w]) \in Nat \ {0} /\ e = todo[w][1] /\ r = Row(KeyOf(e))
                /\ Emits(w, e, r)
<1>1. /\ phase = "map" /\ w \in MapThreads /\ w \in MapWorkers /\ Len(todo[w]) \in Nat \ {0}
      /\ todo[w][1] \in Emissions
  BY EmitArrays
<1>2. PICK e \in Emissions : e = todo[w][1]
  BY <1>1
<1>3. KeyOf(e) \in DOMAIN args.partition /\ KeyOf(e) \in Int /\ Row(KeyOf(e)) \in ReduceTasks
  BY EmissionType DEF IInv
<1>4. PICK r \in ReduceTasks : r = Row(KeyOf(e))
  BY <1>3
<1>5. \A m \in MapWorkers, s \in ReduceTasks :
         Arr(m, s)' = IF m = w /\ s = r THEN insert_keyval_merged(Arr(w, r), KeyOf(e), {e})
                                        ELSE Arr(m, s)
  BY <1>2, <1>4, EmitArrays
<1>6. PICK arr : arr = Arr(w, r)
  OBVIOUS
<1>7. PICK new : new = Arr(w, r)'
  OBVIOUS
<1>8. PICK key \in Int : key = KeyOf(e)
  BY <1>3
<1>9. new = insert_keyval_merged(arr, key, {e})
  BY <1>1, <1>5, <1>6, <1>7, <1>8
<1>10. PICK V : V = Emissions
  OBVIOUS
<1>11. arr \in Seq([key : Int, vals : Seq(SUBSET V)]) /\ StrictlySorted(arr) /\ e \in V
  BY <1>1, <1>6, <1>10, ArrayType DEF TInv, ArraysOK, Entries
<1>12. {e} \in SUBSET V
  BY <1>11
<1>13. Merged(new, arr, key, {e}, SUBSET V)
  BY <1>9, <1>11, <1>12, InsertMerged
<1>14. Placed(new, arr, key, e)
  BY <1>11, <1>13, EmitPlaces
<1>15. Emits(w, e, r)
  BY <1>5, <1>6, <1>7, <1>8, <1>14 DEF Emits
<1> QED BY <1>1, <1>2, <1>4, <1>15

\* FinishMap leaves the keys as they are and moves every value of a key to its first place.
LEMMA CombineChange ==
    ASSUME IInv, TInv, NEW w \in Threads, FinishMap(w)
    PROVE  /\ phase = "map" /\ w \in MapThreads /\ w \in MapWorkers
           /\ \/ intermediate_vals' = intermediate_vals
              \/ \A m \in MapWorkers, s \in ReduceTasks :
                    IF m = w
                      THEN /\ \A k, l, x : Has(Arr(m, s)', k, l, x) <=>
                                              l = 1 /\ \E i : Has(Arr(m, s), k, i, x)
                           /\ Len(Arr(m, s)') = Len(Arr(m, s))
                           /\ \A k \in 1..Len(Arr(m, s)) : Arr(m, s)'[k].key = Arr(m, s)[k].key
                      ELSE Arr(m, s)' = Arr(m, s)
<1>1. phase = "map" /\ w \in MapThreads /\ w \in MapWorkers
  BY CombineArrays
<1>2. ASSUME intermediate_vals' # intermediate_vals, NEW m \in MapWorkers, NEW s \in ReduceTasks
      PROVE  IF m = w
               THEN /\ \A k, l, x : Has(Arr(m, s)', k, l, x) <=>
                                       l = 1 /\ \E i : Has(Arr(m, s), k, i, x)
                    /\ Len(Arr(m, s)') = Len(Arr(m, s))
                    /\ \A k \in 1..Len(Arr(m, s)) : Arr(m, s)'[k].key = Arr(m, s)[k].key
               ELSE Arr(m, s)' = Arr(m, s)
  <2>1. Arr(m, s)' = IF m = w THEN Combined(Arr(w, s)) ELSE Arr(m, s)
    BY <1>2, CombineArrays
  <2>2. PICK arr : arr = Arr(m, s)
    OBVIOUS
  <2>3. PICK V : V = Emissions
    OBVIOUS
  <2>4. arr \in Seq([key : Int, vals : Seq(SUBSET V)])
    BY <2>2, <2>3, ArrayType DEF TInv, Entries
  <2>5. \A k, l, x : Has(Combined(arr), k, l, x) <=> l = 1 /\ \E i : Has(arr, k, i, x)
    BY <2>4, CombinePlaces
  <2>6. /\ Len(Combined(arr)) = Len(arr)
        /\ \A k \in 1..Len(arr) : Combined(arr)[k].key = arr[k].key
    BY <2>4, CombinedArray
  <2>7. CASE m = w
    BY <2>1, <2>2, <2>5, <2>6, <2>7
  <2>8. CASE m # w
    BY <2>1, <2>8
  <2> QED BY <2>7, <2>8
<1> QED BY <1>1, <1>2

\* The arrays of a new call.
LEMMA NewArrays ==
    ASSUME NextCall
    PROVE  /\ phase' = "split" /\ splitter_pos' = 0 /\ tasks' = {}
           /\ \A m \in MapWorkers', r \in ReduceTasks' : Arr(m, r)' = <<>>
BY DEF NextCall, NoVals, MapWorkers, ReduceTasks, Arr

\* An empty array has no value.
LEMMA NoneIn ==
    \A k, l, x : ~Has(<<>>, k, l, x)
<1>1. Len(<<>>) = 0
  OBVIOUS
<1> QED BY <1>1 DEF Has

\* A value is in the array of its key's reduce task, under its key.
LEMMA KeyedKeep ==
    ASSUME IInv, TInv, Keyed, [Next]_vars
    PROVE  Keyed'
<1>1. CASE NextCall
  BY <1>1, NewArrays, NoneIn DEF Keyed, Has
<1>2. CASE UNCHANGED <<args, intermediate_vals>>
  <2>1. /\ MapWorkers' = MapWorkers /\ ReduceTasks' = ReduceTasks
        /\ \A key : Row(key)' = Row(key)
        /\ \A e : KeyOf(e)' = KeyOf(e)
    BY <1>2, ArgsStay
  <2>2. \A m, r : Arr(m, r)' = Arr(m, r)
    BY <1>2 DEF Arr
  <2>3. ASSUME NEW m \in MapWorkers, NEW r \in ReduceTasks, phase' = "split" \/ m \notin MapThreads'
        PROVE  Arr(m, r) = <<>>
    <3>1. CASE UNCHANGED <<phase, num_map_threads>>
      BY <2>3, <3>1 DEF Keyed, MapThreads
    <3>2. CASE StartMap
      BY <3>2 DEF StartMap, Keyed
    <3>3. CASE StartReduce \/ StartMerge \/ NextMergeRound \/ map_reduce_finalize
      <4>1. phase' # "split" /\ num_map_threads' = num_map_threads
        BY <3>3 DEF StartReduce, StartMerge, NextMergeRound, map_reduce_finalize, envVars
      <4> QED BY <2>3, <4>1 DEF Keyed, MapThreads
    <3>4. CASE NextCall
      BY <1>2, <3>4 DEF NoVals, MapWorkers, ReduceTasks, NextCall, Arr
    <3> QED BY <3>1, <3>2, <3>3, <3>4, PhaseChange
  <2> QED BY <1>2, <2>1, <2>2, <2>3 DEF Keyed
<1>3. ASSUME NEW w \in Threads, emit_intermediate(w), args' = args PROVE Keyed'
  <2>1. /\ MapWorkers' = MapWorkers /\ ReduceTasks' = ReduceTasks /\ MapThreads' = MapThreads
        /\ phase' = phase
        /\ \A key : Row(key)' = Row(key)
        /\ \A e : KeyOf(e)' = KeyOf(e)
    BY <1>3, ArgsStay DEF emit_intermediate, MapThreads, envVars, callerVars
  <2>2. phase = "map" /\ w \in MapThreads /\ w \in MapWorkers
    BY <1>3, EmitChange
  <2>3. PICK e \in Emissions, r \in ReduceTasks : r = Row(KeyOf(e)) /\ Emits(w, e, r)
    BY <1>3, EmitChange
  <2>4. KeyOf(e) \in DOMAIN args.partition
    BY EmissionType DEF IInv
  <2>5. ASSUME NEW m \in MapWorkers, NEW s \in ReduceTasks
        PROVE  /\ \A k \in 1..Len(Arr(m, s)') : /\ Arr(m, s)'[k].key \in DOMAIN args.partition
                                                /\ Row(Arr(m, s)'[k].key) = s
               /\ \A k, l, x : Has(Arr(m, s)', k, l, x) => Arr(m, s)'[k].key = KeyOf(x)
               /\ phase = "split" \/ m \notin MapThreads => Arr(m, s)' = <<>>
    <3>1. CASE m = w /\ s = r
      <4>1. \A j \in 1..Len(Arr(w, r)) : /\ Arr(w, r)[j].key \in DOMAIN args.partition
                                         /\ Row(Arr(w, r)[j].key) = r
        BY <2>2 DEF Keyed
      <4>2. \A k \in 1..Len(Arr(w, r)') :
                \/ Arr(w, r)'[k].key = KeyOf(e)
                \/ \E j \in 1..Len(Arr(w, r)) : Arr(w, r)[j].key = Arr(w, r)'[k].key
        BY <2>3 DEF Emits, Placed
      <4>3. \A k \in 1..Len(Arr(w, r)') : /\ Arr(w, r)'[k].key \in DOMAIN args.partition
                                          /\ Row(Arr(w, r)'[k].key) = r
        <5> SUFFICES ASSUME NEW k \in 1..Len(Arr(w, r)')
                     PROVE  /\ Arr(w, r)'[k].key \in DOMAIN args.partition
                            /\ Row(Arr(w, r)'[k].key) = r
          OBVIOUS
        <5>1. CASE Arr(w, r)'[k].key = KeyOf(e)
          BY <2>3, <2>4, <5>1
        <5>2. ASSUME NEW j \in 1..Len(Arr(w, r)), Arr(w, r)[j].key = Arr(w, r)'[k].key
              PROVE  /\ Arr(w, r)'[k].key \in DOMAIN args.partition
                     /\ Row(Arr(w, r)'[k].key) = r
          BY <4>1, <5>2
        <5> QED BY <4>2, <5>1, <5>2
      <4>4. ASSUME NEW k, NEW l, NEW x, Has(Arr(w, r)', k, l, x) PROVE Arr(w, r)'[k].key = KeyOf(x)
        BY <2>2, <2>3, <4>4 DEF Keyed, Emits, Placed
      <4> QED BY <2>2, <3>1, <4>3, <4>4
    <3>2. CASE ~(m = w /\ s = r)
      <4>1. Arr(m, s)' = Arr(m, s)
        BY <2>3, <3>2 DEF Emits
      <4> QED BY <4>1 DEF Keyed
    <3> QED BY <3>1, <3>2
  <2> QED BY <1>3, <2>1, <2>5 DEF Keyed
<1>4. ASSUME NEW w \in Threads, FinishMap(w), args' = args PROVE Keyed'
  <2>1. /\ MapWorkers' = MapWorkers /\ ReduceTasks' = ReduceTasks /\ MapThreads' = MapThreads
        /\ phase' = phase
        /\ \A key : Row(key)' = Row(key)
        /\ \A e : KeyOf(e)' = KeyOf(e)
    BY <1>4, ArgsStay DEF FinishMap, MapThreads, envVars, callerVars
  <2>2. phase = "map" /\ w \in MapThreads /\ w \in MapWorkers
    BY <1>4, CombineChange
  <2>3. CASE intermediate_vals' = intermediate_vals
    <3>1. \A m, r : Arr(m, r)' = Arr(m, r)
      BY <2>3 DEF Arr
    <3> QED BY <1>4, <2>1, <3>1 DEF Keyed
  <2>4. CASE intermediate_vals' # intermediate_vals
    <3>1. ASSUME NEW m \in MapWorkers, NEW s \in ReduceTasks
          PROVE  /\ \A k \in 1..Len(Arr(m, s)') : /\ Arr(m, s)'[k].key \in DOMAIN args.partition
                                                  /\ Row(Arr(m, s)'[k].key) = s
                 /\ \A k, l, x : Has(Arr(m, s)', k, l, x) => Arr(m, s)'[k].key = KeyOf(x)
                 /\ phase = "split" \/ m \notin MapThreads => Arr(m, s)' = <<>>
      <4>1. CASE m = w
        <5>1. /\ \A k, l, x : Has(Arr(m, s)', k, l, x) <=> l = 1 /\ \E i : Has(Arr(m, s), k, i, x)
              /\ Len(Arr(m, s)') = Len(Arr(m, s))
              /\ \A k \in 1..Len(Arr(m, s)) : Arr(m, s)'[k].key = Arr(m, s)[k].key
          BY <1>4, <2>4, <4>1, CombineChange
        <5>2. \A k \in 1..Len(Arr(m, s)') : /\ Arr(m, s)'[k].key \in DOMAIN args.partition
                                            /\ Row(Arr(m, s)'[k].key) = s
          BY <5>1 DEF Keyed
        <5>3. ASSUME NEW k, NEW l, NEW x, Has(Arr(m, s)', k, l, x)
              PROVE  Arr(m, s)'[k].key = KeyOf(x)
          <6>1. PICK i : Has(Arr(m, s), k, i, x)
            BY <5>1, <5>3
          <6>2. k \in 1..Len(Arr(m, s)) /\ Arr(m, s)[k].key = KeyOf(x)
            BY <6>1 DEF Keyed, Has
          <6> QED BY <5>1, <6>2
        <5> QED BY <2>2, <4>1, <5>2, <5>3
      <4>2. CASE m # w
        <5>1. Arr(m, s)' = Arr(m, s)
          BY <1>4, <2>4, <4>2, CombineChange
        <5> QED BY <5>1 DEF Keyed
      <4> QED BY <4>1, <4>2
    <3> QED BY <1>4, <2>1, <3>1 DEF Keyed
  <2> QED BY <2>3, <2>4
<1> QED BY <1>1, <1>2, <1>3, <1>4, ArrayChange

\* Emitting stores one emission more, ...
LEMMA StoredEmit ==
    ASSUME IInv, TInv, NEW w \in Threads, emit_intermediate(w)
    PROVE  \A x : Stored(x)' <=> Stored(x) \/ x = todo[w][1]
<1>1. w \in MapWorkers
  BY EmitChange
<1>2. PICK e \in Emissions, r \in ReduceTasks : e = todo[w][1] /\ Emits(w, e, r)
  BY EmitChange
<1>3. MapWorkers' = MapWorkers /\ ReduceTasks' = ReduceTasks
  BY ArgsStay DEF emit_intermediate, envVars
<1>4. ASSUME NEW x, Stored(x)' PROVE Stored(x) \/ x = e
  <2>1. PICK m \in MapWorkers, s \in ReduceTasks : \E k, l : Has(Arr(m, s)', k, l, x)
    BY <1>3, <1>4 DEF Stored
  <2>2. PICK k, l : Has(Arr(m, s)', k, l, x)
    BY <2>1
  <2>3. CASE m = w /\ s = r
    BY <1>2, <2>2, <2>3, <1>1 DEF Emits, Placed, Stored
  <2>4. CASE ~(m = w /\ s = r)
    <3>1. Has(Arr(m, s), k, l, x)
      BY <1>2, <2>2, <2>4 DEF Emits
    <3> QED BY <3>1 DEF Stored
  <2> QED BY <2>3, <2>4
<1>5. ASSUME NEW x, Stored(x) PROVE Stored(x)'
  <2>1. PICK m \in MapWorkers, s \in ReduceTasks : \E k, l : Has(Arr(m, s), k, l, x)
    BY <1>5 DEF Stored
  <2>2. PICK k, l : Has(Arr(m, s), k, l, x)
    BY <2>1
  <2>3. \E j : Has(Arr(m, s)', j, l, x)
    BY <1>2, <2>2 DEF Emits, Placed
  <2> QED BY <1>3, <2>3 DEF Stored
<1>6. Stored(e)'
  <2>1. \E k, l : Has(Arr(w, r)', k, l, e)
    BY <1>2 DEF Emits, Placed
  <2> QED BY <1>1, <1>3, <2>1 DEF Stored
<1> QED BY <1>2, <1>4, <1>5, <1>6

\* ... combining stores the same, ...
LEMMA StoredCombine ==
    ASSUME IInv, TInv, NEW w \in Threads, FinishMap(w)
    PROVE  \A x : Stored(x)' <=> Stored(x)
<1>1. MapWorkers' = MapWorkers /\ ReduceTasks' = ReduceTasks
  BY ArgsStay DEF FinishMap, envVars
<1>2. ASSUME NEW x, NEW m \in MapWorkers, NEW s \in ReduceTasks
      PROVE  (\E k, l : Has(Arr(m, s)', k, l, x)) <=> \E k, l : Has(Arr(m, s), k, l, x)
  <2>1. CASE intermediate_vals' = intermediate_vals
    BY <2>1 DEF Arr
  <2>2. CASE intermediate_vals' # intermediate_vals
    BY <2>2, CombineChange
  <2> QED BY <2>1, <2>2
<1> QED BY <1>1, <1>2 DEF Stored

\* ... and what does not touch the arrays too.
LEMMA StoredStay ==
    ASSUME UNCHANGED <<args, intermediate_vals>>
    PROVE  \A x : Stored(x)' <=> Stored(x)
BY DEF MapWorkers, ReduceTasks, Arr, Stored

\* A key has one entry in an array, ...
LEMMA OneKey ==
    ASSUME NEW V, NEW arr \in Seq([key : Int, vals : V]), StrictlySorted(arr),
           NEW k \in 1..Len(arr), NEW j \in 1..Len(arr), arr[k].key = arr[j].key
    PROVE  k = j
<1>1. /\ Len(arr) \in Nat /\ DOMAIN arr = 1..Len(arr)
      /\ \A i \in 1..Len(arr) : arr[i] \in [key : Int, vals : V]
  <2>1. \A i \in 1..Len(arr) : arr[i] \in [key : Int, vals : V]
    BY ElementOfSeq
  <2> QED BY <2>1
<1>2. arr[k].key \in Int /\ arr[j].key \in Int
  BY <1>1
<1>3. ~(k < j) /\ ~(j < k)
  BY <1>1, <1>2, SMTT(60) DEF StrictlySorted
<1> QED BY <1>1, <1>3

\* ... and so has an emission.
LEMMA OneEntry ==
    ASSUME ArraysOK, Keyed, NEW m \in MapWorkers, NEW r \in ReduceTasks
    PROVE  \A k, l, j, i, e : Has(Arr(m, r), k, l, e) /\ Has(Arr(m, r), j, i, e) => k = j
<1> SUFFICES ASSUME NEW k, NEW l, NEW j, NEW i, NEW e,
                    Has(Arr(m, r), k, l, e), Has(Arr(m, r), j, i, e)
             PROVE  k = j
  OBVIOUS
<1>1. k \in 1..Len(Arr(m, r)) /\ j \in 1..Len(Arr(m, r))
  BY DEF Has
<1>2. Arr(m, r)[k].key = KeyOf(e) /\ Arr(m, r)[j].key = KeyOf(e)
  BY DEF Keyed
<1>3. Arr(m, r) \in Seq([key : Int, vals : Seq(SUBSET Emissions)]) /\ StrictlySorted(Arr(m, r))
  BY ArrayType DEF ArraysOK, Entries
<1> QED BY <1>1, <1>2, <1>3, OneKey

\* No emission is stored at two places.
LEMMA OnceKeep ==
    ASSUME IInv, TInv, MapInv, [Next]_vars, ArraysOK', Keyed'
    PROVE  StoredOnce'
<1>1. CASE NextCall
  BY <1>1, NewArrays, NoneIn DEF StoredOnce
<1>2. CASE UNCHANGED <<args, intermediate_vals>>
  BY <1>2 DEF MapWorkers, ReduceTasks, Arr, MapInv, StoredOnce
<1>3. ASSUME NEW w \in Threads, emit_intermediate(w), args' = args PROVE StoredOnce'
  <2>1. w \in MapWorkers /\ phase = "map"
    BY <1>3, EmitChange
  <2>2. PICK e \in Emissions, r \in ReduceTasks :
               e = todo[w][1] /\ Emits(w, e, r) /\ Len(todo[w]) \in Nat \ {0}
    BY <1>3, EmitChange
  <2>3. MapWorkers' = MapWorkers /\ ReduceTasks' = ReduceTasks
    BY <1>3, ArgsStay
  <2>4. ~Stored(e)
    <3>1. Hand(w, 1, e)
      BY <2>2 DEF Hand
    <3> QED BY <2>1, <3>1 DEF MapInv, MapOnce
  <2>5. ASSUME NEW m \in MapWorkers, NEW s \in ReduceTasks, NEW k, NEW l, NEW x,
               Has(Arr(m, s)', k, l, x)
        PROVE  IF x = e THEN m = w /\ s = r /\ l = Len(Arr(w, r)'[k].vals)
                        ELSE \E j : Has(Arr(m, s), j, l, x)
    <3>1. (\E j : Has(Arr(m, s), j, l, x)) => x # e
      BY <2>4 DEF Stored
    <3>2. CASE m = w /\ s = r
      BY <2>2, <2>5, <3>2, <3>1 DEF Emits, Placed
    <3>3. CASE ~(m = w /\ s = r)
      <4>1. Has(Arr(m, s), k, l, x)
        BY <2>2, <2>5, <3>3 DEF Emits
      <4> QED BY <3>1, <4>1
    <3> QED BY <3>2, <3>3
  <2>7. ASSUME NEW k, NEW l, Has(Arr(w, r)', k, l, e) PROVE Arr(w, r)'[k].key = KeyOf(e)
    <3>1. KeyOf(e)' = KeyOf(e)
      BY <1>3, ArgsStay
    <3> QED BY <2>1, <2>3, <2>7, <3>1, SMTT(60) DEF Keyed, Has, Arr
  <2>6. ASSUME NEW m \in MapWorkers, NEW n \in MapWorkers, NEW s \in ReduceTasks,
               NEW k, NEW j, NEW l, NEW i, NEW x,
               Has(Arr(m, s)', k, l, x), Has(Arr(n, s)', j, i, x)
        PROVE  m = n /\ l = i
    <3>1. CASE x = e
      <4>1. /\ m = w /\ n = w /\ s = r
            /\ l = Len(Arr(w, r)'[k].vals) /\ i = Len(Arr(w, r)'[j].vals)
        BY <2>5, <2>6, <3>1
      <4>2. k = j
        <5>1. k \in 1..Len(Arr(w, r)') /\ j \in 1..Len(Arr(w, r)')
          BY <2>6, <4>1 DEF Has
        <5>2. Arr(w, r)'[k].key = KeyOf(e) /\ Arr(w, r)'[j].key = KeyOf(e)
          BY <2>6, <3>1, <4>1, <2>7
        <5>3. PICK arr : arr = Arr(w, r)'
          OBVIOUS
        <5>4. PICK V : V = Seq(SUBSET Emissions')
          OBVIOUS
        <5>5. arr \in Seq([key : Int, vals : V]) /\ StrictlySorted(arr)
          BY <2>1, <2>3, <5>3, <5>4 DEF ArraysOK, Entries, Arr
        <5> QED BY <5>1, <5>2, <5>3, <5>5, OneKey
      <4> QED BY <4>1, <4>2
    <3>2. CASE x # e
      BY <2>5, <2>6, <3>2 DEF MapInv, StoredOnce
    <3> QED BY <3>1, <3>2
  <2> QED BY <2>3, <2>6 DEF StoredOnce
<1>4. ASSUME NEW w \in Threads, FinishMap(w), args' = args PROVE StoredOnce'
  <2>1. MapWorkers' = MapWorkers /\ ReduceTasks' = ReduceTasks
    BY <1>4, ArgsStay
  <2>2. CASE intermediate_vals' = intermediate_vals
    <3>1. \A m, r : Arr(m, r)' = Arr(m, r)
      BY <2>2 DEF Arr
    <3> QED BY <2>1, <3>1 DEF MapInv, StoredOnce
  <2>3. CASE intermediate_vals' # intermediate_vals
    <3>1. ASSUME NEW m \in MapWorkers, NEW s \in ReduceTasks, NEW k, NEW l, NEW x,
                 Has(Arr(m, s)', k, l, x)
          PROVE  \E i : Has(Arr(m, s), k, i, x) /\ IF m = w THEN l = 1 ELSE l = i
      <4>1. CASE m = w
        BY <1>4, <2>3, <3>1, <4>1, CombineChange
      <4>2. CASE m # w
        <5>1. Arr(m, s)' = Arr(m, s)
          BY <1>4, <2>3, <4>2, CombineChange
        <5> QED BY <3>1, <4>2, <5>1
      <4> QED BY <4>1, <4>2
    <3> QED BY <2>1, <3>1 DEF MapInv, StoredOnce
  <2> QED BY <2>2, <2>3
<1> QED BY <1>1, <1>2, <1>3, <1>4, ArrayChange

\* What changes the phase, and the tasks.
LEMMA TasksChange ==
    ASSUME [Next]_vars
    PROVE  \/ UNCHANGED <<args, phase, splitter_pos, tasks, num_map_threads>>
           \/ Split \/ StartMap \/ StartReduce
           \/ StartMerge \/ NextMergeRound \/ NextCall \/ map_reduce_finalize
           \/ \E w \in Threads : NextMapTask(w) \/ NextReduceTask(w)
BY Steps, ZenonT(60) DEF emit_intermediate, EndMapTask, FinishMap, Gather, Reduce, identity_reduce, FinishReduce,
     MergeStep, FinishMerge, jobVars, envVars, callerVars

\* The map tasks are apart and cover what the splitter has passed.
LEMMA SplitKeep ==
    ASSUME IInv, TInv, MapInv, [Next]_vars
    PROVE  SplitOK'
<1>1. CASE UNCHANGED <<args, phase, splitter_pos, tasks, num_map_threads>>
  BY <1>1 DEF MapInv, SplitOK
<1>2. CASE Split
  <2> DEFINE end == Min2(splitter_pos + args.chunk_size, Units)
             t == [first |-> splitter_pos + 1, last |-> end]
  <2>1. /\ phase = "split" /\ phase' = phase /\ splitter_pos < Units
        /\ tasks' = tasks \cup {t} /\ splitter_pos' = end
    BY <1>2 DEF Split
  <2>2. splitter_pos \in Nat /\ end \in Nat /\ splitter_pos < end
    BY <2>1, EmitsType, ArgsAssumption DEF IInv, TInv, TasksOK, Min2
  <2>3. \A s \in tasks : s.last <= splitter_pos /\ s.first \in 1..s.last /\ s.last \in Nat
    BY <2>1 DEF TInv, TasksOK, MapInv, SplitOK
  <2>4. t.first = splitter_pos + 1 /\ t.last = end
    OBVIOUS
  <2> HIDE DEF t, end
  <2>5. \A s \in tasks' : s.last <= end
    BY <2>1, <2>2, <2>3, <2>4
  <2>6. ASSUME NEW r \in tasks', NEW s \in tasks', NEW u \in Nat, Covers(r, u), Covers(s, u)
        PROVE  r = s
    <3>1. CASE r \in tasks /\ s \in tasks
      BY <2>1, <2>6, <3>1 DEF MapInv, SplitOK
    <3>2. \A q \in tasks : ~(Covers(q, u) /\ Covers(t, u))
      BY <2>2, <2>3, <2>4 DEF Covers
    <3> QED BY <2>1, <2>6, <3>1, <3>2
  <2>7. ASSUME NEW u \in 1..end PROVE \E s \in tasks' : Covers(s, u)
    <3>1. CASE u <= splitter_pos
      BY <2>1, <2>2, <3>1 DEF MapInv, SplitOK
    <3>2. CASE u > splitter_pos
      <4>1. Covers(t, u)
        BY <2>2, <2>4, <3>2 DEF Covers
      <4> QED BY <2>1, <4>1
    <3> QED BY <2>2, <3>1, <3>2
  <2> QED BY <2>1, <2>5, <2>6, <2>7 DEF SplitOK
<1>3. CASE StartMap
  BY <1>3 DEF StartMap, MapInv, SplitOK
<1>4. CASE StartReduce \/ StartMerge \/ NextMergeRound \/ map_reduce_finalize
  <2>1. phase' \notin {"split", "map"}
    BY <1>4 DEF StartReduce, StartMerge, NextMergeRound, map_reduce_finalize
  <2> QED BY <2>1 DEF SplitOK
<1>5. CASE NextCall
  <2>1. tasks' = {} /\ splitter_pos' = 0
    BY <1>5, NewArrays
  <2> QED BY <2>1 DEF SplitOK
<1>6. ASSUME NEW w \in Threads, NextMapTask(w) PROVE SplitOK'
  BY <1>6 DEF NextMapTask, MapInv, SplitOK
<1>7. ASSUME NEW w \in Threads, NextReduceTask(w) PROVE SplitOK'
  BY <1>7 DEF NextReduceTask, SplitOK
<1> QED BY <1>1, <1>2, <1>3, <1>4, <1>5, <1>6, <1>7, TasksChange

\* A worker leaves the phase only when it found no task, or was off before.
LEMMA PcChange ==
    ASSUME [Next]_vars, IInv, TInv, phase \in {"map", "reduce"}, UNCHANGED phase,
           NEW w \in Threads, w < WorkersNow, pc'[w] = "off"
    PROVE  pc[w] = "off" \/ tasks = {}
<1>1. pc \in [Threads -> Places]
  BY DEF IInv
<1>2. ASSUME NEW v \in Threads, NEW place, pc' = [pc EXCEPT ![v] = place], place # "off"
      PROVE  pc[w] = "off"
  BY <1>1, <1>2
<1>3. CASE pc' = pc
  BY <1>3
<1>4. ASSUME NEW v \in Threads, NextMapTask(v) \/ NextReduceTask(v) \/ EndMapTask(v) PROVE pc[w] = "off"
  BY <1>4, <1>2 DEF NextMapTask, NextReduceTask, EndMapTask, Goto
<1>5. ASSUME NEW v \in Threads, FinishMap(v) \/ FinishReduce(v) PROVE tasks = {}
  BY <1>5 DEF FinishMap, FinishReduce
<1>6. ASSUME NEW v \in Threads, Gather(v) PROVE pc[w] = "off"
  <2>1. PICK place : place = IF work[v].min # <<>> THEN "reduce" ELSE "gather"
    OBVIOUS
  <2>2. pc' = [pc EXCEPT ![v] = place] \/ pc' = [pc EXCEPT ![v] = "task"]
    BY <1>6, <2>1 DEF Gather
  <2> QED BY <1>2, <2>1, <2>2
<1>7. ASSUME NEW v \in Threads, NextKey(v) \/ pc' = [pc EXCEPT ![v] = "iterate"] PROVE pc[w] = "off"
  BY <1>7, <1>2 DEF NextKey
<1>8. ASSUME NEW v \in Threads, Reduce(v) \/ identity_reduce(v) PROVE pc[w] = "off"
  BY <1>7, <1>8 DEF Reduce, identity_reduce
<1>9. ASSUME NEW v \in Threads, FinishMerge(v) \/ MergeStep(v) PROVE FALSE
  BY <1>9 DEF FinishMerge, MergeStep, Goto, PlacesIn, TInv, PlacesOK
<1> QED BY <1>3, <1>4, <1>5, <1>6, <1>8, <1>9, Steps DEF Split, StartMap, StartReduce, StartMerge,
           NextMergeRound, NextCall, map_reduce_finalize, emit_intermediate, jobVars

\* A worker that is off has left no task.
LEMMA DrainedKeep ==
    ASSUME IInv, TInv, MapInv, [Next]_vars
    PROVE  Drained'
<1>1. CASE phase' \notin {"map", "reduce"}
  BY <1>1 DEF Drained
<1>2. CASE StartMap \/ StartReduce
  <2>1. ASSUME NEW w \in Threads, w < WorkersNow' PROVE pc'[w] # "off"
    BY <1>2, <2>1 DEF StartMap, StartReduce, Start, WorkersNow, envVars
  <2> QED BY <2>1 DEF Drained
<1>3. CASE phase \in {"map", "reduce"} /\ phase' = phase
  <2>1. ~StartMap /\ ~NextCall /\ ~NextMergeRound /\ ~StartReduce /\ ~StartMerge /\ ~map_reduce_finalize
    BY <1>3 DEF StartMap, NextCall, NextMergeRound, StartReduce, StartMerge, map_reduce_finalize
  <2>2. UNCHANGED <<args, num_map_threads>>
    BY <2>1, PhaseChange
  <2>3. WorkersNow' = WorkersNow
    BY <1>3, <2>2 DEF WorkersNow
  <2>4. tasks' \subseteq tasks
    <3>1. ~Split
      BY <1>3 DEF Split
    <3> QED BY <2>1, <3>1, TasksChange DEF NextMapTask, NextReduceTask
  <2> QED BY <1>3, <2>3, <2>4, PcChange DEF MapInv, Drained
<1>4. \/ phase' \notin {"map", "reduce"} \/ StartMap \/ StartReduce
      \/ phase \in {"map", "reduce"} /\ phase' = phase
  <2>1. CASE UNCHANGED phase
    BY <2>1
  <2>2. CASE StartMerge \/ NextMergeRound \/ NextCall \/ map_reduce_finalize
    BY <2>2 DEF StartMerge, NextMergeRound, NextCall, map_reduce_finalize
  <2> QED BY <2>1, <2>2, PhaseChange
<1> QED BY <1>1, <1>2, <1>3, <1>4

\* The list of a task has the emissions of its units, each once.
Lists(list, t) ==
    /\ \A i \in 1..Len(list) : list[i] \in Emissions /\ Covers(t, list[i][1])
    /\ \A e \in Emissions : Covers(t, e[1]) => \E i \in 1..Len(list) : list[i] = e
    /\ \A i, j \in 1..Len(list) : list[i] = list[j] => i = j

\* The list of a task holds each emission of its units once.
LEMMA TaskListed ==
    ASSUME args \in Args, NEW t, t.first \in 1..t.last, t.last \in 1..Units
    PROVE  Lists(FlattenSeq(TaskLists(t)), t)
<1> DEFINE n == t.last - t.first + 1
           seqs == TaskLists(t)
           list == FlattenSeq(seqs)
           u(i) == t.first + i - 1
<1>1. /\ seqs \in Seq(Seq(Emissions)) /\ Len(seqs) = n
      /\ \A i \in 1..n : /\ u(i) \in t.first..t.last /\ u(i) \in 1..Units
                         /\ Len(seqs[i]) = Len(args.emits[u(i)])
                         /\ \A k \in 1..Len(seqs[i]) : seqs[i][k] = <<u(i), k>>
  BY TaskElements
<1>2. t.first \in Nat /\ t.last \in Nat /\ Units \in Nat /\ n \in Nat
  BY EmitsType
<1>3. list \in Seq(Emissions) /\ \E at : Spread(list, seqs, Len(seqs), at)
  BY <1>1, FlattenElements
<1>4. PICK at : Spread(list, seqs, n, at)
  BY <1>1, <1>3
<1>5. /\ \A p \in 1..Len(list) : /\ at[p][1] \in 1..n
                                 /\ at[p][2] \in 1..Len(seqs[at[p][1]])
                                 /\ list[p] = seqs[at[p][1]][at[p][2]]
      /\ \A p, q \in 1..Len(list) : at[p][1] = at[q][1] /\ at[p][2] = at[q][2] => p = q
      /\ \A i \in 1..n : \A k \in 1..Len(seqs[i]) :
            \E p \in 1..Len(list) : at[p][1] = i /\ at[p][2] = k
  BY <1>4 DEF Spread
<1> HIDE DEF seqs, list
<1>6. ASSUME NEW p \in 1..Len(list)
      PROVE  /\ list[p] = <<u(at[p][1]), at[p][2]>> /\ at[p][1] \in 1..n
             /\ list[p][1] = u(at[p][1]) /\ list[p][2] = at[p][2]
             /\ u(at[p][1]) \in t.first..t.last
  <2>1. PICK i \in 1..n : i = at[p][1]
    BY <1>5
  <2>2. PICK k : k = at[p][2]
    OBVIOUS
  <2>3. k \in 1..Len(seqs[i]) /\ list[p] = seqs[i][k]
    BY <1>5, <2>1, <2>2
  <2>4. list[p] = <<u(i), k>> /\ u(i) \in t.first..t.last
    BY <1>1, <2>3
  <2> HIDE DEF u
  <2> QED BY <2>1, <2>2, <2>4
<1>7. ASSUME NEW p \in 1..Len(list) PROVE list[p] \in Emissions /\ Covers(t, list[p][1])
  <2>1. list[p] \in Emissions
    BY <1>3, ElementOfSeq
  <2> QED BY <1>2, <1>6, <2>1 DEF Covers
<1>8. ASSUME NEW p \in 1..Len(list), NEW q \in 1..Len(list), list[p] = list[q] PROVE p = q
  <2>1. u(at[p][1]) = u(at[q][1]) /\ at[p][2] = at[q][2]
    BY <1>6, <1>8, SMTT(60)
  <2>2. at[p][1] \in Int /\ at[q][1] \in Int
    BY <1>2, <1>6, SMTT(60)
  <2>3. at[p][1] = at[q][1]
    <3>1. PICK i \in Int, j \in Int : i = at[p][1] /\ j = at[q][1]
      BY <2>2
    <3>2. t.first + i - 1 = t.first + j - 1
      BY <2>1, <3>1
    <3>3. PICK a \in Nat : a = t.first
      BY <1>2
    <3>4. a + i - 1 = a + j - 1
      BY <3>2, <3>3
    <3>5. i = j
      BY <3>4
    <3> QED BY <3>1, <3>5
  <2> QED BY <1>5, <2>1, <2>3
<1>9. ASSUME NEW e \in Emissions, Covers(t, e[1]) PROVE \E i \in 1..Len(list) : list[i] = e
  <2>1. /\ e[1] \in 1..Units /\ e[2] \in 1..Len(args.emits[e[1]]) /\ e = <<e[1], e[2]>>
    BY EmissionType
  <2> DEFINE i == e[1] - t.first + 1
  <2>2. i \in 1..n /\ u(i) = e[1]
    BY <1>2, <1>9, <2>1 DEF Covers
  <2> HIDE DEF i
  <2>3. e[2] \in 1..Len(seqs[i])
    BY <1>1, <2>1, <2>2
  <2>4. PICK p \in 1..Len(list) : at[p][1] = i /\ at[p][2] = e[2]
    BY <1>5, <2>2, <2>3
  <2> QED BY <1>6, <2>1, <2>2, <2>4
<1> QED BY <1>7, <1>8, <1>9 DEF Lists, list, seqs

\* When the map phase starts every emission is in a task and none elsewhere.
LEMMA OnceStart ==
    ASSUME IInv, TInv, MapInv, StartMap
    PROVE  MapOnce'
<1>1. /\ phase = "split" /\ phase' = "map" /\ splitter_pos = Units
      /\ UNCHANGED <<args, tasks, todo, intermediate_vals>>
  BY DEF StartMap
<1>2. Emissions' = Emissions
  BY <1>1, ArgsStay
<1>3. \A x : ~Stored(x)'
  <2>1. \A x : ~Stored(x)
    BY <1>1, NoneIn DEF Stored, MapInv, Keyed
  <2> QED BY <1>1, <2>1, StoredStay
<1>4. \A w \in Threads : \A i, e : ~Hand(w, i, e)'
  BY <1>1 DEF TInv, PlacesOK, PlacesIn, Hand
<1>5. \A e \in Emissions : \E t \in tasks' : Covers(t, e[1])
  BY <1>1, EmissionType DEF IInv, MapInv, SplitOK
<1> QED BY <1>1, <1>2, <1>3, <1>4, <1>5 DEF MapOnce

\* Taking a task moves its emissions to the worker's hand.
LEMMA OnceTask ==
    ASSUME IInv, TInv, MapInv, NEW w \in Threads, NextMapTask(w)
    PROVE  MapOnce'
<1>1. phase = "map" /\ phase' = "map" /\ UNCHANGED <<args, intermediate_vals>>
  BY DEF NextMapTask, envVars
<1>2. PICK t \in tasks : /\ t.first \in 1..t.last /\ t.last \in 1..Units
                         /\ tasks' = tasks \ {t}
                         /\ todo' = [todo EXCEPT ![w] = FlattenSeq(TaskLists(t))]
  BY TakeTask
<1>3. todo[w] = <<>>
  BY TakeTask
<1>4. PICK list : list = FlattenSeq(TaskLists(t))
  OBVIOUS
<1>5. Lists(list, t)
  BY <1>2, <1>4, TaskListed DEF IInv
<1>6. todo'[w] = list /\ \A v \in Threads : v # w => todo'[v] = todo[v]
  BY <1>2, <1>4 DEF TInv, TodoOK
<1>7. \A v \in Threads : \A i, e : Hand(v, i, e)' <=>
         IF v = w THEN i \in 1..Len(list) /\ list[i] = e ELSE Hand(v, i, e)
  BY <1>6 DEF Hand
<1>8. Emissions' = Emissions /\ \A x : Stored(x)' <=> Stored(x)
  BY <1>1, ArgsStay, StoredStay
<1>9. \A i, e : ~Hand(w, i, e)
  <2>1. Len(<<>>) = 0
    OBVIOUS
  <2> QED BY <1>3, <2>1 DEF Hand
<1>10. ASSUME NEW e \in Emissions
       PROVE  /\ \/ \E s \in tasks' : Covers(s, e[1])
                 \/ \E v \in Threads : \E i : Hand(v, i, e)'
                 \/ Stored(e)
              /\ \A s \in tasks' : Covers(s, e[1]) =>
                    ~Stored(e) /\ \A v \in Threads : \A i : ~Hand(v, i, e)'
              /\ \A v \in Threads : \A i : Hand(v, i, e)' =>
                    ~Stored(e) /\ \A x \in Threads : \A j : Hand(x, j, e)' => x = v /\ j = i
  <2>1. /\ \/ \E s \in tasks : Covers(s, e[1])
           \/ \E v \in Threads : \E i : Hand(v, i, e)
           \/ Stored(e)
        /\ \A s \in tasks : Covers(s, e[1]) =>
              ~Stored(e) /\ \A v \in Threads : \A i : ~Hand(v, i, e)
        /\ \A v \in Threads : \A i : Hand(v, i, e) =>
              ~Stored(e) /\ \A x \in Threads : \A j : Hand(x, j, e) => x = v /\ j = i
    BY <1>1 DEF MapInv, MapOnce
  <2>2. (\E i \in 1..Len(list) : list[i] = e) <=> Covers(t, e[1])
    BY <1>5 DEF Lists
  <2>3. \A i, j \in 1..Len(list) : list[i] = e /\ list[j] = e => i = j
    BY <1>5 DEF Lists
  <2>4. \A s \in tasks : Covers(s, e[1]) /\ Covers(t, e[1]) => s = t
    <3>1. e[1] \in Nat
      BY EmissionType, EmitsType DEF IInv
    <3> QED BY <1>1, <3>1 DEF MapInv, SplitOK
  <2>5. CASE Covers(t, e[1])
    <3>1. PICK i \in 1..Len(list) : list[i] = e
      BY <2>2, <2>5
    <3>2. Hand(w, i, e)'
      BY <1>7, <3>1
    <3>3. \A s \in tasks' : ~Covers(s, e[1])
      BY <1>2, <2>4, <2>5
    <3>4. ~Stored(e) /\ \A v \in Threads : \A j : ~Hand(v, j, e)
      BY <2>1, <2>5
    <3>5. \A v \in Threads : \A j : Hand(v, j, e)' => v = w /\ j = i
      BY <1>7, <2>3, <3>1, <3>4
    <3> QED BY <3>2, <3>3, <3>4, <3>5
  <2>6. CASE ~Covers(t, e[1])
    <3>1. \A v \in Threads : \A j : Hand(v, j, e)' <=> Hand(v, j, e)
      BY <1>7, <1>9, <2>2, <2>6
    <3>2. (\E s \in tasks : Covers(s, e[1])) <=> \E s \in tasks' : Covers(s, e[1])
      BY <1>2, <2>6
    <3>3. \A s \in tasks' : s \in tasks
      BY <1>2
    <3> QED BY <2>1, <3>1, <3>2, <3>3
  <2> QED BY <2>5, <2>6
<1> QED BY <1>1, <1>8, <1>10 DEF MapOnce

\* Emitting moves one from the worker's hand into its array.
LEMMA OnceEmit ==
    ASSUME IInv, TInv, MapInv, NEW w \in Threads, emit_intermediate(w)
    PROVE  MapOnce'
<1>1. /\ phase = "map" /\ phase' = "map" /\ args' = args /\ tasks' = tasks
      /\ todo' = [todo EXCEPT ![w] = Tail(todo[w])]
  BY EmitChange DEF emit_intermediate, envVars, callerVars
<1>2. PICK e \in Emissions : Len(todo[w]) \in Nat \ {0} /\ e = todo[w][1]
  BY EmitChange
<1>3. \A x : Stored(x)' <=> Stored(x) \/ x = e
  BY <1>2, StoredEmit
<1>4. Emissions' = Emissions
  BY <1>1, ArgsStay
<1>5. todo \in [Threads -> Seq(Emissions)] /\ todo[w] \in Seq(Emissions)
  BY DEF TInv, TodoOK
<1>6. todo'[w] = Tail(todo[w]) /\ \A v \in Threads : v # w => todo'[v] = todo[v]
  BY <1>1, <1>5
<1>7. /\ Len(Tail(todo[w])) = Len(todo[w]) - 1
      /\ \A i \in 1..(Len(todo[w]) - 1) : Tail(todo[w])[i] = todo[w][i + 1]
  <2>1. todo[w] # <<>>
    <3>1. Len(<<>>) = 0
      OBVIOUS
    <3> QED BY <1>2, <3>1
  <2> QED BY <1>5, <2>1, HeadTailProperties
<1>8. Hand(w, 1, e)
  BY <1>2 DEF Hand
<1>9. \A x : \A i \in Nat : Hand(w, i, x)' <=> i \in 1..(Len(todo[w]) - 1) /\ Hand(w, i + 1, x)
  <2>1. ASSUME NEW i \in Nat, NEW x
        PROVE  Hand(w, i, x)' <=> i \in 1..(Len(todo[w]) - 1) /\ Hand(w, i + 1, x)
    BY <1>6, <1>2, <1>7 DEF Hand
  <2> QED BY <2>1
<1>10. \A v \in Threads : \A i, x : Hand(v, i, x)' => i \in Nat
  BY <1>2, <1>5, <1>6, <1>7 DEF Hand
<1>11. \A v \in Threads : v # w => \A i, x : Hand(v, i, x)' <=> Hand(v, i, x)
  BY <1>6 DEF Hand
<1>12. ASSUME NEW x \in Emissions
       PROVE  /\ \/ \E s \in tasks : Covers(s, x[1])
                 \/ \E v \in Threads : \E i : Hand(v, i, x)'
                 \/ Stored(x)'
              /\ \A s \in tasks : Covers(s, x[1]) =>
                    ~Stored(x)' /\ \A v \in Threads : \A i : ~Hand(v, i, x)'
              /\ \A v \in Threads : \A i : Hand(v, i, x)' =>
                    ~Stored(x)' /\ \A z \in Threads : \A j : Hand(z, j, x)' => z = v /\ j = i
  <2>1. /\ \/ \E s \in tasks : Covers(s, x[1])
           \/ \E v \in Threads : \E i : Hand(v, i, x)
           \/ Stored(x)
        /\ \A s \in tasks : Covers(s, x[1]) =>
              ~Stored(x) /\ \A v \in Threads : \A i : ~Hand(v, i, x)
        /\ \A v \in Threads : \A i : Hand(v, i, x) =>
              ~Stored(x) /\ \A z \in Threads : \A j : Hand(z, j, x) => z = v /\ j = i
    BY <1>1 DEF MapInv, MapOnce
  <2>2. CASE x = e
    <3>1. \A s \in tasks : ~Covers(s, x[1])
      BY <1>8, <2>1, <2>2
    <3>2. \A v \in Threads : \A i : Hand(v, i, e) => v = w /\ i = 1
      BY <1>8, <2>1, <2>2
    <3>3. \A v \in Threads : \A i : ~Hand(v, i, e)'
      <4> SUFFICES ASSUME NEW v \in Threads, NEW i, Hand(v, i, e)' PROVE FALSE
        OBVIOUS
      <4>1. v = w
        BY <1>11, <3>2
      <4>2. i \in Nat
        BY <1>10
      <4>3. i \in 1..(Len(todo[w]) - 1) /\ Hand(w, i + 1, e)
        BY <1>9, <4>1, <4>2
      <4>4. i + 1 = 1
        BY <3>2, <4>3
      <4>5. i >= 1
        BY <1>2, <4>3
      <4> QED BY <4>2, <4>4, <4>5
    <3> QED BY <1>3, <2>2, <3>1, <3>3
  <2>3. CASE x # e
    <3>1. Stored(x)' <=> Stored(x)
      BY <1>3, <2>3
    <3>2. \A i : Hand(w, i, x)' => i \in Nat /\ Hand(w, i + 1, x)
      BY <1>9, <1>10
    <3>3. ASSUME NEW i, Hand(w, i, x) PROVE \E j : Hand(w, j, x)'
      <4>1. i \in 1..Len(todo[w]) /\ i # 1
        BY <1>2, <2>3, <3>3 DEF Hand
      <4>2. i - 1 \in Nat /\ i - 1 \in 1..(Len(todo[w]) - 1) /\ (i - 1) + 1 = i
        BY <1>2, <4>1
      <4> QED BY <1>9, <3>3, <4>2
    <3>4. \A v \in Threads : \A i : Hand(v, i, x)' => \E j : Hand(v, j, x)
      BY <1>11, <3>2
    <3>5. \A v \in Threads : \A i, j : Hand(v, i, x)' /\ Hand(v, j, x)' => i = j
      <4> SUFFICES ASSUME NEW v \in Threads, NEW i, NEW j, Hand(v, i, x)', Hand(v, j, x)'
                   PROVE  i = j
        OBVIOUS
      <4>1. CASE v = w
        BY <3>2, <4>1, <2>1
      <4>2. CASE v # w
        BY <1>11, <2>1, <4>2
      <4> QED BY <4>1, <4>2
    <3>6. (\E v \in Threads : \E i : Hand(v, i, x)) => \E v \in Threads : \E i : Hand(v, i, x)'
      BY <1>11, <3>3
    <3>7. \A v \in Threads : \A i : Hand(v, i, x)' =>
             ~Stored(x) /\ \A z \in Threads : \A j : Hand(z, j, x)' => z = v /\ j = i
      BY <2>1, <3>4, <3>5
    <3> QED BY <2>1, <3>1, <3>4, <3>6, <3>7
  <2> QED BY <2>2, <2>3
<1> QED BY <1>1, <1>4, <1>12 DEF MapOnce

\* Where a value is stored tells its key, and the key its array.
LEMMA StoredPlace ==
    ASSUME Keyed, NEW m \in MapWorkers, NEW r \in ReduceTasks, NEW k, NEW l, NEW e,
           Has(Arr(m, r), k, l, e)
    PROVE  /\ k \in 1..Len(Arr(m, r)) /\ Arr(m, r)[k].key = KeyOf(e) /\ Row(KeyOf(e)) = r
           /\ phase # "split" => m \in MapThreads
BY NoneIn DEF Has, Keyed

\* The first worker is among those of every phase.
LEMMA FirstWorker ==
    ASSUME IInv, TInv
    PROVE  0 \in Threads /\ (phase \in {"map", "reduce", "merge"} => 0 < WorkersNow)
BY MaxThreadsAssumption, ArgsAssumption DEF Threads, IInv, TInv, NumbersOK, WorkersNow

\* When every worker is off no task is left.
LEMMA AllDrained ==
    ASSUME IInv, TInv, Drained, AllOff, phase \in {"map", "reduce"}
    PROVE  tasks = {}
BY FirstWorker DEF Drained, AllOff

\* Every emission is in a task, in a worker's hand or stored, in one of the three only,
\* and all are stored when the map phase is over.
LEMMA MapOnceKeep ==
    ASSUME IInv, TInv, MapInv, [Next]_vars
    PROVE  MapOnce'
<1>1. CASE phase' = "split"
  BY <1>1 DEF MapOnce
<1>2. CASE phase' = "map"
  <2>1. CASE StartMap
    BY <2>1, OnceStart
  <2>2. CASE phase = "map" /\ ~StartMap
    <3>1. ASSUME NEW w \in Threads, NextMapTask(w) PROVE MapOnce'
      BY <3>1, OnceTask
    <3>2. ASSUME NEW w \in Threads, emit_intermediate(w) PROVE MapOnce'
      BY <3>2, OnceEmit
    <3>3. ASSUME NEW w \in Threads, FinishMap(w) PROVE MapOnce'
      <4>1. UNCHANGED <<args, todo, tasks, phase>>
        BY <3>3 DEF FinishMap, envVars, callerVars
      <4>2. Emissions' = Emissions /\ (\A x : Stored(x)' <=> Stored(x))
        BY <3>3, <4>1, ArgsStay, StoredCombine
      <4>3. \A v, i, x : Hand(v, i, x)' <=> Hand(v, i, x)
        BY <4>1 DEF Hand
      <4> QED BY <1>2, <2>2, <4>1, <4>2, <4>3 DEF MapInv, MapOnce
    <3>4. CASE UNCHANGED <<args, todo, tasks, phase, intermediate_vals>>
      BY <3>4, <1>2, <2>2, ArgsStay, StoredStay DEF Hand, MapInv, MapOnce
    <3>5. \/ UNCHANGED <<args, todo, tasks, phase, intermediate_vals>>
          \/ \E w \in Threads : NextMapTask(w) \/ emit_intermediate(w) \/ FinishMap(w)
      <4>1. ~Split /\ ~StartReduce /\ ~StartMerge /\ ~NextMergeRound /\ ~NextCall /\ ~map_reduce_finalize
        BY <1>2, <2>2 DEF Split, StartReduce, StartMerge, NextMergeRound, NextCall, map_reduce_finalize
      <4>2. \A w \in Threads : ~NextReduceTask(w)
        BY <2>2 DEF NextReduceTask
      <4> QED BY <2>2, <4>1, <4>2, TasksChange, ArrayChange, TodoChange
    <3> QED BY <3>1, <3>2, <3>3, <3>4, <3>5
  <2>3. phase = "map" \/ StartMap
    BY <1>2, PhaseChange DEF StartReduce, StartMerge, NextMergeRound, NextCall, map_reduce_finalize
  <2>4. phase = "map" => ~StartMap
    BY DEF StartMap
  <2> QED BY <2>1, <2>2, <2>3, <2>4
<1>3. CASE phase' \notin {"split", "map"}
  <2>1. UNCHANGED <<args, intermediate_vals>> /\ Emissions' = Emissions
    <3>1. \A w \in Threads : ~emit_intermediate(w) /\ ~FinishMap(w)
      BY <1>3, EmitChange DEF emit_intermediate, callerVars, FinishMap
    <3>2. ~NextCall
      BY <1>3 DEF NextCall
    <3>3. UNCHANGED <<args, intermediate_vals>>
      BY <3>1, <3>2, ArrayChange
    <3> QED BY <3>3, ArgsStay
  <2>2. \A x : Stored(x)' <=> Stored(x)
    BY <2>1, StoredStay
  <2>3. CASE phase \notin {"split", "map"}
    BY <1>3, <2>1, <2>2, <2>3 DEF MapInv, MapOnce
  <2>4. CASE StartReduce
    <3>1. phase = "map" /\ AllOff
      BY <2>4 DEF StartReduce
    <3>2. tasks = {}
      BY <3>1, AllDrained DEF MapInv
    <3>3. \A w \in Threads : \A i, e : ~Hand(w, i, e)
      BY <3>1 DEF TInv, PlacesOK, AllOff, Hand
    <3>4. \A e \in Emissions : Stored(e)
      BY <3>1, <3>2, <3>3 DEF MapInv, MapOnce
    <3> QED BY <1>3, <2>1, <2>2, <3>4 DEF MapOnce
  <2>5. phase \notin {"split", "map"} \/ StartReduce
    BY <1>3, PhaseChange DEF StartMap, StartMerge, NextMergeRound, NextCall, map_reduce_finalize
  <2> QED BY <2>3, <2>4, <2>5
<1> QED BY <1>1, <1>2, <1>3

\* The map layer holds initially.
LEMMA MapInit ==
    ASSUME Init
    PROVE  MapInv
<1>1. /\ phase = "split" /\ splitter_pos = 0 /\ tasks = {}
      /\ intermediate_vals = NoVals(args, <<>>)
  BY DEF Init
<1>2. NoVals(args, <<>>) = [m \in MapWorkers |-> [r \in ReduceTasks |-> <<>>]]
  BY DEF NoVals, MapWorkers, ReduceTasks
<1>3. \A m \in MapWorkers, r \in ReduceTasks : Arr(m, r) = <<>>
  BY <1>1, <1>2 DEF Arr
<1>4. Len(<<>>) = 0
  OBVIOUS
<1>5. Keyed /\ StoredOnce
  BY <1>3, <1>4, NoneIn DEF Keyed, StoredOnce
<1>6. SplitOK /\ MapOnce /\ Drained
  BY <1>1 DEF SplitOK, MapOnce, Drained
<1> QED BY <1>5, <1>6 DEF MapInv

\* Every step keeps the map layer.
LEMMA MapKeep ==
    ASSUME IInv, TInv, MapInv, [Next]_vars, TInv'
    PROVE  MapInv'
BY KeyedKeep, OnceKeep, SplitKeep, MapOnceKeep, DrainedKeep DEF MapInv, TInv

\* The second layer of the invariant: where each emission of the map phase is.
LEMMA MapInvariant == Spec => [](IInv /\ TInv /\ MapInv)
<1>1. Init => MapInv
  BY MapInit
<1>2. IInv /\ TInv /\ MapInv /\ [Next]_vars /\ TInv' => MapInv'
  BY MapKeep
<1>3. Spec => [](IInv /\ TInv)
  BY TypeInvariant
<1> QED BY <1>1, <1>2, <1>3, PTL DEF Spec

---------------
(* What the reduce workers have gathered and emitted. *)

\* What a worker has of its task: the keys left in the arrays are behind its own.
Progress(w) ==
    /\ Held(w) /\ work[w].min # <<>> => /\ work[w].min[1] \in DOMAIN args.partition
                                        /\ Row(work[w].min[1]) = work[w].task
    /\ pc[w] = "gather" /\ work[w].min # <<>> =>
          \A m \in MapThreads : \A k \in 1..Len(Arr(m, work[w].task)) :
              pos[m][work[w].task] < k => work[w].min[1] <= Arr(m, work[w].task)[k].key
    /\ pc[w] \in {"reduce", "iterate"} =>
          /\ \A m \in MapThreads : \A k \in 1..Len(Arr(m, work[w].task)) :
                pos[m][work[w].task] < k => /\ work[w].min[1] < Arr(m, work[w].task)[k].key
                                            /\ work[w].next # <<>>
                                            /\ work[w].next[1] <= Arr(m, work[w].task)[k].key
          /\ \A k, l, e : Has(work[w].itr, k, l, e) => KeyOf(e) = work[w].min[1]
          /\ \A k, l, j, i, e : Has(work[w].itr, k, l, e) /\ Has(work[w].itr, j, i, e)
                                   => k = j /\ l = i
    /\ pc[w] = "reduce" => Len(work[w].itr) <= num_map_threads
    /\ pc[w] = "iterate" => args.identity_reduce

\* No array has the key left, and no worker will emit it again.
Past(key) ==
    /\ \A m \in MapThreads : \A k \in 1..Len(Arr(m, Row(key))) :
          pos[m][Row(key)] < k => key < Arr(m, Row(key))[k].key
    /\ \A w \in Threads : work[w].task = Row(key) =>
          /\ pc[w] = "reduce" => key < work[w].min[1]
          /\ pc[w] = "iterate" => key <= work[w].min[1]

Entry(q, j) == q \in Queues(args) /\ j \in 1..Len(final_vals[q])
Key(q, j)   == final_vals[q][j].key
Val(q, j)   == final_vals[q][j].val

\* What is emitted is under its key, and of keys that are past.
Emitted ==
    \A q, j : Entry(q, j) =>
        /\ Key(q, j) \in DOMAIN args.partition
        /\ args.use_one_queue_per_task => q = 1 + Row(Key(q, j))
        /\ \A e \in Val(q, j) : KeyOf(e) = Key(q, j)
        /\ phase = "reduce" => Past(Key(q, j))

FinalApart ==
    /\ \A q \in Queues(args) : Sorted(final_vals[q])
    /\ \A q, j, p, i : Entry(q, j) /\ Entry(p, i) =>
          /\ \A e : e \in Val(q, j) /\ e \in Val(p, i) => q = p /\ j = i
          /\ ~args.identity_reduce /\ Key(q, j) = Key(p, i) => q = p /\ j = i
    /\ \A q, j : Entry(q, j) =>
          \A e \in Val(q, j) : \A w \in Threads : \A k, l : ~Has(work[w].itr, k, l, e)
    /\ phase \in {"split", "map"} => \A q \in Queues(args) : final_vals[q] = <<>>

\* Emission e is in the arrays still, in an iterator, or emitted.
Ahead(e)   == \E m \in MapWorkers, r \in ReduceTasks : \E k, l :
                 Has(Arr(m, r), k, l, e) /\ pos[m][r] < k
InItr(e)   == \E w \in Threads : \E k, l : Has(work[w].itr, k, l, e)
InFinal(e) == \E q, j : Entry(q, j) /\ e \in Val(q, j)
Somewhere  == phase = "reduce" => \A e \in Emissions : Ahead(e) \/ InItr(e) \/ InFinal(e)

\* A task that no worker has and that is not in the queue is done.
AllRead ==
    phase = "reduce" =>
        \A t \in 0..(ReduceTasksQueued - 1) :
            \/ t \in tasks
            \/ \E w \in Threads : Held(w) /\ work[w].task = t
            \/ \A m \in MapThreads : ~Unread(m, t)

ReduceInv == (\A w \in Threads : Progress(w)) /\ Emitted /\ FinalApart /\ Somewhere /\ AllRead

\* A call of emit that takes the emissions of val out of the iterator, ...
Hands(w, val) ==
    /\ \A e \in val : \E k, l : Has(work[w].itr, k, l, e)
    /\ \A k, l, e : Has(work[w].itr, k, l, e) =>
          e \in val \/ \E j, i : Has(work'[w].itr, j, i, e)
    /\ \A k, l, e : Has(work'[w].itr, k, l, e) =>
          e \notin val /\ \E j, i : Has(work[w].itr, j, i, e)
    /\ \A k, l, j, i, e : Has(work'[w].itr, k, l, e) /\ Has(work'[w].itr, j, i, e)
                             => k = j /\ l = i
\* ... puts them into the array of results, ...
Puts(w, val, p) ==
    /\ final_vals' \in [Queues(args) -> Seq(Results)]
    /\ \A q \in Queues(args) : q # Queue(w) => final_vals'[q] = final_vals[q]
    /\ PutIn(final_vals'[Queue(w)], final_vals[Queue(w)], p,
             [key |-> work[w].min[1], val |-> val])
    /\ Sorted(final_vals[Queue(w)])
          /\ (args.use_one_queue_per_task =>
                 \A k \in 1..Len(final_vals[Queue(w)]) : Key(Queue(w), k) <= work[w].min[1])
       => Sorted(final_vals'[Queue(w)])
\* ... and goes on.
Moves(w) ==
    /\ \A v \in Threads : v # w => work'[v] = work[v] /\ pc'[v] = pc[v]
    /\ work'[w].task = work[w].task
    /\ \/ /\ pc'[w] = "iterate" /\ work'[w].min = work[w].min /\ work'[w].next = work[w].next
          /\ args.identity_reduce
       \/ /\ pc'[w] = IF work[w].next # <<>> THEN "gather" ELSE "task"
          /\ work'[w].min = work[w].next /\ work'[w].next = <<>> /\ work'[w].itr = <<>>

EmitsResult(w, val) ==
    /\ phase = "reduce" /\ pc[w] \in {"reduce", "iterate"}
    /\ ~args.identity_reduce => pc[w] = "reduce"
    /\ Queue(w) \in Queues(args)
    /\ UNCHANGED <<args, num_map_threads, phase, tasks, pos, intermediate_vals>>
    /\ val \in SUBSET Emissions
    /\ Hands(w, val) /\ Moves(w) /\ \E p : Puts(w, val, p)

\* A place in the values is a place in the iterator.
LEMMA ValuesPlaces ==
    ASSUME NEW itr, NEW vals, NEW at, Listed(vals, itr, at)
    PROVE  /\ \A k, l, e : Has(itr, k, l, e) =>
                 \E p \in 1..Len(vals) : e \in vals[p] /\ at[p][1] = k /\ at[p][2] = l
           /\ \A p \in 1..Len(vals) : \A e \in vals[p] : Has(itr, at[p][1], at[p][2], e)
BY SMTT(60) DEF Listed, Has

\* emit puts the record at a place that keeps the array of results in order.
LEMMA FinalPut ==
    ASSUME IInv, TInv, NEW w \in Threads, pc[w] \in {"reduce", "iterate"},
           NEW val \in SUBSET Emissions, emit(w, val)
    PROVE  \E p : Puts(w, val, p)
<1> DEFINE q == Queue(w)
           key == work[w].min[1]
           one == args.use_one_queue_per_task
           new == insert_keyval(final_vals[q], key, val, one)
           arr == final_vals[q]
           V == SUBSET Emissions
           rec == [key |-> key, val |-> val]
<1>1. /\ final_vals' = [final_vals EXCEPT ![q] = new]
      /\ final_vals' \in [Queues(args) -> Seq(Results)] /\ new \in Seq(Results)
  BY EmitFinal
<1>2. q \in Queues(args) /\ key \in Int /\ one \in BOOLEAN
  BY ReducePlace
<1>3. final_vals \in [Queues(args) -> Seq(Results)]
  BY DEF TInv, FinalOK
<1>4. final_vals'[q] = new /\ \A r \in Queues(args) : r # q => final_vals'[r] = final_vals[r]
  BY <1>1, <1>2, <1>3
<1>5. arr \in Seq([key : Int, val : V]) /\ val \in V
  BY <1>2, <1>3 DEF Results
<1>6. new = insert_keyval(arr, key, val, one)
  OBVIOUS
<1> HIDE DEF q, key, one, new, arr, V, rec
<1>7. ASSUME Sorted(arr), one => \A k \in 1..Len(arr) : arr[k].key <= key
      PROVE  Sorted(new) /\ \E p : PutIn(new, arr, p, [key |-> key, val |-> val])
  BY <1>2, <1>5, <1>7, <1>6, InsertSorted DEF Inserted
<1>8. \E p : PutIn(new, arr, p, [key |-> key, val |-> val])
  BY <1>2, <1>5, <1>6, InsertType
<1> QED BY <1>1, <1>4, <1>7, <1>8 DEF Puts, Key, q, key, one, arr, rec

\* NextKey gives the worker the next key, if there is one, and no values.
LEMMA NextKeyMoves ==
    ASSUME IInv, TInv, NEW w \in Threads, NextKey(w)
    PROVE  Moves(w) /\ work'[w].itr = <<>>
<1>1. pc \in [Threads -> Places] /\ work \in [Threads -> Works] /\ work[w] \in Works
  BY DEF IInv, TInv, WorkOK
<1> DEFINE rec == [work[w] EXCEPT !.min = work[w].next, !.next = <<>>, !.itr = <<>>]
           place == IF work[w].next # <<>> THEN "gather" ELSE "task"
<1>2. work' = [work EXCEPT ![w] = rec] /\ pc' = [pc EXCEPT ![w] = place]
  BY DEF NextKey
<1>3. rec.task = work[w].task /\ rec.min = work[w].next /\ rec.next = <<>> /\ rec.itr = <<>>
  BY <1>1 DEF Works
<1> HIDE DEF rec
<1>4. work'[w] = rec /\ pc'[w] = place
  BY <1>1, <1>2
<1>5. \A v \in Threads : v # w => work'[v] = work[v] /\ pc'[v] = pc[v]
  BY <1>1, <1>2
<1> QED BY <1>3, <1>4, <1>5 DEF Moves

\* What both kinds of calls change.
LEMMA ResultFrame ==
    ASSUME IInv, TInv, NEW w \in Threads, Reduce(w) \/ identity_reduce(w)
    PROVE  /\ phase = "reduce" /\ pc[w] \in {"reduce", "iterate"} /\ Queue(w) \in Queues(args)
           /\ UNCHANGED <<args, num_map_threads, phase, tasks, pos, intermediate_vals>>
BY ReducePlace DEF Reduce, identity_reduce, envVars, callerVars

\* Reduce hands on all the values of its key at once.
LEMMA ReduceEmits ==
    ASSUME IInv, TInv, NEW w \in Threads, Progress(w), Reduce(w)
    PROVE  \E val : EmitsResult(w, val)
<1>1. PICK val : val = UNION ToSet(ValuesOf(w))
  OBVIOUS
<1>2. val \in SUBSET Emissions /\ emit(w, val) /\ NextKey(w) /\ pc[w] = "reduce"
  BY <1>1, ReduceEffect
<1>3. PICK vals \in Seq(SUBSET Emissions) : vals = ValuesOf(w)
  BY <1>2, ReducePlace
<1>4. work[w].itr \in Seq(Entries)
  BY <1>2, ReducePlace
<1>5. PICK at : Listed(vals, work[w].itr, at)
  BY <1>3, <1>4, ValuesElements
<1>6. /\ \A k, l, e : Has(work[w].itr, k, l, e) =>
            \E p \in 1..Len(vals) : e \in vals[p] /\ at[p][1] = k /\ at[p][2] = l
      /\ \A p \in 1..Len(vals) : \A e \in vals[p] : Has(work[w].itr, at[p][1], at[p][2], e)
  BY <1>5, ValuesPlaces
<1>7. \A e : e \in val <=> \E p \in 1..Len(vals) : e \in vals[p]
  BY <1>1, <1>3 DEF ToSet
<1>8. Moves(w) /\ work'[w].itr = <<>>
  BY <1>2, NextKeyMoves
<1>9. Hands(w, val)
  BY <1>6, <1>7, <1>8, NoneIn DEF Hands
<1>10. \E p : Puts(w, val, p)
  BY <1>2, FinalPut
<1> QED BY <1>2, <1>8, <1>9, <1>10, ResultFrame DEF EmitsResult

\* The identity reducer hands on the first value.
LEMMA IdentityEmits ==
    ASSUME IInv, TInv, NEW w \in Threads, Progress(w), identity_reduce(w)
    PROVE  \E val : EmitsResult(w, val)
<1>1. /\ pc[w] \in {"reduce", "iterate"} /\ args.identity_reduce
  BY DEF identity_reduce, Progress
<1>2. PICK vals \in Seq(SUBSET Emissions) : vals = ValuesOf(w) /\ vals # <<>>
  BY <1>1, ReducePlace
<1>3. PICK val : val = vals[1]
  OBVIOUS
<1>4. /\ val \in SUBSET Emissions /\ emit(w, val)
      /\ \/ Len(vals) = 1 /\ NextKey(w)
         \/ LET list == [key |-> work[w].min[1], vals |-> Tail(vals)]
            IN  /\ list \in Entries
                /\ work' = [work EXCEPT ![w] = [@ EXCEPT !.itr = <<list>>]]
                /\ pc' = [pc EXCEPT ![w] = "iterate"]
  BY <1>2, <1>3, IdentityEffect
<1>5. work[w].itr \in Seq(Entries)
  BY <1>1, ReducePlace
<1>6. PICK at : Listed(vals, work[w].itr, at)
  BY <1>2, <1>5, ValuesElements
<1>7. /\ \A k, l, e : Has(work[w].itr, k, l, e) =>
            \E p \in 1..Len(vals) : e \in vals[p] /\ at[p][1] = k /\ at[p][2] = l
      /\ \A p \in 1..Len(vals) : \A e \in vals[p] : Has(work[w].itr, at[p][1], at[p][2], e)
  BY <1>6, ValuesPlaces
<1>8. Len(vals) \in Nat \ {0} /\ 1 \in 1..Len(vals)
  BY <1>2
<1>9. \A p, q \in 1..Len(vals) : \A e : e \in vals[p] /\ e \in vals[q] => p = q
  <2> SUFFICES ASSUME NEW p \in 1..Len(vals), NEW q \in 1..Len(vals), NEW e,
                      e \in vals[p], e \in vals[q]
               PROVE  p = q
    OBVIOUS
  <2>1. Has(work[w].itr, at[p][1], at[p][2], e) /\ Has(work[w].itr, at[q][1], at[q][2], e)
    BY <1>7
  <2>2. at[p][1] = at[q][1] /\ at[p][2] = at[q][2]
    BY <1>1, <2>1 DEF Progress
  <2> QED BY <1>6, <2>2 DEF Listed
<1>10. \E p : Puts(w, val, p)
  BY <1>1, <1>4, FinalPut
<1>11. CASE Len(vals) = 1 /\ NextKey(w)
  <2>1. Moves(w) /\ work'[w].itr = <<>>
    BY <1>11, NextKeyMoves
  <2>2. \A p \in 1..Len(vals) : p = 1
    BY <1>11
  <2>3. Hands(w, val)
    BY <1>3, <1>7, <1>8, <2>1, <2>2, NoneIn DEF Hands
  <2>4. ~args.identity_reduce => pc[w] = "reduce"
    BY <1>1
  <2> QED BY <1>4, <1>10, <2>1, <2>3, <2>4, ResultFrame DEF EmitsResult
<1>12. ASSUME NEW list \in Entries, list = [key |-> work[w].min[1], vals |-> Tail(vals)],
              work' = [work EXCEPT ![w] = [@ EXCEPT !.itr = <<list>>]],
              pc' = [pc EXCEPT ![w] = "iterate"]
       PROVE  \E v : EmitsResult(w, v)
  <2> DEFINE rec == [work[w] EXCEPT !.itr = <<list>>]
  <2>1. pc \in [Threads -> Places] /\ work \in [Threads -> Works] /\ work[w] \in Works
    BY DEF IInv, TInv, WorkOK
  <2>2. /\ rec.task = work[w].task /\ rec.min = work[w].min /\ rec.next = work[w].next
        /\ rec.itr = <<list>>
    BY <2>1 DEF Works
  <2>3. work' = [work EXCEPT ![w] = rec]
    BY <1>12
  <2> HIDE DEF rec
  <2>4. work'[w] = rec /\ pc'[w] = "iterate" /\ \A v \in Threads : v # w => work'[v] = work[v] /\ pc'[v] = pc[v]
    BY <1>12, <2>1, <2>3
  <2>5. Moves(w)
    BY <1>1, <2>2, <2>4 DEF Moves
  <2>6. /\ Len(<<list>>) = 1 /\ <<list>>[1] = list
    OBVIOUS
  <2>7. /\ Len(Tail(vals)) = Len(vals) - 1
        /\ \A i \in 1..(Len(vals) - 1) : Tail(vals)[i] = vals[i + 1]
    BY <1>2, HeadTailProperties
  <2>8. \A k, l, e : Has(work'[w].itr, k, l, e) <=>
           k = 1 /\ l \in 1..(Len(vals) - 1) /\ e \in vals[l + 1]
    <3>1. \A k, l, e : Has(work'[w].itr, k, l, e) <=>
             k \in 1..1 /\ l \in 1..Len(<<list>>[k].vals) /\ e \in <<list>>[k].vals[l]
      BY <2>2, <2>4, <2>6 DEF Has
    <3>2. list.vals = Tail(vals)
      BY <1>12
    <3>3. \A k : k \in 1..1 <=> k = 1
      OBVIOUS
    <3>4. ASSUME NEW k, NEW l, NEW e
          PROVE  Has(work'[w].itr, k, l, e) <=> k = 1 /\ l \in 1..(Len(vals) - 1) /\ e \in vals[l + 1]
      <4>1. CASE k = 1
        <5>1. Has(work'[w].itr, k, l, e) <=> l \in 1..(Len(vals) - 1) /\ e \in Tail(vals)[l]
          BY <2>6, <2>7, <3>1, <3>2, <3>3, <4>1
        <5> QED BY <2>7, <4>1, <5>1
      <4>2. CASE k # 1
        BY <3>1, <3>3, <4>2
      <4> QED BY <4>1, <4>2
    <3> QED BY <3>4
  <2>9. \A l \in 1..(Len(vals) - 1) : l + 1 \in 1..Len(vals) /\ l + 1 # 1
    BY <1>8
  <2>10. \A l \in 1..Len(vals) : l = 1 \/ \E j \in 1..(Len(vals) - 1) : j + 1 = l
    <3> SUFFICES ASSUME NEW l \in 1..Len(vals), l # 1 PROVE \E j \in 1..(Len(vals) - 1) : j + 1 = l
      OBVIOUS
    <3>1. l - 1 \in 1..(Len(vals) - 1) /\ (l - 1) + 1 = l
      BY <1>8
    <3> QED BY <3>1
  <2>11. ASSUME NEW k, NEW l, NEW e, Has(work'[w].itr, k, l, e)
         PROVE  e \notin val /\ \E j, i : Has(work[w].itr, j, i, e)
    <3>1. l + 1 \in 1..Len(vals) /\ l + 1 # 1 /\ e \in vals[l + 1]
      BY <2>8, <2>9, <2>11
    <3> QED BY <1>3, <1>7, <1>8, <1>9, <3>1
  <2>12. ASSUME NEW k, NEW l, NEW e, Has(work[w].itr, k, l, e), e \notin val
         PROVE  \E j, i : Has(work'[w].itr, j, i, e)
    <3>1. PICK p \in 1..Len(vals) : e \in vals[p]
      BY <1>7, <2>12
    <3>2. PICK i \in 1..(Len(vals) - 1) : i + 1 = p
      BY <1>3, <2>10, <2>12, <3>1
    <3>3. Has(work'[w].itr, 1, i, e)
      BY <2>8, <3>1, <3>2
    <3> QED BY <3>3
  <2>13. ASSUME NEW k, NEW l, NEW j, NEW i, NEW e, Has(work'[w].itr, k, l, e), Has(work'[w].itr, j, i, e)
         PROVE  k = j /\ l = i
    BY <2>8, <2>13, <1>9, <2>9, <1>8
  <2>14. \A e \in val : \E k, l : Has(work[w].itr, k, l, e)
    BY <1>3, <1>7, <1>8
  <2>15. Hands(w, val)
    BY <2>11, <2>12, <2>13, <2>14 DEF Hands
  <2> QED BY <1>1, <1>4, <1>10, <2>5, <2>15, ResultFrame DEF EmitsResult
<1> QED BY <1>4, <1>11, <1>12

\* Both are an emission of a result in the sense above.
LEMMA ResultEmitted ==
    ASSUME IInv, TInv, NEW w \in Threads, Progress(w), Reduce(w) \/ identity_reduce(w)
    PROVE  \E val : EmitsResult(w, val)
BY ReduceEmits, IdentityEmits

\* Before any reduce task is taken there is nothing to go wrong.
LEMMA ReduceFresh ==
    ASSUME TInv', MapInv', \A w \in Threads : ~Held(w)',
           \A q \in Queues(args)' : final_vals'[q] = <<>>,
           phase' # "reduce"
           \/ /\ \A m \in MapWorkers', r \in ReduceTasks' : pos'[m][r] = 0
              /\ tasks' = 0..(ReduceTasksQueued' - 1)
    PROVE  ReduceInv'
<1>1. \A w \in Threads : work'[w].itr = <<>> /\ pc'[w] # "gather" /\ pc'[w] # "reduce" /\ pc'[w] # "iterate"
  BY DEF TInv, HeldOK, Holder, Held
<1>2. \A w \in Threads : Progress(w)'
  BY <1>1 DEF Progress, Held
<1>3. \A q, j : ~Entry(q, j)'
  <2>1. \A j : j \notin 1..Len(<<>>)
    OBVIOUS
  <2> QED BY <2>1 DEF Entry
<1>4. Emitted'
  BY <1>3 DEF Emitted
<1>5. Sorted(<<>>)
  BY DEF Sorted
<1>6. \A q \in Queues(args)' : Sorted(final_vals'[q])
  BY <1>5
<1>7. FinalApart'
  BY <1>3, <1>6 DEF FinalApart
<1>8. Somewhere'
  <2> SUFFICES ASSUME phase' = "reduce", NEW e \in Emissions' PROVE Ahead(e)'
    BY DEF Somewhere
  <2>1. Stored(e)'
    BY DEF MapInv, MapOnce
  <2>2. PICK m \in MapWorkers', r \in ReduceTasks' : \E k, l : Has(Arr(m, r)', k, l, e)
    BY <2>1 DEF Stored
  <2>3. PICK k, l : Has(Arr(m, r)', k, l, e)
    BY <2>2
  <2>4. k \in 1..Len(Arr(m, r)') /\ Len(Arr(m, r)') \in Nat
    BY <2>2, <2>3 DEF TInv, ArraysOK, Arr, Has
  <2>5. pos'[m][r] < k
    BY <2>2, <2>4
  <2> QED BY <2>2, <2>3, <2>5 DEF Ahead
<1>9. AllRead'
  BY DEF AllRead
<1> QED BY <1>2, <1>4, <1>7, <1>8, <1>9 DEF ReduceInv

\* After the last has been finished the arrays of results stay.
LEMMA ReduceKept ==
    ASSUME ReduceInv, TInv', UNCHANGED <<args, final_vals>>,
           phase' \notin {"split", "map", "reduce"}
    PROVE  ReduceInv'
<1>1. \A w \in Threads : ~Held(w)' /\ pc'[w] # "gather" /\ pc'[w] # "reduce" /\ pc'[w] # "iterate"
  BY DEF TInv, PlacesOK, PlacesIn, Held
<1>2. \A w \in Threads : work'[w].itr = <<>>
  BY <1>1 DEF TInv, HeldOK, Holder
<1>3. \A w \in Threads : Progress(w)'
  BY <1>1 DEF Progress
<1>4. /\ Queues(args)' = Queues(args) /\ \A key : Row(key)' = Row(key)
      /\ \A e : KeyOf(e)' = KeyOf(e)
  BY ArgsStay
<1>5. \A q, j : /\ Entry(q, j)' <=> Entry(q, j)
                /\ Key(q, j)' = Key(q, j) /\ Val(q, j)' = Val(q, j)
  BY <1>4 DEF Entry, Key, Val
<1>6. Emitted'
  BY <1>4, <1>5 DEF ReduceInv, Emitted
<1>7. FinalApart'
  BY <1>2, <1>4, <1>5, NoneIn DEF ReduceInv, FinalApart
<1>8. Somewhere' /\ AllRead'
  BY DEF Somewhere, AllRead
<1> QED BY <1>3, <1>6, <1>7, <1>8 DEF ReduceInv

\* The results stay apart as long as they stay, and no value of theirs is gathered.
LEMMA ResultsApart ==
    ASSUME FinalApart, UNCHANGED <<args, final_vals, phase>>,
           \A q, j : Entry(q, j) =>
               \A e \in Val(q, j) : \A w \in Threads : \A k, l : ~Has(work'[w].itr, k, l, e)
    PROVE  FinalApart'
<1>1. Queues(args)' = Queues(args)
  BY ArgsStay
<1>2. \A q, j : /\ Entry(q, j)' <=> Entry(q, j)
                /\ Key(q, j)' = Key(q, j) /\ Val(q, j)' = Val(q, j)
  BY <1>1 DEF Entry, Key, Val
<1>3. \A q \in Queues(args)' : Sorted(final_vals'[q])
  BY <1>1 DEF FinalApart
<1>4. ASSUME NEW q, NEW j, NEW p, NEW i, Entry(q, j)', Entry(p, i)'
      PROVE  /\ \A e : e \in Val(q, j)' /\ e \in Val(p, i)' => q = p /\ j = i
             /\ ~args'.identity_reduce /\ Key(q, j)' = Key(p, i)' => q = p /\ j = i
  BY <1>2, <1>4 DEF FinalApart
<1>5. ASSUME NEW q, NEW j, Entry(q, j)', NEW e \in Val(q, j)', NEW w \in Threads
      PROVE  \A k, l : ~Has(work'[w].itr, k, l, e)
  BY <1>2, <1>5
<1>6. phase' \in {"split", "map"} => \A q \in Queues(args)' : final_vals'[q] = <<>>
  BY <1>1 DEF FinalApart
<1> QED BY <1>3, <1>4, <1>5, <1>6 DEF FinalApart

\* A step of another component of the job.
LEMMA ReduceStay ==
    ASSUME ReduceInv,
           UNCHANGED <<args, num_map_threads, phase, tasks, pos, intermediate_vals, final_vals, work>>,
           \A w \in Threads : pc'[w] = pc[w] \/ (~Held(w) /\ ~Held(w)')
    PROVE  ReduceInv'
<1>1. /\ Queues(args)' = Queues(args) /\ MapThreads' = MapThreads
      /\ \A key : Row(key)' = Row(key)
      /\ \A e : KeyOf(e)' = KeyOf(e)
      /\ \A m, r : Arr(m, r)' = Arr(m, r)
      /\ MapWorkers' = MapWorkers /\ ReduceTasks' = ReduceTasks /\ Emissions' = Emissions
      /\ ReduceTasksQueued' = ReduceTasksQueued
  BY ArgsStay DEF MapThreads, Arr
<1>2. \A q, j : /\ Entry(q, j)' <=> Entry(q, j)
                /\ Key(q, j)' = Key(q, j) /\ Val(q, j)' = Val(q, j)
  BY <1>1 DEF Entry, Key, Val
<1>3. \A w \in Threads : Held(w)' = Held(w) /\ (Held(w) => pc'[w] = pc[w])
  BY DEF Held
<1>4. \A w \in Threads : /\ pc'[w] = "gather" <=> pc[w] = "gather"
                         /\ pc'[w] = "reduce" <=> pc[w] = "reduce"
                         /\ pc'[w] = "iterate" <=> pc[w] = "iterate"
                         /\ pc'[w] \in {"reduce", "iterate"} <=> pc[w] \in {"reduce", "iterate"}
  BY DEF Held
<1>5. ASSUME NEW w \in Threads PROVE Progress(w)'
  <2>1. Progress(w)
    BY DEF ReduceInv
  <2> QED BY <1>1, <1>3, <1>4, <2>1 DEF Progress
<1>6. \A key : Past(key) => Past(key)'
  BY <1>1, <1>4 DEF Past
<1>7. Emitted'
  BY <1>1, <1>2, <1>6 DEF ReduceInv, Emitted
<1>8. FinalApart'
  BY ResultsApart DEF ReduceInv, FinalApart
<1>9. \A e : Ahead(e) => Ahead(e)'
  BY <1>1 DEF Ahead
<1>10. Somewhere'
  BY <1>1, <1>2, <1>9 DEF ReduceInv, Somewhere, InItr, InFinal
<1>11. AllRead'
  BY <1>1, <1>3 DEF ReduceInv, AllRead, Unread
<1> QED BY <1>5, <1>7, <1>8, <1>10, <1>11 DEF ReduceInv

\* Taking a reduce task keeps the reduce layer.
LEMMA ReduceTaken ==
    ASSUME IInv, TInv, ReduceInv, NEW w \in Threads, NextReduceTask(w)
    PROVE  ReduceInv'
<1>1. /\ phase = "reduce" /\ pc[w] = "task"
      /\ UNCHANGED <<args, num_map_threads, phase, pos, intermediate_vals, final_vals>>
  BY DEF NextReduceTask, Goto, envVars
<1>2. PICK t \in tasks : /\ tasks' = tasks \ {t}
                         /\ work' = [work EXCEPT ![w] = [Idle EXCEPT !.task = t]]
  BY DEF NextReduceTask
<1>3. pc \in [Threads -> Places] /\ work \in [Threads -> Works]
  BY DEF IInv, TInv, WorkOK
<1>4. /\ pc'[w] = "gather" /\ work'[w].task = t /\ work'[w].min = <<>> /\ work'[w].itr = <<>>
  BY <1>2, <1>3 DEF NextReduceTask, Goto, Idle
<1>5. \A v \in Threads : v # w => pc'[v] = pc[v] /\ work'[v] = work[v]
  BY <1>2, <1>3 DEF NextReduceTask, Goto
<1>6. work[w].itr = <<>> /\ ~Held(w)
  BY <1>1 DEF TInv, HeldOK, Holder, Held
<1>7. /\ Queues(args)' = Queues(args) /\ MapThreads' = MapThreads
      /\ \A key : Row(key)' = Row(key)
      /\ \A e : KeyOf(e)' = KeyOf(e)
      /\ \A m, r : Arr(m, r)' = Arr(m, r)
      /\ MapWorkers' = MapWorkers /\ ReduceTasks' = ReduceTasks /\ Emissions' = Emissions
      /\ ReduceTasksQueued' = ReduceTasksQueued
  BY <1>1, ArgsStay DEF MapThreads, Arr
<1>8. \A q, j : /\ Entry(q, j)' <=> Entry(q, j)
                /\ Key(q, j)' = Key(q, j) /\ Val(q, j)' = Val(q, j)
  BY <1>1, <1>7 DEF Entry, Key, Val
<1>9. \A v \in Threads : v # w => Held(v)' = Held(v)
  BY <1>5 DEF Held
<1>10. \A v \in Threads : \A k, l, e : Has(work'[v].itr, k, l, e) <=> Has(work[v].itr, k, l, e)
  BY <1>4, <1>5, <1>6
<1>11. ASSUME NEW v \in Threads PROVE Progress(v)'
  <2>1. CASE v = w
    BY <1>4, <2>1 DEF Progress
  <2>2. CASE v # w
    <3>1. Progress(v) /\ pc'[v] = pc[v] /\ work'[v] = work[v] /\ Held(v)' = Held(v)
      BY <1>5, <1>9, <2>2 DEF ReduceInv
    <3> QED BY <1>1, <1>7, <3>1 DEF Progress
  <2> QED BY <2>1, <2>2
<1>12. ASSUME NEW key, Past(key) PROVE Past(key)'
  <2>1. \A v \in Threads : v # w => pc'[v] = pc[v] /\ work'[v] = work[v]
    BY <1>5
  <2>2. pc'[w] # "reduce" /\ pc'[w] # "iterate"
    BY <1>4
  <2>3. ASSUME NEW v \in Threads
        PROVE  work'[v].task = Row(key)' => /\ pc'[v] = "reduce" => key < work'[v].min[1]
                                            /\ pc'[v] = "iterate" => key <= work'[v].min[1]
    <3>1. CASE v = w
      BY <2>2, <3>1
    <3>2. CASE v # w
      BY <1>7, <1>12, <2>1, <3>2 DEF Past
    <3> QED BY <3>1, <3>2
  <2> QED BY <1>1, <1>7, <1>12, <2>3 DEF Past
<1>13. Emitted'
  BY <1>1, <1>7, <1>8, <1>12 DEF ReduceInv, Emitted
<1>14. FinalApart'
  <2>1. \A q, j : Entry(q, j) =>
           \A e \in Val(q, j) : \A v \in Threads : \A k, l : ~Has(work'[v].itr, k, l, e)
    BY <1>10 DEF ReduceInv, FinalApart
  <2> QED BY <1>1, <2>1, ResultsApart DEF ReduceInv
<1>15. Somewhere'
  BY <1>1, <1>7, <1>8, <1>10 DEF ReduceInv, Somewhere, InItr, InFinal, Ahead
<1>16. AllRead'
  <2> SUFFICES ASSUME NEW s \in 0..(ReduceTasksQueued - 1), s \notin tasks',
                      ~\E v \in Threads : Held(v)' /\ work'[v].task = s
               PROVE  \A m \in MapThreads : ~Unread(m, s)'
    BY <1>7 DEF AllRead
  <2>1. Held(w)'
    BY <1>4 DEF Held
  <2>2. s # t /\ s \notin tasks
    BY <1>2, <1>4, <2>1
  <2>3. ~\E v \in Threads : Held(v) /\ work[v].task = s
    BY <1>5, <1>6, <1>9
  <2>4. \A m \in MapThreads : ~Unread(m, s)
    BY <1>1, <2>2, <2>3 DEF ReduceInv, AllRead
  <2> QED BY <1>1, <1>7, <2>4 DEF Unread
<1> QED BY <1>11, <1>13, <1>14, <1>15, <1>16 DEF ReduceInv

\* Where the entries of an array are when another has been put in.
Shift(j, p) == IF j < p THEN j ELSE j + 1

\* Where the records of an array are after one more was put in.
LEMMA PutPlaces ==
    ASSUME NEW arr, NEW new, NEW p, NEW e, Len(arr) \in Nat, PutIn(new, arr, p, e)
    PROVE  /\ p \in 1..Len(new) /\ new[p] = e
           /\ \A k \in 1..Len(new) : k = p \/ \E j \in 1..Len(arr) : k = Shift(j, p) /\ new[k] = arr[j]
           /\ \A j \in 1..Len(arr) : Shift(j, p) \in 1..Len(new) /\ new[Shift(j, p)] = arr[j]
<1>1. /\ p \in 1..(Len(arr) + 1) /\ Len(new) = Len(arr) + 1
      /\ \A k \in 1..Len(new) : new[k] = IF k < p THEN arr[k] ELSE IF k = p THEN e ELSE arr[k - 1]
  BY DEF PutIn
<1> DEFINE n == Len(arr)
<1>2. n \in Nat /\ p \in 1..(n + 1) /\ 1..Len(new) = 1..(n + 1)
  BY <1>1
<1>3. \A k \in 1..(n + 1) : new[k] = IF k < p THEN arr[k] ELSE IF k = p THEN e ELSE arr[k - 1]
  BY <1>1
<1> HIDE DEF n
<1>4. p \in 1..(n + 1) /\ new[p] = e
  BY <1>2, <1>3
<1>5. ASSUME NEW k \in 1..(n + 1), k # p
      PROVE  \E j \in 1..n : k = Shift(j, p) /\ new[k] = arr[j]
  <2>1. CASE k < p
    BY <1>2, <1>3, <2>1 DEF Shift
  <2>2. CASE p < k
    BY <1>2, <2>2, <1>3 DEF Shift
  <2> QED BY <1>2, <1>5, <2>1, <2>2
<1>6. ASSUME NEW j \in 1..n PROVE Shift(j, p) \in 1..(n + 1) /\ new[Shift(j, p)] = arr[j]
  <2>1. CASE j < p
    BY <1>2, <2>1, <1>3 DEF Shift
  <2>2. CASE ~(j < p)
    BY <1>2, <2>2, <1>3 DEF Shift
  <2> QED BY <2>1, <2>2
<1> QED BY <1>2, <1>4, <1>5, <1>6 DEF n

\* The arrays of results after a call of emit: an entry more, at place p of array s.
Place(s, p, q, j) == IF q = s THEN Shift(j, p) ELSE j
Grown(s, p, key, val) ==
    /\ Entry(s, p)' /\ Key(s, p)' = key /\ Val(s, p)' = val
    /\ \A q, k : Entry(q, k)' =>
          \/ q = s /\ k = p
          \/ \E j : /\ Entry(q, j) /\ k = Place(s, p, q, j)
                    /\ Key(q, k)' = Key(q, j) /\ Val(q, k)' = Val(q, j)
    /\ \A q, j : Entry(q, j) => /\ Entry(q, Place(s, p, q, j))'
                                /\ Val(q, Place(s, p, q, j))' = Val(q, j)

\* The results after an emission are those before it and the new one.
LEMMA FinalGrows ==
    ASSUME IInv, TInv, NEW w \in Threads, NEW s \in Queues(args), s = Queue(w), args' = args,
           NEW val, NEW p, Puts(w, val, p), NEW key, key = work[w].min[1]
    PROVE  Grown(s, p, key, val)
<1> DEFINE e == [key |-> key, val |-> val]
<1>1. /\ \A q \in Queues(args) : q # s => final_vals'[q] = final_vals[q]
      /\ PutIn(final_vals'[s], final_vals[s], p, e)
  BY DEF Puts
<1>2. final_vals \in [Queues(args) -> Seq(Results)] /\ Len(final_vals[s]) \in Nat
  BY DEF TInv, FinalOK
<1>3. PICK arr : arr = final_vals[s]
  OBVIOUS
<1>4. PICK new : new = final_vals'[s]
  OBVIOUS
<1>5. /\ p \in 1..Len(new) /\ new[p] = e
      /\ \A k \in 1..Len(new) : k = p \/ \E j \in 1..Len(arr) : k = Shift(j, p) /\ new[k] = arr[j]
      /\ \A j \in 1..Len(arr) : Shift(j, p) \in 1..Len(new) /\ new[Shift(j, p)] = arr[j]
  <2>1. PutIn(new, arr, p, e) /\ Len(arr) \in Nat
    BY <1>1, <1>2, <1>3, <1>4
  <2> HIDE DEF e
  <2> QED BY <2>1, PutPlaces
<1>6. Queues(args)' = Queues(args)
  BY ArgsStay
<1>7. /\ \A k : Entry(s, k)' <=> k \in 1..Len(new)
      /\ \A k : Entry(s, k) <=> k \in 1..Len(arr)
      /\ \A k : Key(s, k)' = new[k].key /\ Val(s, k)' = new[k].val
      /\ \A k : Key(s, k) = arr[k].key /\ Val(s, k) = arr[k].val
  BY <1>3, <1>4, <1>6 DEF Entry, Key, Val
<1>8. e.key = key /\ e.val = val
  OBVIOUS
<1> HIDE DEF e
<1>9. \A q, k : q # s => /\ Entry(q, k)' <=> Entry(q, k)
                         /\ Entry(q, k) => Key(q, k)' = Key(q, k) /\ Val(q, k)' = Val(q, k)
  BY <1>1, <1>6 DEF Entry, Key, Val
<1>10. Entry(s, p)' /\ Key(s, p)' = key /\ Val(s, p)' = val
  BY <1>5, <1>7, <1>8
<1>11. ASSUME NEW q, NEW k, Entry(q, k)', ~(q = s /\ k = p)
       PROVE  \E j : /\ Entry(q, j) /\ k = Place(s, p, q, j)
                     /\ Key(q, k)' = Key(q, j) /\ Val(q, k)' = Val(q, j)
  <2>1. CASE q = s
    <3>1. PICK j \in 1..Len(arr) : k = Shift(j, p) /\ new[k] = arr[j]
      BY <1>5, <1>7, <1>11, <2>1
    <3> QED BY <1>7, <2>1, <3>1 DEF Place
  <2>2. CASE q # s
    BY <1>9, <1>11, <2>2 DEF Place
  <2> QED BY <2>1, <2>2
<1>12. ASSUME NEW q, NEW j, Entry(q, j)
       PROVE  Entry(q, Place(s, p, q, j))' /\ Val(q, Place(s, p, q, j))' = Val(q, j)
  <2>1. CASE q = s
    BY <1>7, <1>12, <2>1, <1>5 DEF Place
  <2>2. CASE q # s
    <3>1. Place(s, p, q, j) = j
      BY <2>2 DEF Place
    <3> QED BY <1>9, <1>12, <2>2, <3>1
  <2> QED BY <2>1, <2>2
<1> QED BY <1>10, <1>11, <1>12 DEF Grown

\* A worker with values in its iterator has a key, and no other works on its task.
LEMMA ItrHolder ==
    ASSUME IInv, TInv, ReduceInv, NEW w \in Threads, NEW k, NEW l, NEW e, Has(work[w].itr, k, l, e)
    PROVE  /\ pc[w] \in {"reduce", "iterate"} /\ Held(w) /\ work[w].min # <<>>
           /\ KeyOf(e) = work[w].min[1] /\ Row(KeyOf(e)) = work[w].task
           /\ KeyOf(e) \in DOMAIN args.partition
<1>1. work[w].itr # <<>>
  BY NoneIn
<1>2. Holder(w) /\ Progress(w)
  BY DEF TInv, HeldOK, ReduceInv
<1>3. pc[w] \in {"reduce", "iterate"} /\ Held(w) /\ Len(work[w].min) = 1
  BY <1>1, <1>2 DEF Holder, Held
<1>4. work[w].min # <<>>
  <2> SUFFICES ASSUME work[w].min = <<>> PROVE FALSE
    OBVIOUS
  <2>1. Len(work[w].min) = 0
    OBVIOUS
  <2> QED BY <1>3, <2>1
<1> QED BY <1>2, <1>3, <1>4 DEF Progress

\* A value is in the hands of one worker, at one place.
LEMMA ItrApart ==
    ASSUME IInv, TInv, ReduceInv, NEW w \in Threads, NEW k, NEW l, NEW e, Has(work[w].itr, k, l, e),
           NEW v \in Threads, NEW j, NEW i, Has(work[v].itr, j, i, e)
    PROVE  v = w /\ j = k /\ i = l
<1>1. Held(w) /\ Row(KeyOf(e)) = work[w].task /\ pc[w] \in {"reduce", "iterate"}
  BY ItrHolder
<1>2. Held(v) /\ Row(KeyOf(e)) = work[v].task
  BY ItrHolder
<1>3. v = w
  BY <1>1, <1>2 DEF TInv, HeldOK, HeldApart
<1> QED BY <1>1, <1>3 DEF ReduceInv, Progress

\* The facts about the step that the parts of the invariant need.
EmitStep(w, t, key, val, s, p) ==
    /\ t = work[w].task /\ key = work[w].min[1] /\ s = Queue(w)
    /\ t \in ReduceTasks /\ key \in DOMAIN args.partition /\ key \in Int /\ Row(key) = t
    /\ Held(w) /\ work'[w].task = t
    /\ \A v \in Threads : v # w => work'[v] = work[v] /\ pc'[v] = pc[v]
    /\ \A v \in Threads : Held(v) /\ work[v].task = t => v = w
    /\ s \in Queues(args) /\ (args.use_one_queue_per_task => s = 1 + t)
    /\ Grown(s, p, key, val)
    /\ Queues(args)' = Queues(args) /\ MapThreads' = MapThreads
    /\ \A k : Row(k)' = Row(k)
    /\ \A e : KeyOf(e)' = KeyOf(e)
    /\ \A m, r : Arr(m, r)' = Arr(m, r)
    /\ MapWorkers' = MapWorkers /\ ReduceTasks' = ReduceTasks /\ Emissions' = Emissions
    /\ ReduceTasksQueued' = ReduceTasksQueued

\* What the proofs below use of a worker that emits a result.
LEMMA EmittingFacts ==
    ASSUME IInv, TInv, ReduceInv, NEW w \in Threads, NEW val, EmitsResult(w, val),
           NEW p, Puts(w, val, p), NEW t, t = work[w].task, NEW key, key = work[w].min[1],
           NEW s, s = Queue(w)
    PROVE  EmitStep(w, t, key, val, s, p)
<1>1. /\ phase = "reduce" /\ pc[w] \in {"reduce", "iterate"} /\ s \in Queues(args)
      /\ UNCHANGED <<args, num_map_threads, phase, tasks, pos, intermediate_vals>>
      /\ Moves(w)
  BY DEF EmitsResult
<1>2. t \in ReduceTasks /\ key \in Int /\ Len(work[w].min) = 1
  BY <1>1, ReducePlace
<1>3. work[w].min # <<>>
  <2> SUFFICES ASSUME work[w].min = <<>> PROVE FALSE
    OBVIOUS
  <2>1. Len(work[w].min) = 0
    OBVIOUS
  <2> QED BY <1>2, <2>1
<1>4. Held(w)
  BY <1>1 DEF Held
<1>5. key \in DOMAIN args.partition /\ Row(key) = t
  BY <1>3, <1>4 DEF ReduceInv, Progress
<1>6. \A v \in Threads : Held(v) /\ work[v].task = t => v = w
  BY <1>4 DEF TInv, HeldOK, HeldApart
<1>7. Grown(s, p, key, val)
  BY <1>1, FinalGrows
<1>8. /\ Queues(args)' = Queues(args) /\ MapThreads' = MapThreads
      /\ \A k : Row(k)' = Row(k)
      /\ \A e : KeyOf(e)' = KeyOf(e)
      /\ \A m, r : Arr(m, r)' = Arr(m, r)
      /\ MapWorkers' = MapWorkers /\ ReduceTasks' = ReduceTasks /\ Emissions' = Emissions
      /\ ReduceTasksQueued' = ReduceTasksQueued
  BY <1>1, ArgsStay DEF MapThreads, Arr
<1>9. args.use_one_queue_per_task => s = 1 + t
  BY DEF Queue
<1> QED BY <1>1, <1>2, <1>4, <1>5, <1>6, <1>7, <1>8, <1>9 DEF EmitStep, Moves

\* After the emission each worker is as far in its task as the invariant says, ...
LEMMA EmitProgress ==
    ASSUME IInv, TInv, MapInv, ReduceInv, NEW w \in Threads, NEW val, EmitsResult(w, val),
           NEW t, NEW key, NEW s, NEW p, EmitStep(w, t, key, val, s, p), NEW v \in Threads
    PROVE  Progress(v)'
<1>1. UNCHANGED <<args, num_map_threads, phase, tasks, pos, intermediate_vals>> /\ Moves(w)
      /\ pc[w] \in {"reduce", "iterate"}
  BY DEF EmitsResult
<1>2. Progress(v) /\ Progress(w) /\ Holder(w)
  BY DEF ReduceInv, TInv, HeldOK
<1>3. CASE v # w
  BY <1>3, <1>1, <1>2 DEF EmitStep, Held, Progress
<1>4. CASE v = w
  <2>1. CASE pc'[w] = "iterate" /\ work'[w].min = work[w].min /\ work'[w].next = work[w].next
             /\ args.identity_reduce
    <3>1. \A k, l, e : Has(work'[w].itr, k, l, e) => \E j, i : Has(work[w].itr, j, i, e)
      BY DEF EmitsResult, Hands
    <3>2. \A k, l, j, i, e : Has(work'[w].itr, k, l, e) /\ Has(work'[w].itr, j, i, e)
                                => k = j /\ l = i
      BY DEF EmitsResult, Hands
    <3>3. /\ \A m \in MapThreads : \A k \in 1..Len(Arr(m, work[w].task)) :
                pos[m][work[w].task] < k => /\ work[w].min[1] < Arr(m, work[w].task)[k].key
                                            /\ work[w].next # <<>>
                                            /\ work[w].next[1] <= Arr(m, work[w].task)[k].key
          /\ \A k, l, e : Has(work[w].itr, k, l, e) => KeyOf(e) = work[w].min[1]
      BY <1>1, <1>2 DEF Progress
    <3>4. /\ key \in DOMAIN args.partition /\ Row(key) = t /\ t = work[w].task /\ work'[w].task = t
          /\ key = work[w].min[1]
      BY DEF EmitStep
    <3> QED BY <1>1, <1>4, <2>1, <3>1, <3>2, <3>3, <3>4 DEF Progress, EmitStep
  <2>2. CASE /\ pc'[w] = IF work[w].next # <<>> THEN "gather" ELSE "task"
             /\ work'[w].min = work[w].next /\ work'[w].next = <<>> /\ work'[w].itr = <<>>
    <3>1. CASE work[w].next = <<>>
      BY <1>4, <2>2, <3>1 DEF Progress, Held
    <3>2. CASE work[w].next # <<>>
      <4>1. Waits(t, work[w].next[1])
        BY <1>1, <1>2, <3>2 DEF Holder, EmitStep
      <4>2. PICK m \in MapThreads : pos[m][t] < Len(Arr(m, t)) /\ Arr(m, t)[pos[m][t] + 1].key = work[w].next[1]
        BY <4>1 DEF Waits
      <4>3. t \in ReduceTasks /\ m \in MapWorkers
        BY MapSubset DEF EmitStep, TInv
      <4>4. pos[m][t] + 1 \in 1..Len(Arr(m, t))
        BY <4>2, <4>3, PosType DEF TInv, Unread
      <4>5. work[w].next[1] \in DOMAIN args.partition /\ Row(work[w].next[1]) = t
        BY <4>2, <4>3, <4>4 DEF MapInv, Keyed
      <4>6. \A n \in MapThreads : \A k \in 1..Len(Arr(n, t)) :
                pos[n][t] < k => work[w].next[1] <= Arr(n, t)[k].key
        BY <1>1, <1>2 DEF Progress, EmitStep
      <4>7. pc'[w] = "gather" /\ work'[w].min = work[w].next /\ work'[w].task = t
        BY <2>2, <3>2 DEF EmitStep
      <4> QED BY <1>1, <1>4, <4>5, <4>6, <4>7 DEF Progress, EmitStep
    <3> QED BY <3>1, <3>2
  <2> QED BY <1>1, <2>1, <2>2 DEF Moves
<1> QED BY <1>3, <1>4

\* Past is about keys: a key of the task is not greater than the worker's.
LEMMA PastKey ==
    ASSUME NEW w \in Threads, NEW key, Past(key), work[w].task = Row(key),
           key \in Int, work[w].min[1] \in Int
    PROVE  /\ pc[w] = "reduce" => key < work[w].min[1]
           /\ pc[w] \in {"reduce", "iterate"} => key <= work[w].min[1]
BY DEF Past

\* ... it is past the key it emitted and every key that it was past before, ...
LEMMA EmitPast ==
    ASSUME IInv, TInv, MapInv, ReduceInv, NEW w \in Threads, NEW val, EmitsResult(w, val),
           NEW t, NEW key, NEW s, NEW p, EmitStep(w, t, key, val, s, p)
    PROVE  Past(key)' /\ \A k \in Int : Past(k) => Past(k)'
<1>1. /\ UNCHANGED <<args, num_map_threads, phase, tasks, pos, intermediate_vals>>
      /\ pc[w] \in {"reduce", "iterate"} /\ Moves(w) /\ Progress(w)
  BY DEF EmitsResult, ReduceInv
<1>2. /\ t = work[w].task /\ key = work[w].min[1] /\ key \in Int /\ Row(key) = t
      /\ MapThreads' = MapThreads /\ \A k : Row(k)' = Row(k) /\ \A m, r : Arr(m, r)' = Arr(m, r)
      /\ \A v \in Threads : v # w => work'[v] = work[v] /\ pc'[v] = pc[v]
      /\ \A v \in Threads : Held(v) /\ work[v].task = t => v = w
      /\ work'[w].task = t
  BY DEF EmitStep
<1>3. \A m \in MapThreads : \A k \in 1..Len(Arr(m, t)) : pos[m][t] < k => key < Arr(m, t)[k].key
  BY <1>1, <1>2 DEF Progress
<1>4. pc'[w] # "reduce" /\ (pc'[w] = "iterate" => work'[w].min = work[w].min)
  BY <1>1 DEF Moves
<1>5. Past(key)'
  <2>1. ASSUME NEW v \in Threads, work'[v].task = t, pc'[v] = "reduce" \/ pc'[v] = "iterate"
        PROVE  v = w
    BY <1>2, <2>1 DEF Held
  <2>2. pc'[w] = "iterate" => key <= work'[w].min[1]
    BY <1>2, <1>4
  <2>3. \A v \in Threads : work'[v].task = t => /\ pc'[v] = "reduce" => key < work'[v].min[1]
                                                /\ pc'[v] = "iterate" => key <= work'[v].min[1]
    BY <1>4, <2>1, <2>2
  <2> QED BY <1>1, <1>2, <1>3, <2>3 DEF Past
<1>6. ASSUME NEW k \in Int, Past(k) PROVE Past(k)'
  <2>1. ASSUME NEW v \in Threads, work'[v].task = Row(k)
        PROVE  /\ pc'[v] = "reduce" => k < work'[v].min[1]
               /\ pc'[v] = "iterate" => k <= work'[v].min[1]
    <3>1. CASE v # w
      BY <1>2, <1>6, <2>1, <3>1 DEF Past
    <3>2. CASE v = w
      <4>1. work[w].task = Row(k)
        BY <1>2, <2>1, <3>2
      <4>2. k <= key
        BY <1>1, <1>2, <1>6, <4>1, PastKey
      <4> QED BY <1>2, <1>4, <3>2, <4>2
    <3> QED BY <3>1, <3>2
  <2> QED BY <1>1, <1>2, <1>6, <2>1 DEF Past
<1> QED BY <1>5, <1>6

\* ... the results are of keys whose worker has passed them, ...
LEMMA EmitEmitted ==
    ASSUME IInv, TInv, MapInv, ReduceInv, NEW w \in Threads, NEW val, EmitsResult(w, val),
           NEW t, NEW key, NEW s, NEW p, EmitStep(w, t, key, val, s, p)
    PROVE  Emitted'
<1>1. /\ phase' = "reduce" /\ phase = "reduce" /\ args' = args
      /\ \A e \in val : \E k, l : Has(work[w].itr, k, l, e)
  BY DEF EmitsResult, Hands
<1>2. /\ key \in DOMAIN args.partition /\ Row(key) = t /\ Grown(s, p, key, val)
      /\ (args.use_one_queue_per_task => s = 1 + t) /\ key = work[w].min[1]
      /\ (\A k : Row(k)' = Row(k)) /\ (\A e : KeyOf(e)' = KeyOf(e))
  BY DEF EmitStep
<1>3. \A e \in val : KeyOf(e) = key
  BY <1>1, <1>2, ItrHolder
<1>4. Past(key)' /\ \A k \in Int : Past(k) => Past(k)'
  BY EmitPast
<1>5. ASSUME NEW q, NEW j, Entry(q, j)'
      PROVE  /\ Key(q, j)' \in DOMAIN args.partition
             /\ args.use_one_queue_per_task => q = 1 + Row(Key(q, j)')
             /\ \A e \in Val(q, j)' : KeyOf(e) = Key(q, j)'
             /\ Past(Key(q, j))'
  <2>1. CASE q = s /\ j = p
    BY <1>2, <2>1, <1>3, <1>4 DEF Grown
  <2>2. CASE ~(q = s /\ j = p)
    <3>1. PICK i : Entry(q, i) /\ Key(q, j)' = Key(q, i) /\ Val(q, j)' = Val(q, i)
      BY <1>2, <1>5, <2>2 DEF Grown
    <3>2. /\ Key(q, i) \in DOMAIN args.partition
          /\ args.use_one_queue_per_task => q = 1 + Row(Key(q, i))
          /\ \A e \in Val(q, i) : KeyOf(e) = Key(q, i)
          /\ Past(Key(q, i))
      BY <1>1, <3>1 DEF ReduceInv, Emitted
    <3>3. Key(q, i) \in Int
      BY <3>2, EmitsType DEF IInv
    <3>4. PICK old : old = Key(q, i)
      OBVIOUS
    <3>5. Past(old)'
      BY <1>4, <3>2, <3>3, <3>4
    <3>6. Past(Key(q, j))'
      BY <3>1, <3>4, <3>5
    <3> QED BY <3>1, <3>2, <3>6
  <2> QED BY <2>1, <2>2
<1> QED BY <1>1, <1>2, <1>5 DEF Emitted

\* ... each array of results is in order, ...
LEMMA EmitSorted ==
    ASSUME IInv, TInv, MapInv, ReduceInv, NEW w \in Threads, NEW val, EmitsResult(w, val),
           NEW t, NEW key, NEW s, NEW p, EmitStep(w, t, key, val, s, p), Puts(w, val, p)
    PROVE  \A q \in Queues(args)' : Sorted(final_vals'[q])
<1>1. /\ t = work[w].task /\ key = work[w].min[1] /\ key \in Int /\ Row(key) = t
      /\ Queues(args)' = Queues(args) /\ s = Queue(w) /\ t \in ReduceTasks
      /\ (args.use_one_queue_per_task => s = 1 + t)
  BY DEF EmitStep
<1>2. /\ \A q \in Queues(args) : Sorted(final_vals[q])
      /\ phase = "reduce" /\ pc[w] \in {"reduce", "iterate"} /\ s \in Queues(args)
  BY <1>1 DEF ReduceInv, FinalApart, EmitsResult
<1>3. ASSUME args.use_one_queue_per_task, NEW k \in 1..Len(final_vals[s])
      PROVE  Key(s, k) <= key
  <2>1. Entry(s, k)
    BY <1>2, <1>3 DEF Entry
  <2>2. Key(s, k) \in DOMAIN args.partition /\ s = 1 + Row(Key(s, k)) /\ Past(Key(s, k))
    BY <1>2, <1>3, <2>1 DEF ReduceInv, Emitted
  <2>3. Key(s, k) \in Int /\ Row(Key(s, k)) \in ReduceTasks
    BY <2>2, RowType DEF IInv
  <2>4. \A a, b \in ReduceTasks : 1 + a = 1 + b => a = b
    <3>1. args.num_reduce_tasks \in Nat
      BY CallType DEF IInv
    <3> QED BY <3>1 DEF ReduceTasks
  <2>5. Row(Key(s, k)) = t
    <3>1. PICK r \in ReduceTasks : r = Row(Key(s, k))
      BY <2>3
    <3>2. 1 + r = 1 + t
      BY <1>1, <1>3, <2>2, <3>1
    <3> QED BY <1>1, <2>4, <3>1, <3>2
  <2>6. PICK old \in Int : old = Key(s, k)
    BY <2>3
  <2>7. Past(old) /\ work[w].task = Row(old) /\ work[w].min[1] \in Int
    BY <1>1, <2>2, <2>5, <2>6
  <2>8. old <= work[w].min[1]
    BY <1>2, <2>6, <2>7, PastKey
  <2> QED BY <1>1, <2>6, <2>8
<1>4. Sorted(final_vals'[s])
  BY <1>1, <1>2, <1>3 DEF Puts
<1>5. \A q \in Queues(args) : q # s => final_vals'[q] = final_vals[q]
  BY <1>1 DEF Puts
<1> QED BY <1>1, <1>2, <1>4, <1>5

\* ... no value or reduced key is in two results, ...
LEMMA EmitApart ==
    ASSUME IInv, TInv, MapInv, ReduceInv, NEW w \in Threads, NEW val, EmitsResult(w, val),
           NEW t, NEW key, NEW s, NEW p, EmitStep(w, t, key, val, s, p), Puts(w, val, p)
    PROVE  FinalApart'
<1>1. /\ t = work[w].task /\ key = work[w].min[1] /\ key \in Int /\ Row(key) = t
      /\ Grown(s, p, key, val)
      /\ \A v \in Threads : v # w => work'[v] = work[v]
  BY DEF EmitStep
<1>2. /\ phase' = "reduce" /\ phase = "reduce" /\ args' = args
      /\ (~args.identity_reduce => pc[w] = "reduce")
      /\ Hands(w, val)
  BY DEF EmitsResult
\* An entry that was there has neither an emission nor, unless the reduce function
\* is the identity, the key of the new one.
<1>3. ASSUME NEW q, NEW j, Entry(q, j)
      PROVE  /\ \A e \in Val(q, j) : e \notin val
             /\ ~args.identity_reduce => Key(q, j) # key
  <2>1. \A e \in Val(q, j) : \A k, l : ~Has(work[w].itr, k, l, e)
    BY <1>3 DEF ReduceInv, FinalApart
  <2>2. \A e \in Val(q, j) : e \notin val
    BY <1>2, <2>1 DEF Hands
  <2>3. ASSUME ~args.identity_reduce, Key(q, j) = key PROVE FALSE
    BY <1>2, <1>3, <2>3, <1>1, PastKey DEF ReduceInv, Emitted
  <2> QED BY <2>2, <2>3
<1>4. ASSUME NEW q, NEW j, Entry(q, j)'
      PROVE  \/ q = s /\ j = p /\ Key(q, j)' = key /\ Val(q, j)' = val
             \/ \E i : /\ Entry(q, i) /\ j = Place(s, p, q, i)
                       /\ Key(q, j)' = Key(q, i) /\ Val(q, j)' = Val(q, i)
  BY <1>1, <1>4 DEF Grown
<1>5. ASSUME NEW q, NEW j, NEW n, NEW i, Entry(q, j)', Entry(n, i)'
      PROVE  /\ \A e : e \in Val(q, j)' /\ e \in Val(n, i)' => q = n /\ j = i
             /\ ~args.identity_reduce /\ Key(q, j)' = Key(n, i)' => q = n /\ j = i
  <2>1. CASE q = s /\ j = p /\ Key(q, j)' = key /\ Val(q, j)' = val
    <3>1. CASE n = s /\ i = p
      BY <2>1, <3>1
    <3>2. ASSUME NEW b, Entry(n, b), Key(n, i)' = Key(n, b), Val(n, i)' = Val(n, b)
          PROVE  /\ \A e : e \in Val(q, j)' => e \notin Val(n, i)'
                 /\ ~args.identity_reduce => Key(q, j)' # Key(n, i)'
      BY <1>3, <2>1, <3>2
    <3> QED BY <1>4, <1>5, <3>1, <3>2
  <2>2. ASSUME NEW a, Entry(q, a), j = Place(s, p, q, a), Key(q, j)' = Key(q, a), Val(q, j)' = Val(q, a)
        PROVE  /\ \A e : e \in Val(q, j)' /\ e \in Val(n, i)' => q = n /\ j = i
               /\ ~args.identity_reduce /\ Key(q, j)' = Key(n, i)' => q = n /\ j = i
    <3>1. CASE n = s /\ i = p /\ Key(n, i)' = key /\ Val(n, i)' = val
      BY <1>3, <2>2, <3>1
    <3>2. ASSUME NEW b, Entry(n, b), i = Place(s, p, n, b), Key(n, i)' = Key(n, b), Val(n, i)' = Val(n, b)
          PROVE  /\ \A e : e \in Val(q, j)' /\ e \in Val(n, i)' => q = n /\ j = i
                 /\ ~args.identity_reduce /\ Key(q, j)' = Key(n, i)' => q = n /\ j = i
      BY <2>2, <3>2 DEF ReduceInv, FinalApart
    <3> QED BY <1>4, <1>5, <3>1, <3>2
  <2> QED BY <1>4, <1>5, <2>1, <2>2
<1>6. \A v \in Threads : \A k, l, e : Has(work'[v].itr, k, l, e) =>
         e \notin val /\ \E i, b : Has(work[v].itr, i, b, e)
  <2> SUFFICES ASSUME NEW v \in Threads, NEW k, NEW l, NEW e, Has(work'[v].itr, k, l, e)
               PROVE  e \notin val /\ \E i, b : Has(work[v].itr, i, b, e)
    OBVIOUS
  <2>1. CASE v = w
    BY <1>2, <2>1 DEF Hands
  <2>2. CASE v # w
    <3>1. Has(work[v].itr, k, l, e)
      BY <1>1, <2>2
    <3>2. ASSUME e \in val PROVE FALSE
      <4>1. PICK i, b : Has(work[w].itr, i, b, e)
        BY <1>2, <3>2 DEF Hands
      <4> QED BY <2>2, <3>1, <4>1, ItrApart
    <3> QED BY <3>1, <3>2
  <2> QED BY <2>1, <2>2
<1>7. ASSUME NEW q, NEW j, Entry(q, j)', NEW e \in Val(q, j)', NEW v \in Threads, NEW k, NEW l,
             Has(work'[v].itr, k, l, e)
      PROVE  FALSE
  <2>1. e \notin val /\ \E i, b : Has(work[v].itr, i, b, e)
    BY <1>6, <1>7
  <2>2. PICK i : Entry(q, i) /\ Val(q, j)' = Val(q, i)
    BY <1>4, <1>7, <2>1
  <2> QED BY <1>7, <2>1, <2>2 DEF ReduceInv, FinalApart
<1>8. \A q \in Queues(args)' : Sorted(final_vals'[q])
  BY EmitSorted
<1> QED BY <1>2, <1>5, <1>7, <1>8, SMTT(60) DEF FinalApart

\* ... and no emission and no task is lost.
LEMMA EmitSomewhere ==
    ASSUME IInv, TInv, MapInv, ReduceInv, NEW w \in Threads, NEW val, EmitsResult(w, val),
           NEW t, NEW key, NEW s, NEW p, EmitStep(w, t, key, val, s, p)
    PROVE  Somewhere' /\ AllRead'
<1>1. /\ phase' = "reduce" /\ phase = "reduce" /\ Hands(w, val) /\ Moves(w)
      /\ UNCHANGED <<args, num_map_threads, phase, tasks, pos, intermediate_vals>>
      /\ pc[w] \in {"reduce", "iterate"}
  BY DEF EmitsResult
<1>2. /\ Grown(s, p, key, val) /\ t = work[w].task /\ work'[w].task = t
      /\ \A v \in Threads : v # w => work'[v] = work[v] /\ pc'[v] = pc[v]
      /\ MapThreads' = MapThreads
      /\ \A m, r : Arr(m, r)' = Arr(m, r)
      /\ MapWorkers' = MapWorkers /\ ReduceTasks' = ReduceTasks /\ Emissions' = Emissions
      /\ ReduceTasksQueued' = ReduceTasksQueued
  BY DEF EmitStep
<1>3. ASSUME NEW e \in Emissions
      PROVE  Ahead(e)' \/ InItr(e)' \/ InFinal(e)'
  <2>1. CASE Ahead(e)
    BY <1>1, <1>2, <2>1 DEF Ahead
  <2>2. CASE InFinal(e)
    <3>1. PICK q, j : Entry(q, j) /\ e \in Val(q, j)
      BY <2>2 DEF InFinal
    <3>2. PICK i : i = Place(s, p, q, j)
      OBVIOUS
    <3>3. Entry(q, i)' /\ Val(q, i)' = Val(q, j)
      BY <1>2, <3>1, <3>2 DEF Grown
    <3> QED BY <3>1, <3>3 DEF InFinal
  <2>3. CASE e \in val
    BY <1>2, <2>3 DEF Grown, InFinal
  <2>4. CASE InItr(e) /\ e \notin val
    <3>1. PICK v \in Threads : \E k, l : Has(work[v].itr, k, l, e)
      BY <2>4 DEF InItr
    <3>2. CASE v = w
      BY <1>1, <2>4, <3>1, <3>2 DEF Hands, InItr
    <3>3. CASE v # w
      BY <1>2, <3>1, <3>3 DEF InItr
    <3> QED BY <3>2, <3>3
  <2> QED BY <1>1, <2>1, <2>2, <2>3, <2>4 DEF ReduceInv, Somewhere
<1>4. Somewhere'
  BY <1>2, <1>3 DEF Somewhere
<1>5. \A v \in Threads : v # w => Held(v)' = Held(v)
  BY <1>2 DEF Held
<1>6. AllRead'
  <2> SUFFICES ASSUME NEW r \in 0..(ReduceTasksQueued - 1), r \notin tasks,
                      ~\E v \in Threads : Held(v)' /\ work'[v].task = r,
                      NEW m \in MapThreads
               PROVE  ~Unread(m, r)
    BY <1>1, <1>2 DEF AllRead, Unread
  <2>1. CASE \E v \in Threads : Held(v) /\ work[v].task = r
    <3>1. Held(w) /\ t = r
      BY <1>2, <1>5, <2>1
    <3>2. ~Held(w)'
      BY <1>2, <3>1
    <3>3. work[w].next = <<>>
      BY <1>1, <3>2 DEF Moves, Held
    <3>4. \A k \in 1..Len(Arr(m, r)) : ~(pos[m][r] < k)
      BY <1>1, <1>2, <3>1, <3>3 DEF ReduceInv, Progress
    <3>5. r \in ReduceTasks /\ m \in MapWorkers
      BY MapSubset, QueuedType DEF TInv, IInv
    <3>6. pos[m][r] \in Nat /\ (Unread(m, r) => pos[m][r] + 1 \in 1..Len(Arr(m, r)))
      BY <3>5, PosType DEF TInv
    <3> QED BY <3>4, <3>6
  <2>2. CASE ~\E v \in Threads : Held(v) /\ work[v].task = r
    BY <1>1, <2>2 DEF ReduceInv, AllRead
  <2> QED BY <2>1, <2>2
<1> QED BY <1>4, <1>6

\* Emitting a result keeps the reduce layer.
LEMMA ReduceEmitted ==
    ASSUME IInv, TInv, MapInv, ReduceInv, NEW w \in Threads, Reduce(w) \/ identity_reduce(w)
    PROVE  ReduceInv'
<1>1. PICK val : EmitsResult(w, val)
  BY ResultEmitted DEF ReduceInv
<1>2. PICK p : Puts(w, val, p)
  BY <1>1 DEF EmitsResult
<1>3. PICK t, key, s : t = work[w].task /\ key = work[w].min[1] /\ s = Queue(w)
  OBVIOUS
<1>4. EmitStep(w, t, key, val, s, p)
  BY <1>1, <1>2, <1>3, EmittingFacts
<1>5. \A v \in Threads : Progress(v)'
  BY <1>1, <1>4, EmitProgress
<1>6. Emitted' /\ FinalApart' /\ Somewhere' /\ AllRead'
  BY <1>1, <1>2, <1>4, EmitEmitted, EmitApart, EmitSomewhere
<1> QED BY <1>5, <1>6 DEF ReduceInv

\* A turn of the loop over the keys of task t.
GatherStep(w, t, min, next) ==
    /\ phase = "reduce" /\ t \in ReduceTasks /\ pc[w] = "gather" /\ Held(w)
    /\ t = work[w].task /\ min = work[w].min /\ next \in Seq(Int)
    /\ UNCHANGED <<args, num_map_threads, phase, tasks, intermediate_vals, final_vals>>
    /\ MapThreads \subseteq MapWorkers
    /\ \A m \in MapWorkers, s \in ReduceTasks :
          pos'[m][s] = IF m \in MapThreads /\ s = t /\ Takes(m, t, min)
                         THEN pos[m][s] + 1 ELSE pos[m][s]
    /\ \A v \in Threads : v # w => work'[v] = work[v] /\ pc'[v] = pc[v]
    /\ \A v \in Threads : v # w /\ Held(v) => work[v].task # t
    /\ work'[w].task = t
    /\ LeastKey(next, t)'
    /\ IF min = <<>>
         THEN /\ work'[w].min = next /\ work'[w].itr = <<>>
              /\ pc'[w] = IF next # <<>> THEN "gather" ELSE "task"
         ELSE /\ work'[w].min = min /\ work'[w].next = next /\ work'[w].itr = Iterator(t, min)
              /\ pc'[w] = "reduce"
              /\ Len(min) = 1 /\ min[1] \in Int /\ min = <<min[1]>> /\ Waits(t, min[1])
              /\ min[1] \in DOMAIN args.partition /\ Row(min[1]) = t
              /\ \A m \in MapThreads : \A k \in 1..Len(Arr(m, t)) :
                    pos[m][t] < k => min[1] <= Arr(m, t)[k].key
    /\ MapThreads' = MapThreads
    /\ (\A k : Row(k)' = Row(k)) /\ (\A e : KeyOf(e)' = KeyOf(e))
    /\ \A m, r : Arr(m, r)' = Arr(m, r)
    /\ MapWorkers' = MapWorkers /\ ReduceTasks' = ReduceTasks /\ Emissions' = Emissions
    /\ ReduceTasksQueued' = ReduceTasksQueued /\ Queues(args)' = Queues(args)

\* What the proofs below use of a worker that gathers.
LEMMA GatherFacts ==
    ASSUME IInv, TInv, ReduceInv, NEW w \in Threads, Gather(w)
    PROVE  \E t, min, next : GatherStep(w, t, min, next)
<1>1. PICK t, min : t = work[w].task /\ min = work[w].min
  OBVIOUS
<1>2. /\ phase = "reduce" /\ t \in ReduceTasks /\ pc[w] = "gather" /\ min \in Seq(Int)
      /\ MapThreads \subseteq MapWorkers
      /\ \A m \in MapWorkers, s \in ReduceTasks :
            pos'[m][s] = IF m \in MapThreads /\ s = t /\ Takes(m, t, min)
                           THEN pos[m][s] + 1 ELSE pos[m][s]
  BY <1>1, GatherPos
<1>3. UNCHANGED <<args, num_map_threads, phase, tasks, intermediate_vals, final_vals>>
  BY DEF Gather, envVars, callerVars
<1>4. PICK next \in Seq(Int) : Turns(w, t, min, next)
  BY <1>1, <1>3, GatherEffect
<1>5. Held(w) /\ Holder(w) /\ Progress(w) /\ work[w] \in Works
  BY <1>2 DEF Held, TInv, HeldOK, WorkOK, ReduceInv
<1>6. pc \in [Threads -> Places] /\ work \in [Threads -> Works]
  BY DEF IInv, TInv, WorkOK
<1>7. \A v \in Threads : v # w => work'[v] = work[v] /\ pc'[v] = pc[v]
  BY <1>4, <1>6 DEF Turns
<1>8. \A v \in Threads : v # w /\ Held(v) => work[v].task # t
  BY <1>1, <1>5 DEF TInv, HeldOK, HeldApart
<1>9. work'[w].task = t /\ IF min = <<>>
         THEN /\ work'[w].min = next /\ work'[w].itr = <<>>
              /\ pc'[w] = IF next # <<>> THEN "gather" ELSE "task"
         ELSE /\ work'[w].min = min /\ work'[w].next = next /\ work'[w].itr = Iterator(t, min)
              /\ pc'[w] = "reduce"
  <2>1. CASE min = <<>>
    <3> DEFINE rec == [work[w] EXCEPT !.min = next]
    <3>1. rec.task = t /\ rec.min = next /\ rec.itr = work[w].itr
      BY <1>1, <1>5 DEF Works
    <3>2. work' = [work EXCEPT ![w] = rec] /\ pc' = [pc EXCEPT ![w] = IF next # <<>> THEN "gather" ELSE "task"]
      BY <1>4, <2>1 DEF Turns
    <3>3. work[w].itr = <<>>
      BY <1>2, <1>5 DEF Holder
    <3> HIDE DEF rec
    <3>4. work'[w] = rec /\ pc'[w] = IF next # <<>> THEN "gather" ELSE "task"
      BY <1>6, <3>2
    <3> QED BY <2>1, <3>1, <3>3, <3>4
  <2>2. CASE min # <<>>
    <3> DEFINE rec == [work[w] EXCEPT !.next = next, !.itr = Iterator(t, min)]
    <3>1. rec.task = t /\ rec.min = min /\ rec.next = next /\ rec.itr = Iterator(t, min)
      BY <1>1, <1>5 DEF Works
    <3>2. work' = [work EXCEPT ![w] = rec] /\ pc' = [pc EXCEPT ![w] = "reduce"]
      BY <1>4, <2>2 DEF Turns
    <3> HIDE DEF rec
    <3>3. work'[w] = rec /\ pc'[w] = "reduce"
      BY <1>6, <3>2
    <3> QED BY <2>2, <3>1, <3>3
  <2> QED BY <2>1, <2>2
<1>10. min # <<>> => /\ Len(min) = 1 /\ Waits(t, min[1])
                     /\ min[1] \in DOMAIN args.partition /\ Row(min[1]) = t
                     /\ \A m \in MapThreads : \A k \in 1..Len(Arr(m, t)) :
                           pos[m][t] < k => min[1] <= Arr(m, t)[k].key
  BY <1>1, <1>2, <1>5 DEF Holder, Progress
<1>11. min # <<>> => min[1] \in Int /\ min = <<min[1]>>
  BY <1>2, <1>10
<1>12. /\ MapThreads' = MapThreads
       /\ (\A k : Row(k)' = Row(k)) /\ (\A e : KeyOf(e)' = KeyOf(e))
       /\ \A m, r : Arr(m, r)' = Arr(m, r)
       /\ MapWorkers' = MapWorkers /\ ReduceTasks' = ReduceTasks /\ Emissions' = Emissions
       /\ ReduceTasksQueued' = ReduceTasksQueued /\ Queues(args)' = Queues(args)
  BY <1>3, ArgsStay DEF MapThreads, Arr
<1>13. LeastKey(next, t)'
  BY <1>4 DEF Turns
<1>14. GatherStep(w, t, min, next)
  BY <1>1, <1>2, <1>3, <1>5, <1>7, <1>8, <1>9, <1>10, <1>11, <1>12, <1>13 DEF GatherStep
<1> QED BY <1>14

\* The keys that are left after the turn.
LEMMA GatherLeft ==
    ASSUME IInv, TInv, TInv', NEW w \in Threads, NEW t, NEW min, NEW next, GatherStep(w, t, min, next),
           NEW m \in MapThreads, NEW k \in 1..Len(Arr(m, t)), pos'[m][t] < k
    PROVE  /\ Arr(m, t)[k].key \in Int
           /\ next # <<>> /\ next[1] \in Int /\ next[1] <= Arr(m, t)[k].key
           /\ min # <<>> => min[1] < Arr(m, t)[k].key
<1> DEFINE arr == Arr(m, t)
           p == pos[m][t]
           n == pos'[m][t]
<1>1. m \in MapWorkers /\ t \in ReduceTasks /\ (\A i, r : Arr(i, r)' = Arr(i, r)) /\ MapThreads' = MapThreads
      /\ MapWorkers' = MapWorkers /\ ReduceTasks' = ReduceTasks
  BY DEF GatherStep
<1>2. /\ Len(arr) \in Nat /\ (\A i \in 1..Len(arr) : arr[i].key \in Int)
      /\ \A i, j \in 1..Len(arr) : i < j => arr[i].key < arr[j].key
  BY <1>1, ArrayType DEF TInv
<1>3. p \in Nat /\ n = IF Takes(m, t, min) THEN p + 1 ELSE p
  BY <1>1, PosType DEF TInv, GatherStep
<1>4. n \in Nat /\ n + 1 \in 1..Len(arr) /\ n < Len(arr) /\ (n + 1 = k \/ n + 1 < k)
  BY <1>2, <1>3, SMTT(60)
<1>5. arr[n + 1].key \in Int /\ arr[k].key \in Int /\ arr[n + 1].key <= arr[k].key
  BY <1>2, <1>4
<1>6. Unread(m, t)' /\ Here(m, t)' = arr[n + 1]
  BY <1>1, <1>4 DEF Unread, Here
<1>7. LeastKey(next, t)' /\ next \in Seq(Int)
  BY DEF GatherStep
<1>8. next # <<>> /\ Len(next) = 1 /\ next[1] <= arr[n + 1].key
  BY <1>1, <1>6, <1>7 DEF LeastKey
<1>9. next[1] \in Int
  BY <1>7, <1>8
<1>10. ASSUME min # <<>> PROVE min[1] < arr[k].key
  <2>1. /\ min[1] \in Int /\ min = <<min[1]>>
        /\ \A i \in 1..Len(arr) : p < i => min[1] <= arr[i].key
    BY <1>10 DEF GatherStep
  <2>2. CASE Takes(m, t, min)
    <3>1. arr[p + 1].key = min[1] /\ p + 1 \in 1..Len(arr) /\ p + 1 < k
      BY <2>2, <1>2, <1>3 DEF Takes, Here
    <3> QED BY <1>2, <3>1
  <2>3. CASE ~Takes(m, t, min)
    BY <1>3, <1>4, <2>3, <2>1, <1>5 DEF Unread, Here, Takes
  <2> QED BY <2>2, <2>3
<1> HIDE DEF arr, p, n
<1>11. next[1] <= arr[k].key
  BY <1>5, <1>8, <1>9
<1> QED BY <1>5, <1>8, <1>9, <1>10, <1>11 DEF arr, n

\* The iterator has what was taken, each list once, and fits.
Filled(itr, t, min) ==
    /\ \A k, l, e : Has(itr, k, l, e) =>
          \E m \in MapThreads : Takes(m, t, min) /\ Has(Arr(m, t), pos[m][t] + 1, l, e)
    /\ \A m \in MapThreads : \A l, e :
          Takes(m, t, min) /\ Has(Arr(m, t), pos[m][t] + 1, l, e) => \E k : Has(itr, k, l, e)
    /\ \A k, l, j, i, e : Has(itr, k, l, e) /\ Has(itr, j, i, e) => k = j /\ l = i
    /\ Len(itr) <= num_map_threads

\* The values gathered for a key are those that the next entries of the arrays have.
LEMMA ItrPlaces ==
    ASSUME IInv, TInv, MapInv, NEW w \in Threads, NEW t, NEW min, NEW next,
           GatherStep(w, t, min, next), min # <<>>, NEW itr, itr = work'[w].itr
    PROVE  Filled(itr, t, min)
<1>1. itr = Iterator(t, min) /\ t \in ReduceTasks /\ MapThreads \subseteq MapWorkers
  BY DEF GatherStep
<1>2. Iterator(t, min) \in Seq(Entries) /\ \E h : Taking(Iterator(t, min), h, t, min)
  BY <1>1, IteratorElements DEF TInv
<1>3. PICK h : Taking(itr, h, t, min)
  BY <1>1, <1>2
<1>4. /\ \A k \in 1..Len(itr) : h[k] \in MapThreads /\ Takes(h[k], t, min) /\ itr[k] = Here(h[k], t)
      /\ \A k, j \in 1..Len(itr) : h[k] = h[j] => k = j
      /\ \A m \in MapThreads : Takes(m, t, min) => \E k \in 1..Len(itr) : h[k] = m
  BY <1>3 DEF Taking
<1>5. \A m \in MapThreads : Takes(m, t, min) => /\ pos[m][t] + 1 \in 1..Len(Arr(m, t))
                                               /\ Here(m, t) = Arr(m, t)[pos[m][t] + 1]
  BY <1>1, PosType DEF TInv, Takes, Here
<1>6. ASSUME NEW k, NEW l, NEW e
      PROVE  Has(itr, k, l, e) <=> /\ k \in 1..Len(itr)
                                   /\ Has(Arr(h[k], t), pos[h[k]][t] + 1, l, e)
  BY <1>4, <1>5 DEF Has
<1>7. ASSUME NEW k, NEW l, NEW j, NEW i, NEW e, Has(itr, k, l, e), Has(itr, j, i, e)
      PROVE  k = j /\ l = i
  BY <1>1, <1>4, <1>6, <1>7 DEF MapInv, StoredOnce
<1>8. Len(itr) <= num_map_threads
  <2> DEFINE D == 1..Len(itr)
             f == [k \in D |-> h[k]]
  <2>1. num_map_threads \in Nat /\ Len(itr) \in Nat
    BY <1>1, <1>2, MapSubset DEF TInv
  <2>2. IsFiniteSet(MapThreads) /\ Cardinality(MapThreads) = num_map_threads
    <3>1. num_map_threads - 1 >= 0 - 1 /\ 0..(num_map_threads - 1) = MapThreads
      BY <2>1 DEF MapThreads
    <3>2. /\ IsFiniteSet(0..(num_map_threads - 1))
          /\ Cardinality(0..(num_map_threads - 1)) =
                IF 0 > num_map_threads - 1 THEN 0 ELSE (num_map_threads - 1) - 0 + 1
      BY <2>1, FS_Interval
    <3> QED BY <2>1, <3>1, <3>2
  <2>3. IsFiniteSet(D) /\ Cardinality(D) = Len(itr)
    <3>1. PICK n \in Int : n = Len(itr) /\ n \in Nat
      BY <2>1
    <3>2. IsFiniteSet(1..n) /\ Cardinality(1..n) = IF 1 > n THEN 0 ELSE n - 1 + 1
      BY FS_Interval
    <3> QED BY <3>1, <3>2
  <2>4. f \in [D -> MapThreads]
    BY <1>4
  <2>5. \A x, y \in D : f[x] = f[y] => x = y
    BY <1>4
  <2>6. Cardinality(D) <= Cardinality(MapThreads)
    <3> HIDE DEF D, f
    <3>1. SUFFICES ASSUME Cardinality(D) > Cardinality(MapThreads) PROVE FALSE
      BY <2>1, <2>2, <2>3
    <3>2. \E x, y \in D : x # y /\ f[x] = f[y]
      BY <2>2, <2>3, <2>4, <3>1, FS_PigeonHole
    <3> QED BY <2>5, <3>2
  <2> QED BY <2>2, <2>3, <2>6
<1>9. ASSUME NEW m \in MapThreads, NEW l, NEW e, Takes(m, t, min), Has(Arr(m, t), pos[m][t] + 1, l, e)
      PROVE  \E k : Has(itr, k, l, e)
  <2>1. PICK k \in 1..Len(itr) : h[k] = m
    BY <1>4, <1>9
  <2> QED BY <1>6, <1>9, <2>1
<1> QED BY <1>4, <1>6, <1>7, <1>8, <1>9 DEF Filled

\* After gathering each worker is as far in its task as the invariant says: behind
\* the positions are only keys from the least one on.
LEMMA GatherProgress ==
    ASSUME IInv, TInv, TInv', MapInv, MapInv', ReduceInv, NEW w \in Threads, NEW t, NEW min, NEW next,
           GatherStep(w, t, min, next), NEW v \in Threads
    PROVE  Progress(v)'
<1>1. /\ UNCHANGED <<args, num_map_threads, phase, tasks, intermediate_vals>>
      /\ t \in ReduceTasks /\ MapThreads \subseteq MapWorkers /\ MapThreads' = MapThreads
      /\ (\A k : Row(k)' = Row(k)) /\ (\A e : KeyOf(e)' = KeyOf(e))
      /\ (\A m, r : Arr(m, r)' = Arr(m, r)) /\ ReduceTasks' = ReduceTasks /\ MapWorkers' = MapWorkers
      /\ work'[w].task = t
  BY DEF GatherStep
<1>2. Progress(v) /\ Holder(v)
  BY DEF ReduceInv, TInv, HeldOK
<1>3. CASE v # w
  <2>1. pc'[v] = pc[v] /\ work'[v] = work[v] /\ Held(v)' = Held(v)
    BY <1>3 DEF GatherStep, Held
  <2>2. CASE Held(v)
    <3>1. work[v].task # t /\ work[v].task \in ReduceTasks
      BY <1>2, <1>3, <2>2 DEF GatherStep, Holder
    <3>2. \A m \in MapThreads : pos'[m][work[v].task] = pos[m][work[v].task]
      BY <1>1, <3>1 DEF GatherStep
    <3> QED BY <1>1, <1>2, <2>1, <3>2 DEF Progress
  <2>3. CASE ~Held(v)
    BY <2>1, <2>3 DEF Progress, Held
  <2> QED BY <2>2, <2>3
<1>4. CASE v = w
  <2>1. \A m \in MapThreads : \A k \in 1..Len(Arr(m, t)) : pos'[m][t] < k =>
           /\ Arr(m, t)[k].key \in Int
           /\ next # <<>> /\ next[1] \in Int /\ next[1] <= Arr(m, t)[k].key
           /\ min # <<>> => min[1] < Arr(m, t)[k].key
    BY GatherLeft
  <2>2. CASE min = <<>>
    <3>1. work'[w].min = next /\ pc'[w] = IF next # <<>> THEN "gather" ELSE "task"
      BY <2>2 DEF GatherStep
    <3>2. CASE next = <<>>
      BY <1>4, <3>1, <3>2 DEF Progress, Held
    <3>3. CASE next # <<>>
      <4>1. PICK m \in MapThreads : Unread(m, t)' /\ Here(m, t)'.key = next[1]
        BY <1>1, <3>3 DEF GatherStep, LeastKey
      <4>2. PICK n : n = pos'[m][t] + 1
        OBVIOUS
      <4>3. n \in 1..Len(Arr(m, t)) /\ Arr(m, t)[n].key = next[1]
        <5>1. ArraysOK' /\ PosOK'
          BY DEF TInv
        <5>2. m \in MapWorkers' /\ t \in ReduceTasks'
          BY <1>1
        <5>3. (pos[m][t] + 1 \in 1..Len(Arr(m, t)))'
          BY <1>1, <5>1, <5>2, <4>1, ArrayType DEF PosOK, TInv, Unread
        <5> QED BY <1>1, <4>1, <4>2, <5>3 DEF Here
      <4>4. next[1] \in DOMAIN args.partition /\ Row(next[1]) = t
        BY <1>1, <4>3 DEF MapInv, Keyed
      <4>5. work'[w].min[1] = next[1] /\ pc'[w] = "gather"
        BY <3>1, <3>3
      <4> QED BY <1>1, <1>4, <2>1, <4>4, <4>5 DEF Progress
    <3> QED BY <3>2, <3>3
  <2>3. CASE min # <<>>
    <3>1. /\ work'[w].min = min /\ work'[w].next = next /\ pc'[w] = "reduce"
          /\ min[1] \in DOMAIN args.partition /\ Row(min[1]) = t
      BY <2>3 DEF GatherStep
    <3>2. PICK itr : itr = work'[w].itr
      OBVIOUS
    <3>3. /\ \A k, l, e : Has(itr, k, l, e) =>
                 \E m \in MapThreads : Takes(m, t, min) /\ Has(Arr(m, t), pos[m][t] + 1, l, e)
          /\ \A k, l, j, i, e : Has(itr, k, l, e) /\ Has(itr, j, i, e) => k = j /\ l = i
          /\ Len(itr) <= num_map_threads
      <4>1. Filled(itr, t, min)
        BY <2>3, <3>2, ItrPlaces
      <4> QED BY <4>1 DEF Filled
    <3>4. ASSUME NEW k, NEW l, NEW e, Has(itr, k, l, e) PROVE KeyOf(e) = min[1]
      <4>1. PICK m \in MapThreads : Takes(m, t, min) /\ Has(Arr(m, t), pos[m][t] + 1, l, e)
        BY <3>3, <3>4
      <4>2. m \in MapWorkers
        BY <1>1
      <4>3. Arr(m, t)[pos[m][t] + 1].key = KeyOf(e)
        BY <1>1, <4>1, <4>2 DEF MapInv, Keyed
      <4>4. min[1] = Here(m, t).key
        BY <4>1 DEF Takes
      <4> QED BY <4>3, <4>4 DEF Here
    <3> QED BY <1>1, <1>4, <2>1, <2>3, <3>1, <3>2, <3>3, <3>4 DEF Progress
  <2> QED BY <2>2, <2>3
<1> QED BY <1>3, <1>4

\* A key that was passed stays so: positions only advance.
LEMMA GatherPast ==
    ASSUME IInv, TInv, TInv', ReduceInv, NEW w \in Threads, NEW t, NEW min, NEW next,
           GatherStep(w, t, min, next), NEW key \in Int, Past(key), Row(key) \in ReduceTasks
    PROVE  Past(key)'
<1>1. /\ t \in ReduceTasks /\ MapThreads \subseteq MapWorkers /\ MapThreads' = MapThreads
      /\ (\A k : Row(k)' = Row(k)) /\ (\A m, r : Arr(m, r)' = Arr(m, r))
      /\ work'[w].task = t /\ pc'[w] # "iterate" /\ (pc'[w] = "reduce" => min # <<>>)
  BY DEF GatherStep
<1>2. PICK r \in ReduceTasks : r = Row(key)
  OBVIOUS
<1>3. ASSUME NEW m \in MapThreads, NEW k \in 1..Len(Arr(m, r)), pos'[m][r] < k
      PROVE  key < Arr(m, r)[k].key
  BY <1>1, <1>3, <1>2, PosType DEF TInv, GatherStep, Past
<1>4. ASSUME NEW v \in Threads, work'[v].task = r
      PROVE  /\ pc'[v] = "reduce" => key < work'[v].min[1]
             /\ pc'[v] = "iterate" => key <= work'[v].min[1]
  <2>1. CASE v # w
    BY <2>1, <1>2, <1>4 DEF GatherStep, Past
  <2>2. CASE v = w
    <3>1. SUFFICES ASSUME min # <<>> PROVE key < work'[w].min[1]
      BY <1>1, <2>2
    <3>2. r = t /\ work'[w].min = min /\ Waits(t, min[1])
      BY <1>1, <1>4, <2>2, <3>1 DEF GatherStep
    <3>3. PICK m \in MapThreads : pos[m][t] < Len(Arr(m, t)) /\ Arr(m, t)[pos[m][t] + 1].key = min[1]
      BY <3>2 DEF Waits
    <3>4. pos[m][t] + 1 \in 1..Len(Arr(m, t)) /\ pos[m][t] < pos[m][t] + 1
      BY <1>1, <3>3, PosType DEF TInv, Unread
    <3> QED BY <1>2, <3>2, <3>3, <3>4 DEF Past
  <2> QED BY <2>1, <2>2
<1> QED BY <1>1, <1>2, <1>3, <1>4 DEF Past

\* Where an emission of an iterator was before the turn.
LEMMA GatherFrom ==
    ASSUME IInv, TInv, MapInv, NEW w \in Threads, NEW t, NEW min, NEW next,
           GatherStep(w, t, min, next), NEW v \in Threads, NEW k, NEW l, NEW e, Has(work'[v].itr, k, l, e)
    PROVE  \/ Has(work[v].itr, k, l, e)
           \/ /\ v = w /\ min # <<>> /\ KeyOf(e) = min[1]
              /\ pc'[w] = "reduce" /\ work'[w].min = min /\ work'[w].task = t /\ Row(min[1]) = t
<1>1. CASE v # w
  BY <1>1 DEF GatherStep
<1>2. CASE v = w
  <2>1. min # <<>>
    <3> SUFFICES ASSUME min = <<>> PROVE FALSE
      OBVIOUS
    <3>1. work'[w].itr = <<>>
      BY DEF GatherStep
    <3> QED BY <1>2, <3>1, NoneIn
  <2>2. PICK itr : itr = work'[w].itr
    OBVIOUS
  <2>3. Filled(itr, t, min)
    BY <2>1, <2>2, ItrPlaces
  <2>4. PICK m \in MapThreads : Takes(m, t, min) /\ Has(Arr(m, t), pos[m][t] + 1, l, e)
    BY <1>2, <2>2, <2>3 DEF Filled
  <2>5. Arr(m, t)[pos[m][t] + 1].key = KeyOf(e)
    BY <2>4 DEF GatherStep, MapInv, Keyed
  <2>6. min[1] = Here(m, t).key
    BY <2>4 DEF Takes
  <2> QED BY <1>2, <2>1, <2>5, <2>6 DEF Here, GatherStep
<1> QED BY <1>1, <1>2

\* Gathering leaves the results of passed keys alone.
LEMMA GatherFinal ==
    ASSUME IInv, TInv, TInv', MapInv, ReduceInv, NEW w \in Threads, NEW t, NEW min, NEW next,
           GatherStep(w, t, min, next)
    PROVE  Emitted' /\ FinalApart'
<1>1. /\ UNCHANGED <<args, final_vals, phase>> /\ phase = "reduce"
      /\ (\A k : Row(k)' = Row(k)) /\ (\A e : KeyOf(e)' = KeyOf(e)) /\ Queues(args)' = Queues(args)
  BY DEF GatherStep
<1>2. \A q, j : /\ Entry(q, j)' <=> Entry(q, j)
                /\ Key(q, j)' = Key(q, j) /\ Val(q, j)' = Val(q, j)
  BY <1>1 DEF Entry, Key, Val
<1>3. ASSUME NEW q, NEW j, Entry(q, j) PROVE Past(Key(q, j))' /\ Key(q, j) \in Int
  <2>1. Past(Key(q, j)) /\ Key(q, j) \in DOMAIN args.partition
    BY <1>1, <1>3 DEF ReduceInv, Emitted
  <2>2. Key(q, j) \in Int /\ Row(Key(q, j)) \in ReduceTasks
    BY <2>1, RowType DEF IInv
  <2>3. PICK key \in Int : key = Key(q, j)
    BY <2>2
  <2>4. Past(key)'
    BY <2>1, <2>2, <2>3, GatherPast
  <2>5. Past(Key(q, j))'
    BY <1>2, <2>3, <2>4
  <2> QED BY <2>2, <2>5
<1>4. Emitted'
  BY <1>1, <1>2, <1>3 DEF ReduceInv, Emitted
<1>5. ASSUME NEW q, NEW j, Entry(q, j), NEW e \in Val(q, j), NEW v \in Threads, NEW k, NEW l,
             Has(work'[v].itr, k, l, e)
      PROVE  FALSE
  <2>1. ~Has(work[v].itr, k, l, e)
    BY <1>5 DEF ReduceInv, FinalApart
  <2>2. /\ v = w /\ min # <<>> /\ KeyOf(e) = min[1]
        /\ pc'[w] = "reduce" /\ work'[w].min = min /\ work'[w].task = t /\ Row(min[1]) = t
    BY <1>5, <2>1, GatherFrom
  <2>3. KeyOf(e) = Key(q, j)
    BY <1>5 DEF ReduceInv, Emitted
  <2>4. PICK key \in Int : key = Key(q, j)
    BY <1>3, <1>5
  <2>5. Past(key)'
    BY <1>2, <1>3, <1>5, <2>4
  <2>6. key = min[1] /\ Row(key)' = t
    BY <1>1, <2>2, <2>3, <2>4
  <2>7. key < work'[w].min[1]
    BY <2>2, <2>5, <2>6 DEF Past
  <2> QED BY <2>2, <2>6, <2>7
<1>6. FinalApart'
  BY <1>5, <1>1, ResultsApart DEF ReduceInv
<1> QED BY <1>4, <1>6

\* What is no longer ahead of a position is in the iterator.
LEMMA GatherSomewhere ==
    ASSUME IInv, TInv, TInv', MapInv, ReduceInv, NEW w \in Threads, NEW t, NEW min, NEW next,
           GatherStep(w, t, min, next)
    PROVE  Somewhere' /\ AllRead'
<1>1. /\ phase = "reduce" /\ phase' = "reduce" /\ UNCHANGED <<args, final_vals, tasks>>
      /\ t \in ReduceTasks /\ MapThreads \subseteq MapWorkers /\ MapThreads' = MapThreads
      /\ (\A m, r : Arr(m, r)' = Arr(m, r)) /\ Queues(args)' = Queues(args)
      /\ MapWorkers' = MapWorkers /\ ReduceTasks' = ReduceTasks /\ Emissions' = Emissions
      /\ ReduceTasksQueued' = ReduceTasksQueued
      /\ t = work[w].task /\ work'[w].task = t /\ Held(w) /\ pc[w] = "gather"
      /\ \A v \in Threads : v # w => work'[v] = work[v] /\ pc'[v] = pc[v]
  BY DEF GatherStep
<1>2. ASSUME NEW e \in Emissions PROVE Ahead(e)' \/ InItr(e)' \/ InFinal(e)'
  <2>1. CASE InFinal(e)
    BY <1>1, <2>1 DEF InFinal, Entry, Val
  <2>2. CASE InItr(e)
    <3>1. PICK v \in Threads : \E k, l : Has(work[v].itr, k, l, e)
      BY <2>2 DEF InItr
    <3>2. v # w
      <4>1. work[w].itr = <<>>
        BY <1>1 DEF TInv, HeldOK, Holder
      <4> QED BY <3>1, <4>1, NoneIn
    <3> QED BY <1>1, <3>1, <3>2 DEF InItr
  <2>3. CASE Ahead(e)
    <3>1. PICK m \in MapWorkers, r \in ReduceTasks : \E k, l : Has(Arr(m, r), k, l, e) /\ pos[m][r] < k
      BY <2>3 DEF Ahead
    <3>2. PICK k, l : Has(Arr(m, r), k, l, e) /\ pos[m][r] < k
      BY <3>1
    <3>3. pos[m][r] \in Nat /\ Len(Arr(m, r)) \in Nat /\ k \in 1..Len(Arr(m, r))
      BY <3>1, <3>2, PosType DEF TInv, Has
    <3>4. CASE m \in MapThreads /\ r = t /\ Takes(m, t, min) /\ k = pos[m][t] + 1
      <4>1. min # <<>>
        <5>1. \A x : <<x>> # <<>>
          OBVIOUS
        <5> QED BY <3>4, <5>1 DEF Takes
      <4>2. PICK itr : itr = work'[w].itr
        OBVIOUS
      <4>3. Filled(itr, t, min)
        BY <4>1, <4>2, ItrPlaces
      <4>4. Has(Arr(m, t), pos[m][t] + 1, l, e)
        BY <3>2, <3>4
      <4> QED BY <3>4, <4>2, <4>3, <4>4 DEF Filled, InItr
    <3>5. CASE ~(m \in MapThreads /\ r = t /\ Takes(m, t, min) /\ k = pos[m][t] + 1)
      <4>1. pos'[m][r] = IF m \in MapThreads /\ r = t /\ Takes(m, t, min)
                           THEN pos[m][r] + 1 ELSE pos[m][r]
        BY DEF GatherStep
      <4>2. pos'[m][r] < k
        <5>1. CASE m \in MapThreads /\ r = t /\ Takes(m, t, min)
          BY <3>2, <3>3, <3>5, <4>1, <5>1
        <5>2. CASE ~(m \in MapThreads /\ r = t /\ Takes(m, t, min))
          BY <3>2, <4>1, <5>2
        <5> QED BY <5>1, <5>2
      <4> QED BY <1>1, <3>2, <4>2 DEF Ahead
    <3> QED BY <3>4, <3>5
  <2> QED BY <1>1, <2>1, <2>2, <2>3 DEF ReduceInv, Somewhere
<1>3. \A v \in Threads : v # w => Held(v)' = Held(v)
  BY <1>1 DEF Held
<1>4. AllRead'
  <2> SUFFICES ASSUME NEW r \in 0..(ReduceTasksQueued - 1), r \notin tasks,
                      ~\E v \in Threads : Held(v)' /\ work'[v].task = r,
                      NEW m \in MapThreads
               PROVE  ~Unread(m, r)'
    BY <1>1 DEF AllRead
  <2>1. CASE r = t
    <3>1. ~Held(w)'
      BY <1>1, <2>1
    <3>2. next = <<>> /\ LeastKey(next, t)'
      BY <3>1 DEF GatherStep, Held
    <3>3. ~Unread(m, t)'
      <4>1. Len(<<>>) # 1
        OBVIOUS
      <4> QED BY <1>1, <3>2, <4>1 DEF LeastKey
    <3> QED BY <2>1, <3>3
  <2>2. CASE r # t
    <3>1. ~\E v \in Threads : Held(v) /\ work[v].task = r
      BY <1>1, <1>3, <2>2
    <3>2. ~Unread(m, r)
      BY <1>1, <3>1 DEF ReduceInv, AllRead
    <3>3. r \in ReduceTasks
      BY QueuedType DEF IInv, TInv
    <3>4. pos'[m][r] = pos[m][r]
      BY <1>1, <2>2, <3>3 DEF GatherStep
    <3> QED BY <1>1, <3>2, <3>4 DEF Unread
  <2> QED BY <2>1, <2>2
<1> QED BY <1>1, <1>2, <1>4 DEF Somewhere

\* Gathering keeps the reduce layer.
LEMMA ReduceGathered ==
    ASSUME IInv, TInv, TInv', MapInv, MapInv', ReduceInv, NEW w \in Threads, Gather(w)
    PROVE  ReduceInv'
<1>1. PICK t, min, next : GatherStep(w, t, min, next)
  BY GatherFacts
<1>2. \A v \in Threads : Progress(v)'
  BY <1>1, GatherProgress
<1>3. Emitted' /\ FinalApart' /\ Somewhere' /\ AllRead'
  BY <1>1, GatherFinal, GatherSomewhere
<1> QED BY <1>2, <1>3 DEF ReduceInv

\* The steps of the map phase leave the arrays of results empty.
LEMMA ReduceBefore ==
    ASSUME IInv, TInv, TInv', MapInv', ReduceInv, phase \in {"split", "map"}, UNCHANGED final_vals,
           args' = args, phase' \in {"split", "map"}
    PROVE  ReduceInv'
<1>1. \A w \in Threads : ~Held(w)'
  <2>1. PlacesOK' /\ phase' # "reduce"
    BY DEF TInv
  <2> QED BY <2>1 DEF PlacesOK, PlacesIn, Held
<1>2. Queues(args)' = Queues(args) /\ \A q \in Queues(args) : final_vals[q] = <<>>
  BY ArgsStay DEF ReduceInv, FinalApart
<1> QED BY <1>1, <1>2, ReduceFresh

\* When the reduce phase starts every emission is ahead and every queued task waits.
LEMMA ReduceStarts ==
    ASSUME IInv, TInv, TInv', MapInv', ReduceInv, StartReduce
    PROVE  ReduceInv'
<1>1. /\ phase = "map" /\ phase' = "reduce" /\ UNCHANGED <<args, num_map_threads, pos, final_vals>>
      /\ tasks' = 0..(ReduceTasksQueued - 1)
      /\ pc' = [w \in Threads |-> IF w < args.num_reduce_threads THEN "task" ELSE "off"]
  BY DEF StartReduce, Start, envVars
<1>2. \A w \in Threads : ~Held(w)'
  BY <1>1 DEF Held
<1>3. /\ Queues(args)' = Queues(args) /\ MapWorkers' = MapWorkers /\ ReduceTasks' = ReduceTasks
      /\ ReduceTasksQueued' = ReduceTasksQueued
  BY <1>1, ArgsStay
<1>4. \A q \in Queues(args) : final_vals[q] = <<>>
  BY <1>1 DEF ReduceInv, FinalApart
<1>5. \A m \in MapWorkers, r \in ReduceTasks : pos[m][r] = 0
  BY <1>1 DEF TInv, PosOK
<1> QED BY <1>1, <1>2, <1>3, <1>4, <1>5, ReduceFresh

\* A new call begins with empty arrays.
LEMMA ReduceNewCall ==
    ASSUME TInv', MapInv', NextCall
    PROVE  ReduceInv'
BY ReduceFresh DEF NextCall, TInv, PlacesOK, PlacesIn, Held

\* Every step keeps the reduce layer.
LEMMA ReduceKeep ==
    ASSUME IInv, TInv, MapInv, ReduceInv, [Next]_vars, TInv', MapInv'
    PROVE  ReduceInv'
<1>1. CASE Split
  BY <1>1, ReduceBefore DEF Split, envVars
<1>2. CASE StartMap
  BY <1>2, ReduceBefore DEF StartMap
<1>3. CASE StartReduce
  BY <1>3, ReduceStarts
<1>4. CASE StartMerge
  BY <1>4, ReduceKept, MergeStarts DEF StartMerge
<1>5. CASE NextMergeRound
  BY <1>5, ReduceKept, RoundEnds DEF NextMergeRound
<1>6. CASE NextCall
  BY <1>6, ReduceNewCall
<1>7. CASE map_reduce_finalize
  BY <1>7, ReduceKept DEF map_reduce_finalize
<1>8. ASSUME NEW w \in Threads, NextMapTask(w) PROVE ReduceInv'
  BY <1>8, ReduceBefore DEF NextMapTask, envVars
<1>9. ASSUME NEW w \in Threads, emit_intermediate(w) PROVE ReduceInv'
  BY <1>9, EmitChange, ReduceBefore DEF emit_intermediate, envVars, callerVars
<1>10. ASSUME NEW w \in Threads, EndMapTask(w) PROVE ReduceInv'
  <2>1. phase = "map"
    BY <1>10, WorkerNumber DEF EndMapTask, Goto, TInv, PlacesOK, PlacesIn
  <2>2. UNCHANGED <<args, phase, final_vals>>
    BY <1>10 DEF EndMapTask, envVars, callerVars
  <2> QED BY <2>1, <2>2, ReduceBefore
<1>11. ASSUME NEW w \in Threads, FinishMap(w) PROVE ReduceInv'
  BY <1>11, ReduceBefore DEF FinishMap, envVars, callerVars
<1>12. ASSUME NEW w \in Threads, NextReduceTask(w) PROVE ReduceInv'
  BY <1>12, ReduceTaken
<1>13. ASSUME NEW w \in Threads, Gather(w) PROVE ReduceInv'
  BY <1>13, ReduceGathered
<1>14. ASSUME NEW w \in Threads, Reduce(w) \/ identity_reduce(w) PROVE ReduceInv'
  BY <1>14, ReduceEmitted
<1>15. ASSUME NEW w \in Threads, FinishReduce(w) PROVE ReduceInv'
  BY <1>15, ReduceStay DEF FinishReduce, Goto, envVars, callerVars, Held, IInv
<1>16. ASSUME NEW w \in Threads, MergeStep(w) PROVE ReduceInv'
  <2>1. phase = "merge"
    BY <1>16, MergeMove
  <2> QED BY <1>16, <2>1, ReduceKept DEF MergeStep, envVars, callerVars
<1>17. ASSUME NEW w \in Threads, FinishMerge(w) PROVE ReduceInv'
  <2>1. phase = "merge"
    BY <1>17, WorkerNumber DEF FinishMerge, Goto, TInv, PlacesOK, PlacesIn
  <2> QED BY <1>17, <2>1, ReduceKept DEF FinishMerge, envVars, callerVars
<1>18. CASE UNCHANGED jobVars
  BY <1>18, ReduceStay DEF jobVars, envVars, callerVars
<1> QED BY <1>1, <1>2, <1>3, <1>4, <1>5, <1>6, <1>7, <1>8, <1>9, <1>10, <1>11, <1>12, <1>13,
           <1>14, <1>15, <1>16, <1>17, <1>18, Steps

\* The reduce layer holds initially.
LEMMA ReduceInit ==
    ASSUME Init, TInv, MapInv
    PROVE  ReduceInv
<1>1. /\ phase = "split" /\ final_vals = [q \in Queues(args) |-> <<>>]
      /\ pc = [w \in Threads |-> "off"] /\ work = [w \in Threads |-> Idle]
  BY DEF Init
<1>2. \A w \in Threads : Progress(w)
  BY <1>1 DEF Progress, Held
<1>3. \A q, j : ~Entry(q, j)
  <2>1. \A j : j \notin 1..Len(<<>>)
    OBVIOUS
  <2> QED BY <1>1, <2>1 DEF Entry
<1>4. Sorted(<<>>)
  BY DEF Sorted
<1>5. \A q \in Queues(args) : Sorted(final_vals[q]) /\ final_vals[q] = <<>>
  BY <1>1, <1>4
<1> QED BY <1>1, <1>2, <1>3, <1>5 DEF ReduceInv, Emitted, FinalApart, Somewhere, AllRead

\* The third layer of the invariant: how far each reduce task has come.
LEMMA ReduceInvariant == Spec => [](IInv /\ TInv /\ MapInv /\ ReduceInv)
<1>1. Init /\ TInv /\ MapInv => ReduceInv
  BY ReduceInit
<1>2. IInv /\ TInv /\ MapInv /\ ReduceInv /\ [Next]_vars /\ TInv' /\ MapInv' => ReduceInv'
  BY ReduceKeep
<1>3. Spec => [](IInv /\ TInv /\ MapInv)
  BY MapInvariant
<1> QED BY <1>1, <1>2, <1>3, PTL DEF Spec

\* GatherComplete follows: behind the positions there is no value of the worker's key.
LEMMA GatherHolds ==
    ASSUME IInv, TInv, MapInv, ReduceInv
    PROVE  GatherComplete
<1> SUFFICES ASSUME NEW w \in Threads, pc[w] = "reduce"
             PROVE  /\ {e \in Emissions : work[w].min = <<KeyOf(e)>>}
                         = UNION {UNION ToSet(list.vals) : list \in ToSet(work[w].itr)}
                    /\ Len(work[w].itr) \in 1..num_map_threads
  BY DEF GatherComplete
<1>1. /\ phase = "reduce" /\ work[w].task \in ReduceTasks /\ Len(work[w].min) = 1
      /\ work[w].min \in Seq(Int) /\ work[w].min[1] \in Int /\ work[w].itr \in Seq(Entries)
  BY ReducePlace
<1>2. Holder(w) /\ Progress(w) /\ Held(w)
  BY DEF TInv, HeldOK, ReduceInv, Held
<1>3. PICK min : min = work[w].min
  OBVIOUS
<1>4. PICK itr \in Seq(Entries) : itr = work[w].itr
  BY <1>1
<1>5. min = <<min[1]>> /\ min # <<>> /\ min[1] \in Int
  BY <1>1, <1>3
<1>6. Len(itr) \in Nat /\ Len(itr) # 0 /\ Len(itr) <= num_map_threads
  BY <1>2, <1>4 DEF Holder, Progress
<1>7. num_map_threads \in Nat
  BY MapSubset DEF TInv
<1>8. \A e : e \in UNION {UNION ToSet(list.vals) : list \in ToSet(itr)} <=> \E k, l : Has(itr, k, l, e)
  <2>1. \A k \in 1..Len(itr) : itr[k].vals \in Seq(SUBSET Emissions)
    <3>1. \A k \in 1..Len(itr) : itr[k] \in Entries
      BY ElementOfSeq
    <3> QED BY <3>1 DEF Entries
  <2>2. ToSet(itr) = {itr[k] : k \in 1..Len(itr)}
    BY DEF ToSet
  <2>3. \A k \in 1..Len(itr) : ToSet(itr[k].vals) = {itr[k].vals[l] : l \in 1..Len(itr[k].vals)}
    BY <2>1 DEF ToSet
  <2>4. ASSUME NEW e
        PROVE  e \in UNION {UNION ToSet(list.vals) : list \in ToSet(itr)}
                 <=> \E k \in 1..Len(itr) : e \in UNION ToSet(itr[k].vals)
    BY <2>2
  <2>5. ASSUME NEW e, NEW k \in 1..Len(itr)
        PROVE  e \in UNION ToSet(itr[k].vals) <=> \E l \in 1..Len(itr[k].vals) : e \in itr[k].vals[l]
    <3>1. PICK s : s = itr[k].vals
      OBVIOUS
    <3>2. e \in UNION {s[l] : l \in 1..Len(s)} <=> \E l \in 1..Len(s) : e \in s[l]
      OBVIOUS
    <3> QED BY <2>3, <3>1, <3>2
  <2> QED BY <2>4, <2>5 DEF Has
<1>9. ASSUME NEW k, NEW l, NEW e, Has(itr, k, l, e) PROVE e \in Emissions /\ min = <<KeyOf(e)>>
  <2>1. KeyOf(e) = min[1]
    BY <1>2, <1>3, <1>4, <1>9 DEF Progress
  <2>2. k \in 1..Len(itr) /\ l \in 1..Len(itr[k].vals) /\ e \in itr[k].vals[l]
    BY <1>9 DEF Has
  <2>3. itr[k] \in Entries
    BY <2>2, ElementOfSeq
  <2>4. itr[k].vals \in Seq(SUBSET Emissions)
    BY <2>3 DEF Entries
  <2>5. itr[k].vals[l] \in SUBSET Emissions
    BY <2>2, <2>4, ElementOfSeq
  <2> QED BY <1>5, <2>1, <2>2, <2>5
<1>10. ASSUME NEW e \in Emissions, min = <<KeyOf(e)>> PROVE \E k, l : Has(itr, k, l, e)
  <2>1. KeyOf(e) = min[1]
    BY <1>10
  <2>2. CASE Ahead(e)
    <3>1. PICK m \in MapWorkers, r \in ReduceTasks : \E k, l : Has(Arr(m, r), k, l, e) /\ pos[m][r] < k
      BY <2>2 DEF Ahead
    <3>2. PICK k, l : Has(Arr(m, r), k, l, e) /\ pos[m][r] < k
      BY <3>1
    <3>3. /\ Arr(m, r)[k].key = KeyOf(e) /\ Row(Arr(m, r)[k].key) = r /\ k \in 1..Len(Arr(m, r))
          /\ m \in MapThreads
      BY <3>2, NoneIn DEF MapInv, Keyed, Has
    <3>4. Row(min[1]) = work[w].task
      BY <1>2, <1>3, <1>5 DEF Progress
    <3>5. r = work[w].task
      BY <2>1, <3>3, <3>4
    <3>6. min[1] < Arr(m, r)[k].key
      BY <1>2, <1>3, <3>2, <3>3, <3>5 DEF Progress
    <3> QED BY <1>5, <2>1, <3>3, <3>6
  <2>3. CASE InItr(e)
    <3>1. PICK v \in Threads : \E k, l : Has(work[v].itr, k, l, e)
      BY <2>3 DEF InItr
    <3>2. Held(v) /\ Row(KeyOf(e)) = work[v].task
      BY <3>1, ItrHolder
    <3>3. Row(min[1]) = work[w].task
      BY <1>2, <1>3, <1>5 DEF Progress
    <3>4. v = w
      BY <1>2, <2>1, <3>2, <3>3 DEF TInv, HeldOK, HeldApart
    <3> QED BY <1>4, <3>1, <3>4
  <2>4. CASE InFinal(e)
    <3>1. PICK q, j : Entry(q, j) /\ e \in Val(q, j)
      BY <2>4 DEF InFinal
    <3>2. KeyOf(e) = Key(q, j) /\ Past(Key(q, j))
      BY <1>1, <3>1 DEF ReduceInv, Emitted
    <3>3. Row(min[1]) = work[w].task
      BY <1>2, <1>3, <1>5 DEF Progress
    <3>4. Past(min[1])
      BY <2>1, <3>2
    <3>5. min[1] < work[w].min[1]
      BY <3>3, <3>4 DEF Past
    <3> QED BY <1>3, <1>5, <3>5
  <2> QED BY <1>1, <2>2, <2>3, <2>4 DEF ReduceInv, Somewhere
<1>11. {e \in Emissions : work[w].min = <<KeyOf(e)>>}
         = UNION {UNION ToSet(list.vals) : list \in ToSet(work[w].itr)}
  BY <1>9, <1>10, <1>3, <1>4, <1>8
<1>12. Len(work[w].itr) \in 1..num_map_threads
  BY <1>4, <1>6, <1>7
<1> QED BY <1>11, <1>12

\* When reduce is called for a key, its iterator has the values of that key from all
\* the map workers and no others, and no more lists than iter_init made room for.
THEOREM JobGathersAll == Spec => []GatherComplete
<1>1. IInv /\ TInv /\ MapInv /\ ReduceInv => GatherComplete
  BY GatherHolds
<1> QED BY <1>1, ReduceInvariant, PTL

---------------
(* The merge workers. *)

\* The first record of array q of the input goes to the end of the worker's array.
Merges(w, q, x) ==
    /\ phase = "merge" /\ w \in 0..(num_merge_threads - 1) /\ w + 1 \in 1..Len(merge_vals)
    /\ q \in Slice(w) /\ q \in 1..Len(merge_input) /\ Len(merge_input[q]) \in Nat \ {0}
    /\ x = merge_input[q][1] /\ x \in Results /\ x.key \in Int
    /\ \A r \in Slice(w) : Len(merge_input[r]) # 0 => x.key <= merge_input[r][1].key
    /\ UNCHANGED <<args, phase, num_merge_threads, final_vals, result, pc>>
    /\ Len(merge_input') = Len(merge_input) /\ Len(merge_vals') = Len(merge_vals)
    /\ \A r \in 1..Len(merge_input) : r # q => merge_input'[r] = merge_input[r]
    /\ Len(merge_input'[q]) = Len(merge_input[q]) - 1
    /\ \A i \in 1..(Len(merge_input[q]) - 1) : merge_input'[q][i] = merge_input[q][i + 1]
    /\ \A v \in 1..Len(merge_vals) : v # w + 1 => merge_vals'[v] = merge_vals[v]
    /\ Len(merge_vals[w + 1]) \in Nat
    /\ Len(merge_vals'[w + 1]) = Len(merge_vals[w + 1]) + 1
    /\ \A i \in 1..Len(merge_vals[w + 1]) : merge_vals'[w + 1][i] = merge_vals[w + 1][i]
    /\ merge_vals'[w + 1][Len(merge_vals[w + 1]) + 1] = x

\* A merge step moves the first record of an input array, the least of its slice, to the
\* end of the worker's output.
LEMMA MergeEffect ==
    ASSUME IInv, TInv, NEW w \in Threads, MergeStep(w)
    PROVE  \E q, x : Merges(w, q, x)
<1>1. /\ phase = "merge" /\ w \in 0..(num_merge_threads - 1)
      /\ w + 1 \in 1..Len(merge_vals)
  BY MergeMove
<1>2. PICK q \in Slice(w) :
                 /\ q \in 1..Len(merge_input)
                 /\ Len(merge_input[q]) \in Nat \ {0} /\ merge_input[q] \in Seq(Results)
                 /\ \A r \in Slice(w) : Len(merge_input[r]) # 0 =>
                       /\ r \in 1..Len(merge_input)
                       /\ merge_input[q][1].key <= merge_input[r][1].key
                 /\ merge_input[q][1] \in Results
                 /\ Tail(merge_input[q]) \in Seq(Results)
                 /\ Len(Tail(merge_input[q])) = Len(merge_input[q]) - 1
                 /\ \A i \in 1..(Len(merge_input[q]) - 1) :
                       Tail(merge_input[q])[i] = merge_input[q][i + 1]
                 /\ merge_vals' = [merge_vals EXCEPT ![w + 1] = Append(@, merge_input[q][1])]
                 /\ merge_input' = [merge_input EXCEPT ![q] = Tail(@)]
  BY MergeMove
<1>3. merge_input \in Seq(Seq(Results)) /\ merge_vals \in Seq(Seq(Results))
  BY DEF TInv, MergeOK
<1>4. PICK x : x = merge_input[q][1]
  OBVIOUS
<1>5. PICK tail : tail = Tail(merge_input[q])
  OBVIOUS
<1>6. PICK out \in Seq(Results) : out = merge_vals[w + 1]
  BY <1>1, <1>3, ElementOfSeq
<1>7. PICK new : new = Append(out, x)
  OBVIOUS
<1>8. x \in Results /\ x.key \in Int
  BY <1>2, <1>4 DEF Results
<1>9. /\ Len(out) \in Nat /\ Len(new) = Len(out) + 1 /\ new[Len(out) + 1] = x
      /\ \A i \in 1..Len(out) : new[i] = out[i]
  BY <1>6, <1>7, <1>8
<1>10. merge_vals' = [merge_vals EXCEPT ![w + 1] = new] /\ merge_input' = [merge_input EXCEPT ![q] = tail]
  BY <1>2, <1>4, <1>5, <1>6, <1>7
<1>11. /\ Len(merge_input') = Len(merge_input) /\ merge_input'[q] = tail
       /\ \A r \in 1..Len(merge_input) : r # q => merge_input'[r] = merge_input[r]
  BY <1>2, <1>3, <1>10
<1>12. /\ Len(merge_vals') = Len(merge_vals) /\ merge_vals'[w + 1] = new
       /\ \A v \in 1..Len(merge_vals) : v # w + 1 => merge_vals'[v] = merge_vals[v]
  BY <1>1, <1>3, <1>10
<1>13. UNCHANGED <<args, phase, num_merge_threads, final_vals, result, pc>>
  BY DEF MergeStep, envVars, callerVars
<1>14. /\ Len(tail) = Len(merge_input[q]) - 1
       /\ \A i \in 1..(Len(merge_input[q]) - 1) : tail[i] = merge_input[q][i + 1]
  BY <1>2, <1>5
<1>15. \A r \in Slice(w) : Len(merge_input[r]) # 0 => x.key <= merge_input[r][1].key
  BY <1>2, <1>4
<1>16. /\ Len(merge_vals[w + 1]) \in Nat
       /\ Len(merge_vals'[w + 1]) = Len(merge_vals[w + 1]) + 1
       /\ \A i \in 1..Len(merge_vals[w + 1]) : merge_vals'[w + 1][i] = merge_vals[w + 1][i]
       /\ merge_vals'[w + 1][Len(merge_vals[w + 1]) + 1] = x
  BY <1>6, <1>9, <1>12
<1>17. /\ Len(merge_input'[q]) = Len(merge_input[q]) - 1
       /\ \A i \in 1..(Len(merge_input[q]) - 1) : merge_input'[q][i] = merge_input[q][i + 1]
  BY <1>11, <1>14
<1>18. q \in Slice(w) /\ q \in 1..Len(merge_input) /\ Len(merge_input[q]) \in Nat \ {0}
  BY <1>2
<1>19. Merges(w, q, x)
  BY <1>1, <1>4, <1>8, <1>11, <1>12, <1>13, <1>15, <1>16, <1>17, <1>18 DEF Merges
<1> QED BY <1>19

\* What a worker has merged is not above what it has left, and a worker that has
\* returned has nothing left.
Below(a, b) == \A i \in 1..Len(a), j \in 1..Len(b) : a[i].key <= b[j].key
Ordered ==
    /\ \A q \in 1..Len(merge_vals) : Sorted(merge_vals[q])
    /\ phase = "merge" =>
          /\ \A q \in 1..Len(merge_input) : Sorted(merge_input[q])
          /\ \A w \in 0..(num_merge_threads - 1) : \A q \in Slice(w) :
                Below(merge_vals[w + 1], merge_input[q])
    /\ phase = "done" => Sorted(result)
SlicesDone ==
    phase = "merge" =>
        \A w \in Threads : w < num_merge_threads /\ pc[w] = "off" =>
            \A q \in Slice(w) : Len(merge_input[q]) = 0

\* Of two places of an array that has got one more record the first is an old one.
LEMMA OneMore ==
    ASSUME NEW n \in Nat, NEW i \in 1..(n + 1), NEW j \in 1..(n + 1), i < j
    PROVE  i \in 1..n /\ (j \in 1..n \/ j = n + 1)
OBVIOUS

\* A sorted array to whose end a key as great as any is appended is sorted, ...
LEMMA SortedGrows ==
    ASSUME NEW S, NEW s \in Seq(S), NEW t \in Seq(S), \A x \in S : x.key \in Int, Sorted(s),
           Len(t) = Len(s) + 1, \A i \in 1..Len(s) : t[i] = s[i],
           \A i \in 1..Len(s) : s[i].key <= t[Len(s) + 1].key
    PROVE  Sorted(t)
<1>1. Len(s) \in Nat /\ DOMAIN s = 1..Len(s) /\ DOMAIN t = 1..(Len(s) + 1)
  OBVIOUS
<1>2. \A i, j \in 1..Len(s) : i < j => s[i].key <= s[j].key
  BY <1>1 DEF Sorted
<1>3. SUFFICES ASSUME NEW i \in 1..(Len(s) + 1), NEW j \in 1..(Len(s) + 1), i < j
               PROVE  t[i].key <= t[j].key
  BY <1>1 DEF Sorted
<1>4. i \in 1..Len(s) /\ (j \in 1..Len(s) \/ j = Len(s) + 1)
  <2>1. PICK n \in Nat : n = Len(s)
    BY <1>1, Zenon
  <2>2. n \in Nat /\ i \in 1..(n + 1) /\ j \in 1..(n + 1) /\ i < j
    BY <1>3, <2>1
  <2>3. i \in 1..n /\ (j \in 1..n \/ j = n + 1)
    BY <2>2, OneMore, Zenon
  <2> QED BY <2>1, <2>3
<1>5. CASE j \in 1..Len(s)
  BY <1>2, <1>3, <1>4, <1>5
<1>6. CASE j = Len(s) + 1
  BY <1>4, <1>6
<1> QED BY <1>4, <1>5, <1>6

\* ... and so is one without its first record.
LEMMA SortedShrinks ==
    ASSUME NEW S, NEW s \in Seq(S), NEW t \in Seq(S), \A x \in S : x.key \in Int, Sorted(s),
           Len(s) # 0, Len(t) = Len(s) - 1, \A i \in 1..(Len(s) - 1) : t[i] = s[i + 1]
    PROVE  Sorted(t)
<1>1. Len(s) \in Nat /\ DOMAIN s = 1..Len(s) /\ DOMAIN t = 1..(Len(s) - 1)
  OBVIOUS
<1>2. \A i, j \in 1..Len(s) : i < j => s[i].key <= s[j].key
  BY <1>1 DEF Sorted
<1>3. SUFFICES ASSUME NEW i \in 1..(Len(s) - 1), NEW j \in 1..(Len(s) - 1), i < j
               PROVE  t[i].key <= t[j].key
  BY <1>1 DEF Sorted
<1>4. i + 1 \in 1..Len(s) /\ j + 1 \in 1..Len(s) /\ i + 1 < j + 1
  BY <1>1, <1>3
<1> QED BY <1>2, <1>3, <1>4

\* t is s, or what is left of it without its first record.
Rest(t, s) == \/ t = s
              \/ /\ Len(s) \in Nat \ {0} /\ Len(t) = Len(s) - 1
                 /\ \A i \in 1..(Len(s) - 1) : t[i] = s[i + 1]
\* t is s with one record more.
Longer(t, s, x) == /\ Len(s) \in Nat /\ Len(t) = Len(s) + 1 /\ t[Len(s) + 1] = x
                   /\ \A i \in 1..Len(s) : t[i] = s[i]

\* A record of what is left of an array was in the array.
LEMMA RestIn ==
    ASSUME NEW S, NEW s \in Seq(S), NEW t \in Seq(S), Rest(t, s), NEW j \in 1..Len(t)
    PROVE  \E i \in 1..Len(s) : t[j] = s[i]
<1>1. CASE t = s
  BY <1>1
<1>2. CASE Len(s) \in Nat \ {0} /\ Len(t) = Len(s) - 1 /\ \A i \in 1..(Len(s) - 1) : t[i] = s[i + 1]
  <2>1. PICK n \in Nat \ {0} : n = Len(s)
    BY <1>2
  <2>2. j \in 1..(n - 1) /\ j + 1 \in 1..n
    BY <1>2, <2>1
  <2>3. t[j] = s[j + 1]
    BY <1>2, <2>1, <2>2
  <2> QED BY <2>1, <2>2, <2>3
<1> QED BY <1>1, <1>2 DEF Rest

\* What is left of a sorted array is sorted.
LEMMA RestSorted ==
    ASSUME NEW S, NEW s \in Seq(S), NEW t \in Seq(S), \A x \in S : x.key \in Int, Sorted(s),
           Rest(t, s)
    PROVE  Sorted(t)
<1>1. CASE t = s
  BY <1>1
<1>2. CASE Len(s) \in Nat \ {0} /\ Len(t) = Len(s) - 1 /\ \A i \in 1..(Len(s) - 1) : t[i] = s[i + 1]
  BY <1>2, SortedShrinks
<1> QED BY <1>1, <1>2 DEF Rest

\* What is below an array is below what is left of it.
LEMMA BelowRest ==
    ASSUME NEW S, NEW out, NEW in \in Seq(S), NEW rest \in Seq(S), Below(out, in), Rest(rest, in)
    PROVE  Below(out, rest)
<1> SUFFICES ASSUME NEW i \in 1..Len(out), NEW j \in 1..Len(rest)
             PROVE  out[i].key <= rest[j].key
  BY DEF Below
<1>1. PICK k \in 1..Len(in) : rest[j] = in[k]
  BY RestIn
<1> QED BY <1>1 DEF Below

\* An output to which the slice's least record is appended stays below its inputs.
LEMMA BelowLonger ==
    ASSUME NEW S, \A r \in S : r.key \in Int,
           NEW out, NEW longer, NEW x \in S, Longer(longer, out, x),
           NEW in \in Seq(S), Sorted(in), Len(in) # 0 => x.key <= in[1].key, Below(out, in)
    PROVE  Below(longer, in)
<1> SUFFICES ASSUME NEW i \in 1..Len(longer), NEW j \in 1..Len(in)
             PROVE  longer[i].key <= in[j].key
  BY DEF Below
<1>1. PICK n \in Nat : n = Len(out)
  BY DEF Longer
<1>2. i \in 1..n \/ i = n + 1
  BY <1>1 DEF Longer
<1>3. CASE i \in 1..n
  BY <1>1, <1>3 DEF Longer, Below
<1>4. CASE i = n + 1
  <2>1. PICK k \in Nat : k = Len(in)
    OBVIOUS
  <2>2. 1 \in 1..k /\ j \in 1..k /\ DOMAIN in = 1..k /\ Len(in) # 0
    BY <2>1
  <2>3. in[1] \in S /\ in[j] \in S
    BY <2>1, <2>2, ElementOfSeq
  <2>4. in[1].key <= in[j].key
    <3>1. CASE j = 1
      BY <2>3, <3>1
    <3>2. CASE j # 1
      <4>1. 1 < j
        BY <2>2, <3>2
      <4> QED BY <2>2, <4>1 DEF Sorted
    <3> QED BY <3>1, <3>2
  <2>5. longer[i] = x /\ x.key <= in[1].key
    BY <1>1, <1>4, <2>2 DEF Longer
  <2>6. x.key \in Int /\ in[1].key \in Int /\ in[j].key \in Int
    BY <2>3
  <2> QED BY <2>4, <2>5, <2>6
<1> QED BY <1>2, <1>3, <1>4

\* An output below its inputs stays sorted when the first of an input is appended.
LEMMA SortedLonger ==
    ASSUME NEW S, \A r \in S : r.key \in Int,
           NEW out \in Seq(S), NEW longer \in Seq(S), NEW x \in S, Longer(longer, out, x),
           NEW in, Len(in) \in Nat \ {0}, in[1] = x, Below(out, in), Sorted(out)
    PROVE  Sorted(longer)
<1>1. \A i \in 1..Len(out) : out[i].key <= longer[Len(out) + 1].key
  <2>1. 1 \in 1..Len(in)
    OBVIOUS
  <2> QED BY <2>1 DEF Below, Longer
<1> QED BY <1>1, SortedGrows DEF Longer

\* An empty array is sorted and below every other.
LEMMA EmptySorted == Sorted(<<>>) /\ \A a : Below(<<>>, a)
<1>1. 1..Len(<<>>) = {} /\ DOMAIN <<>> = {}
  OBVIOUS
<1> QED BY <1>1 DEF Sorted, Below

\* The slices are those of the numbers of arrays and threads.
LEMMA SliceStay ==
    ASSUME Len(merge_input') = Len(merge_input), num_merge_threads' = num_merge_threads
    PROVE  \A w : Slice(w)' = Slice(w)
BY DEF Slice, SliceLength, Min2

\* A merge step keeps the outputs sorted and below the inputs of their slices.
LEMMA OrderedStep ==
    ASSUME IInv, TInv, TInv', Ordered, NEW w, NEW q, NEW x, Merges(w, q, x)
    PROVE  Ordered'
<1>1. /\ merge_input \in Seq(Seq(Results)) /\ merge_vals \in Seq(Seq(Results))
      /\ merge_input' \in Seq(Seq(Results)) /\ merge_vals' \in Seq(Seq(Results))
  <2>1. Results' = Results
    BY ArgsStay DEF Merges
  <2> QED BY <2>1 DEF TInv, MergeOK
<1>2. \A r \in Results : r.key \in Int
  BY DEF Results
<1>3. PICK in : in = merge_input'
  OBVIOUS
<1>4. PICK out : out = merge_vals'
  OBVIOUS
<1>5. /\ phase = "merge" /\ w \in 0..(num_merge_threads - 1) /\ w + 1 \in 1..Len(merge_vals)
      /\ q \in Slice(w) /\ q \in 1..Len(merge_input) /\ Len(merge_input[q]) \in Nat \ {0}
      /\ x = merge_input[q][1] /\ x \in Results
      /\ \A r \in Slice(w) : Len(merge_input[r]) # 0 => x.key <= merge_input[r][1].key
      /\ Len(in) = Len(merge_input) /\ Len(out) = Len(merge_vals)
      /\ \A v \in 1..Len(merge_vals) : v # w + 1 => out[v] = merge_vals[v]
  BY <1>3, <1>4 DEF Merges
<1>6. \A r \in 1..Len(in) : /\ in[r] \in Seq(Results) /\ merge_input[r] \in Seq(Results)
                            /\ Rest(in[r], merge_input[r])
  BY <1>3, <1>1, <1>5, ElementOfSeq DEF Merges, Rest
<1>7. Longer(out[w + 1], merge_vals[w + 1], x)
  BY <1>4 DEF Merges, Longer
<1>8. \A v \in 1..Len(out) : out[v] \in Seq(Results) /\ merge_vals[v] \in Seq(Results)
  BY <1>1, <1>4, <1>5, ElementOfSeq
<1>9. /\ \A v \in 1..Len(merge_vals) : Sorted(merge_vals[v])
      /\ \A r \in 1..Len(merge_input) : Sorted(merge_input[r])
      /\ \A v \in 0..(num_merge_threads - 1) : \A r \in Slice(v) :
            Below(merge_vals[v + 1], merge_input[r])
  BY <1>5 DEF Ordered
<1>10. Len(merge_vals) = num_merge_threads /\ num_merge_threads \in Nat \ {0} /\ Len(merge_input) \in Nat
  BY <1>1, <1>5 DEF TInv, MergeOK, IInv, Counts
<1>11. \A v \in 0..(num_merge_threads - 1) : v + 1 \in 1..Len(merge_vals) /\ Slice(v) \subseteq 1..Len(merge_input)
  BY <1>10, SliceIn
<1>12. \A r \in 1..Len(in) : Sorted(in[r])
  BY <1>2, <1>5, <1>6, <1>9, RestSorted
<1>13. ASSUME NEW v \in 1..Len(out) PROVE Sorted(out[v])
  <2>1. CASE v # w + 1
    BY <1>5, <1>9, <1>13, <2>1
  <2>2. CASE v = w + 1
    <3>1. Below(merge_vals[w + 1], merge_input[q]) /\ Sorted(merge_vals[w + 1])
      BY <1>5, <1>9
    <3>2. out[w + 1] \in Seq(Results) /\ merge_vals[w + 1] \in Seq(Results)
      BY <1>5, <1>8
    <3>3. Sorted(out[w + 1])
      BY <1>2, <1>5, <1>7, <3>1, <3>2, SortedLonger, SMTT(60)
    <3> QED BY <2>2, <3>3
  <2> QED BY <2>1, <2>2
<1>14. ASSUME NEW v \in 0..(num_merge_threads - 1), NEW r \in Slice(v)
       PROVE  Below(out[v + 1], in[r])
  <2>1. r \in 1..Len(merge_input) /\ v + 1 \in 1..Len(merge_vals) /\ Below(merge_vals[v + 1], merge_input[r])
    BY <1>9, <1>11
  <2>2. Below(out[v + 1], merge_input[r])
    <3>1. CASE v = w
      <4>1. Sorted(merge_input[r]) /\ merge_input[r] \in Seq(Results)
        BY <1>5, <1>6, <1>9, <2>1
      <4>2. Len(merge_input[r]) # 0 => x.key <= merge_input[r][1].key
        BY <1>5, <3>1
      <4>3. Longer(out[v + 1], merge_vals[v + 1], x)
        BY <1>7, <3>1
      <4> QED BY <1>2, <1>5, <2>1, <4>1, <4>2, <4>3, BelowLonger, SMTT(60)
    <3>2. CASE v # w
      <4>1. v + 1 # w + 1
        BY <1>5, <1>10, <3>2
      <4> QED BY <1>5, <2>1, <4>1
    <3> QED BY <3>1, <3>2
  <2> QED BY <1>5, <1>6, <2>1, <2>2, BelowRest
<1>15. /\ phase' = "merge" /\ num_merge_threads' = num_merge_threads /\ \A v : Slice(v)' = Slice(v)
  BY SliceStay DEF Merges
<1>16. \A v \in 0..(num_merge_threads' - 1) : \A r \in Slice(v)' : Below(merge_vals'[v + 1], merge_input'[r])
  BY <1>3, <1>4, <1>14, <1>15
<1> QED BY <1>3, <1>4, <1>12, <1>13, <1>15, <1>16 DEF Ordered

\* The merge phase starts from sorted arrays of results, or has one, which is the result.
LEMMA OrderedStarts ==
    ASSUME IInv, TInv, FinalApart, StartMerge
    PROVE  \/ Ordered'
           \/ phase' # "merge" /\ result' = final_vals[1] /\ merge_vals' = merge_vals
<1>1. CASE phase' = "merge"
  <2>1. /\ merge_input' = final_vals /\ num_merge_threads' = num_merge_threads
        /\ num_merge_threads \in Nat \ {0}
        /\ merge_vals' = [w \in 1..num_merge_threads |-> <<>>]
    BY <1>1, MergeStarts
  <2>2. \A q \in 1..Len(merge_input') : Sorted(merge_input'[q])
    BY <2>1, FinalArrays DEF FinalApart
  <2>3. PICK none : none = [w \in 1..num_merge_threads |-> <<>>]
    OBVIOUS
  <2>4. Len(none) = num_merge_threads /\ \A q \in 1..num_merge_threads : none[q] = <<>>
    BY <2>1, <2>3, EmptyArrays
  <2>5. \A v \in 0..(num_merge_threads - 1) : v + 1 \in 1..num_merge_threads
    BY <2>1
  <2>6. \A v \in 0..(num_merge_threads' - 1) : \A r \in Slice(v)' : Below(merge_vals'[v + 1], merge_input'[r])
    BY <2>1, <2>3, <2>4, <2>5, EmptySorted
  <2>7. \A q \in 1..Len(merge_vals') : Sorted(merge_vals'[q])
    BY <2>1, <2>3, <2>4, EmptySorted
  <2> QED BY <1>1, <2>2, <2>6, <2>7 DEF Ordered
<1>2. CASE phase' # "merge"
  BY <1>2, MergeStarts
<1> QED BY <1>1, <1>2

\* The next round starts from the sorted outputs of the last.
LEMMA OrderedRound ==
    ASSUME IInv, TInv, Ordered, NextMergeRound
    PROVE  Ordered'
<1>1. \A q \in 1..Len(merge_vals) : Sorted(merge_vals[q])
  BY DEF Ordered
<1>2. CASE phase' = "merge"
  <2>1. /\ merge_input' = merge_vals /\ num_merge_threads' \in Nat \ {0}
        /\ merge_vals' = [w \in 1..num_merge_threads' |-> <<>>]
    BY <1>2, RoundEnds
  <2>2. PICK n \in Nat \ {0} : n = num_merge_threads'
    BY <2>1
  <2>3. PICK none : none = [w \in 1..n |-> <<>>]
    OBVIOUS
  <2>4. Len(none) = n /\ \A q \in 1..n : none[q] = <<>>
    BY <2>3, EmptyArrays
  <2>5. \A v \in 0..(n - 1) : v + 1 \in 1..n
    OBVIOUS
  <2>6. \A v \in 0..(num_merge_threads' - 1) : \A r \in Slice(v)' : Below(merge_vals'[v + 1], merge_input'[r])
    BY <2>1, <2>2, <2>3, <2>4, <2>5, EmptySorted
  <2>7. \A q \in 1..Len(merge_vals') : Sorted(merge_vals'[q])
    BY <2>1, <2>2, <2>3, <2>4, EmptySorted
  <2> QED BY <1>1, <1>2, <2>1, <2>6, <2>7 DEF Ordered
<1>3. CASE phase' # "merge"
  BY <1>3, <1>1, RoundEnds DEF Ordered
<1> QED BY <1>2, <1>3

\* Every step keeps the order.
LEMMA OrderedKeep ==
    ASSUME IInv, TInv, ReduceInv, Ordered, [Next]_vars, TInv'
    PROVE  Ordered'
<1>1. CASE NextCall
  BY <1>1 DEF NextCall, Ordered
<1>2. CASE StartMerge
  <2>1. FinalApart
    BY DEF ReduceInv
  <2>2. CASE Ordered'
    BY <2>2
  <2>3. CASE phase' # "merge" /\ result' = final_vals[1] /\ merge_vals' = merge_vals
    <3>1. 1 \in 1..Len(final_vals)
      <4>1. PICK n \in Nat \ {0} : n = Len(final_vals)
        BY FinalArrays
      <4> QED BY <4>1
    <3>2. 1 \in Queues(args)
      BY <3>1, FinalArrays
    <3>3. Sorted(final_vals[1])
      BY <2>1, <3>2 DEF FinalApart
    <3> QED BY <2>3, <3>3 DEF Ordered
  <2> QED BY <1>2, <2>1, <2>2, <2>3, OrderedStarts
<1>3. CASE NextMergeRound
  BY <1>3, OrderedRound
<1>4. ASSUME NEW w \in Threads, MergeStep(w) PROVE Ordered'
  <2>1. PICK q, x : Merges(w, q, x)
    BY <1>4, MergeEffect
  <2> QED BY <2>1, OrderedStep
<1>5. CASE UNCHANGED <<args, mergeVars>> /\ ~NextCall /\ ~StartMerge /\ ~NextMergeRound
  <2>1. UNCHANGED <<merge_input, merge_vals, result>>
    BY <1>5 DEF mergeVars
  <2>2. phase' = "merge" => phase = "merge" /\ num_merge_threads' = num_merge_threads
    BY <1>5, PhaseChange DEF StartMap, StartReduce, map_reduce_finalize
  <2>3. phase' = "done" => phase = "done"
    BY <1>5, PhaseChange DEF StartMap, StartReduce, map_reduce_finalize
  <2>4. num_merge_threads' = num_merge_threads => \A w : Slice(w)' = Slice(w)
    BY <2>1, SliceStay
  <2>5. CASE phase' = "merge"
    BY <2>2, <2>5, <2>1, <2>4 DEF Ordered
  <2>6. CASE phase' # "merge"
    BY <2>1, <2>3, <2>6 DEF Ordered
  <2> QED BY <2>5, <2>6
<1> QED BY <1>1, <1>2, <1>3, <1>4, <1>5, MergeChange

\* A merge worker that is off has emptied its slice.
LEMMA SlicesDoneKeep ==
    ASSUME IInv, TInv, SlicesDone, [Next]_vars, IInv', TInv'
    PROVE  SlicesDone'
<1> SUFFICES ASSUME phase' = "merge" PROVE SlicesDone'
  BY DEF SlicesDone
<1>1. pc \in [Threads -> Places] /\ pc' \in [Threads -> Places]
  BY DEF IInv
<1>2. CASE StartMerge \/ NextMergeRound
  BY <1>2, MergeStarts, RoundEnds DEF SlicesDone
<1>3. ASSUME NEW w \in Threads, MergeStep(w) PROVE SlicesDone'
  <2>1. PICK q, x : Merges(w, q, x)
    BY <1>3, MergeEffect
  <2>2. pc[w] = "merge" /\ pc' = pc /\ phase = "merge"
    BY <1>3, <2>1 DEF MergeStep, Merges
  <2>3. \A v : Slice(v)' = Slice(v)
    BY <2>1, SliceStay DEF Merges
  <2>4. /\ Len(merge_input) \in Nat /\ num_merge_threads \in Nat \ {0}
        /\ 2 * num_merge_threads <= Len(merge_input)
    BY <2>2 DEF TInv, MergeOK, IInv, Counts
  <2>5. SUFFICES ASSUME NEW v \in Threads, v < num_merge_threads, pc[v] = "off", NEW r \in Slice(v)
                 PROVE  Len(merge_input'[r]) = 0
    BY <2>1, <2>2, <2>3 DEF SlicesDone, Merges
  <2>6. v \in 0..(num_merge_threads - 1) /\ v # w
    <3>1. v \in Nat
      BY MaxThreadsAssumption DEF Threads
    <3> QED BY <2>2, <2>4, <2>5, <3>1
  <2>7. Len(merge_input[r]) = 0
    BY <2>2, <2>5 DEF SlicesDone
  <2>8. r \in 1..Len(merge_input)
    BY <2>4, <2>5, <2>6, SliceIn
  <2>9. r # q
    BY <2>1, <2>7 DEF Merges
  <2> QED BY <2>1, <2>7, <2>8, <2>9 DEF Merges
<1>4. ASSUME NEW w \in Threads, FinishMerge(w) PROVE SlicesDone'
  <2>1. /\ Live(w) = {} /\ pc' = [pc EXCEPT ![w] = "off"] /\ phase = "merge"
        /\ UNCHANGED <<merge_input, num_merge_threads>>
    BY <1>4 DEF FinishMerge, Goto, envVars, callerVars, mergeVars
  <2>2. \A v : Slice(v)' = Slice(v)
    BY <2>1, SliceStay
  <2>3. /\ Len(merge_input) \in Nat /\ num_merge_threads \in Nat \ {0}
        /\ merge_input \in Seq(Seq(Results))
    BY <2>1 DEF TInv, MergeOK, IInv, Counts
  <2>4. \A q \in Slice(w) : w \in 0..(num_merge_threads - 1) => Len(merge_input[q]) = 0
    BY <2>1, <2>3, SliceIn DEF Live
  <2>5. \A v \in Threads : pc'[v] = IF v = w THEN "off" ELSE pc[v]
    BY <1>1, <2>1
  <2>6. SUFFICES ASSUME NEW v \in Threads, v < num_merge_threads, pc'[v] = "off", NEW r \in Slice(v)
                 PROVE  Len(merge_input[r]) = 0
    BY <2>1, <2>2 DEF SlicesDone
  <2>7. v \in 0..(num_merge_threads - 1)
    <3>1. v \in Nat
      BY MaxThreadsAssumption DEF Threads
    <3> QED BY <2>3, <2>6, <3>1
  <2>8. CASE v = w
    BY <2>4, <2>6, <2>7, <2>8
  <2>9. CASE v # w
    <3>1. pc[v] = "off"
      BY <2>5, <2>6, <2>9
    <3> QED BY <2>1, <2>6, <3>1 DEF SlicesDone
  <2> QED BY <2>8, <2>9
<1>5. CASE /\ ~StartMerge /\ ~NextMergeRound /\ \A w \in Threads : ~MergeStep(w) /\ ~FinishMerge(w)
  <2>1. phase = "merge"
    BY <1>5, PhaseChange DEF StartMap, StartReduce, NextCall, map_reduce_finalize
  <2>2. UNCHANGED <<merge_input, num_merge_threads, pc>>
    <3>1. \A w \in Threads : pc[w] \in {"off", "merge"}
      BY <2>1 DEF TInv, PlacesOK, PlacesIn
    <3> QED BY <1>5, <2>1, <3>1, Steps, ZenonT(60) DEF Split, StartMap, StartReduce, NextCall, map_reduce_finalize,
             NextMapTask, emit_intermediate, EndMapTask, FinishMap, NextReduceTask, Gather,
             Reduce, identity_reduce, FinishReduce, Goto, jobVars, envVars, mergeVars
  <2>3. \A v : Slice(v)' = Slice(v)
    BY <2>2, SliceStay
  <2> QED BY <2>1, <2>2, <2>3 DEF SlicesDone
<1> QED BY <1>2, <1>3, <1>4, <1>5

\* The merge layer holds initially.
LEMMA MergeInit ==
    ASSUME Init
    PROVE  Ordered /\ SlicesDone
<1>1. 1..Len(<<>>) = {}
  OBVIOUS
<1> QED BY <1>1 DEF Init, Ordered, SlicesDone

\* The fourth layer of the invariant: what a merge round has put in order.
LEMMA OrderInvariant == Spec => [](IInv /\ TInv /\ MapInv /\ ReduceInv /\ Ordered /\ SlicesDone)
<1>1. Init => Ordered /\ SlicesDone
  BY MergeInit
<1>2. IInv /\ TInv /\ ReduceInv /\ Ordered /\ [Next]_vars /\ TInv' => Ordered'
  BY OrderedKeep
<1>3. IInv /\ TInv /\ SlicesDone /\ [Next]_vars /\ IInv' /\ TInv' => SlicesDone'
  BY SlicesDoneKeep
<1>4. Spec => [](IInv /\ TInv /\ MapInv /\ ReduceInv)
  BY ReduceInvariant
<1> QED BY <1>1, <1>2, <1>3, <1>4, PTL DEF Spec

\* ArraysSorted follows.
LEMMA SortedHolds ==
    ASSUME IInv, TInv, ReduceInv, Ordered
    PROVE  ArraysSorted
<1>1. \A m \in DOMAIN intermediate_vals : \A r \in ReduceTasks : StrictlySorted(intermediate_vals[m][r])
  BY DEF TInv, ArraysOK, Arr
<1>2. \A q \in DOMAIN final_vals : Sorted(final_vals[q])
  BY DEF TInv, FinalOK, ReduceInv, FinalApart
<1>3. \A q \in DOMAIN merge_vals : Sorted(merge_vals[q])
  <2>1. DOMAIN merge_vals = 1..Len(merge_vals)
    BY DEF TInv, MergeOK
  <2> QED BY <2>1 DEF Ordered
<1> QED BY <1>1, <1>2, <1>3 DEF ArraysSorted

\* The arrays of every map thread hold each key once, in ascending order, and those of
\* results and of every merge round are sorted by key, whatever the workers do: emit
\* appends without looking where the keys come in order and inserts where they do
\* not, and a merge worker always appends the least key of its slice.
THEOREM JobArraysSorted == Spec => []ArraysSorted
<1>1. IInv /\ TInv /\ ReduceInv /\ Ordered => ArraysSorted
  BY SortedHolds
<1> QED BY <1>1, OrderInvariant, PTL

---------------
(* Where the records are while they are merged. *)

\* Record r is in the first or the second of two sets of arrays.
Spot(x, y, b, q, j, r) ==
    \/ b = 1 /\ q \in 1..Len(x) /\ j \in 1..Len(x[q]) /\ r = x[q][j]
    \/ b = 2 /\ q \in 1..Len(y) /\ j \in 1..Len(y[q]) /\ r = y[q][j]

\* No emission is in two records, no key if the reduce function emits one value for
\* each, and an emission is under its key.
Lawful(a, x, y) ==
    /\ \A b, q, j, r, c, p, i, s : Spot(x, y, b, q, j, r) /\ Spot(x, y, c, p, i, s) =>
          \/ b = c /\ q = p /\ j = i
          \/ /\ \A e : e \in r.val => e \notin s.val
             /\ a.identity_reduce \/ r.key # s.key
    /\ \A b, q, j, r : Spot(x, y, b, q, j, r) => \A e \in r.val : a.emits[e[1]][e[2]] = r.key

\* Every emission is in a record.
Whole(E, x, y) == \A e \in E : \E b, q, j, r : Spot(x, y, b, q, j, r) /\ e \in r.val

Merging == /\ phase = "merge" => Lawful(args, merge_input, merge_vals)
           /\ phase = "done" => Lawful(args, <<result>>, <<>>)
AllMerged == /\ phase = "merge" => Whole(Emissions, merge_input, merge_vals)
             /\ phase = "done" => Whole(Emissions, <<result>>, <<>>)

\* Where a record was before a step of worker v + 1, which has n records and takes the
\* first of array a.
Came(a, v, n, b, q, j, c, p, i) ==
    \/ b = 1 /\ c = 1 /\ q = p /\ q # a /\ i = j
    \/ b = 1 /\ c = 1 /\ q = a /\ p = a /\ i = j + 1
    \/ b = 2 /\ c = 2 /\ q = p /\ i = j /\ ~(q = v /\ j = n + 1)
    \/ b = 2 /\ c = 1 /\ q = v /\ j = n + 1 /\ p = a /\ i = 1

\* The arrays x and y with the first record of array a of x at the end of array v of y.
Moved(x, y, a, v, x2, y2) ==
    /\ a \in 1..Len(x) /\ Len(x2) = Len(x) /\ Rest(x2[a], x[a]) /\ x2[a] # x[a]
    /\ \A q \in 1..Len(x) : Len(x[q]) \in Nat /\ (q # a => x2[q] = x[q])
    /\ v \in 1..Len(y) /\ Len(y2) = Len(y) /\ Longer(y2[v], y[v], x[a][1])
    /\ \A q \in 1..Len(y) : Len(y[q]) \in Nat /\ (q # v => y2[q] = y[q])

\* Where a record was before it moved, ...
LEMMA SpotBefore ==
    ASSUME NEW x, NEW y, NEW a, NEW v, NEW x2, NEW y2, Moved(x, y, a, v, x2, y2),
           NEW b, NEW q, NEW j, NEW r, Spot(x2, y2, b, q, j, r)
    PROVE  j \in Nat \ {0} /\ \E c, p, i : Spot(x, y, c, p, i, r) /\ Came(a, v, Len(y[v]), b, q, j, c, p, i)
<1>1. PICK m \in Nat \ {0} : m = Len(x[a])
  BY DEF Moved, Rest
<1>2. PICK n \in Nat : n = Len(y[v])
  BY DEF Moved, Longer
<1>3. /\ Len(x2[a]) = m - 1 /\ \A i \in 1..(m - 1) : x2[a][i] = x[a][i + 1]
      /\ Len(y2[v]) = n + 1 /\ y2[v][n + 1] = x[a][1] /\ \A i \in 1..n : y2[v][i] = y[v][i]
  BY <1>1, <1>2 DEF Moved, Rest, Longer
<1>4. CASE b = 1 /\ q \in 1..Len(x2) /\ j \in 1..Len(x2[q]) /\ r = x2[q][j] /\ q # a
  <2>1. Spot(x, y, 1, q, j, r)
    BY <1>4 DEF Moved, Spot
  <2>2. Came(a, v, Len(y[v]), b, q, j, 1, q, j)
    BY <1>4 DEF Came
  <2>3. j \in Nat \ {0}
    <3>1. Len(x2[q]) \in Nat
      BY <1>4 DEF Moved
    <3> QED BY <1>4, <3>1
  <2> QED BY <2>1, <2>2, <2>3
<1>5. CASE b = 1 /\ j \in 1..Len(x2[q]) /\ r = x2[q][j] /\ q = a
  <2>1. j \in 1..(m - 1) /\ j + 1 \in 1..m /\ r = x[a][j + 1]
    BY <1>1, <1>3, <1>5
  <2>2. Spot(x, y, 1, a, j + 1, r)
    BY <1>1, <2>1 DEF Moved, Spot
  <2>3. Came(a, v, Len(y[v]), b, q, j, 1, a, j + 1)
    BY <1>5 DEF Came
  <2> QED BY <2>1, <2>2, <2>3
<1>6. CASE b = 2 /\ q \in 1..Len(y2) /\ j \in 1..Len(y2[q]) /\ r = y2[q][j] /\ q # v
  <2>1. Spot(x, y, 2, q, j, r)
    BY <1>6 DEF Moved, Spot
  <2>2. Came(a, v, Len(y[v]), b, q, j, 2, q, j)
    BY <1>6 DEF Came
  <2>3. j \in Nat \ {0}
    <3>1. Len(y2[q]) \in Nat
      BY <1>6 DEF Moved
    <3> QED BY <1>6, <3>1
  <2> QED BY <2>1, <2>2, <2>3
<1>7. CASE b = 2 /\ j \in 1..(n + 1) /\ r = y2[v][j] /\ q = v /\ j # n + 1
  <2>1. j \in 1..n /\ r = y[v][j]
    BY <1>3, <1>7
  <2>2. Spot(x, y, 2, v, j, r)
    BY <1>2, <2>1 DEF Moved, Spot
  <2>3. Came(a, v, Len(y[v]), b, q, j, 2, v, j)
    BY <1>2, <1>7 DEF Came
  <2> QED BY <2>1, <2>2, <2>3
<1>8. CASE b = 2 /\ r = y2[v][j] /\ q = v /\ j = n + 1
  BY <1>3, <1>8, <1>1, <1>2 DEF Moved, Spot, Came
<1>9. \/ b = 1 /\ q \in 1..Len(x2) /\ j \in 1..Len(x2[q]) /\ r = x2[q][j]
      \/ b = 2 /\ q \in 1..Len(y2) /\ j \in 1..Len(y2[q]) /\ r = y2[q][j]
  BY DEF Spot
<1> QED BY <1>3, <1>4, <1>5, <1>6, <1>7, <1>8, <1>9

\* ... and where it is afterwards.
LEMMA SpotAfter ==
    ASSUME NEW x, NEW y, NEW a, NEW v, NEW x2, NEW y2, Moved(x, y, a, v, x2, y2),
           NEW c, NEW p, NEW i, NEW r, Spot(x, y, c, p, i, r)
    PROVE  \E b, q, j : Spot(x2, y2, b, q, j, r)
<1>1. PICK m \in Nat \ {0} : m = Len(x[a])
  BY DEF Moved, Rest
<1>2. PICK n \in Nat : n = Len(y[v])
  BY DEF Moved, Longer
<1>3. /\ Len(x2[a]) = m - 1 /\ \A k \in 1..(m - 1) : x2[a][k] = x[a][k + 1]
      /\ Len(y2[v]) = n + 1 /\ y2[v][n + 1] = x[a][1] /\ \A k \in 1..n : y2[v][k] = y[v][k]
  BY <1>1, <1>2 DEF Moved, Rest, Longer
<1>4. CASE c = 1 /\ p \in 1..Len(x) /\ i \in 1..Len(x[p]) /\ r = x[p][i] /\ p # a
  <2>1. Spot(x2, y2, 1, p, i, r)
    BY <1>4 DEF Moved, Spot
  <2> QED BY <2>1
<1>5. CASE i \in 1..m /\ r = x[a][i] /\ i # 1
  <2>1. i - 1 \in 1..(m - 1) /\ (i - 1) + 1 = i
    BY <1>5
  <2>2. x2[a][i - 1] = r
    BY <1>3, <1>5, <2>1
  <2>3. Spot(x2, y2, 1, a, i - 1, r)
    BY <1>3, <2>1, <2>2 DEF Moved, Spot
  <2> QED BY <2>3
<1>6. CASE r = x[a][1]
  <2>1. n + 1 \in 1..(n + 1)
    OBVIOUS
  <2>2. Spot(x2, y2, 2, v, n + 1, r)
    BY <1>3, <1>6, <2>1 DEF Moved, Spot
  <2> QED BY <2>2
<1>7. CASE c = 2 /\ p \in 1..Len(y) /\ i \in 1..Len(y[p]) /\ r = y[p][i] /\ p # v
  <2>1. Spot(x2, y2, 2, p, i, r)
    BY <1>7 DEF Moved, Spot
  <2> QED BY <2>1
<1>8. CASE i \in 1..n /\ r = y[v][i]
  <2>1. i \in 1..(n + 1) /\ y2[v][i] = r
    BY <1>3, <1>8
  <2>2. Spot(x2, y2, 2, v, i, r)
    BY <1>3, <2>1 DEF Moved, Spot
  <2> QED BY <2>2
<1>9. \/ c = 1 /\ p \in 1..Len(x) /\ i \in 1..Len(x[p]) /\ r = x[p][i]
      \/ c = 2 /\ p \in 1..Len(y) /\ i \in 1..Len(y[p]) /\ r = y[p][i]
  BY DEF Spot
<1> QED BY <1>1, <1>2, <1>4, <1>5, <1>6, <1>7, <1>8, <1>9

\* Two records did not come from the same place.
LEMMA CameApart ==
    ASSUME NEW a, NEW v, NEW n, NEW b, NEW q, NEW j \in Nat \ {0}, NEW d, NEW o, NEW k \in Nat \ {0},
           NEW c, NEW p, NEW i,
           Came(a, v, n, b, q, j, c, p, i), Came(a, v, n, d, o, k, c, p, i)
    PROVE  b = d /\ q = o /\ j = k
BY DEF Came

\* Moving a record keeps the records apart and under their keys, ...
LEMMA MovedLawful ==
    ASSUME NEW x, NEW y, NEW a, NEW v, NEW x2, NEW y2, Moved(x, y, a, v, x2, y2), Lawful(args, x, y)
    PROVE  Lawful(args, x2, y2)
<1>1. ASSUME NEW b, NEW q, NEW j, NEW r, NEW c, NEW p, NEW i, NEW s,
             Spot(x2, y2, b, q, j, r), Spot(x2, y2, c, p, i, s)
      PROVE  \/ b = c /\ q = p /\ j = i
             \/ /\ \A e : e \in r.val => e \notin s.val
                /\ args.identity_reduce \/ r.key # s.key
  <2>1. PICK b1, q1, j1 : Spot(x, y, b1, q1, j1, r) /\ Came(a, v, Len(y[v]), b, q, j, b1, q1, j1)
    BY <1>1, SpotBefore
  <2>2. PICK c1, p1, i1 : Spot(x, y, c1, p1, i1, s) /\ Came(a, v, Len(y[v]), c, p, i, c1, p1, i1)
    BY <1>1, SpotBefore
  <2>3. j \in Nat \ {0} /\ i \in Nat \ {0}
    BY <1>1, SpotBefore
  <2>4. CASE b1 = c1 /\ q1 = p1 /\ j1 = i1
    BY <2>1, <2>2, <2>3, <2>4, CameApart
  <2>5. CASE /\ \A e : e \in r.val => e \notin s.val
             /\ args.identity_reduce \/ r.key # s.key
    BY <2>5
  <2> QED BY <2>1, <2>2, <2>4, <2>5 DEF Lawful
<1>2. ASSUME NEW b, NEW q, NEW j, NEW r, Spot(x2, y2, b, q, j, r)
      PROVE  \A e \in r.val : args.emits[e[1]][e[2]] = r.key
  <2>1. PICK c, p, i : Spot(x, y, c, p, i, r)
    BY <1>2, SpotBefore
  <2> QED BY <2>1 DEF Lawful
<1> QED BY <1>1, <1>2 DEF Lawful

\* ... and loses no emission.
LEMMA MovedWhole ==
    ASSUME NEW x, NEW y, NEW a, NEW v, NEW x2, NEW y2, Moved(x, y, a, v, x2, y2), Whole(Emissions, x, y)
    PROVE  Whole(Emissions, x2, y2)
<1> SUFFICES ASSUME NEW e \in Emissions
             PROVE  \E b, q, j, r : Spot(x2, y2, b, q, j, r) /\ e \in r.val
  BY DEF Whole
<1>1. PICK b, q, j, r : Spot(x, y, b, q, j, r) /\ e \in r.val
  BY DEF Whole
<1>2. PICK c, p, i : Spot(x2, y2, c, p, i, r)
  BY <1>1, SpotAfter
<1> QED BY <1>1, <1>2

\* A merge step moves one record.
LEMMA MergesMoved ==
    ASSUME IInv, TInv, NEW w, NEW q, NEW x, Merges(w, q, x)
    PROVE  Moved(merge_input, merge_vals, q, w + 1, merge_input', merge_vals')
<1>1. merge_input \in Seq(Seq(Results)) /\ merge_vals \in Seq(Seq(Results))
  BY DEF TInv, MergeOK
<1>2. /\ \A r \in 1..Len(merge_input) : Len(merge_input[r]) \in Nat
      /\ \A r \in 1..Len(merge_vals) : Len(merge_vals[r]) \in Nat
  BY <1>1, ElementOfSeq
<1>3. Rest(merge_input'[q], merge_input[q]) /\ merge_input'[q] # merge_input[q]
  BY DEF Merges, Rest
<1>4. Longer(merge_vals'[w + 1], merge_vals[w + 1], merge_input[q][1])
  BY DEF Merges, Longer
<1> QED BY <1>2, <1>3, <1>4 DEF Merges, Moved

Empty(y) == \A q \in 1..Len(y) : Len(y[q]) = 0

\* Empty arrays have no record.
LEMMA EmptyNone ==
    ASSUME NEW x, NEW y, Empty(y), NEW b, NEW q, NEW j, NEW r, Spot(x, y, b, q, j, r)
    PROVE  b = 1 /\ q \in 1..Len(x) /\ j \in 1..Len(x[q]) /\ r = x[q][j]
<1>1. \A i : i \notin 1..0
  OBVIOUS
<1> QED BY <1>1 DEF Empty, Spot

\* No arrays are empty arrays.
LEMMA NoArrays == Empty(<<>>)
<1>1. 1..Len(<<>>) = {}
  OBVIOUS
<1> QED BY <1>1 DEF Empty

\* A round has moved everything from the first arrays to the second.
LEMMA SecondMoves ==
    ASSUME NEW x, NEW y, NEW z, Empty(x), Empty(z)
    PROVE  /\ Lawful(args, x, y) => Lawful(args, y, z)
           /\ Whole(Emissions, x, y) => Whole(Emissions, y, z)
<1>1. ASSUME NEW b, NEW q, NEW j, NEW r, Spot(y, z, b, q, j, r)
      PROVE  b = 1 /\ Spot(x, y, 2, q, j, r)
  <2>1. b = 1 /\ q \in 1..Len(y) /\ j \in 1..Len(y[q]) /\ r = y[q][j]
    BY <1>1, EmptyNone
  <2> QED BY <2>1 DEF Spot
<1>2. \A b, q, j, r : Spot(x, y, b, q, j, r) => Spot(y, z, 1, q, j, r)
  <2>1. \A i : i \notin 1..0
    OBVIOUS
  <2> QED BY <2>1 DEF Empty, Spot
<1>3. ASSUME Lawful(args, x, y) PROVE Lawful(args, y, z)
  BY <1>1, <1>3 DEF Lawful
<1>4. ASSUME Whole(Emissions, x, y) PROVE Whole(Emissions, y, z)
  BY <1>2, <1>4 DEF Whole
<1> QED BY <1>3, <1>4

\* The only array is the result.
LEMMA OnlyArray ==
    ASSUME NEW x, NEW y, NEW s, Len(x) = 1, s = x[1], Empty(y)
    PROVE  /\ Lawful(args, x, y) => Lawful(args, <<s>>, <<>>)
           /\ Whole(Emissions, x, y) => Whole(Emissions, <<s>>, <<>>)
<1>1. Len(<<s>>) = 1 /\ <<s>>[1] = s /\ 1..1 = {1}
  OBVIOUS
<1>2. ASSUME NEW b, NEW q, NEW j, NEW r
      PROVE  Spot(<<s>>, <<>>, b, q, j, r) <=> Spot(x, y, b, q, j, r)
  <2>1. Spot(<<s>>, <<>>, b, q, j, r) <=> b = 1 /\ q = 1 /\ j \in 1..Len(s) /\ r = s[j]
    BY <1>1, EmptyNone, NoArrays DEF Spot
  <2>2. Spot(x, y, b, q, j, r) <=> b = 1 /\ q = 1 /\ j \in 1..Len(s) /\ r = s[j]
    <3>1. Spot(x, y, b, q, j, r) => b = 1 /\ q \in 1..Len(x) /\ j \in 1..Len(x[q]) /\ r = x[q][j]
      BY EmptyNone
    <3>2. 1..Len(x) = {1} /\ x[1] = s
      BY <1>1
    <3> QED BY <3>1, <3>2 DEF Spot
  <2> QED BY <2>1, <2>2
<1>3. ASSUME Lawful(args, x, y) PROVE Lawful(args, <<s>>, <<>>)
  BY <1>2, <1>3 DEF Lawful
<1>4. ASSUME Whole(Emissions, x, y) PROVE Whole(Emissions, <<s>>, <<>>)
  BY <1>2, <1>4 DEF Whole
<1> QED BY <1>3, <1>4

\* When the last merge worker has returned the round has read all its arrays.
LEMMA RoundRead ==
    ASSUME IInv, TInv, SlicesDone, phase = "merge", AllOff
    PROVE  Empty(merge_input)
<1>1. /\ Len(merge_input) \in Nat /\ num_merge_threads \in Nat \ {0}
      /\ 2 * num_merge_threads <= Len(merge_input) /\ num_merge_threads \in 1..MaxThreads
  BY DEF TInv, MergeOK, IInv, Counts, NumbersOK
<1>2. ASSUME NEW q \in 1..Len(merge_input) PROVE Len(merge_input[q]) = 0
  <2>1. PICK w \in 0..(num_merge_threads - 1) : q \in Slice(w)
    BY <1>1, SlicesPartition
  <2>2. w \in Threads /\ w < num_merge_threads
    BY <1>1, MaxThreadsAssumption DEF Threads
  <2> QED BY <2>1, <2>2 DEF SlicesDone, AllOff
<1> QED BY <1>2 DEF Empty

\* What the reduce workers have emitted is lawful, ...
LEMMA FinalLawful ==
    ASSUME IInv, TInv, Emitted, FinalApart, NEW y, Empty(y)
    PROVE  Lawful(args, final_vals, y)
<1>1. \A b, q, j, r : Spot(final_vals, y, b, q, j, r) =>
          b = 1 /\ Entry(q, j) /\ r = final_vals[q][j]
  BY EmptyNone, FinalArrays DEF Entry
<1> QED BY <1>1 DEF Lawful, Emitted, FinalApart, Key, Val, KeyOf

\* ... and it is everything if every reduce task was queued.
LEMMA FinalWhole ==
    ASSUME IInv, TInv, MapInv, ReduceInv, phase = "reduce", AllOff,
           ReduceTasksQueued = args.num_reduce_tasks, NEW y
    PROVE  Whole(Emissions, final_vals, y)
<1>1. tasks = {}
  BY AllDrained DEF MapInv
<1>2. \A w \in Threads : ~Held(w) /\ work[w].itr = <<>>
  BY DEF AllOff, Held, TInv, HeldOK, Holder
<1>3. \A m \in MapThreads, r \in ReduceTasks : ~Unread(m, r)
  BY <1>1, <1>2 DEF ReduceInv, AllRead, ReduceTasks
<1>4. ASSUME NEW e \in Emissions PROVE InFinal(e)
  <2>1. ~Ahead(e)
    <3> SUFFICES ASSUME NEW m \in MapWorkers, NEW r \in ReduceTasks, NEW k, NEW l,
                        Has(Arr(m, r), k, l, e), pos[m][r] < k
                 PROVE  FALSE
      BY DEF Ahead
    <3>1. m \in MapThreads
      BY NoneIn DEF MapInv, Keyed
    <3>2. k \in 1..Len(Arr(m, r)) /\ Len(Arr(m, r)) \in Nat /\ pos[m][r] \in Nat
      BY ArrayType, PosType DEF Has, TInv
    <3> QED BY <1>3, <3>1, <3>2 DEF Unread
  <2>2. ~InItr(e)
    BY <1>2, NoneIn DEF InItr
  <2> QED BY <2>1, <2>2 DEF ReduceInv, Somewhere
<1>5. \A q, j : Entry(q, j) => Spot(final_vals, y, 1, q, j, final_vals[q][j])
  BY FinalArrays DEF Entry, Spot
<1> QED BY <1>4, <1>5 DEF Whole, InFinal, Val

\* A call with fewer reduce threads than map threads has reduce tasks that the reduce
\* threads share evenly.
EnoughReducers ==
    \A a \in Args : \/ a.num_map_threads <= a.num_reduce_threads
                    \/ a.num_reduce_tasks % a.num_reduce_threads = 0

\* With enough reduce threads every reduce task is queued.
LEMMA QueuedAll ==
    ASSUME IInv, TInv, EnoughReducers
    PROVE  ReduceTasksQueued = args.num_reduce_tasks
<1>1. /\ args \in Args /\ num_map_threads \in Nat /\ args.num_map_threads \in Nat
      /\ args.num_reduce_threads \in Nat /\ num_map_threads <= args.num_map_threads
  BY CallType DEF IInv, TInv, NumbersOK
<1>2. CASE args.num_map_threads <= args.num_reduce_threads
  BY <1>1, <1>2, AllReduceTasksQueued
<1>3. CASE args.num_reduce_tasks % args.num_reduce_threads = 0
  <2> DEFINE T == args.num_reduce_tasks
             R == args.num_reduce_threads
             P == T \div R
             L == T - P * num_map_threads
  <2>1. T \in Nat /\ R \in Nat \ {0}
    BY <1>1, CallType
  <2>2. P \in Nat /\ P * R \in Nat /\ T = P * R
    <3>1. P \in Nat /\ P * R \in Nat /\ T = P * R + (T % R) /\ T % R = 0
      BY <1>3, <2>1, Division
    <3> HIDE DEF T, R, P
    <3> QED BY <2>1, <3>1
  <2>3. L \in Int
    <3> HIDE DEF T, P
    <3> QED BY <1>1, <2>1, <2>2
  <2>4. ReduceTasksQueued = Min2(T, P * R + Min2(Max2(L, 0), R))
    BY DEF ReduceTasksQueued
  <2> HIDE DEF T, R, P, L
  <2>5. Min2(Max2(L, 0), R) \in Nat
    BY <2>1, <2>3 DEF Min2, Max2
  <2>6. ReduceTasksQueued = T
    BY <2>1, <2>2, <2>4, <2>5 DEF Min2
  <2> QED BY <2>6 DEF T
<1> QED BY <1>1, <1>2, <1>3 DEF EnoughReducers

\* What a round writes is empty when it starts.
LEMMA EmptyStart ==
    ASSUME NEW n \in Nat, NEW y, y = [w \in 1..n |-> <<>>]
    PROVE  Empty(y)
BY EmptyArrays DEF Empty

\* The results of the reduce phase are apart and, if all tasks were queued, whole.
LEMMA MergingStarts ==
    ASSUME IInv, TInv, MapInv, ReduceInv, StartMerge
    PROVE  Merging' /\ (ReduceTasksQueued = args.num_reduce_tasks => AllMerged')
<1>1. phase = "reduce" /\ AllOff /\ Emissions' = Emissions /\ args' = args
  BY MergeStarts, ArgsStay DEF StartMerge
<1>2. ASSUME NEW y, Empty(y)
      PROVE  /\ Lawful(args, final_vals, y)
             /\ ReduceTasksQueued = args.num_reduce_tasks => Whole(Emissions, final_vals, y)
  BY <1>1, <1>2, FinalLawful, FinalWhole DEF ReduceInv
<1>3. CASE phase' = "merge"
  <2>1. /\ merge_input' = final_vals /\ num_merge_threads \in Nat
        /\ merge_vals' = [w \in 1..num_merge_threads |-> <<>>]
    BY <1>3, MergeStarts
  <2>2. PICK y : y = merge_vals'
    OBVIOUS
  <2>3. Empty(y)
    BY <2>1, <2>2, EmptyStart
  <2> QED BY <1>1, <1>2, <1>3, <2>1, <2>2, <2>3 DEF Merging, AllMerged
<1>4. CASE phase' = "done"
  <2>1. Len(final_vals) = 1 /\ result' = final_vals[1]
    BY <1>4, MergeStarts
  <2>2. PICK s : s = result'
    OBVIOUS
  <2>3. /\ Lawful(args, <<s>>, <<>>)
        /\ ReduceTasksQueued = args.num_reduce_tasks => Whole(Emissions, <<s>>, <<>>)
    BY <1>2, <2>1, <2>2, NoArrays, OnlyArray
  <2> QED BY <1>1, <1>4, <2>2, <2>3 DEF Merging, AllMerged
<1> QED BY <1>3, <1>4, MergeStarts

\* At the end of a round the inputs are empty: the outputs hold every record.
LEMMA MergingRound ==
    ASSUME IInv, TInv, SlicesDone, Merging, NextMergeRound
    PROVE  Merging' /\ (AllMerged => AllMerged')
<1>1. phase = "merge" /\ AllOff /\ Emissions' = Emissions /\ args' = args
  BY RoundEnds, ArgsStay DEF NextMergeRound
<1>2. ASSUME NEW y, Empty(y)
      PROVE  /\ Lawful(args, merge_vals, y)
             /\ AllMerged => Whole(Emissions, merge_vals, y)
  BY <1>1, <1>2, RoundRead, SecondMoves DEF Merging, AllMerged
<1>3. CASE phase' = "merge"
  <2>1. /\ merge_input' = merge_vals /\ num_merge_threads' \in Nat
        /\ merge_vals' = [w \in 1..num_merge_threads' |-> <<>>]
    BY <1>3, RoundEnds
  <2>2. PICK y : y = merge_vals'
    OBVIOUS
  <2>3. Empty(y)
    BY <2>1, <2>2, EmptyStart
  <2> QED BY <1>1, <1>2, <1>3, <2>1, <2>2, <2>3 DEF Merging, AllMerged
<1>4. CASE phase' = "done"
  <2>1. Len(merge_vals) = 1 /\ result' = merge_vals[1]
    BY <1>4, RoundEnds
  <2>2. PICK s : s = result'
    OBVIOUS
  <2>3. /\ Lawful(args, <<s>>, <<>>)
        /\ AllMerged => Whole(Emissions, <<s>>, <<>>)
    BY <1>2, <2>1, <2>2, NoArrays, OnlyArray
  <2> QED BY <1>1, <1>4, <2>2, <2>3 DEF Merging, AllMerged
<1> QED BY <1>3, <1>4, RoundEnds

\* A step of a round moves a record and keeps both.
LEMMA MergingStep ==
    ASSUME IInv, TInv, Merging, NEW w \in Threads, MergeStep(w)
    PROVE  Merging' /\ (AllMerged => AllMerged')
<1>1. PICK q, x : Merges(w, q, x)
  BY MergeEffect
<1>2. phase = "merge" /\ phase' = "merge" /\ args' = args /\ Emissions' = Emissions
  BY <1>1, ArgsStay DEF Merges
<1>3. PICK x2, y2 : x2 = merge_input' /\ y2 = merge_vals'
  OBVIOUS
<1>4. Moved(merge_input, merge_vals, q, w + 1, x2, y2)
  BY <1>1, <1>3, MergesMoved
<1>5. Lawful(args, x2, y2)
  BY <1>2, <1>4, MovedLawful DEF Merging
<1>6. AllMerged => Whole(Emissions, x2, y2)
  BY <1>2, <1>4, MovedWhole DEF AllMerged
<1> QED BY <1>2, <1>3, <1>5, <1>6 DEF Merging, AllMerged

\* Every step keeps the records apart and, with enough reduce threads, whole.
LEMMA MergingKeep ==
    ASSUME IInv, TInv, MapInv, ReduceInv, SlicesDone, Merging, [Next]_vars
    PROVE  Merging' /\ (AllMerged /\ EnoughReducers => AllMerged')
<1>1. CASE StartMerge
  BY <1>1, MergingStarts, QueuedAll
<1>2. CASE NextMergeRound
  BY <1>2, MergingRound
<1>3. ASSUME NEW w \in Threads, MergeStep(w) PROVE Merging' /\ (AllMerged => AllMerged')
  BY <1>3, MergingStep
<1>4. CASE NextCall
  BY <1>4 DEF NextCall, Merging, AllMerged
<1>5. CASE UNCHANGED <<args, mergeVars>> /\ ~NextCall /\ ~StartMerge /\ ~NextMergeRound
  <2>1. UNCHANGED <<merge_input, merge_vals, result>> /\ Emissions' = Emissions /\ args' = args
    BY <1>5, ArgsStay DEF mergeVars
  <2>2. phase' \in {"merge", "done"} => phase' = phase
    BY <1>5, PhaseChange DEF StartMap, StartReduce, map_reduce_finalize
  <2> QED BY <2>1, <2>2 DEF Merging, AllMerged
<1> QED BY <1>1, <1>2, <1>3, <1>4, <1>5, MergeChange

\* Every key of every array has been processed when the reduce workers have returned.
LEMMA ProcessedKeep ==
    ASSUME IInv, TInv, MapInv, ReduceInv, EnoughReducers, EveryKeyProcessed, [Next]_vars
    PROVE  EveryKeyProcessed'
<1>1. CASE StartMerge
  <2>1. /\ phase = "reduce" /\ AllOff
        /\ UNCHANGED <<args, pos, intermediate_vals>>
    BY <1>1 DEF StartMerge, envVars
  <2>2. tasks = {}
    BY <2>1, AllDrained DEF MapInv
  <2>3. \A w \in Threads : ~Held(w)
    BY <2>1 DEF AllOff, Held
  <2>4. \A m \in MapThreads, r \in ReduceTasks : ~Unread(m, r)
    BY <2>1, <2>2, <2>3, QueuedAll DEF ReduceInv, AllRead, ReduceTasks
  <2>5. ASSUME NEW m \in MapWorkers, NEW r \in ReduceTasks PROVE pos[m][r] = Len(Arr(m, r))
    <3>1. pos[m][r] \in Nat /\ Len(Arr(m, r)) \in Nat /\ pos[m][r] <= Len(Arr(m, r))
      BY PosType DEF TInv
    <3>2. CASE m \in MapThreads
      BY <2>4, <3>1, <3>2 DEF Unread
    <3>3. CASE m \notin MapThreads
      BY <3>3, <3>1 DEF MapInv, Keyed
    <3> QED BY <3>2, <3>3
  <2>6. DOMAIN intermediate_vals = MapWorkers /\ ReduceTasks' = ReduceTasks
    BY <2>1, ArgsStay DEF TInv, ArraysOK
  <2> QED BY <2>1, <2>5, <2>6 DEF EveryKeyProcessed, Arr
<1>2. CASE NextCall
  BY <1>2 DEF NextCall, EveryKeyProcessed
<1>3. CASE ~StartMerge /\ ~NextCall
  <2>1. phase' \in {"merge", "done"} => phase \in {"merge", "done"}
    BY <1>3, PhaseChange DEF StartMap, StartReduce, NextMergeRound, map_reduce_finalize
  <2>2. phase \in {"merge", "done"} => UNCHANGED <<args, intermediate_vals>>
    BY <1>3, ArrayChange, WorkerNumber DEF FinishMap, emit_intermediate, TInv, PlacesOK, PlacesIn
  <2>3. phase \in {"merge", "done"} => UNCHANGED pos
    BY <1>3, PosChange DEF Gather, TInv, PlacesOK, PlacesIn
  <2>4. args' = args => ReduceTasks' = ReduceTasks
    BY ArgsStay
  <2> QED BY <2>1, <2>2, <2>3, <2>4 DEF EveryKeyProcessed
<1> QED BY <1>1, <1>2, <1>3

\* The fifth layer of the invariant: where each record is while they are merged.
LEMMA MergeInvariant ==
    Spec => [](IInv /\ TInv /\ MapInv /\ ReduceInv /\ Ordered /\ SlicesDone /\ Merging)
<1>1. Init => Merging
  BY DEF Init, Merging
<1>2. IInv /\ TInv /\ MapInv /\ ReduceInv /\ SlicesDone /\ Merging /\ [Next]_vars => Merging'
  BY MergingKeep
<1> QED BY <1>1, <1>2, OrderInvariant, PTL DEF Spec

\* No emission is lost from the map phase to the result.
LEMMA AllInvariant ==
    ASSUME EnoughReducers
    PROVE  Spec => [](AllMerged /\ EveryKeyProcessed)
<1>1. Init => AllMerged /\ EveryKeyProcessed
  BY DEF Init, AllMerged, EveryKeyProcessed
<1>2. IInv /\ TInv /\ MapInv /\ ReduceInv /\ SlicesDone /\ Merging /\ AllMerged /\ [Next]_vars => AllMerged'
  BY MergingKeep
<1>3. IInv /\ TInv /\ MapInv /\ ReduceInv /\ EveryKeyProcessed /\ [Next]_vars => EveryKeyProcessed'
  BY ProcessedKeep
<1> QED BY <1>1, <1>2, <1>3, MergeInvariant, PTL DEF Spec

\* With enough reduce threads every key of every map thread's array has been gathered
\* when the reduce phase is over: no reduce task is left out, and none is given up
\* before its arrays are at their ends.
THEOREM JobProcessesEveryKey ==
    ASSUME EnoughReducers
    PROVE  Spec => []EveryKeyProcessed
BY AllInvariant, PTL

\* The places at which e is in the arrays of records x.
LEMMA InArrays ==
    ASSUME NEW S, NEW x \in Seq(Seq(S)), NEW e
    PROVE  \A p : p \in In(e, x) <=> \E q \in 1..Len(x) : \E j \in 1..Len(x[q]) :
                                        p = <<q, j>> /\ e \in x[q][j].val
<1>1. DOMAIN x = 1..Len(x) /\ \A q \in 1..Len(x) : DOMAIN x[q] = 1..Len(x[q])
  BY ElementOfSeq
<1> QED BY <1>1 DEF In

\* One place in all is one of two singletons.
LEMMA OneOfTwo ==
    ASSUME NEW P, NEW Q, NEW p, \/ P = {p} /\ Q = {}
                                \/ P = {} /\ Q = {p}
    PROVE  /\ Cardinality(P) \in Nat /\ Cardinality(Q) \in Nat
           /\ Cardinality(P) + Cardinality(Q) = 1
<1>1. Cardinality({p}) = 1 /\ Cardinality({}) = 0
  BY FS_Singleton, FS_EmptySet
<1>2. \/ Cardinality(P) = 1 /\ Cardinality(Q) = 0
      \/ Cardinality(P) = 0 /\ Cardinality(Q) = 1
  BY <1>1
<1> QED BY <1>2

\* Records that are lawful and whole have each emission at one place.
LEMMA TotalOne ==
    ASSUME NEW S, NEW x \in Seq(Seq(S)), NEW y \in Seq(Seq(S)), Lawful(args, x, y),
           Whole(Emissions, x, y), NEW e \in Emissions
    PROVE  /\ Cardinality(In(e, x)) \in Nat
           /\ Cardinality(In(e, x)) + Cardinality(In(e, y)) = 1
<1>1. PICK b, q, j, r : Spot(x, y, b, q, j, r) /\ e \in r.val
  BY DEF Whole
<1>2. \A c, p, i, s : Spot(x, y, c, p, i, s) /\ e \in s.val => b = c /\ q = p /\ j = i
  BY <1>1 DEF Lawful
<1>3. \A p : p \in In(e, x) <=> \E o, i, s : p = <<o, i>> /\ Spot(x, y, 1, o, i, s) /\ e \in s.val
  BY InArrays, SMTT(60) DEF Spot
<1>4. \A p : p \in In(e, y) <=> \E o, i, s : p = <<o, i>> /\ Spot(x, y, 2, o, i, s) /\ e \in s.val
  BY InArrays DEF Spot
<1>5. b = 1 \/ b = 2
  BY <1>1 DEF Spot
<1>6. CASE b = 1
  <2>1. In(e, x) = {<<q, j>>} /\ In(e, y) = {}
    BY <1>1, <1>2, <1>3, <1>4, <1>6
  <2> QED BY <2>1, OneOfTwo
<1>7. CASE b = 2
  <2>1. In(e, x) = {} /\ In(e, y) = {<<q, j>>}
    BY <1>1, <1>2, <1>3, <1>4, <1>7
  <2> QED BY <2>1, OneOfTwo
<1> QED BY <1>5, <1>6, <1>7

\* ResultCorrect follows.
LEMMA ResultHolds ==
    ASSUME TInv, Ordered, Merging, AllMerged
    PROVE  ResultCorrect
<1> SUFFICES ASSUME phase = "done"
             PROVE  /\ Sorted(result)
                    /\ ~args.identity_reduce => StrictlySorted(result)
                    /\ \A e \in Emissions : Cardinality(In(e, <<result>>)) = 1
                    /\ \A k \in DOMAIN result : \A e \in result[k].val : KeyOf(e) = result[k].key
  BY DEF ResultCorrect
<1>1. /\ Lawful(args, <<result>>, <<>>) /\ Whole(Emissions, <<result>>, <<>>) /\ Sorted(result)
      /\ result \in Seq(Results)
  BY DEF Ordered, Merging, AllMerged, TInv, MergeOK
<1>2. /\ <<result>> \in Seq(Seq(Results)) /\ <<>> \in Seq(Seq(Results))
      /\ Len(<<result>>) = 1 /\ <<result>>[1] = result
      /\ DOMAIN result = 1..Len(result)
  BY <1>1
<1>3. \A k \in 1..Len(result) : Spot(<<result>>, <<>>, 1, 1, k, result[k]) /\ result[k].key \in Int
  <2>1. \A r \in Results : r.key \in Int
    BY DEF Results
  <2>2. \A k \in 1..Len(result) : result[k].key \in Int
    BY <1>1, <2>1, ElementOfSeq
  <2>3. 1 \in 1..1
    OBVIOUS
  <2> QED BY <1>2, <2>2, <2>3 DEF Spot
<1>4. ASSUME ~args.identity_reduce PROVE StrictlySorted(result)
  <2> SUFFICES ASSUME NEW k \in 1..Len(result), NEW l \in 1..Len(result), k < l
               PROVE  result[k].key < result[l].key
    BY <1>2 DEF StrictlySorted
  <2>1. result[k].key <= result[l].key
    BY <1>1, <1>2 DEF Sorted
  <2>2. k # l
    <3>1. k \in Int /\ l \in Int
      OBVIOUS
    <3> QED BY <3>1
  <2>3. result[k].key # result[l].key
    BY <1>1, <1>3, <1>4, <2>2 DEF Lawful
  <2> QED BY <1>3, <2>1, <2>3
<1>5. ASSUME NEW e \in Emissions PROVE Cardinality(In(e, <<result>>)) = 1
  <2>1. /\ Cardinality(In(e, <<result>>)) \in Nat
        /\ Cardinality(In(e, <<result>>)) + Cardinality(In(e, <<>>)) = 1
    BY <1>1, <1>2, TotalOne
  <2>2. In(e, <<>>) = {}
    <3>1. 1..Len(<<>>) = {}
      OBVIOUS
    <3> QED BY <1>2, <3>1, InArrays
  <2>3. Cardinality(In(e, <<>>)) = 0
    BY <2>2, FS_EmptySet
  <2> QED BY <2>1, <2>3
<1>6. ASSUME NEW k \in DOMAIN result, NEW e \in result[k].val PROVE KeyOf(e) = result[k].key
  BY <1>1, <1>2, <1>3, <1>6 DEF Lawful, KeyOf
<1> QED BY <1>1, <1>4, <1>5, <1>6

\* With enough reduce threads the array map_reduce returns is sorted and holds, for
\* each key, all values emitted for it and no others: in one record, or in one record
\* for each value where the reducer is the identity.
THEOREM JobResultCorrect ==
    ASSUME EnoughReducers
    PROVE  Spec => []ResultCorrect
<1>1. TInv /\ Ordered /\ Merging /\ AllMerged => ResultCorrect
  BY ResultHolds
<1> QED BY <1>1, MergeInvariant, AllInvariant, PTL

---------------
(* Each emission is at one place. *)

One(P) == \E p : P = {p}

\* One of three sets has one element and the others none: together they have one.
LEMMA OneOfThree ==
    ASSUME NEW P, NEW Q, NEW R, \/ One(P) /\ Q = {} /\ R = {}
                                \/ P = {} /\ One(Q) /\ R = {}
                                \/ P = {} /\ Q = {} /\ One(R)
    PROVE  Cardinality(P) + Cardinality(Q) + Cardinality(R) = 1
<1>1. /\ One(P) => Cardinality(P) = 1
      /\ One(Q) => Cardinality(Q) = 1
      /\ One(R) => Cardinality(R) = 1
      /\ Cardinality({}) = 0
  BY FS_Singleton, FS_EmptySet DEF One
<1>2. \/ Cardinality(P) = 1 /\ Cardinality(Q) = 0 /\ Cardinality(R) = 0
      \/ Cardinality(P) = 0 /\ Cardinality(Q) = 1 /\ Cardinality(R) = 0
      \/ Cardinality(P) = 0 /\ Cardinality(Q) = 0 /\ Cardinality(R) = 1
  BY <1>1
<1> QED BY <1>2

\* The places at which e is in an array of entries.
LEMMA InValsPlaces ==
    ASSUME NEW V, NEW arr \in Seq([key : Int, vals : Seq(V)]), NEW e
    PROVE  \A p : p \in InVals(e, arr) <=> \E k, l : p = <<k, l>> /\ Has(arr, k, l, e)
<1>1. /\ DOMAIN arr = 1..Len(arr)
      /\ \A k \in 1..Len(arr) : DOMAIN arr[k].vals = 1..Len(arr[k].vals)
  BY ElementOfSeq
<1> QED BY <1>1 DEF InVals, Has

\* What is left of an array are the places ahead of its position.
LEMMA LeftPlaces ==
    ASSUME TInv, NEW m \in MapWorkers, NEW r \in ReduceTasks
    PROVE  /\ \A k, l, e : Has(Left(m, r), k, l, e) =>
                 k \in Nat /\ pos[m][r] \in Nat /\ pos[m][r] < pos[m][r] + k
                 /\ Has(Arr(m, r), pos[m][r] + k, l, e)
           /\ \A j, l, e : Has(Arr(m, r), j, l, e) /\ pos[m][r] < j =>
                 \E k : Has(Left(m, r), k, l, e)
<1>1. PICK n \in Nat : n = Len(Arr(m, r))
  BY ArrayType DEF TInv
<1>2. PICK p \in Nat : p = pos[m][r] /\ p <= n
  BY <1>1, PosType DEF TInv
<1>3. PICK left : left = Left(m, r)
  OBVIOUS
<1>4. PICK arr : arr = Arr(m, r)
  OBVIOUS
<1>5. Len(left) = n - p /\ \A i \in 1..Len(left) : left[i] = arr[p + i]
  BY <1>1, <1>2, <1>3, <1>4, LeftElements DEF TInv
<1>6. ASSUME NEW k, NEW l, NEW e, Has(left, k, l, e)
      PROVE  k \in Nat /\ p < p + k /\ Has(arr, p + k, l, e)
  BY <1>5, <1>6, <1>1, <1>4 DEF Has
<1>7. ASSUME NEW j, NEW l, NEW e, Has(arr, j, l, e), p < j PROVE \E k : Has(left, k, l, e)
  <2>1. j \in 1..n /\ Len(arr) = n
    BY <1>1, <1>4, <1>7 DEF Has
  <2>2. j - p \in 1..(n - p) /\ p + (j - p) = j
    BY <1>7, <2>1
  <2>3. left[j - p] = arr[j]
    BY <1>5, <2>2
  <2>4. Has(left, j - p, l, e)
    BY <1>5, <1>7, <2>2, <2>3 DEF Has
  <2> QED BY <2>4
<1> QED BY <1>2, <1>3, <1>4, <1>6, <1>7

\* The places at which e waits to be gathered.
LEMMA CollectedPlaces ==
    ASSUME TInv, NEW e
    PROVE  \A p : p \in Collected(e) <=>
              \E m \in MapWorkers, r \in ReduceTasks : \E k, l :
                  p = <<m, r, <<k, l>>>> /\ Has(Left(m, r), k, l, e)
<1>1. \A m \in MapWorkers, r \in ReduceTasks : \A p :
          p \in InVals(e, Left(m, r)) <=> \E k, l : p = <<k, l>> /\ Has(Left(m, r), k, l, e)
  BY LeftElements, InValsPlaces DEF TInv, Entries
<1>2. DOMAIN intermediate_vals = MapWorkers
  BY DEF TInv, ArraysOK
<1>3. \A p : p \in Collected(e) <=> \E m \in MapWorkers, r \in ReduceTasks : \E i \in InVals(e, Left(m, r)) :
                                      p = <<m, r, i>>
  <2>1. \A p : p \in Collected(e) <=> \E m \in MapWorkers, r \in ReduceTasks :
                                        p \in {m} \X {r} \X InVals(e, Left(m, r))
    <3> DEFINE Sets == {{m} \X {r} \X InVals(e, Left(m, r)) :
                           m \in DOMAIN intermediate_vals, r \in ReduceTasks}
    <3>1. Collected(e) = UNION Sets
      BY DEF Collected
    <3>2. \A s : s \in Sets <=> \E m \in DOMAIN intermediate_vals, r \in ReduceTasks :
                                  s = {m} \X {r} \X InVals(e, Left(m, r))
      OBVIOUS
    <3> HIDE DEF Sets
    <3>3. \A p : p \in Collected(e) <=> \E s \in Sets : p \in s
      BY <3>1
    <3>4. ASSUME NEW p, p \in Collected(e)
          PROVE  \E m \in MapWorkers, r \in ReduceTasks : p \in {m} \X {r} \X InVals(e, Left(m, r))
      <4>1. PICK s \in Sets : p \in s
        BY <3>3, <3>4
      <4>2. PICK m \in DOMAIN intermediate_vals, r \in ReduceTasks :
                s = {m} \X {r} \X InVals(e, Left(m, r))
        BY <3>2
      <4> QED BY <1>2, <4>1, <4>2
    <3>5. ASSUME NEW m \in MapWorkers, NEW r \in ReduceTasks, NEW p,
                 p \in {m} \X {r} \X InVals(e, Left(m, r))
          PROVE  p \in Collected(e)
      <4>1. PICK s : s = {m} \X {r} \X InVals(e, Left(m, r))
        OBVIOUS
      <4>2. s \in Sets
        BY <1>2, <3>2, <4>1
      <4> QED BY <3>3, <3>5, <4>1, <4>2
    <3> QED BY <3>4, <3>5
  <2>2. ASSUME NEW m, NEW r, NEW I, NEW p
        PROVE  p \in {m} \X {r} \X I <=> \E i \in I : p = <<m, r, i>>
    OBVIOUS
  <2> QED BY <2>1, <2>2
<1> QED BY <1>1, <1>3

\* An emission waits at one place, if it is ahead of a position.
LEMMA CollectedOne ==
    ASSUME IInv, TInv, MapInv, NEW e
    PROVE  IF Ahead(e) THEN One(Collected(e)) ELSE Collected(e) = {}
<1>1. ASSUME NEW m \in MapWorkers, NEW r \in ReduceTasks, NEW k, NEW l, Has(Left(m, r), k, l, e)
      PROVE  /\ Ahead(e) /\ r = Row(KeyOf(e)) /\ k \in Nat /\ pos[m][r] \in Nat
             /\ Has(Arr(m, r), pos[m][r] + k, l, e)
  BY <1>1, LeftPlaces, StoredPlace DEF Ahead, MapInv
<1>2. CASE ~Ahead(e)
  BY <1>1, <1>2, CollectedPlaces
<1>3. CASE Ahead(e)
  <2>1. PICK m \in MapWorkers, r \in ReduceTasks : \E k, l : Has(Left(m, r), k, l, e)
    BY <1>3, LeftPlaces DEF Ahead
  <2>2. PICK k, l : Has(Left(m, r), k, l, e)
    BY <2>1
  <2>3. ASSUME NEW n \in MapWorkers, NEW t \in ReduceTasks, NEW j, NEW i, Has(Left(n, t), j, i, e)
        PROVE  n = m /\ t = r /\ j = k /\ i = l
    BY <1>1, <2>2, <2>3, OneEntry DEF MapInv, StoredOnce, TInv
  <2>4. Collected(e) = {<<m, r, <<k, l>>>>}
    BY <2>2, <2>3, CollectedPlaces
  <2> QED BY <1>3, <2>4 DEF One
<1> QED BY <1>2, <1>3

\* An emission is at one place of the workers' hands, if it is in one.
LEMMA IteratedOne ==
    ASSUME IInv, TInv, ReduceInv, NEW e
    PROVE  IF InItr(e) THEN One(Iterated(e)) ELSE Iterated(e) = {}
<1>1. \A w \in Threads : work[w].itr \in Seq(Entries)
  BY DEF TInv, WorkOK, Works
<1>2. \A w \in Threads : \A p :
          p \in InVals(e, work[w].itr) <=> \E k, l : p = <<k, l>> /\ Has(work[w].itr, k, l, e)
  BY <1>1, InValsPlaces DEF Entries
<1>3. \A p : p \in Iterated(e) <=> \E w \in Threads : \E i \in InVals(e, work[w].itr) : p = <<w, i>>
  BY DEF Iterated
<1>4. \A p : p \in Iterated(e) <=> \E w \in Threads : \E k, l :
                                      p = <<w, <<k, l>>>> /\ Has(work[w].itr, k, l, e)
  BY <1>2, <1>3
<1>5. CASE ~InItr(e)
  BY <1>4, <1>5 DEF InItr
<1>6. CASE InItr(e)
  <2>1. PICK w \in Threads : \E k, l : Has(work[w].itr, k, l, e)
    BY <1>6 DEF InItr
  <2>2. PICK k, l : Has(work[w].itr, k, l, e)
    BY <2>1
  <2>3. \A v \in Threads : \A j, i : Has(work[v].itr, j, i, e) => v = w /\ j = k /\ i = l
    BY <2>2, ItrApart
  <2>4. Iterated(e) = {<<w, <<k, l>>>>}
    BY <1>4, <2>2, <2>3
  <2> QED BY <1>6, <2>4 DEF One
<1> QED BY <1>5, <1>6

\* An emission is in one result, if it is in any.
LEMMA FinalOne ==
    ASSUME IInv, TInv, ReduceInv, NEW e
    PROVE  IF InFinal(e) THEN One(In(e, final_vals)) ELSE In(e, final_vals) = {}
<1>1. \A p : p \in In(e, final_vals) <=> \E q, j : p = <<q, j>> /\ Entry(q, j) /\ e \in Val(q, j)
  BY FinalArrays, InArrays DEF Entry, Val
<1>2. CASE ~InFinal(e)
  BY <1>1, <1>2 DEF InFinal
<1>3. CASE InFinal(e)
  <2>1. PICK q, j : Entry(q, j) /\ e \in Val(q, j)
    BY <1>3 DEF InFinal
  <2>2. \A p, i : Entry(p, i) /\ e \in Val(p, i) => p = q /\ i = j
    BY <2>1 DEF ReduceInv, FinalApart
  <2>3. In(e, final_vals) = {<<q, j>>}
    BY <1>1, <2>1, <2>2
  <2> QED BY <1>3, <2>3 DEF One
<1> QED BY <1>2, <1>3

\* While it is mapped an emission is in a task, in a worker's hand or stored, ...
LEMMA MapTotal ==
    ASSUME IInv, TInv, MapInv, phase = "map", NEW e \in Emissions
    PROVE  Cardinality(Waiting(e)) + Cardinality(Emitting(e)) + Cardinality(Collected(e)) = 1
<1>1. \A t : t \in Waiting(e) <=> t \in tasks /\ Covers(t, e[1])
  BY DEF Waiting, Covers
<1>2. \A w : w \in Emitting(e) <=> w \in Threads /\ \E i : Hand(w, i, e)
  <2>1. \A w \in Threads : DOMAIN todo[w] = 1..Len(todo[w])
    BY DEF TInv, TodoOK
  <2> QED BY <2>1 DEF Emitting, ToSet, Hand
<1>3. Ahead(e) <=> Stored(e)
  BY DEF TInv, PosOK, Ahead, Stored, Has
<1>4. IF Stored(e) THEN One(Collected(e)) ELSE Collected(e) = {}
  BY <1>3, CollectedOne
<1>5. CASE \E t \in tasks : Covers(t, e[1])
  <2>1. PICK t \in tasks : Covers(t, e[1])
    BY <1>5
  <2>2. e[1] \in Nat
    <3>1. e[1] \in 1..Units
      BY EmissionType DEF IInv
    <3> QED BY <3>1
  <2>3. \A s \in tasks : Covers(s, e[1]) => s = t
    BY <2>1, <2>2 DEF MapInv, SplitOK
  <2>4. Waiting(e) = {t}
    BY <1>1, <2>1, <2>3
  <2>5. Emitting(e) = {} /\ Collected(e) = {}
    BY <1>2, <1>4, <2>1 DEF MapInv, MapOnce
  <2> QED BY <2>4, <2>5, OneOfThree DEF One
<1>6. CASE (\A t \in tasks : ~Covers(t, e[1])) /\ \E w \in Threads : \E i : Hand(w, i, e)
  <2>1. PICK w \in Threads : \E i : Hand(w, i, e)
    BY <1>6
  <2>2. ~Stored(e) /\ \A v \in Threads : \A j : Hand(v, j, e) => v = w
    BY <2>1 DEF MapInv, MapOnce
  <2>3. Emitting(e) = {w}
    BY <1>2, <2>1, <2>2
  <2>4. Waiting(e) = {} /\ Collected(e) = {}
    BY <1>1, <1>4, <1>6, <2>2
  <2>5. One(Emitting(e))
    BY <2>3 DEF One
  <2> QED BY <2>4, <2>5, OneOfThree
<1>7. CASE (\A t \in tasks : ~Covers(t, e[1])) /\ (\A w \in Threads : \A i : ~Hand(w, i, e))
  BY <1>7, <1>1, <1>2, <1>4, OneOfThree DEF MapInv, MapOnce
<1> QED BY <1>5, <1>6, <1>7

\* ... while it is reduced ahead of the reduce workers, with one of them, or emitted, ...
LEMMA ReduceTotal ==
    ASSUME IInv, TInv, MapInv, ReduceInv, phase = "reduce", NEW e \in Emissions
    PROVE  Cardinality(Collected(e)) + Cardinality(Iterated(e)) + Cardinality(In(e, final_vals)) = 1
<1>1. ~(Ahead(e) /\ InItr(e))
  <2> SUFFICES ASSUME NEW m \in MapWorkers, NEW r \in ReduceTasks, NEW k, NEW l,
                      Has(Arr(m, r), k, l, e), pos[m][r] < k,
                      NEW w \in Threads, NEW j, NEW i, Has(work[w].itr, j, i, e)
               PROVE  FALSE
    BY DEF Ahead, InItr
  <2>1. /\ k \in 1..Len(Arr(m, r)) /\ Row(KeyOf(e)) = r /\ Arr(m, r)[k].key = KeyOf(e)
        /\ m \in MapThreads
    BY StoredPlace DEF MapInv
  <2>2. pc[w] \in {"reduce", "iterate"} /\ KeyOf(e) = work[w].min[1] /\ Row(KeyOf(e)) = work[w].task
    BY ItrHolder
  <2>3. work[w].min[1] < Arr(m, r)[k].key
    BY <2>1, <2>2 DEF ReduceInv, Progress
  <2>4. KeyOf(e) \in Int
    BY EmissionType DEF IInv
  <2> QED BY <2>1, <2>2, <2>3, <2>4
<1>2. ~(Ahead(e) /\ InFinal(e))
  <2> SUFFICES ASSUME NEW m \in MapWorkers, NEW r \in ReduceTasks, NEW k, NEW l,
                      Has(Arr(m, r), k, l, e), pos[m][r] < k,
                      NEW q, NEW j, Entry(q, j), e \in Val(q, j)
               PROVE  FALSE
    BY DEF Ahead, InFinal
  <2>1. /\ k \in 1..Len(Arr(m, r)) /\ Row(KeyOf(e)) = r /\ Arr(m, r)[k].key = KeyOf(e)
        /\ m \in MapThreads
    BY StoredPlace DEF MapInv
  <2>2. Past(KeyOf(e))
    BY DEF ReduceInv, Emitted
  <2>3. KeyOf(e) < Arr(m, r)[k].key
    BY <2>1, <2>2 DEF Past
  <2>4. KeyOf(e) \in Int
    BY EmissionType DEF IInv
  <2> QED BY <2>1, <2>3, <2>4
<1>3. ~(InItr(e) /\ InFinal(e))
  BY DEF ReduceInv, FinalApart, InItr, InFinal
<1>4. Ahead(e) \/ InItr(e) \/ InFinal(e)
  BY DEF ReduceInv, Somewhere
<1> QED BY <1>1, <1>2, <1>3, <1>4, CollectedOne, IteratedOne, FinalOne, OneOfThree

\* ... and while it is merged in one of the arrays.
LEMMA OnceHolds ==
    ASSUME IInv, TInv, MapInv, ReduceInv, Merging, AllMerged
    PROVE  EmissionOnce
<1> SUFFICES ASSUME NEW e \in Emissions, phase = "merge"
             PROVE  Cardinality(In(e, merge_input)) + Cardinality(In(e, merge_vals)) = 1
  BY MapTotal, ReduceTotal DEF EmissionOnce
<1> QED BY TotalOne DEF TInv, MergeOK, Merging, AllMerged

\* With enough reduce threads each emission is at exactly one place, whatever the
\* interleaving of the workers: in the map phase in a task, in a worker's list or in
\* its array; in the reduce phase in an array, in a worker's iterator or in a result;
\* in the merge phase in an input or in an output of the round.
THEOREM JobEmissionOnce ==
    ASSUME EnoughReducers
    PROVE  Spec => []EmissionOnce
<1>1. IInv /\ TInv /\ MapInv /\ ReduceInv /\ Merging /\ AllMerged => EmissionOnce
  BY OnceHolds
<1> QED BY <1>1, MergeInvariant, AllInvariant, PTL
=============================================================================
