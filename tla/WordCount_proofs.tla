-------------------------- MODULE WordCount_proofs --------------------------
(***************************************************************************)
(* Proofs about WordCount, for every file, number of processors and array  *)
(* size.  IInv is inductive and says where the threads are and what they   *)
(* hold: the characters of words are never damaged (DataInv), a section    *)
(* begins and ends where no word goes on (Reading), tables are in order    *)
(* without a word twice (TablesInv), and merged tables are before what is  *)
(* left to merge (Merging).  From it follow TypeCorrect, Intact and        *)
(* Tables.  Three more invariants are inductive given IInv: SortInv, that  *)
(* the last round of sorts orders the whole result, from which TopWords    *)
(* follows; CountInv, which words of the file each table counts, with the  *)
(* borders of the sections as witness; and FposInv, how far the sections   *)
(* reach.  LiveTotals adds the tables up, from which CountedToFpos and     *)
(* WordsCounted follow.                                                    *)
(***************************************************************************)
EXTENDS WordCount, WellFoundedInduction, NaturalsInduction, SequenceTheorems,
        FiniteSetTheorems, TLAPS

-----------------------------------------------------------------------------
(* Induction. *)

SmallerThan == {ss \in Nat \X Nat : ss[1] < ss[2]}

\* The order of Nat, on which every recursion here rests, is well-founded.
LEMMA SmallerThanWellFounded == IsWellFoundedOn(SmallerThan, Nat)
<1>1. OpToRel(<, Nat) = SmallerThan
  BY Zenon DEF OpToRel, SmallerThan
<1> QED BY <1>1, NatLessThanWellFounded, Zenon

\* A set of naturals that is not empty has a least element, which Min returns.
LEMMA Least ==
    ASSUME NEW T, T \subseteq Nat, T # {}
    PROVE  Min(T) \in T /\ \A y \in T : Min(T) <= y
<1>1. PICK x \in T : \A y \in T : ~(<<y, x>> \in SmallerThan)
  BY SmallerThanWellFounded, WFMin
<1>2. ASSUME NEW y \in T PROVE x <= y
  <2>1. x \in Nat /\ y \in Nat
    OBVIOUS
  <2>2. y < x => <<y, x>> \in SmallerThan
    BY <2>1 DEF SmallerThan
  <2> QED BY <1>1, <2>1, <2>2
<1> QED BY <1>2 DEF Min

\* Induction on Nat for a set T, which stands for the predicate "n is in T".
LEMMA Induction ==
    ASSUME NEW T, 0 \in T, \A n \in Nat : n \in T => n + 1 \in T
    PROVE  \A n \in Nat : n \in T
<1> DEFINE U == {n \in Nat : n \notin T}
<1> SUFFICES ASSUME U # {} PROVE FALSE
  OBVIOUS
<1>1. PICK x \in U : \A y \in U : x <= y
  BY Least, U \subseteq Nat
<1>2. x # 0
  OBVIOUS
<1>3. x - 1 \in Nat /\ x - 1 \notin U
  BY <1>1, <1>2
<1>4. (x - 1) + 1 \in T
  BY <1>3
<1> QED BY <1>4

-----------------------------------------------------------------------------
(* The order of strcmp is a strict order in which any two texts compare. *)

Texts == Seq(Nat)

\* a and b differ first at place n, or one of them ends there.
Differ(a, b, n) == /\ \A k \in 1..(n - 1) : k <= Len(a) /\ k <= Len(b) /\ a[k] = b[k]
                   /\ n \in 1..(Len(b)) /\ (n = Len(a) + 1 \/ (n <= Len(a) /\ a[n] < b[n]))

\* Two texts differ first where both go on, or where one of them ends.
LEMMA BeforeDiffer ==
    ASSUME NEW a \in Texts, NEW b \in Texts
    PROVE  Before(a, b) <=> \E n \in Nat \ {0} : Differ(a, b, n)
<1>1. ASSUME Before(a, b) PROVE \E n \in Nat \ {0} : Differ(a, b, n)
  <2>1. PICK n \in 1..Len(b) : /\ \A k \in 1..(n - 1) : k <= Len(a) /\ a[k] = b[k]
                               /\ n = Len(a) + 1 \/ (n <= Len(a) /\ a[n] < b[n])
    BY <1>1 DEF Before
  <2> QED BY <2>1 DEF Differ, Texts
<1>2. ASSUME NEW n \in Nat \ {0}, Differ(a, b, n) PROVE Before(a, b)
  BY <1>2 DEF Before, Differ
<1> QED BY <1>1, <1>2

\* No text is before itself.
LEMMA BeforeIrreflexive == ASSUME NEW a \in Texts PROVE ~Before(a, a)
<1>1. \A n \in 1..Len(a) : a[n] \in Nat /\ n # Len(a) + 1
  BY DEF Texts
<1> QED BY <1>1 DEF Before

\* The order of texts is transitive.
LEMMA BeforeTransitive ==
    ASSUME NEW a \in Texts, NEW b \in Texts, NEW c \in Texts, Before(a, b), Before(b, c)
    PROVE  Before(a, c)
<1>1. PICK m \in Nat \ {0} : Differ(a, b, m)
  BY BeforeDiffer
<1>2. PICK n \in Nat \ {0} : Differ(b, c, n)
  BY BeforeDiffer
<1>3. /\ Len(a) \in Nat /\ Len(b) \in Nat /\ Len(c) \in Nat
      /\ \A k \in 1..Len(a) : a[k] \in Nat
      /\ \A k \in 1..Len(b) : b[k] \in Nat
      /\ \A k \in 1..Len(c) : c[k] \in Nat
  BY DEF Texts
<1>4. CASE m <= n
  <2>1. \A k \in 1..(m - 1) : k <= Len(a) /\ k <= Len(c) /\ a[k] = c[k]
    BY <1>1, <1>2, <1>4 DEF Differ
  <2>2. m <= Len(c)
    BY <1>1, <1>2, <1>3, <1>4 DEF Differ
  <2>3. CASE m = Len(a) + 1
    BY <2>1, <2>2, <2>3, BeforeDiffer DEF Differ
  <2>4. CASE m <= Len(a) /\ a[m] < b[m]
    <3>1. CASE m < n
      <4>1. b[m] = c[m]
        BY <1>2, <3>1 DEF Differ
      <4> QED BY <2>1, <2>2, <2>4, <4>1, BeforeDiffer DEF Differ
    <3>2. CASE m = n
      <4>1. m <= Len(b) /\ b[m] < c[m]
        BY <1>1, <1>2, <1>3, <3>2 DEF Differ
      <4>2. a[m] < c[m]
        BY <1>3, <2>2, <2>4, <4>1
      <4>3. Differ(a, c, m)
        BY <1>3, <2>1, <2>2, <2>4, <4>2 DEF Differ
      <4> QED BY <4>3, BeforeDiffer
    <3> QED BY <1>4, <3>1, <3>2
  <2> QED BY <1>1, <2>3, <2>4 DEF Differ
<1>5. CASE n < m
  <2>1. \A k \in 1..(n - 1) : k <= Len(a) /\ k <= Len(c) /\ a[k] = c[k]
    BY <1>1, <1>2, <1>5 DEF Differ
  <2>2. n <= Len(a) /\ n <= Len(b) /\ a[n] = b[n]
    BY <1>1, <1>5 DEF Differ
  <2>3. n <= Len(c) /\ b[n] < c[n]
    BY <1>2, <1>3, <2>2 DEF Differ
  <2>4. Differ(a, c, n)
    BY <1>3, <2>1, <2>2, <2>3 DEF Differ
  <2> QED BY <2>4, BeforeDiffer
<1> QED BY <1>4, <1>5

\* Of two different texts one is before the other.
LEMMA BeforeTotal ==
    ASSUME NEW a \in Texts, NEW b \in Texts
    PROVE  a = b \/ Before(a, b) \/ Before(b, a)
<1> DEFINE T == {n \in Nat : n = 0 \/ n > Len(a) \/ n > Len(b) \/ a[n] # b[n]} \ {0}
<1>1. /\ Len(a) \in Nat /\ Len(b) \in Nat
      /\ \A k \in 1..Len(a) : a[k] \in Nat
      /\ \A k \in 1..Len(b) : b[k] \in Nat
  BY DEF Texts
<1>2. Len(a) + 1 \in T
  BY <1>1
<1>3. PICK n \in T : \A m \in T : n <= m
  BY <1>2, Least, T \subseteq Nat
<1>4. \A k \in 1..(n - 1) : k <= Len(a) /\ k <= Len(b) /\ a[k] = b[k]
  BY <1>1, <1>3
<1>5. n \in Nat \ {0} /\ n - 1 <= Len(a) /\ n - 1 <= Len(b)
  <2>1. n \in Nat \ {0}
    OBVIOUS
  <2>2. CASE n = 1
    BY <1>1, <2>2
  <2>3. CASE n # 1
    <3>1. n - 1 \in 1..(n - 1)
      BY <2>1, <2>3
    <3> QED BY <1>4, <2>1, <3>1
  <2> QED BY <2>1, <2>2, <2>3
<1>6. CASE n > Len(a) /\ n > Len(b)
  <2>1. Len(a) = Len(b) /\ n = Len(a) + 1
    BY <1>1, <1>5, <1>6
  <2>2. \A k \in 1..Len(a) : a[k] = b[k]
    BY <1>1, <1>4, <2>1
  <2> QED BY <2>1, <2>2, SeqEqual DEF Texts
<1>7. CASE n > Len(a) /\ n <= Len(b)
  <2>1. Differ(a, b, n)
    BY <1>1, <1>4, <1>5, <1>7 DEF Differ
  <2> QED BY <2>1, <1>5, BeforeDiffer
<1>8. CASE n <= Len(a) /\ n > Len(b)
  <2>1. Differ(b, a, n)
    BY <1>1, <1>4, <1>5, <1>8 DEF Differ
  <2> QED BY <2>1, <1>5, BeforeDiffer
<1>9. CASE n <= Len(a) /\ n <= Len(b)
  <2>1. a[n] # b[n] /\ a[n] \in Nat /\ b[n] \in Nat
    BY <1>1, <1>5, <1>9
  <2>2. a[n] < b[n] \/ b[n] < a[n]
    BY <2>1
  <2>3. Differ(a, b, n) \/ Differ(b, a, n)
    BY <1>1, <1>4, <1>5, <1>9, <2>2 DEF Differ
  <2> QED BY <2>3, <1>5, BeforeDiffer
<1> QED BY <1>1, <1>5, <1>6, <1>7, <1>8, <1>9

-----------------------------------------------------------------------------
(* The binary search. *)

Pairs(n) == (0..n) \X (-1..n)
Loop(table, word, high, p) ==
    LET next == (p[1] + p[2]) \div 2
    IN  IF p[1] - p[2] <= 1 THEN p[1]
        ELSE IF Text(table[next + 1].word) = word THEN next
        ELSE IF Before(word, Text(table[next + 1].word)) THEN high[<<next, p[2]>>]
        ELSE high[<<p[1], next>>]

\* Search is the function that its loop defines.
LEMMA SearchDef ==
    ASSUME NEW table, NEW word
    PROVE  Search(table, word) =
             (CHOOSE high : high = [p \in Pairs(Len(table)) |-> Loop(table, word, high, p)])
                [<<Len(table), -1>>]
BY DEF Search, Loop, Pairs

\* The recursion is well founded: the distance of the bounds gets smaller.
LEMMA SearchExists ==
    ASSUME NEW table, NEW word, Len(table) \in Nat
    PROVE  \E high : high = [p \in Pairs(Len(table)) |-> Loop(table, word, high, p)]
<1> DEFINE N == Len(table)
           Part(f, n) == f = [p \in Pairs(N) |-> IF p[1] - p[2] <= n + 1
                                                 THEN Loop(table, word, f, p) ELSE 0]
           T == {n \in Nat : \E f : Part(f, n)}
<1>1. 0 \in T
  <2> DEFINE f == [p \in Pairs(N) |-> IF p[1] - p[2] <= 1 THEN p[1] ELSE 0]
  <2>1. Part(f, 0)
    <3> HIDE DEF f
    <3>1. \A p \in Pairs(N) : p[1] - p[2] <= 1 => Loop(table, word, f, p) = p[1]
      BY DEF Loop
    <3>2. [p \in Pairs(N) |-> IF p[1] - p[2] <= 1 THEN p[1] ELSE 0]
            = [p \in Pairs(N) |-> IF p[1] - p[2] <= 1 THEN Loop(table, word, f, p) ELSE 0]
      BY <3>1
    <3> QED BY <3>2, 0 + 1 = 1 DEF f
  <2> QED BY <2>1
<1>2. ASSUME NEW n \in Nat, n \in T PROVE n + 1 \in T
  <2>1. PICK f : Part(f, n)
    BY <1>2
  <2> DEFINE g == [p \in Pairs(N) |-> IF p[1] - p[2] <= n + 2
                                      THEN Loop(table, word, f, p) ELSE 0]
  <2>2. ASSUME NEW p \in Pairs(N), p[1] - p[2] <= n + 1 PROVE f[p] = g[p]
    <3>1. p[1] - p[2] <= n + 2
      BY <2>2 DEF Pairs
    <3>2. f[p] = Loop(table, word, f, p)
      <4>1. f = [r \in Pairs(N) |-> IF r[1] - r[2] <= n + 1
                                    THEN Loop(table, word, f, r) ELSE 0]
        BY <2>1
      <4> HIDE DEF Part, g
      <4> QED BY <2>2, <4>1
    <3>3. g[p] = Loop(table, word, f, p)
      BY <3>1
    <3> QED BY <3>2, <3>3
  <2>3. ASSUME NEW p \in Pairs(N), p[1] - p[2] <= n + 2
        PROVE  Loop(table, word, f, p) = Loop(table, word, g, p)
    <3>1. p[1] \in 0..N /\ p[2] \in -1..N
      BY DEF Pairs
    <3>2. CASE p[1] - p[2] <= 1
      BY <3>2 DEF Loop
    <3>3. CASE p[1] - p[2] > 1
      <4> DEFINE next == (p[1] + p[2]) \div 2
      <4>1. next \in 0..N /\ next < p[1] /\ next > p[2]
        BY <3>1, <3>3
      <4>2. <<next, p[2]>> \in Pairs(N) /\ <<p[1], next>> \in Pairs(N)
        BY <3>1, <4>1 DEF Pairs
      <4>3. next - p[2] <= n + 1 /\ p[1] - next <= n + 1
        BY <2>3, <3>1, <4>1
      <4> HIDE DEF g
      <4>4. f[<<next, p[2]>>] = g[<<next, p[2]>>] /\ f[<<p[1], next>>] = g[<<p[1], next>>]
        BY <2>2, <4>2, <4>3
      <4> QED BY <4>4 DEF Loop
    <3> QED BY <3>1, <3>2, <3>3
  <2>4. g = [p \in Pairs(N) |-> IF p[1] - p[2] <= n + 2 THEN Loop(table, word, g, p) ELSE 0]
    <3> HIDE DEF g
    <3>1. [p \in Pairs(N) |-> IF p[1] - p[2] <= n + 2 THEN Loop(table, word, f, p) ELSE 0]
            = [p \in Pairs(N) |-> IF p[1] - p[2] <= n + 2 THEN Loop(table, word, g, p) ELSE 0]
      BY <2>3
    <3> QED BY <3>1 DEF g
  <2>5. Part(g, n + 1)
    <3> HIDE DEF g
    <3> QED BY <2>4, (n + 1) + 1 = n + 2
  <2> HIDE DEF g, Part
  <2> QED BY <2>5
<1> HIDE DEF T
<1>3. N + 1 \in T
  BY <1>1, <1>2, Induction
<1>4. PICK f : Part(f, N + 1)
  BY <1>3 DEF T
<1>5. \A p \in Pairs(N) : p[1] - p[2] <= (N + 1) + 1
  BY DEF Pairs
<1>6. f = [p \in Pairs(N) |-> Loop(table, word, f, p)]
  BY <1>4, <1>5
<1> QED BY <1>6

\* In a table in order, Search returns the place of the word, or else the first place
\* with a greater word, counted from 0.
LEMMA SearchResult ==
    ASSUME NEW table, NEW word \in Texts, Len(table) \in Nat,
           \A k \in 1..Len(table) : Text(table[k].word) \in Texts,
           \A k, l \in 1..Len(table) :
              k < l => Before(Text(table[k].word), Text(table[l].word))
    PROVE  LET h == Search(table, word)
           IN  /\ h \in 0..Len(table)
               /\ \/ h < Len(table) /\ Text(table[h + 1].word) = word
                  \/ /\ \A k \in 1..h : Before(Text(table[k].word), word)
                     /\ \A k \in (h + 1)..Len(table) : Before(word, Text(table[k].word))
<1> DEFINE N == Len(table)
           Def(f) == f = [p \in Pairs(N) |-> Loop(table, word, f, p)]
           high == CHOOSE f : Def(f)
           Found(h) == h < N /\ Text(table[h + 1].word) = word
           Below(l) == \A k \in 1..N : k <= l + 1 => Before(Text(table[k].word), word)
           Above(h) == \A k \in 1..N : k > h => Before(word, Text(table[k].word))
           Good(r) == r \in 0..N /\ (Found(r) \/ (Below(r - 1) /\ Above(r)))
           Bounds(h, l) == h \in 0..N /\ l \in -1..(N - 1) /\ l < h /\ Below(l) /\ Above(h)
           T == {n \in Nat : \A h, l \in -1..N : Bounds(h, l) /\ h - l <= n + 1
                                                  => Good(high[<<h, l>>])}
<1>1. Search(table, word) = high[<<N, -1>>]
  BY SearchDef
<1>2. Def(high)
  <2>1. \E f : Def(f)
    BY SearchExists
  <2> QED BY <2>1
<1> HIDE DEF high
<1>3. ASSUME NEW h \in 0..N, NEW l \in -1..N
      PROVE  high[<<h, l>>] = Loop(table, word, high, <<h, l>>)
  <2>1. <<h, l>> \in Pairs(N)
    BY DEF Pairs
  <2> QED BY <1>2, <2>1
<1> HIDE DEF Def
<1>4. ASSUME NEW h \in -1..N, NEW l \in -1..N, Bounds(h, l), h - l <= 1
      PROVE  Good(high[<<h, l>>])
  <2>1. h - l = 1 /\ h \in 0..N
    <3> HIDE DEF Below, Above, Good, T
    <3> QED BY <1>4
  <2>2. high[<<h, l>>] = h
    <3>1. high[<<h, l>>] = Loop(table, word, high, <<h, l>>)
      BY <1>3, <2>1
    <3>2. <<h, l>>[1] - <<h, l>>[2] <= 1
      BY <2>1
    <3> QED BY <3>1, <3>2 DEF Loop
  <2>3. Below(h - 1)
    <3>1. l = h - 1
      BY <2>1
    <3> QED BY <1>4, <3>1
  <2> HIDE DEF Below, Above, Found
  <2> QED BY <1>4, <2>1, <2>2, <2>3
<1>5. 0 \in T
  <2> HIDE DEF Bounds, Good
  <2> QED BY <1>4, 0 + 1 = 1
<1>6. ASSUME NEW n \in Nat, n \in T PROVE n + 1 \in T
  <2> HIDE DEF Good, Below, Above
  <2> SUFFICES ASSUME NEW h \in -1..N, NEW l \in -1..N, Bounds(h, l), h - l <= n + 2
               PROVE  Good(high[<<h, l>>])
    OBVIOUS
  <2>1. CASE h - l <= 1
    BY <1>4, <2>1
  <2>2. CASE h - l > 1
    <3> DEFINE next == (h + l) \div 2
    <3>0. h \in Int /\ l \in Int /\ h <= N /\ l >= -1 /\ h - l >= 2
      BY <2>2
    <3>1. next \in 0..(N - 1) /\ l < next /\ next < h
      <4>1. next \in Int /\ 2 * next <= h + l /\ h + l <= 2 * next + 1
        BY <3>0
      <4> HIDE DEF next
      <4> QED BY <3>0, <4>1
    <3>2. next - l <= n + 1 /\ h - next <= n + 1
      BY <3>0, <3>1
    <3>3. high[<<h, l>>] = IF Text(table[next + 1].word) = word THEN next
                           ELSE IF Before(word, Text(table[next + 1].word))
                                  THEN high[<<next, l>>] ELSE high[<<h, next>>]
      BY <1>3, <2>2 DEF Loop
    <3> HIDE DEF next
    <3>t. next + 1 \in 1..N /\ Text(table[next + 1].word) \in Texts
      BY <3>1
    <3>4. CASE Text(table[next + 1].word) = word
      BY <3>1, <3>3, <3>4 DEF Good
    <3>5. CASE Text(table[next + 1].word) # word /\ Before(word, Text(table[next + 1].word))
      <4>1. Above(next)
        <5> SUFFICES ASSUME NEW k \in 1..N, k > next
                     PROVE  Before(word, Text(table[k].word))
          BY DEF Above
        <5>1. CASE k = next + 1
          BY <3>5, <5>1
        <5>2. CASE k > next + 1
          <6>1. Before(Text(table[next + 1].word), Text(table[k].word))
            BY <3>t, <5>2
          <6> QED BY <3>5, <3>t, <6>1, BeforeTransitive
        <5> QED BY <3>1, <5>1, <5>2
      <4>2. Bounds(next, l)
        BY <3>1, <4>1
      <4>3. next \in -1..N
        BY <3>1
      <4>4. Good(high[<<next, l>>])
        <5> HIDE DEF Bounds
        <5> QED BY <1>6, <3>2, <4>2, <4>3
      <4> QED BY <3>3, <3>5, <4>4
    <3>6. CASE Text(table[next + 1].word) # word /\ ~Before(word, Text(table[next + 1].word))
      <4>0. Before(Text(table[next + 1].word), word)
        BY <3>6, <3>t, BeforeTotal
      <4>1. Below(next)
        <5> SUFFICES ASSUME NEW k \in 1..N, k <= next + 1
                     PROVE  Before(Text(table[k].word), word)
          BY DEF Below
        <5>1. CASE k = next + 1
          BY <4>0, <5>1
        <5>2. CASE k < next + 1
          <6>1. Before(Text(table[k].word), Text(table[next + 1].word))
            BY <3>t, <5>2
          <6> QED BY <4>0, <3>t, <6>1, BeforeTransitive
        <5> QED BY <3>1, <5>1, <5>2
      <4>2. Bounds(h, next)
        BY <3>1, <4>1
      <4>3. next \in -1..N
        BY <3>1
      <4>4. Good(high[<<h, next>>])
        <5> HIDE DEF Bounds
        <5> QED BY <1>6, <3>2, <4>2, <4>3
      <4> QED BY <3>3, <3>6, <4>4
    <3> QED BY <3>4, <3>5, <3>6
  <2> QED BY <2>1, <2>2
<1>7. N \in T
  <2> HIDE DEF T
  <2> QED BY <1>5, <1>6, Induction
<1>8. Good(high[<<N, -1>>])
  <2>1. CASE N > 0
    <3>1. Bounds(N, -1) /\ N - (-1) <= N + 1
      BY <2>1
    <3>2. N \in -1..N /\ -1 \in -1..N
      OBVIOUS
    <3> HIDE DEF Bounds, Good
    <3> QED BY <1>7, <3>1, <3>2
  <2>2. CASE N = 0
    <3>1. high[<<N, -1>>] = 0
      BY <1>3, <2>2 DEF Loop
    <3> QED BY <2>2, <3>1
  <2> QED BY <2>1, <2>2
<1> DEFINE r == high[<<N, -1>>]
<1>9. r = Search(table, word) /\ Good(r)
  BY <1>1, <1>8
<1> HIDE DEF r
<1>10. r \in 0..N
  BY <1>9
<1>11. CASE Found(r)
  BY <1>9, <1>10, <1>11
<1>12. CASE Below(r - 1) /\ Above(r)
  <2>1. \A k \in 1..r : Before(Text(table[k].word), word)
    BY <1>10, <1>12
  <2>2. \A k \in (r + 1)..N : Before(word, Text(table[k].word))
    BY <1>10, <1>12
  <2> QED BY <1>9, <1>10, <2>1, <2>2
<1> QED BY <1>9, <1>11, <1>12

-----------------------------------------------------------------------------
(* Tables: sequences of entries in the order of their words. *)

Key(e)     == FileWord(e.word)
InOrder(s) == \A k, l \in 1..Len(s) : k < l => Before(Key(s[k]), Key(s[l]))
Entry(p)   == [word |-> p, count |-> 1]

\* new is s with e at place j.
PutIn(new, s, j, e) ==
    /\ j \in 1..(Len(s) + 1) /\ Len(new) = Len(s) + 1
    /\ \A k \in 1..(Len(s) + 1) :
          new[k] = IF k < j THEN s[k] ELSE IF k = j THEN e ELSE s[k - 1]

\* new is s with a higher count in the entry at place j.
CountedUp(new, s, j, n) ==
    /\ j \in 1..Len(s) /\ Len(new) = Len(s)
    /\ \A k \in 1..Len(s) : /\ new[k].word = s[k].word
                            /\ new[k].count = IF k = j THEN s[k].count + n ELSE s[k].count

\* The elements of a sequence after an insertion at place j.
LEMMA InsertAtElements ==
    ASSUME NEW S, NEW s \in Seq(S), NEW j \in 1..(Len(s) + 1), NEW e \in S
    PROVE  InsertAt(s, j, e) \in Seq(S) /\ PutIn(InsertAt(s, j, e), s, j, e)
<1> DEFINE a == SubSeq(s, 1, j - 1)
           b == SubSeq(s, j, Len(s))
           c == a \o <<e>>
<1>1. a \in Seq(S) /\ Len(a) = j - 1 /\ \A k \in 1..(j - 1) : a[k] = s[k]
  OBVIOUS
<1>2. b \in Seq(S) /\ Len(b) = Len(s) - j + 1 /\ \A k \in 1..(Len(s) - j + 1) : b[k] = s[k + j - 1]
  OBVIOUS
<1>3. InsertAt(s, j, e) = c \o b
  BY DEF InsertAt
<1> HIDE DEF a, b
<1>4. c \in Seq(S) /\ Len(c) = j /\ \A k \in 1..j : c[k] = IF k < j THEN s[k] ELSE e
  BY <1>1
<1> HIDE DEF c
<1>5. /\ c \o b \in Seq(S) /\ Len(c \o b) = Len(c) + Len(b)
      /\ \A k \in 1..(Len(c) + Len(b)) : (c \o b)[k] = IF k <= Len(c) THEN c[k] ELSE b[k - Len(c)]
  BY <1>2, <1>4, ConcatProperties
<1>6. Len(c) + Len(b) = Len(s) + 1
  BY <1>2, <1>4
<1>7. ASSUME NEW k \in 1..(Len(s) + 1)
      PROVE  (c \o b)[k] = IF k < j THEN s[k] ELSE IF k = j THEN e ELSE s[k - 1]
  <2>1. CASE k <= j
    BY <1>4, <1>5, <1>6, <2>1
  <2>2. CASE k > j
    <3>1. k - j \in 1..(Len(s) - j + 1)
      BY <2>2
    <3>2. b[k - j] = s[(k - j) + j - 1]
      BY <1>2, <3>1
    <3>3. (k - j) + j - 1 = k - 1
      OBVIOUS
    <3> QED BY <1>4, <1>5, <1>6, <2>2, <3>2, <3>3
  <2>3. k <= j \/ k > j
    BY LenProperties
  <2> QED BY <2>1, <2>2, <2>3, Zenon
<1> QED BY <1>3, <1>5, <1>6, <1>7 DEF PutIn

\* An entry put between those of smaller and those of greater words keeps the order.
LEMMA PutInOrder ==
    ASSUME NEW new, NEW s, Len(s) \in Nat, NEW j, NEW e, PutIn(new, s, j, e), InOrder(s),
           \A k \in 1..Len(s) : /\ k < j => Before(Key(s[k]), Key(e))
                                /\ j <= k => Before(Key(e), Key(s[k]))
    PROVE  InOrder(new)
<1> SUFFICES ASSUME NEW k \in 1..(Len(s) + 1), NEW l \in 1..(Len(s) + 1), k < l
             PROVE  Before(Key(new[k]), Key(new[l]))
  BY DEF InOrder, PutIn
<1>1. \A m, n \in 1..Len(s) : m < n => Before(Key(s[m]), Key(s[n]))
  BY DEF InOrder
<1>2. j \in 1..(Len(s) + 1)
  BY DEF PutIn
<1>3. /\ new[k] = IF k < j THEN s[k] ELSE IF k = j THEN e ELSE s[k - 1]
      /\ new[l] = IF l < j THEN s[l] ELSE IF l = j THEN e ELSE s[l - 1]
  BY DEF PutIn
<1>4. CASE l < j
  <2>1. new[k] = s[k] /\ new[l] = s[l] /\ k \in 1..Len(s) /\ l \in 1..Len(s)
    BY <1>2, <1>3, <1>4
  <2> QED BY <1>1, <2>1
<1>5. CASE l = j
  <2>1. new[k] = s[k] /\ new[l] = e /\ k \in 1..Len(s) /\ k < j
    BY <1>2, <1>3, <1>5
  <2> QED BY <2>1
<1>6. CASE l > j /\ k < j
  <2>1. k \in 1..Len(s) /\ l - 1 \in 1..Len(s) /\ k < l - 1
    BY <1>2, <1>6
  <2>2. new[k] = s[k] /\ new[l] = s[l - 1]
    BY <1>2, <1>3, <1>6
  <2> QED BY <1>1, <2>1, <2>2
<1>7. CASE l > j /\ k = j
  <2>1. l - 1 \in 1..Len(s) /\ j <= l - 1 /\ new[k] = e /\ new[l] = s[l - 1]
    BY <1>2, <1>3, <1>7
  <2> QED BY <2>1
<1>8. CASE l > j /\ k > j
  <2>1. k - 1 \in 1..Len(s) /\ l - 1 \in 1..Len(s) /\ k - 1 < l - 1
    BY <1>2, <1>8
  <2>2. new[k] = s[k - 1] /\ new[l] = s[l - 1]
    BY <1>2, <1>3, <1>8
  <2> QED BY <1>1, <2>1, <2>2
<1> QED BY <1>2, <1>4, <1>5, <1>6, <1>7, <1>8

\* A higher count does not change the order.
LEMMA CountedUpOrder ==
    ASSUME NEW new, NEW s, NEW j, NEW n, CountedUp(new, s, j, n), InOrder(s)
    PROVE  InOrder(new)
BY DEF InOrder, CountedUp, Key

\* wordcount_reduce counts one more occurrence of a word the table has, and else puts an
\* entry for the word in its place.
LEMMA AddedEffect ==
    ASSUME NEW s \in Seq(Entries), NEW p \in 0..flen, FileWord(p) \in Texts,
           \A k \in 1..Len(s) : Text(s[k].word) = Key(s[k]) /\ Key(s[k]) \in Texts,
           InOrder(s)
    PROVE  LET new == Added(s, FileWord(p), p)
           IN  /\ new \in Seq(Entries) /\ InOrder(new)
               /\ \/ \E j \in 1..Len(s) : Key(s[j]) = FileWord(p) /\ CountedUp(new, s, j, 1)
                  \/ /\ \A j \in 1..Len(s) : Key(s[j]) # FileWord(p)
                     /\ \E j : PutIn(new, s, j, Entry(p))
<1> DEFINE w == FileWord(p)
           h == Search(s, w)
           N == Len(s)
           Hit == h + 1 <= N /\ Text(s[h + 1].word) = w
<1>0. N \in Nat /\ \A k \in 1..N : s[k] \in Entries
  OBVIOUS
<1>1. /\ h \in 0..N
      /\ \/ h < N /\ Text(s[h + 1].word) = w
         \/ /\ \A k \in 1..h : Before(Text(s[k].word), w)
            /\ \A k \in (h + 1)..N : Before(w, Text(s[k].word))
  <2>1. \A k \in 1..N : Text(s[k].word) \in Texts
    OBVIOUS
  <2>2. \A k, l \in 1..N : k < l => Before(Text(s[k].word), Text(s[l].word))
    BY DEF InOrder
  <2> HIDE DEF w
  <2>3. w \in Texts
    BY DEF w
  <2> QED BY <1>0, <2>1, <2>2, <2>3, SearchResult
<1>2. Added(s, w, p) = IF Hit THEN [s EXCEPT ![h + 1].count = @ + 1]
                              ELSE InsertAt(s, h + 1, Entry(p))
  BY DEF Added, Entry
<1> HIDE DEF w, h
<1>3. w \in Texts /\ w = FileWord(p)
  BY DEF w
<1>4. CASE Hit
  <2>1. h + 1 \in 1..N
    BY <1>0, <1>1, <1>4
  <2> DEFINE new == [s EXCEPT ![h + 1].count = @ + 1]
  <2>2. /\ s[h + 1] \in Entries
        /\ [s[h + 1] EXCEPT !.count = @ + 1] \in Entries
        /\ [s[h + 1] EXCEPT !.count = @ + 1].word = s[h + 1].word
        /\ [s[h + 1] EXCEPT !.count = @ + 1].count = s[h + 1].count + 1
    <3>1. \A e \in Entries : /\ [e EXCEPT !.count = @ + 1] \in Entries
                             /\ [e EXCEPT !.count = @ + 1].word = e.word
                             /\ [e EXCEPT !.count = @ + 1].count = e.count + 1
      BY DEF Entries
    <3>2. s[h + 1] \in Entries
      BY <1>0, <2>1
    <3> QED BY <3>1, <3>2
  <2>3. new = [s EXCEPT ![h + 1] = [s[h + 1] EXCEPT !.count = @ + 1]]
    OBVIOUS
  <2> HIDE DEF new
  <2>4. new \in Seq(Entries) /\ Len(new) = N
    BY <2>1, <2>2, <2>3, ExceptSeq
  <2>5. \A k \in 1..N : new[k] = IF k = h + 1 THEN [s[h + 1] EXCEPT !.count = @ + 1] ELSE s[k]
    BY <2>1, <2>3
  <2>6. CountedUp(new, s, h + 1, 1)
    BY <2>1, <2>2, <2>4, <2>5 DEF CountedUp
  <2>7. InOrder(new)
    BY <2>6, CountedUpOrder
  <2>8. Added(s, w, p) = new
    BY <1>2, <1>4 DEF new
  <2>9. Key(s[h + 1]) = w
    BY <1>4, <2>1
  <2> QED BY <1>3, <2>1, <2>4, <2>6, <2>7, <2>8, <2>9
<1>5. CASE ~Hit
  <2>1. /\ \A k \in 1..h : Before(Text(s[k].word), w)
        /\ \A k \in (h + 1)..N : Before(w, Text(s[k].word))
    BY <1>0, <1>1, <1>5
  <2>2. h + 1 \in 1..(N + 1)
    BY <1>0, <1>1
  <2>3. Entry(p) \in Entries /\ Key(Entry(p)) = w
    BY <1>3 DEF Entry, Entries, Key
  <2> DEFINE new == InsertAt(s, h + 1, Entry(p))
  <2>4. new \in Seq(Entries) /\ PutIn(new, s, h + 1, Entry(p))
    BY <2>2, <2>3, InsertAtElements
  <2> HIDE DEF new
  <2>5. \A k \in 1..N : /\ k < h + 1 => Before(Key(s[k]), w)
                        /\ h + 1 <= k => Before(w, Key(s[k]))
    BY <1>0, <1>1, <2>1
  <2>6. InOrder(new)
    BY <1>0, <2>3, <2>4, <2>5, PutInOrder
  <2>7. \A k \in 1..N : Key(s[k]) # w
    <3> SUFFICES ASSUME NEW k \in 1..N, Key(s[k]) = w PROVE FALSE
      OBVIOUS
    <3>1. k < h + 1 \/ h + 1 <= k
      BY <1>0, <1>1
    <3>2. Before(w, w)
      BY <2>5, <3>1
    <3> QED BY <1>3, <3>2, BeforeIrreflexive
  <2>8. Added(s, w, p) = new
    BY <1>2, <1>5 DEF new
  <2> QED BY <1>3, <2>4, <2>6, <2>7, <2>8
<1> QED BY <1>3, <1>4, <1>5

-----------------------------------------------------------------------------
(* Words of the file, and their copies in the mapping. *)

\* A word of the file is at p, and ends before e.
WordAt(p, e) == /\ p \in 0..(flen - 1) /\ e \in (p + 1)..flen
                /\ Letter(Char(p)) /\ \A r \in p..(e - 1) : InsideWord(Char(r))
                /\ e = flen \/ ~InsideWord(Char(e))
                /\ ~(p > 0 /\ InFileWord(p - 1))

\* The mapping has the characters of that word.
Copied(p, e) == \A r \in p..(e - 1) : data[r] = Char(r)

\* A string of the mapping is a word of the file.
Whole(p) == \E e \in 0..flen : WordAt(p, e) /\ Copied(p, e) /\ data[e] = 0

FileInv == file \in Seq(1..127)
DataInv == /\ FileInv /\ data \in [0..flen -> 0..127] /\ data[flen] = 0
           /\ \A q \in 0..(flen - 1) : \/ data[q] \in {file[q + 1], Char(q)}
                                       \/ data[q] = 0 /\ ~InsideWord(Char(q))

\* Characters of the file.
LEMMA CharType ==
    ASSUME FileInv, NEW p \in 0..(flen - 1)
    PROVE  /\ file[p + 1] \in 1..127 /\ Char(p) \in 1..127
           /\ toupper(file[p + 1]) = Char(p) /\ toupper(Char(p)) = Char(p)
<1>1. flen \in Nat /\ \A k \in 1..flen : file[k] \in 1..127
  <2>1. flen \in Nat
    BY DEF FileInv, flen
  <2>2. \A k \in 1..flen : file[k] \in 1..127
    BY ElementOfSeq DEF FileInv, flen
  <2> QED BY <2>1, <2>2
<1>2. file[p + 1] \in 1..127
  BY <1>1
<1> QED BY <1>2 DEF Char, toupper

\* The size of the file is a natural.
LEMMA FlenType == FileInv => flen \in Nat
BY DEF FileInv, flen

\* A letter is in a word, and what follows an inner character is if it is one.
LEMMA InWordStep ==
    ASSUME NEW p \in Nat
    PROVE  InFileWord(p) <=> \/ Letter(Char(p))
                             \/ p > 0 /\ InFileWord(p - 1) /\ InsideWord(Char(p))
<1>1. ASSUME Letter(Char(p)) PROVE InFileWord(p)
  <2>1. p \in 0..p /\ \A r \in p..p : InsideWord(Char(r))
    BY <1>1 DEF InsideWord
  <2> QED BY <1>1, <2>1 DEF InFileWord
<1>2. ASSUME p > 0, InFileWord(p - 1), InsideWord(Char(p)) PROVE InFileWord(p)
  <2>1. PICK q \in 0..(p - 1) : Letter(Char(q)) /\ \A r \in q..(p - 1) : InsideWord(Char(r))
    BY <1>2 DEF InFileWord
  <2>2. \A r \in q..p : InsideWord(Char(r))
    BY <1>2, <2>1
  <2> QED BY <2>1, <2>2 DEF InFileWord
<1>3. ASSUME InFileWord(p), ~Letter(Char(p))
      PROVE  p > 0 /\ InFileWord(p - 1) /\ InsideWord(Char(p))
  <2>1. PICK q \in 0..p : Letter(Char(q)) /\ \A r \in q..p : InsideWord(Char(r))
    BY <1>3 DEF InFileWord
  <2>2. q # p
    BY <1>3, <2>1
  <2>3. q \in 0..(p - 1) /\ p > 0 /\ \A r \in q..(p - 1) : InsideWord(Char(r))
    BY <2>1, <2>2
  <2>4. InsideWord(Char(p))
    BY <2>1
  <2> QED BY <2>1, <2>3, <2>4 DEF InFileWord
<1> QED BY <1>1, <1>2, <1>3

\* What FileWord says of a word: its characters.
LEMMA FileWordOf ==
    ASSUME FileInv, NEW p, NEW e, WordAt(p, e)
    PROVE  /\ p \in WordStarts /\ p \in 0..flen
           /\ FileWord(p) = [k \in 1..(e - p) |-> Char(p + k - 1)]
           /\ FileWord(p) \in Texts
<1> DEFINE T == {q \in p..flen : q = flen \/ ~InFileWord(q)}
<1>1. /\ flen \in Nat /\ p \in 0..(flen - 1) /\ e \in (p + 1)..flen /\ Letter(Char(p))
      /\ \A r \in p..(e - 1) : InsideWord(Char(r))
  BY FlenType DEF WordAt
<1>2. ASSUME NEW q \in p..(e - 1) PROVE InFileWord(q)
  <2>1. \A r \in p..q : InsideWord(Char(r))
    BY <1>1
  <2> QED BY <1>1, <2>1 DEF InFileWord
<1>3. e = flen \/ ~InFileWord(e)
  <2>1. CASE e # flen
    <3>1. ~InsideWord(Char(e))
      BY <2>1 DEF WordAt
    <3>2. \A q \in 0..e : e \in q..e
      BY <1>1
    <3> QED BY <3>1, <3>2 DEF InFileWord
  <2> QED BY <2>1
<1>4. Min(T) = e
  <2>1. e \in T /\ T \subseteq Nat
    BY <1>1, <1>3
  <2>2. Min(T) \in T /\ Min(T) <= e
    <3> HIDE DEF T
    <3> QED BY <2>1, Least
  <2>3. \A q \in T : q >= e
    BY <1>1, <1>2
  <2>4. Min(T) \in Nat
    BY <2>1, <2>2
  <2> HIDE DEF T
  <2> QED BY <1>1, <2>2, <2>3, <2>4
<1>5. FileWord(p) = [k \in 1..(e - p) |-> Char(p + k - 1)]
  BY <1>4 DEF FileWord
<1>6. FileWord(p) \in Texts
  <2>1. \A k \in 1..(e - p) : Char(p + k - 1) \in Nat
    <3> SUFFICES ASSUME NEW k \in 1..(e - p) PROVE Char(p + k - 1) \in Nat
      OBVIOUS
    <3>1. p + k - 1 \in 0..(flen - 1)
      BY <1>1
    <3>2. Char(p + k - 1) \in 1..127
      BY <3>1, CharType
    <3> QED BY <3>2
  <2>2. e - p \in Nat
    BY <1>1
  <2> QED BY <1>5, <2>1, <2>2, IsASeq DEF Texts
<1>7. p \in WordStarts
  BY DEF WordStarts, WordAt
<1>8. p \in 0..flen
  BY <1>1
<1> QED BY <1>5, <1>6, <1>7, <1>8

\* A string is a word of the file if it has its characters and a 0 behind them.
LEMMA TextOf ==
    ASSUME FileInv, NEW mem, NEW p, NEW e, WordAt(p, e),
           \A r \in p..(e - 1) : mem[r] = Char(r), mem[e] = 0
    PROVE  TextIn(mem, p) = FileWord(p)
<1> DEFINE T == {q \in p..flen : mem[q] = 0}
<1>1. /\ flen \in Nat /\ p \in 0..(flen - 1) /\ e \in (p + 1)..flen
      /\ \A r \in p..(e - 1) : Char(r) \in 1..127
  <2>1. flen \in Nat /\ p \in 0..(flen - 1) /\ e \in (p + 1)..flen
    BY FlenType DEF WordAt
  <2>2. \A r \in p..(e - 1) : r \in 0..(flen - 1)
    BY <2>1
  <2> QED BY <2>1, <2>2, CharType
<1>2. Min(T) = e
  <2>1. e \in T /\ T \subseteq Nat
    BY <1>1
  <2>2. Min(T) \in T /\ Min(T) <= e
    <3> HIDE DEF T
    <3> QED BY <2>1, Least
  <2>3. \A q \in T : q >= e
    <3> SUFFICES ASSUME NEW q \in p..flen, mem[q] = 0, q < e PROVE FALSE
      BY <1>1
    <3>1. q \in p..(e - 1)
      BY <1>1
    <3>2. mem[q] \in 1..127
      BY <1>1, <3>1
    <3> QED BY <3>2
  <2>4. Min(T) \in Nat
    BY <2>1, <2>2
  <2> HIDE DEF T
  <2> QED BY <1>1, <2>2, <2>3, <2>4
<1>3. TextIn(mem, p) = [k \in 1..(e - p) |-> mem[p + k - 1]]
  BY <1>2 DEF TextIn
<1>4. \A k \in 1..(e - p) : p + k - 1 \in p..(e - 1)
  BY <1>1
<1>5. [k \in 1..(e - p) |-> mem[p + k - 1]] = [k \in 1..(e - p) |-> Char(p + k - 1)]
  BY <1>4
<1> QED BY <1>3, <1>5, FileWordOf

\* The text of a word that is stored is the word of the file.
LEMMA TextOfWhole ==
    ASSUME FileInv, NEW p, Whole(p)
    PROVE  Text(p) = FileWord(p) /\ p \in WordStarts /\ FileWord(p) \in Texts /\ p \in 0..flen
<1>1. PICK e \in 0..flen : WordAt(p, e) /\ Copied(p, e) /\ data[e] = 0
  BY DEF Whole
<1> QED BY <1>1, TextOf, FileWordOf DEF Copied, Text

-----------------------------------------------------------------------------
(* The first invariant: control, and what tables and threads hold. *)

InMap   == pc \in {"split", "join_map"}
InMerge == pc \in {"create_merge", "join_merge"}
InSort  == pc \in {"create_sort", "join_sort"}

\* No word of the file crosses the place.
Edge(q) == q = 0 \/ q = flen \/ ~InsideWord(Char(q))

Stored(s)   == s \in Seq(Entries) /\ \A k \in 1..Len(s) : Whole(s[k].word)
Good(s)     == Stored(s) /\ InOrder(s)
Distinct(s) == \A k, l \in 1..Len(s) : k # l => Key(s[k]) # Key(s[l])
AllBefore(r, s) == \A k \in 1..Len(r) : \A l \in 1..Len(s) : Before(Key(r[k]), Key(s[l]))

\* How far the thread of a section has come.
Reading(x) ==
    /\ x \in [at : {"map"}, start : 0..flen, length : 0..flen, i : 0..flen,
              curr_start : 0..flen, in_word : BOOLEAN]
    /\ x.start + x.length <= flen /\ x.i <= x.length
    /\ Edge(x.start) /\ (x.start + x.length = flen \/ ~InsideWord(Char(x.start + x.length)))
    /\ x.in_word => /\ x.curr_start \in x.start..(x.start + x.i - 1)
                    /\ Letter(Char(x.curr_start))
                    /\ ~(x.curr_start > 0 /\ InFileWord(x.curr_start - 1))
                    /\ \A r \in x.curr_start..(x.start + x.i - 1) :
                          InsideWord(Char(r)) /\ data[r] = Char(r)
    /\ ~x.in_word /\ x.i > 0 => ~InFileWord(x.start + x.i - 1)

\* Two tables and what they are merged to so far.
Mergers == [at : {"merge"}, data1 : Seq(Entries), data2 : Seq(Entries), out : Seq(Entries)]
Merging(x) ==
    /\ x \in Mergers
    /\ Good(x.data1) /\ Good(x.data2) /\ Good(x.out)
    /\ AllBefore(x.out, x.data1) /\ AllBefore(x.out, x.data2)
Merged(x)  == x.at = "ended" /\ Good(x.out)
Sorting(x) == x.at = "sort" /\ x.base \in Nat /\ x.num_elems \in Nat
              /\ x.base + x.num_elems <= Len(words[0])

ControlInv ==
    /\ num_procs \in 1..MaxProcs /\ fpos \in 0..flen
    /\ fpos = 0 \/ fpos = flen \/ ~InsideWord(Char(fpos))
    /\ pc \in {"split", "join_map", "create_merge", "join_merge", "sort", "create_sort",
               "join_sort", "done"}
    /\ i \in Procs /\ rem_num \in {0, 1}
    /\ num_threads \in 0..num_procs
    /\ InMerge => i < num_threads /\ 2 * num_threads + rem_num <= num_procs
    /\ InSort => i < num_threads
    /\ ~InMerge /\ ~InSort => num_threads = 0

\* The threads before i, or all of them, have been created; or those before i joined.
ThreadInv(t) ==
    /\ InMap => thr[t].at = "ended" \/ Reading(thr[t])
    /\ pc = "split" /\ t >= i => thr[t].at = "ended"
    /\ pc = "join_map" /\ t < i => thr[t].at = "ended"
    /\ pc = "create_merge" => IF t < i THEN Merging(thr[t]) \/ Merged(thr[t])
                                       ELSE thr[t].at = "ended"
    /\ pc = "join_merge" => IF t < num_threads /\ t >= i THEN Merging(thr[t]) \/ Merged(thr[t])
                                                        ELSE thr[t].at = "ended"
    /\ pc = "create_sort" => thr[t].at = "ended" \/ (t < i /\ Sorting(thr[t]))
    /\ pc = "join_sort" => thr[t].at = "ended" \/ (t < num_threads /\ t >= i /\ Sorting(thr[t]))
    /\ pc \in {"sort", "done"} => thr[t].at = "ended"
ThreadsInv == DOMAIN thr = Procs /\ \A t \in Procs : ThreadInv(t)

TablesInv ==
    /\ DOMAIN words = Procs /\ length \in [Procs -> Nat \ {0}]
    /\ \A t \in Procs : Stored(words[t])
    /\ InMap \/ InMerge => \A t \in Procs : InOrder(words[t])
    /\ InMap => \A t \in Procs : Len(words[t]) < length[t]
    /\ Distinct(words[0])

IInv == DataInv /\ ControlInv /\ ThreadsInv /\ TablesInv

-----------------------------------------------------------------------------
(* Counts. *)

Between(a, b) == {p \in WordStarts : a <= p /\ p < b}
Occ(S, w)     == Cardinality({p \in S : FileWord(p) = w})
Has(s, w)     == \E k \in 1..Len(s) : Key(s[k]) = w

\* A table has the counts of the words that start in S.
Counts(s, S) == /\ \A k \in 1..Len(s) : s[k].count = Occ(S, Key(s[k]))
                /\ \A p \in S : Has(s, FileWord(p))

\* The counts while the tables of R and S are merged.  Where both have a word the count
\* of the second is added to that of the first.
Merges(a, b, o, R, S, U) ==
    /\ \A p \in R : Has(a, FileWord(p)) \/ Has(o, FileWord(p))
    /\ \A p \in S : Has(b, FileWord(p)) \/ Has(a, FileWord(p)) \/ Has(o, FileWord(p))
    /\ \A k \in 1..Len(o) : o[k].count = Occ(U, Key(o[k]))
    /\ \A k \in 1..Len(a) : a[k].count = IF Has(b, Key(a[k])) THEN Occ(R, Key(a[k]))
                                                            ELSE Occ(U, Key(a[k]))
    /\ \A k \in 1..Len(b) : b[k].count = Occ(S, Key(b[k]))
MergeCounts(x, R, S) == Merges(x.data1, x.data2, x.out, R, S, R \cup S)

\* Words before this place are in the table of the thread.
Reached(x) == IF x.in_word THEN x.curr_start ELSE x.start + x.i

\* The borders b of the sections, and later of the parts of the file whose tables
\* have been merged to one.
MapCounts(t, b) ==
    /\ thr[t].at = "map" => /\ thr[t].start = b[t] /\ thr[t].start + thr[t].length = b[t + 1]
                            /\ Counts(words[t], Between(b[t], Reached(thr[t])))
    /\ thr[t].at = "ended" => Counts(words[t], Between(b[t], b[t + 1]))
TwoCounts(t, b) == /\ Counts(words[2 * t], Between(b[2 * t], b[2 * t + 1]))
                   /\ Counts(words[2 * t + 1], Between(b[2 * t + 1], b[2 * t + 2]))
ThreadCounts(t, b) ==
    /\ thr[t].at = "merge" => MergeCounts(thr[t], Between(b[2 * t], b[2 * t + 1]),
                                                  Between(b[2 * t + 1], b[2 * t + 2]))
    /\ thr[t].at = "ended" => Counts(thr[t].out, Between(b[2 * t], b[2 * t + 2]))

Borders(b, n) == /\ b \in [0..n -> 0..flen] /\ b[0] = 0 /\ b[n] = fpos
                 /\ \A k \in 0..(n - 1) : b[k] <= b[k + 1]

\* Two sections that are to be merged, are being merged, or have been merged.
PairCounts(t, b) ==
    /\ pc = "create_merge" => IF t < i THEN ThreadCounts(t, b) ELSE TwoCounts(t, b)
    /\ pc = "join_merge" => IF t < i THEN Counts(words[t], Between(b[2 * t], b[2 * t + 2]))
                                     ELSE ThreadCounts(t, b)
RoundCounts(b) ==
    /\ Borders(b, 2 * num_threads + rem_num)
    /\ \A t \in 0..(num_threads - 1) : PairCounts(t, b)
    /\ rem_num = 1 => Counts(words[2 * num_threads], Between(b[2 * num_threads], fpos))
SplitCounts(b) == /\ Borders(b, i) /\ \A t \in 0..(i - 1) : MapCounts(t, b)
                  /\ \A t \in i..(num_procs - 1) : words[t] = <<>>
JoinCounts(b) == Borders(b, num_procs) /\ \A t \in 0..(num_procs - 1) : MapCounts(t, b)

CountInv ==
    /\ pc = "split" => \E b : SplitCounts(b)
    /\ pc = "join_map" => \E b : JoinCounts(b)
    /\ InMerge => \E b : RoundCounts(b)
    /\ ~InMap /\ ~InMerge => Counts(words[0], Between(0, fpos))

\* No section is shorter than its nominal length unless the file ends, and none ends
\* inside a word.
FposInv ==
    /\ pc = "split" => fpos = flen \/ fpos >= i * (flen \div num_procs)
    /\ pc # "split" => /\ fpos = flen \/ fpos >= num_procs * (flen \div num_procs)
                       /\ fpos = flen \/ ~InsideWord(Char(fpos))

ByCount(s) == \A k, l \in 1..Len(s) : k < l => s[k].count >= s[l].count
SortInv == /\ pc = "join_sort" /\ num_threads = 1 /\ thr[0].at = "ended" => ByCount(words[0])
           /\ InSort /\ num_threads = 1 /\ thr[0].at = "sort"
                 => thr[0].base = 0 /\ thr[0].num_elems = Len(words[0])
           /\ pc = "done" => ByCount(words[0])

-----------------------------------------------------------------------------
(* What the steps keep: no step changes the file, and the threads write a letter in   *)
(* upper case over itself or a 0 over a character that is in no word.                 *)

LEMMA FileKept ==
    ASSUME file' = file
    PROVE  /\ flen' = flen /\ FileInv' = FileInv /\ Entries' = Entries /\ WordStarts' = WordStarts
           /\ \A p : Char(p)' = Char(p) /\ InFileWord(p)' = InFileWord(p)
           /\ \A p : FileWord(p)' = FileWord(p) /\ Edge(p)' = Edge(p)
           /\ \A p, e : WordAt(p, e)' = WordAt(p, e)
           /\ \A e : Key(e)' = Key(e)
           /\ \A s : InOrder(s)' = InOrder(s) /\ Distinct(s)' = Distinct(s)
           /\ \A r, s : AllBefore(r, s)' = AllBefore(r, s)
<1>1. flen' = flen
  BY DEF flen
<1>2. FileInv' = FileInv /\ Entries' = Entries
  BY <1>1 DEF FileInv, Entries
<1>3. \A p : Char(p)' = Char(p)
  BY DEF Char
<1>4. \A p : InFileWord(p)' = InFileWord(p)
  BY <1>3 DEF InFileWord
<1>5. WordStarts' = WordStarts
  BY <1>1, <1>3, <1>4 DEF WordStarts
<1>6. \A p : FileWord(p)' = FileWord(p)
  BY <1>1, <1>3, <1>4 DEF FileWord
<1>7. \A p : Edge(p)' = Edge(p)
  BY <1>1, <1>3 DEF Edge
<1>8. \A p, e : WordAt(p, e)' = WordAt(p, e)
  BY <1>1, <1>3, <1>4 DEF WordAt
<1>9. \A e : Key(e)' = Key(e)
  BY <1>6 DEF Key
<1>10. \A s : InOrder(s)' = InOrder(s) /\ Distinct(s)' = Distinct(s)
  BY <1>9 DEF InOrder, Distinct
<1>11. \A r, s : AllBefore(r, s)' = AllBefore(r, s)
  BY <1>9 DEF AllBefore
<1> QED BY <1>1, <1>2, <1>3, <1>4, <1>5, <1>6, <1>7, <1>8, <1>9, <1>10, <1>11

\* What a thread may write at q.
Writes(q, c) == /\ q \in 0..flen /\ data' = [data EXCEPT ![q] = c]
                /\ \/ c = toupper(data[q]) /\ q < flen
                   \/ c = 0 /\ (q = flen \/ ~InsideWord(Char(q)))
Write == data' = data \/ \E q, c : Writes(q, c)

\* A character that is not overwritten is that of the file, in lower or upper case.
LEMMA CharOfData ==
    ASSUME DataInv, NEW q \in 0..(flen - 1), data[q] # 0
    PROVE  toupper(data[q]) = Char(q)
<1>1. data[q] \in {file[q + 1], Char(q)}
  BY DEF DataInv
<1> QED BY <1>1, CharType DEF DataInv

\* A write keeps what the mapping holds, the letters of words and the zeros.
LEMMA DataKept ==
    ASSUME DataInv, file' = file, Write
    PROVE  /\ DataInv'
           /\ \A r \in 0..(flen - 1) : data[r] = Char(r) /\ InsideWord(Char(r)) => data'[r] = Char(r)
           /\ \A q \in 0..flen : data[q] = 0 => data'[q] = 0
<1>1. flen \in Nat /\ data \in [0..flen -> 0..127] /\ data[flen] = 0
  BY FlenType DEF DataInv
<1>2. \A q \in 0..(flen - 1) : \/ data[q] \in {file[q + 1], Char(q)}
                               \/ data[q] = 0 /\ ~InsideWord(Char(q))
  BY DEF DataInv
<1>3. CASE data' = data
  BY <1>1, <1>3, FileKept DEF DataInv
<1>4. ASSUME NEW q, NEW c, Writes(q, c)
      PROVE  /\ DataInv'
             /\ \A r \in 0..(flen - 1) : data[r] = Char(r) /\ InsideWord(Char(r)) => data'[r] = Char(r)
             /\ \A r \in 0..flen : data[r] = 0 => data'[r] = 0
  <2>1. q \in 0..flen /\ data' = [data EXCEPT ![q] = c]
    BY <1>4 DEF Writes
  <2>2. \/ q < flen /\ c = Char(q) /\ data[q] # 0
        \/ c = 0 /\ data[q] = 0
        \/ c = 0 /\ (q = flen \/ ~InsideWord(Char(q)))
    <3>1. CASE c = toupper(data[q]) /\ q < flen /\ data[q] # 0
      BY <1>1, <2>1, <3>1, CharOfData
    <3>2. CASE c = toupper(data[q]) /\ q < flen /\ data[q] = 0
      BY <3>2 DEF toupper
    <3> QED BY <1>4, <3>1, <3>2 DEF Writes
  <2>3. c \in 0..127 /\ (q = flen => c = 0)
    <3>1. CASE q < flen /\ c = Char(q)
      BY <1>1, <2>1, <3>1, CharType DEF DataInv
    <3> QED BY <1>1, <2>2, <3>1
  <2>4. data' \in [0..flen -> 0..127] /\ data'[flen] = 0
    BY <1>1, <2>1, <2>3
  <2>5. ASSUME NEW r \in 0..(flen - 1)
        PROVE  \/ data'[r] \in {file[r + 1], Char(r)}
               \/ data'[r] = 0 /\ ~InsideWord(Char(r))
    <3>1. CASE r = q
      <4>1. data'[r] = c /\ q # flen
        BY <1>1, <2>1, <3>1
      <4> QED BY <1>1, <1>2, <2>2, <3>1, <4>1
    <3>2. CASE r # q
      <4>1. data'[r] = data[r]
        BY <1>1, <2>1, <3>2
      <4> QED BY <1>2, <4>1
    <3> QED BY <3>1, <3>2
  <2>6. DataInv'
    BY <2>4, <2>5, FileKept DEF DataInv
  <2>7. ASSUME NEW r \in 0..(flen - 1), data[r] = Char(r), InsideWord(Char(r))
        PROVE  data'[r] = Char(r)
    <3>1. Char(r) # 0
      <4>1. FileInv
        BY DEF DataInv
      <4>2. Char(r) \in 1..127
        BY <4>1, CharType
      <4> QED BY <4>2
    <3>2. r # flen
      BY <1>1
    <3> QED BY <1>1, <2>1, <2>2, <2>7, <3>1, <3>2
  <2>8. ASSUME NEW r \in 0..flen, data[r] = 0 PROVE data'[r] = 0
    BY <1>1, <2>1, <2>2, <2>8
  <2> QED BY <2>6, <2>7, <2>8
<1> QED BY <1>3, <1>4 DEF Write

\* So the words that tables and threads point to stay, and with them what the tables hold.
LEMMA TablesKept ==
    ASSUME DataInv, file' = file, Write
    PROVE  /\ \A p : Whole(p) => Whole(p)'
           /\ \A s : (Stored(s) => Stored(s)') /\ (Good(s) => Good(s)')
           /\ \A x : /\ Merging(x) => Merging(x)'
                     /\ Merged(x) => Merged(x)'
                     /\ Reading(x) => Reading(x)'
<1>1. flen \in Nat
  BY FlenType DEF DataInv
<1>2. ASSUME NEW p, NEW e, WordAt(p, e), Copied(p, e) PROVE Copied(p, e)'
  <2>1. \A r \in p..(e - 1) : r \in 0..(flen - 1) /\ data[r] = Char(r) /\ InsideWord(Char(r))
    <3>1. p \in 0..(flen - 1) /\ e \in (p + 1)..flen
      BY <1>2 DEF WordAt
    <3>2. \A r \in p..(e - 1) : r \in 0..(flen - 1)
      BY <1>1, <3>1
    <3> QED BY <1>2, <3>2 DEF Copied, WordAt
  <2>2. \A r \in p..(e - 1) : data'[r] = Char(r)
    BY <2>1, DataKept
  <2> QED BY <2>2, FileKept DEF Copied
<1>3. ASSUME NEW p, Whole(p) PROVE Whole(p)'
  <2>1. PICK e \in 0..flen : WordAt(p, e) /\ Copied(p, e) /\ data[e] = 0
    BY <1>3 DEF Whole
  <2>2. WordAt(p, e)' /\ Copied(p, e)' /\ data'[e] = 0 /\ e \in 0..flen'
    BY <1>2, <2>1, DataKept, FileKept
  <2> QED BY <2>2 DEF Whole
<1>4. \A s : Stored(s) => Stored(s)'
  BY <1>3, FileKept DEF Stored
<1>5. \A s : Good(s) => Good(s)'
  BY <1>4, FileKept DEF Good
<1>6. \A x : Merging(x) => Merging(x)'
  BY <1>5, FileKept DEF Merging, Mergers
<1>7. \A x : Merged(x) => Merged(x)'
  BY <1>5 DEF Merged
<1>8. ASSUME NEW x, Reading(x) PROVE Reading(x)'
  <2>1. x.in_word => \A r \in x.curr_start..(x.start + x.i - 1) : data'[r] = Char(r)
    <3> SUFFICES ASSUME x.in_word, NEW r \in x.curr_start..(x.start + x.i - 1)
                 PROVE  data'[r] = Char(r)
      OBVIOUS
    <3>1. /\ x.curr_start \in 0..flen /\ x.start \in 0..flen /\ x.length \in 0..flen
          /\ x.i \in 0..flen /\ x.start + x.length <= flen /\ x.i <= x.length
      BY <1>8 DEF Reading
    <3>2. r \in 0..(flen - 1)
      BY <1>1, <3>1
    <3>3. InsideWord(Char(r)) /\ data[r] = Char(r)
      BY <1>8 DEF Reading
    <3> QED BY <3>2, <3>3, DataKept
  <2> QED BY <1>8, <2>1, FileKept DEF Reading
<1> QED BY <1>3, <1>4, <1>5, <1>6, <1>7, <1>8

-----------------------------------------------------------------------------
(* The first invariant holds initially. *)

\* strcmp never calls a word smaller than itself: a table in order has no word twice.
LEMMA InOrderDistinct ==
    ASSUME NEW s, Len(s) \in Nat, InOrder(s), \A k \in 1..Len(s) : Key(s[k]) \in Texts
    PROVE  Distinct(s)
<1> SUFFICES ASSUME NEW k \in 1..Len(s), NEW l \in 1..Len(s), k # l, Key(s[k]) = Key(s[l])
             PROVE  FALSE
  BY DEF Distinct
<1>1. CASE k < l
  <2>1. Before(Key(s[k]), Key(s[l]))
    BY <1>1 DEF InOrder
  <2> QED BY <2>1, BeforeIrreflexive
<1>2. CASE l < k
  <2>1. Before(Key(s[l]), Key(s[k]))
    BY <1>2 DEF InOrder
  <2> QED BY <2>1, BeforeIrreflexive
<1> QED BY <1>1, <1>2

\* The words of a table are texts, which are in the mapping as well.
LEMMA StoredTexts ==
    ASSUME FileInv, NEW s, Stored(s)
    PROVE  /\ s \in Seq(Entries) /\ Len(s) \in Nat /\ DOMAIN s = 1..Len(s)
           /\ \A k \in 1..Len(s) :
                 /\ s[k] \in Entries /\ Whole(s[k].word) /\ s[k].word \in WordStarts
                 /\ Text(s[k].word) = Key(s[k]) /\ Key(s[k]) \in Texts
<1>1. s \in Seq(Entries) /\ \A k \in 1..Len(s) : Whole(s[k].word)
  BY DEF Stored
<1>2. Len(s) \in Nat /\ DOMAIN s = 1..Len(s)
  BY <1>1
<1>3. \A k \in 1..Len(s) : s[k] \in Entries
  BY <1>1, ElementOfSeq
<1>4. \A k \in 1..Len(s) : /\ Text(s[k].word) = Key(s[k]) /\ Key(s[k]) \in Texts
                           /\ s[k].word \in WordStarts
  BY <1>1, TextOfWhole DEF Key
<1> QED BY <1>1, <1>2, <1>3, <1>4

\* The empty table is in order.
LEMMA EmptyTable == Good(<<>>) /\ Distinct(<<>>)
<1>1. <<>> \in Seq(Entries) /\ Len(<<>>) = 0
  OBVIOUS
<1> QED BY <1>1 DEF Good, Stored, InOrder, Distinct

\* The invariant holds at first.
LEMMA InitInv == Init => IInv
<1> SUFFICES ASSUME Init PROVE IInv
  OBVIOUS
<1>1. PICK job \in Jobs : file = job.file /\ num_procs = job.num_procs
  BY DEF Init
<1>2. FileInv /\ num_procs \in 1..MaxProcs /\ flen \in Nat /\ MaxProcs \in Nat
  BY <1>1, JobsAssumption, SizesAssumption, FlenType DEF FileInv
<1>3. Procs = 0..(num_procs - 1) /\ 0 \in Procs /\ num_procs \in Nat
  BY <1>2 DEF Procs
<1>4. DataInv
  <2>1. data = [p \in 0..flen |-> IF p = flen THEN 0 ELSE file[p + 1]]
    BY DEF Init
  <2>2. \A q \in 0..(flen - 1) : file[q + 1] \in 1..127
    BY <1>2, CharType
  <2>3. data \in [0..flen -> 0..127]
    <3>1. \A q \in 0..flen : q # flen => q \in 0..(flen - 1)
      BY <1>2
    <3>2. \A c \in 1..127 : c \in 0..127
      OBVIOUS
    <3>3. \A q \in 0..flen : (IF q = flen THEN 0 ELSE file[q + 1]) \in 0..127
      BY <2>2, <3>1, <3>2
    <3> QED BY <2>1, <3>3
  <2>4. data[flen] = 0 /\ \A q \in 0..(flen - 1) : data[q] = file[q + 1]
    BY <1>2, <2>1
  <2> QED BY <1>2, <2>3, <2>4 DEF DataInv
<1>5. ControlInv
  BY <1>2, <1>3 DEF Init, ControlInv, InMerge, InSort
<1>6. ThreadsInv
  BY DEF Init, ThreadsInv, ThreadInv
<1>7. TablesInv
  <2>1. words = [t \in Procs |-> <<>>] /\ length = [t \in Procs |-> START_ARRAY_SIZE]
    BY DEF Init
  <2>2. \A t \in Procs : words[t] = <<>> /\ length[t] = START_ARRAY_SIZE
    BY <2>1
  <2>3. length \in [Procs -> Nat \ {0}] /\ DOMAIN words = Procs
    BY <2>1, SizesAssumption
  <2>4. \A t \in Procs : Good(words[t]) /\ Distinct(words[t]) /\ Len(words[t]) < length[t]
    BY <2>2, EmptyTable, SizesAssumption
  <2> QED BY <1>3, <2>3, <2>4 DEF TablesInv, Good
<1> QED BY <1>4, <1>5, <1>6, <1>7 DEF IInv

-----------------------------------------------------------------------------
(* The sections. *)

LEMMA QuotientType == ASSUME NEW a \in Nat, NEW b \in Nat \ {0} PROVE a \div b \in Nat
OBVIOUS

\* A section ends at a blank or where the file ends, and not before its nominal length.
LEMMA SectionEnds ==
    ASSUME DataInv, fpos \in 0..flen, num_procs \in Nat \ {0}
    PROVE  /\ SectionEnd(fpos + SectionLength) \in fpos..flen
           /\ \/ SectionEnd(fpos + SectionLength) = flen
              \/ ~InsideWord(Char(SectionEnd(fpos + SectionLength)))
           /\ \/ SectionEnd(fpos + SectionLength) = flen
              \/ SectionEnd(fpos + SectionLength) >= fpos + flen \div num_procs
<1> DEFINE n == flen \div num_procs
           L == SectionLength
           e == SectionEnd(fpos + L)
           T == {q \in (fpos + L)..flen : q = flen \/ Blank(data[q])}
<1>1. flen \in Nat /\ FileInv
  BY FlenType DEF DataInv
<1>2. n \in Nat
  BY <1>1, QuotientType
<1>3. L \in {n, flen - fpos} /\ L <= n /\ L <= flen - fpos
  <2>1. {n, flen - fpos} \subseteq Nat /\ {n, flen - fpos} # {}
    BY <1>1, <1>2
  <2>2. L = Min({n, flen - fpos})
    BY DEF SectionLength
  <2> HIDE DEF n, L
  <2> QED BY <2>1, <2>2, Least
<1> HIDE DEF n, L
<1>4. L \in Nat /\ fpos + L \in 0..flen
  BY <1>1, <1>2, <1>3
<1>5. e \in T
  <2>1. flen \in T /\ T \subseteq Nat
    BY <1>1, <1>4
  <2>2. e = Min(T)
    BY DEF SectionEnd
  <2> HIDE DEF T, e
  <2> QED BY <2>1, <2>2, Least
<1>6. e \in (fpos + L)..flen /\ (e = flen \/ Blank(data[e]))
  BY <1>5
<1> HIDE DEF e, T
<1>7. e \in fpos..flen
  BY <1>1, <1>4, <1>6
<1>8. e = flen \/ ~InsideWord(Char(e))
  <2> SUFFICES ASSUME e # flen PROVE ~InsideWord(Char(e))
    OBVIOUS
  <2>1. e \in 0..(flen - 1) /\ Blank(data[e])
    BY <1>1, <1>6, <1>7
  <2>2. toupper(data[e]) = data[e] /\ data[e] # 0
    BY <2>1 DEF Blank, toupper
  <2>3. Char(e) = data[e]
    BY <2>1, <2>2, CharOfData
  <2> QED BY <2>1, <2>3 DEF Blank, InsideWord, Letter
<1>9. e = flen \/ e >= fpos + n
  <2>1. CASE L = n
    BY <1>1, <1>2, <1>6, <2>1
  <2>2. CASE L = flen - fpos
    BY <1>1, <1>6, <2>2
  <2> QED BY <1>3, <2>1, <2>2
<1> QED BY <1>7, <1>8, <1>9 DEF e, L, n

\* The numbers of the control state.
LEMMA ControlTypes ==
    ASSUME IInv
    PROVE  /\ FileInv /\ flen \in Nat /\ MaxProcs \in Nat /\ num_procs \in 1..MaxProcs
           /\ num_procs \in Nat \ {0} /\ Procs = 0..(num_procs - 1)
           /\ fpos \in 0..flen /\ i \in 0..(num_procs - 1) /\ num_threads \in 0..num_procs
           /\ rem_num \in {0, 1} /\ DOMAIN thr = Procs /\ DOMAIN words = Procs
<1>1. DataInv /\ ControlInv /\ ThreadsInv /\ TablesInv
  BY DEF IInv
<1>2. FileInv /\ flen \in Nat /\ MaxProcs \in Nat /\ num_procs \in 1..MaxProcs
  BY <1>1, FlenType, SizesAssumption DEF DataInv, ControlInv
<1>3. num_procs \in Nat \ {0} /\ Procs = 0..(num_procs - 1)
  BY <1>2 DEF Procs
<1>4. fpos \in 0..flen /\ i \in Procs /\ num_threads \in 0..num_procs /\ rem_num \in {0, 1}
  BY <1>1 DEF ControlInv
<1>5. DOMAIN thr = Procs /\ DOMAIN words = Procs
  BY <1>1 DEF ThreadsInv, TablesInv
<1> QED BY <1>2, <1>3, <1>4, <1>5

\* A step that leaves the tables alone keeps what they hold.
LEMMA TablesStay ==
    ASSUME IInv, file' = file, num_procs' = num_procs, words' = words, length' = length,
           data' = data, InMap' => InMap, InMerge' => InMap \/ InMerge
    PROVE  DataInv' /\ TablesInv'
<1>1. DataInv /\ TablesInv /\ Write
  BY DEF IInv, Write
<1>2. DataInv' /\ \A s : (Stored(s) => Stored(s)')
  BY <1>1, DataKept, TablesKept
<1>3. Procs' = Procs /\ 0 \in Procs
  BY ControlTypes DEF Procs
<1>4. \A t \in Procs : Stored(words[t])'
  BY <1>1, <1>2 DEF TablesInv
<1>5. Distinct(words[0])' /\ \A s : InOrder(s)' = InOrder(s)
  BY <1>1, FileKept DEF TablesInv
<1>6. InMap' => \A t \in Procs : Len(words[t]) < length[t]
  BY <1>1 DEF TablesInv
<1>7. InMap' \/ InMerge' => \A t \in Procs : InOrder(words[t])'
  BY <1>1, <1>5 DEF TablesInv
<1>8. DOMAIN words = Procs /\ length \in [Procs -> Nat \ {0}]
  BY <1>1 DEF TablesInv
<1>9. TablesInv'
  BY <1>3, <1>4, <1>5, <1>6, <1>7, <1>8 DEF TablesInv
<1> QED BY <1>2, <1>9

\* A new section keeps the invariant: its thread has read nothing.
LEMMA SplitInv == IInv /\ Split => IInv'
<1> SUFFICES ASSUME IInv, Split PROVE IInv'
  OBVIOUS
<1> DEFINE e == SectionEnd(fpos + SectionLength)
<1>0. PICK x : x = [at |-> "map", start |-> fpos, length |-> e - fpos,
                    i |-> 0, curr_start |-> fpos, in_word |-> FALSE]
  OBVIOUS
<1>1. /\ pc = "split" /\ thr' = [thr EXCEPT ![i] = x] /\ fpos' = e
      /\ IF i + 1 < num_procs THEN pc' = pc /\ i' = i + 1 ELSE pc' = "join_map" /\ i' = 0
      /\ UNCHANGED <<file, num_procs, data, words, length, num_threads, rem_num>>
  BY <1>0 DEF Split, rounds
<1>2. DataInv /\ ControlInv /\ ThreadsInv /\ TablesInv
  BY DEF IInv
<1>3. /\ e \in fpos..flen /\ (e = flen \/ ~InsideWord(Char(e)))
  BY <1>2, ControlTypes, SectionEnds
<1> HIDE DEF e
<1>4. /\ flen \in Nat /\ num_procs \in Nat \ {0} /\ Procs = 0..(num_procs - 1)
      /\ fpos \in 0..flen /\ i \in 0..(num_procs - 1) /\ DOMAIN thr = Procs
  BY ControlTypes
<1>5. DataInv' /\ TablesInv'
  <2>1. InMap /\ ~InMerge'
    BY <1>1 DEF InMap, InMerge
  <2> QED BY <1>1, <2>1, TablesStay
<1>6. Procs' = Procs /\ flen' = flen /\ fpos' \in 0..flen
  BY <1>1, <1>3, <1>4, FileKept DEF Procs
<1>7. i' \in Procs /\ (pc' = "split" => i' = i + 1) /\ (pc' = "join_map" => i' = 0)
      /\ pc' \in {"split", "join_map"}
  BY <1>1, <1>4
<1>8. ControlInv'
  <2>1. fpos' = 0 \/ fpos' = flen \/ ~InsideWord(Char(fpos))'
    BY <1>1, <1>3, FileKept
  <2>2. num_procs' \in 1..MaxProcs /\ rem_num' \in {0, 1} /\ num_threads' = 0
        /\ num_threads' \in 0..num_procs'
    BY <1>1, <1>2 DEF ControlInv, InMerge, InSort
  <2>3. ~InMerge' /\ ~InSort'
    BY <1>7 DEF InMerge, InSort
  <2> QED BY <1>6, <1>7, <2>1, <2>2, <2>3 DEF ControlInv, InMerge
<1>9. Reading(x)'
  <2>1. x \in [at : {"map"}, start : 0..flen, length : 0..flen, i : 0..flen,
               curr_start : 0..flen, in_word : BOOLEAN]
    BY <1>0, <1>3, <1>4
  <2>2. x.start = fpos /\ x.length = e - fpos /\ x.i = 0 /\ ~x.in_word
    BY <1>0
  <2>3. x.start + x.length = e /\ x.i <= x.length
    BY <1>3, <1>4, <2>2
  <2>4. Edge(fpos)
    BY <1>2 DEF ControlInv, Edge
  <2>5. Reading(x)
    <3>1. x.start + x.length <= flen
      BY <1>3, <1>4, <2>3
    <3>2. x.start + x.length = flen \/ ~InsideWord(Char(x.start + x.length))
      BY <1>3, <2>3
    <3>3. ~(x.i > 0)
      BY <2>2
    <3>4. Edge(x.start) /\ x.i <= x.length
      BY <2>2, <2>3, <2>4
    <3> QED BY <2>1, <2>2, <3>1, <3>2, <3>3, <3>4, Zenon DEF Reading
  <2> QED BY <1>1, <1>2, <2>5, TablesKept DEF Write
<1>10. ThreadsInv'
  <2>1. DOMAIN thr' = Procs'
    BY <1>1, <1>4, <1>6
  <2>2. ASSUME NEW t \in Procs PROVE ThreadInv(t)'
    <3>1. CASE t = i
      <4>1. thr'[t] = x
        BY <1>1, <1>4, <3>1
      <4>2. Reading(thr[t])'
        BY <1>9, <4>1
      <4>3. (pc' = "split" => ~(t >= i')) /\ (pc' = "join_map" => ~(t < i'))
        BY <1>4, <1>7, <3>1
      <4> QED BY <1>7, <4>2, <4>3 DEF ThreadInv
    <3>2. CASE t # i
      <4>1. thr'[t] = thr[t]
        BY <1>1, <1>4, <3>2
      <4>2. thr[t].at = "ended" \/ Reading(thr[t])
        BY <1>1, <1>2 DEF ThreadsInv, ThreadInv, InMap
      <4>3. thr'[t].at = "ended" \/ Reading(thr[t])'
        BY <1>1, <1>2, <4>1, <4>2, TablesKept DEF Write
      <4>4. (pc' = "split" /\ t >= i' => t >= i) /\ (pc' = "join_map" => ~(t < i'))
        BY <1>4, <1>7
      <4>5. t >= i => thr[t].at = "ended"
        BY <1>1, <1>2 DEF ThreadsInv, ThreadInv
      <4> QED BY <1>7, <4>1, <4>3, <4>4, <4>5 DEF ThreadInv
    <3> QED BY <3>1, <3>2
  <2> QED BY <1>6, <2>1, <2>2 DEF ThreadsInv
<1> QED BY <1>5, <1>8, <1>10 DEF IInv

-----------------------------------------------------------------------------
(* The steps of wordcount_map. *)

\* Threads read their sections only while the main thread creates and joins them.
LEMMA Mapping ==
    ASSUME IInv, NEW t \in Procs, thr[t].at = "map"
    PROVE  InMap /\ Reading(thr[t])
<1>1. ThreadInv(t) /\ ControlInv
  BY DEF IInv, ThreadsInv
<1>2. pc # "create_merge" /\ pc # "join_merge"
  BY <1>1 DEF ThreadInv, Merging, Merged, Mergers
<1>3. pc \notin {"sort", "create_sort", "join_sort", "done"}
  BY <1>1 DEF ThreadInv, Sorting
<1>4. InMap
  BY <1>1, <1>2, <1>3 DEF ControlInv, InMap
<1> QED BY <1>1, <1>4 DEF ThreadInv

\* A step of a thread of the map phase that keeps what its place and its table must be.
LEMMA MapStepInv ==
    ASSUME IInv, NEW t \in Procs, thr[t].at = "map", Write, DataInv',
           UNCHANGED <<file, num_procs, fpos, pc, i, rounds>>,
           NEW x, thr' = [thr EXCEPT ![t] = x], x.at = "ended" \/ Reading(x)',
           DOMAIN words' = Procs, length' \in [Procs -> Nat \ {0}],
           \A u \in Procs : u # t => words'[u] = words[u] /\ length'[u] = length[u],
           Good(words[t])', Distinct(words[t])', Len(words'[t]) < length'[t]
    PROVE  IInv'
<1>1. DataInv /\ ControlInv /\ ThreadsInv /\ TablesInv /\ InMap /\ file' = file
  BY Mapping DEF IInv
<1>2. Procs' = Procs /\ DOMAIN thr = Procs /\ num_threads' = num_threads /\ rem_num' = rem_num
      /\ num_procs \in Nat \ {0}
  BY ControlTypes DEF Procs, rounds
<1>3. ControlInv'
  BY <1>1, <1>2, FileKept DEF ControlInv, InMap, InMerge, InSort
<1>4. ThreadsInv'
  <2>1. DOMAIN thr' = Procs'
    BY <1>2
  <2>2. ASSUME NEW u \in Procs PROVE ThreadInv(u)'
    <3>1. thr[t].at # "ended"
      OBVIOUS
    <3>2. CASE u = t
      <4>1. thr'[u] = x
        BY <1>2, <3>2
      <4>2. thr'[u].at = "ended" \/ Reading(thr[u])'
        BY <4>1
      <4>3. ~(pc' = "split" /\ u >= i') /\ ~(pc' = "join_map" /\ u < i')
        BY <1>1, <3>1, <3>2 DEF ThreadsInv, ThreadInv
      <4> QED BY <1>1, <4>2, <4>3 DEF ThreadInv, InMap
    <3>3. CASE u # t
      <4>1. thr'[u] = thr[u]
        BY <1>2, <3>3
      <4>2. thr[u].at = "ended" \/ Reading(thr[u])
        BY <1>1 DEF ThreadsInv, ThreadInv
      <4>3. thr'[u].at = "ended" \/ Reading(thr[u])'
        BY <1>1, <4>1, <4>2, TablesKept
      <4>4. /\ pc' = "split" /\ u >= i' => thr'[u].at = "ended"
            /\ pc' = "join_map" /\ u < i' => thr'[u].at = "ended"
        BY <1>1, <4>1 DEF ThreadsInv, ThreadInv
      <4> QED BY <1>1, <4>3, <4>4 DEF ThreadInv, InMap
    <3> QED BY <3>2, <3>3
  <2> QED BY <1>2, <2>1, <2>2 DEF ThreadsInv
<1>5. TablesInv'
  <2>1. \A u \in Procs : Good(words[u])' /\ Len(words'[u]) < length'[u]
    <3> SUFFICES ASSUME NEW u \in Procs PROVE Good(words[u])' /\ Len(words'[u]) < length'[u]
      OBVIOUS
    <3>1. CASE u # t
      <4>1. Good(words[u]) /\ Len(words[u]) < length[u]
        BY <1>1 DEF TablesInv, Good
      <4>2. words'[u] = words[u] /\ length'[u] = length[u]
        BY <3>1
      <4>3. Good(words[u])'
        BY <1>1, <4>1, <4>2, TablesKept
      <4> QED BY <4>1, <4>2, <4>3
    <3> QED BY <3>1
  <2>2. 0 \in Procs
    BY <1>2, ControlTypes
  <2>3. Distinct(words[0])'
    <3>1. CASE t # 0
      <4>1. words'[0] = words[0] /\ Distinct(words[0])
        BY <1>1, <2>2, <3>1 DEF TablesInv
      <4> QED BY <1>1, <4>1, FileKept
    <3> QED BY <3>1
  <2> QED BY <1>2, <2>1, <2>3 DEF TablesInv, Good
<1> QED BY <1>3, <1>4, <1>5 DEF IInv

\* The character a thread reads, which another thread may have replaced by a 0.
LEMMA ReadChar ==
    ASSUME DataInv, NEW q \in 0..(flen - 1)
    PROVE  /\ InsideWord(toupper(data[q])) => toupper(data[q]) = Char(q)
           /\ ~InsideWord(toupper(data[q])) => ~InsideWord(Char(q))
<1>1. CASE data[q] # 0
  BY <1>1, CharOfData
<1>2. CASE data[q] = 0
  <2>1. Char(q) # 0 /\ file[q + 1] # 0
    <3>1. Char(q) \in 1..127 /\ file[q + 1] \in 1..127
      BY CharType DEF DataInv
    <3> QED BY <3>1
  <2>2. ~InsideWord(Char(q))
    BY <1>2, <2>1 DEF DataInv
  <2>3. ~InsideWord(toupper(data[q]))
    BY <1>2 DEF toupper, InsideWord, Letter
  <2> QED BY <2>2, <2>3
<1> QED BY <1>1, <1>2

\* Where a thread reads, in the section and in the file.
LEMMA Place ==
    ASSUME IInv, NEW t \in Procs, Turn(t)
    PROVE  /\ Reading(thr[t]) /\ At(t) = thr[t].start + thr[t].i /\ At(t) \in 0..(flen - 1)
           /\ thr[t].start \in 0..flen /\ thr[t].i \in 0..flen /\ thr[t].length \in 0..flen
           /\ thr[t].i < thr[t].length /\ thr[t].start + thr[t].length <= flen
           /\ flen \in Nat /\ thr[t].at = "map"
<1>1. Reading(thr[t]) /\ thr[t].i < thr[t].length /\ flen \in Nat /\ thr[t].at = "map"
  BY Mapping, ControlTypes DEF Turn
<1>2. /\ thr[t].start \in 0..flen /\ thr[t].i \in 0..flen /\ thr[t].length \in 0..flen
      /\ thr[t].start + thr[t].length <= flen
  BY <1>1 DEF Reading
<1>3. At(t) = thr[t].start + thr[t].i
  BY DEF At
<1>4. At(t) \in 0..(flen - 1)
  BY <1>1, <1>2, <1>3
<1> QED BY <1>1, <1>2, <1>3, <1>4

\* Outside a word a thread is outside a word of the file as well.
LEMMA OutsideWord ==
    ASSUME IInv, NEW t \in Procs, Turn(t), ~thr[t].in_word, InsideWord(Char(At(t)))
    PROVE  ~(At(t) > 0 /\ InFileWord(At(t) - 1))
<1> DEFINE q == At(t)
           x == thr[t]
<1>1. /\ Reading(x) /\ q = x.start + x.i /\ q \in 0..(flen - 1) /\ x.start \in 0..flen
      /\ x.i \in 0..flen /\ flen \in Nat
  BY Place
<1>2. CASE x.i > 0
  <2>1. ~InFileWord(x.start + x.i - 1)
    BY <1>1, <1>2 DEF Reading
  <2> QED BY <1>1, <2>1
<1>3. CASE x.i = 0
  <2>1. q = x.start
    BY <1>1, <1>3
  <2>2. Edge(x.start)
    BY <1>1 DEF Reading
  <2>3. q # flen
    BY <1>1
  <2>4. q = 0
    BY <2>1, <2>2, <2>3 DEF Edge
  <2> QED BY <2>4
<1> QED BY <1>1, <1>2, <1>3

\* A step of a thread that reads leaves the tables alone.
LEMMA ReadStepInv ==
    ASSUME IInv, NEW t \in Procs, thr[t].at = "map", Write, DataInv',
           UNCHANGED <<file, num_procs, fpos, pc, i, rounds>>,
           NEW x, thr' = [thr EXCEPT ![t] = x], x.at = "ended" \/ Reading(x)',
           words' = words, length' = length
    PROVE  IInv'
<1>1. DataInv /\ TablesInv /\ InMap /\ file' = file
  BY Mapping DEF IInv
<1>2. \A s : Good(s) => Good(s)'
  BY <1>1, TablesKept
<1>3. /\ Good(words[t]) /\ Distinct(words[t]) /\ Len(words'[t]) < length'[t]
      /\ DOMAIN words' = Procs /\ length' \in [Procs -> Nat \ {0}]
  <2>1. Stored(words[t]) /\ InOrder(words[t]) /\ Len(words[t]) < length[t]
    BY <1>1 DEF TablesInv
  <2>2. Distinct(words[t])
    BY <1>1, <2>1, StoredTexts, InOrderDistinct DEF DataInv
  <2> QED BY <1>1, <2>1, <2>2 DEF TablesInv, Good
<1>4. Good(words[t])' /\ Distinct(words[t])'
  BY <1>1, <1>2, <1>3, FileKept
<1> QED BY <1>3, <1>4, MapStepInv

\* A letter outside a word starts one, and becomes upper case.
LEMMA StartWordInv ==
    ASSUME IInv, NEW t \in Procs, StartWord(t), UNCHANGED <<file, num_procs, fpos, pc, i, rounds>>
    PROVE  IInv'
<1> DEFINE q == At(t)
           y == thr[t]
<1>1. PICK x : x = [y EXCEPT !.curr_start = q, !.in_word = TRUE, !.i = y.i + 1]
  OBVIOUS
<1>2. /\ Turn(t) /\ ~y.in_word /\ Letter(toupper(data[q]))
      /\ data' = [data EXCEPT ![q] = toupper(data[q])] /\ thr' = [thr EXCEPT ![t] = x]
      /\ words' = words /\ length' = length
  BY <1>1 DEF StartWord
<1>3. /\ Reading(y) /\ q = y.start + y.i /\ q \in 0..(flen - 1)
      /\ y.start \in 0..flen /\ y.i \in 0..flen /\ y.length \in 0..flen
      /\ y.i < y.length /\ y.start + y.length <= flen /\ flen \in Nat /\ y.at = "map"
  BY <1>2, Place
<1>4. DataInv /\ TablesInv /\ InMap /\ file' = file /\ DataInv'
  <2>1. DataInv /\ TablesInv /\ InMap
    BY <1>3, Mapping DEF IInv
  <2>2. Write
    <3>1. Writes(q, toupper(data[q]))
      BY <1>2, <1>3 DEF Writes
    <3> QED BY <3>1 DEF Write
  <2> QED BY <2>1, <2>2, DataKept
<1>5. Write
  <2>1. Writes(q, toupper(data[q]))
    BY <1>2, <1>3 DEF Writes
  <2> QED BY <2>1 DEF Write
<1>6. toupper(data[q]) = Char(q) /\ Letter(Char(q)) /\ InsideWord(Char(q))
  BY <1>2, <1>3, <1>4, ReadChar DEF InsideWord
<1>7. ~(q > 0 /\ InFileWord(q - 1))
  BY <1>2, <1>6, OutsideWord
<1>8. data'[q] = Char(q)
  BY <1>2, <1>3, <1>4, <1>6 DEF DataInv
<1>9. /\ x \in [at : {"map"}, start : 0..flen, length : 0..flen, i : 0..flen,
                curr_start : 0..flen, in_word : BOOLEAN]
      /\ x.start = y.start /\ x.length = y.length /\ x.i = y.i + 1 /\ x.curr_start = q
      /\ x.in_word
  <2>1. y \in [at : {"map"}, start : 0..flen, length : 0..flen, i : 0..flen,
               curr_start : 0..flen, in_word : BOOLEAN]
    BY <1>3 DEF Reading
  <2>2. y.i + 1 \in 0..flen /\ q \in 0..flen
    BY <1>3
  <2> HIDE DEF y, q
  <2> QED BY <1>1, <2>1, <2>2
<1>10. Reading(x)'
  <2>1. x.start + x.i - 1 = q /\ x.curr_start \in x.start..(x.start + x.i - 1)
    BY <1>3, <1>9
  <2>2. \A r \in x.curr_start..(x.start + x.i - 1) : r = q
    BY <1>3, <1>9, <2>1
  <2>3. /\ Edge(x.start)
        /\ x.start + x.length = flen \/ ~InsideWord(Char(x.start + x.length))
        /\ x.start + x.length <= flen /\ x.i <= x.length
    BY <1>3, <1>9 DEF Reading
  <2>4. \A r \in x.curr_start..(x.start + x.i - 1) : InsideWord(Char(r)) /\ data'[r] = Char(r)
    BY <1>6, <1>8, <2>2
  <2>5. Letter(Char(x.curr_start)) /\ ~(x.curr_start > 0 /\ InFileWord(x.curr_start - 1))
    BY <1>6, <1>7, <1>9
  <2> HIDE DEF q, y
  <2> QED BY <1>4, <1>9, <2>1, <2>3, <2>4, <2>5, FileKept DEF Reading
<1> QED BY <1>2, <1>3, <1>4, <1>5, <1>10, ReadStepInv

\* A character that starts no word is skipped.
LEMMA SkipInv ==
    ASSUME IInv, NEW t \in Procs, Skip(t), UNCHANGED <<file, num_procs, fpos, pc, i, rounds>>
    PROVE  IInv'
<1> DEFINE q == At(t)
           y == thr[t]
<1>1. PICK x : x = [y EXCEPT !.i = y.i + 1]
  OBVIOUS
<1>2. /\ Turn(t) /\ ~y.in_word /\ ~Letter(toupper(data[q]))
      /\ data' = data /\ thr' = [thr EXCEPT ![t] = x]
      /\ words' = words /\ length' = length
  BY <1>1 DEF Skip
<1>3. /\ Reading(y) /\ q = y.start + y.i /\ q \in 0..(flen - 1)
      /\ y.start \in 0..flen /\ y.i \in 0..flen /\ y.length \in 0..flen
      /\ y.i < y.length /\ y.start + y.length <= flen /\ flen \in Nat /\ y.at = "map"
  BY <1>2, Place
<1>4. DataInv /\ file' = file /\ Write /\ DataInv'
  <2>1. DataInv /\ Write
    BY <1>2 DEF IInv, Write
  <2> QED BY <2>1, DataKept
<1>5. ~Letter(Char(q))
  <2>1. CASE InsideWord(toupper(data[q]))
    BY <1>2, <1>3, <1>4, <2>1, ReadChar
  <2>2. CASE ~InsideWord(toupper(data[q]))
    BY <1>3, <1>4, <2>2, ReadChar DEF InsideWord
  <2> QED BY <2>1, <2>2
<1>6. ~InFileWord(q)
  <2>1. ~(q > 0 /\ InFileWord(q - 1) /\ InsideWord(Char(q)))
    BY <1>2, OutsideWord
  <2>2. q \in Nat
    BY <1>3
  <2> HIDE DEF q
  <2> QED BY <1>5, <2>1, <2>2, InWordStep
<1>7. /\ x \in [at : {"map"}, start : 0..flen, length : 0..flen, i : 0..flen,
                curr_start : 0..flen, in_word : BOOLEAN]
      /\ x.start = y.start /\ x.length = y.length /\ x.i = y.i + 1 /\ ~x.in_word
  <2>1. y \in [at : {"map"}, start : 0..flen, length : 0..flen, i : 0..flen,
               curr_start : 0..flen, in_word : BOOLEAN]
    BY <1>3 DEF Reading
  <2>2. y.i + 1 \in 0..flen /\ ~y.in_word
    BY <1>2, <1>3
  <2> HIDE DEF y, q
  <2> QED BY <1>1, <2>1, <2>2
<1>8. Reading(x)'
  <2>1. x.start + x.i - 1 = q
    BY <1>3, <1>7
  <2>2. /\ Edge(x.start)
        /\ x.start + x.length = flen \/ ~InsideWord(Char(x.start + x.length))
        /\ x.start + x.length <= flen /\ x.i <= x.length
    BY <1>3, <1>7 DEF Reading
  <2> HIDE DEF q, y
  <2> QED BY <1>4, <1>6, <1>7, <2>1, <2>2, FileKept DEF Reading
<1> QED BY <1>2, <1>3, <1>4, <1>8, ReadStepInv

\* A character of a word becomes upper case.
LEMMA ExtendWordInv ==
    ASSUME IInv, NEW t \in Procs, ExtendWord(t),
           UNCHANGED <<file, num_procs, fpos, pc, i, rounds>>
    PROVE  IInv'
<1> DEFINE q == At(t)
           y == thr[t]
<1>1. PICK x : x = [y EXCEPT !.i = y.i + 1]
  OBVIOUS
<1>2. /\ Turn(t) /\ y.in_word /\ InsideWord(toupper(data[q]))
      /\ data' = [data EXCEPT ![q] = toupper(data[q])] /\ thr' = [thr EXCEPT ![t] = x]
      /\ words' = words /\ length' = length
  BY <1>1 DEF ExtendWord
<1>3. /\ Reading(y) /\ q = y.start + y.i /\ q \in 0..(flen - 1)
      /\ y.start \in 0..flen /\ y.i \in 0..flen /\ y.length \in 0..flen
      /\ y.i < y.length /\ y.start + y.length <= flen /\ flen \in Nat /\ y.at = "map"
  BY <1>2, Place
<1>4. Write
  <2>1. Writes(q, toupper(data[q]))
    BY <1>2, <1>3 DEF Writes
  <2> QED BY <2>1 DEF Write
<1>5. /\ DataInv /\ file' = file /\ DataInv'
      /\ \A r \in 0..(flen - 1) : data[r] = Char(r) /\ InsideWord(Char(r)) => data'[r] = Char(r)
  <2>1. DataInv
    BY DEF IInv
  <2> QED BY <1>4, <2>1, DataKept
<1>6. InsideWord(Char(q)) /\ data'[q] = Char(q)
  <2>1. toupper(data[q]) = Char(q)
    BY <1>2, <1>3, <1>5, ReadChar
  <2>2. q \in DOMAIN data
    BY <1>3, <1>5 DEF DataInv
  <2> QED BY <1>2, <2>1, <2>2
<1>7. /\ x \in [at : {"map"}, start : 0..flen, length : 0..flen, i : 0..flen,
                curr_start : 0..flen, in_word : BOOLEAN]
      /\ x.start = y.start /\ x.length = y.length /\ x.i = y.i + 1 /\ x.in_word
      /\ x.curr_start = y.curr_start /\ y.curr_start \in 0..flen
  <2>1. y \in [at : {"map"}, start : 0..flen, length : 0..flen, i : 0..flen,
               curr_start : 0..flen, in_word : BOOLEAN]
    BY <1>3 DEF Reading
  <2>2. y.i + 1 \in 0..flen /\ y.in_word
    BY <1>2, <1>3
  <2> HIDE DEF y, q
  <2> QED BY <1>1, <2>1, <2>2
<1>8. Reading(x)'
  <2>1. x.start + x.i - 1 = q
    BY <1>3, <1>7
  <2>2. /\ Edge(x.start)
        /\ x.start + x.length = flen \/ ~InsideWord(Char(x.start + x.length))
        /\ x.start + x.length <= flen /\ x.i <= x.length
    BY <1>3, <1>7 DEF Reading
  <2>3. /\ y.curr_start \in y.start..(q - 1) /\ Letter(Char(y.curr_start))
        /\ ~(y.curr_start > 0 /\ InFileWord(y.curr_start - 1))
        /\ \A r \in y.curr_start..(q - 1) : InsideWord(Char(r)) /\ data[r] = Char(r)
    BY <1>2, <1>3 DEF Reading
  <2>4. x.curr_start \in x.start..(x.start + x.i - 1)
    BY <1>3, <1>7, <2>1, <2>3
  <2>5. \A r \in x.curr_start..(x.start + x.i - 1) : InsideWord(Char(r)) /\ data'[r] = Char(r)
    <3> SUFFICES ASSUME NEW r \in y.curr_start..q PROVE InsideWord(Char(r)) /\ data'[r] = Char(r)
      BY <1>7, <2>1
    <3>1. CASE r = q
      BY <1>6, <3>1
    <3>2. CASE r # q
      <4>1. r \in y.curr_start..(q - 1) /\ r \in 0..(flen - 1)
        BY <1>3, <1>7, <3>2
      <4> QED BY <1>5, <2>3, <4>1
    <3> QED BY <3>1, <3>2
  <2>6. Letter(Char(x.curr_start)) /\ ~(x.curr_start > 0 /\ InFileWord(x.curr_start - 1))
    BY <1>7, <2>3
  <2> HIDE DEF q, y
  <2> QED BY <1>5, <1>7, <2>2, <2>4, <2>5, <2>6, FileKept DEF Reading
<1> QED BY <1>2, <1>3, <1>4, <1>5, <1>8, ReadStepInv

\* What wordcount_reduce makes of a table: a word is counted, or is put in its place.
Counted(new, s, p) == \/ \E j \in 1..Len(s) : Key(s[j]) = FileWord(p) /\ CountedUp(new, s, j, 1)
                      \/ /\ \A j \in 1..Len(s) : Key(s[j]) # FileWord(p)
                         /\ \E j : PutIn(new, s, j, Entry(p))

\* The words of a table with one more occurrence are its words and the new one.
LEMMA CountedWords ==
    ASSUME NEW new, NEW s, NEW p, Counted(new, s, p), Len(s) \in Nat
    PROVE  /\ Len(s) <= Len(new) /\ Len(new) <= Len(s) + 1
           /\ \A k \in 1..Len(new) : new[k].word = p \/ \E l \in 1..Len(s) : new[k].word = s[l].word
<1>1. CASE \E j : CountedUp(new, s, j, 1)
  <2>1. Len(new) = Len(s) /\ \A k \in 1..Len(s) : new[k].word = s[k].word
    BY <1>1 DEF CountedUp
  <2> QED BY <2>1
<1>2. ASSUME NEW j, PutIn(new, s, j, Entry(p))
      PROVE  /\ Len(new) = Len(s) + 1
             /\ \A k \in 1..Len(new) : new[k].word = p \/ \E l \in 1..Len(s) : new[k].word = s[l].word
  <2>1. /\ j \in 1..(Len(s) + 1) /\ Len(new) = Len(s) + 1
        /\ \A k \in 1..(Len(s) + 1) :
              new[k] = IF k < j THEN s[k] ELSE IF k = j THEN Entry(p) ELSE s[k - 1]
    BY <1>2 DEF PutIn
  <2>2. Entry(p).word = p
    BY DEF Entry
  <2>3. ASSUME NEW k \in 1..(Len(s) + 1)
        PROVE  new[k].word = p \/ \E l \in 1..Len(s) : new[k].word = s[l].word
    <3>1. CASE k < j
      <4>1. k \in 1..Len(s) /\ new[k] = s[k]
        BY <2>1, <3>1
      <4> QED BY <4>1
    <3>2. CASE k = j
      BY <2>1, <2>2, <3>2
    <3>3. CASE k > j
      <4>1. k - 1 \in 1..Len(s) /\ new[k] = s[k - 1]
        BY <2>1, <3>3
      <4> QED BY <4>1
    <3> QED BY <2>1, <3>1, <3>2, <3>3
  <2> QED BY <2>1, <2>3
<1> QED BY <1>1, <1>2 DEF Counted

\* A thread ends the word it is in with a 0 and counts it.
LEMMA WordStored ==
    ASSUME IInv, NEW t \in Procs, thr[t].at = "map", thr[t].in_word, file' = file,
           NEW q, q = thr[t].start + thr[t].i, q = flen \/ ~InsideWord(Char(q)),
           data' = [data EXCEPT ![q] = 0], wordcount_reduce(t, thr[t].curr_start)
    PROVE  /\ Write /\ DataInv'
           /\ DOMAIN words' = Procs /\ length' \in [Procs -> Nat \ {0}]
           /\ \A u \in Procs : u # t => words'[u] = words[u] /\ length'[u] = length[u]
           /\ Good(words[t])' /\ Distinct(words[t])' /\ Len(words'[t]) < length'[t]
           /\ WordAt(thr[t].curr_start, q) /\ Counted(words'[t], words[t], thr[t].curr_start)
<1>0. PICK p, s, new : p = thr[t].curr_start /\ s = words[t] /\ new = words'[t]
  OBVIOUS
<1>1. DataInv /\ TablesInv /\ InMap /\ Reading(thr[t]) /\ flen \in Nat /\ FileInv
  BY Mapping, ControlTypes DEF IInv
<1>2. /\ thr[t].start \in 0..flen /\ thr[t].i \in 0..flen /\ thr[t].length \in 0..flen
      /\ thr[t].start + thr[t].length <= flen /\ thr[t].i <= thr[t].length /\ p \in 0..flen
      /\ p \in thr[t].start..(thr[t].start + thr[t].i - 1)
      /\ Letter(Char(p)) /\ ~(p > 0 /\ InFileWord(p - 1))
      /\ \A r \in p..(thr[t].start + thr[t].i - 1) : InsideWord(Char(r)) /\ data[r] = Char(r)
  BY <1>0, <1>1 DEF Reading
<1>3. q \in 0..flen /\ p \in 0..(q - 1) /\ p \in 0..(flen - 1) /\ q \in (p + 1)..flen
  BY <1>1, <1>2
<1>4. WordAt(p, q)
  BY <1>2, <1>3 DEF WordAt
<1>5. Write /\ DataInv'
  <2>1. Writes(q, 0)
    BY <1>3 DEF Writes
  <2>2. Write
    BY <2>1 DEF Write
  <2> QED BY <1>1, <2>2, DataKept
<1>6. data'[q] = 0 /\ \A r \in p..(q - 1) : data'[r] = Char(r)
  <2>1. data \in [0..flen -> 0..127]
    BY <1>1 DEF DataInv
  <2>2. \A r \in p..(q - 1) : r \in 0..flen /\ r # q /\ data[r] = Char(r)
    BY <1>1, <1>2, <1>3
  <2> QED BY <1>3, <2>1, <2>2
<1>7. TextIn(data', p) = FileWord(p) /\ FileWord(p) \in Texts
  BY <1>1, <1>4, <1>6, TextOf, FileWordOf
<1>8. /\ words' = [words EXCEPT ![t] = Added(s, FileWord(p), p)]
      /\ length' = [length EXCEPT ![t] = IF Len(new) = length[t] THEN 2 * length[t] ELSE length[t]]
  BY <1>0, <1>7 DEF wordcount_reduce
<1>9. /\ DOMAIN words = Procs /\ length \in [Procs -> Nat \ {0}]
      /\ Stored(s) /\ InOrder(s) /\ Len(s) < length[t]
  BY <1>0, <1>1 DEF TablesInv
<1>10. /\ DOMAIN words' = Procs /\ new = Added(s, FileWord(p), p)
       /\ \A u \in Procs : u # t => words'[u] = words[u] /\ length'[u] = length[u]
  BY <1>0, <1>8, <1>9
<1>11. /\ s \in Seq(Entries) /\ Len(s) \in Nat
       /\ \A k \in 1..Len(s) : /\ Whole(s[k].word) /\ Text(s[k].word) = Key(s[k])
                               /\ Key(s[k]) \in Texts
  BY <1>1, <1>9, StoredTexts
<1>12. new \in Seq(Entries) /\ InOrder(new) /\ Counted(new, s, p)
  <2>1. p \in 0..flen
    BY <1>2
  <2> QED BY <1>7, <1>9, <1>10, <1>11, <2>1, AddedEffect DEF Counted
<1>13. /\ Len(new) \in Nat /\ Len(s) <= Len(new) /\ Len(new) <= Len(s) + 1
       /\ \A k \in 1..Len(new) : new[k].word = p \/ \E l \in 1..Len(s) : new[k].word = s[l].word
  BY <1>11, <1>12, CountedWords
<1>14. length' \in [Procs -> Nat \ {0}] /\ Len(new) < length'[t]
  <2> DEFINE n == IF Len(new) = length[t] THEN 2 * length[t] ELSE length[t]
  <2>1. length[t] \in Nat \ {0}
    BY <1>9
  <2>2. n \in Nat \ {0} /\ Len(new) < n
    BY <1>9, <1>11, <1>13, <2>1
  <2>3. length' = [length EXCEPT ![t] = n]
    BY <1>8
  <2> HIDE DEF n
  <2> QED BY <1>9, <2>2, <2>3
<1>15. Distinct(new)
  <2>1. \A k \in 1..Len(new) : Key(new[k]) \in Texts
    BY <1>7, <1>11, <1>13 DEF Key
  <2> QED BY <1>12, <1>13, <2>1, InOrderDistinct
<1>16. Whole(p)'
  <2>1. WordAt(p, q)' /\ q \in 0..flen' /\ data'[q] = 0
    BY <1>3, <1>4, <1>6, FileKept
  <2>2. Copied(p, q)'
    BY <1>6, FileKept DEF Copied
  <2> QED BY <2>1, <2>2 DEF Whole
<1>17. \A k \in 1..Len(new) : Whole(new[k].word)'
  <2>1. \A l \in 1..Len(s) : Whole(s[l].word)
    BY <1>11
  <2>2. \A a : Whole(a) => Whole(a)'
    BY <1>1, <1>5, TablesKept
  <2>3. ASSUME NEW k \in 1..Len(new), NEW a, new[k].word = a PROVE Whole(a)'
    <3>1. a = p \/ \E l \in 1..Len(s) : a = s[l].word
      BY <1>13, <2>3
    <3>2. CASE a = p
      BY <1>16, <3>2
    <3>3. CASE \E l \in 1..Len(s) : a = s[l].word
      BY <2>1, <2>2, <3>3
    <3> QED BY <3>1, <3>2, <3>3
  <2> QED BY <2>3
<1>18. Good(words[t])' /\ Distinct(words[t])'
  <2>1. words'[t] = new
    BY <1>0
  <2>2. Stored(words[t])'
    BY <1>12, <1>17, <2>1, FileKept DEF Stored
  <2> QED BY <1>12, <1>15, <2>1, <2>2, FileKept DEF Good
<1> QED BY <1>0, <1>4, <1>5, <1>10, <1>12, <1>14, <1>18

\* The end of a word in a section keeps the invariant.
LEMMA EndWordInv ==
    ASSUME IInv, NEW t \in Procs, EndWord(t), UNCHANGED <<file, num_procs, fpos, pc, i, rounds>>
    PROVE  IInv'
<1> DEFINE q == At(t)
           y == thr[t]
<1>1. PICK x : x = [y EXCEPT !.in_word = FALSE, !.i = y.i + 1]
  OBVIOUS
<1>2. /\ Turn(t) /\ y.in_word /\ ~InsideWord(toupper(data[q]))
      /\ data' = [data EXCEPT ![q] = 0] /\ thr' = [thr EXCEPT ![t] = x]
      /\ wordcount_reduce(t, y.curr_start)
  BY <1>1 DEF EndWord
<1>3. /\ Reading(y) /\ q = y.start + y.i /\ q \in 0..(flen - 1)
      /\ y.start \in 0..flen /\ y.i \in 0..flen /\ y.length \in 0..flen
      /\ y.i < y.length /\ y.start + y.length <= flen /\ flen \in Nat /\ y.at = "map"
  BY <1>2, Place
<1>4. DataInv /\ file' = file
  BY DEF IInv
<1>5. ~InsideWord(Char(q))
  BY <1>2, <1>3, <1>4, ReadChar
<1>6. /\ Write /\ DataInv'
      /\ DOMAIN words' = Procs /\ length' \in [Procs -> Nat \ {0}]
      /\ \A u \in Procs : u # t => words'[u] = words[u] /\ length'[u] = length[u]
      /\ Good(words[t])' /\ Distinct(words[t])' /\ Len(words'[t]) < length'[t]
  BY <1>2, <1>3, <1>4, <1>5, WordStored
<1>7. /\ x \in [at : {"map"}, start : 0..flen, length : 0..flen, i : 0..flen,
                curr_start : 0..flen, in_word : BOOLEAN]
      /\ x.start = y.start /\ x.length = y.length /\ x.i = y.i + 1 /\ ~x.in_word
  <2>1. y \in [at : {"map"}, start : 0..flen, length : 0..flen, i : 0..flen,
               curr_start : 0..flen, in_word : BOOLEAN]
    BY <1>3 DEF Reading
  <2>2. y.i + 1 \in 0..flen
    BY <1>3
  <2> HIDE DEF y, q
  <2> QED BY <1>1, <2>1, <2>2
<1>8. Reading(x)'
  <2>1. x.start + x.i - 1 = q
    BY <1>3, <1>7
  <2>2. /\ Edge(x.start)
        /\ x.start + x.length = flen \/ ~InsideWord(Char(x.start + x.length))
        /\ x.start + x.length <= flen /\ x.i <= x.length
    BY <1>3, <1>7 DEF Reading
  <2>3. ~InFileWord(q)
    <3>1. q \in Nat /\ ~Letter(Char(q))
      BY <1>3, <1>5 DEF InsideWord
    <3> HIDE DEF q
    <3> QED BY <1>5, <3>1, InWordStep
  <2> HIDE DEF q, y
  <2> QED BY <1>4, <1>7, <2>1, <2>2, <2>3, FileKept DEF Reading
<1> QED BY <1>2, <1>3, <1>6, <1>8, MapStepInv

\* The end of the last word, behind the section, keeps the invariant.
LEMMA LastWordInv ==
    ASSUME IInv, NEW t \in Procs, LastWord(t), UNCHANGED <<file, num_procs, fpos, pc, i, rounds>>
    PROVE  IInv'
<1> DEFINE q == SectionBorder(t)
           y == thr[t]
<1>1. PICK x : x = [at |-> "ended"]
  OBVIOUS
<1>2. /\ y.at = "map" /\ y.i = y.length /\ thr' = [thr EXCEPT ![t] = x] /\ x.at = "ended"
      /\ IF y.in_word THEN data' = [data EXCEPT ![q] = 0] /\ wordcount_reduce(t, y.curr_start)
                      ELSE data' = data /\ words' = words /\ length' = length
  BY <1>1 DEF LastWord
<1>3. /\ Reading(y) /\ q = y.start + y.i /\ (q = flen \/ ~InsideWord(Char(q)))
  <2>1. Reading(y)
    BY <1>2, Mapping
  <2> QED BY <1>2, <2>1 DEF Reading, SectionBorder
<1>4. DataInv /\ file' = file
  BY DEF IInv
<1>5. CASE y.in_word
  <2>1. /\ Write /\ DataInv'
        /\ DOMAIN words' = Procs /\ length' \in [Procs -> Nat \ {0}]
        /\ \A u \in Procs : u # t => words'[u] = words[u] /\ length'[u] = length[u]
        /\ Good(words[t])' /\ Distinct(words[t])' /\ Len(words'[t]) < length'[t]
    BY <1>2, <1>3, <1>4, <1>5, WordStored
  <2> QED BY <1>2, <2>1, MapStepInv
<1>6. CASE ~y.in_word
  <2>1. Write /\ DataInv'
    <3>1. Write
      BY <1>2, <1>6 DEF Write
    <3> QED BY <1>4, <3>1, DataKept
  <2> QED BY <1>2, <1>6, <2>1, ReadStepInv
<1> QED BY <1>5, <1>6

\* No step of a counting thread breaks the invariant.
LEMMA MapInv == \A t \in Procs : IInv /\ wordcount_map(t) => IInv'
<1> SUFFICES ASSUME NEW t \in Procs, IInv, wordcount_map(t) PROVE IInv'
  OBVIOUS
<1>1. UNCHANGED <<file, num_procs, fpos, pc, i, rounds>>
  BY DEF wordcount_map
<1>2. CASE StartWord(t)
  BY <1>1, <1>2, StartWordInv
<1>3. CASE Skip(t)
  BY <1>1, <1>3, SkipInv
<1>4. CASE ExtendWord(t)
  BY <1>1, <1>4, ExtendWordInv
<1>5. CASE EndWord(t)
  BY <1>1, <1>5, EndWordInv
<1>6. CASE LastWord(t)
  BY <1>1, <1>6, LastWordInv
<1> QED BY <1>2, <1>3, <1>4, <1>5, <1>6 DEF wordcount_map

-----------------------------------------------------------------------------
(* The tables that a merge makes. *)

LEMMA TailTable ==
    ASSUME NEW s \in Seq(Entries), s # <<>>
    PROVE  /\ Len(s) \in Nat \ {0} /\ Head(s) = s[1] /\ 1 \in 1..Len(s)
           /\ Tail(s) \in Seq(Entries) /\ Len(Tail(s)) = Len(s) - 1
           /\ \A k \in 1..(Len(s) - 1) : Tail(s)[k] = s[k + 1] /\ k + 1 \in 1..Len(s)
OBVIOUS

\* A table in order without its first entry is in order, behind that entry.
LEMMA GoodTail ==
    ASSUME NEW s, Good(s), s # <<>>
    PROVE  /\ Good(Tail(s)) /\ Stored(<<Head(s)>>)
           /\ \A k \in 1..Len(Tail(s)) : Before(Key(Head(s)), Key(Tail(s)[k]))
<1>1. /\ s \in Seq(Entries) /\ \A k \in 1..Len(s) : Whole(s[k].word)
      /\ \A k, l \in 1..Len(s) : k < l => Before(Key(s[k]), Key(s[l]))
  BY DEF Good, Stored, InOrder
<1>2. /\ Len(s) \in Nat \ {0} /\ Head(s) = s[1] /\ 1 \in 1..Len(s)
      /\ Tail(s) \in Seq(Entries) /\ Len(Tail(s)) = Len(s) - 1
      /\ \A k \in 1..(Len(s) - 1) : Tail(s)[k] = s[k + 1] /\ k + 1 \in 1..Len(s)
  BY <1>1, TailTable
<1>3. Good(Tail(s))
  <2> DEFINE r == Tail(s)
  <2>1. Len(r) = Len(s) - 1 /\ \A k \in 1..Len(r) : r[k] = s[k + 1] /\ k + 1 \in 1..Len(s)
    BY <1>2
  <2>2. r \in Seq(Entries)
    BY <1>2
  <2> HIDE DEF r
  <2>3. \A k \in 1..Len(r) : Whole(r[k].word)
    BY <1>1, <2>1
  <2>4. \A k, l \in 1..Len(r) : k < l => Before(Key(r[k]), Key(r[l]))
    <3> SUFFICES ASSUME NEW k \in 1..Len(r), NEW l \in 1..Len(r), k < l
                 PROVE  Before(Key(r[k]), Key(r[l]))
      OBVIOUS
    <3>1. k + 1 < l + 1
      OBVIOUS
    <3> QED BY <1>1, <2>1, <3>1
  <2> QED BY <2>2, <2>3, <2>4 DEF Good, Stored, InOrder, r
<1>4. Stored(<<Head(s)>>)
  <2>1. s[1] \in Entries /\ Whole(s[1].word)
    BY <1>1, <1>2, ElementOfSeq
  <2> QED BY <1>2, <2>1 DEF Stored
<1>5. \A k \in 1..Len(Tail(s)) : Before(Key(Head(s)), Key(Tail(s)[k]))
  <2> SUFFICES ASSUME NEW k \in 1..(Len(s) - 1) PROVE Before(Key(Head(s)), Key(Tail(s)[k]))
    BY <1>2
  <2>1. 1 < k + 1 /\ k + 1 \in 1..Len(s) /\ Tail(s)[k] = s[k + 1]
    BY <1>2
  <2> QED BY <1>1, <1>2, <2>1
<1> QED BY <1>3, <1>4, <1>5

\* The entries of a concatenation.
LEMMA ConcatTable ==
    ASSUME NEW r \in Seq(Entries), NEW s \in Seq(Entries)
    PROVE  /\ r \o s \in Seq(Entries) /\ Len(r \o s) = Len(r) + Len(s)
           /\ Len(r) \in Nat /\ Len(s) \in Nat
           /\ \A k \in 1..(Len(r) + Len(s)) : (r \o s)[k] = IF k <= Len(r) THEN r[k] ELSE s[k - Len(r)]
OBVIOUS

\* A table in order behind another one in order.
LEMMA GoodConcat ==
    ASSUME NEW r, NEW s, Good(r), Good(s), AllBefore(r, s)
    PROVE  Good(r \o s)
<1> DEFINE c == r \o s
<1>1. /\ r \in Seq(Entries) /\ \A k \in 1..Len(r) : Whole(r[k].word)
      /\ \A k, l \in 1..Len(r) : k < l => Before(Key(r[k]), Key(r[l]))
  BY DEF Good, Stored, InOrder
<1>2. /\ s \in Seq(Entries) /\ \A k \in 1..Len(s) : Whole(s[k].word)
      /\ \A k, l \in 1..Len(s) : k < l => Before(Key(s[k]), Key(s[l]))
  BY DEF Good, Stored, InOrder
<1>3. /\ c \in Seq(Entries) /\ Len(c) = Len(r) + Len(s) /\ Len(r) \in Nat /\ Len(s) \in Nat
      /\ \A k \in 1..Len(c) : c[k] = IF k <= Len(r) THEN r[k] ELSE s[k - Len(r)]
  BY <1>1, <1>2, ConcatTable
<1> HIDE DEF c
<1>4. ASSUME NEW k \in 1..Len(c)
      PROVE  \/ k <= Len(r) /\ k \in 1..Len(r) /\ c[k] = r[k]
             \/ k > Len(r) /\ k - Len(r) \in 1..Len(s) /\ c[k] = s[k - Len(r)]
  BY <1>3
<1>5. \A k \in 1..Len(c) : Whole(c[k].word)
  BY <1>1, <1>2, <1>4
<1>6. ASSUME NEW k \in 1..Len(c), NEW l \in 1..Len(c), k < l PROVE Before(Key(c[k]), Key(c[l]))
  <2>1. CASE l <= Len(r)
    <3>1. k \in 1..Len(r) /\ c[k] = r[k] /\ l \in 1..Len(r) /\ c[l] = r[l]
      BY <1>3, <1>4, <1>6, <2>1
    <3> QED BY <1>1, <1>6, <3>1
  <2>2. CASE k <= Len(r) /\ l > Len(r)
    <3>1. k \in 1..Len(r) /\ c[k] = r[k] /\ l - Len(r) \in 1..Len(s) /\ c[l] = s[l - Len(r)]
      BY <1>3, <1>4, <2>2
    <3> QED BY <3>1 DEF AllBefore
  <2>3. CASE k > Len(r)
    <3>1. /\ k - Len(r) \in 1..Len(s) /\ c[k] = s[k - Len(r)]
          /\ l - Len(r) \in 1..Len(s) /\ c[l] = s[l - Len(r)] /\ k - Len(r) < l - Len(r)
      BY <1>3, <1>4, <1>6, <2>3
    <3> QED BY <1>2, <3>1
  <2> QED BY <1>3, <2>1, <2>2, <2>3
<1> QED BY <1>3, <1>5, <1>6 DEF Good, Stored, InOrder, c

\* The entries of a table with one more at its end.
LEMMA AppendTable ==
    ASSUME NEW s \in Seq(Entries), NEW e \in Entries
    PROVE  /\ Append(s, e) \in Seq(Entries) /\ Len(Append(s, e)) = Len(s) + 1 /\ Len(s) \in Nat
           /\ \A k \in 1..(Len(s) + 1) : Append(s, e)[k] = IF k = Len(s) + 1 THEN e ELSE s[k]
OBVIOUS

\* A table in order with an entry of a later word at its end.
LEMMA GoodAppend ==
    ASSUME NEW s, Good(s), NEW e \in Entries, Whole(e.word),
           \A k \in 1..Len(s) : Before(Key(s[k]), Key(e))
    PROVE  /\ Good(Append(s, e)) /\ Len(Append(s, e)) = Len(s) + 1 /\ Len(s) \in Nat
           /\ \A k \in 1..(Len(s) + 1) : Append(s, e)[k] = IF k = Len(s) + 1 THEN e ELSE s[k]
<1> DEFINE c == Append(s, e)
<1>1. /\ s \in Seq(Entries) /\ \A k \in 1..Len(s) : Whole(s[k].word)
      /\ \A k, l \in 1..Len(s) : k < l => Before(Key(s[k]), Key(s[l]))
  BY DEF Good, Stored, InOrder
<1>2. /\ c \in Seq(Entries) /\ Len(c) = Len(s) + 1 /\ Len(s) \in Nat
      /\ \A k \in 1..(Len(s) + 1) : c[k] = IF k = Len(s) + 1 THEN e ELSE s[k]
  BY <1>1, AppendTable
<1> HIDE DEF c
<1>3. \A k \in 1..Len(c) : Whole(c[k].word)
  <2> SUFFICES ASSUME NEW k \in 1..(Len(s) + 1) PROVE Whole(c[k].word)
    BY <1>2
  <2>1. CASE k = Len(s) + 1
    BY <1>2, <2>1
  <2>2. CASE k # Len(s) + 1
    <3>1. k \in 1..Len(s) /\ c[k] = s[k]
      BY <1>2, <2>2
    <3> QED BY <1>1, <3>1
  <2> QED BY <2>1, <2>2
<1>4. ASSUME NEW k \in 1..Len(c), NEW l \in 1..Len(c), k < l PROVE Before(Key(c[k]), Key(c[l]))
  <2>1. k \in 1..Len(s) /\ c[k] = s[k]
    BY <1>2, <1>4
  <2>2. CASE l = Len(s) + 1
    <3>1. c[l] = e
      BY <1>2, <2>2
    <3> QED BY <2>1, <3>1
  <2>3. CASE l # Len(s) + 1
    <3>1. l \in 1..Len(s) /\ c[l] = s[l]
      BY <1>2, <2>3
    <3> QED BY <1>1, <1>4, <2>1, <3>1
  <2> QED BY <2>2, <2>3
<1> QED BY <1>2, <1>3, <1>4 DEF Good, Stored, InOrder, c

\* The smaller of two first entries moves behind the merged ones.
LEMMA TakeSmaller ==
    ASSUME FileInv, NEW a, NEW b, NEW o, Good(a), Good(b), Good(o), AllBefore(o, a), AllBefore(o, b),
           a # <<>>, b # <<>>, Before(Key(Head(a)), Key(Head(b)))
    PROVE  /\ Good(Tail(a)) /\ Good(Append(o, Head(a)))
           /\ AllBefore(Append(o, Head(a)), Tail(a)) /\ AllBefore(Append(o, Head(a)), b)
<1>1. PICK h, r : h = Head(a) /\ r = Tail(a)
  OBVIOUS
<1>2. /\ Good(r) /\ Stored(<<h>>) /\ \A k \in 1..Len(r) : Before(Key(h), Key(r[k]))
  BY <1>1, GoodTail
<1>3. a \in Seq(Entries) /\ b \in Seq(Entries) /\ o \in Seq(Entries)
  BY DEF Good, Stored
<1>4. /\ Len(a) \in Nat \ {0} /\ h = a[1] /\ 1 \in 1..Len(a) /\ Len(r) = Len(a) - 1
      /\ \A k \in 1..Len(r) : r[k] = a[k + 1] /\ k + 1 \in 1..Len(a)
  BY <1>1, <1>3, TailTable
<1>5. /\ Len(b) \in Nat \ {0} /\ Head(b) = b[1] /\ 1 \in 1..Len(b)
  BY <1>3, TailTable
<1>6. h \in Entries /\ Whole(h.word)
  <2>1. a[1] \in Entries
    BY <1>3, <1>4, ElementOfSeq
  <2> QED BY <1>4, <2>1 DEF Good, Stored
<1>7. \A k \in 1..Len(o) : Before(Key(o[k]), Key(h))
  BY <1>4 DEF AllBefore
<1>8. PICK c : c = Append(o, h)
  OBVIOUS
<1>9. /\ Good(c) /\ Len(c) = Len(o) + 1 /\ Len(o) \in Nat
      /\ \A k \in 1..(Len(o) + 1) : c[k] = IF k = Len(o) + 1 THEN h ELSE o[k]
  BY <1>6, <1>7, <1>8, GoodAppend
<1>10. \A l \in 1..Len(b) : Before(Key(h), Key(b[l]))
  <2> SUFFICES ASSUME NEW l \in 1..Len(b) PROVE Before(Key(h), Key(b[l]))
    OBVIOUS
  <2>1. CASE l = 1
    BY <1>1, <1>5, <2>1
  <2>2. CASE l # 1
    <3>1. 1 < l
      BY <1>5, <2>2
    <3>2. Before(Key(b[1]), Key(b[l]))
      BY <1>5, <3>1 DEF Good, InOrder
    <3>3. Key(h) \in Texts /\ Key(b[1]) \in Texts /\ Key(b[l]) \in Texts
      <4>1. Stored(a) /\ Stored(b)
        BY DEF Good
      <4> QED BY <1>4, <1>5, <4>1, StoredTexts
    <3> QED BY <1>1, <1>5, <3>2, <3>3, BeforeTransitive
  <2> QED BY <2>1, <2>2
<1>11. ASSUME NEW s, \A l \in 1..Len(s) : Before(Key(h), Key(s[l])), AllBefore(o, s)
       PROVE  AllBefore(c, s)
  <2> SUFFICES ASSUME NEW k \in 1..(Len(o) + 1), NEW l \in 1..Len(s)
               PROVE  Before(Key(c[k]), Key(s[l]))
    BY <1>9 DEF AllBefore
  <2>1. CASE k = Len(o) + 1
    BY <1>9, <1>11, <2>1
  <2>2. CASE k # Len(o) + 1
    <3>1. k \in 1..Len(o) /\ c[k] = o[k]
      BY <1>9, <2>2
    <3> QED BY <1>11, <3>1 DEF AllBefore
  <2> QED BY <2>1, <2>2
<1>12. AllBefore(o, r)
  BY <1>4 DEF AllBefore
<1> QED BY <1>1, <1>2, <1>8, <1>9, <1>10, <1>11, <1>12

\* The first entry of the first table gets the count of an entry of the second.
LEMMA CountFirst ==
    ASSUME NEW a, NEW o, NEW n \in Nat, Good(a), AllBefore(o, a), a # <<>>
    PROVE  LET c == [a EXCEPT ![1].count = @ + n]
           IN  /\ Good(c) /\ AllBefore(o, c) /\ CountedUp(c, a, 1, n)
<1>1. PICK c : c = [a EXCEPT ![1].count = @ + n]
  OBVIOUS
<1>2. a \in Seq(Entries) /\ \A k \in 1..Len(a) : Whole(a[k].word)
  BY DEF Good, Stored
<1>3. Len(a) \in Nat \ {0} /\ 1 \in 1..Len(a) /\ DOMAIN a = 1..Len(a)
  BY <1>2, TailTable
<1>4. a[1] \in Entries /\ a[1].count \in Nat \ {0}
  <2>1. a[1] \in Entries
    BY <1>2, <1>3, ElementOfSeq
  <2> QED BY <2>1 DEF Entries
<1>5. PICK e : e = [a[1] EXCEPT !.count = a[1].count + n]
  OBVIOUS
<1>6. e \in Entries /\ e.word = a[1].word /\ e.count = a[1].count + n
  BY <1>4, <1>5 DEF Entries
<1>7. c = [a EXCEPT ![1] = e]
  BY <1>1, <1>5
<1>8. c \in Seq(Entries) /\ Len(c) = Len(a)
  BY <1>2, <1>3, <1>6, <1>7
<1>9. \A k \in 1..Len(a) : c[k] = IF k = 1 THEN e ELSE a[k]
  BY <1>3, <1>7
<1>10. CountedUp(c, a, 1, n)
  BY <1>3, <1>6, <1>8, <1>9 DEF CountedUp
<1>11. \A k \in 1..Len(a) : c[k].word = a[k].word
  BY <1>6, <1>9
<1>12. Good(c)
  <2>1. Stored(c)
    BY <1>2, <1>8, <1>11 DEF Stored
  <2>2. InOrder(c)
    BY <1>10, CountedUpOrder DEF Good
  <2> QED BY <2>1, <2>2 DEF Good
<1>13. AllBefore(o, c)
  BY <1>8, <1>11 DEF AllBefore, Key
<1> QED BY <1>1, <1>10, <1>12, <1>13

\* What a step of a merging thread makes of its tables.
Next1(x, y) ==
    /\ x.data1 # <<>> /\ x.data2 # <<>> /\ Key(Head(x.data1)) = Key(Head(x.data2))
    /\ y = [x EXCEPT !.data1 = [x.data1 EXCEPT ![1].count = @ + Head(x.data2).count],
                     !.data2 = Tail(x.data2)]
Next2(x, y) ==
    /\ x.data1 # <<>> /\ x.data2 # <<>> /\ Before(Key(Head(x.data1)), Key(Head(x.data2)))
    /\ y = [x EXCEPT !.data1 = Tail(x.data1), !.out = Append(x.out, Head(x.data1))]
Next3(x, y) ==
    /\ x.data1 # <<>> /\ x.data2 # <<>> /\ Before(Key(Head(x.data2)), Key(Head(x.data1)))
    /\ y = [x EXCEPT !.data2 = Tail(x.data2), !.out = Append(x.out, Head(x.data2))]
Next4(x, y) ==
    /\ x.data1 = <<>> \/ x.data2 = <<>>
    /\ y = [at |-> "ended", out |-> x.out \o x.data1 \o x.data2]

Set12(x, c, d)  == [x EXCEPT !.data1 = c, !.data2 = d]
Set1Out(x, c, d) == [x EXCEPT !.data1 = c, !.out = d]
Set2Out(x, c, d) == [x EXCEPT !.data2 = c, !.out = d]

\* The fields of a thread whose two tables change.
LEMMA Set12Fields ==
    ASSUME NEW x \in Mergers, NEW c \in Seq(Entries), NEW d \in Seq(Entries),
           NEW y, y = Set12(x, c, d)
    PROVE  y \in Mergers /\ y.data1 = c /\ y.data2 = d /\ y.out = x.out
BY DEF Mergers, Set12

\* The fields of a thread that takes the first entry of its first table.
LEMMA Set1OutFields ==
    ASSUME NEW x \in Mergers, NEW c \in Seq(Entries), NEW d \in Seq(Entries),
           NEW y, y = Set1Out(x, c, d)
    PROVE  y \in Mergers /\ y.data1 = c /\ y.data2 = x.data2 /\ y.out = d
BY DEF Mergers, Set1Out

\* The fields of a thread that takes the first entry of its second table.
LEMMA Set2OutFields ==
    ASSUME NEW x \in Mergers, NEW c \in Seq(Entries), NEW d \in Seq(Entries),
           NEW y, y = Set2Out(x, c, d)
    PROVE  y \in Mergers /\ y.data1 = x.data1 /\ y.data2 = c /\ y.out = d
BY DEF Mergers, Set2Out

\* The tables after a step.
LEMMA MergeTables ==
    ASSUME NEW x, NEW y, Merging(x)
    PROVE  /\ Next1(x, y) =>
                 /\ y \in Mergers /\ y.out = x.out /\ y.data2 = Tail(x.data2)
                 /\ y.data1 = [x.data1 EXCEPT ![1].count = @ + Head(x.data2).count]
                 /\ Head(x.data2).count \in Nat
           /\ Next2(x, y) => /\ y \in Mergers /\ y.out = Append(x.out, Head(x.data1))
                             /\ y.data1 = Tail(x.data1) /\ y.data2 = x.data2
           /\ Next3(x, y) => /\ y \in Mergers /\ y.out = Append(x.out, Head(x.data2))
                             /\ y.data1 = x.data1 /\ y.data2 = Tail(x.data2)
<1>1. PICK a, b, o : a = x.data1 /\ b = x.data2 /\ o = x.out
  OBVIOUS
<1>2. /\ x \in Mergers /\ a \in Seq(Entries) /\ b \in Seq(Entries) /\ o \in Seq(Entries)
      /\ Good(a)
  BY <1>1 DEF Merging, Good, Stored
<1>3. \A s \in Seq(Entries) : s # <<>> => /\ Head(s) \in Entries /\ Tail(s) \in Seq(Entries)
                                          /\ Append(o, Head(s)) \in Seq(Entries)
  BY <1>2
<1>4. ASSUME Next1(x, y)
      PROVE  /\ y \in Mergers /\ y.out = o /\ y.data2 = Tail(b)
             /\ y.data1 = [a EXCEPT ![1].count = @ + Head(b).count] /\ Head(b).count \in Nat
  <2>1. a # <<>> /\ b # <<>>
    BY <1>1, <1>4 DEF Next1
  <2>2. Head(b).count \in Nat
    BY <1>2, <1>3, <2>1 DEF Entries
  <2>3. PICK c : c = [a EXCEPT ![1].count = @ + Head(b).count]
    OBVIOUS
  <2>4. c \in Seq(Entries)
    <3>1. AllBefore(<<>>, a)
      BY DEF AllBefore
    <3>2. Good(c)
      BY <1>2, <2>1, <2>2, <2>3, <3>1, CountFirst
    <3> QED BY <3>2 DEF Good, Stored
  <2>5. y = Set12(x, c, Tail(b))
    BY <1>1, <1>4, <2>3 DEF Next1, Set12
  <2>6. Tail(b) \in Seq(Entries)
    BY <1>2, <1>3, <2>1
  <2>7. y \in Mergers /\ y.data1 = c /\ y.data2 = Tail(b) /\ y.out = x.out
    <3>1. PICK d : d = Tail(b)
      OBVIOUS
    <3>2. x \in Mergers /\ c \in Seq(Entries) /\ d \in Seq(Entries) /\ y = Set12(x, c, d)
      BY <1>2, <2>4, <2>5, <2>6, <3>1
    <3>3. y \in Mergers /\ y.data1 = c /\ y.data2 = d /\ y.out = x.out
      BY <3>2, Set12Fields
    <3> QED BY <3>1, <3>3
  <2> QED BY <1>1, <2>2, <2>3, <2>7
<1>5. ASSUME Next2(x, y)
      PROVE  y \in Mergers /\ y.out = Append(o, Head(a)) /\ y.data1 = Tail(a) /\ y.data2 = b
  <2>1. a # <<>> /\ y = Set1Out(x, Tail(a), Append(o, Head(a)))
    BY <1>1, <1>5 DEF Next2, Set1Out
  <2>2. Tail(a) \in Seq(Entries) /\ Append(o, Head(a)) \in Seq(Entries)
    BY <1>2, <1>3, <2>1
  <2>3. y \in Mergers /\ y.data1 = Tail(a) /\ y.data2 = x.data2 /\ y.out = Append(o, Head(a))
    <3>1. PICK c, d : c = Tail(a) /\ d = Append(o, Head(a))
      OBVIOUS
    <3>2. x \in Mergers /\ c \in Seq(Entries) /\ d \in Seq(Entries) /\ y = Set1Out(x, c, d)
      BY <1>2, <2>1, <2>2, <3>1
    <3>3. y \in Mergers /\ y.data1 = c /\ y.data2 = x.data2 /\ y.out = d
      BY <3>2, Set1OutFields
    <3> QED BY <3>1, <3>3
  <2> QED BY <1>1, <2>3
<1>6. ASSUME Next3(x, y)
      PROVE  y \in Mergers /\ y.out = Append(o, Head(b)) /\ y.data1 = a /\ y.data2 = Tail(b)
  <2>1. b # <<>> /\ y = Set2Out(x, Tail(b), Append(o, Head(b)))
    BY <1>1, <1>6 DEF Next3, Set2Out
  <2>2. Tail(b) \in Seq(Entries) /\ Append(o, Head(b)) \in Seq(Entries)
    BY <1>2, <1>3, <2>1
  <2>3. y \in Mergers /\ y.data2 = Tail(b) /\ y.data1 = x.data1 /\ y.out = Append(o, Head(b))
    <3>1. PICK c, d : c = Tail(b) /\ d = Append(o, Head(b))
      OBVIOUS
    <3>2. x \in Mergers /\ c \in Seq(Entries) /\ d \in Seq(Entries) /\ y = Set2Out(x, c, d)
      BY <1>2, <2>1, <2>2, <3>1
    <3>3. y \in Mergers /\ y.data2 = c /\ y.data1 = x.data1 /\ y.out = d
      BY <3>2, Set2OutFields
    <3> QED BY <3>1, <3>3
  <2> QED BY <1>1, <2>3
<1> QED BY <1>1, <1>4, <1>5, <1>6

\* A turn of merge_sections keeps what is merged in order and before what is left.
LEMMA MergeKeeps ==
    ASSUME FileInv, NEW x, NEW y, Merging(x),
           Next1(x, y) \/ Next2(x, y) \/ Next3(x, y) \/ Next4(x, y)
    PROVE  Merging(y) \/ Merged(y)
<1>1. PICK a, b, o : a = x.data1 /\ b = x.data2 /\ o = x.out
  OBVIOUS
<1>2. Good(a) /\ Good(b) /\ Good(o) /\ AllBefore(o, a) /\ AllBefore(o, b)
  BY <1>1 DEF Merging
<1>3. a \in Seq(Entries) /\ b \in Seq(Entries) /\ o \in Seq(Entries)
  BY <1>2 DEF Good, Stored
<1>4. CASE Next1(x, y)
  <2>1. /\ y \in Mergers /\ y.out = o /\ y.data2 = Tail(b)
        /\ y.data1 = [a EXCEPT ![1].count = @ + Head(b).count]
        /\ Head(b).count \in Nat /\ a # <<>> /\ b # <<>>
    <3>1. /\ y \in Mergers /\ y.out = x.out /\ y.data2 = Tail(x.data2)
          /\ y.data1 = [x.data1 EXCEPT ![1].count = @ + Head(x.data2).count]
          /\ Head(x.data2).count \in Nat
      BY <1>4, MergeTables, Zenon
    <3>2. x.data1 # <<>> /\ x.data2 # <<>>
      BY <1>4 DEF Next1
    <3> QED BY <1>1, <3>1, <3>2
  <2>2. PICK c : c = [a EXCEPT ![1].count = @ + Head(b).count]
    OBVIOUS
  <2>3. Good(c) /\ AllBefore(o, c)
    BY <1>2, <2>1, <2>2, CountFirst
  <2>4. Good(Tail(b)) /\ AllBefore(o, Tail(b))
    <3>1. Good(Tail(b))
      BY <1>2, <2>1, GoodTail
    <3>2. /\ Len(b) \in Nat \ {0} /\ Len(Tail(b)) = Len(b) - 1
          /\ \A k \in 1..(Len(b) - 1) : Tail(b)[k] = b[k + 1] /\ k + 1 \in 1..Len(b)
      BY <1>3, <2>1, TailTable
    <3> QED BY <1>2, <3>1, <3>2 DEF AllBefore
  <2> QED BY <1>2, <2>1, <2>2, <2>3, <2>4 DEF Merging
<1>5. CASE Next2(x, y)
  <2>1. /\ y \in Mergers /\ y.out = Append(o, Head(a)) /\ y.data1 = Tail(a) /\ y.data2 = b
        /\ a # <<>> /\ b # <<>> /\ Before(Key(Head(a)), Key(Head(b)))
    <3>1. /\ y \in Mergers /\ y.out = Append(x.out, Head(x.data1))
          /\ y.data1 = Tail(x.data1) /\ y.data2 = x.data2
      BY <1>5, MergeTables, Zenon
    <3>2. /\ x.data1 # <<>> /\ x.data2 # <<>>
          /\ Before(Key(Head(x.data1)), Key(Head(x.data2)))
      BY <1>5 DEF Next2
    <3> QED BY <1>1, <3>1, <3>2
  <2>2. /\ Good(Tail(a)) /\ Good(Append(o, Head(a)))
        /\ AllBefore(Append(o, Head(a)), Tail(a)) /\ AllBefore(Append(o, Head(a)), b)
    BY <1>2, <2>1, TakeSmaller
  <2> QED BY <1>2, <2>1, <2>2 DEF Merging
<1>6. CASE Next3(x, y)
  <2>1. /\ y \in Mergers /\ y.out = Append(o, Head(b)) /\ y.data1 = a /\ y.data2 = Tail(b)
        /\ a # <<>> /\ b # <<>> /\ Before(Key(Head(b)), Key(Head(a)))
    <3>1. /\ y \in Mergers /\ y.out = Append(x.out, Head(x.data2))
          /\ y.data2 = Tail(x.data2) /\ y.data1 = x.data1
      BY <1>6, MergeTables, Zenon
    <3>2. /\ x.data1 # <<>> /\ x.data2 # <<>>
          /\ Before(Key(Head(x.data2)), Key(Head(x.data1)))
      BY <1>6 DEF Next3
    <3> QED BY <1>1, <3>1, <3>2
  <2>2. /\ Good(Tail(b)) /\ Good(Append(o, Head(b)))
        /\ AllBefore(Append(o, Head(b)), Tail(b)) /\ AllBefore(Append(o, Head(b)), a)
    BY <1>2, <2>1, TakeSmaller
  <2> QED BY <1>2, <2>1, <2>2 DEF Merging
<1>7. CASE Next4(x, y)
  <2>1. y = [at |-> "ended", out |-> (o \o a) \o b] /\ (a = <<>> \/ b = <<>>)
    BY <1>1, <1>7 DEF Next4
  <2>2. \A s \in Seq(Entries) : s \o <<>> = s
    OBVIOUS
  <2>3. CASE a = <<>>
    <3>1. (o \o a) \o b = o \o b
      BY <1>3, <2>2, <2>3
    <3>2. Good(o \o b)
      BY <1>2, GoodConcat
    <3> QED BY <2>1, <3>1, <3>2 DEF Merged
  <2>4. CASE b = <<>>
    <3>1. (o \o a) \o b = o \o a
      <4>1. o \o a \in Seq(Entries)
        BY <1>3
      <4> QED BY <2>2, <2>4, <4>1
    <3>2. Good(o \o a)
      BY <1>2, GoodConcat
    <3> QED BY <2>1, <3>1, <3>2 DEF Merged
  <2> QED BY <2>1, <2>3, <2>4
<1> QED BY <1>4, <1>5, <1>6, <1>7

-----------------------------------------------------------------------------
(* Merges keep the invariant. *)

\* What stays when the mapping does.
LEMMA Still ==
    ASSUME IInv, file' = file, num_procs' = num_procs, data' = data
    PROVE  /\ DataInv' /\ Procs' = Procs /\ flen' = flen /\ 0 \in Procs
           /\ \A s : (Stored(s) => Stored(s)') /\ (Good(s) => Good(s)')
           /\ \A s : InOrder(s)' = InOrder(s) /\ Distinct(s)' = Distinct(s)
           /\ \A x : (Merging(x) => Merging(x)') /\ (Merged(x) => Merged(x)')
           /\ \A p : Char(p)' = Char(p) /\ Edge(p)' = Edge(p)
           /\ Entries' = Entries
<1>1. DataInv /\ Write
  BY DEF IInv, Write
<1>2. DataInv' /\ \A s : (Stored(s) => Stored(s)') /\ (Good(s) => Good(s)')
  BY <1>1, DataKept, TablesKept
<1>3. \A x : (Merging(x) => Merging(x)') /\ (Merged(x) => Merged(x)')
  BY <1>1, TablesKept
<1>4. Procs' = Procs /\ 0 \in Procs
  BY ControlTypes DEF Procs
<1> QED BY <1>2, <1>3, <1>4, FileKept

\* The thread merges tables that are in order.
LEMMA MergingThread ==
    ASSUME IInv, NEW t \in Procs, thr[t].at = "merge"
    PROVE  /\ Merging(thr[t]) /\ InMerge /\ ~InMap /\ ~InSort
           /\ pc = "create_merge" => t < i
           /\ pc = "join_merge" => t < num_threads /\ t >= i
<1>1. ThreadInv(t)
  BY DEF IInv, ThreadsInv
<1>2. ~Reading(thr[t]) /\ ~Merged(thr[t]) /\ ~Sorting(thr[t])
  BY DEF Reading, Merged, Sorting
<1>3. pc \in {"split", "join_map", "create_merge", "join_merge", "sort", "create_sort",
              "join_sort", "done"}
  BY DEF IInv, ControlInv
<1>4. pc \in {"create_merge", "join_merge"}
  BY <1>1, <1>2, <1>3 DEF ThreadInv, InMap
<1> QED BY <1>1, <1>2, <1>4 DEF ThreadInv, InMap, InMerge, InSort

\* A turn of the loop of merge_sections, in terms of the words of the file.
LEMMA MergeStep ==
    ASSUME IInv, NEW t \in Procs, merge_sections(t)
    PROVE  \E y : /\ thr' = [thr EXCEPT ![t] = y]
                  /\ Next1(thr[t], y) \/ Next2(thr[t], y) \/ Next3(thr[t], y) \/ Next4(thr[t], y)
<1>1. PICK x : x = thr[t]
  OBVIOUS
<1>2. PICK a, b : a = x.data1 /\ b = x.data2
  OBVIOUS
<1>3. t \in DOMAIN thr /\ FileInv
  BY ControlTypes
<1>4. Good(a) /\ Good(b)
  <2>1. Merging(x)
    BY <1>1, MergingThread DEF merge_sections
  <2> QED BY <1>2, <2>1 DEF Merging
<1>5. /\ a # <<>> => Text(Head(a).word) = Key(Head(a))
      /\ b # <<>> => Text(Head(b).word) = Key(Head(b))
  <2>1. ASSUME NEW s, Good(s), s # <<>> PROVE Text(Head(s).word) = Key(Head(s))
    <3>1. Stored(s)
      BY <2>1 DEF Good
    <3>2. s \in Seq(Entries) /\ \A k \in 1..Len(s) : Text(s[k].word) = Key(s[k])
      BY <1>3, <3>1, StoredTexts
    <3>3. 1 \in 1..Len(s) /\ Head(s) = s[1]
      BY <2>1, <3>2, TailTable
    <3> QED BY <3>2, <3>3
  <2> QED BY <1>4, <2>1
<1>6. \/ /\ a # <<>> /\ b # <<>> /\ Text(Head(a).word) = Text(Head(b).word)
         /\ thr' = [thr EXCEPT ![t].data1[1].count = @ + Head(b).count, ![t].data2 = Tail(@)]
      \/ /\ a # <<>> /\ b # <<>> /\ Before(Text(Head(a).word), Text(Head(b).word))
         /\ thr' = [thr EXCEPT ![t].data1 = Tail(@), ![t].out = Append(@, Head(a))]
      \/ /\ a # <<>> /\ b # <<>> /\ Before(Text(Head(b).word), Text(Head(a).word))
         /\ thr' = [thr EXCEPT ![t].data2 = Tail(@), ![t].out = Append(@, Head(b))]
      \/ /\ a = <<>> \/ b = <<>>
         /\ thr' = [thr EXCEPT ![t] = [at |-> "ended", out |-> @.out \o a \o b]]
  BY <1>1, <1>2 DEF merge_sections
<1>7. CASE /\ a # <<>> /\ b # <<>> /\ Text(Head(a).word) = Text(Head(b).word)
           /\ thr' = [thr EXCEPT ![t].data1[1].count = @ + Head(b).count, ![t].data2 = Tail(@)]
  <2>1. PICK n, d : n = Head(b).count /\ d = Tail(b)
    OBVIOUS
  <2>2. PICK c : c = [a EXCEPT ![1].count = @ + n]
    OBVIOUS
  <2>3. PICK y : y = [x EXCEPT !.data1 = c, !.data2 = d]
    OBVIOUS
  <2>4. thr' = [thr EXCEPT ![t].data1[1].count = @ + n, ![t].data2 = Tail(@)]
    BY <1>7, <2>1
  <2>5. [thr EXCEPT ![t].data1[1].count = @ + n, ![t].data2 = Tail(@)]
         = [thr EXCEPT ![t] = [thr[t] EXCEPT !.data1 = [thr[t].data1 EXCEPT ![1].count = @ + n],
                                             !.data2 = Tail(thr[t].data2)]]
    BY <1>3
  <2>6. thr' = [thr EXCEPT ![t] = y]
    BY <1>1, <1>2, <2>1, <2>2, <2>3, <2>4, <2>5
  <2>7. Key(Head(a)) = Key(Head(b))
    BY <1>5, <1>7
  <2>8. Next1(x, y)
    BY <1>2, <1>7, <2>1, <2>2, <2>3, <2>7 DEF Next1
  <2> QED BY <1>1, <2>6, <2>8
<1>8. CASE /\ a # <<>> /\ b # <<>> /\ Before(Text(Head(a).word), Text(Head(b).word))
           /\ thr' = [thr EXCEPT ![t].data1 = Tail(@), ![t].out = Append(@, Head(a))]
  <2>1. PICK y : y = [x EXCEPT !.data1 = Tail(x.data1), !.out = Append(x.out, Head(x.data1))]
    OBVIOUS
  <2>2. thr' = [thr EXCEPT ![t] = y]
    <3>1. PICK h : h = Head(a)
      OBVIOUS
    <3>2. thr' = [thr EXCEPT ![t].data1 = Tail(@), ![t].out = Append(@, h)]
      BY <1>8, <3>1
    <3>3. [thr EXCEPT ![t].data1 = Tail(@), ![t].out = Append(@, h)]
           = [thr EXCEPT ![t] = [thr[t] EXCEPT !.data1 = Tail(thr[t].data1),
                                               !.out = Append(thr[t].out, h)]]
      BY <1>3
    <3> QED BY <1>1, <1>2, <2>1, <3>1, <3>2, <3>3
  <2>3. Before(Key(Head(a)), Key(Head(b)))
    BY <1>5, <1>8
  <2>4. Next2(x, y)
    BY <1>2, <1>8, <2>1, <2>3 DEF Next2
  <2> QED BY <1>1, <2>2, <2>4
<1>9. CASE /\ a # <<>> /\ b # <<>> /\ Before(Text(Head(b).word), Text(Head(a).word))
           /\ thr' = [thr EXCEPT ![t].data2 = Tail(@), ![t].out = Append(@, Head(b))]
  <2>1. PICK y : y = [x EXCEPT !.data2 = Tail(x.data2), !.out = Append(x.out, Head(x.data2))]
    OBVIOUS
  <2>2. thr' = [thr EXCEPT ![t] = y]
    <3>1. PICK h : h = Head(b)
      OBVIOUS
    <3>2. thr' = [thr EXCEPT ![t].data2 = Tail(@), ![t].out = Append(@, h)]
      BY <1>9, <3>1
    <3>3. [thr EXCEPT ![t].data2 = Tail(@), ![t].out = Append(@, h)]
           = [thr EXCEPT ![t] = [thr[t] EXCEPT !.data2 = Tail(thr[t].data2),
                                               !.out = Append(thr[t].out, h)]]
      BY <1>3
    <3> QED BY <1>1, <1>2, <2>1, <3>1, <3>2, <3>3
  <2>3. Before(Key(Head(b)), Key(Head(a)))
    BY <1>5, <1>9
  <2>4. Next3(x, y)
    BY <1>2, <1>9, <2>1, <2>3 DEF Next3
  <2> QED BY <1>1, <2>2, <2>4
<1>10. CASE /\ a = <<>> \/ b = <<>>
            /\ thr' = [thr EXCEPT ![t] = [at |-> "ended", out |-> @.out \o a \o b]]
  <2>1. PICK y : y = [at |-> "ended", out |-> x.out \o x.data1 \o x.data2]
    OBVIOUS
  <2>2. thr' = [thr EXCEPT ![t] = y]
    BY <1>1, <1>2, <1>10, <2>1
  <2>3. Next4(x, y)
    BY <1>2, <1>10, <2>1 DEF Next4
  <2> QED BY <1>1, <2>2, <2>3
<1> QED BY <1>6, <1>7, <1>8, <1>9, <1>10

\* No step of a merging thread breaks the invariant.
LEMMA MergeStepInv == \A t \in Procs : IInv /\ merge_sections(t) => IInv'
<1> SUFFICES ASSUME NEW t \in Procs, IInv, merge_sections(t) PROVE IInv'
  OBVIOUS
<1>1. /\ Merging(thr[t]) /\ InMerge /\ ~InMap /\ ~InSort
      /\ pc = "create_merge" => t < i
      /\ pc = "join_merge" => t < num_threads /\ t >= i
  BY MergingThread DEF merge_sections
<1>2. PICK y : /\ thr' = [thr EXCEPT ![t] = y]
               /\ Next1(thr[t], y) \/ Next2(thr[t], y) \/ Next3(thr[t], y) \/ Next4(thr[t], y)
  BY MergeStep
<1>3. Merging(y) \/ Merged(y)
  BY <1>1, <1>2, MergeKeeps, ControlTypes
<1>4. UNCHANGED <<file, num_procs, data, fpos, words, length, pc, i, num_threads, rem_num>>
  BY DEF merge_sections, rounds
<1>5. DataInv' /\ TablesInv'
  BY <1>1, <1>4, TablesStay DEF InMap, InMerge
<1>6. ControlInv'
  BY <1>4, Still DEF IInv, ControlInv, InMerge, InSort
<1>7. ThreadsInv'
  <2>1. DOMAIN thr' = Procs' /\ Procs' = Procs
    BY <1>2, <1>4, ControlTypes, Still
  <2>2. ASSUME NEW u \in Procs PROVE ThreadInv(u)'
    <3>1. ThreadInv(u)
      BY DEF IInv, ThreadsInv
    <3>2. pc \in {"create_merge", "join_merge"}
      BY <1>1 DEF InMerge
    <3>3. CASE u = t
      <4>1. thr'[u] = y
        BY <1>2, <3>3, ControlTypes
      <4>2. Merging(thr[u])' \/ Merged(thr[u])'
        BY <1>3, <1>4, <4>1, Still
      <4> QED BY <1>1, <1>4, <3>2, <3>3, <4>2 DEF ThreadInv, InMap
    <3>4. CASE u # t
      <4>1. thr'[u] = thr[u]
        BY <1>2, <3>4, ControlTypes
      <4>2. Merging(thr[u]) \/ Merged(thr[u]) => Merging(thr[u])' \/ Merged(thr[u])'
        BY <1>4, <4>1, Still
      <4> QED BY <1>4, <3>1, <3>2, <4>1, <4>2 DEF ThreadInv, InMap
    <3> QED BY <3>3, <3>4
  <2> QED BY <2>1, <2>2 DEF ThreadsInv
<1> QED BY <1>5, <1>6, <1>7 DEF IInv

\* The main thread joins a counting thread, and starts the rounds of merges.
LEMMA JoinMapInv == IInv /\ JoinMap => IInv'
<1> SUFFICES ASSUME IInv, JoinMap PROVE IInv'
  OBVIOUS
<1>1. /\ pc = "join_map" /\ thr[i].at = "ended"
      /\ UNCHANGED <<file, num_procs, data, fpos, words, length, thr>>
  BY DEF JoinMap, Joined
<1>2. \/ /\ i + 1 < num_procs /\ pc' = pc /\ i' = i + 1
         /\ num_threads' = num_threads /\ rem_num' = rem_num
      \/ /\ i + 1 >= num_procs /\ i' = 0
         /\ num_threads' = num_procs \div 2 /\ rem_num' = num_procs % 2
         /\ pc' = IF num_threads' > 0 THEN "create_merge" ELSE "sort"
  BY ControlTypes DEF JoinMap, rounds
<1>3. /\ num_procs \in Nat \ {0} /\ Procs = 0..(num_procs - 1) /\ i \in 0..(num_procs - 1)
      /\ DOMAIN thr = Procs
  BY ControlTypes
<1>4. num_threads = 0
  BY <1>1 DEF IInv, ControlInv, InMerge, InSort
<1>5. \A t \in Procs : /\ t < i => thr[t].at = "ended"
                       /\ thr[t].at = "ended" \/ Reading(thr[t])
  BY <1>1 DEF IInv, ThreadsInv, ThreadInv, InMap
<1>6. DataInv' /\ TablesInv'
  BY <1>1, TablesStay DEF InMap
<1>7. /\ i' \in Procs' /\ rem_num' \in {0, 1} /\ num_threads' \in 0..num_procs
      /\ pc' = "create_merge" => i' < num_threads' /\ 2 * num_threads' + rem_num' <= num_procs
      /\ pc' \in {"join_map", "create_merge", "sort"}
      /\ pc' # "create_merge" => num_threads' = 0
  <2>1. Procs' = Procs
    BY <1>1, Still
  <2>2. rem_num \in {0, 1}
    BY ControlTypes
  <2>3. CASE pc' = pc
    BY <1>1, <1>2, <1>3, <1>4, <2>1, <2>2, <2>3
  <2>4. CASE pc' # pc
    BY <1>1, <1>2, <1>3, <1>4, <2>1, <2>2, <2>4
  <2> QED BY <2>3, <2>4
<1>8. ControlInv'
  <2>1. num_procs' \in 1..MaxProcs /\ fpos' \in 0..flen'
    BY <1>1, Still, ControlTypes
  <2>2. fpos' = 0 \/ fpos' = flen' \/ ~InsideWord(Char(fpos)')
    BY <1>1, Still DEF IInv, ControlInv
  <2> QED BY <1>1, <1>7, <2>1, <2>2 DEF ControlInv, InMerge, InSort
<1>9. ThreadsInv'
  <2>1. DOMAIN thr' = Procs' /\ Procs' = Procs
    BY <1>1, <1>3, Still
  <2>2. ASSUME NEW t \in Procs PROVE ThreadInv(t)'
    <3>1. CASE pc' = "join_map"
      <4>1. i' = i + 1
        BY <1>2, <3>1
      <4>2. t < i' => thr[t].at = "ended"
        BY <1>1, <1>3, <1>5, <4>1
      <4>3. Reading(thr[t]) => Reading(thr[t])'
        BY <1>1, TablesKept DEF IInv, Write
      <4> QED BY <1>1, <1>5, <3>1, <4>2, <4>3 DEF ThreadInv, InMap
    <3>2. CASE pc' # "join_map"
      <4>1. i + 1 >= num_procs
        BY <1>1, <1>2, <3>2
      <4>2. thr[t].at = "ended"
        <5>1. t < i \/ t = i
          BY <1>3, <4>1
        <5> QED BY <1>1, <1>5, <5>1
      <4>3. i' = 0 /\ ~(t < i')
        BY <1>1, <1>2, <1>3, <3>2
      <4> QED BY <1>1, <1>7, <3>2, <4>2, <4>3 DEF ThreadInv, InMap
    <3> QED BY <3>1, <3>2
  <2> QED BY <2>1, <2>2 DEF ThreadsInv
<1> QED BY <1>6, <1>8, <1>9 DEF IInv

\* A new thread merges two tables, and has merged nothing.
LEMMA CreateMergeInv == IInv /\ CreateMerge => IInv'
<1> SUFFICES ASSUME IInv, CreateMerge PROVE IInv'
  OBVIOUS
<1>1. PICK x : x = [at |-> "merge", data1 |-> words[2 * i], data2 |-> words[2 * i + 1],
                    out |-> <<>>]
  OBVIOUS
<1>2. /\ pc = "create_merge" /\ thr' = [thr EXCEPT ![i] = x]
      /\ IF i + 1 < num_threads THEN pc' = pc /\ i' = i + 1 ELSE pc' = "join_merge" /\ i' = 0
      /\ UNCHANGED <<file, num_procs, data, fpos, words, length, num_threads, rem_num>>
  BY <1>1 DEF CreateMerge, rounds
<1>3. /\ num_procs \in Nat \ {0} /\ Procs = 0..(num_procs - 1) /\ i \in 0..(num_procs - 1)
      /\ DOMAIN thr = Procs /\ num_threads \in 0..num_procs /\ rem_num \in {0, 1}
  BY ControlTypes
<1>4. InMerge /\ i < num_threads /\ 2 * num_threads + rem_num <= num_procs
  BY <1>2 DEF IInv, ControlInv, InMerge
<1>5. 2 * i \in Procs /\ 2 * i + 1 \in Procs
  BY <1>3, <1>4
<1>6. \A t \in Procs : Good(words[t])
  BY <1>4 DEF IInv, TablesInv, Good
<1>7. Merging(x)
  <2>1. x.data1 = words[2 * i] /\ x.data2 = words[2 * i + 1] /\ x.out = <<>>
    BY <1>1
  <2>2. Good(x.data1) /\ Good(x.data2) /\ Good(x.out)
    BY <1>5, <1>6, <2>1, EmptyTable
  <2>3. x \in Mergers
    <3>1. words[2 * i] \in Seq(Entries) /\ words[2 * i + 1] \in Seq(Entries) /\ <<>> \in Seq(Entries)
      BY <2>1, <2>2 DEF Good, Stored
    <3> QED BY <1>1, <3>1 DEF Mergers
  <2>4. Len(<<>>) = 0
    OBVIOUS
  <2> QED BY <2>1, <2>2, <2>3, <2>4 DEF Merging, AllBefore
<1>8. DataInv' /\ TablesInv'
  BY <1>2, <1>4, TablesStay DEF InMap
<1>9. pc' \in {"create_merge", "join_merge"} /\ i' < num_threads /\ i' \in Procs
  BY <1>2, <1>3, <1>4
<1>10. ControlInv'
  <2>1. num_procs' \in 1..MaxProcs /\ fpos' \in 0..flen' /\ Procs' = Procs
    BY <1>2, Still, ControlTypes
  <2>2. fpos' = 0 \/ fpos' = flen' \/ ~InsideWord(Char(fpos)')
    BY <1>2, Still DEF IInv, ControlInv
  <2> QED BY <1>2, <1>3, <1>4, <1>9, <2>1, <2>2 DEF ControlInv, InMerge, InSort
<1>11. ThreadsInv'
  <2>1. DOMAIN thr' = Procs' /\ Procs' = Procs
    BY <1>2, <1>3, Still
  <2>2. ASSUME NEW t \in Procs PROVE ThreadInv(t)'
    <3>1. t < i => Merging(thr[t]) \/ Merged(thr[t])
      BY <1>2 DEF IInv, ThreadsInv, ThreadInv
    <3>2. ~(t < i) => thr[t].at = "ended"
      BY <1>2 DEF IInv, ThreadsInv, ThreadInv
    <3>3. CASE t = i
      <4>1. thr'[t] = x
        BY <1>2, <1>3, <3>3
      <4>2. Merging(thr[t])'
        BY <1>2, <1>7, <4>1, Still
      <4>3. /\ pc' = "create_merge" => t < i'
            /\ pc' = "join_merge" => t < num_threads' /\ t >= i'
        BY <1>2, <1>3, <1>4, <3>3
      <4> QED BY <1>9, <4>2, <4>3 DEF ThreadInv, InMap
    <3>4. CASE t # i
      <4>1. thr'[t] = thr[t]
        BY <1>2, <3>4, <1>3
      <4>2. Merging(thr[t]) \/ Merged(thr[t]) => Merging(thr[t])' \/ Merged(thr[t])'
        BY <1>2, <4>1, Still
      <4>3. /\ pc' = "create_merge" => (t < i' <=> t < i)
            /\ pc' = "join_merge" => (t < num_threads' /\ t >= i' <=> t < i)
        BY <1>2, <1>3, <1>4, <3>4
      <4> QED BY <1>9, <3>1, <3>2, <4>1, <4>2, <4>3 DEF ThreadInv, InMap
    <3> QED BY <3>3, <3>4
  <2> QED BY <2>1, <2>2 DEF ThreadsInv
<1> QED BY <1>8, <1>10, <1>11 DEF IInv

\* At the end of a round a table without a partner moves behind the merged ones.
LEMMA JoinMergeInv == IInv /\ JoinMerge => IInv'
<1> SUFFICES ASSUME IInv, JoinMerge PROVE IInv'
  OBVIOUS
<1>1. /\ pc = "join_merge" /\ thr[i].at = "ended"
      /\ UNCHANGED <<file, num_procs, data, fpos, length, thr>>
  BY DEF JoinMerge, Joined
<1>2. PICK joined : joined = [words EXCEPT ![i] = thr[i].out]
  OBVIOUS
<1>3. \/ /\ i + 1 < num_threads /\ words' = joined /\ pc' = pc /\ i' = i + 1
         /\ num_threads' = num_threads /\ rem_num' = rem_num
      \/ /\ i + 1 = num_threads
         /\ words' = IF rem_num = 1 THEN [joined EXCEPT ![num_threads] = words[2 * num_threads]]
                                    ELSE joined
         /\ num_threads' = (num_threads + rem_num) \div 2
         /\ rem_num' = (num_threads + rem_num) % 2
         /\ pc' = IF num_threads' > 0 THEN "create_merge" ELSE "sort"
         /\ i' = 0
  BY <1>2 DEF JoinMerge, NextRound, rounds
<1>4. /\ num_procs \in Nat \ {0} /\ Procs = 0..(num_procs - 1) /\ i \in 0..(num_procs - 1)
      /\ DOMAIN thr = Procs /\ num_threads \in 0..num_procs /\ rem_num \in {0, 1}
      /\ DOMAIN words = Procs
  BY ControlTypes
<1>5. InMerge /\ i < num_threads /\ 2 * num_threads + rem_num <= num_procs
  BY <1>1 DEF IInv, ControlInv, InMerge
<1>6. \A t \in Procs : Good(words[t])
  BY <1>5 DEF IInv, TablesInv, Good
<1>7. \A t \in Procs : IF t < num_threads /\ t >= i THEN Merging(thr[t]) \/ Merged(thr[t])
                                                    ELSE thr[t].at = "ended"
  BY <1>1 DEF IInv, ThreadsInv, ThreadInv
<1>8. Good(thr[i].out)
  <2>1. Merging(thr[i]) \/ Merged(thr[i])
    BY <1>4, <1>5, <1>7
  <2>2. ~Merging(thr[i])
    BY <1>1 DEF Merging, Mergers
  <2> QED BY <2>1, <2>2 DEF Merged
<1>9. DOMAIN joined = Procs /\ \A t \in Procs : Good(joined[t])
  BY <1>2, <1>4, <1>6, <1>8
<1>10. DOMAIN words' = Procs /\ \A t \in Procs : Good(words'[t])
  <2>1. CASE words' = joined
    BY <1>9, <2>1
  <2>2. CASE rem_num = 1 /\ words' = [joined EXCEPT ![num_threads] = words[2 * num_threads]]
    <3>1. 2 * num_threads \in Procs
      BY <1>4, <1>5, <2>2
    <3> QED BY <1>6, <1>9, <2>2, <3>1
  <2> QED BY <1>3, <2>1, <2>2
<1>11. /\ i' \in Procs /\ rem_num' \in {0, 1} /\ num_threads' \in 0..num_procs
       /\ pc' \in {"create_merge", "join_merge"} =>
             i' < num_threads' /\ 2 * num_threads' + rem_num' <= num_procs
       /\ pc' \in {"join_merge", "create_merge", "sort"}
       /\ pc' = "sort" => num_threads' = 0
  <2>1. CASE pc' = pc
    BY <1>1, <1>3, <1>4, <1>5, <2>1
  <2>2. CASE pc' # pc
    <3>1. /\ num_threads' = (num_threads + rem_num) \div 2
          /\ rem_num' = (num_threads + rem_num) % 2
          /\ pc' = IF num_threads' > 0 THEN "create_merge" ELSE "sort"
          /\ i' = 0
      BY <1>3, <2>2
    <3>2. ASSUME NEW a \in Nat
          PROVE  a \div 2 \in Nat /\ a % 2 \in {0, 1} /\ 2 * (a \div 2) + (a % 2) = a
      OBVIOUS
    <3>3. /\ num_threads' \in Nat /\ rem_num' \in {0, 1}
          /\ 2 * num_threads' + rem_num' = num_threads + rem_num
      BY <1>4, <3>1, <3>2
    <3> QED BY <1>4, <1>5, <3>1, <3>3
  <2> QED BY <2>1, <2>2
<1>12. DataInv' /\ Procs' = Procs
  BY <1>1, Still
<1>13. ControlInv'
  <2>1. num_procs' \in 1..MaxProcs /\ fpos' \in 0..flen'
    BY <1>1, Still, ControlTypes
  <2>2. fpos' = 0 \/ fpos' = flen' \/ ~InsideWord(Char(fpos)')
    BY <1>1, Still DEF IInv, ControlInv
  <2>3. InMerge' => i' < num_threads' /\ 2 * num_threads' + rem_num' <= num_procs'
    BY <1>1, <1>11 DEF InMerge
  <2> QED BY <1>1, <1>11, <1>12, <2>1, <2>2, <2>3 DEF ControlInv, InMerge, InSort
<1>14. TablesInv'
  <2>1. \A t \in Procs : Good(words[t])'
    <3>1. \A s : Good(s) => Good(s)'
      BY <1>1, Still
    <3>2. ASSUME NEW t \in Procs PROVE Good(words[t])'
      <4>1. PICK s : s = words'[t]
        OBVIOUS
      <4>2. Good(s)'
        BY <1>10, <3>1, <4>1
      <4> QED BY <4>1, <4>2
    <3> QED BY <3>2
  <2>2. Distinct(words[0])'
    <3>1. PICK s : s = words'[0]
      OBVIOUS
    <3>2. Stored(s) /\ InOrder(s)
      BY <1>4, <1>10, <3>1 DEF Good
    <3>3. Distinct(s)
      BY <3>2, StoredTexts, InOrderDistinct, ControlTypes
    <3>4. Distinct(s)'
      BY <1>1, <3>3, Still
    <3> QED BY <3>1, <3>4
  <2>3. length' \in [Procs -> Nat \ {0}] /\ DOMAIN words' = Procs'
    BY <1>1, <1>10, <1>12 DEF IInv, TablesInv
  <2>4. ~InMap'
    BY <1>11 DEF InMap
  <2> QED BY <1>12, <2>1, <2>2, <2>3, <2>4 DEF TablesInv, Good
<1>15. ThreadsInv'
  <2>1. DOMAIN thr' = Procs'
    BY <1>1, <1>4, <1>12
  <2>2. ASSUME NEW t \in Procs PROVE ThreadInv(t)'
    <3>1. Merging(thr[t]) \/ Merged(thr[t]) => Merging(thr[t])' \/ Merged(thr[t])'
      BY <1>1, Still
    <3>2. CASE pc' = pc
      <4>1. i' = i + 1 /\ num_threads' = num_threads
        BY <1>1, <1>3, <3>2
      <4>2. t < num_threads /\ t >= i' => t >= i
        BY <1>4, <4>1
      <4>3. ~(t < num_threads /\ t >= i') => t = i \/ ~(t < num_threads /\ t >= i)
        BY <1>4, <4>1
      <4> QED BY <1>1, <1>7, <3>1, <3>2, <4>1, <4>2, <4>3 DEF ThreadInv, InMap
    <3>3. CASE pc' # pc
      <4>1. i + 1 = num_threads /\ i' = 0
        BY <1>3, <3>3
      <4>2. thr[t].at = "ended"
        <5>1. t = i \/ ~(t < num_threads /\ t >= i)
          BY <1>4, <4>1
        <5> QED BY <1>1, <1>7, <5>1
      <4>3. ~(t < i') /\ pc' \in {"create_merge", "sort"}
        BY <1>1, <1>4, <1>11, <3>3, <4>1
      <4> QED BY <1>1, <4>2, <4>3 DEF ThreadInv, InMap
    <3> QED BY <3>2, <3>3
  <2> QED BY <1>12, <2>1, <2>2 DEF ThreadsInv
<1> QED BY <1>12, <1>13, <1>14, <1>15 DEF IInv

-----------------------------------------------------------------------------
(* Sorts keep the invariant. *)

\* new has the entries of s, in an order of its own.
Shuffled(new, s) ==
    /\ Len(new) = Len(s)
    /\ \E g \in [1..Len(s) -> 1..Len(s)] :
          /\ \A k \in 1..Len(s) : new[k] = s[g[k]]
          /\ \A k, l \in 1..Len(s) : k # l => g[k] # g[l]
          /\ \A l \in 1..Len(s) : \E k \in 1..Len(s) : g[k] = l

\* The first k of T sections of num_elems \div T entries leave room for one more.
LEMMA SortSections ==
    ASSUME NEW N \in Nat, NEW T \in Nat \ {0}, NEW k \in 0..(T - 1)
    PROVE  /\ N \div T \in Nat /\ k * (N \div T) \in Nat
           /\ k * (N \div T) + N \div T <= N
<1> DEFINE r == N \div T
<1>1. r \in Nat /\ r * T <= N
  BY SMTT(30)
<1> HIDE DEF r
<1>2. k * r \in Nat /\ (T - 1 - k) * r \in Nat
  BY <1>1, SMTT(30)
<1>3. r * T = k * r + r + (T - 1 - k) * r
  BY <1>1, SMTT(30)
<1> QED BY <1>1, <1>2, <1>3 DEF r

\* The first round of sorts keeps the invariant.
LEMMA SortAllInv == IInv /\ SortAll => IInv'
<1> SUFFICES ASSUME IInv, SortAll PROVE IInv'
  OBVIOUS
<1>1. /\ pc = "sort" /\ pc' = "create_sort" /\ num_threads' = num_procs
      /\ UNCHANGED <<file, num_procs, data, fpos, words, length, thr, i, rem_num>>
  BY DEF SortAll, Goto
<1>2. /\ num_procs \in Nat \ {0} /\ i \in 0..(num_procs - 1) /\ DOMAIN thr = Procs
      /\ num_procs \in 1..MaxProcs /\ fpos \in 0..flen /\ rem_num \in {0, 1}
  BY ControlTypes
<1>3. DataInv' /\ TablesInv'
  BY <1>1, TablesStay DEF InMap, InMerge
<1>4. Procs' = Procs /\ flen' = flen
  BY <1>1, Still
<1>5. ControlInv'
  <2>1. fpos' = 0 \/ fpos' = flen' \/ ~InsideWord(Char(fpos)')
    BY <1>1, Still DEF IInv, ControlInv
  <2>2. i \in Procs
    BY DEF IInv, ControlInv
  <2> QED BY <1>1, <1>2, <1>4, <2>1, <2>2 DEF ControlInv, InMerge, InSort
<1>6. ThreadsInv'
  <2>1. \A t \in Procs : thr[t].at = "ended"
    BY <1>1 DEF IInv, ThreadsInv, ThreadInv
  <2>2. \A t \in Procs : ThreadInv(t)'
    BY <1>1, <2>1 DEF ThreadInv, InMap
  <2> QED BY <1>1, <1>2, <1>4, <2>2 DEF ThreadsInv
<1> QED BY <1>3, <1>5, <1>6 DEF IInv

\* A new thread sorts a section within the table.
LEMMA CreateSortInv == IInv /\ CreateSort => IInv'
<1> SUFFICES ASSUME IInv, CreateSort PROVE IInv'
  OBVIOUS
<1>1. PICK N : N = Len(words[0])
  OBVIOUS
<1>2. PICK x : x = [at |-> "sort", base |-> i * (N \div num_threads),
                    num_elems |-> IF i = num_threads - 1 THEN N - i * (N \div num_threads)
                                                         ELSE N \div num_threads]
  OBVIOUS
<1>3. /\ pc = "create_sort" /\ thr' = [thr EXCEPT ![i] = x]
      /\ IF i + 1 < num_threads THEN pc' = pc /\ i' = i + 1 ELSE pc' = "join_sort" /\ i' = 0
      /\ UNCHANGED <<file, num_procs, data, fpos, words, length, num_threads, rem_num>>
  BY <1>1, <1>2 DEF CreateSort, rounds
<1>4. /\ num_procs \in Nat \ {0} /\ Procs = 0..(num_procs - 1) /\ i \in 0..(num_procs - 1)
      /\ DOMAIN thr = Procs /\ num_threads \in 0..num_procs /\ rem_num \in {0, 1}
      /\ num_procs \in 1..MaxProcs /\ fpos \in 0..flen
  BY ControlTypes
<1>5. i < num_threads
  BY <1>3 DEF IInv, ControlInv, InSort
<1>6. N \in Nat
  <2>1. Stored(words[0])
    BY <1>4 DEF IInv, TablesInv
  <2> QED BY <1>1, <2>1 DEF Stored
<1>7. Sorting(x)
  <2>1. PICK r, c : r = N \div num_threads /\ c = i * (N \div num_threads)
    OBVIOUS
  <2>2. r \in Nat /\ c \in Nat /\ c + r <= N
    <3>1. num_threads \in Nat \ {0} /\ i \in 0..(num_threads - 1)
      BY <1>4, <1>5
    <3> QED BY <1>6, <2>1, <3>1, SortSections
  <2>3. x = [at |-> "sort", base |-> c,
             num_elems |-> IF i = num_threads - 1 THEN N - c ELSE r]
    BY <1>2, <2>1
  <2>4. x.at = "sort" /\ x.base = c /\ (x.num_elems = N - c \/ x.num_elems = r)
    BY <2>3
  <2> QED BY <1>1, <1>6, <2>2, <2>4 DEF Sorting
<1>8. DataInv' /\ TablesInv'
  BY <1>3, TablesStay DEF InMap, InMerge
<1>9. pc' \in {"create_sort", "join_sort"} /\ i' < num_threads /\ i' \in Procs
  BY <1>3, <1>4, <1>5
<1>10. Procs' = Procs /\ flen' = flen
  BY <1>3, Still
<1>11. ControlInv'
  <2>1. fpos' = 0 \/ fpos' = flen' \/ ~InsideWord(Char(fpos)')
    BY <1>3, Still DEF IInv, ControlInv
  <2> QED BY <1>3, <1>4, <1>9, <1>10, <2>1 DEF ControlInv, InMerge, InSort
<1>12. ThreadsInv'
  <2>1. DOMAIN thr' = Procs'
    BY <1>3, <1>4, <1>10
  <2>2. ASSUME NEW t \in Procs PROVE ThreadInv(t)'
    <3>1. thr[t].at = "ended" \/ (t < i /\ Sorting(thr[t]))
      BY <1>3 DEF IInv, ThreadsInv, ThreadInv
    <3>2. CASE t = i
      <4>1. thr'[t] = x
        BY <1>3, <1>4, <3>2
      <4>2. Sorting(thr[t])'
        BY <1>3, <1>7, <4>1 DEF Sorting
      <4>3. /\ pc' = "create_sort" => t < i'
            /\ pc' = "join_sort" => t < num_threads' /\ t >= i'
        BY <1>3, <1>4, <1>5, <3>2
      <4> QED BY <1>9, <4>2, <4>3 DEF ThreadInv, InMap
    <3>3. CASE t # i
      <4>1. thr'[t] = thr[t]
        BY <1>3, <1>4, <3>3
      <4>2. Sorting(thr[t]) => Sorting(thr[t])'
        BY <1>3, <4>1 DEF Sorting
      <4>3. t < i => /\ pc' = "create_sort" => t < i'
                     /\ pc' = "join_sort" => t < num_threads' /\ t >= i'
        BY <1>3, <1>4, <1>5
      <4> QED BY <1>9, <3>1, <4>1, <4>2, <4>3 DEF ThreadInv, InMap
    <3> QED BY <3>2, <3>3
  <2> QED BY <1>10, <2>1, <2>2 DEF ThreadsInv
<1> QED BY <1>8, <1>11, <1>12 DEF IInv

\* The thread sorts a part of the table.
LEMMA SortingThread ==
    ASSUME IInv, NEW t \in Procs, thr[t].at = "sort"
    PROVE  /\ Sorting(thr[t]) /\ InSort /\ ~InMap /\ ~InMerge
           /\ pc = "create_sort" => t < i
           /\ pc = "join_sort" => t < num_threads /\ t >= i
<1>1. ThreadInv(t)
  BY DEF IInv, ThreadsInv
<1>2. ~Reading(thr[t]) /\ ~Merged(thr[t]) /\ ~Merging(thr[t])
  BY DEF Reading, Merged, Merging, Mergers
<1>3. pc \in {"split", "join_map", "create_merge", "join_merge", "sort", "create_sort",
              "join_sort", "done"}
  BY DEF IInv, ControlInv
<1>4. pc \in {"create_sort", "join_sort"}
  BY <1>1, <1>2, <1>3 DEF ThreadInv, InMap
<1> QED BY <1>1, <1>2, <1>4 DEF ThreadInv, InMap, InMerge, InSort

\* What a thread makes of the table: its part is sorted, and the rest stays.
LEMMA SortStep ==
    ASSUME IInv, NEW t \in Procs, sort_section(t)
    PROVE  /\ DOMAIN words' = Procs /\ Shuffled(words'[0], words[0])
           /\ words'[0] \in Seq(Entries)
           /\ \A u \in Procs : u # 0 => words'[u] = words[u]
           /\ \A k, l \in (thr[t].base + 1)..(thr[t].base + thr[t].num_elems) :
                 k < l => words'[0][k].count >= words'[0][l].count
<1> DEFINE part == (thr[t].base + 1)..(thr[t].base + thr[t].num_elems)
           s == words[0]
           new == words'[0]
<1>4. Sorting(thr[t]) /\ DOMAIN words = Procs /\ 0 \in Procs /\ FileInv
  <2>1. Sorting(thr[t])
    BY SortingThread DEF sort_section
  <2> QED BY <2>1, ControlTypes
<1>5. s \in Seq(Entries) /\ Len(s) \in Nat /\ DOMAIN s = 1..Len(s)
  <2>1. Stored(s)
    BY <1>4 DEF IInv, TablesInv
  <2> QED BY <1>4, <2>1, StoredTexts
<1>6. part \subseteq 1..Len(s)
  BY <1>4, <1>5 DEF Sorting
<1>7. PICK perm \in Bijection(part, part) :
         /\ \A k, l \in part : k < l => s[perm[k]].count >= s[perm[l]].count
         /\ words' = [words EXCEPT ![0] = [k \in DOMAIN s |-> IF k \in part THEN s[perm[k]]
                                                                           ELSE s[k]]]
  BY DEF sort_section
<1> HIDE DEF part, s
<1>8. /\ perm \in [part -> part] /\ \A k, l \in part : perm[k] = perm[l] => k = l
      /\ \A l \in part : \E k \in part : perm[k] = l
  BY DEF Bijection, Injection, Surjection, IsInjective
<1>9. /\ DOMAIN words' = Procs /\ \A u \in Procs : u # 0 => words'[u] = words[u]
      /\ new = [k \in 1..Len(s) |-> IF k \in part THEN s[perm[k]] ELSE s[k]]
  BY <1>4, <1>5, <1>7
<1> HIDE DEF new
<1>10. PICK g : g = [k \in 1..Len(s) |-> IF k \in part THEN perm[k] ELSE k]
  OBVIOUS
<1>11. /\ g \in [1..Len(s) -> 1..Len(s)]
       /\ \A k \in 1..Len(s) : g[k] = IF k \in part THEN perm[k] ELSE k
  BY <1>6, <1>8, <1>10
<1>12. \A k \in 1..Len(s) : new[k] = s[g[k]]
  BY <1>9, <1>11
<1>13. \A k, l \in 1..Len(s) : k # l => g[k] # g[l]
  BY <1>8, <1>11
<1>14. \A l \in 1..Len(s) : \E k \in 1..Len(s) : g[k] = l
  <2> SUFFICES ASSUME NEW l \in 1..Len(s) PROVE \E k \in 1..Len(s) : g[k] = l
    OBVIOUS
  <2>1. CASE l \in part
    <3>1. PICK k \in part : perm[k] = l
      BY <1>8, <2>1
    <3> QED BY <1>6, <1>11, <3>1
  <2>2. CASE l \notin part
    BY <1>11, <2>2
  <2> QED BY <2>1, <2>2
<1>15. new \in Seq(Entries) /\ Len(new) = Len(s)
  <2>1. \A k \in 1..Len(s) : s[k] \in Entries
    BY <1>5, ElementOfSeq
  <2>2. new = [k \in 1..Len(s) |-> s[g[k]]] /\ \A k \in 1..Len(s) : s[g[k]] \in Entries
    BY <1>9, <1>11, <2>1
  <2>3. [k \in 1..Len(s) |-> s[g[k]]] \in Seq(Entries)
    BY <1>5, <2>2, IsASeq
  <2>4. Len([k \in 1..Len(s) |-> s[g[k]]]) = Len(s)
    BY <1>5, <2>3
  <2> QED BY <2>2, <2>3, <2>4
<1>16. Shuffled(new, s)
  BY <1>11, <1>12, <1>13, <1>14, <1>15 DEF Shuffled
<1>17. \A k, l \in part : k < l => new[k].count >= new[l].count
  BY <1>6, <1>7, <1>9
<1> QED BY <1>9, <1>15, <1>16, <1>17 DEF part, s, new

\* A sorted section has the entries it had, so the invariant holds.
LEMMA SortStepInv == \A t \in Procs : IInv /\ sort_section(t) => IInv'
<1> SUFFICES ASSUME NEW t \in Procs, IInv, sort_section(t) PROVE IInv'
  OBVIOUS
<1>1. /\ thr[t].at = "sort"
      /\ thr' = [thr EXCEPT ![t] = [at |-> "ended"]]
      /\ UNCHANGED <<file, num_procs, data, fpos, length, pc, i, num_threads, rem_num>>
  BY DEF sort_section, rounds
<1>2. /\ InSort /\ ~InMap /\ ~InMerge
      /\ pc = "create_sort" => t < i
      /\ pc = "join_sort" => t < num_threads /\ t >= i
  BY <1>1, SortingThread
<1>3. PICK s, new : s = words[0] /\ new = words'[0]
  OBVIOUS
<1>4. /\ DOMAIN words' = Procs /\ Shuffled(new, s) /\ new \in Seq(Entries)
      /\ \A u \in Procs : u # 0 => words'[u] = words[u]
  BY <1>3, SortStep
<1>5. DataInv' /\ Procs' = Procs /\ 0 \in Procs /\ DOMAIN thr = Procs
  BY <1>1, Still, ControlTypes
<1>6. Stored(s) /\ Distinct(s)
  BY <1>3, <1>5 DEF IInv, TablesInv
<1>7. PICK g \in [1..Len(s) -> 1..Len(s)] :
         /\ \A k \in 1..Len(s) : new[k] = s[g[k]]
         /\ \A k, l \in 1..Len(s) : k # l => g[k] # g[l]
  BY <1>4 DEF Shuffled
<1>8. Len(new) = Len(s)
  BY <1>4 DEF Shuffled
<1>9. Stored(new) /\ Distinct(new)
  <2>1. \A k \in 1..Len(s) : Whole(new[k].word)
    BY <1>6, <1>7 DEF Stored
  <2>2. Stored(new)
    BY <1>4, <1>8, <2>1 DEF Stored
  <2>3. ASSUME NEW k \in 1..Len(s), NEW l \in 1..Len(s), k # l PROVE Key(new[k]) # Key(new[l])
    <3>1. g[k] # g[l] /\ g[k] \in 1..Len(s) /\ g[l] \in 1..Len(s)
      BY <1>7, <2>3
    <3> QED BY <1>6, <1>7, <3>1 DEF Distinct
  <2> QED BY <1>8, <2>2, <2>3 DEF Distinct
<1>10. TablesInv'
  <2>1. Stored(words[0])' /\ Distinct(words[0])'
    <3>1. Stored(new)' /\ Distinct(new)'
      BY <1>1, <1>9, Still
    <3> QED BY <1>3, <3>1
  <2>2. ASSUME NEW u \in Procs, u # 0 PROVE Stored(words[u])'
    <3>1. PICK r : r = words[u]
      OBVIOUS
    <3>2. Stored(r)'
      BY <1>1, <3>1, Still DEF IInv, TablesInv
    <3>3. words'[u] = r
      BY <1>4, <2>2, <3>1
    <3> QED BY <3>2, <3>3
  <2>3. ~InMap' /\ ~InMerge'
    BY <1>1, <1>2 DEF InMap, InMerge
  <2>4. length' \in [Procs -> Nat \ {0}]
    BY <1>1 DEF IInv, TablesInv
  <2> QED BY <1>4, <1>5, <2>1, <2>2, <2>3, <2>4 DEF TablesInv
<1>11. ControlInv'
  BY <1>1, Still DEF IInv, ControlInv, InMerge, InSort
<1>12. ThreadsInv'
  <2>1. DOMAIN thr' = Procs'
    BY <1>1, <1>5
  <2>2. ASSUME NEW u \in Procs PROVE ThreadInv(u)'
    <3>1. ThreadInv(u) /\ pc \in {"create_sort", "join_sort"}
      BY <1>2 DEF IInv, ThreadsInv, InSort
    <3>2. CASE u = t
      <4>1. thr'[u].at = "ended"
        BY <1>1, <1>5, <3>2
      <4> QED BY <1>1, <3>1, <4>1 DEF ThreadInv, InMap
    <3>3. CASE u # t
      <4>1. thr'[u] = thr[u]
        BY <1>1, <1>5, <3>3
      <4>2. Len(words[0])' = Len(words[0])
        BY <1>3, <1>8
      <4>3. Sorting(thr[u]) => Sorting(thr[u])'
        BY <4>1, <4>2 DEF Sorting
      <4> QED BY <1>1, <3>1, <4>1, <4>3 DEF ThreadInv, InMap
    <3> QED BY <3>2, <3>3
  <2> QED BY <1>5, <2>1, <2>2 DEF ThreadsInv
<1> QED BY <1>5, <1>10, <1>11, <1>12 DEF IInv

\* Half as many threads sort in the next round.
LEMMA JoinSortInv == IInv /\ JoinSort => IInv'
<1> SUFFICES ASSUME IInv, JoinSort PROVE IInv'
  OBVIOUS
<1>1. /\ pc = "join_sort" /\ thr[i].at = "ended"
      /\ UNCHANGED <<file, num_procs, data, fpos, words, length, thr, rem_num>>
  BY DEF JoinSort, Joined
<1>2. \/ i + 1 < num_threads /\ pc' = pc /\ i' = i + 1 /\ num_threads' = num_threads
      \/ /\ i + 1 >= num_threads /\ num_threads' = num_threads \div 2 /\ i' = 0
         /\ pc' = IF num_threads' > 0 THEN "create_sort" ELSE "done"
  BY ControlTypes DEF JoinSort, FewerThreads
<1>3. /\ num_procs \in Nat \ {0} /\ Procs = 0..(num_procs - 1) /\ i \in 0..(num_procs - 1)
      /\ DOMAIN thr = Procs /\ num_threads \in 0..num_procs /\ rem_num \in {0, 1}
      /\ num_procs \in 1..MaxProcs /\ fpos \in 0..flen
  BY ControlTypes
<1>4. i < num_threads
  BY <1>1 DEF IInv, ControlInv, InSort
<1>5. DataInv' /\ TablesInv'
  <2>1. ~InMap' /\ ~InMerge'
    BY <1>1, <1>2 DEF InMap, InMerge
  <2> QED BY <1>1, <2>1, TablesStay
<1>6. /\ i' \in Procs /\ num_threads' \in 0..num_procs
      /\ pc' \in {"join_sort", "create_sort"} => i' < num_threads'
      /\ pc' \in {"join_sort", "create_sort", "done"}
      /\ pc' = "done" => num_threads' = 0
  <2>1. CASE pc' = pc
    BY <1>1, <1>2, <1>3, <1>4, <2>1
  <2>2. CASE pc' # pc
    <3>1. num_threads' = num_threads \div 2 /\ num_threads \in Nat
      BY <1>2, <1>3, <2>2
    <3>2. num_threads' \in Nat /\ num_threads' <= num_threads
      BY <3>1
    <3> QED BY <1>1, <1>2, <1>3, <2>2, <3>2
  <2> QED BY <2>1, <2>2
<1>7. Procs' = Procs /\ flen' = flen
  BY <1>1, Still
<1>8. ControlInv'
  <2>1. fpos' = 0 \/ fpos' = flen' \/ ~InsideWord(Char(fpos)')
    BY <1>1, Still DEF IInv, ControlInv
  <2> QED BY <1>1, <1>3, <1>6, <1>7, <2>1 DEF ControlInv, InMerge, InSort
<1>9. ThreadsInv'
  <2>1. DOMAIN thr' = Procs'
    BY <1>1, <1>3, <1>7
  <2>2. ASSUME NEW t \in Procs PROVE ThreadInv(t)'
    <3>1. thr[t].at = "ended" \/ (t < num_threads /\ t >= i /\ Sorting(thr[t]))
      BY <1>1 DEF IInv, ThreadsInv, ThreadInv
    <3>2. Sorting(thr[t]) => Sorting(thr[t])'
      BY <1>1 DEF Sorting
    <3>3. CASE pc' = pc
      <4>1. i' = i + 1 /\ num_threads' = num_threads
        BY <1>1, <1>2, <3>3
      <4>2. thr[t].at = "ended" \/ t >= i'
        <5>1. t >= i => t = i \/ t >= i'
          BY <1>3, <4>1
        <5> QED BY <1>1, <3>1, <5>1
      <4> QED BY <1>1, <3>1, <3>2, <3>3, <4>1, <4>2 DEF ThreadInv, InMap
    <3>4. CASE pc' # pc
      <4>1. i + 1 >= num_threads
        BY <1>2, <3>4
      <4>2. thr[t].at = "ended"
        <5>1. t < num_threads /\ t >= i => t = i
          BY <1>3, <4>1
        <5> QED BY <1>1, <3>1, <5>1
      <4> QED BY <1>1, <1>6, <3>4, <4>2 DEF ThreadInv, InMap
    <3> QED BY <3>3, <3>4
  <2> QED BY <1>7, <2>1, <2>2 DEF ThreadsInv
<1> QED BY <1>5, <1>8, <1>9 DEF IInv

-----------------------------------------------------------------------------
(* The invariant, and what follows from it. *)

LEMMA StutterInv == IInv /\ UNCHANGED vars => IInv'
<1> SUFFICES ASSUME IInv, UNCHANGED vars PROVE IInv'
  OBVIOUS
<1>1. UNCHANGED <<file, num_procs, data, fpos, words, length, thr, pc, i, num_threads, rem_num>>
  BY DEF vars, rounds
<1>2. DataInv' /\ TablesInv'
  BY <1>1, TablesStay DEF InMap, InMerge
<1>3. Procs' = Procs
  BY <1>1, Still
<1>4. ControlInv'
  BY <1>1, Still DEF IInv, ControlInv, InMerge, InSort
<1>5. ASSUME NEW t \in Procs PROVE ThreadInv(t)'
  <2>1. ThreadInv(t)
    BY DEF IInv, ThreadsInv
  <2>2. PICK x : x = thr[t]
    OBVIOUS
  <2>3. /\ Reading(x) => Reading(x)'
        /\ Merging(x) => Merging(x)'
        /\ Merged(x) => Merged(x)'
        /\ Sorting(x) => Sorting(x)'
    <3>1. DataInv /\ Write
      BY <1>1 DEF IInv, Write
    <3>2. Sorting(x) => Sorting(x)'
      BY <1>1 DEF Sorting
    <3> QED BY <1>1, <3>1, <3>2, TablesKept
  <2>4. thr'[t] = x
    BY <1>1, <2>2
  <2> QED BY <1>1, <2>1, <2>2, <2>3, <2>4 DEF ThreadInv, InMap
<1> QED BY <1>1, <1>2, <1>3, <1>4, <1>5 DEF IInv, ThreadsInv

\* No step breaks the invariant.
LEMMA NextInv == IInv /\ [Next]_vars => IInv'
<1> SUFFICES ASSUME IInv, [Next]_vars PROVE IInv'
  OBVIOUS
<1>1. CASE Main
  BY <1>1, SplitInv, JoinMapInv, CreateMergeInv, JoinMergeInv, SortAllInv, CreateSortInv,
     JoinSortInv DEF Main
<1>2. ASSUME NEW t \in Procs, Thread(t) PROVE IInv'
  BY <1>2, MapInv, MergeStepInv, SortStepInv DEF Thread
<1>3. CASE Finished \/ UNCHANGED vars
  BY <1>3, StutterInv DEF Finished
<1> QED BY <1>1, <1>2, <1>3 DEF Next

\* The invariant holds in every state.
LEMMA SpecInv == Spec => []IInv
BY InitInv, NextInv, PTL DEF Spec

TablesAFunction == words = [t \in DOMAIN words |-> words[t]]

\* The result of an EXCEPT is a function.
LEMMA ExceptAFunction ==
    ASSUME NEW f, NEW a, NEW b, NEW g, g = [f EXCEPT ![a] = b]
    PROVE  g = [x \in DOMAIN g |-> g[x]]
OBVIOUS

\* The tables remain a function, which the type of words states.
LEMMA TablesStayAFunction == IInv /\ TablesAFunction /\ [Next]_vars => TablesAFunction'
<1> SUFFICES ASSUME TablesAFunction, [Next]_vars PROVE TablesAFunction'
  OBVIOUS
<1>1. words' = words \/ \E f, a, b : words' = [f EXCEPT ![a] = b]
  <2>1. CASE Main
    <3>1. CASE JoinMerge
      <4>1. \/ words' = [words EXCEPT ![i] = thr[i].out]
            \/ words' = [[words EXCEPT ![i] = thr[i].out] EXCEPT ![num_threads] = words[2 * num_threads]]
        BY <3>1 DEF JoinMerge
      <4> QED BY <4>1
    <3>2. CASE ~JoinMerge
      BY <2>1, <3>2 DEF Main, Split, JoinMap, CreateMerge, SortAll, CreateSort, JoinSort
    <3> QED BY <3>1, <3>2
  <2>2. ASSUME NEW t \in Procs, wordcount_map(t) PROVE words' = words \/ \E f, a, b : words' = [f EXCEPT ![a] = b]
    <3>1. CASE words' # words
      <4>1. wordcount_reduce(t, thr[t].curr_start)
        BY <2>2, <3>1 DEF wordcount_map, StartWord, Skip, ExtendWord, EndWord, LastWord
      <4>2. words' = [words EXCEPT ![t] = Added(words[t], TextIn(data', thr[t].curr_start), thr[t].curr_start)]
        BY <4>1 DEF wordcount_reduce
      <4> QED BY <4>2
    <3> QED BY <3>1
  <2>3. ASSUME NEW t \in Procs, merge_sections(t) PROVE words' = words
    BY <2>3 DEF merge_sections
  <2>4. ASSUME NEW t \in Procs, sort_section(t)
        PROVE  \E f, a, b : words' = [f EXCEPT ![a] = b]
    BY <2>4 DEF sort_section
  <2>5. CASE Finished \/ UNCHANGED vars
    BY <2>5 DEF Finished, vars
  <2> QED BY <2>1, <2>2, <2>3, <2>4, <2>5 DEF Next, Thread
<1>2. CASE words' = words
  BY <1>2 DEF TablesAFunction
<1>3. ASSUME NEW f, NEW a, NEW b, words' = [f EXCEPT ![a] = b] PROVE TablesAFunction'
  <2>1. PICK g : g = words'
    OBVIOUS
  <2> QED BY <1>3, <2>1, ExceptAFunction DEF TablesAFunction
<1> QED BY <1>1, <1>2, <1>3

\* What wordcount_splitter, wordcount_map, merge_sections and sort_pthreads work on has
\* its type: places in the mapping, entries with a count, tables within the sections of
\* a sort.
THEOREM TypeCorrect == Spec => []TypeOK
<1>1. IInv /\ TablesAFunction => TypeOK
  <2> SUFFICES ASSUME IInv, TablesAFunction PROVE TypeOK
    OBVIOUS
  <2>1. DataInv /\ ControlInv /\ ThreadsInv /\ TablesInv
    BY DEF IInv
  <2>2. data \in [0..flen -> 0..127] /\ data[flen] = 0
    BY <2>1 DEF DataInv
  <2>3. words \in [Procs -> Seq(Entries)]
    <3>1. DOMAIN words = Procs /\ \A t \in Procs : words[t] \in Seq(Entries)
      BY <2>1 DEF TablesInv, Stored
    <3> QED BY <3>1 DEF TablesAFunction
  <2>4. ASSUME NEW t \in Procs
        PROVE  \/ thr[t].at = "map" /\ thr[t].i \in 0..thr[t].length
               \/ thr[t].at = "merge" /\ \A k \in {"data1", "data2", "out"} : thr[t][k] \in Seq(Entries)
               \/ thr[t].at = "sort" /\ thr[t].base + thr[t].num_elems \in 0..Len(words[0])
               \/ thr[t].at = "ended"
    <3>1. ThreadInv(t)
      BY <2>1 DEF ThreadsInv
    <3>2. thr[t].at = "ended" \/ Reading(thr[t]) \/ Merging(thr[t]) \/ Merged(thr[t])
          \/ Sorting(thr[t])
      BY <2>1, <3>1 DEF ThreadInv, InMap, ControlInv
    <3>3. CASE Reading(thr[t])
      <4>1. thr[t].at = "map" /\ thr[t].i \in 0..flen /\ thr[t].length \in 0..flen
            /\ thr[t].i <= thr[t].length
        BY <3>3 DEF Reading
      <4>2. flen \in Nat
        BY ControlTypes
      <4> QED BY <4>1, <4>2
    <3>4. CASE Merging(thr[t])
      BY <3>4 DEF Merging, Mergers
    <3>5. CASE Sorting(thr[t])
      <4>1. Stored(words[0])
        BY <2>1, ControlTypes DEF TablesInv
      <4>2. Len(words[0]) \in Nat
        BY <4>1 DEF Stored
      <4> QED BY <3>5, <4>2 DEF Sorting
    <3> QED BY <3>2, <3>3, <3>4, <3>5 DEF Merged
  <2>5. length \in [Procs -> Nat \ {0}]
    BY <2>1 DEF TablesInv
  <2> QED BY <2>1, <2>2, <2>3, <2>4, <2>5 DEF TypeOK, ControlInv
<1>2. Init => TablesAFunction
  BY DEF Init, TablesAFunction
<1> QED BY <1>1, <1>2, InitInv, NextInv, TablesStayAFunction, PTL DEF Spec

\* The table of a section points into the file, which other threads write to: the 0 that
\* ends the last word of a section is on the first character of the next one, and is read
\* or written by the thread of that section as well.  No word of a table is damaged, for
\* sections cut behind words end where no word of the file goes on.
THEOREM Intact == Spec => []WordsIntact
<1>1. IInv => WordsIntact
  <2> SUFFICES ASSUME IInv, NEW t \in Procs, NEW k \in DOMAIN words[t]
               PROVE  /\ words[t][k].word \in WordStarts
                      /\ Text(words[t][k].word) = FileWord(words[t][k].word)
    BY DEF WordsIntact
  <2>1. FileInv /\ Stored(words[t])
    BY DEF IInv, DataInv, TablesInv
  <2> QED BY <2>1, StoredTexts DEF Key
<1> QED BY <1>1, SpecInv, PTL

\* The tables that wordcount_reduce searches and merge_sections merges are in the order
\* of strcmp, without a word twice, and no insertion finds a table without room.
THEOREM Tables == Spec => []TablesOK
<1>1. IInv => TablesOK
  <2> SUFFICES ASSUME IInv, pc \in {"split", "join_map", "create_merge", "join_merge"},
                      NEW t \in Procs
               PROVE  /\ \A k, l \in DOMAIN words[t] :
                            k < l => Before(Text(words[t][k].word), Text(words[t][l].word))
                      /\ pc \in {"split", "join_map"} => Len(words[t]) < length[t]
    BY DEF TablesOK
  <2>1. FileInv /\ Stored(words[t]) /\ InOrder(words[t])
    BY DEF IInv, DataInv, TablesInv, InMap, InMerge
  <2>2. /\ DOMAIN words[t] = 1..Len(words[t])
        /\ \A k \in 1..Len(words[t]) : Text(words[t][k].word) = Key(words[t][k])
    BY <2>1, StoredTexts
  <2>3. pc \in {"split", "join_map"} => Len(words[t]) < length[t]
    BY DEF IInv, TablesInv, InMap
  <2> QED BY <2>1, <2>2, <2>3 DEF InOrder
<1> QED BY <1>1, SpecInv, PTL

\* What the last round of the sort needs and gives.
LEMMA SortInvInit == Init => SortInv
BY DEF Init, SortInv, InSort

\* The last round of sorts is one thread that sorts the whole table.
LEMMA SortInvNext == IInv /\ SortInv /\ [Next]_vars => SortInv'
<1> SUFFICES ASSUME IInv, SortInv, [Next]_vars PROVE SortInv'
  OBVIOUS
<1>1. IInv'
  BY NextInv
<1>2. /\ num_procs \in Nat \ {0} /\ Procs = 0..(num_procs - 1) /\ i \in 0..(num_procs - 1)
      /\ DOMAIN thr = Procs /\ DOMAIN words = Procs /\ num_threads \in 0..num_procs
  BY ControlTypes
<1>3. CASE Split \/ JoinMap \/ CreateMerge \/ JoinMerge
  <2>1. pc' \in {"split", "join_map", "create_merge", "join_merge", "sort"}
    BY <1>3 DEF Split, JoinMap, CreateMerge, JoinMerge
  <2> QED BY <2>1 DEF SortInv, InSort
<1>4. CASE SortAll
  <2>1. pc' = "create_sort" /\ pc = "sort" /\ thr' = thr
    BY <1>4 DEF SortAll, Goto
  <2>2. thr[0].at = "ended"
    BY <1>2, <2>1 DEF IInv, ThreadsInv, ThreadInv
  <2> QED BY <2>1, <2>2 DEF SortInv, InSort
<1>5. CASE CreateSort
  <2>1. /\ pc = "create_sort" /\ pc' \in {"create_sort", "join_sort"}
        /\ num_threads' = num_threads /\ words' = words /\ i < num_threads
    BY <1>5 DEF CreateSort, rounds, IInv, ControlInv, InSort
  <2>2. CASE num_threads = 1
    <3>1. i = 0
      BY <1>2, <2>1, <2>2
    <3>2. PICK N : N = Len(words[0])
      OBVIOUS
    <3>6. PICK r : r = N \div num_threads
      OBVIOUS
    <3>3. thr'[0] = [at |-> "sort", base |-> 0 * r,
                     num_elems |-> IF 0 = 1 - 1 THEN N - 0 * r ELSE r]
      BY <1>2, <1>5, <2>2, <3>1, <3>2, <3>6 DEF CreateSort
    <3>4. N \in Nat /\ r \in Nat
      <4>1. Stored(words[0])
        BY <1>2 DEF IInv, TablesInv
      <4>2. N \in Nat
        BY <3>2, <4>1 DEF Stored
      <4> QED BY <2>2, <3>6, <4>2, QuotientType
    <3>5. thr'[0].at = "sort" /\ thr'[0].base = 0 /\ thr'[0].num_elems = N
      BY <3>3, <3>4
    <3> QED BY <2>1, <3>2, <3>5 DEF SortInv
  <2>3. CASE num_threads # 1
    BY <2>1, <2>3 DEF SortInv
  <2> QED BY <2>2, <2>3
<1>6. CASE JoinSort
  <2>1. /\ pc = "join_sort" /\ thr[i].at = "ended" /\ words' = words /\ thr' = thr
        /\ i < num_threads
    BY <1>6 DEF JoinSort, Joined, IInv, ControlInv, InSort
  <2>2. \/ i + 1 < num_threads /\ pc' = pc /\ num_threads' = num_threads
        \/ /\ i + 1 >= num_threads /\ num_threads' = num_threads \div 2 /\ i' = 0
           /\ pc' = IF num_threads' > 0 THEN "create_sort" ELSE "done"
    BY <1>2, <1>6 DEF JoinSort, FewerThreads
  <2>3. CASE pc' = "join_sort"
    <3>1. num_threads' = num_threads
      BY <2>1, <2>2, <2>3
    <3> QED BY <2>1, <2>3, <3>1 DEF SortInv, InSort
  <2>4. CASE pc' = "create_sort"
    <3>1. i' = 0
      BY <2>1, <2>2, <2>4
    <3>2. 0 \in Procs'
      <4>1. Procs' = Procs
        BY <1>6 DEF JoinSort, Procs
      <4> QED BY <1>2, <4>1
    <3>3. thr'[0].at = "ended"
      BY <1>1, <2>4, <3>1, <3>2 DEF IInv, ThreadsInv, ThreadInv
    <3> QED BY <2>4, <3>3 DEF SortInv, InSort
  <2>5. CASE pc' = "done"
    <3>1. num_threads = 1 /\ i = 0
      <4>1. num_threads \div 2 = num_threads' /\ ~(num_threads' > 0)
        BY <2>1, <2>2, <2>5
      <4>2. num_threads \in Nat \ {0} /\ i + 1 >= num_threads
        BY <1>2, <2>1, <2>2, <2>5
      <4>3. num_threads < 2
        BY <4>1, <4>2
      <4> QED BY <1>2, <2>1, <4>2, <4>3
    <3> QED BY <2>1, <2>5, <3>1 DEF SortInv, InSort
  <2> QED BY <2>1, <2>2, <2>3, <2>4, <2>5
<1>7. ASSUME NEW t \in Procs, wordcount_map(t) \/ merge_sections(t) PROVE SortInv'
  <2>1. pc' = pc /\ (InMap \/ InMerge)
    <3>1. thr[t].at \in {"map", "merge"}
      BY <1>7 DEF wordcount_map, merge_sections, StartWord, Skip, ExtendWord, EndWord, LastWord, Turn
    <3>2. pc' = pc
      BY <1>7 DEF wordcount_map, merge_sections
    <3> QED BY <3>1, <3>2, Mapping, MergingThread
  <2> QED BY <2>1 DEF SortInv, InSort, InMap, InMerge
<1>8. ASSUME NEW t \in Procs, sort_section(t) PROVE SortInv'
  <2>1. /\ pc' = pc /\ num_threads' = num_threads /\ thr' = [thr EXCEPT ![t] = [at |-> "ended"]]
        /\ thr[t].at = "sort"
    BY <1>8 DEF sort_section, rounds
  <2>2. /\ InSort
        /\ pc = "create_sort" => t < i
        /\ pc = "join_sort" => t < num_threads /\ t >= i
    BY <2>1, SortingThread
  <2>3. CASE num_threads = 1
    <3>1. pc = "join_sort" /\ t = 0
      <4>1. pc = "create_sort" => i < num_threads
        BY DEF IInv, ControlInv, InSort
      <4>2. t \in Nat /\ i \in Nat
        BY <1>2
      <4>3. pc # "create_sort"
        <5>1. ~(t < i /\ i < 1)
          BY <4>2
        <5> QED BY <2>2, <2>3, <4>1, <5>1
      <4>4. pc = "join_sort"
        BY <2>2, <4>3 DEF InSort
      <4> QED BY <2>2, <2>3, <4>2, <4>4
    <3>2. thr[0].base = 0 /\ thr[0].num_elems = Len(words[0])
      <4>1. thr[0].at = "sort"
        BY <2>1, <3>1
      <4> QED BY <2>2, <2>3, <4>1 DEF SortInv
    <3>3. PICK new, n : new = words'[0] /\ n = Len(words[0])
      OBVIOUS
    <3>4. Len(new) = n
      BY <1>8, <3>3, SortStep DEF Shuffled
    <3>5. n \in Nat
      <4>1. Stored(words[0])
        BY <1>2 DEF IInv, TablesInv
      <4> QED BY <3>3, <4>1 DEF Stored
    <3>6. \A k, l \in 1..n : k < l => new[k].count >= new[l].count
      <4>1. \A k, l \in (0 + 1)..(0 + n) : k < l => new[k].count >= new[l].count
        BY <1>8, <3>1, <3>2, <3>3, SortStep
      <4> QED BY <3>5, <4>1
    <3>7. ByCount(new)
      BY <3>4, <3>6 DEF ByCount
    <3>8. thr'[0].at # "sort" /\ ByCount(words[0])'
      <4>1. thr'[0].at = "ended"
        BY <1>2, <2>1, <3>1
      <4> QED BY <3>3, <3>7, <4>1 DEF ByCount
    <3>9. pc' # "done"
      BY <2>1, <3>1
    <3> QED BY <3>8, <3>9, Zenon DEF SortInv
  <2>4. CASE num_threads # 1
    BY <2>1, <2>2, <2>4 DEF SortInv, InSort
  <2> QED BY <2>3, <2>4
<1>9. CASE Finished \/ UNCHANGED vars
  <2>1. UNCHANGED <<words, thr, pc, num_threads>>
    BY <1>9 DEF Finished, vars, rounds
  <2> QED BY <2>1 DEF SortInv, InSort, ByCount
<1> QED BY <1>3, <1>4, <1>5, <1>6, <1>7, <1>8, <1>9 DEF Next, Main, Thread

\* The result has one entry for each word, the most frequent first: the rounds of
\* sort_pthreads end with one thread that sorts the whole table, whatever the number of
\* processors and of words.
THEOREM TopWords == Spec => []TopWordsFirst
<1>1. IInv /\ SortInv => TopWordsFirst
  <2> SUFFICES ASSUME IInv, SortInv, pc = "done",
                      NEW k \in DOMAIN words[0], NEW l \in DOMAIN words[0], k < l
               PROVE  /\ words[0][k].count >= words[0][l].count
                      /\ Text(words[0][k].word) # Text(words[0][l].word)
    BY DEF TopWordsFirst
  <2>1. FileInv /\ Stored(words[0]) /\ Distinct(words[0])
    BY ControlTypes DEF IInv, TablesInv
  <2>2. /\ Len(words[0]) \in Nat /\ DOMAIN words[0] = 1..Len(words[0])
        /\ \A m \in 1..Len(words[0]) : Text(words[0][m].word) = Key(words[0][m])
    BY <2>1, StoredTexts
  <2>3. words[0][k].count >= words[0][l].count
    BY <2>2 DEF SortInv, ByCount
  <2>4. Key(words[0][k]) # Key(words[0][l])
    <3>1. k # l
      BY <2>2
    <3> QED BY <2>1, <2>2, <3>1 DEF Distinct
  <2> QED BY <2>2, <2>3, <2>4
<1> QED BY <1>1, InitInv, NextInv, SortInvInit, SortInvNext, PTL DEF Spec

-----------------------------------------------------------------------------
(* Sums over tables.  CountOf folds its table from the left: the recursion takes the *)
(* last place of a set of places away.                                               *)

Weight(e, w) == IF Text(e.word) = w THEN e.count ELSE 0
SumOf(s, w)  == FoldLeft(LAMBDA sum, e : sum + IF Text(e.word) = w THEN e.count ELSE 0, 0, s)
OneMore(s, w, sum, P) == IF P = {} THEN 0 ELSE sum[P \ {Max(P)}] + Weight(s[Max(P)], w)
IsSum(s, w, sum) == sum = [P \in SUBSET (DOMAIN s) |-> OneMore(s, w, sum, P)]

\* CountOf is the sum of the counts of the entries of a word.
LEMMA CountOfSum == \A w : CountOf(w) = SumOf(Live, w)
BY DEF CountOf, SumOf

\* The sum is the value of a recursive function on sets of places.
LEMMA SumDef ==
    ASSUME NEW s, NEW w
    PROVE  SumOf(s, w) = (CHOOSE sum : IsSum(s, w, sum))[DOMAIN s]
BY DEF SumOf, FoldLeft, MapThenFoldSet, IsSum, OneMore, Weight

\* A set of places has a greatest one, which Max returns.
LEMMA Greatest ==
    ASSUME NEW n \in Nat, NEW T, T \subseteq 1..n, T # {}
    PROVE  Max(T) \in T /\ \A y \in T : y <= Max(T)
<1> DEFINE U == {n - x : x \in T}
<1>1. U \subseteq Nat /\ U # {}
  <2>1. \A x \in T : n - x \in Nat
    <3>1. \A x \in 1..n : n - x \in Nat
      OBVIOUS
    <3> QED BY <3>1
  <2> QED BY <2>1
<1>2. PICK u : u \in U /\ \A z \in U : u <= z
  <2> HIDE DEF U
  <2> QED BY <1>1, Least
<1>3. PICK x \in T : u = n - x
  BY <1>2
<1>4. ASSUME NEW y \in T PROVE x >= y
  <2>1. n - x <= n - y /\ x \in 1..n /\ y \in 1..n
    BY <1>2, <1>3
  <2> QED BY <2>1
<1>5. Max(T) \in T /\ \A y \in T : Max(T) >= y
  BY <1>4 DEF Max
<1>6. ASSUME NEW y \in T PROVE y <= Max(T)
  <2>1. Max(T) \in 1..n /\ y \in 1..n /\ Max(T) >= y
    BY <1>5
  <2> QED BY <2>1
<1> QED BY <1>5, <1>6

\* Subsets and their cardinality.
LEMMA Cards ==
    ASSUME NEW D, IsFiniteSet(D)
    PROVE  /\ Cardinality(D) \in Nat /\ Cardinality({}) = 0
           /\ \A s \in SUBSET D : /\ Cardinality(s) \in Nat /\ Cardinality(s) <= Cardinality(D)
                                  /\ Cardinality(s) = 0 <=> s = {}
                                  /\ \A x \in s : Cardinality(s \ {x}) = Cardinality(s) - 1
<1>1. \A s \in SUBSET D : IsFiniteSet(s) /\ Cardinality(s) <= Cardinality(D)
  BY FS_Subset
<1>2. \A s \in SUBSET D : Cardinality(s) \in Nat
  BY <1>1, FS_CardinalityType
<1>3. ASSUME NEW s \in SUBSET D, NEW x \in s
      PROVE  Cardinality(s \ {x}) = Cardinality(s) - 1
  <2>1. IsFiniteSet(s)
    BY <1>1
  <2> QED BY <2>1, FS_RemoveElement, Zenon
<1> QED BY <1>1, <1>2, <1>3, FS_EmptySet, FS_CardinalityType

\* The recursion has a solution: one for sets of up to n places gives one for n + 1.
LEMMA SumExists ==
    ASSUME NEW s, NEW w, NEW N \in Nat, DOMAIN s = 1..N
    PROVE  \E sum : IsSum(s, w, sum)
<1> DEFINE D == 1..N
           Part(sum, n) == sum = [P \in SUBSET D |-> IF Cardinality(P) <= n
                                                     THEN OneMore(s, w, sum, P) ELSE 0]
           T == {n \in Nat : \E sum : Part(sum, n)}
<1>0. /\ Cardinality(D) \in Nat /\ Cardinality({}) = 0
      /\ \A P \in SUBSET D : /\ Cardinality(P) \in Nat /\ Cardinality(P) <= Cardinality(D)
                             /\ Cardinality(P) = 0 <=> P = {}
                             /\ \A x \in P : Cardinality(P \ {x}) = Cardinality(P) - 1
  <2>1. IsFiniteSet(D)
    BY FS_Interval
  <2> QED BY <2>1, Cards
<1>s. \A P \in SUBSET D : P # {} => Max(P) \in P
  BY Greatest
<1>1. 0 \in T
  <2> DEFINE sum == [P \in SUBSET D |-> 0]
  <2>1. Part(sum, 0)
    <3> HIDE DEF sum
    <3>1. \A P \in SUBSET D : Cardinality(P) <= 0 => OneMore(s, w, sum, P) = 0
      BY <1>0 DEF OneMore
    <3>2. [P \in SUBSET D |-> 0] = [P \in SUBSET D |-> IF Cardinality(P) <= 0
                                                       THEN OneMore(s, w, sum, P) ELSE 0]
      BY <3>1
    <3> QED BY <3>2 DEF sum
  <2> QED BY <2>1
<1>2. ASSUME NEW n \in Nat, n \in T PROVE n + 1 \in T
  <2>1. PICK g : Part(g, n)
    BY <1>2
  <2> DEFINE h == [P \in SUBSET D |-> IF Cardinality(P) <= n + 1 THEN OneMore(s, w, g, P) ELSE 0]
  <2>2. ASSUME NEW P \in SUBSET D, Cardinality(P) <= n PROVE g[P] = h[P]
    <3>1. Cardinality(P) <= n + 1
      BY <1>0, <2>2
    <3>2. g[P] = OneMore(s, w, g, P)
      <4>1. g = [R \in SUBSET D |-> IF Cardinality(R) <= n THEN OneMore(s, w, g, R) ELSE 0]
        BY <2>1
      <4> HIDE DEF Part, h, T
      <4> QED BY <2>2, <4>1
    <3>3. h[P] = OneMore(s, w, g, P)
      BY <3>1
    <3> QED BY <3>2, <3>3
  <2>3. ASSUME NEW P \in SUBSET D, Cardinality(P) <= n + 1
        PROVE  OneMore(s, w, g, P) = OneMore(s, w, h, P)
    <3> HIDE DEF h, Part, T
    <3>1. CASE P = {}
      BY <3>1 DEF OneMore
    <3>2. CASE P # {}
      <4>1. Max(P) \in P /\ P \ {Max(P)} \in SUBSET D
        BY <1>s, <3>2
      <4>2. Cardinality(P \ {Max(P)}) <= n
        <5>1. Cardinality(P \ {Max(P)}) = Cardinality(P) - 1 /\ Cardinality(P) \in Nat
          BY <1>0, <4>1, Zenon
        <5> QED BY <2>3, <5>1
      <4>3. g[P \ {Max(P)}] = h[P \ {Max(P)}]
        BY <2>2, <4>1, <4>2
      <4> QED BY <4>3 DEF OneMore
    <3> QED BY <3>1, <3>2
  <2>4. h = [P \in SUBSET D |-> IF Cardinality(P) <= n + 1 THEN OneMore(s, w, h, P) ELSE 0]
    <3> HIDE DEF h, Part, T
    <3>1. [P \in SUBSET D |-> IF Cardinality(P) <= n + 1 THEN OneMore(s, w, g, P) ELSE 0]
            = [P \in SUBSET D |-> IF Cardinality(P) <= n + 1 THEN OneMore(s, w, h, P) ELSE 0]
      BY <2>3
    <3> QED BY <3>1 DEF h
  <2> HIDE DEF h
  <2>5. Part(h, n + 1)
    BY <2>4
  <2> HIDE DEF Part
  <2> QED BY <2>5
<1> HIDE DEF T
<1>3. Cardinality(D) \in T
  BY <1>0, <1>1, <1>2, Induction
<1>4. PICK sum : Part(sum, Cardinality(D))
  BY <1>3 DEF T
<1>5. sum = [P \in SUBSET D |-> OneMore(s, w, sum, P)]
  BY <1>0, <1>4
<1> QED BY <1>5 DEF IsSum

\* F has the sums of the first entries of s.
Partial(s, w, F) == F[0] = 0 /\ \A n \in 1..Len(s) : F[n] = F[n - 1] + Weight(s[n], w)
Totals(s, w, v)  == \A F : Partial(s, w, F) => F[Len(s)] = v

\* A sum is what every partial sum ends with.
LEMMA SumIs ==
    ASSUME NEW s \in Seq(Entries), NEW w, NEW v, Totals(s, w, v)
    PROVE  SumOf(s, w) = v
<1>1. Len(s) \in Nat /\ DOMAIN s = 1..Len(s)
  OBVIOUS
<1>2. PICK sum : IsSum(s, w, sum) /\ SumOf(s, w) = sum[DOMAIN s]
  BY <1>1, SumDef, SumExists
<1>3. PICK F : F = [n \in 0..Len(s) |-> sum[1..n]]
  OBVIOUS
<1>4. \A P \in SUBSET (1..Len(s)) : sum[P] = OneMore(s, w, sum, P)
  <2>1. sum = [P \in SUBSET (1..Len(s)) |-> OneMore(s, w, sum, P)]
    BY <1>1, <1>2 DEF IsSum
  <2> QED BY <2>1
<1>5. F[0] = 0
  <2>1. 1..0 = {} /\ 0 \in 0..Len(s)
    BY <1>1
  <2>2. sum[{}] = 0
    BY <1>4 DEF OneMore
  <2> QED BY <1>3, <2>1, <2>2
<1>6. ASSUME NEW n \in 1..Len(s) PROVE F[n] = F[n - 1] + Weight(s[n], w)
  <2>1. n \in Nat \ {0} /\ n \in 0..Len(s) /\ n - 1 \in 0..Len(s)
    BY <1>1
  <2>2. 1..n # {} /\ n \in 1..n /\ 1..n \in SUBSET (1..Len(s)) /\ (1..n) \ {n} = 1..(n - 1)
    <3>1. n \in 1..n /\ (1..n) \ {n} = 1..(n - 1)
      BY <2>1
    <3>2. 1..n \subseteq 1..Len(s)
      BY <1>1
    <3> QED BY <3>1, <3>2
  <2>3. Max(1..n) = n
    <3>1. Max(1..n) \in 1..n /\ n <= Max(1..n)
      BY <2>1, <2>2, Greatest
    <3> QED BY <2>1, <3>1
  <2>4. sum[1..n] = sum[1..(n - 1)] + Weight(s[n], w)
    BY <1>4, <2>2, <2>3 DEF OneMore
  <2> QED BY <1>3, <2>1, <2>4
<1>7. Partial(s, w, F)
  BY <1>5, <1>6 DEF Partial
<1>8. F[Len(s)] = sum[1..Len(s)]
  BY <1>1, <1>3
<1> QED BY <1>1, <1>2, <1>7, <1>8 DEF Totals

\* Sums are naturals.
LEMMA PartialType ==
    ASSUME FileInv, NEW s, Stored(s), NEW w, NEW F, Partial(s, w, F)
    PROVE  \A n \in 0..Len(s) : F[n] \in Nat
<1> DEFINE T == {n \in Nat : n <= Len(s) => F[n] \in Nat}
<1>1. Len(s) \in Nat /\ \A k \in 1..Len(s) : s[k] \in Entries
  BY StoredTexts
<1>2. \A k \in 1..Len(s) : Weight(s[k], w) \in Nat
  <2>1. \A e \in Entries : Weight(e, w) \in Nat
    BY DEF Entries, Weight
  <2> QED BY <1>1, <2>1
<1>3. 0 \in T
  BY DEF Partial
<1>4. ASSUME NEW n \in Nat, n \in T PROVE n + 1 \in T
  <2> SUFFICES ASSUME n + 1 <= Len(s) PROVE F[n + 1] \in Nat
    OBVIOUS
  <2>1. F[n] \in Nat /\ n + 1 \in 1..Len(s) /\ (n + 1) - 1 = n
    BY <1>1, <1>4
  <2>2. F[n + 1] = F[n] + Weight(s[n + 1], w) /\ Weight(s[n + 1], w) \in Nat
    BY <1>2, <2>1 DEF Partial
  <2> QED BY <2>1, <2>2
<1> HIDE DEF T
<1>5. \A n \in Nat : n \in T
  BY <1>3, <1>4, Induction
<1> QED BY <1>1, <1>5 DEF T

\* The total of two tables is the sum of theirs.
LEMMA TotalConcat ==
    ASSUME FileInv, NEW r, NEW s, Stored(r), Stored(s), NEW w, NEW u \in Nat, NEW v \in Nat,
           Totals(r, w, u), Totals(s, w, v)
    PROVE  Stored(r \o s) /\ Totals(r \o s, w, u + v)
<1> DEFINE c == r \o s
<1>1. /\ r \in Seq(Entries) /\ \A k \in 1..Len(r) : Whole(r[k].word)
      /\ s \in Seq(Entries) /\ \A k \in 1..Len(s) : Whole(s[k].word)
  BY DEF Stored
<1>2. /\ c \in Seq(Entries) /\ Len(c) = Len(r) + Len(s) /\ Len(r) \in Nat /\ Len(s) \in Nat
      /\ \A k \in 1..Len(c) : c[k] = IF k <= Len(r) THEN r[k] ELSE s[k - Len(r)]
  BY <1>1, ConcatTable
<1> HIDE DEF c
<1>3. Stored(c)
  <2> SUFFICES ASSUME NEW k \in 1..Len(c) PROVE Whole(c[k].word)
    BY <1>2 DEF Stored
  <2>1. CASE k <= Len(r)
    BY <1>1, <1>2, <2>1
  <2>2. CASE ~(k <= Len(r))
    <3>1. k - Len(r) \in 1..Len(s)
      BY <1>2, <2>2
    <3> QED BY <1>1, <1>2, <2>2, <3>1
  <2> QED BY <2>1, <2>2
<1>4. ASSUME NEW F, Partial(c, w, F) PROVE F[Len(c)] = u + v
  <2>1. \A n \in 0..Len(c) : F[n] \in Nat
    BY <1>3, <1>4, PartialType
  <2>2. F[0] = 0 /\ \A n \in 1..Len(c) : F[n] = F[n - 1] + Weight(c[n], w)
    BY <1>4 DEF Partial
  <2>3. Partial(r, w, F)
    <3>1. \A n \in 1..Len(r) : n \in 1..Len(c) /\ c[n] = r[n]
      BY <1>2
    <3> QED BY <2>2, <3>1 DEF Partial
  <2>4. F[Len(r)] = u
    BY <2>3 DEF Totals
  <2>5. PICK G : G = [n \in 0..Len(s) |-> F[Len(r) + n] - u]
    OBVIOUS
  <2>6. \A n \in 0..Len(s) : G[n] = F[Len(r) + n] - u
    BY <2>5
  <2>7. G[0] = 0
    BY <1>2, <2>4, <2>6
  <2>8. ASSUME NEW n \in 1..Len(s) PROVE G[n] = G[n - 1] + Weight(s[n], w)
    <3>1. /\ Len(r) + n \in 1..Len(c) /\ n - 1 \in 0..Len(s) /\ n \in 0..Len(s)
          /\ (Len(r) + n) - 1 = Len(r) + (n - 1) /\ (Len(r) + n) - Len(r) = n
          /\ Len(r) + (n - 1) \in 0..Len(c) /\ Len(r) + n \in 0..Len(c)
          /\ ~(Len(r) + n <= Len(r))
      BY <1>2
    <3>2. c[Len(r) + n] = s[n]
      BY <1>2, <3>1
    <3>3. F[Len(r) + n] = F[Len(r) + (n - 1)] + Weight(s[n], w)
      BY <2>2, <3>1, <3>2
    <3>4. PICK x, y, z : /\ x = F[Len(r) + n] /\ y = F[Len(r) + (n - 1)]
                         /\ z = Weight(s[n], w)
      OBVIOUS
    <3>5. z \in Nat
      <4>1. s[n] \in Entries
        BY <1>1, ElementOfSeq
      <4> QED BY <3>4, <4>1 DEF Weight, Entries
    <3>6. x \in Nat /\ y \in Nat /\ x = y + z
      BY <2>1, <3>1, <3>3, <3>4
    <3>7. x - u = (y - u) + z
      BY <3>5, <3>6
    <3> QED BY <2>6, <3>1, <3>4, <3>7
  <2>9. G[Len(s)] = v
    BY <2>7, <2>8 DEF Partial, Totals
  <2>10. F[Len(r) + Len(s)] - u = v /\ F[Len(r) + Len(s)] \in Nat
    <3>1. Len(s) \in 0..Len(s) /\ Len(r) + Len(s) \in 0..Len(c)
      BY <1>2
    <3> QED BY <2>1, <2>6, <2>9, <3>1
  <2>11. F[Len(r) + Len(s)] = u + v
    BY <2>10
  <2> QED BY <1>2, <2>11
<1> QED BY <1>3, <1>4 DEF Totals, c

\* In a table without a word twice the total is the count of the entry of the word.
LEMMA TotalDistinct ==
    ASSUME FileInv, NEW s, Stored(s), Distinct(s), NEW w
    PROVE  /\ \A k \in 1..Len(s) : Key(s[k]) = w => Totals(s, w, s[k].count)
           /\ ~Has(s, w) => Totals(s, w, 0)
<1>1. /\ Len(s) \in Nat
      /\ \A k \in 1..Len(s) : s[k] \in Entries /\ Text(s[k].word) = Key(s[k])
  BY StoredTexts
<1>2. ASSUME NEW j \in 0..Len(s), NEW v \in Nat, j = 0 => v = 0,
             \A k \in 1..Len(s) : Weight(s[k], w) = IF k = j THEN v ELSE 0
      PROVE  Totals(s, w, v)
  <2> SUFFICES ASSUME NEW F, Partial(s, w, F) PROVE F[Len(s)] = v
    BY DEF Totals
  <2> DEFINE T == {n \in Nat : n <= Len(s) => F[n] = IF n >= j THEN v ELSE 0}
  <2>1. 0 \in T
    BY <1>2 DEF Partial
  <2>2. ASSUME NEW n \in Nat, n \in T PROVE n + 1 \in T
    <3> SUFFICES ASSUME n + 1 <= Len(s) PROVE F[n + 1] = IF n + 1 >= j THEN v ELSE 0
      OBVIOUS
    <3>1. n <= Len(s) /\ n + 1 \in 1..Len(s) /\ (n + 1) - 1 = n
      BY <1>1
    <3>2. F[n] = IF n >= j THEN v ELSE 0
      BY <2>2, <3>1
    <3>3. F[n + 1] = F[n] + Weight(s[n + 1], w)
      BY <3>1 DEF Partial
    <3>4. Weight(s[n + 1], w) = IF n + 1 = j THEN v ELSE 0
      BY <1>2, <3>1
    <3> QED BY <3>2, <3>3, <3>4
  <2> HIDE DEF T
  <2>3. \A n \in Nat : n \in T
    BY <2>1, <2>2, Induction
  <2>4. Len(s) \in T
    BY <1>1, <2>3
  <2> QED BY <1>1, <2>4 DEF T
<1>3. ASSUME NEW k \in 1..Len(s), Key(s[k]) = w PROVE Totals(s, w, s[k].count)
  <2>1. s[k].count \in Nat
    BY <1>1 DEF Entries
  <2>2. \A l \in 1..Len(s) : Weight(s[l], w) = IF l = k THEN s[k].count ELSE 0
    BY <1>1, <1>3 DEF Weight, Distinct
  <2>3. k \in 0..Len(s) /\ k # 0
    BY <1>1
  <2> QED BY <1>2, <2>1, <2>2, <2>3
<1>4. ASSUME ~Has(s, w) PROVE Totals(s, w, 0)
  <2>1. \A k \in 1..Len(s) : Weight(s[k], w) = IF k = 0 THEN 0 ELSE 0
    BY <1>1, <1>4 DEF Weight, Has
  <2>2. 0 \in 0..Len(s) /\ 0 \in Nat
    BY <1>1
  <2> QED BY <1>2, <2>1, <2>2
<1> QED BY <1>3, <1>4

-----------------------------------------------------------------------------
(* Occurrences. *)

LEMMA StartsFinite ==
    ASSUME FileInv, NEW S, S \subseteq WordStarts
    PROVE  IsFiniteSet(S) /\ \A w : /\ IsFiniteSet({p \in S : FileWord(p) = w})
                                    /\ Occ(S, w) \in Nat
<1>1. IsFiniteSet(0..(flen - 1))
  BY FlenType, FS_Interval
<1>2. S \subseteq 0..(flen - 1)
  BY DEF WordStarts
<1>3. \A T \in SUBSET (0..(flen - 1)) : IsFiniteSet(T)
  BY <1>1, FS_Subset
<1>4. \A w : {p \in S : FileWord(p) = w} \in SUBSET (0..(flen - 1))
  BY <1>2
<1> QED BY <1>2, <1>3, <1>4, FS_CardinalityType DEF Occ

\* Occurrences in disjoint sets of places add up.
LEMMA OccUnion ==
    ASSUME FileInv, NEW R, NEW S, R \subseteq WordStarts, S \subseteq WordStarts, R \cap S = {},
           NEW w
    PROVE  Occ(R \cup S, w) = Occ(R, w) + Occ(S, w) /\ Occ(R, w) \in Nat /\ Occ(S, w) \in Nat
<1> DEFINE A == {p \in R : FileWord(p) = w}
           B == {p \in S : FileWord(p) = w}
<1>1. IsFiniteSet(A) /\ IsFiniteSet(B) /\ Occ(R, w) \in Nat /\ Occ(S, w) \in Nat
  BY StartsFinite
<1>2. A \cap B = {} /\ {p \in R \cup S : FileWord(p) = w} = A \cup B
  OBVIOUS
<1>3. Occ(R, w) = Cardinality(A) /\ Occ(S, w) = Cardinality(B)
      /\ Occ(R \cup S, w) = Cardinality(A \cup B)
  BY <1>2 DEF Occ
<1> HIDE DEF A, B
<1>4. Cardinality(A \cup B) = Cardinality(A) + Cardinality(B) - Cardinality({})
  BY <1>1, <1>2, FS_Union
<1>5. Cardinality({}) = 0
  BY FS_EmptySet
<1> QED BY <1>1, <1>3, <1>4, <1>5

\* A word that starts nowhere in a set does not occur.
LEMMA OccNone ==
    ASSUME NEW S, NEW w, \A p \in S : FileWord(p) # w
    PROVE  Occ(S, w) = 0
<1>1. {p \in S : FileWord(p) = w} = {}
  OBVIOUS
<1> QED BY <1>1, FS_EmptySet DEF Occ

\* A place is one occurrence of its word, and of no other.
LEMMA OccOne ==
    ASSUME NEW p
    PROVE  Occ({p}, FileWord(p)) = 1 /\ \A w : w # FileWord(p) => Occ({p}, w) = 0
<1>1. {q \in {p} : FileWord(q) = FileWord(p)} = {p}
  OBVIOUS
<1>2. \A w : w # FileWord(p) => Occ({p}, w) = 0
  BY OccNone
<1> QED BY <1>1, <1>2, FS_Singleton DEF Occ

\* Words of the file between three places.
LEMMA BetweenParts ==
    ASSUME NEW a \in Nat, NEW b \in Nat, NEW c \in Nat, a <= b, b <= c
    PROVE  /\ Between(a, b) \cup Between(b, c) = Between(a, c)
           /\ Between(a, b) \cap Between(b, c) = {}
           /\ Between(a, b) \subseteq WordStarts /\ Between(b, c) \subseteq WordStarts
<1>1. \A p \in WordStarts : p \in Int
  BY DEF WordStarts
<1>2. ASSUME NEW p \in WordStarts
      PROVE  /\ (a <= p /\ p < b) \/ (b <= p /\ p < c) <=> a <= p /\ p < c
             /\ ~((a <= p /\ p < b) /\ (b <= p /\ p < c))
  BY <1>1
<1> QED BY <1>2 DEF Between

\* No word starts between a place and itself.
LEMMA BetweenEmpty == ASSUME NEW a \in Nat PROVE Between(a, a) = {}
<1>1. \A p \in WordStarts : p \in Int
  BY DEF WordStarts
<1>2. \A p \in WordStarts : ~(a <= p /\ p < a)
  BY <1>1
<1> QED BY <1>2 DEF Between

\* A table with the counts of the words of S has their total.
LEMMA CountsTotal ==
    ASSUME FileInv, NEW s, Stored(s), Distinct(s), NEW S, Counts(s, S), NEW w
    PROVE  Totals(s, w, Occ(S, w))
<1>1. CASE Has(s, w)
  <2>1. PICK k \in 1..Len(s) : Key(s[k]) = w
    BY <1>1 DEF Has
  <2>2. s[k].count = Occ(S, w)
    BY <2>1 DEF Counts
  <2>3. Totals(s, w, s[k].count)
    BY <2>1, TotalDistinct
  <2> QED BY <2>2, <2>3
<1>2. CASE ~Has(s, w)
  <2>1. Occ(S, w) = 0
    <3>1. \A p \in S : FileWord(p) # w
      BY <1>2 DEF Counts
    <3> QED BY <3>1, OccNone
  <2>2. Totals(s, w, 0)
    BY <1>2, TotalDistinct
  <2> QED BY <2>1, <2>2
<1> QED BY <1>1, <1>2

\* In a table in order no word comes twice.
LEMMA GoodDistinct ==
    ASSUME FileInv, NEW s, Good(s)
    PROVE  Stored(s) /\ Distinct(s) /\ s \in Seq(Entries) /\ Len(s) \in Nat
<1>1. Stored(s) /\ InOrder(s)
  BY DEF Good
<1> QED BY <1>1, StoredTexts, InOrderDistinct

\* A word of one of two tables is not in the other if that comes before it.
LEMMA BeforeHas ==
    ASSUME FileInv, NEW r, NEW s, Stored(r), Stored(s), AllBefore(r, s), NEW w, Has(r, w)
    PROVE  ~Has(s, w)
<1>1. PICK k \in 1..Len(r) : Key(r[k]) = w
  BY DEF Has
<1>2. ASSUME NEW l \in 1..Len(s), Key(s[l]) = w PROVE FALSE
  <2>1. Before(w, w)
    BY <1>1, <1>2 DEF AllBefore
  <2>2. w \in Texts
    BY <1>2, StoredTexts
  <2> QED BY <2>1, <2>2, BeforeIrreflexive
<1> QED BY <1>2 DEF Has

\* While two tables are merged, what is in the three adds up to the words of both.
LEMMA MergeTotals ==
    ASSUME FileInv, NEW x, Merging(x), NEW R, NEW S, R \subseteq WordStarts, S \subseteq WordStarts,
           R \cap S = {}, MergeCounts(x, R, S), NEW w
    PROVE  /\ Stored(x.data1 \o x.data2 \o x.out)
           /\ Totals(x.data1 \o x.data2 \o x.out, w, Occ(R \cup S, w))
<1>1. PICK a, b, o : a = x.data1 /\ b = x.data2 /\ o = x.out
  OBVIOUS
<1>2. /\ Stored(a) /\ Distinct(a) /\ Stored(b) /\ Distinct(b) /\ Stored(o) /\ Distinct(o)
      /\ AllBefore(o, a) /\ AllBefore(o, b)
  BY <1>1, GoodDistinct DEF Merging
<1>3. PICK n : n = Occ(R \cup S, w)
  OBVIOUS
<1>4. n = Occ(R, w) + Occ(S, w) /\ Occ(R, w) \in Nat /\ Occ(S, w) \in Nat /\ n \in Nat
  <2>1. Occ(R \cup S, w) = Occ(R, w) + Occ(S, w) /\ Occ(R, w) \in Nat /\ Occ(S, w) \in Nat
    BY OccUnion
  <2> QED BY <1>3, <2>1
<1>5. /\ \A p \in R : Has(a, FileWord(p)) \/ Has(o, FileWord(p))
      /\ \A p \in S : Has(b, FileWord(p)) \/ Has(a, FileWord(p)) \/ Has(o, FileWord(p))
      /\ \A k \in 1..Len(o) : o[k].count = Occ(R \cup S, Key(o[k]))
      /\ \A k \in 1..Len(a) : a[k].count = IF Has(b, Key(a[k])) THEN Occ(R, Key(a[k]))
                                                              ELSE Occ(R \cup S, Key(a[k]))
      /\ \A k \in 1..Len(b) : b[k].count = Occ(S, Key(b[k]))
  BY <1>1 DEF MergeCounts, Merges
<1>6. \E u, v, z \in Nat : Totals(a, w, u) /\ Totals(b, w, v) /\ Totals(o, w, z) /\ (u + v) + z = n
  <2>1. CASE Has(o, w)
    <3>1. ~Has(a, w) /\ ~Has(b, w)
      BY <1>2, <2>1, BeforeHas
    <3>2. PICK k \in 1..Len(o) : Key(o[k]) = w
      BY <2>1 DEF Has
    <3>3. o[k].count = n
      BY <1>3, <1>5, <3>2
    <3>4. Totals(o, w, n) /\ Totals(a, w, 0) /\ Totals(b, w, 0)
      BY <1>2, <3>1, <3>2, <3>3, TotalDistinct
    <3>5. (0 + 0) + n = n
      BY <1>4
    <3> QED BY <1>4, <3>4, <3>5
  <2>2. CASE ~Has(o, w) /\ Has(a, w)
    <3>1. PICK k \in 1..Len(a) : Key(a[k]) = w
      BY <2>2 DEF Has
    <3>2. Totals(a, w, a[k].count) /\ Totals(o, w, 0)
      BY <1>2, <2>2, <3>1, TotalDistinct
    <3>3. CASE Has(b, w)
      <4>1. PICK l \in 1..Len(b) : Key(b[l]) = w
        BY <3>3 DEF Has
      <4>2. a[k].count = Occ(R, w) /\ b[l].count = Occ(S, w)
        BY <1>5, <3>1, <3>3, <4>1
      <4>3. Totals(b, w, Occ(S, w)) /\ Totals(a, w, Occ(R, w))
        BY <1>2, <3>2, <4>1, <4>2, TotalDistinct
      <4>4. (Occ(R, w) + Occ(S, w)) + 0 = n
        BY <1>4
      <4> QED BY <1>4, <3>2, <4>3, <4>4
    <3>4. CASE ~Has(b, w)
      <4>1. a[k].count = n
        BY <1>3, <1>5, <3>1, <3>4
      <4>2. Totals(b, w, 0) /\ Totals(a, w, n)
        BY <1>2, <3>2, <3>4, <4>1, TotalDistinct
      <4>3. (n + 0) + 0 = n
        BY <1>4
      <4> QED BY <1>4, <3>2, <4>2, <4>3
    <3> QED BY <3>3, <3>4
  <2>3. CASE ~Has(o, w) /\ ~Has(a, w)
    <3>1. Totals(a, w, 0) /\ Totals(o, w, 0)
      BY <1>2, <2>3, TotalDistinct
    <3>2. Occ(R, w) = 0
      <4>1. \A p \in R : FileWord(p) # w
        BY <1>5, <2>3
      <4> QED BY <4>1, OccNone
    <3>3. Totals(b, w, Occ(S, w))
      <4>1. CASE Has(b, w)
        <5>1. PICK l \in 1..Len(b) : Key(b[l]) = w
          BY <4>1 DEF Has
        <5>2. b[l].count = Occ(S, w)
          BY <1>5, <5>1
        <5> QED BY <1>2, <5>1, <5>2, TotalDistinct
      <4>2. CASE ~Has(b, w)
        <5>1. \A p \in S : FileWord(p) # w
          BY <1>5, <2>3, <4>2
        <5>2. Occ(S, w) = 0
          BY <5>1, OccNone
        <5> QED BY <1>2, <4>2, <5>2, TotalDistinct
      <4> QED BY <4>1, <4>2
    <3>4. (0 + Occ(S, w)) + 0 = n
      BY <1>4, <3>2
    <3> QED BY <1>4, <3>1, <3>3, <3>4
  <2> QED BY <2>1, <2>2, <2>3
<1>7. PICK u \in Nat, v \in Nat, z \in Nat :
         Totals(a, w, u) /\ Totals(b, w, v) /\ Totals(o, w, z) /\ (u + v) + z = n
  BY <1>6
<1>8. Stored(a \o b) /\ Totals(a \o b, w, u + v) /\ u + v \in Nat
  BY <1>2, <1>7, TotalConcat
<1>9. Stored((a \o b) \o o) /\ Totals((a \o b) \o o, w, (u + v) + z)
  <2>1. PICK c, m : c = a \o b /\ m = u + v
    OBVIOUS
  <2>2. Stored(c) /\ Totals(c, w, m) /\ m \in Nat
    BY <1>8, <2>1
  <2>3. Stored(c \o o) /\ Totals(c \o o, w, m + z)
    BY <1>2, <1>7, <2>2, TotalConcat
  <2> QED BY <2>1, <2>3
<1> QED BY <1>1, <1>3, <1>7, <1>9


\* What the tables count is about the file, which stays.
LEMMA CountsKept ==
    ASSUME file' = file
    PROVE  /\ \A a, b : Between(a, b)' = Between(a, b)
           /\ \A S, w : Occ(S, w)' = Occ(S, w)
           /\ \A s, w : Has(s, w)' = Has(s, w)
           /\ \A s, S : Counts(s, S)' = Counts(s, S)
           /\ \A x, R, S : MergeCounts(x, R, S)' = MergeCounts(x, R, S)
<1>1. \A a, b : Between(a, b)' = Between(a, b)
  BY FileKept DEF Between
<1>2. \A S, w : Occ(S, w)' = Occ(S, w)
  BY FileKept DEF Occ
<1>3. \A s, w : Has(s, w)' = Has(s, w)
  BY FileKept DEF Has
<1>4. ASSUME NEW s, NEW S PROVE Counts(s, S)' = Counts(s, S)
  <2>1. \A w : Has(s, w)' = Has(s, w) /\ Occ(S, w)' = Occ(S, w)
    BY <1>2, <1>3
  <2>2. \A k : Key(s[k])' = Key(s[k])
    BY FileKept
  <2>3. \A p : FileWord(p)' = FileWord(p)
    BY FileKept
  <2> QED BY <2>1, <2>2, <2>3 DEF Counts
<1>5. ASSUME NEW x, NEW R, NEW S PROVE MergeCounts(x, R, S)' = MergeCounts(x, R, S)
  <2>1. \A e : Key(e)' = Key(e)
    BY FileKept
  <2>2. \A p : FileWord(p)' = FileWord(p)
    BY FileKept
  <2> QED BY <1>2, <1>3, <2>1, <2>2 DEF MergeCounts, Merges
<1> QED BY <1>1, <1>2, <1>3, <1>4, <1>5

\* The empty table counts no word.
LEMMA EmptyCounts == Counts(<<>>, {})
<1>1. Len(<<>>) = 0
  OBVIOUS
<1> QED BY <1>1 DEF Counts

\* wordcount_reduce counts one more occurrence.
LEMMA CountOne ==
    ASSUME FileInv, NEW s, Stored(s), Distinct(s), NEW S, S \subseteq WordStarts,
           NEW p \in WordStarts, p \notin S, Counts(s, S), NEW new, Counted(new, s, p)
    PROVE  Counts(new, S \cup {p})
<1>1. PICK v : v = FileWord(p)
  OBVIOUS
<1>2. PICK U : U = S \cup {p}
  OBVIOUS
<1>3. /\ Occ(U, v) = Occ(S, v) + 1 /\ Occ(S, v) \in Nat
      /\ \A w : w # v => Occ(U, w) = Occ(S, w)
  <2>1. PICK Q : Q = {p}
    OBVIOUS
  <2>2. Q \subseteq WordStarts /\ S \cap Q = {} /\ U = S \cup Q
    BY <1>2, <2>1
  <2>3. ASSUME NEW w PROVE Occ(U, w) = Occ(S, w) + Occ(Q, w) /\ Occ(S, w) \in Nat
    BY <2>2, OccUnion
  <2>4. Occ(Q, v) = 1 /\ \A w : w # v => Occ(Q, w) = 0
    BY <1>1, <2>1, OccOne
  <2>5. Occ(U, v) = Occ(S, v) + 1 /\ Occ(S, v) \in Nat
    BY <2>3, <2>4
  <2>6. ASSUME NEW w, w # v PROVE Occ(U, w) = Occ(S, w)
    <3>1. Occ(U, w) = Occ(S, w) + 0 /\ Occ(S, w) \in Nat
      BY <2>3, <2>4, <2>6
    <3> QED BY <3>1
  <2> QED BY <2>5, <2>6
<1>4. /\ Len(s) \in Nat /\ \A k \in 1..Len(s) : s[k].count = Occ(S, Key(s[k]))
      /\ \A q \in S : \E k \in 1..Len(s) : Key(s[k]) = FileWord(q)
  BY StoredTexts DEF Counts, Has
<1>5. ASSUME NEW j \in 1..Len(s), Key(s[j]) = v, CountedUp(new, s, j, 1)
      PROVE  Counts(new, U)
  <2>1. /\ Len(new) = Len(s)
        /\ \A k \in 1..Len(s) : /\ new[k].word = s[k].word
                                /\ new[k].count = IF k = j THEN s[k].count + 1 ELSE s[k].count
    BY <1>5 DEF CountedUp
  <2>2. \A k \in 1..Len(s) : Key(new[k]) = Key(s[k])
    BY <2>1 DEF Key
  <2>3. \A k \in 1..Len(s) : k # j => Key(s[k]) # v
    BY <1>5 DEF Distinct
  <2>4. \A k \in 1..Len(new) : new[k].count = Occ(U, Key(new[k]))
    <3> SUFFICES ASSUME NEW k \in 1..Len(s) PROVE new[k].count = Occ(U, Key(s[k]))
      BY <2>1, <2>2
    <3>1. CASE k = j
      BY <1>3, <1>4, <1>5, <2>1, <3>1
    <3>2. CASE k # j
      BY <1>3, <1>4, <2>1, <2>3, <3>2
    <3> QED BY <3>1, <3>2
  <2>5. ASSUME NEW q \in U PROVE Has(new, FileWord(q))
    <3>1. CASE q = p
      BY <1>1, <1>5, <2>1, <2>2, <3>1 DEF Has
    <3>2. CASE q \in S
      BY <1>4, <2>1, <2>2, <3>2 DEF Has
    <3> QED BY <1>2, <3>1, <3>2
  <2> QED BY <2>4, <2>5 DEF Counts
<1>6. ASSUME \A j \in 1..Len(s) : Key(s[j]) # v, NEW j, PutIn(new, s, j, Entry(p))
      PROVE  Counts(new, U)
  <2>1. /\ j \in 1..(Len(s) + 1) /\ Len(new) = Len(s) + 1
        /\ \A k \in 1..(Len(s) + 1) :
              new[k] = IF k < j THEN s[k] ELSE IF k = j THEN Entry(p) ELSE s[k - 1]
    BY <1>6 DEF PutIn
  <2>2. Key(Entry(p)) = v /\ Entry(p).count = 1
    BY <1>1 DEF Key, Entry
  <2>3. Occ(S, v) = 0
    <3>1. \A q \in S : FileWord(q) # v
      BY <1>4, <1>6
    <3> QED BY <3>1, OccNone
  <2>4. \A k \in 1..Len(new) : new[k].count = Occ(U, Key(new[k]))
    <3> SUFFICES ASSUME NEW k \in 1..(Len(s) + 1) PROVE new[k].count = Occ(U, Key(new[k]))
      BY <2>1
    <3>1. CASE k = j
      <4>1. new[k] = Entry(p)
        BY <2>1, <3>1
      <4> QED BY <1>3, <2>2, <2>3, <4>1
    <3>2. CASE k # j
      <4>1. \E l \in 1..Len(s) : new[k] = s[l]
        <5>1. CASE k < j
          <6>1. k \in 1..Len(s) /\ new[k] = s[k]
            BY <1>4, <2>1, <5>1
          <6> QED BY <6>1
        <5>2. CASE k > j
          <6>1. k - 1 \in 1..Len(s) /\ new[k] = s[k - 1]
            BY <1>4, <2>1, <5>2
          <6> QED BY <6>1
        <5> QED BY <1>4, <2>1, <3>2, <5>1, <5>2
      <4> QED BY <1>3, <1>4, <1>6, <4>1
    <3> QED BY <3>1, <3>2
  <2>5. \A l \in 1..Len(s) : \E k \in 1..Len(new) : new[k] = s[l]
    <3> SUFFICES ASSUME NEW l \in 1..Len(s) PROVE \E k \in 1..Len(new) : new[k] = s[l]
      OBVIOUS
    <3>1. CASE l < j
      <4>1. l \in 1..Len(new) /\ new[l] = s[l]
        BY <1>4, <2>1, <3>1
      <4> QED BY <4>1
    <3>2. CASE l >= j
      <4>1. l + 1 \in 1..Len(new) /\ new[l + 1] = s[(l + 1) - 1] /\ (l + 1) - 1 = l
        BY <1>4, <2>1, <3>2
      <4> QED BY <4>1
    <3> QED BY <1>4, <2>1, <3>1, <3>2
  <2>6. ASSUME NEW q \in U PROVE Has(new, FileWord(q))
    <3>1. CASE q = p
      <4>1. j \in 1..Len(new) /\ new[j] = Entry(p)
        BY <1>4, <2>1
      <4> QED BY <1>1, <2>2, <3>1, <4>1 DEF Has
    <3>2. CASE q \in S
      BY <1>4, <2>5, <3>2 DEF Has
    <3> QED BY <1>2, <3>1, <3>2
  <2> QED BY <2>4, <2>6 DEF Counts
<1> QED BY <1>1, <1>2, <1>5, <1>6 DEF Counted

\* A word that ends before q is the only one that starts behind its own start.
LEMMA WordEnds ==
    ASSUME FileInv, NEW p, NEW q, WordAt(p, q), NEW a \in Nat, a <= p
    PROVE  /\ Between(a, q) = Between(a, p) \cup {p}
           /\ Between(a, q + 1) = Between(a, p) \cup {p}
           /\ p \in WordStarts /\ p \notin Between(a, p) /\ Between(a, p) \subseteq WordStarts
<1>1. /\ flen \in Nat /\ p \in 0..(flen - 1) /\ q \in (p + 1)..flen /\ Letter(Char(p))
      /\ \A r \in p..(q - 1) : InsideWord(Char(r))
      /\ q = flen \/ ~InsideWord(Char(q))
  BY FlenType DEF WordAt
<1>2. p \in WordStarts
  BY FileWordOf
<1>3. \A r \in p..(q - 1) : InFileWord(r)
  <2> SUFFICES ASSUME NEW r \in p..(q - 1) PROVE InFileWord(r)
    OBVIOUS
  <2>1. p \in 0..r /\ \A z \in p..r : InsideWord(Char(z))
    BY <1>1
  <2> QED BY <1>1, <2>1 DEF InFileWord
<1>4. \A r \in WordStarts : /\ r \in 0..(flen - 1) /\ Letter(Char(r))
                            /\ ~(r > 0 /\ InFileWord(r - 1))
  BY DEF WordStarts
<1>5. ASSUME NEW r \in WordStarts, p < r PROVE r > q
  <2>1. ~(r \in (p + 1)..q)
    <3> SUFFICES ASSUME r \in (p + 1)..q PROVE FALSE
      OBVIOUS
    <3>1. r - 1 \in p..(q - 1) /\ r > 0
      BY <1>1
    <3> QED BY <1>3, <1>4, <3>1
  <2> QED BY <1>1, <1>4, <1>5, <2>1
<1>6. ASSUME NEW r \in WordStarts, NEW z \in {q, q + 1}
      PROVE  a <= r /\ r < z <=> (a <= r /\ r < p) \/ r = p
  BY <1>1, <1>4, <1>5, <1>6
<1>7. \A z \in {q, q + 1} : Between(a, z) = Between(a, p) \cup {p}
  BY <1>2, <1>6 DEF Between
<1>8. p \notin Between(a, p) /\ Between(a, p) \subseteq WordStarts
  BY <1>1 DEF Between
<1> QED BY <1>2, <1>7, <1>8

\* No word starts where no letter is.
LEMMA NoStart ==
    ASSUME FileInv, NEW q \in Nat, ~Letter(Char(q)), NEW a \in Nat
    PROVE  Between(a, q + 1) = Between(a, q)
<1>1. \A r \in WordStarts : r \in Int /\ r # q
  BY DEF WordStarts
<1>2. \A r \in WordStarts : a <= r /\ r < q + 1 <=> a <= r /\ r < q
  BY <1>1
<1> QED BY <1>2 DEF Between

-----------------------------------------------------------------------------
(* Merges keep the counts. *)

\* The words of two tables and no others.
Words(R, S) == /\ R \subseteq WordStarts /\ S \subseteq WordStarts /\ R \cap S = {}

Without(S, w) == \A p \in S : FileWord(p) # w

\* The occurrences in two parts, when the word is in both or in one.
LEMMA OccWords ==
    ASSUME FileInv, NEW R, NEW S, Words(R, S), NEW U, U = R \cup S, NEW w
    PROVE  /\ Occ(U, w) = Occ(R, w) + Occ(S, w)
           /\ Without(R, w) => Occ(U, w) = Occ(S, w)
           /\ Without(S, w) => Occ(U, w) = Occ(R, w)
<1>1. R \subseteq WordStarts /\ S \subseteq WordStarts /\ R \cap S = {}
  BY DEF Words
<1>2. Occ(R \cup S, w) = Occ(R, w) + Occ(S, w) /\ Occ(R, w) \in Nat /\ Occ(S, w) \in Nat
  BY <1>1, OccUnion
<1>3. Without(R, w) => Occ(R, w) = 0
  BY OccNone DEF Without
<1>4. Without(S, w) => Occ(S, w) = 0
  BY OccNone DEF Without
<1>5. Occ(U, w) = Occ(R, w) + Occ(S, w)
  BY <1>2
<1> QED BY <1>2, <1>3, <1>4, <1>5

\* Two tables that are to be merged.
LEMMA MergeStart ==
    ASSUME FileInv, NEW R, NEW S, Words(R, S), NEW x, x.out = <<>>,
           Counts(x.data1, R), Counts(x.data2, S)
    PROVE  MergeCounts(x, R, S)
<1>1. PICK a, b : a = x.data1 /\ b = x.data2
  OBVIOUS
<1>2. /\ \A k \in 1..Len(a) : a[k].count = Occ(R, Key(a[k]))
      /\ \A p \in R : Has(a, FileWord(p))
      /\ \A k \in 1..Len(b) : b[k].count = Occ(S, Key(b[k]))
      /\ \A p \in S : Has(b, FileWord(p))
  BY <1>1 DEF Counts
<1>0. PICK U : U = R \cup S
  OBVIOUS
<1>3. ASSUME NEW w, ~Has(b, w) PROVE Occ(U, w) = Occ(R, w)
  <2>1. Without(S, w)
    BY <1>2, <1>3 DEF Without
  <2> QED BY <1>0, <2>1, OccWords
<1>4. \A k \in 1..Len(a) : a[k].count = IF Has(b, Key(a[k])) THEN Occ(R, Key(a[k]))
                                                             ELSE Occ(U, Key(a[k]))
  BY <1>2, <1>3
<1>5. \A k \in 1..Len(<<>>) : FALSE
  OBVIOUS
<1>6. Merges(a, b, <<>>, R, S, U)
  BY <1>2, <1>4, <1>5 DEF Merges
<1> QED BY <1>0, <1>1, <1>6 DEF MergeCounts

\* The words of a table are that of its first entry and those of the others.
LEMMA HasTail ==
    ASSUME NEW s \in Seq(Entries), s # <<>>, NEW w
    PROVE  Has(s, w) <=> Key(Head(s)) = w \/ Has(Tail(s), w)
<1>1. PICK h, r, n : h = Head(s) /\ r = Tail(s) /\ n = Len(s)
  OBVIOUS
<1>2. /\ n \in Nat \ {0} /\ h = s[1] /\ 1 \in 1..n /\ Len(r) = n - 1
      /\ \A k \in 1..(n - 1) : r[k] = s[k + 1] /\ k + 1 \in 1..n
  BY <1>1, TailTable
<1>3. ASSUME NEW k \in 1..n, Key(s[k]) = w PROVE Key(h) = w \/ Has(r, w)
  <2>1. CASE k = 1
    BY <1>2, <1>3, <2>1
  <2>2. CASE k # 1
    <3>1. k - 1 \in 1..(n - 1) /\ (k - 1) + 1 = k
      BY <1>2, <2>2
    <3>2. r[k - 1] = s[k]
      BY <1>2, <3>1
    <3> QED BY <1>2, <1>3, <3>1, <3>2 DEF Has
  <2> QED BY <2>1, <2>2
<1>4. Key(h) = w => Has(s, w)
  BY <1>1, <1>2 DEF Has
<1>5. Has(r, w) => Has(s, w)
  BY <1>1, <1>2 DEF Has
<1> QED BY <1>1, <1>3, <1>4, <1>5 DEF Has

\* The words of a table with one more entry at its end.
LEMMA HasAppend ==
    ASSUME NEW s \in Seq(Entries), NEW e \in Entries, NEW w
    PROVE  Has(Append(s, e), w) <=> Key(e) = w \/ Has(s, w)
<1>1. PICK c, n : c = Append(s, e) /\ n = Len(s)
  OBVIOUS
<1>2. /\ Len(c) = n + 1 /\ n \in Nat
      /\ \A k \in 1..(n + 1) : c[k] = IF k = n + 1 THEN e ELSE s[k]
  BY <1>1, AppendTable
<1>3. ASSUME NEW k \in 1..(n + 1), Key(c[k]) = w PROVE Key(e) = w \/ Has(s, w)
  <2>1. CASE k = n + 1
    BY <1>2, <1>3, <2>1
  <2>2. CASE k # n + 1
    <3>1. k \in 1..n /\ c[k] = s[k]
      BY <1>2, <2>2
    <3> QED BY <1>1, <1>3, <3>1 DEF Has
  <2> QED BY <2>1, <2>2
<1>4. Key(e) = w => Has(c, w)
  <2>1. n + 1 \in 1..(n + 1) /\ c[n + 1] = e
    BY <1>2
  <2> QED BY <1>2, <2>1 DEF Has
<1>5. Has(s, w) => Has(c, w)
  <2>1. \A k \in 1..n : k \in 1..(n + 1) /\ c[k] = s[k]
    BY <1>2
  <2> QED BY <1>1, <1>2, <2>1 DEF Has
<1> QED BY <1>1, <1>2, <1>3, <1>4, <1>5 DEF Has

\* The words of a concatenation.
LEMMA HasConcat ==
    ASSUME NEW r \in Seq(Entries), NEW s \in Seq(Entries), NEW w
    PROVE  Has(r \o s, w) <=> Has(r, w) \/ Has(s, w)
<1>1. PICK c, n, m : c = r \o s /\ n = Len(r) /\ m = Len(s)
  OBVIOUS
<1>2. /\ Len(c) = n + m /\ n \in Nat /\ m \in Nat
      /\ \A k \in 1..(n + m) : c[k] = IF k <= n THEN r[k] ELSE s[k - n]
  BY <1>1, ConcatTable
<1>3. ASSUME NEW k \in 1..(n + m), Key(c[k]) = w PROVE Has(r, w) \/ Has(s, w)
  <2>1. CASE k <= n
    BY <1>1, <1>2, <1>3, <2>1 DEF Has
  <2>2. CASE k > n
    <3>1. k - n \in 1..m /\ c[k] = s[k - n]
      BY <1>2, <2>2
    <3> QED BY <1>1, <1>3, <3>1 DEF Has
  <2> QED BY <1>2, <2>1, <2>2
<1>4. Has(r, w) => Has(c, w)
  <2>1. \A k \in 1..n : k \in 1..(n + m) /\ c[k] = r[k]
    BY <1>2
  <2> QED BY <1>1, <1>2, <2>1 DEF Has
<1>5. Has(s, w) => Has(c, w)
  <2>1. \A k \in 1..m : k + n \in 1..(n + m) /\ c[k + n] = s[k]
    BY <1>2
  <2> QED BY <1>1, <1>2, <2>1 DEF Has
<1> QED BY <1>1, <1>2, <1>3, <1>4, <1>5 DEF Has

\* Two entries of the same word become one.
LEMMA MergeSame ==
    ASSUME FileInv, NEW x, Merging(x), NEW R, NEW S, Words(R, S), MergeCounts(x, R, S),
           NEW y, Next1(x, y)
    PROVE  MergeCounts(y, R, S)
<1>0. PICK U : U = R \cup S
  OBVIOUS
<1>1. PICK a, b, o, c, d : /\ a = x.data1 /\ b = x.data2 /\ o = x.out
                           /\ c = y.data1 /\ d = y.data2
  OBVIOUS
<1>2. /\ Good(a) /\ Good(b) /\ Good(o) /\ a \in Seq(Entries) /\ b \in Seq(Entries)
  BY <1>1 DEF Merging, Good, Stored
<1>3. /\ y.out = o /\ d = Tail(b) /\ c = [a EXCEPT ![1].count = @ + Head(b).count]
      /\ Head(b).count \in Nat /\ a # <<>> /\ b # <<>>
  <2>1. /\ y.out = x.out /\ y.data2 = Tail(x.data2)
        /\ y.data1 = [x.data1 EXCEPT ![1].count = @ + Head(x.data2).count]
        /\ Head(x.data2).count \in Nat
    BY MergeTables, Zenon
  <2> QED BY <1>1, <2>1 DEF Next1
<1>4. PICK v, n : v = Key(Head(b)) /\ n = Head(b).count
  OBVIOUS
<1>5. Key(Head(a)) = v
  BY <1>1, <1>4 DEF Next1
<1>6. CountedUp(c, a, 1, n)
  <2>1. AllBefore(o, a)
    BY <1>1 DEF Merging
  <2>2. LET z == [a EXCEPT ![1].count = @ + n] IN CountedUp(z, a, 1, n)
    BY <1>2, <1>3, <1>4, <2>1, CountFirst
  <2> QED BY <1>3, <1>4, <2>2
<1>7. /\ Len(a) \in Nat \ {0} /\ Key(a[1]) = v
      /\ Len(c) = Len(a) /\ \A k \in 1..Len(a) : Key(c[k]) = Key(a[k])
      /\ c[1].count = a[1].count + n
      /\ \A k \in 1..Len(a) : k # 1 => c[k].count = a[k].count
      /\ 1 \in 1..Len(a)
  <2>1. Len(a) \in Nat \ {0} /\ Head(a) = a[1] /\ 1 \in 1..Len(a)
    BY <1>2, <1>3, TailTable
  <2> QED BY <1>5, <1>6, <2>1 DEF CountedUp, Key
<1>8. /\ Len(b) \in Nat \ {0} /\ Head(b) = b[1] /\ 1 \in 1..Len(b) /\ Len(d) = Len(b) - 1
      /\ \A k \in 1..(Len(b) - 1) : d[k] = b[k + 1] /\ k + 1 \in 1..Len(b)
  BY <1>2, <1>3, TailTable
<1>9. /\ \A p \in R : Has(a, FileWord(p)) \/ Has(o, FileWord(p))
      /\ \A p \in S : Has(b, FileWord(p)) \/ Has(a, FileWord(p)) \/ Has(o, FileWord(p))
      /\ \A k \in 1..Len(o) : o[k].count = Occ(U, Key(o[k]))
      /\ \A k \in 1..Len(a) : a[k].count = IF Has(b, Key(a[k])) THEN Occ(R, Key(a[k]))
                                                              ELSE Occ(U, Key(a[k]))
      /\ \A k \in 1..Len(b) : b[k].count = Occ(S, Key(b[k]))
  BY <1>0, <1>1 DEF MergeCounts, Merges
<1>10. \A w : Has(c, w) <=> Has(a, w)
  BY <1>7 DEF Has
<1>11. Has(a, v) /\ Has(b, v)
  BY <1>4, <1>7, <1>8 DEF Has
<1>12. \A w : Has(b, w) <=> w = v \/ Has(d, w)
  BY <1>2, <1>3, <1>4, HasTail
<1>13. ~Has(d, v)
  <2>1. \A k \in 1..Len(d) : Before(v, Key(d[k]))
    BY <1>2, <1>3, <1>4, GoodTail
  <2>2. v \in Texts
    BY <1>2, <1>4, <1>8, StoredTexts DEF Good
  <2> QED BY <2>1, <2>2, BeforeIrreflexive DEF Has
<1>14. /\ \A p \in R : Has(c, FileWord(p)) \/ Has(o, FileWord(p))
       /\ \A p \in S : Has(d, FileWord(p)) \/ Has(c, FileWord(p)) \/ Has(o, FileWord(p))
  BY <1>9, <1>10, <1>11, <1>12
<1>15. \A k \in 1..Len(d) : d[k].count = Occ(S, Key(d[k]))
  BY <1>8, <1>9
<1>16. \A k \in 1..Len(c) : c[k].count = IF Has(d, Key(c[k])) THEN Occ(R, Key(c[k]))
                                                            ELSE Occ(U, Key(c[k]))
  <2> SUFFICES ASSUME NEW k \in 1..Len(a)
               PROVE  c[k].count = IF Has(d, Key(a[k])) THEN Occ(R, Key(a[k]))
                                                       ELSE Occ(U, Key(a[k]))
    BY <1>7
  <2>1. CASE k = 1
    <3>1. a[1].count = Occ(R, v) /\ n = Occ(S, v)
      BY <1>4, <1>7, <1>8, <1>9, <1>11
    <3>2. Occ(U, v) = Occ(R, v) + Occ(S, v)
      BY <1>0, OccWords
    <3> QED BY <1>7, <1>13, <2>1, <3>1, <3>2
  <2>2. CASE k # 1
    <3>1. Key(a[k]) # v
      <4>1. Before(Key(a[1]), Key(a[k]))
        <5>1. 1 < k
          BY <1>7, <2>2
        <5> QED BY <1>2, <1>7, <5>1 DEF Good, InOrder
      <4>2. Key(a[1]) \in Texts
        BY <1>2, <1>7, StoredTexts DEF Good
      <4> QED BY <1>7, <4>1, <4>2, BeforeIrreflexive
    <3>2. Has(d, Key(a[k])) <=> Has(b, Key(a[k]))
      BY <1>12, <3>1
    <3> QED BY <1>7, <1>9, <2>2, <3>2
  <2> QED BY <2>1, <2>2
<1>17. c = y.data1 /\ d = y.data2 /\ o = y.out
  BY <1>1, <1>3
<1>18. Merges(c, d, o, R, S, U)
  BY <1>9, <1>14, <1>15, <1>16 DEF Merges
<1> QED BY <1>0, <1>17, <1>18 DEF MergeCounts

\* The smaller of two first entries has all counts of its word: it is in no other table.
LEMMA MergeFirst ==
    ASSUME FileInv, NEW x, Merging(x), NEW R, NEW S, Words(R, S), MergeCounts(x, R, S),
           NEW y, Next2(x, y)
    PROVE  MergeCounts(y, R, S)
<1>0. PICK U : U = R \cup S
  OBVIOUS
<1>1. PICK a, b, o, c, d, h : /\ a = x.data1 /\ b = x.data2 /\ o = x.out
                              /\ c = y.data1 /\ d = y.out /\ h = Head(a)
  OBVIOUS
<1>2. /\ Good(a) /\ Good(b) /\ Good(o) /\ a \in Seq(Entries) /\ b \in Seq(Entries)
      /\ o \in Seq(Entries)
  BY <1>1 DEF Merging, Good, Stored
<1>3. /\ y.data2 = b /\ c = Tail(a) /\ d = Append(o, h) /\ a # <<>> /\ b # <<>>
      /\ Before(Key(h), Key(Head(b)))
  <2>1. y.data2 = x.data2 /\ y.data1 = Tail(x.data1) /\ y.out = Append(x.out, Head(x.data1))
    BY MergeTables, Zenon
  <2> QED BY <1>1, <2>1 DEF Next2
<1>4. /\ Len(a) \in Nat \ {0} /\ h = a[1] /\ 1 \in 1..Len(a) /\ Len(c) = Len(a) - 1
      /\ \A k \in 1..(Len(a) - 1) : c[k] = a[k + 1] /\ k + 1 \in 1..Len(a)
  BY <1>1, <1>2, <1>3, TailTable
<1>5. h \in Entries
  BY <1>2, <1>4, ElementOfSeq
<1>6. /\ Len(d) = Len(o) + 1 /\ Len(o) \in Nat
      /\ \A k \in 1..(Len(o) + 1) : d[k] = IF k = Len(o) + 1 THEN h ELSE o[k]
  BY <1>2, <1>3, <1>5, AppendTable
<1>7. PICK v : v = Key(h)
  OBVIOUS
<1>8. \A w : /\ Has(a, w) <=> v = w \/ Has(c, w)
             /\ Has(d, w) <=> v = w \/ Has(o, w)
  BY <1>1, <1>2, <1>3, <1>5, <1>7, HasTail, HasAppend
<1>9. ~Has(b, v)
  <2>1. AllBefore(d, b) /\ Good(d)
    <3>1. AllBefore(o, a) /\ AllBefore(o, b)
      BY <1>1 DEF Merging
    <3> QED BY <1>1, <1>2, <1>3, <3>1, TakeSmaller
  <2>2. Has(d, v)
    BY <1>8
  <2>3. Stored(d) /\ Stored(b)
    BY <1>2, <2>1 DEF Good
  <2> QED BY <2>1, <2>2, <2>3, BeforeHas
<1>10. Merges(a, b, o, R, S, U)
  BY <1>0, <1>1 DEF MergeCounts
<1>11. h.count = Occ(U, v)
  BY <1>4, <1>7, <1>9, <1>10 DEF Merges
<1>12. \A k \in 1..Len(d) : d[k].count = Occ(U, Key(d[k]))
  <2> SUFFICES ASSUME NEW k \in 1..(Len(o) + 1) PROVE d[k].count = Occ(U, Key(d[k]))
    BY <1>6
  <2>1. CASE k = Len(o) + 1
    BY <1>6, <1>7, <1>11, <2>1
  <2>2. CASE k # Len(o) + 1
    <3>1. k \in 1..Len(o) /\ d[k] = o[k]
      BY <1>6, <2>2
    <3> QED BY <1>10, <3>1 DEF Merges
  <2> QED BY <2>1, <2>2
<1>13. /\ \A p \in R : Has(c, FileWord(p)) \/ Has(d, FileWord(p))
       /\ \A p \in S : Has(b, FileWord(p)) \/ Has(c, FileWord(p)) \/ Has(d, FileWord(p))
  BY <1>8, <1>10 DEF Merges
<1>14. \A k \in 1..Len(c) : c[k].count = IF Has(b, Key(c[k])) THEN Occ(R, Key(c[k]))
                                                            ELSE Occ(U, Key(c[k]))
  <2> SUFFICES ASSUME NEW k \in 1..(Len(a) - 1)
               PROVE  c[k].count = IF Has(b, Key(c[k])) THEN Occ(R, Key(c[k]))
                                                       ELSE Occ(U, Key(c[k]))
    BY <1>4
  <2>1. PICK l \in 1..Len(a) : c[k] = a[l]
    BY <1>4
  <2> QED BY <1>10, <2>1 DEF Merges
<1>15. Merges(c, b, d, R, S, U)
  BY <1>10, <1>12, <1>13, <1>14 DEF Merges
<1>16. c = y.data1 /\ b = y.data2 /\ d = y.out
  BY <1>1, <1>3
<1> QED BY <1>0, <1>15, <1>16 DEF MergeCounts

\* The first entry of the second table is taken.
LEMMA MergeSecond ==
    ASSUME FileInv, NEW x, Merging(x), NEW R, NEW S, Words(R, S), MergeCounts(x, R, S),
           NEW y, Next3(x, y)
    PROVE  MergeCounts(y, R, S)
<1>0. PICK U : U = R \cup S
  OBVIOUS
<1>1. PICK a, b, o, c, d, h : /\ a = x.data1 /\ b = x.data2 /\ o = x.out
                              /\ c = y.data2 /\ d = y.out /\ h = Head(b)
  OBVIOUS
<1>2. /\ Good(a) /\ Good(b) /\ Good(o) /\ a \in Seq(Entries) /\ b \in Seq(Entries)
      /\ o \in Seq(Entries) /\ AllBefore(o, a) /\ AllBefore(o, b)
  BY <1>1 DEF Merging, Good, Stored
<1>3. /\ y.data1 = a /\ c = Tail(b) /\ d = Append(o, h) /\ a # <<>> /\ b # <<>>
      /\ Before(Key(h), Key(Head(a)))
  <2>1. y.data1 = x.data1 /\ y.data2 = Tail(x.data2) /\ y.out = Append(x.out, Head(x.data2))
    BY MergeTables, Zenon
  <2> QED BY <1>1, <2>1 DEF Next3
<1>4. /\ Len(b) \in Nat \ {0} /\ h = b[1] /\ 1 \in 1..Len(b) /\ Len(c) = Len(b) - 1
      /\ \A k \in 1..(Len(b) - 1) : c[k] = b[k + 1] /\ k + 1 \in 1..Len(b)
  BY <1>1, <1>2, <1>3, TailTable
<1>5. h \in Entries
  BY <1>2, <1>4, ElementOfSeq
<1>6. /\ Len(d) = Len(o) + 1 /\ Len(o) \in Nat
      /\ \A k \in 1..(Len(o) + 1) : d[k] = IF k = Len(o) + 1 THEN h ELSE o[k]
  BY <1>2, <1>3, <1>5, AppendTable
<1>7. PICK v : v = Key(h)
  OBVIOUS
<1>8. \A w : /\ Has(b, w) <=> v = w \/ Has(c, w)
             /\ Has(d, w) <=> v = w \/ Has(o, w)
  BY <1>1, <1>2, <1>3, <1>5, <1>7, HasTail, HasAppend
<1>9. ~Has(a, v) /\ ~Has(o, v)
  <2>1. AllBefore(d, a) /\ Good(d)
    BY <1>1, <1>2, <1>3, TakeSmaller
  <2>2. Has(d, v) /\ Has(b, v)
    BY <1>8
  <2>3. Stored(d) /\ Stored(a) /\ Stored(b) /\ Stored(o)
    BY <1>2, <2>1 DEF Good
  <2>4. ~Has(a, v)
    BY <2>1, <2>2, <2>3, BeforeHas
  <2>5. Has(o, v) => ~Has(b, v)
    BY <1>2, <2>3, BeforeHas
  <2> QED BY <2>2, <2>4, <2>5
<1>10. Merges(a, b, o, R, S, U)
  BY <1>0, <1>1 DEF MergeCounts
<1>11. h.count = Occ(U, v)
  <2>1. h.count = Occ(S, v)
    BY <1>4, <1>7, <1>10 DEF Merges
  <2>2. Without(R, v)
    BY <1>9, <1>10 DEF Merges, Without
  <2> QED BY <1>0, <2>1, <2>2, OccWords
<1>12. \A k \in 1..Len(d) : d[k].count = Occ(U, Key(d[k]))
  <2> SUFFICES ASSUME NEW k \in 1..(Len(o) + 1) PROVE d[k].count = Occ(U, Key(d[k]))
    BY <1>6
  <2>1. CASE k = Len(o) + 1
    BY <1>6, <1>7, <1>11, <2>1
  <2>2. CASE k # Len(o) + 1
    <3>1. k \in 1..Len(o) /\ d[k] = o[k]
      BY <1>6, <2>2
    <3> QED BY <1>10, <3>1 DEF Merges
  <2> QED BY <2>1, <2>2
<1>13. /\ \A p \in R : Has(a, FileWord(p)) \/ Has(d, FileWord(p))
       /\ \A p \in S : Has(c, FileWord(p)) \/ Has(a, FileWord(p)) \/ Has(d, FileWord(p))
  BY <1>8, <1>10 DEF Merges
<1>14. \A k \in 1..Len(c) : c[k].count = Occ(S, Key(c[k]))
  BY <1>4, <1>10 DEF Merges
<1>15. \A k \in 1..Len(a) : a[k].count = IF Has(c, Key(a[k])) THEN Occ(R, Key(a[k]))
                                                            ELSE Occ(U, Key(a[k]))
  <2> SUFFICES ASSUME NEW k \in 1..Len(a)
               PROVE  Has(c, Key(a[k])) <=> Has(b, Key(a[k]))
    BY <1>10 DEF Merges
  <2>1. Key(a[k]) # v
    BY <1>9 DEF Has
  <2> QED BY <1>8, <2>1
<1>16. Merges(a, c, d, R, S, U)
  BY <1>12, <1>13, <1>14, <1>15 DEF Merges
<1>17. a = y.data1 /\ c = y.data2 /\ d = y.out
  BY <1>1, <1>3
<1> QED BY <1>0, <1>16, <1>17 DEF MergeCounts

\* When one table is empty, the rest of the other has all counts of its words.
LEMMA MergeEnd ==
    ASSUME FileInv, NEW x, Merging(x), NEW R, NEW S, Words(R, S), MergeCounts(x, R, S),
           NEW y, Next4(x, y)
    PROVE  Counts(y.out, R \cup S)
<1>0. PICK U : U = R \cup S
  OBVIOUS
<1>1. PICK a, b, o, c, d : /\ a = x.data1 /\ b = x.data2 /\ o = x.out
                           /\ c = o \o a /\ d = c \o b
  OBVIOUS
<1>2. /\ Good(a) /\ Good(b) /\ Good(o) /\ a \in Seq(Entries) /\ b \in Seq(Entries)
      /\ o \in Seq(Entries) /\ AllBefore(o, a) /\ AllBefore(o, b)
  BY <1>1 DEF Merging, Good, Stored
<1>3. y.out = d /\ (a = <<>> \/ b = <<>>)
  BY <1>1 DEF Next4
<1>4. /\ c \in Seq(Entries) /\ Len(c) = Len(o) + Len(a) /\ Len(o) \in Nat /\ Len(a) \in Nat
      /\ \A k \in 1..(Len(o) + Len(a)) : c[k] = IF k <= Len(o) THEN o[k] ELSE a[k - Len(o)]
  BY <1>1, <1>2, ConcatTable
<1>5. /\ Len(d) = Len(c) + Len(b) /\ Len(c) \in Nat /\ Len(b) \in Nat
      /\ \A k \in 1..(Len(c) + Len(b)) : d[k] = IF k <= Len(c) THEN c[k] ELSE b[k - Len(c)]
  <2>1. d = c \o b /\ c \in Seq(Entries) /\ b \in Seq(Entries)
    BY <1>1, <1>2, <1>4
  <2> QED BY <2>1, ConcatTable
<1>6. \A w : Has(d, w) <=> Has(o, w) \/ Has(a, w) \/ Has(b, w)
  <2>1. \A w : Has(c, w) <=> Has(o, w) \/ Has(a, w)
    BY <1>1, <1>2, HasConcat
  <2>2. \A w : Has(d, w) <=> Has(c, w) \/ Has(b, w)
    BY <1>1, <1>2, <1>4, HasConcat
  <2> QED BY <2>1, <2>2
<1>7. Merges(a, b, o, R, S, U)
  BY <1>0, <1>1 DEF MergeCounts
<1>8. ASSUME NEW k \in 1..Len(a) PROVE a[k].count = Occ(U, Key(a[k]))
  <2>1. ~Has(b, Key(a[k]))
    <3>1. b = <<>>
      <4>1. a # <<>>
        BY <1>8
      <4> QED BY <1>3, <4>1
    <3>2. Len(b) = 0
      BY <3>1
    <3> QED BY <3>2 DEF Has
  <2> QED BY <1>7, <2>1 DEF Merges
<1>9. ASSUME NEW k \in 1..Len(b) PROVE b[k].count = Occ(U, Key(b[k]))
  <2>1. PICK v : v = Key(b[k])
    OBVIOUS
  <2>2. Has(b, v)
    BY <2>1 DEF Has
  <2>3. ~Has(a, v)
    <3>1. a = <<>>
      <4>1. b # <<>>
        BY <1>9
      <4> QED BY <1>3, <4>1
    <3>2. Len(a) = 0
      BY <3>1
    <3> QED BY <3>2 DEF Has
  <2>4. ~Has(o, v)
    <3>1. Stored(o) /\ Stored(b)
      BY <1>2 DEF Good
    <3> QED BY <1>2, <2>2, <3>1, BeforeHas
  <2>5. Without(R, v)
    BY <1>7, <2>3, <2>4 DEF Merges, Without
  <2>6. b[k].count = Occ(S, v)
    BY <1>7, <2>1 DEF Merges
  <2> QED BY <1>0, <2>1, <2>5, <2>6, OccWords
<1>10. \A k \in 1..Len(d) : d[k].count = Occ(U, Key(d[k]))
  <2> SUFFICES ASSUME NEW k \in 1..(Len(c) + Len(b)) PROVE d[k].count = Occ(U, Key(d[k]))
    BY <1>5
  <2>1. \/ \E l \in 1..Len(o) : d[k] = o[l]
        \/ \E l \in 1..Len(a) : d[k] = a[l]
        \/ \E l \in 1..Len(b) : d[k] = b[l]
    <3>1. CASE k <= Len(o)
      <4>1. k \in 1..Len(o) /\ d[k] = o[k]
        BY <1>4, <1>5, <3>1
      <4> QED BY <4>1
    <3>2. CASE k > Len(o) /\ k <= Len(c)
      <4>1. k \in 1..(Len(o) + Len(a)) /\ d[k] = c[k] /\ k - Len(o) \in 1..Len(a)
        BY <1>4, <1>5, <3>2
      <4>2. c[k] = a[k - Len(o)]
        BY <1>4, <3>2, <4>1
      <4> QED BY <4>1, <4>2
    <3>3. CASE k > Len(c)
      <4>1. k - Len(c) \in 1..Len(b) /\ d[k] = b[k - Len(c)]
        BY <1>5, <3>3
      <4> QED BY <4>1
    <3> QED BY <1>4, <1>5, <3>1, <3>2, <3>3
  <2>2. \A l \in 1..Len(o) : o[l].count = Occ(U, Key(o[l]))
    BY <1>7 DEF Merges
  <2> QED BY <1>8, <1>9, <2>1, <2>2
<1>11. ASSUME NEW p \in U PROVE Has(d, FileWord(p))
  <2>1. Has(a, FileWord(p)) \/ Has(b, FileWord(p)) \/ Has(o, FileWord(p))
    BY <1>0, <1>7 DEF Merges
  <2> QED BY <1>6, <2>1
<1> QED BY <1>0, <1>3, <1>10, <1>11 DEF Counts

-----------------------------------------------------------------------------
(* The map phase keeps the counts. *)

LEMMA MapCountsStay ==
    ASSUME file' = file, NEW t, words'[t] = words[t], thr'[t] = thr[t], NEW b
    PROVE  MapCounts(t, b)' = MapCounts(t, b)
<1>1. PICK s, x : s = words[t] /\ x = thr[t]
  OBVIOUS
<1>2. Reached(x)' = Reached(x)
  BY DEF Reached
<1>3. \A c, d : Counts(s, Between(c, d))' = Counts(s, Between(c, d))
  BY CountsKept
<1>4. words'[t] = s /\ thr'[t] = x
  BY <1>1
<1>5. Reached(thr[t])' = Reached(thr[t])
  BY <1>1, <1>2, <1>4
<1> QED BY <1>1, <1>3, <1>4, <1>5 DEF MapCounts

\* How far a step of a thread takes it, and what it counts.
MapTo(x, y, new, s) ==
    \/ /\ y.at = "map" /\ y.start = x.start /\ y.length = x.length /\ new = s
       /\ \/ Reached(y) = Reached(x)
          \/ Reached(y) = Reached(x) + 1 /\ ~Letter(Char(Reached(x)))
    \/ /\ y.at = "map" /\ y.start = x.start /\ y.length = x.length
       /\ \E q : WordAt(Reached(x), q) /\ Reached(y) = q + 1
       /\ Counted(new, s, Reached(x))
    \/ /\ y.at = "ended"
       /\ \/ Reached(x) = x.start + x.length /\ new = s
          \/ WordAt(Reached(x), x.start + x.length) /\ Counted(new, s, Reached(x))

\* A word begins, and none is counted.
LEMMA StartWordTo ==
    ASSUME IInv, NEW t \in Procs, StartWord(t)
    PROVE  \E y : thr' = [thr EXCEPT ![t] = y] /\ MapTo(thr[t], y, words'[t], words[t])
<1>1. PICK x, q : x = thr[t] /\ q = At(t)
  OBVIOUS
<1>2. Turn(t) /\ ~x.in_word /\ words' = words
  BY <1>1 DEF StartWord
<1>3. /\ Reading(x) /\ q = x.start + x.i /\ q \in 0..(flen - 1) /\ x.i \in Nat /\ flen \in Nat
  BY <1>1, <1>2, Place
<1>4. PICK y : y = [x EXCEPT !.curr_start = q, !.in_word = TRUE, !.i = x.i + 1]
  OBVIOUS
<1>5. thr' = [thr EXCEPT ![t] = y]
  BY <1>1, <1>4 DEF StartWord
<1>6. y.at = "map" /\ y.start = x.start /\ y.length = x.length /\ y.curr_start = q /\ y.in_word
  <2>1. x \in [at : {"map"}, start : 0..flen, length : 0..flen, i : 0..flen,
               curr_start : 0..flen, in_word : BOOLEAN]
    BY <1>3 DEF Reading
  <2> QED BY <1>4, <2>1
<1>7. Reached(x) = q /\ Reached(y) = q
  BY <1>2, <1>3, <1>6 DEF Reached
<1>8. MapTo(x, y, words'[t], words[t])
  BY <1>2, <1>6, <1>7 DEF MapTo
<1> QED BY <1>1, <1>5, <1>8

\* A character is skipped at which no word starts.
LEMMA SkipTo ==
    ASSUME IInv, NEW t \in Procs, Skip(t)
    PROVE  \E y : thr' = [thr EXCEPT ![t] = y] /\ MapTo(thr[t], y, words'[t], words[t])
<1>1. PICK x, q : x = thr[t] /\ q = At(t)
  OBVIOUS
<1>2. Turn(t) /\ ~x.in_word /\ words' = words /\ ~Letter(toupper(data[q]))
  BY <1>1 DEF Skip
<1>3. /\ Reading(x) /\ q = x.start + x.i /\ q \in 0..(flen - 1) /\ x.i \in 0..flen
      /\ x.start \in 0..flen /\ flen \in Nat
  BY <1>1, <1>2, Place
<1>4. PICK y : y = [x EXCEPT !.i = x.i + 1]
  OBVIOUS
<1>5. thr' = [thr EXCEPT ![t] = y]
  BY <1>1, <1>4 DEF Skip
<1>6. y.at = "map" /\ y.start = x.start /\ y.length = x.length /\ ~y.in_word /\ y.i = x.i + 1
  <2>1. x \in [at : {"map"}, start : 0..flen, length : 0..flen, i : 0..flen,
               curr_start : 0..flen, in_word : BOOLEAN]
    BY <1>3 DEF Reading
  <2> QED BY <1>2, <1>4, <2>1
<1>7. Reached(x) = q /\ Reached(y) = q + 1
  BY <1>2, <1>3, <1>6 DEF Reached
<1>8. ~Letter(Char(q))
  <2>1. DataInv
    BY DEF IInv
  <2>2. CASE InsideWord(toupper(data[q]))
    BY <1>2, <1>3, <2>1, <2>2, ReadChar
  <2>3. CASE ~InsideWord(toupper(data[q]))
    BY <1>3, <2>1, <2>3, ReadChar DEF InsideWord
  <2> QED BY <2>2, <2>3
<1>9. MapTo(x, y, words'[t], words[t])
  BY <1>2, <1>6, <1>7, <1>8 DEF MapTo
<1> QED BY <1>1, <1>5, <1>9

\* A word goes on, and none is counted.
LEMMA ExtendWordTo ==
    ASSUME IInv, NEW t \in Procs, ExtendWord(t)
    PROVE  \E y : thr' = [thr EXCEPT ![t] = y] /\ MapTo(thr[t], y, words'[t], words[t])
<1>1. PICK x : x = thr[t]
  OBVIOUS
<1>2. Turn(t) /\ x.in_word /\ words' = words
  BY <1>1 DEF ExtendWord
<1>3. Reading(x)
  BY <1>1, <1>2, Place
<1>4. PICK y : y = [x EXCEPT !.i = x.i + 1]
  OBVIOUS
<1>5. thr' = [thr EXCEPT ![t] = y]
  BY <1>1, <1>4 DEF ExtendWord
<1>6. /\ y.at = "map" /\ y.start = x.start /\ y.length = x.length /\ y.in_word
      /\ y.curr_start = x.curr_start
  <2>1. x \in [at : {"map"}, start : 0..flen, length : 0..flen, i : 0..flen,
               curr_start : 0..flen, in_word : BOOLEAN]
    BY <1>3 DEF Reading
  <2> QED BY <1>2, <1>4, <2>1
<1>7. Reached(y) = Reached(x)
  BY <1>2, <1>6 DEF Reached
<1>8. MapTo(x, y, words'[t], words[t])
  BY <1>2, <1>6, <1>7 DEF MapTo
<1> QED BY <1>1, <1>5, <1>8

\* A word ends and is counted.
LEMMA EndWordTo ==
    ASSUME IInv, NEW t \in Procs, EndWord(t), file' = file
    PROVE  \E y : thr' = [thr EXCEPT ![t] = y] /\ MapTo(thr[t], y, words'[t], words[t])
<1>1. PICK x, q, p : x = thr[t] /\ q = At(t) /\ p = x.curr_start
  OBVIOUS
<1>2. /\ Turn(t) /\ x.in_word /\ ~InsideWord(toupper(data[q]))
      /\ data' = [data EXCEPT ![q] = 0] /\ wordcount_reduce(t, thr[t].curr_start)
  BY <1>1 DEF EndWord
<1>3. /\ Reading(x) /\ q = x.start + x.i /\ q \in 0..(flen - 1) /\ x.i \in 0..flen
      /\ x.start \in 0..flen /\ flen \in Nat /\ x.at = "map"
  BY <1>1, <1>2, Place
<1>4. ~InsideWord(Char(q))
  <2>1. DataInv
    BY DEF IInv
  <2> QED BY <1>2, <1>3, <2>1, ReadChar
<1>5. WordAt(p, q) /\ Counted(words'[t], words[t], p)
  BY <1>1, <1>2, <1>3, <1>4, WordStored
<1>6. PICK y : y = [x EXCEPT !.in_word = FALSE, !.i = x.i + 1]
  OBVIOUS
<1>7. thr' = [thr EXCEPT ![t] = y]
  BY <1>1, <1>6 DEF EndWord
<1>8. y.at = "map" /\ y.start = x.start /\ y.length = x.length /\ ~y.in_word /\ y.i = x.i + 1
  <2>1. x \in [at : {"map"}, start : 0..flen, length : 0..flen, i : 0..flen,
               curr_start : 0..flen, in_word : BOOLEAN]
    BY <1>3 DEF Reading
  <2> QED BY <1>6, <2>1
<1>9. Reached(x) = p /\ Reached(y) = q + 1
  BY <1>1, <1>2, <1>3, <1>8 DEF Reached
<1>10. MapTo(x, y, words'[t], words[t])
  BY <1>5, <1>8, <1>9 DEF MapTo
<1> QED BY <1>1, <1>7, <1>10

\* The section ends, and the word that reaches its end is counted.
LEMMA LastWordTo ==
    ASSUME IInv, NEW t \in Procs, LastWord(t), file' = file
    PROVE  \E y : thr' = [thr EXCEPT ![t] = y] /\ MapTo(thr[t], y, words'[t], words[t])
<1>1. PICK x, q : x = thr[t] /\ q = SectionBorder(t)
  OBVIOUS
<1>2. PICK y : y = [at |-> "ended"]
  OBVIOUS
<1>3. /\ x.at = "map" /\ x.i = x.length /\ thr' = [thr EXCEPT ![t] = y] /\ y.at = "ended"
      /\ IF x.in_word THEN data' = [data EXCEPT ![q] = 0]
                           /\ wordcount_reduce(t, thr[t].curr_start)
                      ELSE words' = words
  BY <1>1, <1>2 DEF LastWord
<1>4. /\ Reading(x) /\ q = x.start + x.i /\ q = x.start + x.length
      /\ q = flen \/ ~InsideWord(Char(q))
  <2>1. Reading(x)
    BY <1>1, <1>3, Mapping
  <2> QED BY <1>1, <1>3, <2>1 DEF Reading, SectionBorder
<1>5. CASE x.in_word
  <2>1. WordAt(x.curr_start, q) /\ Counted(words'[t], words[t], x.curr_start)
    BY <1>1, <1>3, <1>4, <1>5, WordStored
  <2>2. Reached(x) = x.curr_start
    BY <1>5 DEF Reached
  <2>3. MapTo(x, y, words'[t], words[t])
    BY <1>3, <1>4, <2>1, <2>2 DEF MapTo
  <2> QED BY <1>1, <1>3, <2>3
<1>6. CASE ~x.in_word
  <2>1. Reached(x) = q
    BY <1>4, <1>6 DEF Reached
  <2>2. MapTo(x, y, words'[t], words[t])
    BY <1>3, <1>4, <1>6, <2>1 DEF MapTo
  <2> QED BY <1>1, <1>3, <2>2
<1> QED BY <1>5, <1>6

\* A step of a thread keeps its table right up to where it has come.
LEMMA MapCountsOne ==
    ASSUME IInv, file' = file, NEW t \in Procs, thr[t].at = "map",
           NEW y, thr' = [thr EXCEPT ![t] = y], MapTo(thr[t], y, words'[t], words[t]),
           NEW b, MapCounts(t, b)
    PROVE  MapCounts(t, b)'
<1>1. PICK x, s, new, p, a, e : /\ x = thr[t] /\ s = words[t] /\ new = words'[t]
                                /\ p = Reached(x) /\ a = b[t] /\ e = b[t + 1]
  OBVIOUS
<1>2. /\ x.start = a /\ x.start + x.length = e /\ Counts(s, Between(a, p))
  BY <1>1 DEF MapCounts
<1>3. FileInv /\ flen \in Nat /\ DOMAIN thr = Procs /\ InMap /\ Reading(x)
  BY <1>1, Mapping, ControlTypes
<1>4. a \in Nat /\ p \in Nat /\ a <= p
  <2>1. /\ x.start \in 0..flen /\ x.i \in 0..flen /\ x.curr_start \in 0..flen
        /\ x.in_word => x.curr_start \in x.start..(x.start + x.i - 1)
    BY <1>3 DEF Reading
  <2>2. CASE x.in_word
    <3>1. p = x.curr_start
      BY <1>1, <2>2 DEF Reached
    <3> QED BY <1>2, <1>3, <2>1, <2>2, <3>1
  <2>3. CASE ~x.in_word
    <3>1. p = x.start + x.i
      BY <1>1, <2>3 DEF Reached
    <3> QED BY <1>2, <1>3, <2>1, <3>1
  <2> QED BY <2>2, <2>3
<1>5. Stored(s) /\ Distinct(s)
  <2>1. Good(s)
    BY <1>1, <1>3 DEF IInv, TablesInv, Good
  <2> QED BY <1>3, <2>1, GoodDistinct
<1>6. ASSUME NEW q, WordAt(p, q), Counted(new, s, p)
      PROVE  Counts(new, Between(a, q)) /\ Counts(new, Between(a, q + 1))
  <2>1. PICK S : S = Between(a, p)
    OBVIOUS
  <2>2. /\ Between(a, q) = S \cup {p} /\ Between(a, q + 1) = S \cup {p}
        /\ p \in WordStarts /\ p \notin S /\ S \subseteq WordStarts
    BY <1>3, <1>4, <1>6, <2>1, WordEnds
  <2>3. Counts(new, S \cup {p})
    BY <1>2, <1>3, <1>5, <1>6, <2>1, <2>2, CountOne
  <2> QED BY <2>2, <2>3
<1>7. \/ /\ y.at = "map" /\ y.start = a /\ y.start + y.length = e
         /\ Counts(new, Between(a, Reached(y)))
      \/ y.at = "ended" /\ Counts(new, Between(a, e))
  <2>1. CASE y.at = "map" /\ y.start = x.start /\ y.length = x.length /\ new = s
             /\ Reached(y) = Reached(x)
    BY <1>1, <1>2, <2>1
  <2>2. CASE y.at = "map" /\ y.start = x.start /\ y.length = x.length /\ new = s
             /\ Reached(y) = Reached(x) + 1 /\ ~Letter(Char(Reached(x)))
    <3>1. Between(a, p + 1) = Between(a, p)
      BY <1>1, <1>3, <1>4, <2>2, NoStart
    <3> QED BY <1>1, <1>2, <2>2, <3>1
  <2>3. CASE /\ y.at = "map" /\ y.start = x.start /\ y.length = x.length
             /\ \E q : WordAt(Reached(x), q) /\ Reached(y) = q + 1
             /\ Counted(new, s, Reached(x))
    <3>1. PICK q : WordAt(p, q) /\ Reached(y) = q + 1
      BY <1>1, <2>3
    <3>2. Counts(new, Between(a, q + 1))
      BY <1>1, <1>6, <2>3, <3>1
    <3> QED BY <1>2, <2>3, <3>1, <3>2
  <2>4. CASE y.at = "ended" /\ Reached(x) = x.start + x.length /\ new = s
    BY <1>1, <1>2, <2>4
  <2>5. CASE /\ y.at = "ended" /\ WordAt(Reached(x), x.start + x.length)
             /\ Counted(new, s, Reached(x))
    <3>1. WordAt(p, e) /\ Counted(new, s, p)
      BY <1>1, <1>2, <2>5
    <3> QED BY <1>6, <2>5, <3>1
  <2>6. MapTo(x, y, new, s)
    BY <1>1
  <2> QED BY <2>1, <2>2, <2>3, <2>4, <2>5, <2>6 DEF MapTo
<1>8. thr'[t] = y /\ words'[t] = new
  BY <1>1, <1>3
<1>9. /\ Counts(new, Between(a, Reached(y)))' <=> Counts(new, Between(a, Reached(y)))
      /\ Counts(new, Between(a, e))' <=> Counts(new, Between(a, e))
  <2>1. \A c : Counts(new, Between(a, c))' <=> Counts(new, Between(a, c))
    BY CountsKept
  <2>2. Reached(y)' = Reached(y)
    BY DEF Reached
  <2> QED BY <2>1, <2>2
<1> QED BY <1>1, <1>7, <1>8, <1>9 DEF MapCounts

\* No step of a counting thread breaks the counts.
LEMMA MapCountInv == \A t \in Procs : IInv /\ CountInv /\ wordcount_map(t) => CountInv'
<1> SUFFICES ASSUME NEW t \in Procs, IInv, CountInv, wordcount_map(t) PROVE CountInv'
  OBVIOUS
<1>1. UNCHANGED <<file, num_procs, fpos, pc, i, num_threads, rem_num>>
  BY DEF wordcount_map, rounds
<1>2. thr[t].at = "map"
  BY DEF wordcount_map, StartWord, Skip, ExtendWord, EndWord, LastWord, Turn
<1>3. InMap /\ DOMAIN thr = Procs /\ DOMAIN words = Procs /\ Procs = 0..(num_procs - 1)
      /\ i \in 0..(num_procs - 1)
  BY <1>2, Mapping, ControlTypes
<1>4. PICK y : thr' = [thr EXCEPT ![t] = y] /\ MapTo(thr[t], y, words'[t], words[t])
  BY <1>1, StartWordTo, SkipTo, ExtendWordTo, EndWordTo, LastWordTo DEF wordcount_map
<1>5. \A u \in Procs : u # t => words'[u] = words[u] /\ thr'[u] = thr[u]
  <2>1. \A u \in Procs : u # t => thr'[u] = thr[u]
    BY <1>3, <1>4
  <2>2. words' = words \/ wordcount_reduce(t, thr[t].curr_start)
    BY DEF wordcount_map, StartWord, Skip, ExtendWord, EndWord, LastWord
  <2>3. \A u \in Procs : u # t => words'[u] = words[u]
    BY <1>3, <2>2 DEF wordcount_reduce
  <2> QED BY <2>1, <2>3
<1>6. ASSUME NEW u \in Procs, NEW b, MapCounts(u, b) PROVE MapCounts(u, b)'
  <2>1. CASE u = t
    BY <1>1, <1>2, <1>4, <1>6, <2>1, MapCountsOne
  <2>2. CASE u # t
    BY <1>1, <1>5, <1>6, <2>2, MapCountsStay
  <2> QED BY <2>1, <2>2
<1>7. \A b, n : Borders(b, n)' = Borders(b, n)
  BY <1>1, FileKept DEF Borders
<1>8. CASE pc = "split"
  <2>1. PICK b : SplitCounts(b)
    BY <1>8 DEF CountInv
  <2>2. \A u \in 0..(i - 1) : MapCounts(u, b)'
    <3> SUFFICES ASSUME NEW u \in 0..(i - 1) PROVE MapCounts(u, b)'
      BY <1>1
    <3>1. MapCounts(u, b)
      BY <2>1 DEF SplitCounts
    <3>2. u \in Procs
      <4>1. num_procs \in Nat
        BY DEF IInv, ControlInv
      <4> QED BY <1>3, <4>1
    <3> QED BY <1>6, <3>1, <3>2
  <2>3. \A u \in i..(num_procs - 1) : words'[u] = <<>>
    <3> SUFFICES ASSUME NEW u \in i..(num_procs - 1) PROVE words'[u] = <<>>
      OBVIOUS
    <3>1. u \in Procs /\ words[u] = <<>> /\ u >= i
      BY <1>3, <2>1 DEF SplitCounts
    <3>2. thr[u].at = "ended"
      BY <1>8, <3>1 DEF IInv, ThreadsInv, ThreadInv
    <3>3. u # t
      BY <1>2, <3>2
    <3> QED BY <1>5, <3>1, <3>3
  <2>4. SplitCounts(b)'
    BY <1>1, <1>7, <2>1, <2>2, <2>3 DEF SplitCounts
  <2> QED BY <1>1, <1>8, <2>4 DEF CountInv, InMap, InMerge
<1>9. CASE pc = "join_map"
  <2>1. PICK b : JoinCounts(b)
    BY <1>9 DEF CountInv
  <2>2. \A u \in 0..(num_procs - 1) : MapCounts(u, b)'
    BY <1>3, <1>6, <2>1 DEF JoinCounts
  <2>3. JoinCounts(b)'
    BY <1>1, <1>7, <2>1, <2>2 DEF JoinCounts
  <2> QED BY <1>1, <1>9, <2>3 DEF CountInv, InMap, InMerge
<1> QED BY <1>3, <1>8, <1>9 DEF InMap

\* A new section begins where the last one ends, and none of its words is counted.
LEMMA SplitCountInv == IInv /\ CountInv /\ Split => CountInv'
<1> SUFFICES ASSUME IInv, CountInv, Split PROVE CountInv'
  OBVIOUS
<1>1. PICK e, x : /\ e = SectionEnd(fpos + SectionLength)
                  /\ x = [at |-> "map", start |-> fpos, length |-> e - fpos,
                          i |-> 0, curr_start |-> fpos, in_word |-> FALSE]
  OBVIOUS
<1>2. /\ pc = "split" /\ thr' = [thr EXCEPT ![i] = x] /\ fpos' = e
      /\ IF i + 1 < num_procs THEN pc' = pc /\ i' = i + 1 ELSE pc' = "join_map" /\ i' = 0
      /\ UNCHANGED <<file, num_procs, words>>
  BY <1>1 DEF Split
<1>3. /\ flen \in Nat /\ num_procs \in Nat \ {0} /\ Procs = 0..(num_procs - 1)
      /\ fpos \in 0..flen /\ i \in 0..(num_procs - 1) /\ DOMAIN thr = Procs
  BY ControlTypes
<1>4. e \in fpos..flen
  BY <1>1, <1>3, SectionEnds DEF IInv
<1>5. PICK n, m, f : n = i /\ m = num_procs /\ f = fpos
  OBVIOUS
<1>6. n \in Nat /\ m \in Nat /\ n < m /\ f \in Nat /\ f <= e
  BY <1>3, <1>4, <1>5
<1>7. PICK b : SplitCounts(b)
  BY <1>2 DEF CountInv
<1>8. PICK c : c = [k \in 0..(n + 1) |-> IF k = n + 1 THEN e ELSE b[k]]
  OBVIOUS
<1>9. c[n + 1] = e /\ \A k \in 0..n : c[k] = b[k]
  BY <1>6, <1>8
<1>10. Borders(c, n + 1)'
  <2>1. Borders(b, n)
    BY <1>5, <1>7 DEF SplitCounts
  <2>2. c \in [0..(n + 1) -> 0..flen]
    BY <1>3, <1>4, <1>6, <1>8, <2>1 DEF Borders
  <2>3. c[0] = 0
    BY <1>6, <1>9, <2>1 DEF Borders
  <2>4. \A k \in 0..n : c[k] <= c[k + 1]
    <3> SUFFICES ASSUME NEW k \in 0..n PROVE c[k] <= c[k + 1]
      OBVIOUS
    <3>1. CASE k = n
      BY <1>5, <1>6, <1>9, <2>1, <3>1 DEF Borders
    <3>2. CASE k # n
      <4>1. k \in 0..(n - 1) /\ k + 1 \in 0..n
        BY <1>6, <3>2
      <4> QED BY <1>9, <2>1, <4>1 DEF Borders
    <3> QED BY <3>1, <3>2
  <2>5. flen' = flen /\ (n + 1) - 1 = n
    BY <1>2, <1>6, FileKept
  <2> QED BY <1>2, <1>9, <2>2, <2>3, <2>4, <2>5 DEF Borders
<1>11. \A u \in 0..n : MapCounts(u, c)'
  <2> SUFFICES ASSUME NEW u \in 0..n PROVE MapCounts(u, c)'
    OBVIOUS
  <2>1. CASE u = n
    <3>1. thr'[u] = x
      BY <1>2, <1>3, <1>5, <2>1
    <3>2. words'[u] = <<>>
      <4>1. u \in i..(num_procs - 1)
        BY <1>5, <1>6, <2>1
      <4> QED BY <1>2, <1>7, <4>1 DEF SplitCounts
    <3>3. c[u] = f /\ c[u + 1] = e
      BY <1>5, <1>6, <1>7, <1>9, <2>1 DEF SplitCounts, Borders
    <3>4. /\ x.at = "map" /\ x.start = f /\ x.start + x.length = e
          /\ Reached(x)' = f
      BY <1>1, <1>5, <1>6, <1>3, <1>4 DEF Reached
    <3>5. Between(f, f)' = {} /\ Counts(<<>>, {})'
      BY <1>2, <1>6, BetweenEmpty, EmptyCounts, CountsKept
    <3> QED BY <3>1, <3>2, <3>3, <3>4, <3>5 DEF MapCounts
  <2>2. CASE u # n
    <3>1. u \in 0..(n - 1) /\ u \in 0..n /\ u + 1 \in 0..n
      BY <1>6, <2>2
    <3>2. MapCounts(u, b)
      BY <1>5, <1>7, <3>1 DEF SplitCounts
    <3>3. thr'[u] = thr[u] /\ words'[u] = words[u]
      BY <1>2, <1>3, <1>5, <1>6, <2>2, <3>1
    <3>4. MapCounts(u, b)'
      BY <1>2, <3>2, <3>3, MapCountsStay
    <3>5. c[u] = b[u] /\ c[u + 1] = b[u + 1]
      BY <1>9, <3>1
    <3> QED BY <3>4, <3>5 DEF MapCounts
  <2> QED BY <2>1, <2>2
<1>12. CASE n + 1 < m
  <2>1. pc' = "split" /\ i' = n + 1 /\ num_procs' = m
    BY <1>2, <1>5, <1>12
  <2>2. \A u \in (n + 1)..(m - 1) : words'[u] = <<>>
    <3>1. \A u \in n..(m - 1) : words[u] = <<>>
      BY <1>5, <1>7 DEF SplitCounts
    <3> QED BY <1>2, <1>6, <3>1
  <2>3. SplitCounts(c)'
    <3>1. (n + 1) - 1 = n
      BY <1>6
    <3> QED BY <1>10, <1>11, <2>1, <2>2, <3>1 DEF SplitCounts
  <2> QED BY <2>1, <2>3 DEF CountInv, InMap, InMerge
<1>13. CASE ~(n + 1 < m)
  <2>1. pc' = "join_map" /\ num_procs' = n + 1 /\ num_procs' - 1 = n
    BY <1>2, <1>5, <1>6, <1>13
  <2>2. JoinCounts(c)'
    BY <1>10, <1>11, <2>1 DEF JoinCounts
  <2> QED BY <2>1, <2>2 DEF CountInv, InMap, InMerge
<1> QED BY <1>12, <1>13

\* A round of merges starts with the tables of M parts of the file.
LEMMA RoundStart ==
    ASSUME file' = file, fpos' = fpos, NEW b, NEW M \in Nat \ {0}, Borders(b, M),
           \A t \in 0..(M - 1) : Counts(words'[t], Between(b[t], b[t + 1])),
           num_threads' = M \div 2, rem_num' = M % 2, i' = 0,
           pc' = IF num_threads' > 0 THEN "create_merge" ELSE "sort"
    PROVE  CountInv'
<1>1. /\ \A s, S : Counts(s, S)' = Counts(s, S)
      /\ \A a, c : Between(a, c)' = Between(a, c)
  BY CountsKept
<1>2. Borders(b, M)'
  BY FileKept DEF Borders
<1>3. \A t \in 0..(M - 1) : Counts(words[t], Between(b[t], b[t + 1]))'
  BY <1>1
<1>4. b[0] = 0 /\ b[M] = fpos
  BY DEF Borders
<1>5. PICK nt, r : nt = num_threads' /\ r = rem_num'
  OBVIOUS
<1>6. nt \in Nat /\ r \in {0, 1} /\ 2 * nt + r = M
  BY <1>5
<1>7. CASE nt = 0
  <2>1. M = 1 /\ pc' = "sort"
    BY <1>5, <1>6, <1>7
  <2>2. Counts(words[0], Between(0, fpos))'
    BY <1>3, <1>4, <2>1
  <2> QED BY <2>1, <2>2 DEF CountInv, InMap, InMerge
<1>8. CASE nt # 0
  <2>1. pc' = "create_merge"
    BY <1>5, <1>6, <1>8
  <2>2. ASSUME NEW t \in 0..(nt - 1) PROVE PairCounts(t, b)'
    <3>1. 2 * t \in 0..(M - 1) /\ 2 * t + 1 \in 0..(M - 1) /\ (2 * t + 1) + 1 = 2 * t + 2
      BY <1>6
    <3>2. TwoCounts(t, b)'
      BY <1>3, <3>1 DEF TwoCounts
    <3>3. ~(t < i')
      BY <1>6
    <3> QED BY <2>1, <3>2, <3>3 DEF PairCounts
  <2>3. r = 1 => Counts(words[2 * nt], Between(b[2 * nt], fpos))'
    <3> SUFFICES ASSUME r = 1 PROVE Counts(words[2 * nt], Between(b[2 * nt], fpos))'
      OBVIOUS
    <3>1. 2 * nt \in 0..(M - 1) /\ 2 * nt + 1 = M
      BY <1>6
    <3> QED BY <1>3, <1>4, <3>1
  <2>4. RoundCounts(b)'
    <3>1. Borders(b, 2 * num_threads + rem_num)'
      BY <1>2, <1>5, <1>6
    <3> QED BY <1>5, <2>2, <2>3, <3>1 DEF RoundCounts
  <2> QED BY <2>1, <2>4 DEF CountInv, InMap, InMerge
<1> QED BY <1>7, <1>8

\* When all sections are counted the rounds of merges start.
LEMMA JoinMapCountInv == IInv /\ CountInv /\ JoinMap => CountInv'
<1> SUFFICES ASSUME IInv, CountInv, JoinMap PROVE CountInv'
  OBVIOUS
<1>1. /\ pc = "join_map" /\ thr[i].at = "ended"
      /\ UNCHANGED <<file, num_procs, fpos, words, thr>>
  BY DEF JoinMap, Joined
<1>2. /\ num_procs \in Nat \ {0} /\ Procs = 0..(num_procs - 1) /\ i \in 0..(num_procs - 1)
  BY ControlTypes
<1>3. PICK b : JoinCounts(b)
  BY <1>1 DEF CountInv
<1>4. CASE i + 1 < num_procs
  <2>1. pc' = "join_map"
    BY <1>1, <1>4 DEF JoinMap
  <2>2. \A t : MapCounts(t, b)' = MapCounts(t, b)
    BY <1>1, MapCountsStay
  <2>3. Borders(b, num_procs)'
    BY <1>1, <1>3, FileKept DEF JoinCounts, Borders
  <2>4. JoinCounts(b)'
    BY <1>1, <1>3, <2>2, <2>3 DEF JoinCounts
  <2> QED BY <2>1, <2>4 DEF CountInv, InMap, InMerge
<1>5. CASE ~(i + 1 < num_procs)
  <2>1. /\ num_threads' = num_procs \div 2 /\ rem_num' = num_procs % 2 /\ i' = 0
        /\ pc' = IF num_threads' > 0 THEN "create_merge" ELSE "sort"
    BY <1>5 DEF JoinMap
  <2>2. ASSUME NEW t \in 0..(num_procs - 1)
        PROVE  Counts(words'[t], Between(b[t], b[t + 1]))
    <3>1. t = i \/ t < i
      BY <1>2, <1>5
    <3>2. thr[t].at = "ended"
      BY <1>1, <1>2, <3>1 DEF IInv, ThreadsInv, ThreadInv
    <3> QED BY <1>1, <1>3, <3>2 DEF JoinCounts, MapCounts
  <2>3. Borders(b, num_procs)
    BY <1>3 DEF JoinCounts
  <2> QED BY <1>1, <1>2, <2>1, <2>2, <2>3, RoundStart
<1> QED BY <1>4, <1>5

\* The words of two neighbouring parts of the file.
LEMMA PairWords ==
    ASSUME FileInv, fpos \in Nat, NEW b, NEW n \in Nat, Borders(b, n), NEW t \in Nat, 2 * t + 2 <= n
    PROVE  /\ Words(Between(b[2 * t], b[2 * t + 1]), Between(b[2 * t + 1], b[2 * t + 2]))
           /\ Between(b[2 * t], b[2 * t + 1]) \cup Between(b[2 * t + 1], b[2 * t + 2])
                 = Between(b[2 * t], b[2 * t + 2])
<1>1. PICK p, q, r : p = b[2 * t] /\ q = b[2 * t + 1] /\ r = b[2 * t + 2]
  OBVIOUS
<1>2. 2 * t \in 0..(n - 1) /\ 2 * t + 1 \in 0..(n - 1) /\ 2 * t + 2 \in 0..n
  OBVIOUS
<1>3. flen \in Nat
  BY FlenType
<1>4. p \in Nat /\ q \in Nat /\ r \in Nat
  <2>1. \A k \in 0..n : b[k] \in Nat
    BY <1>3 DEF Borders
  <2> QED BY <1>1, <1>2, <2>1
<1>5. p <= q /\ q <= r
  <2>1. \A k \in 0..(n - 1) : b[k] <= b[k + 1]
    BY DEF Borders
  <2>2. (2 * t + 1) + 1 = 2 * t + 2
    OBVIOUS
  <2>3. b[2 * t] <= b[2 * t + 1] /\ b[2 * t + 1] <= b[(2 * t + 1) + 1]
    BY <1>2, <2>1
  <2> QED BY <1>1, <2>2, <2>3
<1>6. /\ Words(Between(p, q), Between(q, r))
      /\ Between(p, q) \cup Between(q, r) = Between(p, r)
  BY <1>4, <1>5, BetweenParts DEF Words
<1> QED BY <1>1, <1>6

\* What a merging thread holds depends on the thread alone.
LEMMA ThreadCountsStay ==
    ASSUME file' = file, NEW t, thr'[t] = thr[t], NEW b
    PROVE  ThreadCounts(t, b)' = ThreadCounts(t, b)
BY CountsKept DEF ThreadCounts

\* A new thread has the counts of the two tables it merges.
LEMMA CreateMergeCountInv == IInv /\ CountInv /\ CreateMerge => CountInv'
<1> SUFFICES ASSUME IInv, CountInv, CreateMerge PROVE CountInv'
  OBVIOUS
<1>1. PICK x : x = [at |-> "merge", data1 |-> words[2 * i], data2 |-> words[2 * i + 1],
                    out |-> <<>>]
  OBVIOUS
<1>2. /\ pc = "create_merge" /\ thr' = [thr EXCEPT ![i] = x]
      /\ IF i + 1 < num_threads THEN pc' = pc /\ i' = i + 1 ELSE pc' = "join_merge" /\ i' = 0
      /\ UNCHANGED <<file, num_procs, fpos, words, num_threads, rem_num>>
  BY <1>1 DEF CreateMerge, rounds
<1>3. /\ num_procs \in Nat \ {0} /\ Procs = 0..(num_procs - 1) /\ i \in 0..(num_procs - 1)
      /\ DOMAIN thr = Procs /\ num_threads \in 0..num_procs /\ rem_num \in {0, 1}
      /\ FileInv /\ flen \in Nat /\ fpos \in 0..flen
  BY ControlTypes
<1>4. i < num_threads /\ 2 * num_threads + rem_num <= num_procs
  BY <1>2 DEF IInv, ControlInv, InMerge
<1>5. PICK n, nt : n = i /\ nt = num_threads
  OBVIOUS
<1>6. n \in Nat /\ nt \in Nat /\ n < nt /\ nt <= num_procs
  BY <1>3, <1>4, <1>5
<1>7. PICK b : RoundCounts(b)
  BY <1>2 DEF CountInv, InMerge
<1>8. Borders(b, 2 * num_threads + rem_num)
  BY <1>7 DEF RoundCounts
<1>9. /\ \A s, S : Counts(s, S)' = Counts(s, S)
      /\ \A y, R, S : MergeCounts(y, R, S)' = MergeCounts(y, R, S)
      /\ \A a, c : Between(a, c)' = Between(a, c)
  BY <1>2, CountsKept
<1>10. ThreadCounts(n, b)'
  <2>1. TwoCounts(n, b)
    <3>1. n \in 0..(num_threads - 1) /\ ~(n < i)
      BY <1>5, <1>6
    <3> QED BY <1>2, <1>7, <3>1 DEF RoundCounts, PairCounts
  <2>2. PICK R, S : R = Between(b[2 * n], b[2 * n + 1]) /\ S = Between(b[2 * n + 1], b[2 * n + 2])
    OBVIOUS
  <2>3. Words(R, S)
    <3>1. 2 * num_threads + rem_num \in Nat /\ 2 * n + 2 <= 2 * num_threads + rem_num
      BY <1>3, <1>5, <1>6
    <3>2. fpos \in Nat
      BY <1>3
    <3> QED BY <1>3, <1>6, <1>8, <2>2, <3>1, <3>2, PairWords
  <2>4. x.at = "merge" /\ x.out = <<>> /\ Counts(x.data1, R) /\ Counts(x.data2, S)
    BY <1>1, <1>5, <2>1, <2>2 DEF TwoCounts
  <2>5. MergeCounts(x, R, S)
    BY <1>3, <2>3, <2>4, MergeStart
  <2>6. thr'[n] = x
    BY <1>2, <1>3, <1>5
  <2> QED BY <1>9, <2>2, <2>4, <2>5, <2>6 DEF ThreadCounts
<1>11. ASSUME NEW t \in 0..(nt - 1) PROVE PairCounts(t, b)'
  <2>1. CASE t < n
    <3>1. ThreadCounts(t, b)
      BY <1>2, <1>5, <1>7, <1>11, <2>1 DEF RoundCounts, PairCounts
    <3>2. thr'[t] = thr[t]
      BY <1>2, <1>3, <1>5, <1>6, <2>1
    <3>3. ThreadCounts(t, b)'
      BY <1>2, <3>1, <3>2, ThreadCountsStay
    <3>4. (pc' = "create_merge" => t < i') /\ (pc' = "join_merge" => ~(t < i'))
      BY <1>2, <1>5, <1>6, <2>1
    <3> QED BY <3>3, <3>4 DEF PairCounts
  <2>2. CASE t = n
    <3>1. (pc' = "create_merge" => t < i') /\ (pc' = "join_merge" => ~(t < i'))
      BY <1>2, <1>5, <1>6, <2>2
    <3> QED BY <1>10, <2>2, <3>1 DEF PairCounts
  <2>3. CASE t > n
    <3>1. TwoCounts(t, b)
      <4>1. ~(t < i)
        BY <1>5, <1>6, <2>3
      <4> QED BY <1>2, <1>5, <1>7, <1>11, <4>1 DEF RoundCounts, PairCounts
    <3>2. TwoCounts(t, b)'
      BY <1>2, <1>9, <3>1 DEF TwoCounts
    <3>3. pc' = "create_merge" /\ ~(t < i')
      BY <1>2, <1>5, <1>6, <2>3
    <3> QED BY <3>2, <3>3 DEF PairCounts
  <2> QED BY <1>6, <2>1, <2>2, <2>3
<1>12. RoundCounts(b)'
  <2>1. Borders(b, 2 * num_threads + rem_num)'
    BY <1>2, <1>8, FileKept DEF Borders
  <2>2. (rem_num = 1 => Counts(words[2 * num_threads], Between(b[2 * num_threads], fpos)))'
    BY <1>2, <1>7, <1>9 DEF RoundCounts
  <2>3. num_threads' = nt
    BY <1>2, <1>5
  <2> QED BY <1>11, <2>1, <2>2, <2>3 DEF RoundCounts
<1>13. pc' \in {"create_merge", "join_merge"}
  BY <1>2
<1> QED BY <1>12, <1>13 DEF CountInv, InMap, InMerge

\* A step of a merging thread keeps the counts of its two parts.
LEMMA MergeCountInv == \A t \in Procs : IInv /\ CountInv /\ merge_sections(t) => CountInv'
<1> SUFFICES ASSUME NEW t \in Procs, IInv, CountInv, merge_sections(t) PROVE CountInv'
  OBVIOUS
<1>1. UNCHANGED <<file, num_procs, fpos, words, pc, i, num_threads, rem_num>>
      /\ thr[t].at = "merge"
  BY DEF merge_sections, rounds
<1>2. PICK x : x = thr[t]
  OBVIOUS
<1>3. PICK y : /\ thr' = [thr EXCEPT ![t] = y]
               /\ Next1(x, y) \/ Next2(x, y) \/ Next3(x, y) \/ Next4(x, y)
  BY <1>2, MergeStep
<1>4. /\ Merging(x) /\ InMerge /\ ~InMap
      /\ pc = "create_merge" => t < i
      /\ pc = "join_merge" => t < num_threads /\ t >= i
  BY <1>1, <1>2, MergingThread
<1>5. /\ num_procs \in Nat \ {0} /\ Procs = 0..(num_procs - 1) /\ i \in 0..(num_procs - 1)
      /\ DOMAIN thr = Procs /\ num_threads \in 0..num_procs /\ rem_num \in {0, 1}
      /\ FileInv /\ flen \in Nat /\ fpos \in 0..flen
  BY ControlTypes
<1>6. i < num_threads
  BY <1>4 DEF IInv, ControlInv
<1>7. PICK b : RoundCounts(b)
  BY <1>4 DEF CountInv
<1>8. Borders(b, 2 * num_threads + rem_num)
  BY <1>7 DEF RoundCounts
<1>9. /\ \A s, S : Counts(s, S)' = Counts(s, S)
      /\ \A z, R, S : MergeCounts(z, R, S)' = MergeCounts(z, R, S)
      /\ \A a, c : Between(a, c)' = Between(a, c)
  BY <1>1, CountsKept
<1>10. t \in Nat /\ t \in 0..(num_threads - 1)
  BY <1>4, <1>5, <1>6 DEF InMerge
<1>11. ThreadCounts(t, b)'
  <2>1. ThreadCounts(t, b)
    <3>1. PairCounts(t, b)
      BY <1>7, <1>10 DEF RoundCounts
    <3>2. pc = "join_merge" => ~(t < i)
      BY <1>4, <1>5, <1>10
    <3> QED BY <1>4, <3>1, <3>2 DEF PairCounts, InMerge
  <2>2. PICK R, S : R = Between(b[2 * t], b[2 * t + 1]) /\ S = Between(b[2 * t + 1], b[2 * t + 2])
    OBVIOUS
  <2>3. Words(R, S) /\ R \cup S = Between(b[2 * t], b[2 * t + 2])
    <3>1. 2 * num_threads + rem_num \in Nat /\ 2 * t + 2 <= 2 * num_threads + rem_num
      BY <1>5, <1>10
    <3>2. fpos \in Nat
      BY <1>5
    <3> QED BY <1>5, <1>8, <1>10, <2>2, <3>1, <3>2, PairWords
  <2>4. MergeCounts(x, R, S)
    BY <1>1, <1>2, <2>1, <2>2 DEF ThreadCounts
  <2>5. thr'[t] = y
    BY <1>3, <1>5
  <2>6. CASE Next1(x, y) \/ Next2(x, y) \/ Next3(x, y)
    <3>1. MergeCounts(y, R, S)
      BY <1>4, <1>5, <2>3, <2>4, <2>6, MergeSame, MergeFirst, MergeSecond
    <3>2. y.at = "merge"
      <4>1. y \in Mergers
        BY <1>4, <2>6, MergeTables
      <4> QED BY <4>1 DEF Mergers
    <3> QED BY <1>9, <2>2, <2>5, <3>1, <3>2 DEF ThreadCounts
  <2>7. CASE Next4(x, y)
    <3>1. Counts(y.out, R \cup S)
      BY <1>4, <1>5, <2>3, <2>4, <2>7, MergeEnd
    <3>2. y.at = "ended"
      BY <2>7 DEF Next4
    <3> QED BY <1>9, <2>3, <2>5, <3>1, <3>2 DEF ThreadCounts
  <2> QED BY <1>3, <2>6, <2>7
<1>12. ASSUME NEW u \in 0..(num_threads - 1) PROVE PairCounts(u, b)'
  <2>1. PairCounts(u, b)
    BY <1>7 DEF RoundCounts
  <2>2. CASE u = t
    <3>1. (pc = "create_merge" => u < i) /\ (pc = "join_merge" => ~(u < i))
      BY <1>4, <1>5, <1>10, <2>2
    <3> QED BY <1>1, <1>11, <2>2, <3>1 DEF PairCounts
  <2>3. CASE u # t
    <3>1. thr'[u] = thr[u]
      BY <1>3, <1>5, <2>3
    <3>2. ThreadCounts(u, b)' = ThreadCounts(u, b)
      BY <1>1, <3>1, ThreadCountsStay
    <3>3. TwoCounts(u, b)' = TwoCounts(u, b)
      BY <1>1, <1>9 DEF TwoCounts
    <3> QED BY <1>1, <1>9, <2>1, <3>2, <3>3 DEF PairCounts
  <2> QED BY <2>2, <2>3
<1>13. RoundCounts(b)'
  <2>1. Borders(b, 2 * num_threads + rem_num)'
    BY <1>1, <1>8, FileKept DEF Borders
  <2>2. (rem_num = 1 => Counts(words[2 * num_threads], Between(b[2 * num_threads], fpos)))'
    BY <1>1, <1>7, <1>9 DEF RoundCounts
  <2> QED BY <1>1, <1>12, <2>1, <2>2 DEF RoundCounts
<1> QED BY <1>1, <1>4, <1>13 DEF CountInv, InMap, InMerge

\* A merged table takes the place of the first table; after the last one half as many
\* parts are left, or one more.
LEMMA JoinMergeCountInv == IInv /\ CountInv /\ JoinMerge => CountInv'
<1> SUFFICES ASSUME IInv, CountInv, JoinMerge PROVE CountInv'
  OBVIOUS
<1>1. /\ pc = "join_merge" /\ thr[i].at = "ended"
      /\ UNCHANGED <<file, num_procs, fpos, thr>>
  BY DEF JoinMerge, Joined
<1>2. PICK joined : joined = [words EXCEPT ![i] = thr[i].out]
  OBVIOUS
<1>3. \/ /\ i + 1 < num_threads /\ words' = joined /\ pc' = pc /\ i' = i + 1
         /\ num_threads' = num_threads /\ rem_num' = rem_num
      \/ /\ i + 1 = num_threads
         /\ words' = IF rem_num = 1 THEN [joined EXCEPT ![num_threads] = words[2 * num_threads]]
                                    ELSE joined
         /\ num_threads' = (num_threads + rem_num) \div 2
         /\ rem_num' = (num_threads + rem_num) % 2
         /\ pc' = IF num_threads' > 0 THEN "create_merge" ELSE "sort"
         /\ i' = 0
  BY <1>2 DEF JoinMerge, NextRound, rounds
<1>4. /\ num_procs \in Nat \ {0} /\ Procs = 0..(num_procs - 1) /\ i \in 0..(num_procs - 1)
      /\ DOMAIN words = Procs /\ num_threads \in 0..num_procs /\ rem_num \in {0, 1}
      /\ FileInv /\ flen \in Nat /\ fpos \in 0..flen
  BY ControlTypes
<1>5. i < num_threads /\ 2 * num_threads + rem_num <= num_procs
  BY <1>1 DEF IInv, ControlInv, InMerge
<1>6. PICK n, nt, r : n = i /\ nt = num_threads /\ r = rem_num
  OBVIOUS
<1>7. n \in Nat /\ nt \in Nat \ {0} /\ n < nt /\ r \in {0, 1} /\ 2 * nt + r <= num_procs
  BY <1>4, <1>5, <1>6
<1>8. PICK b : RoundCounts(b)
  BY <1>1 DEF CountInv, InMerge
<1>9. Borders(b, 2 * nt + r)
  BY <1>6, <1>8 DEF RoundCounts
<1>10. /\ \A s, S : Counts(s, S)' = Counts(s, S)
       /\ \A a, c : Between(a, c)' = Between(a, c)
  BY <1>1, CountsKept
<1>11. ASSUME NEW t \in 0..n PROVE Counts(joined[t], Between(b[2 * t], b[2 * t + 2]))
  <2>1. t \in Procs /\ t \in 0..(num_threads - 1)
    BY <1>4, <1>6, <1>7
  <2>2. PairCounts(t, b)
    BY <1>8, <2>1 DEF RoundCounts
  <2>3. CASE t = n
    <3>1. joined[t] = thr[t].out /\ thr[t].at = "ended" /\ ~(t < i)
      BY <1>1, <1>2, <1>4, <1>6, <1>7, <2>1, <2>3
    <3> QED BY <1>1, <2>2, <3>1 DEF PairCounts, ThreadCounts
  <2>4. CASE t # n
    <3>1. joined[t] = words[t] /\ t < i
      BY <1>2, <1>4, <1>6, <1>7, <2>1, <2>4
    <3> QED BY <1>1, <2>2, <3>1 DEF PairCounts
  <2> QED BY <2>3, <2>4
<1>12. r = 1 => /\ Counts(words[2 * nt], Between(b[2 * nt], fpos))
                /\ 2 * nt \in Procs /\ nt \in Procs
  BY <1>4, <1>6, <1>7, <1>8 DEF RoundCounts
<1>13. CASE n + 1 < nt
  <2>1. /\ words' = joined /\ pc' = "join_merge" /\ i' = n + 1 /\ num_threads' = nt /\ rem_num' = r
    <3>1. i + 1 # num_threads
      BY <1>6, <1>7, <1>13
    <3> QED BY <1>1, <1>3, <1>6, <3>1
  <2>2. ASSUME NEW t \in 0..(nt - 1) PROVE PairCounts(t, b)'
    <3>1. CASE t <= n
      <4>1. Counts(joined[t], Between(b[2 * t], b[2 * t + 2]))
        BY <1>7, <1>11, <3>1
      <4>2. t < i'
        BY <1>7, <2>1, <3>1
      <4> QED BY <1>10, <2>1, <4>1, <4>2 DEF PairCounts
    <3>2. CASE ~(t <= n)
      <4>1. ~(t < i) /\ ~(t < i') /\ t \in 0..(num_threads - 1)
        BY <1>6, <1>7, <2>1, <3>2
      <4>2. ThreadCounts(t, b)
        BY <1>1, <1>8, <4>1 DEF RoundCounts, PairCounts
      <4>3. ThreadCounts(t, b)'
        BY <1>1, <4>2, ThreadCountsStay
      <4> QED BY <2>1, <4>1, <4>3 DEF PairCounts
    <3> QED BY <3>1, <3>2
  <2>3. r = 1 => Counts(words[2 * nt], Between(b[2 * nt], fpos))'
    <3>1. r = 1 => joined[2 * nt] = words[2 * nt]
      BY <1>2, <1>4, <1>6, <1>7, <1>12
    <3> QED BY <1>1, <1>10, <1>12, <2>1, <3>1
  <2>4. RoundCounts(b)'
    <3>1. Borders(b, 2 * num_threads + rem_num)'
      BY <1>1, <1>9, <2>1, FileKept DEF Borders
    <3> QED BY <2>1, <2>2, <2>3, <3>1 DEF RoundCounts
  <2> QED BY <2>1, <2>4 DEF CountInv, InMap, InMerge
<1>14. CASE ~(n + 1 < nt)
  <2>1. n + 1 = nt
    BY <1>7, <1>14
  <2>2. /\ words' = IF r = 1 THEN [joined EXCEPT ![nt] = words[2 * nt]] ELSE joined
        /\ num_threads' = (nt + r) \div 2 /\ rem_num' = (nt + r) % 2 /\ i' = 0
        /\ pc' = IF num_threads' > 0 THEN "create_merge" ELSE "sort"
    BY <1>3, <1>6, <1>14
  <2>3. PICK f, M, N : f = fpos /\ M = nt + r /\ N = 2 * nt + r
    OBVIOUS
  <2>4. M \in Nat \ {0} /\ f \in 0..flen
    BY <1>4, <1>7, <2>3
  <2>5. PICK c : c = [k \in 0..M |-> IF k <= nt THEN b[2 * k] ELSE f]
    OBVIOUS
  <2>6. /\ \A k \in 0..nt : c[k] = b[2 * k]
        /\ r = 1 => c[nt + 1] = f
    BY <1>7, <2>3, <2>5
  <2>7. /\ \A k \in 0..N : b[k] \in 0..flen
        /\ b[0] = 0 /\ b[N] = f
        /\ \A k \in 0..(N - 1) : b[k] <= b[k + 1]
    <3>1. Borders(b, N)
      BY <1>9, <2>3
    <3> QED BY <2>3, <3>1 DEF Borders
  <2>8. \A k \in 0..nt : 2 * k \in 0..N
    BY <1>7, <2>3
  <2>9. Borders(c, M)
    <3>1. c \in [0..M -> 0..flen]
      BY <2>4, <2>5, <2>7, <2>8
    <3>2. c[0] = 0
      BY <1>7, <2>6, <2>7
    <3>3. c[M] = fpos
      BY <1>7, <2>3, <2>6, <2>7
    <3>4. \A k \in 0..(M - 1) : c[k] <= c[k + 1]
      <4> SUFFICES ASSUME NEW k \in 0..(M - 1) PROVE c[k] <= c[k + 1]
        OBVIOUS
      <4>1. CASE k < nt
        <5>1. 2 * k \in 0..(N - 1) /\ 2 * k + 1 \in 0..(N - 1)
              /\ 2 * (k + 1) = (2 * k + 1) + 1 /\ 2 * k + 1 \in 0..N
              /\ 2 * (k + 1) \in 0..N
          BY <1>7, <2>3, <4>1
        <5>2. PICK x, y, z : x = b[2 * k] /\ y = b[2 * k + 1] /\ z = b[2 * (k + 1)]
          OBVIOUS
        <5>3. x <= y /\ y <= z
          BY <2>7, <5>1, <5>2
        <5>4. x \in 0..flen /\ y \in 0..flen /\ z \in 0..flen
          <6>1. \A l \in 0..N : b[l] \in 0..flen
            BY <2>7
          <6>2. 2 * k \in 0..N
            BY <1>7, <2>3, <4>1
          <6> QED BY <5>1, <5>2, <6>1, <6>2, Zenon
        <5>5. c[k] = x /\ c[k + 1] = z
          <6>1. k \in 0..nt /\ k + 1 \in 0..nt
            BY <1>7, <4>1
          <6> QED BY <2>6, <5>2, <6>1
        <5> QED BY <1>4, <5>3, <5>4, <5>5
      <4>2. CASE ~(k < nt)
        <5>1. k = nt /\ r = 1 /\ 2 * nt \in 0..(N - 1)
          BY <1>7, <2>3, <4>2
        <5>2. c[k] = b[2 * nt] /\ c[k + 1] = b[2 * nt + 1]
          BY <1>7, <2>3, <2>6, <2>7, <5>1
        <5> QED BY <2>7, <5>1, <5>2
      <4> QED BY <4>1, <4>2
    <3> QED BY <3>1, <3>2, <3>3, <3>4 DEF Borders
  <2>10. ASSUME NEW t \in 0..(M - 1) PROVE Counts(words'[t], Between(c[t], c[t + 1]))
    <3>1. CASE t < nt
      <4>1. words'[t] = joined[t]
        BY <1>2, <1>4, <1>7, <2>2, <3>1
      <4>2. t \in 0..n /\ t \in 0..nt /\ t + 1 \in 0..nt /\ 2 * (t + 1) = 2 * t + 2
        BY <1>7, <2>1, <3>1
      <4>3. c[t] = b[2 * t] /\ c[t + 1] = b[2 * t + 2]
        BY <2>6, <4>2
      <4> QED BY <1>11, <4>1, <4>2, <4>3
    <3>2. CASE ~(t < nt)
      <4>1. t = nt /\ r = 1
        BY <1>7, <2>3, <3>2
      <4>2. words'[t] = words[2 * nt]
        <5>1. DOMAIN joined = Procs
          BY <1>2, <1>4
        <5> QED BY <1>12, <2>2, <4>1, <5>1
      <4>3. c[t] = b[2 * nt] /\ c[t + 1] = f
        BY <1>7, <2>6, <4>1
      <4> QED BY <1>12, <2>3, <4>1, <4>2, <4>3
    <3> QED BY <3>1, <3>2
  <2> QED BY <1>1, <2>2, <2>3, <2>4, <2>9, <2>10, RoundStart
<1> QED BY <1>13, <1>14

\* Sorting changes the order of the result, and nothing before it is sorted.
LEMMA SortedCounts ==
    ASSUME NEW new, NEW s, Shuffled(new, s), NEW S, Counts(s, S)
    PROVE  Counts(new, S)
<1>1. Len(new) = Len(s)
  BY DEF Shuffled
<1>2. PICK g \in [1..Len(s) -> 1..Len(s)] :
         /\ \A k \in 1..Len(s) : new[k] = s[g[k]]
         /\ \A l \in 1..Len(s) : \E k \in 1..Len(s) : g[k] = l
  BY DEF Shuffled
<1>3. ASSUME NEW k \in 1..Len(new) PROVE new[k].count = Occ(S, Key(new[k]))
  <2>1. PICK l \in 1..Len(s) : l = g[k]
    BY <1>1, <1>2
  <2>2. new[k] = s[l]
    BY <1>1, <1>2, <2>1
  <2>3. s[l].count = Occ(S, Key(s[l]))
    BY DEF Counts
  <2> QED BY <2>2, <2>3
<1>4. ASSUME NEW p \in S PROVE Has(new, FileWord(p))
  <2>1. PICK l \in 1..Len(s) : Key(s[l]) = FileWord(p)
    BY DEF Counts, Has
  <2>2. PICK k \in 1..Len(s) : g[k] = l
    BY <1>2
  <2>3. new[k] = s[l]
    BY <1>2, <2>2
  <2> QED BY <1>1, <2>1, <2>3 DEF Has
<1> QED BY <1>3, <1>4 DEF Counts

\* No step of a sort breaks the counts.
LEMMA SortCountInv ==
    IInv /\ CountInv /\ (SortAll \/ CreateSort \/ JoinSort \/ \E t \in Procs : sort_section(t))
        => CountInv'
<1> SUFFICES ASSUME IInv, CountInv,
                    SortAll \/ CreateSort \/ JoinSort \/ \E t \in Procs : sort_section(t)
             PROVE  CountInv'
  OBVIOUS
<1>1. /\ file' = file /\ fpos' = fpos /\ ~InMap /\ ~InMerge
      /\ pc' \in {"create_sort", "join_sort", "done"}
      /\ words' = words \/ Shuffled(words'[0], words[0])
  <2>1. CASE SortAll \/ CreateSort \/ JoinSort
    BY <2>1 DEF SortAll, CreateSort, JoinSort, Goto, InMap, InMerge
  <2>2. ASSUME NEW t \in Procs, sort_section(t)
        PROVE  /\ file' = file /\ fpos' = fpos /\ ~InMap /\ ~InMerge
               /\ pc' \in {"create_sort", "join_sort", "done"}
               /\ Shuffled(words'[0], words[0])
    <3>1. Shuffled(words'[0], words[0])
      BY <2>2, SortStep
    <3>2. InSort /\ ~InMap /\ ~InMerge
      BY <2>2, SortingThread DEF sort_section
    <3>3. file' = file /\ fpos' = fpos /\ pc' = pc
      BY <2>2 DEF sort_section
    <3> QED BY <3>1, <3>2, <3>3 DEF InSort
  <2> QED BY <2>1, <2>2
<1>2. PICK s, new : s = words[0] /\ new = words'[0]
  OBVIOUS
<1>3. Counts(s, Between(0, fpos))
  BY <1>1, <1>2 DEF CountInv
<1>4. Counts(new, Between(0, fpos))
  BY <1>1, <1>2, <1>3, SortedCounts
<1>5. Counts(words[0], Between(0, fpos))'
  BY <1>1, <1>2, <1>4, CountsKept
<1> QED BY <1>1, <1>5 DEF CountInv, InMap, InMerge

\* The counts are right at first: no section is cut and no word is counted.
LEMMA CountInvInit == Init => CountInv
<1> SUFFICES ASSUME Init PROVE CountInv
  OBVIOUS
<1>1. /\ pc = "split" /\ i = 0 /\ fpos = 0 /\ words = [t \in Procs |-> <<>>]
  BY DEF Init
<1>2. flen \in Nat
  BY InitInv, ControlTypes
<1>3. PICK b : b = [k \in 0..0 |-> 0]
  OBVIOUS
<1>4. SplitCounts(b)
  BY <1>1, <1>2, <1>3 DEF SplitCounts, Borders, Procs
<1> QED BY <1>1, <1>4 DEF CountInv, InMap, InMerge

\* No step breaks the counts.
LEMMA CountInvNext == IInv /\ CountInv /\ [Next]_vars => CountInv'
<1> SUFFICES ASSUME IInv, CountInv, [Next]_vars PROVE CountInv'
  OBVIOUS
<1>1. CASE Main
  BY <1>1, SplitCountInv, JoinMapCountInv, CreateMergeCountInv, JoinMergeCountInv, SortCountInv
     DEF Main
<1>2. ASSUME NEW t \in Procs, Thread(t) PROVE CountInv'
  BY <1>2, MapCountInv, MergeCountInv, SortCountInv DEF Thread
<1>3. CASE Finished \/ UNCHANGED vars
  <2>1. UNCHANGED <<file, num_procs, fpos, words, thr, pc, i, num_threads, rem_num>>
    BY <1>3 DEF Finished, vars, rounds
  <2>2. /\ \A s, S : Counts(s, S)' = Counts(s, S)
        /\ \A a, c : Between(a, c)' = Between(a, c)
    BY <2>1, CountsKept
  <2>3. \A b, n : Borders(b, n)' = Borders(b, n)
    BY <2>1, FileKept DEF Borders
  <2>4. \A t, b : /\ MapCounts(t, b)' = MapCounts(t, b)
                  /\ ThreadCounts(t, b)' = ThreadCounts(t, b)
    BY <2>1, MapCountsStay, ThreadCountsStay
  <2>5. \A t, b : TwoCounts(t, b)' = TwoCounts(t, b)
    BY <2>1, <2>2 DEF TwoCounts
  <2>6. \A t, b : PairCounts(t, b) => PairCounts(t, b)'
    BY <2>1, <2>2, <2>4, <2>5 DEF PairCounts
  <2>7. \A b : RoundCounts(b) => RoundCounts(b)'
    BY <2>1, <2>2, <2>3, <2>6 DEF RoundCounts
  <2>8. \A b : (SplitCounts(b) => SplitCounts(b)') /\ (JoinCounts(b) => JoinCounts(b)')
    BY <2>1, <2>3, <2>4 DEF SplitCounts, JoinCounts
  <2>9. Counts(words[0], Between(0, fpos))' = Counts(words[0], Between(0, fpos))
    BY <2>1, <2>2
  <2> QED BY <2>1, <2>7, <2>8, <2>9 DEF CountInv, InMap, InMerge
<1> QED BY <1>1, <1>2, <1>3 DEF Next
-----------------------------------------------------------------------------
(* The tables between the sections and the result, concatenated. *)

Appended(seqs, f, n) == IF n = 1 THEN seqs[n] ELSE f[n - 1] \o seqs[n]

\* FlattenSeq is the last of the concatenations f of the first sequences.
LEMMA FlattenDef ==
    ASSUME NEW seqs, Len(seqs) # 0
    PROVE  FlattenSeq(seqs) =
             (CHOOSE f : f = [n \in 1..Len(seqs) |-> Appended(seqs, f, n)])[Len(seqs)]
BY DEF FlattenSeq, Appended

\* These concatenations exist: the recursion f[n - 1] goes down to 1.
LEMMA FlattenExists ==
    ASSUME NEW seqs, NEW N \in Nat
    PROVE  \E f : f = [n \in 1..N |-> Appended(seqs, f, n)]
<1> DEFINE Partly(f, m) == f = [n \in 1..m |-> Appended(seqs, f, n)]
           T == {m \in Nat : \E f : Partly(f, m)}
<1>1. 0 \in T
  <2>1. PICK f : f = [n \in 1..0 |-> seqs]
    OBVIOUS
  <2>2. f = [n \in 1..0 |-> Appended(seqs, f, n)]
    BY <2>1
  <2> QED BY <2>2
<1>2. ASSUME NEW m \in Nat, m \in T PROVE m + 1 \in T
  <2>1. PICK f : Partly(f, m)
    BY <1>2
  <2>2. PICK g : g = [n \in 1..(m + 1) |-> Appended(seqs, f, n)]
    OBVIOUS
  <2>3. ASSUME NEW n \in 1..m PROVE f[n] = g[n]
    <3>1. f[n] = Appended(seqs, f, n)
      BY <2>1
    <3> QED BY <2>2, <3>1
  <2>4. ASSUME NEW n \in 1..(m + 1) PROVE Appended(seqs, f, n) = Appended(seqs, g, n)
    <3>1. CASE n = 1
      BY <3>1 DEF Appended
    <3>2. CASE n # 1
      <4>1. n - 1 \in 1..m
        BY <3>2
      <4>2. f[n - 1] = g[n - 1]
        BY <2>3, <4>1
      <4> QED BY <3>2, <4>2 DEF Appended
    <3> QED BY <3>1, <3>2
  <2>5. Partly(g, m + 1)
    BY <2>2, <2>4
  <2> HIDE DEF Partly
  <2> QED BY <2>5
<1> HIDE DEF T
<1>3. N \in T
  BY <1>1, <1>2, Induction
<1> QED BY <1>3 DEF T

\* total[n] is the total of the first n of the N tables seqs.
Adds(seqs, N, w, v, total) ==
    /\ total[0] = 0
    /\ \A n \in 1..N : /\ Stored(seqs[n]) /\ v[n] \in Nat /\ Totals(seqs[n], w, v[n])
                       /\ total[n] \in Nat /\ total[n] = total[n - 1] + v[n]

\* The total of a concatenation is the sum of the totals of its tables.
LEMMA FlattenTotals ==
    ASSUME FileInv, NEW N \in Nat \ {0}, NEW seqs, Len(seqs) = N, NEW w, NEW v, NEW total,
           Adds(seqs, N, w, v, total)
    PROVE  Stored(FlattenSeq(seqs)) /\ Totals(FlattenSeq(seqs), w, total[N])
<1>0. /\ total[0] = 0
      /\ \A n \in 1..N : /\ Stored(seqs[n]) /\ v[n] \in Nat /\ Totals(seqs[n], w, v[n])
                         /\ total[n] \in Nat /\ total[n] = total[n - 1] + v[n]
  BY DEF Adds
<1>1. PICK f : /\ f = [n \in 1..N |-> Appended(seqs, f, n)]
               /\ FlattenSeq(seqs) = f[N]
  BY FlattenDef, FlattenExists
<1>2. \A n \in 1..N : f[n] = Appended(seqs, f, n)
  BY <1>1
<1> DEFINE T == {n \in Nat : n + 1 <= N => Stored(f[n + 1]) /\ Totals(f[n + 1], w, total[n + 1])}
<1>3. 0 \in T
  <2>1. 1 \in 1..N /\ 0 + 1 = 1 /\ 1 - 1 = 0
    OBVIOUS
  <2>2. f[1] = seqs[1]
    BY <1>2, <2>1 DEF Appended
  <2>3. total[1] = v[1] /\ Stored(seqs[1]) /\ Totals(seqs[1], w, v[1])
    BY <1>0, <2>1
  <2> QED BY <2>1, <2>2, <2>3
<1>4. ASSUME NEW n \in Nat, n \in T PROVE n + 1 \in T
  <2> SUFFICES ASSUME NEW m, m = n + 1, m + 1 <= N
               PROVE  Stored(f[m + 1]) /\ Totals(f[m + 1], w, total[m + 1])
    OBVIOUS
  <2>1. m \in 1..N /\ m + 1 \in 1..N /\ (m + 1) - 1 = m /\ m + 1 # 1
    OBVIOUS
  <2>2. Stored(f[m]) /\ Totals(f[m], w, total[m])
    BY <1>4, <2>1
  <2>3. f[m + 1] = f[m] \o seqs[m + 1]
    BY <1>2, <2>1 DEF Appended
  <2>4. /\ Stored(seqs[m + 1]) /\ v[m + 1] \in Nat /\ Totals(seqs[m + 1], w, v[m + 1])
        /\ total[m] \in Nat /\ total[m + 1] = total[m] + v[m + 1]
    BY <1>0, <2>1
  <2> QED BY <2>2, <2>3, <2>4, TotalConcat
<1> HIDE DEF T
<1>5. N - 1 \in T
  <2>1. N - 1 \in Nat
    OBVIOUS
  <2> QED BY <1>3, <1>4, <2>1, Induction
<1>6. (N - 1) + 1 = N
  OBVIOUS
<1> QED BY <1>1, <1>5, <1>6 DEF T

\* A part of the tables, as Live concatenates them.
Part(t) == IF pc = "create_merge" /\ t > i THEN words[2 * t - 2] \o words[2 * t - 1]
           ELSE IF pc = "join_merge" /\ t <= i THEN words[t - 1]
           ELSE Held(t - 1)
Rest == IF rem_num = 1 THEN words[2 * num_threads] ELSE <<>>

\* A table in which no word comes twice adds up to the words it counts.
LEMMA TableTotals ==
    ASSUME FileInv, NEW s, Good(s), NEW S, Counts(s, S), NEW w
    PROVE  Stored(s) /\ Totals(s, w, Occ(S, w))
BY GoodDistinct, CountsTotal

\* Each part adds up to the words of two neighbouring parts of the file.
LEMMA PartTotals ==
    ASSUME IInv, InMerge, NEW b, RoundCounts(b), NEW t \in 0..(num_threads - 1), NEW w
    PROVE  Stored(Part(t + 1)) /\ Totals(Part(t + 1), w, Occ(Between(b[2 * t], b[2 * t + 2]), w))
<1>1. /\ num_procs \in Nat \ {0} /\ Procs = 0..(num_procs - 1) /\ i \in 0..(num_procs - 1)
      /\ num_threads \in 0..num_procs /\ rem_num \in {0, 1} /\ FileInv
      /\ fpos \in 0..flen /\ flen \in Nat
  BY ControlTypes
<1>2. i < num_threads /\ 2 * num_threads + rem_num <= num_procs
  BY DEF IInv, ControlInv
<1>3. \A u \in Procs : Good(words[u])
  BY DEF IInv, TablesInv, Good
<1>4. /\ t \in Nat /\ t \in Procs /\ 2 * t \in Procs /\ 2 * t + 1 \in Procs
      /\ 2 * (t + 1) - 2 = 2 * t /\ 2 * (t + 1) - 1 = 2 * t + 1 /\ (t + 1) - 1 = t
      /\ (t + 1 > i <=> ~(t < i)) /\ (t + 1 <= i <=> t < i)
  BY <1>1, <1>2
<1>5. PICK R, S, U : /\ R = Between(b[2 * t], b[2 * t + 1])
                     /\ S = Between(b[2 * t + 1], b[2 * t + 2])
                     /\ U = Between(b[2 * t], b[2 * t + 2])
  OBVIOUS
<1>6. Words(R, S) /\ R \cup S = U
  <2>1. Borders(b, 2 * num_threads + rem_num)
    BY DEF RoundCounts
  <2>2. 2 * num_threads + rem_num \in Nat /\ 2 * t + 2 <= 2 * num_threads + rem_num
    BY <1>1, <1>4
  <2>3. fpos \in Nat
    BY <1>1
  <2> QED BY <1>1, <1>4, <1>5, <2>1, <2>2, <2>3, PairWords
<1>7. PairCounts(t, b)
  BY DEF RoundCounts
<1>8. CASE pc = "create_merge" /\ ~(t < i)
  <2>1. TwoCounts(t, b)
    BY <1>7, <1>8 DEF PairCounts
  <2>2. PICK r, s : r = words[2 * t] /\ s = words[2 * t + 1]
    OBVIOUS
  <2>3. Good(r) /\ Good(s) /\ Counts(r, R) /\ Counts(s, S)
    BY <1>3, <1>4, <1>5, <2>1, <2>2 DEF TwoCounts
  <2>4. /\ Stored(r) /\ Totals(r, w, Occ(R, w))
        /\ Stored(s) /\ Totals(s, w, Occ(S, w))
    BY <1>1, <2>3, TableTotals
  <2>5. Occ(R, w) \in Nat /\ Occ(S, w) \in Nat /\ Occ(U, w) = Occ(R, w) + Occ(S, w)
    <3>1. Occ(U, w) = Occ(R, w) + Occ(S, w)
      BY <1>1, <1>6, OccWords
    <3>2. R \subseteq WordStarts /\ S \subseteq WordStarts
      BY <1>6 DEF Words
    <3> QED BY <1>1, <3>1, <3>2, StartsFinite
  <2>6. Stored(r \o s) /\ Totals(r \o s, w, Occ(U, w))
    BY <1>1, <2>4, <2>5, TotalConcat
  <2>7. Part(t + 1) = r \o s
    BY <1>4, <1>8, <2>2 DEF Part
  <2> QED BY <1>5, <2>6, <2>7
<1>9. CASE pc = "join_merge" /\ t < i
  <2>1. Part(t + 1) = words[t]
    BY <1>4, <1>9 DEF Part
  <2>2. Counts(words[t], U)
    BY <1>5, <1>7, <1>9 DEF PairCounts
  <2>3. Stored(words[t]) /\ Totals(words[t], w, Occ(U, w))
    BY <1>1, <1>3, <1>4, <2>2, TableTotals
  <2> QED BY <1>5, <2>1, <2>3
<1>10. CASE (pc = "create_merge" /\ t < i) \/ (pc = "join_merge" /\ ~(t < i))
  <2>1. Part(t + 1) = Held(t)
    BY <1>4, <1>10 DEF Part
  <2>2. ThreadCounts(t, b)
    BY <1>7, <1>10 DEF PairCounts
  <2>3. PICK x : x = thr[t]
    OBVIOUS
  <2>4. Merging(x) \/ Merged(x)
    <3>1. ThreadInv(t)
      BY <1>4 DEF IInv, ThreadsInv
    <3>2. pc = "join_merge" => t < num_threads /\ t >= i
      BY <1>1, <1>4, <1>10
    <3> QED BY <1>10, <2>3, <3>1, <3>2 DEF ThreadInv
  <2>5. CASE Merging(x)
    <3>1. x.at = "merge"
      BY <2>5 DEF Merging, Mergers
    <3>2. MergeCounts(x, R, S)
      BY <1>5, <2>2, <2>3, <3>1 DEF ThreadCounts
    <3>3. /\ Stored(x.data1 \o x.data2 \o x.out)
          /\ Totals(x.data1 \o x.data2 \o x.out, w, Occ(R \cup S, w))
      BY <1>1, <1>6, <2>5, <3>2, MergeTotals DEF Words
    <3>4. Held(t) = x.data1 \o x.data2 \o x.out
      BY <2>3, <3>1 DEF Held
    <3> QED BY <1>5, <1>6, <2>1, <3>3, <3>4
  <2>6. CASE Merged(x)
    <3>1. x.at = "ended" /\ Good(x.out)
      BY <2>6 DEF Merged
    <3>2. Counts(x.out, U) /\ Held(t) = x.out
      BY <1>5, <2>2, <2>3, <3>1 DEF ThreadCounts, Held
    <3>3. Stored(x.out) /\ Totals(x.out, w, Occ(U, w))
      BY <1>1, <3>1, <3>2, TableTotals
    <3> QED BY <1>5, <2>1, <3>2, <3>3
  <2> QED BY <2>4, <2>5, <2>6
<1> QED BY <1>8, <1>9, <1>10 DEF InMerge

\* The tables add up to the words before fpos.
LEMMA LiveTotals ==
    ASSUME IInv, CountInv, ~InMap, NEW w
    PROVE  Stored(Live) /\ Totals(Live, w, Occ(Between(0, fpos), w))
<1>1. /\ num_procs \in Nat \ {0} /\ Procs = 0..(num_procs - 1) /\ i \in 0..(num_procs - 1)
      /\ num_threads \in 0..num_procs /\ rem_num \in {0, 1} /\ FileInv
      /\ fpos \in 0..flen /\ flen \in Nat
  BY ControlTypes
<1>2. CASE ~InMerge
  <2>1. Live = words[0]
    BY <1>2 DEF Live, InMerge
  <2>2. Counts(words[0], Between(0, fpos))
    BY <1>2 DEF CountInv
  <2>3. Stored(words[0]) /\ Distinct(words[0])
    BY <1>1 DEF IInv, TablesInv
  <2> QED BY <1>1, <2>1, <2>2, <2>3, CountsTotal
<1>3. CASE InMerge
  <2>1. PICK b : RoundCounts(b)
    BY <1>3 DEF CountInv
  <2>2. i < num_threads /\ 2 * num_threads + rem_num <= num_procs
    BY <1>3 DEF IInv, ControlInv
  <2>3. PICK N, r, f : N = num_threads /\ r = rem_num /\ f = fpos
    OBVIOUS
  <2>4. N \in Nat \ {0} /\ r \in {0, 1} /\ f \in Nat
    BY <1>1, <2>2, <2>3
  <2>5. /\ \A k \in 0..(2 * N + r) : b[k] \in Nat
        /\ b[0] = 0 /\ b[2 * N + r] = f
        /\ \A k \in 0..(2 * N + r - 1) : b[k] <= b[k + 1]
    BY <1>1, <2>1, <2>3 DEF RoundCounts, Borders
  <2>6. PICK seqs : seqs = [t \in 1..N |-> Part(t)]
    OBVIOUS
  <2>7. Live = FlattenSeq(seqs) \o Rest
    BY <1>3, <2>3, <2>6 DEF Live, InMerge, Part, Rest
  <2>8. PICK total, v : /\ total = [n \in 0..N |-> Occ(Between(0, b[2 * n]), w)]
                        /\ v = [n \in 1..N |-> Occ(Between(b[2 * n - 2], b[2 * n]), w)]
    OBVIOUS
  <2>9. total[0] = 0
    <3>1. total[0] = Occ({}, w)
      <4>1. 0 \in 0..N /\ 2 * 0 = 0 /\ 0 \in Nat
        BY <2>4
      <4>2. total[0] = Occ(Between(0, b[2 * 0]), w)
        BY <2>8, <4>1
      <4> QED BY <2>5, <4>1, <4>2, BetweenEmpty
    <3> QED BY <3>1, OccNone
  <2>10. ASSUME NEW n \in 1..N
         PROVE  /\ Stored(seqs[n]) /\ v[n] \in Nat /\ Totals(seqs[n], w, v[n])
                /\ total[n] \in Nat /\ total[n] = total[n - 1] + v[n]
    <3>1. PICK t \in 0..(num_threads - 1) : /\ n = t + 1 /\ 2 * n = 2 * t + 2
                                            /\ 2 * n - 2 = 2 * t /\ n - 1 = t
      <4>1. n - 1 \in 0..(num_threads - 1)
        BY <2>3, <2>4
      <4> QED BY <4>1
    <3>2. PICK p, q, z : p = b[2 * t] /\ q = b[2 * t + 1] /\ z = b[2 * t + 2]
      OBVIOUS
    <3>3. p \in Nat /\ q \in Nat /\ z \in Nat /\ p <= q /\ q <= z
      <4>1. /\ 2 * t \in 0..(2 * N + r) /\ 2 * t + 1 \in 0..(2 * N + r)
            /\ 2 * t + 2 \in 0..(2 * N + r)
            /\ 2 * t \in 0..(2 * N + r - 1) /\ 2 * t + 1 \in 0..(2 * N + r - 1)
            /\ (2 * t + 1) + 1 = 2 * t + 2
        BY <2>3, <2>4
      <4>2. p \in Nat /\ q \in Nat /\ z \in Nat
        BY <2>5, <3>2, <4>1, Zenon
      <4>3. b[2 * t] <= b[2 * t + 1] /\ b[2 * t + 1] <= b[(2 * t + 1) + 1]
        BY <2>5, <4>1, Zenon
      <4> QED BY <3>2, <4>1, <4>2, <4>3
    <3>4. /\ Between(0, p) \cup Between(p, z) = Between(0, z)
          /\ Between(0, p) \cap Between(p, z) = {}
          /\ Between(0, p) \subseteq WordStarts /\ Between(p, z) \subseteq WordStarts
      <4>1. 0 \in Nat /\ 0 <= p /\ p <= z
        BY <3>3
      <4> QED BY <3>3, <4>1, BetweenParts
    <3>5. /\ Occ(Between(0, z), w) = Occ(Between(0, p), w) + Occ(Between(p, z), w)
          /\ Occ(Between(0, p), w) \in Nat /\ Occ(Between(p, z), w) \in Nat
      <4>1. PICK R, S : R = Between(0, p) /\ S = Between(p, z)
        OBVIOUS
      <4>2. R \cup S = Between(0, z) /\ R \cap S = {} /\ R \subseteq WordStarts
            /\ S \subseteq WordStarts
        BY <3>4, <4>1
      <4>3. Occ(R \cup S, w) = Occ(R, w) + Occ(S, w) /\ Occ(R, w) \in Nat /\ Occ(S, w) \in Nat
        BY <1>1, <4>2, OccUnion
      <4> QED BY <4>1, <4>2, <4>3
    <3>6. Stored(Part(n)) /\ Totals(Part(n), w, Occ(Between(p, z), w))
      BY <1>3, <2>1, <3>1, <3>2, PartTotals
    <3>7. seqs[n] = Part(n) /\ v[n] = Occ(Between(p, z), w)
      BY <2>6, <2>8, <3>1, <3>2
    <3>8. total[n] = Occ(Between(0, z), w) /\ total[n - 1] = Occ(Between(0, p), w)
      <4>1. n \in 0..N /\ n - 1 \in 0..N /\ 2 * (n - 1) = 2 * t
        BY <2>4, <3>1
      <4> QED BY <2>8, <3>1, <3>2, <4>1
    <3>9. total[n] \in Nat /\ total[n] = total[n - 1] + v[n]
      BY <3>5, <3>7, <3>8
    <3>10. v[n] \in Nat
      BY <3>5, <3>7
    <3> QED BY <3>6, <3>7, <3>9, <3>10
  <2>11. Len(seqs) = N
    BY <2>4, <2>6
  <2>12. Stored(FlattenSeq(seqs)) /\ Totals(FlattenSeq(seqs), w, total[N])
    <3>1. Adds(seqs, N, w, v, total)
      BY <2>9, <2>10 DEF Adds
    <3> QED BY <1>1, <2>4, <2>11, <3>1, FlattenTotals
  <2>13. PICK R, S : R = Between(0, b[2 * N]) /\ S = Between(b[2 * N], f)
    OBVIOUS
  <2>14. b[2 * N] \in Nat /\ b[2 * N] <= f
    <3>1. 2 * N \in 0..(2 * N + r)
      BY <2>4
    <3>2. b[2 * N] \in Nat
      BY <2>5, <3>1, Zenon
    <3>3. CASE r = 0
      <4>1. 2 * N + r = 2 * N
        BY <2>4, <3>3
      <4> QED BY <2>4, <2>5, <3>2, <4>1
    <3>4. CASE r = 1
      <4>1. 2 * N \in 0..(2 * N + r - 1) /\ 2 * N + 1 = 2 * N + r
        BY <2>4, <3>4
      <4>2. b[2 * N] <= b[2 * N + 1]
        BY <2>5, <4>1, Zenon
      <4> QED BY <2>4, <2>5, <3>2, <4>1, <4>2
    <3> QED BY <2>4, <3>3, <3>4
  <2>15. /\ R \cup S = Between(0, f) /\ R \cap S = {}
         /\ R \subseteq WordStarts /\ S \subseteq WordStarts
    <3>1. 0 \in Nat /\ 0 <= b[2 * N]
      BY <2>14
    <3> QED BY <2>4, <2>13, <2>14, <3>1, BetweenParts
  <2>16. /\ Occ(Between(0, f), w) = Occ(R, w) + Occ(S, w)
         /\ Occ(R, w) \in Nat /\ Occ(S, w) \in Nat
    <3>1. Occ(R \cup S, w) = Occ(R, w) + Occ(S, w) /\ Occ(R, w) \in Nat /\ Occ(S, w) \in Nat
      BY <1>1, <2>15, OccUnion
    <3> QED BY <2>15, <3>1
  <2>17. total[N] = Occ(R, w)
    BY <2>4, <2>8, <2>13
  <2>18. Stored(Rest) /\ Totals(Rest, w, Occ(S, w))
    <3>1. CASE r = 1
      <4>1. Rest = words[2 * N] /\ Counts(words[2 * N], S)
        BY <2>1, <2>3, <2>13, <3>1 DEF Rest, RoundCounts
      <4>2. 2 * N \in Procs
        BY <1>1, <2>2, <2>3, <2>4, <3>1
      <4>3. Good(words[2 * N])
        BY <1>3, <4>2 DEF IInv, TablesInv, Good
      <4> QED BY <1>1, <4>1, <4>3, TableTotals
    <3>2. CASE r = 0
      <4>1. Rest = <<>>
        BY <2>3, <3>2 DEF Rest
      <4>2. S = {}
        <5>1. 2 * N + r = 2 * N
          BY <2>4, <3>2
        <5>2. b[2 * N] = f
          BY <2>5, <5>1
        <5> QED BY <2>4, <2>13, <5>2, BetweenEmpty
      <4>3. Good(<<>>) /\ Counts(<<>>, S)
        BY <4>2, EmptyTable, EmptyCounts
      <4> QED BY <1>1, <4>1, <4>3, TableTotals
    <3> QED BY <2>4, <3>1, <3>2
  <2>19. Stored(FlattenSeq(seqs) \o Rest) /\ Totals(FlattenSeq(seqs) \o Rest, w, Occ(Between(0, f), w))
    <3>1. PICK s : s = FlattenSeq(seqs)
      OBVIOUS
    <3>2. Stored(s) /\ Totals(s, w, Occ(R, w))
      BY <2>12, <2>17, <3>1
    <3>3. Stored(s \o Rest) /\ Totals(s \o Rest, w, Occ(R, w) + Occ(S, w))
      BY <1>1, <2>16, <2>18, <3>2, TotalConcat
    <3> QED BY <2>16, <3>1, <3>3
  <2> QED BY <2>3, <2>7, <2>19
<1> QED BY <1>2, <1>3
-----------------------------------------------------------------------------
(* How far the sections reach. *)

LEMMA FposInvInit == Init => FposInv
<1> SUFFICES ASSUME Init PROVE FposInv
  OBVIOUS
<1>1. pc = "split" /\ i = 0 /\ fpos = 0
  BY DEF Init
<1>2. flen \in Nat /\ num_procs \in Nat \ {0}
  BY InitInv, ControlTypes
<1>3. PICK d \in Nat : d = flen \div num_procs
  BY <1>2, QuotientType
<1>4. fpos >= i * (flen \div num_procs)
  <2>1. 0 * d = 0
    OBVIOUS
  <2> QED BY <1>1, <1>3, <2>1
<1> QED BY <1>1, <1>4 DEF FposInv

\* A section ends at its nominal length or later, or where the file ends.
LEMMA FposInvNext == IInv /\ FposInv /\ [Next]_vars => FposInv'
<1> SUFFICES ASSUME IInv, FposInv, [Next]_vars PROVE FposInv'
  OBVIOUS
<1>1. /\ flen \in Nat /\ num_procs \in Nat \ {0} /\ i \in 0..(num_procs - 1) /\ fpos \in 0..flen
  BY ControlTypes
<1>2. CASE Split
  <2>1. PICK e, d, n, m : /\ e = SectionEnd(fpos + SectionLength) /\ d = flen \div num_procs
                          /\ n = i /\ m = num_procs
    OBVIOUS
  <2>2. e \in fpos..flen /\ (e = flen \/ e >= fpos + d) /\ (e = flen \/ ~InsideWord(Char(e)))
    BY <1>1, <2>1, SectionEnds DEF IInv
  <2>3. d \in Nat /\ n \in Nat /\ m \in Nat /\ n < m
    BY <1>1, <2>1, QuotientType
  <2>4. fpos = flen \/ fpos >= n * d
    BY <1>2, <2>1 DEF Split, FposInv
  <2>5. (n + 1) * d = n * d + d /\ n * d \in Nat
    BY <2>3
  <2>6. e = flen \/ e >= (n + 1) * d
    <3>1. PICK x : x = n * d
      OBVIOUS
    <3>2. x \in Nat /\ (fpos = flen \/ fpos >= x)
      BY <2>4, <2>5, <3>1
    <3>3. e = flen \/ e >= x + d
      BY <1>1, <2>2, <2>3, <3>2
    <3> QED BY <2>5, <3>1, <3>3
  <2>7. /\ fpos' = e /\ flen' = flen /\ num_procs' = num_procs
        /\ \/ pc' = "split" /\ i' = n + 1
           \/ pc' # "split" /\ n + 1 = m
    BY <1>1, <1>2, <2>1, FileKept DEF Split
  <2>8. e = flen \/ ~InsideWord(Char(e)')
    BY <1>2, <2>2, FileKept DEF Split
  <2> QED BY <2>1, <2>6, <2>7, <2>8 DEF FposInv
<1>3. CASE ~Split
  <2>1. file' = file /\ fpos' = fpos /\ num_procs' = num_procs
    <3>1. CASE Main
      BY <1>3, <3>1 DEF Main, JoinMap, CreateMerge, JoinMerge, SortAll, CreateSort, JoinSort
    <3>2. ASSUME NEW t \in Procs, Thread(t)
          PROVE  file' = file /\ fpos' = fpos /\ num_procs' = num_procs
      BY <3>2 DEF Thread, wordcount_map, merge_sections, sort_section
    <3>3. CASE Finished \/ UNCHANGED vars
      BY <3>3 DEF Finished, vars
    <3> QED BY <3>1, <3>2, <3>3 DEF Next
  <2>2. pc = "split" => pc' = "split" /\ i' = i
    <3> SUFFICES ASSUME pc = "split" PROVE pc' = "split" /\ i' = i
      OBVIOUS
    <3>1. ~Main /\ ~Finished
      BY <1>3 DEF Main, Finished, JoinMap, CreateMerge, JoinMerge, SortAll, CreateSort, JoinSort,
         Goto
    <3>2. ASSUME NEW t \in Procs, Thread(t) PROVE pc' = pc /\ i' = i
      BY <3>2 DEF Thread, wordcount_map, merge_sections, sort_section
    <3> QED BY <3>1, <3>2 DEF Next, vars
  <2>3. pc # "split" => pc' # "split"
    <3> SUFFICES ASSUME pc # "split" PROVE pc' # "split"
      OBVIOUS
    <3>1. CASE Main
      BY <1>3, <3>1 DEF Main, JoinMap, CreateMerge, JoinMerge, SortAll, CreateSort, JoinSort, Goto
    <3>2. ASSUME NEW t \in Procs, Thread(t) PROVE pc' = pc
      BY <3>2 DEF Thread, wordcount_map, merge_sections, sort_section
    <3>3. CASE Finished \/ UNCHANGED vars
      BY <3>3 DEF Finished, vars
    <3> QED BY <3>1, <3>2, <3>3 DEF Next
  <2>4. flen' = flen /\ Char(fpos)' = Char(fpos)
    BY <2>1, FileKept
  <2> QED BY <2>1, <2>2, <2>3, <2>4 DEF FposInv
<1> QED BY <1>2, <1>3

\* The division of the size of the file by the number of processors leaves 1 or nothing.
LittleLeft == flen % num_procs <= 1

\* Then no word starts behind the last section: if there is a character it is a blank.
LEMMA NoWordBehind ==
    ASSUME IInv, FposInv, pc # "split", LittleLeft
    PROVE  Between(0, fpos) = WordStarts
<1>1. flen \in Nat /\ num_procs \in Nat \ {0} /\ fpos \in 0..flen
  BY ControlTypes
<1>2. \A a \in Nat, b \in Nat \ {0} : b * (a \div b) = a - (a % b) /\ a % b \in Nat
  OBVIOUS
<1>3. num_procs * (flen \div num_procs) = flen - (flen % num_procs) /\ flen % num_procs \in Nat
  BY <1>1, <1>2, Zenon
<1>4. fpos = flen \/ fpos >= num_procs * (flen \div num_procs)
  BY DEF FposInv
<1>5. fpos = flen \/ fpos = flen - 1
  <2>1. PICK r, x : r = flen % num_procs /\ x = num_procs * (flen \div num_procs)
    OBVIOUS
  <2>2. r \in Nat /\ r <= 1 /\ x = flen - r /\ (fpos = flen \/ fpos >= x)
    BY <1>3, <1>4, <2>1 DEF LittleLeft
  <2> QED BY <1>1, <2>2
<1>6. CASE fpos = flen
  BY <1>1, <1>6 DEF Between, WordStarts
<1>7. CASE fpos = flen - 1 /\ fpos # flen
  <2>1. ~Letter(Char(flen - 1))
    BY <1>7 DEF FposInv, InsideWord
  <2>2. flen - 1 \notin WordStarts
    BY <2>1 DEF WordStarts
  <2>3. \A p \in WordStarts : p \in 0..(flen - 1) /\ p # flen - 1
    BY <2>2 DEF WordStarts
  <2> QED BY <1>1, <1>7, <2>3 DEF Between
<1> QED BY <1>1, <1>5, <1>6, <1>7

-----------------------------------------------------------------------------
(* What the tables count. *)

\* The tables, merged, unmerged or half merged, count exactly the words before the place
\* where the splitter stopped, wherever that is.
CountsToFpos == ~InMap => \A w : CountOf(w) = Occ(Between(0, fpos), w)

\* Whatever the sizes, nothing is lost or counted twice between the sections and the
\* result: wordcount_map, merge_sections and the rounds of merges and sorts.
THEOREM CountedToFpos == Spec => []CountsToFpos
<1>1. IInv /\ CountInv => CountsToFpos
  <2> SUFFICES ASSUME IInv, CountInv, ~InMap, NEW w
               PROVE  CountOf(w) = Occ(Between(0, fpos), w)
    BY DEF CountsToFpos
  <2>1. Stored(Live) /\ Totals(Live, w, Occ(Between(0, fpos), w))
    BY LiveTotals
  <2>2. Live \in Seq(Entries)
    BY <2>1 DEF Stored
  <2>3. SumOf(Live, w) = Occ(Between(0, fpos), w)
    BY <2>1, <2>2, SumIs
  <2> QED BY <2>3, CountOfSum
<1> QED BY <1>1, InitInv, NextInv, CountInvInit, CountInvNext, PTL DEF Spec

\* "divide file on a word border": every word is counted as often as it occurs, from the
\* sections to the result, if the division of the size of the file by the number of
\* processors leaves at most 1, which with one or two processors is always so.
THEOREM WordsCounted == Spec => [](LittleLeft => EveryWordCounted)
<1>1. IInv /\ FposInv /\ CountsToFpos => (LittleLeft => EveryWordCounted)
  <2> SUFFICES ASSUME IInv, FposInv, CountsToFpos, LittleLeft,
                      pc \notin {"split", "join_map"}, NEW p \in WordStarts
               PROVE  CountOf(FileWord(p)) = Occurrences(FileWord(p))
    BY DEF EveryWordCounted
  <2>1. Between(0, fpos) = WordStarts
    BY NoWordBehind
  <2>2. CountOf(FileWord(p)) = Occ(WordStarts, FileWord(p))
    BY <2>1 DEF CountsToFpos, InMap
  <2> QED BY <2>2 DEF Occ, Occurrences
<1> QED BY <1>1, CountedToFpos, InitInv, NextInv, FposInvInit, FposInvNext, PTL DEF Spec
=============================================================================
