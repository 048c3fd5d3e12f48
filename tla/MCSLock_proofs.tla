--------------------------- MODULE MCSLock_proofs ---------------------------
(***************************************************************************)
(* Proofs about MCSLock for every set of workers: the lock is a mutex,     *)
(* passed on in the order of the exchanges, and a worker that comes back   *)
(* finds its flag cleared.                                                 *)
(***************************************************************************)
EXTENDS MCSLock, TLAPS

-----------------------------------------------------------------------------
(* The inductive invariant. *)

Waiting == {"lock", "link", "spin"}
Owning  == {"in", "swap", "await", "handoff"}

\* The workers in line are those that have exchanged and not left, each once,
\* and head is the last of them.
LineInv ==
    /\ \A k, l \in 1..Len(line) : line[k] = line[l] => k = l
    /\ \A w \in Workers : pc[w] \in Waiting \cup Owning => \E k \in 1..Len(line) : line[k] = w
    /\ \A k \in 1..Len(line) : pc[line[k]] \in Waiting \cup Owning
    /\ head = IF Len(line) = 0 THEN Null ELSE line[Len(line)]

\* The first in line owns the lock or has been handed it, the others wait behind
\* their predecessors.
OrderInv ==
    \A k \in 1..Len(line) :
        IF k = 1 THEN \/ pc[line[k]] \in Owning
                      \/ pc[line[k]] = "spin" /\ locked[line[k]] = 0
                 ELSE /\ pc[line[k]] \in Waiting
                      /\ prev[line[k]] = line[k - 1]
                      /\ pc[line[k]] = "spin" => locked[line[k]] = 1

\* A record points to the next in line as soon as that one has linked itself.
NextInv ==
    /\ \A k \in 1..Len(line) :
          next[line[k]] = IF k < Len(line) /\ pc[line[k + 1]] = "spin" THEN line[k + 1]
                                                                       ELSE Null
    /\ \A w \in Workers : /\ pc[w] = "exchange" => next[w] = Null
                          /\ pc[w] = "handoff" => next[w] # Null

\* The flag of a worker before it links itself and after it has the lock.
FlagInv == \A w \in Workers : /\ pc[w] \notin {"link", "spin"} => locked[w] = 0
                              /\ pc[w] = "link" => locked[w] = 1

IInv == TypeOK /\ LineInv /\ OrderInv /\ NextInv /\ FlagInv

-----------------------------------------------------------------------------
(* Sequences. *)

LEMMA AppendLemma ==
    ASSUME NEW S, NEW s \in Seq(S), NEW e \in S
    PROVE  /\ Append(s, e) \in Seq(S)
           /\ Len(s) \in Nat /\ Len(Append(s, e)) = Len(s) + 1
           /\ \A k \in 1..Len(s) : Append(s, e)[k] = s[k]
           /\ Append(s, e)[Len(s) + 1] = e
OBVIOUS

LEMMA TailLemma ==
    ASSUME NEW S, NEW s \in Seq(S), Len(s) # 0
    PROVE  /\ Tail(s) \in Seq(S)
           /\ Len(s) \in Nat \ {0} /\ Len(Tail(s)) = Len(s) - 1
           /\ \A k \in 1..(Len(s) - 1) : Tail(s)[k] = s[k + 1]
           /\ Head(s) = s[1]
OBVIOUS

LEMMA LineLemma ==
    ASSUME TypeOK
    PROVE  /\ Len(line) \in Nat
           /\ \A k \in 1..Len(line) : line[k] \in Workers
BY DEF TypeOK

-----------------------------------------------------------------------------
(* Every step preserves the invariant. *)

LEMMA InitInvariant == Init => IInv
<1> SUFFICES ASSUME Init PROVE IInv
  OBVIOUS
<1>1. TypeOK
  BY DEF Init, TypeOK
<1>2. Len(line) = 0 /\ 1..Len(line) = {}
  BY DEF Init
<1> QED BY <1>1, <1>2 DEF Init, IInv, LineInv, OrderInv, NextInv, FlagInv, Waiting, Owning

\* Where a worker in line stands.
LEMMA Place ==
    ASSUME IInv, NEW w \in Workers
    PROVE  /\ pc[w] \in Owning => Len(line) # 0 /\ line[1] = w
           /\ pc[w] \in {"lock", "link"} =>
                 \E k \in 2..Len(line) : line[k] = w /\ prev[w] = line[k - 1]
           /\ pc[w] = "spin" /\ locked[w] = 0 => Len(line) # 0 /\ line[1] = w
           /\ pc[w] \in {"out", "exchange"} => \A k \in 1..Len(line) : line[k] # w
<1> USE DEF IInv, Waiting, Owning
<1>1. Len(line) \in Nat
  BY LineLemma
<1>2. CASE pc[w] \in Waiting \cup Owning
  <2>1. PICK k \in 1..Len(line) : line[k] = w
    BY <1>2 DEF LineInv
  <2>2. CASE k = 1
    BY <1>1, <2>1, <2>2 DEF OrderInv
  <2>3. CASE k # 1
    BY <1>1, <2>1, <2>3 DEF OrderInv
  <2> QED BY <2>2, <2>3
<1>3. CASE pc[w] \notin Waiting \cup Owning
  BY <1>3 DEF LineInv
<1> QED BY <1>2, <1>3

LEMMA AcquireStep == ASSUME IInv, NEW w \in Workers, mcs_acquire(w) PROVE IInv'
<1> USE DEF IInv, Goto, records, Waiting, Owning, mcs_acquire
<1>0. /\ Len(line) \in Nat
      /\ \A k \in 1..Len(line) : line[k] \in Workers
      /\ line' = line /\ head' = head
  BY LineLemma
<1>p. \A k \in 1..Len(line) : line[k] # w
  BY Place
<1>1. TypeOK'
  BY DEF TypeOK
<1>2. LineInv'
  BY <1>0, <1>p DEF TypeOK, LineInv
<1>3. OrderInv'
  BY <1>0, <1>p DEF TypeOK, LineInv, OrderInv, FlagInv
<1>4. NextInv'
  BY <1>0, <1>p DEF TypeOK, LineInv, OrderInv, NextInv
<1>5. FlagInv'
  BY <1>0, <1>p DEF TypeOK, FlagInv
<1> QED BY <1>1, <1>2, <1>3, <1>4, <1>5

LEMMA SetLockedStep == ASSUME IInv, NEW w \in Workers, SetLocked(w) PROVE IInv'
<1> USE DEF IInv, Goto, records, Waiting, Owning, SetLocked
<1>0. /\ Len(line) \in Nat
      /\ \A k \in 1..Len(line) : line[k] \in Workers
      /\ line' = line /\ head' = head
  BY LineLemma
<1>p. \E k \in 2..Len(line) : line[k] = w /\ prev[w] = line[k - 1]
  BY Place
<1>1. TypeOK'
  BY DEF TypeOK
<1>2. LineInv'
  BY <1>0, <1>p DEF TypeOK, LineInv
<1>3. OrderInv'
  BY <1>0, <1>p DEF TypeOK, LineInv, OrderInv, FlagInv
<1>4. NextInv'
  BY <1>0, <1>p DEF TypeOK, LineInv, OrderInv, NextInv
<1>5. FlagInv'
  BY <1>0, <1>p DEF TypeOK, FlagInv
<1> QED BY <1>1, <1>2, <1>3, <1>4, <1>5

LEMMA LinkStep == ASSUME IInv, NEW w \in Workers, Link(w) PROVE IInv'
<1> USE DEF IInv, Goto, records, Waiting, Owning, Link
<1>0. /\ Len(line) \in Nat
      /\ \A k \in 1..Len(line) : line[k] \in Workers
      /\ line' = line /\ head' = head
  BY LineLemma
<1>p. \E k \in 2..Len(line) : line[k] = w /\ prev[w] = line[k - 1]
  BY Place
<1>1. TypeOK'
  BY DEF TypeOK
<1>2. LineInv'
  BY <1>0, <1>p DEF TypeOK, LineInv
<1>3. OrderInv'
  BY <1>0, <1>p DEF TypeOK, LineInv, OrderInv, FlagInv
<1>4. NextInv'
  BY <1>0, <1>p DEF TypeOK, LineInv, OrderInv, NextInv
<1>5. FlagInv'
  BY <1>0, <1>p DEF TypeOK, FlagInv
<1> QED BY <1>1, <1>2, <1>3, <1>4, <1>5

LEMMA SpinStep == ASSUME IInv, NEW w \in Workers, Spin(w) PROVE IInv'
<1> USE DEF IInv, Goto, records, Waiting, Owning, Spin
<1>0. /\ Len(line) \in Nat
      /\ \A k \in 1..Len(line) : line[k] \in Workers
      /\ line' = line /\ head' = head
  BY LineLemma
<1>p. Len(line) # 0 /\ line[1] = w
  BY Place
<1>1. TypeOK'
  BY DEF TypeOK
<1>2. LineInv'
  BY <1>0, <1>p DEF TypeOK, LineInv
<1>3. OrderInv'
  BY <1>0, <1>p DEF TypeOK, LineInv, OrderInv, FlagInv
<1>4. NextInv'
  BY <1>0, <1>p DEF TypeOK, LineInv, OrderInv, NextInv
<1>5. FlagInv'
  BY <1>0, <1>p DEF TypeOK, FlagInv
<1> QED BY <1>1, <1>2, <1>3, <1>4, <1>5

LEMMA ReleaseStep == ASSUME IInv, NEW w \in Workers, mcs_release(w) PROVE IInv'
<1> USE DEF IInv, Goto, records, Waiting, Owning, mcs_release
<1>0. /\ Len(line) \in Nat
      /\ \A k \in 1..Len(line) : line[k] \in Workers
      /\ line' = line /\ head' = head
  BY LineLemma
<1>p. Len(line) # 0 /\ line[1] = w
  BY Place
<1>1. TypeOK'
  BY DEF TypeOK
<1>2. LineInv'
  BY <1>0, <1>p DEF TypeOK, LineInv
<1>3. OrderInv'
  BY <1>0, <1>p DEF TypeOK, LineInv, OrderInv, FlagInv
<1>4. NextInv'
  BY <1>0, <1>p DEF TypeOK, LineInv, OrderInv, NextInv
<1>5. FlagInv'
  BY <1>0, <1>p DEF TypeOK, FlagInv
<1> QED BY <1>1, <1>2, <1>3, <1>4, <1>5

LEMMA AwaitStep == ASSUME IInv, NEW w \in Workers, AwaitNext(w) PROVE IInv'
<1> USE DEF IInv, Goto, records, Waiting, Owning, AwaitNext
<1>0. /\ Len(line) \in Nat
      /\ \A k \in 1..Len(line) : line[k] \in Workers
      /\ line' = line /\ head' = head
  BY LineLemma
<1>p. Len(line) # 0 /\ line[1] = w
  BY Place
<1>1. TypeOK'
  BY DEF TypeOK
<1>2. LineInv'
  BY <1>0, <1>p DEF TypeOK, LineInv
<1>3. OrderInv'
  BY <1>0, <1>p DEF TypeOK, LineInv, OrderInv, FlagInv
<1>4. NextInv'
  BY <1>0, <1>p DEF TypeOK, LineInv, OrderInv, NextInv
<1>5. FlagInv'
  BY <1>0, <1>p DEF TypeOK, FlagInv
<1> QED BY <1>1, <1>2, <1>3, <1>4, <1>5

LEMMA ExchangeStep == ASSUME IInv, NEW w \in Workers, Exchange(w) PROVE IInv'
<1> USE DEF IInv, Goto, records, Waiting, Owning, Exchange
<1> DEFINE n == Len(line)
<1>0. /\ n \in Nat
      /\ \A k \in 1..n : line[k] \in Workers /\ line[k] # w
      /\ line' \in Seq(Workers) /\ Len(line') = n + 1
      /\ \A k \in 1..n : line'[k] = line[k]
      /\ line'[n + 1] = w
  BY LineLemma, Place, AppendLemma DEF TypeOK
<1>h. /\ head = IF n = 0 THEN Null ELSE line[n]
      /\ head = Null <=> n = 0
      /\ next[w] = Null /\ locked[w] = 0
  BY <1>0, NullAssumption DEF LineInv, NextInv, FlagInv
<1>p. /\ pc' = [pc EXCEPT ![w] = IF n = 0 THEN "in" ELSE "lock"]
      /\ prev' = [prev EXCEPT ![w] = IF n = 0 THEN Null ELSE line[n]]
      /\ head' = w /\ next' = next /\ locked' = locked
  BY <1>h
<1>1. TypeOK'
  BY <1>0, <1>p, <1>h DEF TypeOK
<1> HIDE DEF Exchange, n
<1>2. LineInv'
  <2>1. \A k, l \in 1..(n + 1) : line'[k] = line'[l] => k = l
    BY <1>0 DEF LineInv, n
  <2>2. \A v \in Workers : pc'[v] \in Waiting \cup Owning => \E k \in 1..(n + 1) : line'[k] = v
    BY <1>0, <1>p DEF LineInv, n, TypeOK
  <2>3. \A k \in 1..(n + 1) : pc'[line'[k]] \in Waiting \cup Owning
    BY <1>0, <1>p DEF LineInv, n, TypeOK
  <2> QED BY <1>0, <1>p, <2>1, <2>2, <2>3 DEF LineInv
<1>3. OrderInv'
  <2> SUFFICES ASSUME NEW k \in 1..(n + 1)
               PROVE  IF k = 1 THEN \/ pc'[line'[k]] \in Owning
                                    \/ pc'[line'[k]] = "spin" /\ locked'[line'[k]] = 0
                               ELSE /\ pc'[line'[k]] \in Waiting
                                    /\ prev'[line'[k]] = line'[k - 1]
                                    /\ pc'[line'[k]] = "spin" => locked'[line'[k]] = 1
    BY <1>0 DEF OrderInv
  <2>1. CASE k \in 1..n
    <3>1. /\ line'[k] = line[k] /\ line[k] \in Workers /\ line[k] # w
          /\ pc'[line[k]] = pc[line[k]] /\ prev'[line[k]] = prev[line[k]]
          /\ locked'[line[k]] = locked[line[k]]
      BY <1>0, <1>p, <2>1 DEF TypeOK, n
    <3>2. IF k = 1 THEN \/ pc[line[k]] \in Owning
                        \/ pc[line[k]] = "spin" /\ locked[line[k]] = 0
                   ELSE /\ pc[line[k]] \in Waiting
                        /\ prev[line[k]] = line[k - 1]
                        /\ pc[line[k]] = "spin" => locked[line[k]] = 1
      BY <2>1 DEF OrderInv, n
    <3>3. k # 1 => line'[k - 1] = line[k - 1]
      BY <1>0, <2>1
    <3> QED BY <3>1, <3>2, <3>3
  <2>2. CASE k = n + 1
    BY <1>0, <1>p, <2>2 DEF TypeOK
  <2> QED BY <1>0, <2>1, <2>2
<1>4. NextInv'
  <2>1. \A k \in 1..n : next[line[k]] = IF k < n /\ pc[line[k + 1]] = "spin" THEN line[k + 1]
                                                                          ELSE Null
    BY DEF NextInv, n
  <2>2. \A k \in 1..(n + 1) : next'[line'[k]] = IF k < n + 1 /\ pc'[line'[k + 1]] = "spin"
                                                  THEN line'[k + 1] ELSE Null
    <3> SUFFICES ASSUME NEW k \in 1..(n + 1)
                 PROVE  next'[line'[k]] = IF k < n + 1 /\ pc'[line'[k + 1]] = "spin"
                                            THEN line'[k + 1] ELSE Null
      OBVIOUS
    <3>1. CASE k < n
      <4>1. /\ k \in 1..n /\ k + 1 \in 1..n /\ k < n + 1
            /\ line'[k] = line[k] /\ line'[k + 1] = line[k + 1]
        BY <1>0, <3>1
      <4>2. /\ next'[line[k]] = next[line[k]]
            /\ pc'[line[k + 1]] = pc[line[k + 1]]
        BY <1>0, <1>p, <4>1 DEF TypeOK, n
      <4> QED BY <2>1, <3>1, <4>1, <4>2
    <3>2. CASE k = n
      BY <1>0, <1>p, <2>1, <3>2 DEF TypeOK
    <3>3. CASE k = n + 1
      BY <1>0, <1>p, <1>h, <3>3
    <3> QED BY <1>0, <3>1, <3>2, <3>3
  <2>3. \A v \in Workers : /\ pc'[v] = "exchange" => next'[v] = Null
                           /\ pc'[v] = "handoff" => next'[v] # Null
    BY <1>0, <1>p DEF NextInv, TypeOK
  <2> QED BY <1>0, <2>2, <2>3 DEF NextInv
<1>5. FlagInv'
  BY <1>p, <1>h DEF TypeOK, FlagInv
<1> QED BY <1>1, <1>2, <1>3, <1>4, <1>5

LEMMA CompareAndSwapStep == ASSUME IInv, NEW w \in Workers, CompareAndSwap(w) PROVE IInv'
<1> USE DEF IInv, Goto, records, Waiting, Owning, CompareAndSwap
<1>0. /\ Len(line) \in Nat \ {0} /\ line[1] = w
      /\ \A k \in 1..Len(line) : line[k] \in Workers
  BY LineLemma, Place
<1>1. CASE head = w
  <2>1. Len(line) = 1
    <3>1. line[Len(line)] = line[1]
      BY <1>0, <1>1 DEF LineInv
    <3>2. Len(line) \in 1..Len(line) /\ 1 \in 1..Len(line)
      BY <1>0
    <3> QED BY <3>1, <3>2 DEF LineInv
  <2>2. Len(line') = 0 /\ line' \in Seq(Workers)
    <3>1. line' = Tail(line)
      BY <1>1
    <3>2. line \in Seq(Workers) /\ Len(line) # 0
      BY <2>1 DEF TypeOK
    <3>3. Tail(line) \in Seq(Workers) /\ Len(Tail(line)) = Len(line) - 1
      BY <3>2, TailLemma
    <3> QED BY <2>1, <3>1, <3>3
  <2>3. /\ \A v \in Workers : pc[v] \in Waiting \cup Owning => v = w
        /\ pc' = [pc EXCEPT ![w] = "out"] /\ head' = Null
        /\ UNCHANGED <<next, locked, prev>>
    BY <1>0, <1>1, <2>1 DEF LineInv
  <2>4. TypeOK'
    BY <2>2, <2>3 DEF TypeOK
  <2>5. LineInv' /\ OrderInv'
    BY <2>2, <2>3 DEF TypeOK, LineInv, OrderInv
  <2>6. NextInv' /\ FlagInv'
    BY <2>2, <2>3 DEF TypeOK, NextInv, FlagInv
  <2> QED BY <2>4, <2>5, <2>6
<1>2. CASE head # w
  <2>1. pc' = [pc EXCEPT ![w] = "await"] /\ UNCHANGED <<head, line, next, locked, prev>>
    BY <1>2
  <2>2. TypeOK'
    BY <2>1 DEF TypeOK
  <2>3. LineInv' /\ OrderInv'
    BY <1>0, <2>1 DEF TypeOK, LineInv, OrderInv
  <2>4. NextInv' /\ FlagInv'
    BY <1>0, <2>1 DEF TypeOK, LineInv, NextInv, FlagInv
  <2> QED BY <2>2, <2>3, <2>4
<1> QED BY <1>1, <1>2

LEMMA HandOffStep == ASSUME IInv, NEW w \in Workers, HandOff(w) PROVE IInv'
<1> USE DEF IInv, Goto, records, Waiting, Owning
<1> DEFINE n == Len(line)
           v == line[2]
<1>0. /\ n \in Nat \ {0} /\ line[1] = w
      /\ \A k \in 1..n : line[k] \in Workers
  BY LineLemma, Place DEF HandOff
<1>1. n >= 2 /\ v \in Workers /\ v # w /\ pc[v] = "spin" /\ next[w] = v
  BY <1>0 DEF HandOff, NextInv, LineInv
<1>2. /\ line' \in Seq(Workers) /\ Len(line') = n - 1
      /\ \A k \in 1..(n - 1) : line'[k] = line[k + 1]
  BY <1>0, TailLemma DEF TypeOK, HandOff
<1>3. /\ pc' = [pc EXCEPT ![w] = "out"] /\ locked' = [locked EXCEPT ![v] = 0]
      /\ UNCHANGED <<head, next, prev>>
  BY <1>1 DEF HandOff
<1>4. /\ \A k \in 1..(n - 1) : line'[k] # w
      /\ \A k \in 2..(n - 1) : line'[k] # v
      /\ n - 1 \in 1..n /\ line'[1] = v
  <2>1. \A k, l \in 1..n : line[k] = line[l] => k = l
    BY DEF LineInv
  <2>2. \A k \in 1..(n - 1) : k + 1 \in 1..n /\ k + 1 # 1
    BY <1>0
  <2>3. 1 \in 1..n /\ 2 \in 1..n /\ 1 \in 1..(n - 1) /\ n - 1 \in 1..n
    BY <1>0, <1>1
  <2>4. \A k \in 1..(n - 1) : line'[k] # w
    BY <1>0, <1>2, <2>1, <2>2, <2>3
  <2>5. \A k \in 2..(n - 1) : line'[k] # v
    <3> SUFFICES ASSUME NEW k \in 2..(n - 1) PROVE line[k + 1] # line[2]
      BY <1>0, <1>2
    <3>1. k + 1 \in 1..n /\ k + 1 # 2
      BY <1>0
    <3> QED BY <2>1, <2>3, <3>1
  <2>6. line'[1] = line[1 + 1]
    BY <1>2, <2>3
  <2> QED BY <2>3, <2>4, <2>5, <2>6
<1> HIDE DEF n, v
<1>5. TypeOK'
  BY <1>1, <1>2, <1>3 DEF TypeOK
<1>6. LineInv'
  <2>1. \A k, l \in 1..(n - 1) : line'[k] = line'[l] => k = l
    BY <1>0, <1>2 DEF LineInv, n
  <2>2. ASSUME NEW u \in Workers, pc'[u] \in Waiting \cup Owning
        PROVE  \E k \in 1..(n - 1) : line'[k] = u
    <3>1. u # w /\ pc[u] \in Waiting \cup Owning
      BY <1>3, <2>2 DEF TypeOK
    <3>2. PICK k \in 1..n : line[k] = u
      BY <3>1 DEF LineInv, n
    <3>3. k # 1 /\ k - 1 \in 1..(n - 1) /\ line'[k - 1] = u
      BY <1>0, <1>2, <3>1, <3>2
    <3> QED BY <3>3
  <2>3. \A k \in 1..(n - 1) : pc'[line'[k]] \in Waiting \cup Owning
    BY <1>0, <1>2, <1>3, <1>4 DEF LineInv, n, TypeOK
  <2>4. head' = line'[n - 1] /\ n - 1 # 0
    BY <1>0, <1>1, <1>2, <1>3 DEF LineInv, n
  <2> QED BY <1>2, <2>1, <2>2, <2>3, <2>4 DEF LineInv
<1>7. OrderInv'
  <2> SUFFICES ASSUME NEW k \in 1..(n - 1)
               PROVE  IF k = 1 THEN \/ pc'[line'[k]] \in Owning
                                    \/ pc'[line'[k]] = "spin" /\ locked'[line'[k]] = 0
                               ELSE /\ pc'[line'[k]] \in Waiting
                                    /\ prev'[line'[k]] = line'[k - 1]
                                    /\ pc'[line'[k]] = "spin" => locked'[line'[k]] = 1
    BY <1>2 DEF OrderInv
  <2>1. CASE k = 1
    BY <1>1, <1>3, <1>4, <2>1 DEF TypeOK
  <2>2. CASE k # 1
    <3>1. /\ k + 1 \in 1..n /\ k + 1 # 1 /\ k - 1 \in 1..(n - 1)
          /\ line'[k] = line[k + 1] /\ line'[k - 1] = line[k] /\ (k + 1) - 1 = k
      BY <1>0, <1>2, <2>2
    <3>2. /\ pc[line[k + 1]] \in Waiting
          /\ prev[line[k + 1]] = line[k]
          /\ pc[line[k + 1]] = "spin" => locked[line[k + 1]] = 1
      BY <3>1 DEF OrderInv, n
    <3>3. line[k + 1] # w /\ line[k + 1] # v
      BY <1>0, <1>4, <2>2, <3>1
    <3> QED BY <1>3, <2>2, <3>1, <3>2, <3>3 DEF TypeOK
  <2> QED BY <2>1, <2>2
<1>8. NextInv'
  <2>1. \A k \in 1..(n - 1) : next'[line'[k]] = IF k < n - 1 /\ pc'[line'[k + 1]] = "spin"
                                                  THEN line'[k + 1] ELSE Null
    <3> SUFFICES ASSUME NEW k \in 1..(n - 1)
                 PROVE  next'[line'[k]] = IF k < n - 1 /\ pc'[line'[k + 1]] = "spin"
                                            THEN line'[k + 1] ELSE Null
      OBVIOUS
    <3>1. /\ k + 1 \in 1..n /\ line'[k] = line[k + 1]
          /\ next[line[k + 1]] = IF k + 1 < n /\ pc[line[k + 1 + 1]] = "spin"
                                   THEN line[k + 1 + 1] ELSE Null
      BY <1>0, <1>2 DEF NextInv, n
    <3>2. CASE k < n - 1
      <4>1. k + 1 \in 1..(n - 1) /\ line'[k + 1] = line[k + 1 + 1] /\ line'[k + 1] # w
        BY <1>0, <1>2, <1>4, <3>2
      <4> QED BY <1>0, <1>3, <3>1, <3>2, <4>1 DEF TypeOK
    <3>3. CASE k = n - 1
      BY <1>0, <1>3, <3>1, <3>3
    <3> QED BY <1>0, <3>2, <3>3
  <2>2. \A u \in Workers : /\ pc'[u] = "exchange" => next'[u] = Null
                           /\ pc'[u] = "handoff" => next'[u] # Null
    BY <1>3 DEF NextInv, TypeOK
  <2> QED BY <1>2, <2>1, <2>2 DEF NextInv
<1>9. FlagInv'
  <2>1. pc[w] = "handoff" /\ locked[w] = 0
    BY DEF HandOff, FlagInv
  <2> QED BY <1>1, <1>3, <2>1 DEF TypeOK, FlagInv
<1> QED BY <1>5, <1>6, <1>7, <1>8, <1>9

LEMMA InvariantStep == IInv /\ [Next]_vars => IInv'
<1> SUFFICES ASSUME IInv, [Next]_vars PROVE IInv'
  OBVIOUS
<1>1. ASSUME NEW w \in Workers, mcs_acquire(w) \/ Proceed(w) PROVE IInv'
  BY <1>1, AcquireStep, ExchangeStep, SetLockedStep, LinkStep, SpinStep, ReleaseStep,
     CompareAndSwapStep, AwaitStep, HandOffStep DEF Proceed
<1>2. CASE UNCHANGED vars
  BY <1>2 DEF vars, records, IInv, TypeOK, LineInv, OrderInv, NextInv, FlagInv
<1> QED BY <1>1, <1>2 DEF Next

-----------------------------------------------------------------------------
(* The theorems. *)

\* The invariant holds in every behaviour.
THEOREM Invariance == Spec => []IInv
<1>1. IInv /\ [Next]_vars => IInv'
  BY InvariantStep
<1> QED BY InitInvariant, <1>1, PTL DEF Spec

\* The records, the lock and the line keep their types (mcs.c).
THEOREM TypeCorrect == Spec => []TypeOK
<1>1. IInv => TypeOK
  BY DEF IInv
<1> QED BY <1>1, Invariance, PTL

\* The assertion of mcs_acquire holds, for any number of workers.
THEOREM Cleared == Spec => []FlagCleared
<1>1. IInv => FlagCleared
  BY DEF IInv, FlagInv, FlagCleared
<1> QED BY <1>1, Invariance, PTL

\* Whoever holds the lock came before all others in line.
THEOREM Order == Spec => []FirstComeFirstServed
<1>1. IInv => FirstComeFirstServed
  <2> SUFFICES ASSUME IInv, NEW w \in Workers, pc[w] = "in"
               PROVE  line # <<>> /\ w = Head(line)
    BY DEF FirstComeFirstServed
  <2>1. Len(line) # 0 /\ line[1] = w
    BY Place DEF Owning
  <2> QED BY <2>1, TailLemma DEF IInv, TypeOK
<1> QED BY <1>1, Invariance, PTL

\* There is one holder at most, and Holder is the one.
LEMMA OneHolder ==
    ASSUME IInv
    PROVE  /\ \A w \in Workers : pc[w] = "in" => Holder = w
           /\ (\A w \in Workers : pc[w] # "in") => Holder = Null
<1>1. \A v, w \in Workers : pc[v] = "in" /\ pc[w] = "in" => v = w
  BY Place DEF Owning
<1>2. ASSUME NEW w \in Workers, pc[w] = "in" PROVE Holder = w
  BY <1>1, <1>2 DEF Holder
<1>3. (\A w \in Workers : pc[w] # "in") => Holder = Null
  BY DEF Holder
<1> QED BY <1>2, <1>3

\* A step of one worker that neither enters nor leaves keeps the holder.
LEMMA SameHolder ==
    ASSUME IInv, IInv', \A w \in Workers : pc'[w] = "in" <=> pc[w] = "in"
    PROVE  Holder' = Holder
<1>1. CASE \E w \in Workers : pc[w] = "in"
  <2>1. PICK w \in Workers : pc[w] = "in"
    BY <1>1
  <2>2. Holder = w
    BY <2>1, OneHolder
  <2>3. Holder' = w
    <3>1. pc'[w] = "in" /\ \A v, u \in Workers : pc'[v] = "in" /\ pc'[u] = "in" => v = u
      BY <2>1, Place DEF Owning
    <3> QED BY <3>1 DEF Holder
  <2> QED BY <2>2, <2>3
<1>2. CASE \A w \in Workers : pc[w] # "in"
  BY <1>2 DEF Holder
<1> QED BY <1>1, <1>2

\* The MCS lock implements the mutex that TaskQ takes its locks to be.
THEOREM Refinement == Spec => MutexSpec
<1>1. Init => Mx!Init
  BY DEF Init, Mx!Init, Holder
<1>2. IInv /\ IInv' /\ [Next]_vars => [Mx!Next]_Holder
  <2> SUFFICES ASSUME IInv, IInv', [Next]_vars PROVE [Mx!Next]_Holder
    OBVIOUS
  <2> USE DEF Goto
  <2>1. ASSUME NEW w \in Workers, pc[w] # "in", pc'[w] = "in",
               \A v \in Workers : v # w => pc'[v] = pc[v],
               Len(line) = 0 \/ line[1] = w
        PROVE  Mx!Acquire(w)
    <3>1. \A v \in Workers : pc[v] # "in"
      BY <2>1, Place DEF Owning
    <3>2. Holder = Null
      BY <3>1, OneHolder
    <3>3. Holder' = w
      BY <2>1, <3>1 DEF Holder
    <3> QED BY <3>2, <3>3 DEF Mx!Acquire
  <2>2. ASSUME NEW w \in Workers, pc[w] = "in", pc'[w] # "in",
               \A v \in Workers : v # w => pc'[v] = pc[v]
        PROVE  Mx!Release(w)
    <3>1. Holder = w /\ \A v \in Workers : pc'[v] # "in"
      BY <2>2, OneHolder, Place DEF Owning
    <3> QED BY <3>1 DEF Mx!Release, Holder
  <2>3. ASSUME NEW w \in Workers, mcs_acquire(w) \/ Proceed(w)
        PROVE  \/ \A v \in Workers : pc'[v] = "in" <=> pc[v] = "in"
               \/ Mx!Acquire(w) \/ Mx!Release(w)
    <3>0. \A v \in Workers : v # w => pc'[v] = pc[v]
      BY <2>3 DEF IInv, TypeOK, Proceed, mcs_acquire, Exchange, SetLocked, Link, Spin,
                  mcs_release, CompareAndSwap, AwaitNext, HandOff
    <3>1. CASE Exchange(w)
      <4>1. CASE head = Null
        <5>1. Len(line) = 0
          BY <4>1, LineLemma, NullAssumption DEF IInv, LineInv
        <5> QED BY <2>1, <3>0, <3>1, <4>1, <5>1 DEF Exchange, IInv, TypeOK
      <4>2. CASE head # Null
        BY <3>0, <3>1, <4>2 DEF Exchange, IInv, TypeOK
      <4> QED BY <4>1, <4>2
    <3>2. CASE Spin(w)
      <4>1. line[1] = w
        BY <3>2, Place DEF Spin
      <4> QED BY <2>1, <3>0, <3>2, <4>1 DEF Spin, IInv, TypeOK
    <3>3. CASE mcs_release(w)
      BY <2>2, <3>0, <3>3 DEF mcs_release, IInv, TypeOK
    <3>4. CASE mcs_acquire(w) \/ SetLocked(w) \/ Link(w) \/ CompareAndSwap(w) \/ AwaitNext(w)
               \/ HandOff(w)
      BY <3>0, <3>4 DEF mcs_acquire, SetLocked, Link, CompareAndSwap, AwaitNext, HandOff,
                        IInv, TypeOK
    <3> QED BY <2>3, <3>1, <3>2, <3>3, <3>4 DEF Proceed
  <2>4. CASE UNCHANGED vars
    BY <2>4 DEF vars, Holder
  <2> QED BY <2>3, <2>4, SameHolder DEF Next, Mx!Next
<1> QED BY <1>1, <1>2, Invariance, PTL DEF Spec, MutexSpec, Mx!Spec
=============================================================================
