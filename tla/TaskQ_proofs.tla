---------------------------- MODULE TaskQ_proofs ----------------------------
(***************************************************************************)
(* Proofs about TaskQ for every number of queues, workers and tasks: a     *)
(* worker that gives up leaves no task behind, every task of a joined      *)
(* round has been executed exactly once, no entry is lost or freed twice,  *)
(* and TaskQ implements TaskBag.  The last section is about List, on which *)
(* the queues are built: on links that represent a sequence the operations *)
(* of list.h do what Append, Tail and their counterparts do, and they      *)
(* leave every other list as it is, whatever the number of cells.          *)
(***************************************************************************)
EXTENDS TaskQ, List, FiniteSetTheorems, SequenceTheorems, TLAPS

-----------------------------------------------------------------------------
(* The inductive invariant. *)

CallerInv == /\ phase # "drain" => AllOff
             /\ phase # "fill" => next = Len(Rounds[round])
             /\ phase = "drain" => Waiting = {} \/ ~AllOff

Inside(w) == pc[w] \in {"read", "unlink", "push", "release"}

\* The lock of a queue is held by the worker that is inside, and by no other.
LockInv == \A w \in Workers : Inside(w) => lock[cur[w]] = w

ElemInv ==
    \A w \in Workers :
        /\ pc[w] = "unlink" => queues[cur[w]] # <<>> /\ elem[w] = Head(queues[cur[w]])
        /\ pc[w] \in {"push", "run"} => elem[w] \in Tasks
        /\ pc[w] = "release" /\ elem[w] = NoTask => queues[cur[w]] = <<>>

\* The queues worker w has tried in this call, cyclically from index to cur.
Tried(w) == {q \in Queues : IF index[w] <= cur[w] THEN index[w] <= q /\ q < cur[w]
                                                  ELSE index[w] <= q \/ q < cur[w]}
Scanning(w) == \/ pc[w] \in {"acquire", "read"}
               \/ pc[w] = "release" /\ elem[w] = NoTask
ScanInv == \A w \in Workers : Scanning(w) => \A q \in Tried(w) : queues[q] = <<>>

\* An entry is at one place of one queue.
UniqueInv == \A p, q \in Queues : \A k \in 1..Len(queues[p]), l \in 1..Len(queues[q]) :
                queues[p][k] = queues[q][l] => p = q /\ k = l

\* A task waits, is in the hand of one worker or has been executed, once.
PlaceInv ==
    \A t \in Tasks :
        /\ executed[t] \in {0, 1}
        /\ t \in Queued <=> \/ t \in Waiting
                            \/ \E w \in Workers : Hand(w) = t
                            \/ executed[t] = 1
        /\ t \in Waiting => executed[t] = 0 /\ \A w \in Workers : Hand(w) # t
        /\ \A w \in Workers : Hand(w) = t =>
              executed[t] = 0 /\ \A v \in Workers : Hand(v) = t => v = w

IInv == /\ TypeOK /\ CallerInv /\ LockInv /\ ElemInv /\ ScanInv /\ UniqueInv /\ PlaceInv

-----------------------------------------------------------------------------
(* Sequences and the queue index. *)

LEMMA NextQueueLemma ==
    \A q \in Queues : /\ NextQueue(q) = IF q + 1 = NumQueues THEN 0 ELSE q + 1
                      /\ NextQueue(q) \in Queues
BY NumQueuesAssumption, SMTT(20) DEF Queues, NextQueue

LEMMA AppendLemma ==
    ASSUME NEW S, NEW s \in Seq(S), NEW e \in S
    PROVE  /\ Append(s, e) \in Seq(S)
           /\ Len(s) \in Nat /\ Len(Append(s, e)) = Len(s) + 1
           /\ \A k \in 1..Len(s) : Append(s, e)[k] = s[k]
           /\ Append(s, e)[Len(s) + 1] = e
OBVIOUS

LEMMA TailLemma ==
    ASSUME NEW S, NEW s \in Seq(S), s # <<>>
    PROVE  /\ Tail(s) \in Seq(S)
           /\ Len(s) \in Nat \ {0} /\ Len(Tail(s)) = Len(s) - 1
           /\ \A k \in 1..(Len(s) - 1) : Tail(s)[k] = s[k + 1]
           /\ Head(s) = s[1] /\ Head(s) \in S
OBVIOUS

-----------------------------------------------------------------------------
(* What is queued, what waits. *)

\* The next task of the round is a new one.
LEMMA QueuedEnqueue ==
    ASSUME TypeOK, next < Len(Rounds[round]), round' = round, next' = next + 1
    PROVE  LET t == Rounds[round][next + 1]
           IN  t \in Tasks /\ t \notin Queued /\ Queued' = Queued \cup {t}
<1> DEFINE t == Rounds[round][next + 1]
<1>1. /\ round \in 1..Len(Rounds) /\ Len(Rounds[round]) \in Nat
      /\ next \in Nat /\ next + 1 \in 1..Len(Rounds[round])
  BY RoundsAssumption DEF TypeOK
<1>2. t \in Tasks
  BY <1>1 DEF Tasks
<1>3. \A r \in 1..Len(Rounds) : \A k \in 1..Len(Rounds[r]) :
        Rounds[r][k] = t <=> r = round /\ k = next + 1
  BY <1>1, RoundsAssumption
<1>4. t \notin Queued
  <2> SUFFICES ASSUME t \in Queued PROVE FALSE
    OBVIOUS
  <2>1. PICK r \in 1..round : \E k \in 1..Len(Rounds[r]) :
           t = Rounds[r][k] /\ (r < round \/ k <= next)
    BY DEF Queued
  <2>2. PICK k \in 1..Len(Rounds[r]) : t = Rounds[r][k] /\ (r < round \/ k <= next)
    BY <2>1
  <2>3. r \in 1..Len(Rounds)
    BY <1>1
  <2>4. r = round /\ k = next + 1
    BY <1>3, <2>2, <2>3
  <2> QED BY <1>1, <2>2, <2>4
<1>5. \A s \in Tasks : s \in Queued' <=> s \in Queued \/ s = t
  <2> SUFFICES ASSUME NEW s \in Tasks PROVE s \in Queued' <=> s \in Queued \/ s = t
    OBVIOUS
  <2>1. s \in Queued => s \in Queued'
    BY <1>1, RoundsAssumption DEF Queued
  <2>2. t \in Queued'
    BY <1>1, <1>2 DEF Queued
  <2>3. ASSUME s \in Queued' PROVE s \in Queued \/ s = t
    <3>1. PICK r \in 1..round : \E k \in 1..Len(Rounds[r]) :
             s = Rounds[r][k] /\ (r < round \/ k <= next + 1)
      BY <2>3 DEF Queued
    <3>2. PICK k \in 1..Len(Rounds[r]) : s = Rounds[r][k] /\ (r < round \/ k <= next + 1)
      BY <3>1
    <3>3. r \in 1..Len(Rounds) /\ Len(Rounds[r]) \in Nat
      BY <1>1, RoundsAssumption
    <3> QED BY <1>1, <3>2, <3>3 DEF Queued
  <2> QED BY <2>1, <2>2, <2>3
<1> QED BY <1>2, <1>4, <1>5 DEF Queued

\* A new round starts with none of its tasks queued.
LEMMA QueuedJoin ==
    ASSUME TypeOK, next = Len(Rounds[round]), round' = round + 1, next' = 0
    PROVE  Queued' = Queued
<1>1. round \in 1..Len(Rounds) /\ next \in Nat
  BY RoundsAssumption DEF TypeOK
<1>2. ASSUME NEW s \in Tasks, s \in Queued PROVE s \in Queued'
  <2>1. PICK r \in 1..round : \E k \in 1..Len(Rounds[r]) : s = Rounds[r][k]
    BY <1>2 DEF Queued
  <2>2. r \in 1..round' /\ r < round'
    BY <1>1
  <2> QED BY <2>1, <2>2 DEF Queued
<1>3. ASSUME NEW s \in Tasks, s \in Queued' PROVE s \in Queued
  <2>1. PICK r \in 1..round' : \E k \in 1..Len(Rounds[r]) :
           s = Rounds[r][k] /\ (r < round' \/ k <= 0)
    BY <1>3 DEF Queued
  <2>2. PICK k \in 1..Len(Rounds[r]) : s = Rounds[r][k] /\ (r < round' \/ k <= 0)
    BY <2>1
  <2>3. r \in 1..round /\ (r < round \/ k <= next)
    BY <1>1, <2>2
  <2> QED BY <2>2, <2>3 DEF Queued
<1> QED BY <1>2, <1>3 DEF Queued

LEMMA QueuedSame == ASSUME UNCHANGED <<round, next>> PROVE Queued' = Queued
BY DEF Queued

LEMMA QueuesSame ==
    ASSUME UNCHANGED queues
    PROVE  Waiting' = Waiting /\ (UniqueInv => UniqueInv')
BY DEF Waiting, UniqueInv

\* The places of the tasks depend on these four only.
LEMMA PlacesSame ==
    ASSUME PlaceInv, UNCHANGED executed, Waiting' = Waiting, Queued' = Queued,
           \A v \in Workers : Hand(v)' = Hand(v)
    PROVE  PlaceInv'
BY DEF PlaceInv

\* With its head unlinked a queue loses one task, which waits nowhere else.
LEMMA Unlinked ==
    ASSUME TypeOK, UniqueInv, NEW q \in Queues, queues[q] # <<>>,
           queues' = [queues EXCEPT ![q] = Tail(@)]
    PROVE  /\ queues' \in [Queues -> Seq(Tasks)]
           /\ Head(queues[q]) \in Waiting /\ Head(queues[q]) \in Tasks
           /\ Waiting' = Waiting \ {Head(queues[q])}
           /\ UniqueInv'
<1> DEFINE h == Head(queues[q])
<1>1. queues[q] \in Seq(Tasks) /\ queues \in [Queues -> Seq(Tasks)]
  BY DEF TypeOK
<1>2. /\ Len(queues[q]) \in Nat \ {0} /\ h = queues[q][1] /\ h \in Tasks
      /\ queues'[q] \in Seq(Tasks)
      /\ Len(queues'[q]) = Len(queues[q]) - 1
      /\ \A k \in 1..Len(queues'[q]) : queues'[q][k] = queues[q][k + 1]
  BY <1>1, TailLemma
<1>3. \A p \in Queues : p # q => queues'[p] = queues[p]
  BY <1>1
<1>4. queues' \in [Queues -> Seq(Tasks)]
  BY <1>1, <1>2
<1>5. h \in Waiting
  BY <1>2 DEF Waiting
<1>6. ASSUME NEW p \in Queues, NEW k \in 1..Len(queues'[p])
      PROVE  /\ p = q => k + 1 \in 1..Len(queues[q]) /\ queues'[p][k] = queues[q][k + 1]
             /\ p # q => k \in 1..Len(queues[p]) /\ queues'[p][k] = queues[p][k]
  BY <1>2, <1>3
<1>7. UniqueInv'
  <2> SUFFICES ASSUME NEW p \in Queues, NEW r \in Queues,
                      NEW k \in 1..Len(queues'[p]), NEW l \in 1..Len(queues'[r]),
                      queues'[p][k] = queues'[r][l]
               PROVE  p = r /\ k = l
    BY DEF UniqueInv
  <2>1. CASE p = q /\ r = q
    BY <1>2, <1>6, <2>1 DEF UniqueInv
  <2>2. CASE p = q /\ r # q
    BY <1>2, <1>6, <2>2 DEF UniqueInv
  <2>3. CASE p # q /\ r = q
    BY <1>2, <1>6, <2>3 DEF UniqueInv
  <2>4. CASE p # q /\ r # q
    BY <1>3, <2>4 DEF UniqueInv
  <2> QED BY <2>1, <2>2, <2>3, <2>4
<1>8. ASSUME NEW t, t \in Waiting' PROVE t \in Waiting /\ t # h
  <2>1. PICK p \in Queues : \E k \in 1..Len(queues'[p]) : t = queues'[p][k]
    BY <1>8 DEF Waiting
  <2>2. PICK k \in 1..Len(queues'[p]) : t = queues'[p][k]
    BY <2>1
  <2>3. CASE p = q
    <3>1. k + 1 \in 1..Len(queues[q]) /\ t = queues[q][k + 1] /\ k + 1 # 1
      BY <1>2, <1>6, <2>2, <2>3
    <3>2. 1 \in 1..Len(queues[q])
      BY <1>2
    <3> QED BY <1>2, <3>1, <3>2 DEF UniqueInv, Waiting
  <2>4. CASE p # q
    <3>1. k \in 1..Len(queues[p]) /\ t = queues[p][k]
      BY <1>6, <2>2, <2>4
    <3>2. 1 \in 1..Len(queues[q])
      BY <1>2
    <3> QED BY <1>2, <2>4, <3>1, <3>2 DEF UniqueInv, Waiting
  <2> QED BY <2>3, <2>4
<1>9. ASSUME NEW t \in Waiting, t # h PROVE t \in Waiting'
  <2>1. PICK p \in Queues : \E k \in 1..Len(queues[p]) : t = queues[p][k]
    BY <1>9 DEF Waiting
  <2>2. PICK k \in 1..Len(queues[p]) : t = queues[p][k]
    BY <2>1
  <2>3. CASE p = q
    <3>1. k # 1
      BY <1>2, <1>9, <2>2, <2>3
    <3>2. k - 1 \in 1..Len(queues'[q]) /\ queues'[q][k - 1] = queues[q][(k - 1) + 1]
      BY <1>2, <2>3, <3>1
    <3>3. (k - 1) + 1 = k
      BY <1>2, <2>3
    <3>4. t = queues'[q][k - 1]
      BY <2>2, <2>3, <3>2, <3>3
    <3>5. t \in {queues'[q][j] : j \in 1..Len(queues'[q])}
      BY <3>2, <3>4
    <3> QED BY <3>5 DEF Waiting
  <2>4. CASE p # q
    BY <1>3, <2>2, <2>4 DEF Waiting
  <2> QED BY <2>3, <2>4
<1>10. Waiting' = Waiting \ {h}
  BY <1>8, <1>9
<1> QED BY <1>2, <1>4, <1>5, <1>7, <1>10

\* A task appended to a queue waits; if it waited nowhere, no entry is doubled.
LEMMA Appended ==
    ASSUME TypeOK, UniqueInv, NEW q \in Queues, NEW t \in Tasks, t \notin Waiting,
           queues' = [queues EXCEPT ![q] = Append(@, t)]
    PROVE  /\ queues' \in [Queues -> Seq(Tasks)]
           /\ Waiting' = Waiting \cup {t}
           /\ UniqueInv'
<1>1. queues[q] \in Seq(Tasks) /\ queues \in [Queues -> Seq(Tasks)]
  BY DEF TypeOK
<1>2. /\ Len(queues[q]) \in Nat /\ queues'[q] \in Seq(Tasks)
      /\ Len(queues'[q]) = Len(queues[q]) + 1
      /\ \A k \in 1..Len(queues[q]) : queues'[q][k] = queues[q][k]
      /\ queues'[q][Len(queues[q]) + 1] = t
  BY <1>1, AppendLemma
<1>3. \A p \in Queues : p # q => queues'[p] = queues[p]
  BY <1>1
<1>4. queues' \in [Queues -> Seq(Tasks)]
  BY <1>1, <1>2
<1>5. ASSUME NEW p \in Queues, NEW k \in 1..Len(queues'[p])
      PROVE  \/ k \in 1..Len(queues[p]) /\ queues'[p][k] = queues[p][k]
             \/ p = q /\ k = Len(queues[q]) + 1 /\ queues'[p][k] = t
  BY <1>2, <1>3
<1>6. \A p \in Queues : \A k \in 1..Len(queues[p]) : queues[p][k] # t
  BY DEF Waiting
<1>7. UniqueInv'
  <2> SUFFICES ASSUME NEW p \in Queues, NEW r \in Queues,
                      NEW k \in 1..Len(queues'[p]), NEW l \in 1..Len(queues'[r]),
                      queues'[p][k] = queues'[r][l]
               PROVE  p = r /\ k = l
    BY DEF UniqueInv
  <2>1. \/ k \in 1..Len(queues[p]) /\ queues'[p][k] = queues[p][k]
        \/ p = q /\ k = Len(queues[q]) + 1 /\ queues'[p][k] = t
    BY <1>5
  <2>2. \/ l \in 1..Len(queues[r]) /\ queues'[r][l] = queues[r][l]
        \/ r = q /\ l = Len(queues[q]) + 1 /\ queues'[r][l] = t
    BY <1>5
  <2> QED BY <1>6, <2>1, <2>2 DEF UniqueInv
<1>8. ASSUME NEW s, s \in Waiting' PROVE s \in Waiting \cup {t}
  <2>1. PICK p \in Queues : \E k \in 1..Len(queues'[p]) : s = queues'[p][k]
    BY <1>8 DEF Waiting
  <2>2. PICK k \in 1..Len(queues'[p]) : s = queues'[p][k]
    BY <2>1
  <2> QED BY <1>5, <2>2 DEF Waiting
<1>9. ASSUME NEW s \in Waiting PROVE s \in Waiting'
  <2>1. PICK p \in Queues : \E k \in 1..Len(queues[p]) : s = queues[p][k]
    BY DEF Waiting
  <2>2. PICK k \in 1..Len(queues[p]) : s = queues[p][k]
    BY <2>1
  <2>3. k \in 1..Len(queues'[p]) /\ s = queues'[p][k]
    BY <1>2, <1>3, <2>2
  <2> QED BY <2>3 DEF Waiting
<1>10. t \in Waiting'
  BY <1>2 DEF Waiting
<1> QED BY <1>4, <1>7, <1>8, <1>9, <1>10

-----------------------------------------------------------------------------
(* The steps of a worker. *)

\* What the bag of tasks looks like is not changed by most of them.
SameBag == /\ Waiting' = Waiting /\ Queued' = Queued /\ executed' = executed
           /\ \A v \in Workers : Hand(v)' = Hand(v)

\* No queue has been tried yet.
LEMMA DequeueStep ==
    ASSUME IInv, NEW w \in Workers, NEW q \in Queues, Dequeue(w, q)
    PROVE  IInv' /\ SameBag
<1> USE DEF Goto, callerVars, queueVars
<1>1. /\ pc \in [Workers -> Places] /\ elem \in [Workers -> Tasks \cup {NoTask}]
      /\ cur \in [Workers -> Queues] /\ index \in [Workers -> Queues]
      /\ \A v \in Workers : v # w => pc'[v] = pc[v]
  BY DEF IInv, TypeOK, Dequeue
<1>2. TypeOK'
  BY DEF IInv, TypeOK, Places, Dequeue
<1>3. CallerInv'
  BY <1>1, QueuesSame DEF IInv, CallerInv, AllOff, Dequeue
<1>4. LockInv'
  BY <1>1, NamesAssumption DEF IInv, TypeOK, LockInv, Inside, Dequeue
<1>5. ElemInv'
  BY <1>1 DEF IInv, ElemInv, Dequeue
<1>6. ScanInv'
  <2> SUFFICES ASSUME NEW v \in Workers, Scanning(v)', NEW p \in Tried(v)'
               PROVE  queues[p] = <<>>
    BY DEF ScanInv, Dequeue
  <2>1. Queues \subseteq Int
    BY NumQueuesAssumption DEF Queues
  <2>2. v # w
    <3> SUFFICES ASSUME v = w PROVE FALSE
      OBVIOUS
    <3>1. index'[v] = q /\ cur'[v] = q
      BY <1>1 DEF Dequeue
    <3> QED BY <2>1, <3>1 DEF Tried
  <2> QED BY <1>1, <2>2 DEF IInv, ScanInv, Scanning, Tried, Dequeue
<1>7. UniqueInv' /\ Waiting' = Waiting
  BY QueuesSame DEF IInv, Dequeue
<1>8. SameBag
  BY <1>1, <1>7, QueuedSame, NamesAssumption DEF SameBag, Hand, Holding, Dequeue
<1>9. PlaceInv'
  BY <1>8, PlacesSame DEF IInv, SameBag
<1> QED BY <1>2, <1>3, <1>4, <1>5, <1>6, <1>7, <1>8, <1>9 DEF IInv

\* The lock was free, so no other worker is inside the queue.
LEMMA AcquireStep ==
    ASSUME IInv, NEW w \in Workers, Acquire(w)
    PROVE  IInv' /\ SameBag
<1> USE DEF Goto, callerVars, queueVars
<1>1. /\ pc \in [Workers -> Places] /\ elem \in [Workers -> Tasks \cup {NoTask}]
      /\ cur \in [Workers -> Queues] /\ index \in [Workers -> Queues]
      /\ \A v \in Workers : v # w => pc'[v] = pc[v]
  BY DEF IInv, TypeOK, Acquire
<1>2. TypeOK'
  BY DEF IInv, TypeOK, Places, Acquire
<1>3. CallerInv'
  BY <1>1, QueuesSame DEF IInv, CallerInv, AllOff, Acquire
<1>4. LockInv'
  BY <1>1, NamesAssumption DEF IInv, TypeOK, LockInv, Inside, Acquire
<1>5. ElemInv'
  BY <1>1 DEF IInv, ElemInv, Acquire
<1>6. ScanInv'
  BY <1>1 DEF IInv, ScanInv, Scanning, Tried, Acquire
<1>7. UniqueInv' /\ Waiting' = Waiting
  BY QueuesSame DEF IInv, Acquire
<1>8. SameBag
  BY <1>1, <1>7, QueuedSame, NamesAssumption DEF SameBag, Hand, Holding, Acquire
<1>9. PlaceInv'
  BY <1>8, PlacesSame DEF IInv, SameBag
<1> QED BY <1>2, <1>3, <1>4, <1>5, <1>6, <1>7, <1>8, <1>9 DEF IInv

\* The head read is the task the worker will unlink; an empty queue joins those tried.
LEMMA ReadHeadStep ==
    ASSUME IInv, NEW w \in Workers, ReadHead(w)
    PROVE  IInv' /\ SameBag
<1> USE DEF Goto, callerVars, queueVars
<1>1. /\ pc \in [Workers -> Places] /\ elem \in [Workers -> Tasks \cup {NoTask}]
      /\ cur \in [Workers -> Queues] /\ index \in [Workers -> Queues]
      /\ \A v \in Workers : v # w => pc'[v] = pc[v]
  BY DEF IInv, TypeOK, ReadHead
<1>2. TypeOK'
  BY DEF IInv, TypeOK, Places, ReadHead
<1>3. CallerInv'
  BY <1>1, QueuesSame DEF IInv, CallerInv, AllOff, ReadHead
<1>4. LockInv'
  BY <1>1, NamesAssumption DEF IInv, TypeOK, LockInv, Inside, ReadHead
<1>5. ElemInv'
  BY <1>1 DEF IInv, ElemInv, ReadHead
<1>6. ScanInv'
  BY <1>1 DEF IInv, ScanInv, Scanning, Tried, ReadHead
<1>7. UniqueInv' /\ Waiting' = Waiting
  BY QueuesSame DEF IInv, ReadHead
<1>8. SameBag
  BY <1>1, <1>7, QueuedSame, NamesAssumption DEF SameBag, Hand, Holding, ReadHead
<1>9. PlaceInv'
  BY <1>8, PlacesSame DEF IInv, SameBag
<1> QED BY <1>2, <1>3, <1>4, <1>5, <1>6, <1>7, <1>8, <1>9 DEF IInv

\* The entry stays in the hand of the worker.
LEMMA PushFreeStep ==
    ASSUME IInv, NEW w \in Workers, PushFree(w)
    PROVE  IInv' /\ SameBag
<1> USE DEF Goto, callerVars, queueVars
<1>1. /\ pc \in [Workers -> Places] /\ elem \in [Workers -> Tasks \cup {NoTask}]
      /\ cur \in [Workers -> Queues] /\ index \in [Workers -> Queues]
      /\ \A v \in Workers : v # w => pc'[v] = pc[v]
  BY DEF IInv, TypeOK, PushFree
<1>2. TypeOK'
  <2>1. elem[w] \in Tasks /\ cur[w] \in Queues /\ free_queues[cur[w]] \in Seq(Tasks)
    BY DEF IInv, TypeOK, ElemInv, PushFree
  <2>2. Append(free_queues[cur[w]], elem[w]) \in Seq(Tasks)
    BY <2>1, AppendLemma
  <2> QED BY <2>1, <2>2 DEF IInv, TypeOK, Places, PushFree
<1>3. CallerInv'
  BY <1>1, QueuesSame DEF IInv, CallerInv, AllOff, PushFree
<1>4. LockInv'
  BY <1>1, NamesAssumption DEF IInv, TypeOK, LockInv, Inside, PushFree
<1>5. ElemInv'
  BY <1>1, NamesAssumption DEF IInv, ElemInv, PushFree
<1>6. ScanInv'
  BY <1>1, NamesAssumption DEF IInv, ElemInv, ScanInv, Scanning, Tried, PushFree
<1>7. UniqueInv' /\ Waiting' = Waiting
  BY QueuesSame DEF IInv, PushFree
<1>8. SameBag
  BY <1>1, <1>7, QueuedSame, NamesAssumption DEF SameBag, Hand, Holding, PushFree
<1>9. PlaceInv'
  BY <1>8, PlacesSame DEF IInv, SameBag
<1> QED BY <1>2, <1>3, <1>4, <1>5, <1>6, <1>7, <1>8, <1>9 DEF IInv

\* The head leaves the queue and the bag, and is in the hand of the worker, who
\* alone is inside the queue.
LEMMA UnlinkStep ==
    ASSUME IInv, NEW w \in Workers, Unlink(w)
    PROVE  /\ IInv'
           /\ elem[w] \in Waiting /\ elem[w] \in Tasks /\ Waiting' = Waiting \ {elem[w]}
           /\ Hand(w) = NoTask /\ Hand(w)' = elem[w]
           /\ \A v \in Workers : v # w => Hand(v)' = Hand(v)
           /\ UNCHANGED executed
<1> USE DEF Goto, callerVars, queueVars
<1> DEFINE q == cur[w]
<1>1. /\ pc \in [Workers -> Places] /\ cur \in [Workers -> Queues] /\ pc[w] = "unlink"
      /\ \A v \in Workers : v # w => pc'[v] = pc[v]
      /\ pc'[w] = "push"
      /\ UNCHANGED <<cur, index, elem, lock, executed, phase, round, next>>
  BY DEF IInv, TypeOK, Unlink
<1>2. /\ q \in Queues /\ queues[q] # <<>> /\ elem[w] = Head(queues[q])
      /\ queues \in [Queues -> Seq(Tasks)]
  BY <1>1 DEF IInv, TypeOK, ElemInv
<1>3. queues' = [queues EXCEPT ![q] = Tail(@)]
  BY <1>2 DEF Unlink
<1>4. /\ queues' \in [Queues -> Seq(Tasks)]
      /\ elem[w] \in Waiting /\ elem[w] \in Tasks
      /\ Waiting' = Waiting \ {elem[w]}
      /\ UniqueInv'
  BY <1>2, <1>3, Unlinked DEF IInv
<1>5. TypeOK'
  BY <1>1, <1>4 DEF IInv, TypeOK, Places, Unlink
<1>6. CallerInv'
  BY <1>1 DEF IInv, CallerInv, AllOff
<1>7. LockInv'
  BY <1>1 DEF IInv, LockInv, Inside
<1>8. \A v \in Workers : v # w /\ Inside(v) => cur[v] # q
  BY <1>1, NamesAssumption DEF IInv, LockInv, Inside
<1>9. \A p \in Queues : queues'[p] = queues[p] \/ p = q
  BY <1>2, <1>3
<1>10. ElemInv'
  <2> SUFFICES ASSUME NEW v \in Workers
               PROVE  /\ pc'[v] = "unlink" => queues'[cur[v]] # <<>> /\ elem[v] = Head(queues'[cur[v]])
                      /\ pc'[v] \in {"push", "run"} => elem[v] \in Tasks
                      /\ pc'[v] = "release" /\ elem[v] = NoTask => queues'[cur[v]] = <<>>
    BY <1>1 DEF ElemInv
  <2>1. CASE v = w
    BY <1>1, <1>4, <2>1
  <2>2. CASE v # w
    <3>1. cur[v] \in Queues /\ pc'[v] = pc[v]
      BY <1>1, <2>2
    <3>2. Inside(v) => queues'[cur[v]] = queues[cur[v]]
      BY <1>8, <1>9, <2>2, <3>1
    <3> QED BY <3>1, <3>2 DEF IInv, ElemInv, Inside
  <2> QED BY <2>1, <2>2
<1>11. ScanInv'
  <2>1. \A p \in Queues : queues[p] = <<>> => queues'[p] = <<>>
    BY <1>2, <1>9
  <2> QED BY <1>1, <2>1 DEF IInv, ScanInv, Scanning, Tried
<1>12. /\ Hand(w) = NoTask /\ Hand(w)' = elem[w]
       /\ \A v \in Workers : v # w => Hand(v)' = Hand(v)
  BY <1>1 DEF Hand, Holding
<1>13. PlaceInv'
  <2>1. Queued' = Queued
    BY <1>1, QueuedSame
  <2>2. NoTask \notin Tasks
    BY NamesAssumption
  <2> SUFFICES ASSUME NEW t \in Tasks
               PROVE  /\ executed[t] \in {0, 1}
                      /\ t \in Queued <=> \/ t \in Waiting'
                                          \/ \E v \in Workers : Hand(v)' = t
                                          \/ executed[t] = 1
                      /\ t \in Waiting' => executed[t] = 0 /\ \A v \in Workers : Hand(v)' # t
                      /\ \A v \in Workers : Hand(v)' = t =>
                            executed[t] = 0 /\ \A u \in Workers : Hand(u)' = t => u = v
    BY <1>1, <2>1 DEF PlaceInv
  <2>3. CASE t = elem[w]
    BY <1>4, <1>12, <2>3 DEF IInv, PlaceInv
  <2>4. CASE t # elem[w]
    BY <1>4, <1>12, <2>2, <2>4 DEF IInv, PlaceInv
  <2> QED BY <2>3, <2>4
<1> QED BY <1>1, <1>4, <1>5, <1>6, <1>7, <1>10, <1>11, <1>12, <1>13 DEF IInv

\* A worker that gives up has tried every queue: none of them holds a task.
LEMMA GivesUp ==
    ASSUME IInv, NEW w \in Workers, pc[w] = "release", elem[w] = NoTask,
           NextQueue(cur[w]) = index[w]
    PROVE  (\A q \in Queues : queues[q] = <<>>) /\ Waiting = {}
<1>1. Queues \subseteq Int /\ cur[w] \in Queues /\ index[w] \in Queues
  BY NumQueuesAssumption DEF Queues, IInv, TypeOK
<1>2. \A q \in Queues : q \in Tried(w) \/ q = cur[w]
  BY <1>1, NextQueueLemma, NumQueuesAssumption DEF Tried, Queues
<1>3. queues[cur[w]] = <<>> /\ \A q \in Tried(w) : queues[q] = <<>>
  BY DEF IInv, ElemInv, ScanInv, Scanning
<1>4. \A q \in Queues : queues[q] = <<>>
  BY <1>2, <1>3
<1>5. \A q \in Queues : Len(queues[q]) = 0
  BY <1>4
<1> QED BY <1>4, <1>5 DEF Waiting

\* A worker that releases a queue has an entry and runs it, or has emptied one
\* more queue, or gives up.
LEMMA ReleaseStep ==
    ASSUME IInv, NEW w \in Workers, Release(w)
    PROVE  /\ IInv'
           /\ Waiting' = Waiting /\ UNCHANGED executed
           /\ \A v \in Workers : v # w => Hand(v)' = Hand(v)
           /\ \/ Hand(w)' = Hand(w)
              \/ Hand(w) = NoTask /\ Waiting = {} /\ Hand(w)' = Nobody
<1> USE DEF Goto, callerVars, queueVars
<1>1. /\ pc \in [Workers -> Places] /\ cur \in [Workers -> Queues] /\ pc[w] = "release"
      /\ index \in [Workers -> Queues] /\ lock \in [Queues -> Workers \cup {Nobody}]
      /\ elem \in [Workers -> Tasks \cup {NoTask}]
      /\ \A v \in Workers : v # w => pc'[v] = pc[v] /\ cur'[v] = cur[v]
      /\ cur'[w] = NextQueue(cur[w]) /\ cur'[w] \in Queues
      /\ pc'[w] = IF elem[w] # NoTask THEN "run"
                  ELSE IF NextQueue(cur[w]) # index[w] THEN "acquire" ELSE "off"
      /\ UNCHANGED <<queues, index, elem, executed, phase, round, next>>
  BY NextQueueLemma DEF IInv, TypeOK, Release
<1>2. TypeOK'
  BY <1>1, NextQueueLemma DEF IInv, TypeOK, Places, Release
<1>3. UniqueInv' /\ Waiting' = Waiting
  BY <1>1, QueuesSame DEF IInv
<1>4. CallerInv'
  <2>1. pc'[w] = "off" => Waiting = {}
    BY <1>1, GivesUp
  <2>2. ~AllOff
    BY <1>1 DEF AllOff
  <2> QED BY <1>1, <1>3, <2>1, <2>2 DEF IInv, CallerInv, AllOff
<1>5. LockInv'
  <2>1. \A v \in Workers : v # w /\ Inside(v) => cur[v] # cur[w]
    BY <1>1 DEF IInv, LockInv, Inside
  <2> QED BY <1>1, <2>1 DEF IInv, LockInv, Inside, Release
<1>6. ElemInv'
  BY <1>1 DEF IInv, ElemInv
<1>7. ScanInv'
  <2> SUFFICES ASSUME NEW v \in Workers, Scanning(v)', NEW p \in Tried(v)'
               PROVE  queues[p] = <<>>
    BY <1>1 DEF ScanInv
  <2>1. CASE v # w
    BY <1>1, <2>1 DEF IInv, ScanInv, Scanning, Tried
  <2>2. CASE v = w
    <3>1. elem[w] = NoTask /\ NextQueue(cur[w]) # index[w]
      BY <1>1, <2>2 DEF Scanning
    <3>2. p \in Tried(w) \/ p = cur[w]
      <4> DEFINE n == NextQueue(cur[w])
      <4>1. p \in Queues /\ IF index[w] <= n THEN index[w] <= p /\ p < n
                                            ELSE index[w] <= p \/ p < n
        BY <1>1, <2>2 DEF Tried
      <4>2. n = IF cur[w] + 1 = NumQueues THEN 0 ELSE cur[w] + 1
        BY <1>1, NextQueueLemma
      <4>3. Queues = 0..(NumQueues - 1) /\ index[w] \in Queues /\ cur[w] \in Queues
        BY <1>1 DEF Queues
      <4> HIDE DEF n
      <4> QED BY <3>1, <4>1, <4>2, <4>3, NumQueuesAssumption DEF Tried, n
    <3> QED BY <1>1, <3>1, <3>2 DEF IInv, ElemInv, ScanInv, Scanning
  <2> QED BY <2>1, <2>2
<1>8. \A v \in Workers : v # w => Hand(v)' = Hand(v)
  BY <1>1 DEF Hand, Holding
<1>9. \/ Hand(w)' = Hand(w)
      \/ Hand(w) = NoTask /\ Waiting = {} /\ Hand(w)' = Nobody
  BY <1>1, GivesUp DEF Hand, Holding
<1>10. PlaceInv'
  <2>1. Queued' = Queued
    BY <1>1, QueuedSame
  <2>2. NoTask \notin Tasks /\ Nobody \notin Tasks
    BY NamesAssumption
  <2>3. \A v \in Workers, t \in Tasks : Hand(v)' = t <=> Hand(v) = t
    BY <1>8, <1>9, <2>2
  <2>4. executed' = executed
    BY <1>1
  <2> QED BY <1>3, <2>1, <2>3, <2>4 DEF IInv, PlaceInv
<1> QED BY <1>1, <1>2, <1>3, <1>4, <1>5, <1>6, <1>7, <1>8, <1>9, <1>10 DEF IInv

\* The task in the hand of a worker has been executed by nobody yet.
LEMMA RunStep ==
    ASSUME IInv, NEW w \in Workers, Run(w)
    PROVE  /\ IInv'
           /\ Waiting' = Waiting
           /\ elem[w] \in Tasks /\ executed' = [executed EXCEPT ![elem[w]] = 1]
           /\ Hand(w) = elem[w] /\ Hand(w)' = NoTask
           /\ \A v \in Workers : v # w => Hand(v)' = Hand(v)
<1> USE DEF Goto, callerVars, queueVars
<1>1. /\ pc \in [Workers -> Places] /\ pc[w] = "run" /\ elem[w] \in Tasks
      /\ executed \in [Tasks -> Nat]
      /\ \A v \in Workers : v # w => pc'[v] = pc[v]
      /\ pc'[w] = "dequeue"
      /\ executed' = [executed EXCEPT ![elem[w]] = @ + 1]
      /\ UNCHANGED <<cur, index, elem, lock, queues, phase, round, next>>
  BY DEF IInv, TypeOK, ElemInv, Run
<1>2. TypeOK'
  BY <1>1 DEF IInv, TypeOK, Places, Run
<1>3. UniqueInv' /\ Waiting' = Waiting
  BY <1>1, QueuesSame DEF IInv
<1>4. CallerInv'
  BY <1>1, <1>3 DEF IInv, CallerInv, AllOff
<1>5. LockInv'
  BY <1>1 DEF IInv, LockInv, Inside
<1>6. ElemInv'
  BY <1>1 DEF IInv, ElemInv
<1>7. ScanInv'
  BY <1>1 DEF IInv, ScanInv, Scanning, Tried
<1>8. /\ Hand(w) = elem[w] /\ Hand(w)' = NoTask
      /\ \A v \in Workers : v # w => Hand(v)' = Hand(v)
  BY <1>1 DEF Hand, Holding
<1>9. executed[elem[w]] = 0
  BY <1>1, <1>8 DEF IInv, PlaceInv
<1>10. executed'[elem[w]] = 1 /\ \A t \in Tasks : t # elem[w] => executed'[t] = executed[t]
  BY <1>1, <1>9
<1>11. PlaceInv'
  <2>1. Queued' = Queued
    BY <1>1, QueuedSame
  <2>2. NoTask \notin Tasks
    BY NamesAssumption
  <2> SUFFICES ASSUME NEW t \in Tasks
               PROVE  /\ executed'[t] \in {0, 1}
                      /\ t \in Queued <=> \/ t \in Waiting
                                          \/ \E v \in Workers : Hand(v)' = t
                                          \/ executed'[t] = 1
                      /\ t \in Waiting => executed'[t] = 0 /\ \A v \in Workers : Hand(v)' # t
                      /\ \A v \in Workers : Hand(v)' = t =>
                            executed'[t] = 0 /\ \A u \in Workers : Hand(u)' = t => u = v
    BY <1>3, <2>1 DEF PlaceInv
  <2>3. CASE t = elem[w]
    BY <1>1, <1>8, <1>10, <2>2, <2>3 DEF IInv, PlaceInv
  <2>4. CASE t # elem[w]
    BY <1>8, <1>10, <2>2, <2>4 DEF IInv, PlaceInv
  <2> QED BY <2>3, <2>4
<1> QED BY <1>1, <1>2, <1>3, <1>4, <1>5, <1>6, <1>7, <1>8, <1>9, <1>11 DEF IInv

-----------------------------------------------------------------------------
(* The steps of the caller. *)

\* While the caller is not draining, no worker holds or scans anything.
LEMMA Off ==
    ASSUME IInv, phase # "drain" \/ AllOff, NEW v \in Workers
    PROVE  pc[v] = "off" /\ Hand(v) = Nobody
BY DEF IInv, CallerInv, AllOff, Hand

LEMMA EnqueueStep ==
    ASSUME IInv, NEW q \in Queues, tq_enqueue_seq(q)
    PROVE  /\ IInv'
           /\ \A v \in Workers : Hand(v) = Nobody /\ Hand(v)' = Nobody
           /\ UNCHANGED executed
           /\ \E t \in Tasks : /\ t \notin Waiting /\ executed[t] = 0
                               /\ Waiting' = Waiting \cup {t}
<1> DEFINE t == Rounds[round][next + 1]
<1>1. /\ phase = "fill" /\ next < Len(Rounds[round]) /\ next' = next + 1
      /\ queues' = [queues EXCEPT ![q] = Append(@, t)]
      /\ UNCHANGED <<round, phase, free_queues, lock, pc, index, cur, elem, executed>>
  BY DEF tq_enqueue_seq
<1>2. t \in Tasks /\ t \notin Queued /\ Queued' = Queued \cup {t}
  BY <1>1, QueuedEnqueue DEF IInv
<1>3. t \notin Waiting /\ executed[t] = 0
  BY <1>2 DEF IInv, PlaceInv
<1>4. queues' \in [Queues -> Seq(Tasks)] /\ Waiting' = Waiting \cup {t} /\ UniqueInv'
  BY <1>1, <1>2, <1>3, Appended DEF IInv
<1>5. \A v \in Workers : pc[v] = "off" /\ Hand(v) = Nobody /\ Hand(v)' = Nobody
  BY <1>1, Off DEF Hand
<1>6. TypeOK'
  <2>1. next' \in 0..Len(Rounds[round])
    BY <1>1, RoundsAssumption DEF IInv, TypeOK
  <2> QED BY <1>1, <1>4, <2>1 DEF IInv, TypeOK
<1>7. CallerInv'
  BY <1>1 DEF IInv, CallerInv, AllOff
<1>8. LockInv' /\ ElemInv' /\ ScanInv'
  BY <1>1, <1>5 DEF LockInv, Inside, ElemInv, ScanInv, Scanning
<1>9. PlaceInv'
  <2>1. Nobody \notin Tasks
    BY NamesAssumption
  <2> QED BY <1>1, <1>2, <1>3, <1>4, <1>5, <2>1 DEF IInv, PlaceInv
<1> QED BY <1>1, <1>2, <1>3, <1>4, <1>5, <1>6, <1>7, <1>8, <1>9 DEF IInv

LEMMA StartWorkersStep ==
    ASSUME IInv, NEW crew \in (SUBSET Workers) \ {{}}, StartWorkers(crew)
    PROVE  /\ IInv' /\ Waiting' = Waiting /\ UNCHANGED executed
           /\ \A v \in Workers : /\ Hand(v) = Nobody
                                 /\ Hand(v)' = IF v \in crew THEN NoTask ELSE Nobody
<1>1. /\ phase = "fill" /\ phase' = "drain" /\ next = Len(Rounds[round])
      /\ pc' = [v \in Workers |-> IF v \in crew THEN "dequeue" ELSE "off"]
      /\ UNCHANGED <<round, next, queues, free_queues, lock, index, cur, elem, executed>>
  BY DEF StartWorkers, queueVars
<1>2. /\ \A v \in Workers : Hand(v) = Nobody
      /\ \A v \in Workers : Hand(v)' = IF v \in crew THEN NoTask ELSE Nobody
  BY <1>1, Off DEF Hand, Holding
<1>3. TypeOK'
  BY <1>1 DEF IInv, TypeOK, Places
<1>4. CallerInv'
  <2>1. PICK v \in Workers : v \in crew
    <3>1. crew \subseteq Workers /\ crew # {}
      OBVIOUS
    <3> QED BY <3>1
  <2>2. pc'[v] # "off"
    BY <1>1, <2>1
  <2> QED BY <1>1, <2>1, <2>2 DEF CallerInv, AllOff
<1>5. LockInv' /\ ElemInv' /\ ScanInv'
  BY <1>1 DEF LockInv, Inside, ElemInv, ScanInv, Scanning
<1>6. UniqueInv' /\ Waiting' = Waiting
  BY <1>1, QueuesSame DEF IInv
<1>7. PlaceInv'
  <2>1. Queued' = Queued
    BY <1>1, QueuedSame
  <2> QED BY <1>1, <1>2, <1>6, <2>1, NamesAssumption DEF IInv, PlaceInv
<1> QED BY <1>1, <1>2, <1>3, <1>4, <1>5, <1>6, <1>7 DEF IInv

LEMMA JoinStep ==
    ASSUME IInv, JoinWorkers
    PROVE  IInv' /\ SameBag
<1>1. /\ phase = "drain" /\ AllOff /\ phase' = "fill" /\ next' = 0
      /\ round' = round + 1 /\ round < Len(Rounds)
      /\ UNCHANGED <<queues, free_queues, lock, pc, index, cur, elem, executed>>
  BY DEF JoinWorkers, queueVars
<1>2. Queued' = Queued
  BY <1>1, QueuedJoin DEF IInv, CallerInv
<1>3. UniqueInv' /\ Waiting' = Waiting
  BY <1>1, QueuesSame DEF IInv
<1>4. SameBag
  BY <1>1, <1>2, <1>3 DEF SameBag, Hand, Holding
<1>5. PlaceInv'
  BY <1>4, PlacesSame DEF IInv, SameBag
<1>6. TypeOK'
  <2>1. round' \in 1..Len(Rounds) /\ Len(Rounds[round']) \in Nat
    BY <1>1, RoundsAssumption DEF IInv, TypeOK
  <2>2. next' \in 0..Len(Rounds[round'])
    BY <1>1, <2>1
  <2> QED BY <1>1, <2>1, <2>2 DEF IInv, TypeOK
<1>7. CallerInv'
  BY <1>1 DEF CallerInv, AllOff
<1>8. LockInv' /\ ElemInv' /\ ScanInv'
  BY <1>1 DEF IInv, LockInv, Inside, ElemInv, ScanInv, Scanning, Tried
<1> QED BY <1>3, <1>4, <1>5, <1>6, <1>7, <1>8 DEF IInv

LEMMA FinalizeStep ==
    ASSUME IInv, tq_finalize
    PROVE  IInv' /\ SameBag
<1>1. /\ phase = "drain" /\ AllOff /\ phase' = "finalized"
      /\ queues' = [q \in Queues |-> <<>>] /\ free_queues' = [q \in Queues |-> <<>>]
      /\ UNCHANGED <<round, next, lock, pc, index, cur, elem, executed>>
  BY DEF tq_finalize
<1>2. Waiting = {} /\ next = Len(Rounds[round])
  BY <1>1 DEF IInv, CallerInv
<1>3. \A q \in Queues : Len(queues'[q]) = 0
  BY <1>1
<1>4. Waiting' = {} /\ UniqueInv'
  BY <1>3 DEF Waiting, UniqueInv
<1>5. SameBag
  BY <1>1, <1>2, <1>4, QueuedSame DEF SameBag, Hand, Holding
<1>6. PlaceInv'
  BY <1>5, PlacesSame DEF IInv, SameBag
<1>7. TypeOK'
  <2>1. <<>> \in Seq(Tasks)
    OBVIOUS
  <2> QED BY <1>1, <2>1 DEF IInv, TypeOK
<1>8. CallerInv'
  BY <1>1, <1>2 DEF CallerInv, AllOff
<1>9. LockInv' /\ ElemInv' /\ ScanInv'
  BY <1>1 DEF AllOff, LockInv, Inside, ElemInv, ScanInv, Scanning
<1> QED BY <1>4, <1>5, <1>6, <1>7, <1>8, <1>9 DEF IInv

-----------------------------------------------------------------------------
(* The invariant. *)

LEMMA InitInvariant ==
    ASSUME Init
    PROVE  IInv /\ Waiting = {} /\ \A v \in Workers : Hand(v) = Nobody
<1>1. \A q \in Queues : Len(queues[q]) = 0
  BY DEF Init
<1>2. Waiting = {} /\ UniqueInv
  BY <1>1 DEF Waiting, UniqueInv
<1>3. \A v \in Workers : pc[v] = "off" /\ Hand(v) = Nobody
  BY DEF Init, Hand
<1>4. TypeOK
  <2>1. 0 \in Queues /\ <<>> \in Seq(Tasks) /\ 0 \in 0..Len(Rounds[1]) /\ 1 \in 1..Len(Rounds)
    BY NumQueuesAssumption, RoundsAssumption DEF Queues
  <2> QED BY <2>1 DEF Init, TypeOK, Places
<1>5. CallerInv
  BY <1>3 DEF Init, CallerInv, AllOff
<1>6. LockInv /\ ElemInv /\ ScanInv
  BY <1>3 DEF LockInv, Inside, ElemInv, ScanInv, Scanning
<1>7. Queued = {}
  <2> SUFFICES ASSUME NEW t \in Queued PROVE FALSE
    OBVIOUS
  <2>1. PICK r \in 1..round : \E k \in 1..Len(Rounds[r]) : r < round \/ k <= next
    BY DEF Queued
  <2> QED BY <2>1, RoundsAssumption DEF Init
<1>8. PlaceInv
  <2>1. \A t \in Tasks : executed[t] = 0
    BY DEF Init
  <2> QED BY <1>2, <1>3, <1>7, <2>1, NamesAssumption DEF PlaceInv
<1> QED BY <1>2, <1>3, <1>4, <1>5, <1>6, <1>8 DEF IInv

LEMMA InvariantStep ==
    ASSUME IInv, [Next]_vars
    PROVE  IInv'
<1>1. CASE Caller
  BY <1>1, EnqueueStep, StartWorkersStep, JoinStep, FinalizeStep DEF Caller
<1>2. ASSUME NEW w \in Workers, Worker(w) PROVE IInv'
  BY <1>2, DequeueStep, AcquireStep, ReadHeadStep, UnlinkStep, PushFreeStep, ReleaseStep,
     RunStep DEF Worker
<1>3. CASE UNCHANGED vars
  <2>1. SameBag /\ UniqueInv'
    BY <1>3, QueuesSame, QueuedSame
    DEF vars, callerVars, queueVars, SameBag, Hand, Holding, IInv
  <2>2. PlaceInv'
    BY <2>1, PlacesSame DEF SameBag, IInv
  <2>3. TypeOK'
    BY <1>3 DEF IInv, TypeOK, vars, callerVars, queueVars
  <2>4. CallerInv'
    BY <1>3, <2>1 DEF IInv, CallerInv, AllOff, SameBag, vars, callerVars, queueVars
  <2>5. LockInv' /\ ElemInv' /\ ScanInv'
    BY <1>3 DEF IInv, LockInv, Inside, ElemInv, ScanInv, Scanning, Tried, vars, callerVars,
                queueVars
  <2> QED BY <2>1, <2>2, <2>3, <2>4, <2>5 DEF IInv
<1> QED BY <1>1, <1>2, <1>3 DEF Next, Finished

\* The invariant holds of every behaviour.
THEOREM Invariance == Spec => []IInv
<1>1. Init => IInv
  BY InitInvariant
<1>2. IInv /\ [Next]_vars => IInv'
  BY InvariantStep
<1> QED BY <1>1, <1>2, PTL DEF Spec

\* Type correctness (tq_init_normal, tq_dequeue_normal_internal).
THEOREM TypeCorrect == Spec => []TypeOK
<1>1. IInv => TypeOK
  BY DEF IInv
<1> QED BY <1>1, Invariance, PTL

\* When the workers of a round have been joined, every task queued so far has
\* been executed, and executed once, whatever the crew and the interleaving.
THEOREM TasksRan == Spec => []EveryTaskRan
<1>1. IInv => EveryTaskRan
  <2> SUFFICES ASSUME IInv, phase = "drain", AllOff, NEW t \in Tasks
               PROVE  executed[t] = IF t \in Queued THEN 1 ELSE 0
    BY DEF EveryTaskRan
  <2>1. Waiting = {} /\ \A w \in Workers : Hand(w) # t
    BY Off, NamesAssumption DEF IInv, CallerInv
  <2> QED BY <2>1 DEF IInv, PlaceInv
<1> QED BY <1>1, Invariance, PTL

\* A worker that gives up leaves no task in any queue.
THEOREM GiveUp == Spec => NoWorkLeftBehind
<1> DEFINE A == \A w \in Workers : pc[w] = "release" /\ pc'[w] = "off" =>
                   \A q \in Queues : queues[q] = <<>>
<1>1. ASSUME IInv, [Next]_vars PROVE A
  <2> SUFFICES ASSUME NEW w \in Workers, pc[w] = "release", pc'[w] = "off", NEW q \in Queues
               PROVE  queues[q] = <<>>
    OBVIOUS
  <2>1. pc \in [Workers -> Places] /\ elem \in [Workers -> Tasks \cup {NoTask}]
    BY <1>1 DEF IInv, TypeOK
  <2>2. ~AllOff
    BY DEF AllOff
  <2>3. Worker(w)
    BY <1>1, <2>1, <2>2
    DEF Next, Caller, Worker, Goto, tq_enqueue_seq, StartWorkers, JoinWorkers, tq_finalize,
        Dequeue, Acquire, ReadHead, Unlink, PushFree, Release, Run, Finished, vars, IInv,
        CallerInv
  <2>4. Release(w)
    BY <2>1, <2>3 DEF Worker, Goto, Dequeue, Acquire, ReadHead, Unlink, PushFree, Run
  <2>5. elem[w] = NoTask /\ NextQueue(cur[w]) = index[w]
    BY <2>1, <2>4 DEF Release, Goto
  <2> QED BY <1>1, <2>5, GivesUp
<1>2. IInv /\ [Next]_vars => [A]_vars
  BY <1>1
<1> QED BY <1>2, Invariance, PTL DEF Spec, NoWorkLeftBehind

-----------------------------------------------------------------------------
(* No entry is lost, and none is freed twice. *)

\* The entries that have been moved to a free queue.
Moved(t) == executed[t] = 1 \/ \E w \in Workers : pc[w] \in {"release", "run"} /\ elem[w] = t

Freeable(t) == \E q \in Queues : \E k \in 1..Len(free_queues[q]) : free_queues[q][k] = t

FreeInv ==
    phase # "finalized" =>
        /\ \A t \in Tasks : Freeable(t) <=> Moved(t)
        /\ \A p, q \in Queues : \A k \in 1..Len(free_queues[p]), l \in 1..Len(free_queues[q]) :
              free_queues[p][k] = free_queues[q][l] => p = q /\ k = l

\* Pushed to a free queue an entry is there, and nowhere else in the free queues.
LEMMA PushFrees ==
    ASSUME IInv, FreeInv, NEW w \in Workers, PushFree(w)
    PROVE  FreeInv'
<1> DEFINE t == elem[w]
           c == cur[w]
<1>1. /\ pc \in [Workers -> Places] /\ pc[w] = "push" /\ pc' = [pc EXCEPT ![w] = "release"]
      /\ free_queues \in [Queues -> Seq(Tasks)] /\ c \in Queues /\ t \in Tasks
      /\ free_queues' = [free_queues EXCEPT ![c] = Append(@, t)]
      /\ UNCHANGED <<phase, elem, executed>>
  BY DEF PushFree, Goto, callerVars, IInv, TypeOK, ElemInv
<1>2. phase # "finalized"
  BY <1>1 DEF IInv, CallerInv, AllOff
<1> HIDE DEF t, c
<1>3. /\ Len(free_queues[c]) \in Nat
      /\ Len(free_queues'[c]) = Len(free_queues[c]) + 1
      /\ \A k \in 1..Len(free_queues[c]) : free_queues'[c][k] = free_queues[c][k]
      /\ free_queues'[c][Len(free_queues[c]) + 1] = t
      /\ \A p \in Queues : p # c => free_queues'[p] = free_queues[p]
  BY <1>1, AppendLemma
<1>4. ~Moved(t)
  <2>1. Hand(w) = t
    BY <1>1 DEF Hand, Holding, t
  <2>2. \A v \in Workers : pc[v] \in {"release", "run"} /\ elem[v] = t => Hand(v) = t
    BY <1>1, NamesAssumption DEF Hand, Holding
  <2> QED BY <1>1, <2>1, <2>2 DEF IInv, PlaceInv, Moved
<1>5. ~Freeable(t)
  BY <1>1, <1>2, <1>4 DEF FreeInv
<1>6. \A p \in Queues : \A k \in 1..Len(free_queues[p]) : free_queues[p][k] # t
  BY <1>5 DEF Freeable
<1>7. ASSUME NEW p \in Queues, NEW k \in 1..Len(free_queues'[p])
      PROVE  \/ k \in 1..Len(free_queues[p]) /\ free_queues'[p][k] = free_queues[p][k]
             \/ p = c /\ k = Len(free_queues[c]) + 1 /\ free_queues'[p][k] = t
  BY <1>3
<1>8. ASSUME NEW s \in Tasks PROVE Freeable(s)' <=> Moved(s)'
  <2>1. Moved(s)' <=> Moved(s) \/ s = t
    BY <1>1 DEF Moved, t
  <2>2. Freeable(s) => Freeable(s)'
    <3>1. ASSUME NEW p \in Queues, NEW k \in 1..Len(free_queues[p]), free_queues[p][k] = s
          PROVE  k \in 1..Len(free_queues'[p]) /\ free_queues'[p][k] = s
      BY <1>3, <3>1
    <3> QED BY <3>1 DEF Freeable
  <2>3. s = t => Freeable(s)'
    <3>1. /\ Len(free_queues[c]) + 1 \in 1..Len(free_queues'[c])
          /\ free_queues'[c][Len(free_queues[c]) + 1] = t
      BY <1>3
    <3> QED BY <1>1, <3>1 DEF Freeable
  <2>4. Freeable(s)' => Freeable(s) \/ s = t
    <3> SUFFICES ASSUME NEW p \in Queues, NEW k \in 1..Len(free_queues'[p]),
                        free_queues'[p][k] = s
                 PROVE  Freeable(s) \/ s = t
      BY DEF Freeable
    <3>1. \/ k \in 1..Len(free_queues[p]) /\ free_queues'[p][k] = free_queues[p][k]
          \/ p = c /\ k = Len(free_queues[c]) + 1 /\ free_queues'[p][k] = t
      BY <1>7
    <3> QED BY <3>1 DEF Freeable
  <2> QED BY <1>2, <2>1, <2>2, <2>3, <2>4 DEF FreeInv
<1>9. ASSUME NEW p \in Queues, NEW q \in Queues,
             NEW k \in 1..Len(free_queues'[p]), NEW l \in 1..Len(free_queues'[q]),
             free_queues'[p][k] = free_queues'[q][l]
      PROVE  p = q /\ k = l
  <2>1. \/ k \in 1..Len(free_queues[p]) /\ free_queues'[p][k] = free_queues[p][k]
        \/ p = c /\ k = Len(free_queues[c]) + 1 /\ free_queues'[p][k] = t
    BY <1>7
  <2>2. \/ l \in 1..Len(free_queues[q]) /\ free_queues'[q][l] = free_queues[q][l]
        \/ q = c /\ l = Len(free_queues[c]) + 1 /\ free_queues'[q][l] = t
    BY <1>7
  <2> QED BY <1>2, <1>6, <1>9, <2>1, <2>2 DEF FreeInv
<1> QED BY <1>8, <1>9 DEF FreeInv

\* Nothing else moves an entry.
LEMMA OthersKeepFree ==
    ASSUME FreeInv, UNCHANGED free_queues, phase' = "finalized" \/ phase # "finalized",
           \A t \in Tasks : Moved(t)' <=> Moved(t)
    PROVE  FreeInv'
BY DEF FreeInv, Freeable

LEMMA WorkerFrees ==
    ASSUME IInv, FreeInv, NEW w \in Workers, Worker(w)
    PROVE  FreeInv'
<1>1. CASE PushFree(w)
  BY <1>1, PushFrees
<1>2. CASE Run(w)
  <2>1. /\ pc \in [Workers -> Places] /\ pc[w] = "run" /\ pc' = [pc EXCEPT ![w] = "dequeue"]
        /\ elem[w] \in Tasks /\ executed' = [executed EXCEPT ![elem[w]] = 1]
        /\ executed \in [Tasks -> Nat]
        /\ UNCHANGED <<elem, free_queues, phase>>
    BY <1>2, RunStep DEF Run, Goto, callerVars, queueVars, IInv, TypeOK
  <2>2. phase # "finalized"
    BY <2>1 DEF IInv, CallerInv, AllOff
  <2>3. ASSUME NEW t \in Tasks PROVE Moved(t)' <=> Moved(t)
    <3>1. CASE t = elem[w]
      <4>1. Moved(t)
        BY <2>1, <3>1 DEF Moved
      <4>2. executed'[t] = 1
        BY <2>1, <3>1
      <4> QED BY <4>1, <4>2 DEF Moved
    <3>2. CASE t # elem[w]
      <4>1. executed'[t] = executed[t]
        BY <2>1, <3>2
      <4>2. \A v \in Workers : elem'[v] = t => v # w /\ pc'[v] = pc[v] /\ elem'[v] = elem[v]
        BY <2>1, <3>2
      <4>3. \A v \in Workers : elem[v] = t => v # w /\ pc'[v] = pc[v] /\ elem'[v] = elem[v]
        BY <2>1, <3>2
      <4> QED BY <4>1, <4>2, <4>3 DEF Moved
    <3> QED BY <3>1, <3>2
  <2> QED BY <2>1, <2>2, <2>3, OthersKeepFree
<1>3. CASE (\E q \in Queues : Dequeue(w, q)) \/ Acquire(w) \/ ReadHead(w) \/ Unlink(w)
  <2>1. /\ pc \in [Workers -> Places] /\ pc[w] \in {"dequeue", "acquire", "read", "unlink"}
        /\ \A v \in Workers : v # w => pc'[v] = pc[v] /\ elem'[v] = elem[v]
        /\ pc'[w] \notin {"release", "run"} \/ elem'[w] = NoTask
        /\ UNCHANGED <<free_queues, phase, executed>>
    BY <1>3 DEF Dequeue, Acquire, ReadHead, Unlink, Goto, callerVars, queueVars, IInv, TypeOK
  <2>2. phase # "finalized"
    BY <2>1 DEF IInv, CallerInv, AllOff
  <2>3. ASSUME NEW t \in Tasks PROVE Moved(t)' <=> Moved(t)
    <3>1. ~(pc'[w] \in {"release", "run"} /\ elem'[w] = t)
      BY <2>1, NamesAssumption
    <3>2. ~(pc[w] \in {"release", "run"} /\ elem[w] = t)
      BY <2>1
    <3>3. executed'[t] = executed[t]
      BY <2>1
    <3> QED BY <2>1, <3>1, <3>2, <3>3 DEF Moved
  <2> QED BY <2>1, <2>2, <2>3, OthersKeepFree
<1>4. CASE Release(w)
  <2>1. /\ pc \in [Workers -> Places] /\ pc[w] = "release"
        /\ \A v \in Workers : v # w => pc'[v] = pc[v]
        /\ pc'[w] = "run" \/ elem[w] = NoTask
        /\ UNCHANGED <<free_queues, phase, executed, elem>>
    BY <1>4 DEF Release, Goto, callerVars, queueVars, IInv, TypeOK
  <2>2. phase # "finalized"
    BY <2>1 DEF IInv, CallerInv, AllOff
  <2>3. ASSUME NEW t \in Tasks PROVE Moved(t)' <=> Moved(t)
    BY <2>1, NamesAssumption DEF Moved
  <2> QED BY <2>1, <2>2, <2>3, OthersKeepFree
<1> QED BY <1>1, <1>2, <1>3, <1>4 DEF Worker

LEMMA CallerFrees ==
    ASSUME IInv, FreeInv, Caller
    PROVE  FreeInv'
<1>1. CASE tq_finalize
  BY <1>1 DEF tq_finalize, FreeInv
<1>2. CASE ~tq_finalize
  <2>1. UNCHANGED <<free_queues, executed, elem>> /\ phase # "finalized"
    BY <1>2 DEF Caller, tq_enqueue_seq, StartWorkers, JoinWorkers, queueVars
  <2>2. \A v \in Workers : pc'[v] \in {"release", "run"} <=> pc[v] \in {"release", "run"}
    <3>1. CASE \E crew \in (SUBSET Workers) \ {{}} : StartWorkers(crew)
      BY <3>1, Off DEF StartWorkers
    <3>2. CASE ~\E crew \in (SUBSET Workers) \ {{}} : StartWorkers(crew)
      BY <1>2, <3>2 DEF Caller, tq_enqueue_seq, JoinWorkers
    <3> QED BY <3>1, <3>2
  <2> QED BY <2>1, <2>2, OthersKeepFree DEF Moved
<1> QED BY <1>1, <1>2

LEMMA FreeStep ==
    ASSUME IInv, FreeInv, [Next]_vars
    PROVE  FreeInv'
<1>1. CASE UNCHANGED vars
  BY <1>1 DEF vars, callerVars, queueVars, FreeInv, Freeable, Moved
<1> QED BY <1>1, CallerFrees, WorkerFrees DEF Next, Finished

\* A set in which some element is alone, and one without elements.
LEMMA Sizes ==
    /\ \A S : S = {} => Cardinality(S) = 0
    /\ \A S : (\E x \in S : \A y \in S : y = x) => Cardinality(S) = 1
<1>1. ASSUME NEW S, NEW x \in S, \A y \in S : y = x PROVE Cardinality(S) = 1
  <2>1. S = {x}
    BY <1>1
  <2> QED BY <2>1, FS_Singleton
<1> QED BY <1>1, FS_EmptySet

\* The places of a task in lists that hold no entry twice.
LEMMA PlacesCount ==
    ASSUME NEW lists, NEW t,
           \A p, q \in Queues : \A k \in 1..Len(lists[p]), l \in 1..Len(lists[q]) :
              lists[p][k] = lists[q][l] => p = q /\ k = l
    PROVE  Cardinality(PlacesIn(lists, t)) =
               IF \E q \in Queues : \E k \in 1..Len(lists[q]) : lists[q][k] = t THEN 1 ELSE 0
<1>1. \A p : p \in PlacesIn(lists, t) <=>
                \E q \in Queues : \E k \in 1..Len(lists[q]) : p = <<q, k>> /\ lists[q][k] = t
  BY DEF PlacesIn
<1>2. CASE \E q \in Queues : \E k \in 1..Len(lists[q]) : lists[q][k] = t
  <2>1. PICK q \in Queues : \E k \in 1..Len(lists[q]) : lists[q][k] = t
    BY <1>2
  <2>2. PICK k \in 1..Len(lists[q]) : lists[q][k] = t
    BY <2>1
  <2>3. <<q, k>> \in PlacesIn(lists, t)
    BY <1>1, <2>2
  <2>4. \A y \in PlacesIn(lists, t) : y = <<q, k>>
    BY <1>1, <2>2
  <2> QED BY <1>2, <2>3, <2>4, Sizes
<1>3. CASE ~\E q \in Queues : \E k \in 1..Len(lists[q]) : lists[q][k] = t
  <2>1. PlacesIn(lists, t) = {}
    BY <1>1, <1>3
  <2> QED BY <1>3, <2>1, Sizes
<1> QED BY <1>2, <1>3

\* What tq_finalize frees is each entry, once: it is in a queue, or in a free queue, or on
\* its way from one to the other.
THEOREM NoneLost == Spec => []EachEntryOnce
<1>1. ASSUME IInv, FreeInv PROVE EachEntryOnce
  <2> SUFFICES ASSUME phase # "finalized", NEW t \in Tasks
               PROVE  Cardinality(PlacesIn(queues, t)) + Cardinality(PlacesIn(free_queues, t))
                        + Cardinality(Moving(t)) = IF t \in Queued THEN 1 ELSE 0
    BY DEF EachEntryOnce
  <2>1. Cardinality(PlacesIn(queues, t)) = IF t \in Waiting THEN 1 ELSE 0
    <3>1. t \in Waiting <=> \E q \in Queues : \E k \in 1..Len(queues[q]) : queues[q][k] = t
      BY DEF Waiting
    <3> QED BY <1>1, <3>1, PlacesCount DEF IInv, UniqueInv
  <2>2. Cardinality(PlacesIn(free_queues, t)) = IF Moved(t) THEN 1 ELSE 0
    <3>1. Moved(t) <=> \E q \in Queues : \E k \in 1..Len(free_queues[q]) : free_queues[q][k] = t
      BY <1>1 DEF FreeInv, Freeable
    <3> QED BY <1>1, <3>1, PlacesCount DEF FreeInv
  <2>3. \A w \in Workers : Hand(w) = t <=> pc[w] \in {"push", "release", "run"} /\ elem[w] = t
    BY NamesAssumption DEF Hand, Holding
  <2>4. CASE \E w \in Workers : pc[w] = "push" /\ elem[w] = t
    <3>1. PICK w \in Workers : pc[w] = "push" /\ elem[w] = t
      BY <2>4
    <3>2. /\ executed[t] = 0 /\ t \in Queued /\ t \notin Waiting
          /\ \A v \in Workers : Hand(v) = t => v = w
      BY <1>1, <2>3, <3>1 DEF IInv, PlaceInv
    <3>3. ~Moved(t)
      BY <2>3, <3>1, <3>2 DEF Moved
    <3>4. w \in Moving(t) /\ \A v \in Moving(t) : v = w
      BY <2>3, <3>1, <3>2 DEF Moving
    <3>5. Cardinality(Moving(t)) = 1
      BY <3>4, Sizes
    <3> QED BY <2>1, <2>2, <3>2, <3>3, <3>5
  <2>5. CASE ~\E w \in Workers : pc[w] = "push" /\ elem[w] = t
    <3>1. Moving(t) = {}
      BY <2>5 DEF Moving
    <3>2. Cardinality(Moving(t)) = 0
      BY <3>1, Sizes
    <3>3. Moved(t) <=> executed[t] = 1 \/ \E w \in Workers : Hand(w) = t
      BY <2>3, <2>5 DEF Moved
    <3>4. t \in Queued <=> t \in Waiting \/ Moved(t)
      BY <1>1, <3>3 DEF IInv, PlaceInv
    <3>5. ~(t \in Waiting /\ Moved(t))
      BY <1>1, <3>3 DEF IInv, PlaceInv
    <3> QED BY <2>1, <2>2, <3>2, <3>4, <3>5
  <2> QED BY <2>4, <2>5
<1>2. Init => FreeInv
  <2> SUFFICES ASSUME Init PROVE FreeInv
    OBVIOUS
  <2>1. \A q \in Queues : Len(free_queues[q]) = 0
    BY DEF Init
  <2>2. \A t \in Tasks : ~Moved(t) /\ ~Freeable(t)
    BY <2>1 DEF Init, Moved, Freeable
  <2> QED BY <2>1, <2>2 DEF FreeInv
<1>3. IInv /\ FreeInv /\ [Next]_vars => FreeInv'
  BY FreeStep
<1>4. IInv /\ FreeInv => EachEntryOnce
  BY <1>1
<1> QED BY <1>2, <1>3, <1>4, Invariance, PTL DEF Spec

-----------------------------------------------------------------------------
(* TaskQ implements TaskBag. *)

BagStep == Bag!Next \/ UNCHANGED Bag!tbVars

DoneTasks == {t \in Tasks : executed[t] > 0}
Hands == [w \in Workers |-> Hand(w)]

LEMMA SameBagStutters == ASSUME SameBag PROVE BagStep
BY DEF SameBag, BagStep, Bag!tbVars

LEMMA BagRefinement ==
    ASSUME IInv, [Next]_vars
    PROVE  BagStep
<1>1. ASSUME NEW q \in Queues, tq_enqueue_seq(q) PROVE BagStep
  <2>1. PICK t \in Tasks : t \notin Waiting /\ executed[t] = 0 /\ Waiting' = Waiting \cup {t}
    BY <1>1, EnqueueStep
  <2>2. /\ \A v \in Workers : Hands[v] = Nobody
        /\ Hands' = Hands /\ DoneTasks' = DoneTasks /\ t \notin DoneTasks
    BY <1>1, <2>1, EnqueueStep DEF Hands, DoneTasks
  <2>3. Bag!Put(t)
    BY <2>1, <2>2 DEF Bag!Put, Bag!AllRetired, Hands, DoneTasks
  <2> QED BY <2>3 DEF BagStep, Bag!Next
<1>2. ASSUME NEW crew \in (SUBSET Workers) \ {{}}, StartWorkers(crew) PROVE BagStep
  <2>1. /\ \A v \in Workers : Hands[v] = Nobody
        /\ Hands' = [w \in Workers |-> IF w \in crew THEN NoTask ELSE Nobody]
        /\ DoneTasks' = DoneTasks /\ Waiting' = Waiting
    BY <1>2, StartWorkersStep DEF Hands, DoneTasks
  <2>2. Bag!Open(crew)
    BY <2>1 DEF Bag!Open, Bag!AllRetired, Hands, DoneTasks
  <2> QED BY <1>2, <2>2 DEF BagStep, Bag!Next
<1>3. CASE JoinWorkers \/ tq_finalize
  BY <1>3, JoinStep, FinalizeStep, SameBagStutters
<1>4. ASSUME NEW w \in Workers, Worker(w) PROVE BagStep
  <2>1. CASE \E q \in Queues : Dequeue(w, q)
    BY <2>1, DequeueStep, SameBagStutters
  <2>2. CASE Acquire(w) \/ ReadHead(w) \/ PushFree(w)
    BY <2>2, AcquireStep, ReadHeadStep, PushFreeStep, SameBagStutters
  <2>3. CASE Unlink(w)
    <3>1. elem[w] \in Tasks /\ elem[w] \in Waiting /\ Waiting' = Waiting \ {elem[w]}
      BY <2>3, UnlinkStep
    <3>2. Hands[w] = NoTask /\ Hands' = [Hands EXCEPT ![w] = elem[w]] /\ DoneTasks' = DoneTasks
      BY <2>3, UnlinkStep DEF Hands, DoneTasks
    <3>3. Bag!Take(w, elem[w])
      BY <3>1, <3>2 DEF Bag!Take, Hands, DoneTasks
    <3> QED BY <3>1, <3>3 DEF BagStep, Bag!Next
  <2>4. CASE Release(w)
    <3>1. Waiting' = Waiting /\ DoneTasks' = DoneTasks
      BY <2>4, ReleaseStep DEF DoneTasks
    <3>2. CASE Hand(w)' = Hand(w)
      <4>1. Hands' = Hands
        BY <2>4, <3>2, ReleaseStep DEF Hands
      <4> QED BY <3>1, <4>1 DEF BagStep, Bag!tbVars, Hands, DoneTasks
    <3>3. CASE Hand(w) = NoTask /\ Waiting = {} /\ Hand(w)' = Nobody
      <4>1. Hands[w] = NoTask /\ Hands' = [Hands EXCEPT ![w] = Nobody]
        BY <2>4, <3>3, ReleaseStep DEF Hands
      <4>2. Bag!Retire(w)
        BY <3>1, <3>3, <4>1 DEF Bag!Retire, Hands, DoneTasks
      <4> QED BY <4>2 DEF BagStep, Bag!Next
    <3> QED BY <2>4, <3>2, <3>3, ReleaseStep
  <2>5. CASE Run(w)
    <3>1. elem[w] \in Tasks /\ Hands[w] = elem[w] /\ Hands' = [Hands EXCEPT ![w] = NoTask]
      BY <2>5, RunStep DEF Hands
    <3>2. Waiting' = Waiting /\ DoneTasks' = DoneTasks \cup {elem[w]}
      <4>1. executed \in [Tasks -> Nat] /\ executed' = [executed EXCEPT ![elem[w]] = 1]
        BY <2>5, RunStep DEF IInv, TypeOK
      <4> QED BY <2>5, <3>1, <4>1, RunStep DEF DoneTasks
    <3>3. Bag!Finish(w)
      BY <3>1, <3>2 DEF Bag!Finish, Hands, DoneTasks
    <3> QED BY <3>3 DEF BagStep, Bag!Next
  <2> QED BY <1>4, <2>1, <2>2, <2>3, <2>4, <2>5 DEF Worker
<1>5. CASE UNCHANGED vars
  BY <1>5 DEF vars, callerVars, queueVars, BagStep, Bag!tbVars, Waiting, Hand, Holding
<1> QED BY <1>1, <1>2, <1>3, <1>4, <1>5 DEF Next, Caller, Finished

\* The task queue implements the bag of tasks its users expect.
THEOREM Refinement == Spec => BagSpec
<1>1. Init => Bag!Init
  <2> SUFFICES ASSUME Init PROVE Bag!Init
    OBVIOUS
  <2>1. DoneTasks = {}
    BY DEF Init, DoneTasks
  <2> QED BY <2>1, InitInvariant DEF Bag!Init, DoneTasks
<1>2. IInv /\ [Next]_vars => [Bag!Next]_Bag!tbVars
  BY BagRefinement DEF BagStep
<1> QED BY <1>1, <1>2, Invariance, PTL DEF Spec, BagSpec, Bag!Spec

-----------------------------------------------------------------------------
(* The lists of list.h. *)

\* The place of a cell among the neighbours is its own.
LEMMA CellPlaces ==
    ASSUME NEW l \in Cells, NEW s \in Seq(Cells),
           \A i \in 1..Len(s) : s[i] # l /\ \A j \in 1..Len(s) : s[i] = s[j] => i = j
    PROVE  /\ \A i \in Int : At(l, s, i) \in Cells
           /\ \A i, j \in 0..Len(s) : At(l, s, i) = At(l, s, j) => i = j
           /\ \A i, j \in 1..(Len(s) + 1) : At(l, s, i) = At(l, s, j) => i = j
           /\ At(l, s, 0) = l /\ At(l, s, Len(s) + 1) = l
BY DEF At

LEMMA InsertLinks ==
    ASSUME NEW h \in Links, NEW a \in Cells, NEW e \in Cells, NEW b \in Cells, e # a, e # b
    PROVE  LET g == Insert(h, a, e, b)
           IN  /\ g \in Links
               /\ \A c \in Cells : g.next[c] = IF c = a THEN e ELSE IF c = e THEN b ELSE h.next[c]
               /\ \A c \in Cells : g.prev[c] = IF c = b THEN e ELSE IF c = e THEN a ELSE h.prev[c]
BY DEF Insert, Links

LEMMA RemoveLinks ==
    ASSUME NEW h \in Links, NEW e \in Cells, h.next[e] \in Cells \ {e}, h.prev[e] \in Cells \ {e}
    PROVE  LET g == list_remove(h, e)
           IN  /\ g \in Links
               /\ \A c \in Cells : g.next[c] = IF c = e THEN Null
                                               ELSE IF c = h.prev[e] THEN h.next[e] ELSE h.next[c]
               /\ \A c \in Cells : g.prev[c] = IF c = e THEN Null
                                               ELSE IF c = h.next[e] THEN h.prev[e] ELSE h.prev[c]
BY DEF list_remove, Links

\* A cell inserted behind place k.
LEMMA Inserted ==
    ASSUME NEW h \in Links, NEW l \in Cells, NEW s, Represents(h, l, s),
           NEW e \in Cells, e # l, \A i \in 1..Len(s) : s[i] # e,
           NEW k \in 0..Len(s), NEW t \in Seq(Cells), Len(t) = Len(s) + 1,
           \A i \in 1..Len(t) : t[i] = IF i <= k THEN s[i] ELSE IF i = k + 1 THEN e ELSE s[i - 1]
    PROVE  Represents(Insert(h, At(l, s, k), e, At(l, s, k + 1)), l, t)
<1> DEFINE g == Insert(h, At(l, s, k), e, At(l, s, k + 1))
           n == Len(s)
<1>1. /\ s \in Seq(Cells) /\ n \in Nat
      /\ \A i \in 1..n : s[i] # l /\ \A j \in 1..n : s[i] = s[j] => i = j
      /\ \A i \in 0..n : h.next[At(l, s, i)] = At(l, s, i + 1) /\ h.prev[At(l, s, i + 1)] = At(l, s, i)
  BY DEF Represents
<1>2. /\ \A i \in Int : At(l, s, i) \in Cells
      /\ \A i, j \in 0..n : At(l, s, i) = At(l, s, j) => i = j
      /\ \A i, j \in 1..(n + 1) : At(l, s, i) = At(l, s, j) => i = j
  BY <1>1, CellPlaces
<1>3. \A i \in Int : At(l, s, i) # e
  BY <1>1 DEF At
<1>4. /\ \A c \in Cells : g.next[c] = IF c = At(l, s, k) THEN e
                                      ELSE IF c = e THEN At(l, s, k + 1) ELSE h.next[c]
      /\ \A c \in Cells : g.prev[c] = IF c = At(l, s, k + 1) THEN e
                                      ELSE IF c = e THEN At(l, s, k) ELSE h.prev[c]
  <2>1. k \in Int /\ k + 1 \in Int
    OBVIOUS
  <2>2. /\ At(l, s, k) \in Cells /\ At(l, s, k) # e
        /\ At(l, s, k + 1) \in Cells /\ At(l, s, k + 1) # e
    BY <1>2, <1>3, <2>1
  <2> QED BY <2>2, InsertLinks
<1>5. \A i \in 0..(n + 2) : At(l, t, i) = IF i <= k THEN At(l, s, i)
                                          ELSE IF i = k + 1 THEN e ELSE At(l, s, i - 1)
  BY <1>1 DEF At
<1>6. \A i \in 1..Len(t) : t[i] # l /\ \A j \in 1..Len(t) : t[i] = t[j] => i = j
  <2>1. /\ \A i \in 1..Len(t) : i <= k => t[i] = s[i] /\ i \in 1..n
        /\ \A i \in 1..Len(t) : i = k + 1 => t[i] = e
        /\ \A i \in 1..Len(t) : i > k + 1 => t[i] = s[i - 1] /\ i - 1 \in 1..n
    BY <1>1
  <2> HIDE DEF n
  <2>2. ASSUME NEW i \in 1..Len(t) PROVE t[i] # l
    <3>1. CASE i <= k
      BY <1>1, <2>1, <3>1
    <3>2. CASE i = k + 1
      BY <2>1, <3>2
    <3>3. CASE i > k + 1
      <4>1. t[i] = s[i - 1] /\ i - 1 \in 1..n
        BY <2>1, <3>3
      <4> QED BY <1>1, <4>1
    <3> QED BY <1>1, <3>1, <3>2, <3>3
  <2>3. ASSUME NEW i \in 1..Len(t), NEW j \in 1..Len(t), t[i] = t[j], i <= k PROVE i = j
    <3>1. CASE j <= k
      BY <1>1, <2>1, <2>3, <3>1
    <3>2. CASE j = k + 1
      BY <2>1, <2>3, <3>2 DEF n
    <3>3. CASE j > k + 1
      <4>1. s[i] = s[j - 1] /\ i \in 1..n /\ j - 1 \in 1..n
        BY <2>1, <2>3, <3>3
      <4>2. i = j - 1
        BY <1>1, <4>1
      <4>3. i \in Nat /\ j \in Nat /\ k \in Nat
        BY <1>1
      <4> QED BY <2>3, <3>3, <4>2, <4>3
    <3> QED BY <1>1, <3>1, <3>2, <3>3
  <2>4. ASSUME NEW i \in 1..Len(t), NEW j \in 1..Len(t), t[i] = t[j], i > k + 1, j > k
        PROVE  i = j
    <3>1. CASE j = k + 1
      BY <2>1, <2>4, <3>1 DEF n
    <3>2. CASE j > k + 1
      <4>1. s[i - 1] = s[j - 1] /\ i - 1 \in 1..n /\ j - 1 \in 1..n
        BY <2>1, <2>4, <3>2
      <4>2. i - 1 = j - 1
        BY <1>1, <4>1
      <4>3. i \in Nat /\ j \in Nat
        BY <1>1
      <4> QED BY <4>2, <4>3
    <3> QED BY <1>1, <2>4, <3>1, <3>2
  <2>5. ASSUME NEW i \in 1..Len(t), NEW j \in 1..Len(t), t[i] = t[j] PROVE i = j
    <3>1. i \in Nat /\ j \in Nat /\ k \in Nat
      BY <1>1
    <3>2. CASE i <= k \/ j <= k
      BY <2>3, <2>5, <3>2
    <3>3. CASE i > k + 1 /\ j > k
      BY <2>4, <2>5, <3>3
    <3>4. CASE j > k + 1 /\ i > k
      BY <2>4, <2>5, <3>4
    <3> QED BY <3>1, <3>2, <3>3, <3>4
  <2> QED BY <2>2, <2>5
<1> HIDE DEF g, n
<1>7. ASSUME NEW i \in 0..(n + 1)
      PROVE  g.next[At(l, t, i)] = At(l, t, i + 1) /\ g.prev[At(l, t, i + 1)] = At(l, t, i)
  <2>0. k \in 0..n
    BY DEF n
  <2>1. CASE i = k
    BY <1>1, <1>2, <1>3, <1>4, <1>5, <2>0, <2>1
  <2>2. CASE i = k + 1
    BY <1>1, <1>2, <1>3, <1>4, <1>5, <2>0, <2>2
  <2>3. CASE i < k
    <3>1. /\ At(l, t, i) = At(l, s, i) /\ At(l, t, i + 1) = At(l, s, i + 1)
          /\ At(l, s, i) # At(l, s, k) /\ At(l, s, i + 1) # At(l, s, k + 1)
          /\ h.next[At(l, s, i)] = At(l, s, i + 1) /\ h.prev[At(l, s, i + 1)] = At(l, s, i)
      BY <1>1, <1>2, <1>5, <2>0, <2>3
    <3> QED BY <1>2, <1>3, <1>4, <3>1
  <2>4. CASE i > k + 1
    <3>1. /\ At(l, t, i) = At(l, s, i - 1) /\ At(l, t, i + 1) = At(l, s, i)
          /\ At(l, s, i - 1) # At(l, s, k) /\ At(l, s, i) # At(l, s, k + 1)
          /\ h.next[At(l, s, i - 1)] = At(l, s, i) /\ h.prev[At(l, s, i)] = At(l, s, i - 1)
      <4>1. i - 1 \in 0..n /\ (i - 1) + 1 = i /\ i \in 1..(n + 1) /\ k + 1 \in 1..(n + 1)
        BY <1>1, <2>0, <2>4
      <4>2. At(l, t, i) = At(l, s, i - 1) /\ At(l, t, i + 1) = At(l, s, i)
        BY <1>1, <1>5, <2>0, <2>4
      <4>3. At(l, s, i - 1) # At(l, s, k) /\ At(l, s, i) # At(l, s, k + 1)
        BY <1>2, <2>0, <2>4, <4>1
      <4> QED BY <1>1, <4>1, <4>2, <4>3
    <3> QED BY <1>2, <1>3, <1>4, <3>1
  <2> QED BY <1>1, <2>0, <2>1, <2>2, <2>3, <2>4
<1> QED BY <1>6, <1>7 DEF Represents, g, n

\* The cell at place k removed.
LEMMA Removed ==
    ASSUME NEW h \in Links, NEW l \in Cells, NEW s, Represents(h, l, s),
           NEW k \in 1..Len(s), NEW t \in Seq(Cells), Len(t) = Len(s) - 1,
           \A i \in 1..Len(t) : t[i] = IF i < k THEN s[i] ELSE s[i + 1]
    PROVE  Represents(list_remove(h, s[k]), l, t)
<1> DEFINE g == list_remove(h, s[k])
           n == Len(s)
<1>1. /\ s \in Seq(Cells) /\ n \in Nat
      /\ \A i \in 1..n : s[i] # l /\ \A j \in 1..n : s[i] = s[j] => i = j
      /\ \A i \in 0..n : h.next[At(l, s, i)] = At(l, s, i + 1) /\ h.prev[At(l, s, i + 1)] = At(l, s, i)
  BY DEF Represents
<1>2. /\ \A i \in Int : At(l, s, i) \in Cells
      /\ \A i, j \in 0..n : At(l, s, i) = At(l, s, j) => i = j
      /\ \A i, j \in 1..(n + 1) : At(l, s, i) = At(l, s, j) => i = j
  BY <1>1, CellPlaces
<1>3. At(l, s, k) = s[k] /\ s[k] \in Cells
  BY <1>1 DEF At
<1>4. /\ h.next[s[k]] = At(l, s, k + 1) /\ h.prev[s[k]] = At(l, s, k - 1)
      /\ \A i \in 0..(n + 1) : i # k => At(l, s, i) # s[k]
  <2>1. k \in 0..n /\ k - 1 \in 0..n /\ (k - 1) + 1 = k
    BY <1>1
  <2>2. h.next[s[k]] = At(l, s, k + 1) /\ h.prev[s[k]] = At(l, s, k - 1)
    BY <1>1, <1>3, <2>1
  <2>3. \A i \in 0..(n + 1) : i # k => At(l, s, i) # s[k]
    BY <1>1 DEF At
  <2> QED BY <2>2, <2>3
<1>5. /\ \A c \in Cells : g.next[c] = IF c = s[k] THEN Null
                                      ELSE IF c = At(l, s, k - 1) THEN At(l, s, k + 1) ELSE h.next[c]
      /\ \A c \in Cells : g.prev[c] = IF c = s[k] THEN Null
                                      ELSE IF c = At(l, s, k + 1) THEN At(l, s, k - 1) ELSE h.prev[c]
  <2>1. k - 1 \in 0..(n + 1) /\ k + 1 \in 0..(n + 1)
    BY <1>1
  <2>2. h.next[s[k]] \in Cells \ {s[k]} /\ h.prev[s[k]] \in Cells \ {s[k]}
    BY <1>2, <1>4, <2>1
  <2> QED BY <1>3, <1>4, <2>2, RemoveLinks
<1>6. \A i \in 0..n : At(l, t, i) = IF i < k THEN At(l, s, i) ELSE At(l, s, i + 1)
  BY <1>1 DEF At
<1>7. \A i \in 1..Len(t) : t[i] # l /\ \A j \in 1..Len(t) : t[i] = t[j] => i = j
  <2>1. /\ \A i \in 1..Len(t) : i < k => t[i] = s[i] /\ i \in 1..n
        /\ \A i \in 1..Len(t) : i >= k => t[i] = s[i + 1] /\ i + 1 \in 1..n
    BY <1>1
  <2> HIDE DEF n
  <2>2. ASSUME NEW i \in 1..Len(t) PROVE t[i] # l
    BY <1>1, <2>1
  <2>3. ASSUME NEW i \in 1..Len(t), NEW j \in 1..Len(t), t[i] = t[j] PROVE i = j
    <3>0. i \in Nat /\ j \in Nat /\ k \in Nat
      BY <1>1
    <3>1. CASE i < k /\ j < k
      BY <1>1, <2>1, <2>3, <3>1
    <3>2. CASE i < k /\ j >= k
      BY <1>1, <2>1, <2>3, <3>2
    <3>3. CASE i >= k /\ j < k
      BY <1>1, <2>1, <2>3, <3>3
    <3>4. CASE i >= k /\ j >= k
      <4>1. s[i + 1] = s[j + 1] /\ i + 1 \in 1..n /\ j + 1 \in 1..n
        BY <2>1, <2>3, <3>4
      <4>2. i + 1 = j + 1
        BY <1>1, <4>1
      <4> QED BY <3>0, <4>2
    <3> QED BY <3>0, <3>1, <3>2, <3>3, <3>4
  <2> QED BY <2>2, <2>3
<1> HIDE DEF g, n
<1>8. ASSUME NEW i \in 0..(n - 1)
      PROVE  g.next[At(l, t, i)] = At(l, t, i + 1) /\ g.prev[At(l, t, i + 1)] = At(l, t, i)
  <2>0. k \in 1..n
    BY DEF n
  <2>1. CASE i = k - 1
    <3>1. At(l, t, i) = At(l, s, k - 1) /\ At(l, t, i + 1) = At(l, s, k + 1)
      BY <1>1, <1>6, <2>0, <2>1
    <3>2. At(l, s, k - 1) # s[k] /\ At(l, s, k + 1) # s[k]
      BY <1>1, <1>4, <2>0
    <3>3. At(l, s, k - 1) \in Cells /\ At(l, s, k + 1) \in Cells
      BY <1>2, <2>0
    <3> QED BY <1>5, <3>1, <3>2, <3>3
  <2>2. CASE i < k - 1
    <3>1. i \in 0..n /\ k - 1 \in 0..n /\ i + 1 \in 1..(n + 1) /\ k + 1 \in 1..(n + 1)
      BY <1>1, <2>0, <2>2
    <3>2. At(l, t, i) = At(l, s, i) /\ At(l, t, i + 1) = At(l, s, i + 1)
      BY <1>1, <1>6, <2>0, <2>2, <3>1
    <3>3. At(l, s, i) # At(l, s, k - 1) /\ At(l, s, i + 1) # At(l, s, k + 1)
      BY <1>2, <2>0, <2>2, <3>1
    <3>4. At(l, s, i) # s[k] /\ At(l, s, i + 1) # s[k]
      BY <1>1, <1>4, <2>0, <2>2, <3>1
    <3>5. h.next[At(l, s, i)] = At(l, s, i + 1) /\ h.prev[At(l, s, i + 1)] = At(l, s, i)
      BY <1>1, <3>1
    <3>6. At(l, s, i) \in Cells /\ At(l, s, i + 1) \in Cells
      BY <1>2, <3>1
    <3> QED BY <1>5, <3>2, <3>3, <3>4, <3>5, <3>6
  <2>3. CASE i > k - 1
    <3>1. /\ i + 1 \in 0..n /\ k - 1 \in 0..n /\ (i + 1) + 1 \in 1..(n + 1)
          /\ k + 1 \in 1..(n + 1) /\ i \in 0..n
      BY <1>1, <2>0, <2>3
    <3>2. At(l, t, i) = At(l, s, i + 1) /\ At(l, t, i + 1) = At(l, s, (i + 1) + 1)
      BY <1>1, <1>6, <2>0, <2>3, <3>1
    <3>3. At(l, s, i + 1) # At(l, s, k - 1) /\ At(l, s, (i + 1) + 1) # At(l, s, k + 1)
      BY <1>2, <2>0, <2>3, <3>1
    <3>4. At(l, s, i + 1) # s[k] /\ At(l, s, (i + 1) + 1) # s[k]
      BY <1>1, <1>4, <2>0, <2>3, <3>1
    <3>5. /\ h.next[At(l, s, i + 1)] = At(l, s, (i + 1) + 1)
          /\ h.prev[At(l, s, (i + 1) + 1)] = At(l, s, i + 1)
      BY <1>1, <3>1
    <3>6. At(l, s, i + 1) \in Cells /\ At(l, s, (i + 1) + 1) \in Cells
      BY <1>2, <3>1
    <3> QED BY <1>5, <3>2, <3>3, <3>4, <3>5, <3>6
  <2> QED BY <1>1, <2>0, <2>1, <2>2, <2>3
<1> QED BY <1>1, <1>7, <1>8 DEF Represents, g, n

-----------------------------------------------------------------------------

\* list_peek, list_add and list_remove at both ends of a list do what Head, Append,
\* Tail and their mirror images do to the sequence of its cells.
THEOREM ListOperations ==
    ASSUME NEW h \in Links, NEW l \in Cells, NEW s, Represents(h, l, s)
    PROVE  Correct(h, l, s)
<1> DEFINE n == Len(s)
<1>1. /\ s \in Seq(Cells) /\ n \in Nat
      /\ \A i \in 1..n : s[i] # l
      /\ \A i \in 0..n : h.next[At(l, s, i)] = At(l, s, i + 1) /\ h.prev[At(l, s, i + 1)] = At(l, s, i)
  BY DEF Represents
<1>2. /\ At(l, s, 0) = l /\ At(l, s, n + 1) = l
      /\ \A i \in 1..n : At(l, s, i) = s[i]
  BY <1>1 DEF At
<1>3. h.next[l] = At(l, s, 1) /\ h.prev[l] = At(l, s, n)
  BY <1>1, <1>2
<1>4. /\ s = <<>> => h.next[l] = l /\ h.prev[l] = l
      /\ s # <<>> => /\ h.next[l] = s[1] /\ h.prev[l] = s[n] /\ n \in Nat \ {0}
                     /\ s[1] # l /\ s[n] # l
  <2>1. CASE s = <<>>
    BY <1>2, <1>3, <2>1
  <2>2. CASE s # <<>>
    <3>1. n \in Nat \ {0} /\ 1 \in 1..n /\ n \in 1..n
      BY <1>1, <2>2
    <3> QED BY <1>1, <1>2, <1>3, <2>2, <3>1
  <2> QED BY <2>1, <2>2
<1>5. /\ list_peek_head(h, l) = (IF s = <<>> THEN Null ELSE s[1])
      /\ list_peek_tail(h, l) = (IF s = <<>> THEN Null ELSE s[n])
  BY <1>4 DEF list_peek_head, list_peek_tail
<1>6. ASSUME NEW e \in Cells, e # l, \A i \in 1..n : s[i] # e
      PROVE  /\ Represents(list_add_tail(h, l, e), l, Append(s, e))
             /\ Represents(list_add_head(h, l, e), l, <<e>> \o s)
  <2>1. Represents(Insert(h, At(l, s, n), e, At(l, s, n + 1)), l, Append(s, e))
    <3>1. /\ Append(s, e) \in Seq(Cells) /\ Len(Append(s, e)) = n + 1 /\ n \in 0..n
          /\ \A i \in 1..Len(Append(s, e)) :
                Append(s, e)[i] = IF i <= n THEN s[i] ELSE IF i = n + 1 THEN e ELSE s[i - 1]
      BY <1>1
    <3> QED BY <1>6, <3>1, Inserted
  <2>2. Represents(Insert(h, At(l, s, 0), e, At(l, s, 0 + 1)), l, <<e>> \o s)
    <3>1. /\ <<e>> \o s \in Seq(Cells) /\ Len(<<e>> \o s) = n + 1 /\ 0 \in 0..n
          /\ \A i \in 1..Len(<<e>> \o s) :
                (<<e>> \o s)[i] = IF i <= 0 THEN s[i] ELSE IF i = 0 + 1 THEN e ELSE s[i - 1]
      BY <1>1
    <3> QED BY <1>6, <3>1, Inserted
  <2> QED BY <1>2, <1>3, <2>1, <2>2 DEF list_add_tail, list_add_head
<1>7. ASSUME s # <<>>
      PROVE  /\ Represents(list_remove_head(h, l), l, Tail(s))
             /\ Represents(list_remove_tail(h, l), l, SubSeq(s, 1, n - 1))
  <2>1. n \in Nat \ {0} /\ 1 \in 1..n /\ n \in 1..n
    BY <1>4, <1>7
  <2>2. Represents(list_remove(h, s[1]), l, Tail(s))
    <3>1. /\ Tail(s) \in Seq(Cells) /\ Len(Tail(s)) = n - 1
          /\ \A i \in 1..Len(Tail(s)) : Tail(s)[i] = IF i < 1 THEN s[i] ELSE s[i + 1]
      BY <1>1, <1>7
    <3> QED BY <2>1, <3>1, Removed
  <2>3. Represents(list_remove(h, s[n]), l, SubSeq(s, 1, n - 1))
    <3>1. /\ SubSeq(s, 1, n - 1) \in Seq(Cells) /\ Len(SubSeq(s, 1, n - 1)) = n - 1
          /\ \A i \in 1..Len(SubSeq(s, 1, n - 1)) :
                SubSeq(s, 1, n - 1)[i] = IF i < n THEN s[i] ELSE s[i + 1]
      <4> HIDE DEF n
      <4>1. n - 1 \in 0..Len(s)
        BY <2>1 DEF n
      <4>2. /\ SubSeq(s, 1, n - 1) \in Seq(Cells) /\ Len(SubSeq(s, 1, n - 1)) = n - 1
            /\ \A i \in 1..(n - 1) : SubSeq(s, 1, n - 1)[i] = s[i]
        <5>1. \A i \in 1..(n - 1) : s[i] \in Cells
          BY <1>1, <2>1 DEF n
        <5>2. /\ SubSeq(s, 1, n - 1) \in Seq(Cells)
              /\ Len(SubSeq(s, 1, n - 1)) = IF 1 <= n - 1 THEN (n - 1) - 1 + 1 ELSE 0
              /\ \A i \in 1..((n - 1) - 1 + 1) : SubSeq(s, 1, n - 1)[i] = s[1 + i - 1]
          BY <2>1, <5>1, SubSeqProperties
        <5> QED BY <2>1, <5>2
      <4> QED BY <2>1, <4>2
    <3> QED BY <2>1, <3>1, Removed
  <2> QED BY <1>4, <1>7, <2>2, <2>3 DEF list_remove_head, list_remove_tail
<1> QED BY <1>5, <1>6, <1>7 DEF Correct

\* Links that agree on the cells of a list represent it as well.
LEMMA Untouched ==
    ASSUME NEW h, NEW g, NEW k, NEW t, Represents(h, k, t),
           g.next[k] = h.next[k] /\ g.prev[k] = h.prev[k],
           \A i \in 1..Len(t) : g.next[t[i]] = h.next[t[i]] /\ g.prev[t[i]] = h.prev[t[i]]
    PROVE  Represents(g, k, t)
<1>1. \A i : g.next[At(k, t, i)] = h.next[At(k, t, i)] /\ g.prev[At(k, t, i)] = h.prev[At(k, t, i)]
  BY DEF At
<1> QED BY <1>1 DEF Represents

\* Every operation on a list leaves a list that has no cell in common with it, such
\* as the free queue of a queue, as it is.
THEOREM OtherLists ==
    ASSUME NEW h \in Links, NEW l \in Cells, NEW s, Represents(h, l, s),
           NEW k \in Cells, NEW t, Represents(h, k, t), Apart(k, t, l, s)
    PROVE  Framed(h, l, s, k, t)
<1> DEFINE n == Len(s)
           Ours == {l} \cup {s[i] : i \in 1..n}
           Theirs == {k} \cup {t[i] : i \in 1..Len(t)}
<1>1. /\ s \in Seq(Cells) /\ n \in Nat /\ t \in Seq(Cells)
      /\ \A i \in 0..n : h.next[At(l, s, i)] = At(l, s, i + 1) /\ h.prev[At(l, s, i + 1)] = At(l, s, i)
  BY DEF Represents
<1>2. /\ At(l, s, 0) = l /\ At(l, s, n + 1) = l
      /\ \A i \in Int : At(l, s, i) \in Ours
  BY <1>1 DEF At
<1>3. Ours \subseteq Cells /\ Theirs \subseteq Cells /\ \A c \in Ours : c \notin Theirs
  BY <1>1 DEF Apart
<1>4. \A c \in Ours : h.next[c] \in Ours /\ h.prev[c] \in Ours
  <2> SUFFICES ASSUME NEW c \in Ours PROVE h.next[c] \in Ours /\ h.prev[c] \in Ours
    OBVIOUS
  <2>1. PICK i \in 0..n : c = At(l, s, i)
    BY <1>1, <1>2 DEF At
  <2>2. h.next[c] \in Ours
    BY <1>1, <1>2, <2>1
  <2>3. PICK j \in 0..n : c = At(l, s, j + 1)
    <3>1. CASE c = l
      BY <1>1, <1>2, <3>1
    <3>2. ASSUME NEW j \in 1..n, c = s[j] PROVE \E m \in 0..n : c = At(l, s, m + 1)
      <4>1. j - 1 \in 0..n /\ (j - 1) + 1 = j /\ At(l, s, j) = s[j]
        BY <1>1 DEF At
      <4> QED BY <3>2, <4>1
    <3> QED BY <3>1, <3>2
  <2>4. h.prev[c] = At(l, s, j)
    BY <1>1, <2>3
  <2>5. h.prev[c] \in Ours
    BY <1>1, <1>2, <2>4
  <2> QED BY <2>2, <2>5
<1> DEFINE Same(g) == \A c \in Theirs : g.next[c] = h.next[c] /\ g.prev[c] = h.prev[c]
<1>5. ASSUME NEW g, Same(g) PROVE Represents(g, k, t)
  BY <1>5, Untouched
<1>6. l \in Ours
  OBVIOUS
<1> HIDE DEF Ours, Theirs
<1>7. Same(list_init(h, l))
  BY <1>3, <1>6 DEF list_init, Links
<1>8. ASSUME NEW e \in Ours PROVE Same(list_remove(h, e))
  BY <1>3, <1>4 DEF list_remove, Links
<1>9. Same(h)
  OBVIOUS
<1>10. Same(list_remove_head(h, l)) /\ Same(list_remove_tail(h, l))
  BY <1>4, <1>6, <1>8, <1>9 DEF list_remove_head, list_remove_tail
<1>11. ASSUME NEW e \in Cells, e \notin Theirs
       PROVE  Same(list_add_tail(h, l, e)) /\ Same(list_add_head(h, l, e))
  <2>1. ASSUME NEW a \in Ours, NEW b \in Ours PROVE Same(Insert(h, a, e, b))
    BY <1>3, <1>11 DEF Insert, Links
  <2> QED BY <1>4, <1>6, <2>1 DEF list_add_tail, list_add_head
<1>12. \A e \in Cells : e # k /\ (\A i \in 1..Len(t) : t[i] # e) => e \notin Theirs
  BY DEF Theirs
<1> HIDE DEF Same
<1> QED BY <1>5, <1>7, <1>10, <1>11, <1>12 DEF Framed
=============================================================================
