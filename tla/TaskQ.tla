------------------------------- MODULE TaskQ -------------------------------
(***************************************************************************)
(* The task queue of the Phoenix runtime, src/taskQ.c, with the loop of    *)
(* the workers that drain it (map_worker and reduce_worker) and the caller *)
(* that fills it (gen_map_tasks, gen_reduce_tasks).                        *)
(*                                                                         *)
(* Tasks are queued round after round (the map tasks, then the reduce      *)
(* tasks) while no worker runs, without the locks; then the workers of the *)
(* round dequeue until they find every queue empty.  A dequeue tries the   *)
(* queue its locality hint names and then the others in cyclic order, each *)
(* under the lock of that queue.  An entry that is taken moves to the free *)
(* queue beside its queue and is freed when the task queue is finalized.   *)
(* The lists of list.h are sequences: a removal reads the head of the list *)
(* and unlinks it, two steps that only the lock keeps together.            *)
(***************************************************************************)
EXTENDS Integers, Sequences, FiniteSets

CONSTANTS NumQueues,     \* num_queues
          Workers,
          Rounds,        \* the tasks of each round, in the order they are queued
          Nobody, NoTask

ASSUME NumQueuesAssumption == NumQueues \in Nat \ {0}

\* No task is queued twice.
ASSUME RoundsAssumption ==
    /\ Len(Rounds) \in Nat \ {0}
    /\ \A r \in 1..Len(Rounds) : Len(Rounds[r]) \in Nat
    /\ \A r, s \in 1..Len(Rounds) : \A k \in 1..Len(Rounds[r]), l \in 1..Len(Rounds[s]) :
          Rounds[r][k] = Rounds[s][l] => r = s /\ k = l

Queues == 0..(NumQueues - 1)
Tasks  == UNION {{Rounds[r][k] : k \in 1..Len(Rounds[r])} : r \in 1..Len(Rounds)}

ASSUME NamesAssumption == NoTask \notin Tasks /\ Nobody \notin Workers \cup Tasks \cup {NoTask}

VARIABLES
    round, phase,        \* the caller: "fill", "drain" or "finalized"
    next,                \* how many tasks of the round have been queued
    queues, free_queues,
    lock,                \* the worker that holds the lock of each queue
    pc, index, cur,      \* the workers: place, first queue tried, queue being tried
    elem,                \* the entry read from the head of the queue
    executed             \* (history) how often each task has been executed

callerVars == <<round, phase, next>>
queueVars  == <<queues, free_queues>>
vars == <<callerVars, queueVars, lock, pc, index, cur, elem, executed>>

Init == /\ round = 1 /\ phase = "fill" /\ next = 0
        /\ queues = [q \in Queues |-> <<>>]
        /\ free_queues = [q \in Queues |-> <<>>]
        /\ lock = [q \in Queues |-> Nobody]
        /\ pc = [w \in Workers |-> "off"]
        /\ index = [w \in Workers |-> 0]
        /\ cur = [w \in Workers |-> 0]
        /\ elem = [w \in Workers |-> NoTask]
        /\ executed = [t \in Tasks |-> 0]

-----------------------------------------------------------------------------
(* The caller. *)

\* The locality hint of the task, or a random number, picks the queue.
tq_enqueue_seq(q) ==
    /\ phase = "fill"
    /\ next < Len(Rounds[round])
    /\ queues' = [queues EXCEPT ![q] = Append(@, Rounds[round][next + 1])]
    /\ next' = next + 1
    /\ UNCHANGED <<round, phase, free_queues, lock, pc, index, cur, elem, executed>>

\* The map round and the reduce round need not have the same workers.
StartWorkers(crew) ==
    /\ phase = "fill"
    /\ next = Len(Rounds[round])
    /\ phase' = "drain"
    /\ pc' = [w \in Workers |-> IF w \in crew THEN "dequeue" ELSE "off"]
    /\ UNCHANGED <<round, next, queueVars, lock, index, cur, elem, executed>>

AllOff == \A w \in Workers : pc[w] = "off"

\* start_workers returns when every worker has (module TPool).
JoinWorkers ==
    /\ phase = "drain" /\ AllOff
    /\ round < Len(Rounds)
    /\ round' = round + 1
    /\ phase' = "fill"
    /\ next' = 0
    /\ UNCHANGED <<queueVars, lock, pc, index, cur, elem, executed>>

\* Every entry of every queue and free queue is popped and freed.
tq_finalize ==
    /\ phase = "drain" /\ AllOff
    /\ round = Len(Rounds)
    /\ queues' = [q \in Queues |-> <<>>]
    /\ free_queues' = [q \in Queues |-> <<>>]
    /\ phase' = "finalized"
    /\ UNCHANGED <<round, next, lock, pc, index, cur, elem, executed>>

Caller == \/ \E q \in Queues : tq_enqueue_seq(q)
          \/ \E crew \in (SUBSET Workers) \ {{}} : StartWorkers(crew)
          \/ JoinWorkers
          \/ tq_finalize

-----------------------------------------------------------------------------
(* A worker: tq_dequeue_normal_internal, called until it returns 0. *)

Goto(w, from, to) == pc[w] = from /\ pc' = [pc EXCEPT ![w] = to]

\* The locality hint or a random number picks the first queue to try.
Dequeue(w, q) ==
    /\ Goto(w, "dequeue", "acquire")
    /\ index' = [index EXCEPT ![w] = q]
    /\ cur' = [cur EXCEPT ![w] = q]
    /\ UNCHANGED <<callerVars, queueVars, lock, elem, executed>>

\* Mutant: the lock is taken while another worker holds it.
AcquireHeld(w) ==
    /\ Goto(w, "acquire", "read")
    /\ lock' = [lock EXCEPT ![cur[w]] = w]
    /\ UNCHANGED <<callerVars, queueVars, index, cur, elem, executed>>

Acquire(w) ==
    /\ Goto(w, "acquire", "read")
    /\ lock[cur[w]] = Nobody
    /\ lock' = [lock EXCEPT ![cur[w]] = w]
    /\ UNCHANGED <<callerVars, queueVars, index, cur, elem, executed>>

\* list_remove_head: the head is read, if there is one, ...
ReadHead(w) ==
    LET q == queues[cur[w]]
    IN  /\ Goto(w, "read", IF q = <<>> THEN "release" ELSE "unlink")
        /\ elem' = [elem EXCEPT ![w] = IF q = <<>> THEN NoTask ELSE Head(q)]
        /\ UNCHANGED <<callerVars, queueVars, lock, index, cur, executed>>

\* ... and its neighbours are linked to each other.
Unlink(w) ==
    /\ Goto(w, "unlink", "push")
    /\ queues' = [queues EXCEPT ![cur[w]] = IF @ # <<>> THEN Tail(@) ELSE @]
    /\ UNCHANGED <<callerVars, free_queues, lock, index, cur, elem, executed>>

PushFree(w) ==
    /\ Goto(w, "push", "release")
    /\ free_queues' = [free_queues EXCEPT ![cur[w]] = Append(@, elem[w])]
    /\ UNCHANGED <<callerVars, queues, lock, index, cur, elem, executed>>

\* Mutant: the index does not wrap around.
NextQueueNoWrap(q) == q + 1

NextQueue(q) == (q + 1) % NumQueues

\* Mutant: the last queue of the cycle is not tried.
ReleaseTooEarly(w) ==
    /\ Goto(w, "release", IF elem[w] # NoTask THEN "run"
                            ELSE IF NextQueue(NextQueue(cur[w])) # index[w] THEN "acquire"
                            ELSE "off")
    /\ lock' = [lock EXCEPT ![cur[w]] = Nobody]
    /\ cur' = [cur EXCEPT ![w] = NextQueue(@)]
    /\ UNCHANGED <<callerVars, queueVars, index, elem, executed>>

\* Mutant: the worker that found no entry keeps the lock.
ReleaseNothing(w) ==
    /\ Goto(w, "release", IF elem[w] # NoTask THEN "run"
                            ELSE IF NextQueue(cur[w]) # index[w] THEN "acquire" ELSE "off")
    /\ lock' = IF elem[w] # NoTask THEN [lock EXCEPT ![cur[w]] = Nobody] ELSE lock
    /\ cur' = [cur EXCEPT ![w] = NextQueue(@)]
    /\ UNCHANGED <<callerVars, queueVars, index, elem, executed>>

\* With an entry the worker goes and runs its task; without one it tries the
\* next queue, until it is back at the first.
Release(w) ==
    /\ Goto(w, "release", IF elem[w] # NoTask THEN "run"
                            ELSE IF NextQueue(cur[w]) # index[w] THEN "acquire" ELSE "off")
    /\ lock' = [lock EXCEPT ![cur[w]] = Nobody]
    /\ cur' = [cur EXCEPT ![w] = NextQueue(@)]
    /\ UNCHANGED <<callerVars, queueVars, index, elem, executed>>

Run(w) ==
    /\ Goto(w, "run", "dequeue")
    /\ executed' = [executed EXCEPT ![elem[w]] = @ + 1]
    /\ UNCHANGED <<callerVars, queueVars, lock, index, cur, elem>>

Worker(w) == \/ \E q \in Queues : Dequeue(w, q)
             \/ Acquire(w) \/ ReadHead(w) \/ Unlink(w) \/ PushFree(w) \/ Release(w)
             \/ Run(w)

Finished == phase = "finalized" /\ UNCHANGED vars

Next == Caller \/ (\E w \in Workers : Worker(w)) \/ Finished

Spec == Init /\ [][Next]_vars

\* Threads that can run are scheduled. A mutex may be taken by another worker
\* again and again, so no more than weak fairness is assumed of its acquisition.
FairSpec == Spec /\ WF_vars(Caller) /\ \A w \in Workers : WF_vars(Worker(w))

-----------------------------------------------------------------------------
(* Properties. *)

Places == {"off", "dequeue", "acquire", "read", "unlink", "push", "release", "run"}

TypeOK ==
    /\ round \in 1..Len(Rounds)
    /\ phase \in {"fill", "drain", "finalized"}
    /\ next \in 0..Len(Rounds[round])
    /\ queues \in [Queues -> Seq(Tasks)]
    /\ free_queues \in [Queues -> Seq(Tasks)]
    /\ lock \in [Queues -> Workers \cup {Nobody}]
    /\ pc \in [Workers -> Places]
    /\ index \in [Workers -> Queues]
    /\ cur \in [Workers -> Queues]
    /\ elem \in [Workers -> Tasks \cup {NoTask}]
    /\ executed \in [Tasks -> Nat]

\* The tasks queued so far.
Queued == {t \in Tasks : \E r \in 1..round : \E k \in 1..Len(Rounds[r]) :
              t = Rounds[r][k] /\ (r < round \/ k <= next)}

\* Each entry is at one place in one of the lists, or in the hand of the worker
\* that moves it from a queue to its free queue: none is lost, and tq_finalize
\* frees none twice.
PlacesIn(lists, t) == {p \in UNION {{q} \X (1..Len(lists[q])) : q \in Queues} :
                          lists[p[1]][p[2]] = t}
Moving(t) == {w \in Workers : pc[w] = "push" /\ elem[w] = t}
EachEntryOnce ==
    phase # "finalized" =>
        \A t \in Tasks :
            Cardinality(PlacesIn(queues, t)) + Cardinality(PlacesIn(free_queues, t))
                + Cardinality(Moving(t)) = IF t \in Queued THEN 1 ELSE 0

\* When the workers of a round have been joined, every task queued so far has
\* been executed exactly once.
EveryTaskRan ==
    phase = "drain" /\ AllOff => \A t \in Tasks : executed[t] = IF t \in Queued THEN 1 ELSE 0

\* "There really is no more work" (tq_dequeue_normal_internal): a worker that
\* gives up leaves no task behind in any queue, though it looked at one queue
\* after the other and locked only one at a time.
NoWorkLeftBehind ==
    [][\A w \in Workers : pc[w] = "release" /\ pc'[w] = "off" =>
          \A q \in Queues : queues[q] = <<>>]_vars

\* Every round is drained and the queue is finalized.
Drained == <>(phase = "finalized")

\* The queue is a bag of tasks; an entry leaves it when it is unlinked.
Waiting == UNION {{queues[q][k] : k \in 1..Len(queues[q])} : q \in Queues}
Holding(w) == pc[w] \in {"push", "run"} \/ (pc[w] = "release" /\ elem[w] # NoTask)
Hand(w) == IF pc[w] = "off" THEN Nobody ELSE IF Holding(w) THEN elem[w] ELSE NoTask
Bag == INSTANCE TaskBag WITH Free <- NoTask, Retired <- Nobody,
                             bag  <- Waiting,
                             done <- {t \in Tasks : executed[t] > 0},
                             hand <- [w \in Workers |-> Hand(w)]
BagSpec == Bag!Spec
=============================================================================
