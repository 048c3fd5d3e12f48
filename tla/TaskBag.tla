------------------------------ MODULE TaskBag ------------------------------
(***************************************************************************)
(* What map_worker and reduce_worker expect of the task queue: tasks are   *)
(* put into a bag while no worker is at work, each is then taken by one    *)
(* worker, and a worker retires when no task is left ("There really is no  *)
(* more work", taskQ.c).  TaskQ implements this specification.             *)
(***************************************************************************)
EXTENDS Naturals

CONSTANTS Workers, Tasks, Free, Retired

VARIABLES bag,       \* the tasks waiting to be taken
          done,      \* the tasks that have been executed
          hand       \* what each worker holds: a task, Free or Retired

tbVars == <<bag, done, hand>>

Init == bag = {} /\ done = {} /\ hand = [w \in Workers |-> Retired]

AllRetired == \A w \in Workers : hand[w] = Retired

Put(t) == /\ AllRetired
          /\ t \notin bag \cup done
          /\ bag' = bag \cup {t}
          /\ UNCHANGED <<done, hand>>

Open(crew) == /\ AllRetired
              /\ hand' = [w \in Workers |-> IF w \in crew THEN Free ELSE Retired]
              /\ UNCHANGED <<bag, done>>

Take(w, t) == /\ hand[w] = Free
              /\ t \in bag
              /\ bag' = bag \ {t}
              /\ hand' = [hand EXCEPT ![w] = t]
              /\ UNCHANGED done

Finish(w) == /\ hand[w] \in Tasks
             /\ done' = done \cup {hand[w]}
             /\ hand' = [hand EXCEPT ![w] = Free]
             /\ UNCHANGED bag

Retire(w) == /\ hand[w] = Free
             /\ bag = {}
             /\ hand' = [hand EXCEPT ![w] = Retired]
             /\ UNCHANGED <<bag, done>>

Next == \/ \E t \in Tasks : Put(t)
        \/ \E crew \in SUBSET Workers : Open(crew)
        \/ \E w \in Workers : Finish(w) \/ Retire(w) \/ \E t \in Tasks : Take(w, t)

Spec == Init /\ [][Next]_tbVars
=============================================================================
