------------------------------ MODULE ForkJoin ------------------------------
(***************************************************************************)
(* What the Phoenix runtime wants from its thread pool (start_workers in   *)
(* map_reduce.c calls tpool_begin and then tpool_wait, which it calls a    *)
(* barrier): a batch of workers is forked, every worker of the batch runs  *)
(* exactly once, in any order, and the join waits for all of them.  TPool  *)
(* implements this specification.                                          *)
(***************************************************************************)
EXTENDS Integers, Sequences

CONSTANTS NumThreads,    \* threads of the pool
          Schedules      \* the sequences of batch sizes the caller may ask for

VARIABLES sched,         \* the sequence of batch sizes of this behaviour
          round,         \* how many batches have been forked
          running,       \* a batch is forked and not yet joined
          ran            \* how often each thread ran in the last batch forked

fjVars == <<sched, round, running, ran>>

Threads == 1..NumThreads
NoneRan == [t \in Threads |-> 0]

Init == /\ sched \in Schedules
        /\ round = 0
        /\ running = FALSE
        /\ ran = NoneRan

Fork == /\ ~running
        /\ round < Len(sched)
        /\ round' = round + 1
        /\ running' = TRUE
        /\ ran' = NoneRan
        /\ UNCHANGED sched

Work(t) == /\ running
           /\ t <= sched[round]
           /\ ran[t] = 0
           /\ ran' = [ran EXCEPT ![t] = 1]
           /\ UNCHANGED <<sched, round, running>>

Join == /\ running
        /\ \A t \in 1..sched[round] : ran[t] = 1
        /\ running' = FALSE
        /\ UNCHANGED <<sched, round, ran>>

Next == Fork \/ Join \/ \E t \in Threads : Work(t)

Spec == Init /\ [][Next]_fjVars
=============================================================================
