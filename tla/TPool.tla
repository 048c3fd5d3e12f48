------------------------------- MODULE TPool -------------------------------
(***************************************************************************)
(* The thread pool of the Phoenix runtime, src/tpool.c: one caller (the    *)
(* thread that runs map_reduce) and NumThreads detached pool threads.  The *)
(* caller creates the pool, passes it a schedule of batches (tpool_set,    *)
(* tpool_begin, tpool_wait) and destroys it.  Each access to a semaphore   *)
(* and to the counters is an action of its own; tpool_set is one action,   *)
(* since no thread reads the function or its argument before it is posted. *)
(* A batch is named by its position in the schedule, and the function, the *)
(* arguments and the results are named by the batch they belong to.        *)
(***************************************************************************)
EXTENDS Integers, Sequences, FiniteSets

CONSTANTS NumThreads,    \* tpool_create's argument
          Schedules      \* the sequences of num_workers the caller may ask for

ASSUME NumThreadsAssumption == NumThreads \in Nat \ {0}
\* tpool_set asserts num_workers <= num_threads.
ASSUME SchedulesAssumption == Schedules \subseteq Seq(0..NumThreads)

Threads == 1..NumThreads

VARIABLES
    sched, batch, i, mpc,          \* the caller: schedule, batch, loop index, place
    num_workers, num_workers_done, die, thread_func, args,     \* struct tpool_t
    sem_run, sem_all_workers_done,
    freed,                         \* the memory of the pool is freed
    pc,                            \* the pool threads: place,
    job,                           \* function and argument read from the pool,
    count,                         \* num_workers_done in thread_loop,
    cancelled,                     \* those pthread_cancel was called on,
    ret,                           \* what its last call returned,
    ran                            \* (history) its calls since tpool_begin

callerVars  == <<sched, batch, i>>
counterVars == <<num_workers, num_workers_done>>
taskVars    == <<thread_func, args>>
flagVars    == <<die, freed>>
resultVars  == <<ret, ran>>
vars == <<callerVars, mpc, counterVars, taskVars, flagVars, sem_run,
          sem_all_workers_done, pc, job, count, cancelled, resultVars>>

Job     == [func : Nat, arg : Nat]
NoJob   == [func |-> 0, arg |-> 0]
NoneRan == [t \in Threads |-> 0]

Init == /\ sched \in Schedules /\ batch = 0 /\ i = 1 /\ mpc = "create"
        /\ num_workers = NumThreads /\ num_workers_done = 0
        /\ thread_func = 0 /\ args = NoneRan
        /\ die = 0 /\ freed = FALSE
        /\ sem_run = NoneRan /\ sem_all_workers_done = 0
        /\ pc = [t \in Threads |-> "unborn"]
        /\ job = [t \in Threads |-> NoJob]
        /\ count = NoneRan
        /\ cancelled = {}
        /\ ret = [t \in Threads |-> NoJob]
        /\ ran = NoneRan

-----------------------------------------------------------------------------
(* The caller. *)

\* After its last batch the caller destroys the pool (map_reduce_finalize).
NextOf(b) == IF b < Len(sched) THEN "set" ELSE "d_set"

CreateThread ==
    /\ mpc = "create"
    /\ pc' = [pc EXCEPT ![i] = "sem"]
    /\ i' = i + 1
    /\ mpc' = IF i = NumThreads THEN NextOf(0) ELSE mpc
    /\ UNCHANGED <<sched, batch, counterVars, taskVars, flagVars, sem_run,
                   sem_all_workers_done, job, count, cancelled, resultVars>>

\* pthread_create fails: the threads created so far are told to cancel, which
\* each does at its next cancellation point, and their arguments are freed.
CreateFails ==
    /\ mpc = "create"
    /\ cancelled' = {t \in Threads : t < i}
    /\ freed' = TRUE
    /\ mpc' = "failed"
    /\ UNCHANGED <<callerVars, counterVars, taskVars, die, sem_run,
                   sem_all_workers_done, pc, job, count, resultVars>>

tpool_set ==
    /\ mpc = "set"
    /\ batch' = batch + 1
    /\ num_workers' = sched[batch']
    /\ thread_func' = batch'
    /\ args' = [t \in Threads |-> IF t <= num_workers' THEN batch' ELSE args[t]]
    /\ mpc' = "begin"
    /\ UNCHANGED <<sched, i, num_workers_done, flagVars, sem_run, sem_all_workers_done,
                   pc, job, count, cancelled, resultVars>>

\* Mutant: num_workers_done is not reset.
BeginStaleCount ==
    /\ mpc = "begin"
    /\ mpc' = IF num_workers = 0 THEN "wait" ELSE "post"
    /\ i' = 1
    /\ ran' = NoneRan
    /\ UNCHANGED <<sched, batch, counterVars, taskVars, flagVars, sem_run,
                   sem_all_workers_done, pc, job, count, cancelled, ret>>

\* tpool_begin resets the counter, unless the batch is empty, and then posts
\* to one worker after the other.
Begin ==
    /\ mpc = "begin"
    /\ num_workers_done' = IF num_workers = 0 THEN num_workers_done ELSE 0
    /\ mpc' = IF num_workers = 0 THEN "wait" ELSE "post"
    /\ i' = 1
    /\ ran' = NoneRan
    /\ UNCHANGED <<sched, batch, num_workers, taskVars, flagVars, sem_run,
                   sem_all_workers_done, pc, job, count, cancelled, ret>>

\* Mutant: one post too many.
PostRunOffByOne ==
    /\ mpc = "post"
    /\ sem_run' = [sem_run EXCEPT ![i] = @ + 1]
    /\ i' = i + 1
    /\ mpc' = IF i > num_workers THEN "wait" ELSE mpc
    /\ UNCHANGED <<sched, batch, counterVars, taskVars, flagVars,
                   sem_all_workers_done, pc, job, count, cancelled, resultVars>>

PostRun ==
    /\ mpc = "post"
    /\ sem_run' = [sem_run EXCEPT ![i] = @ + 1]
    /\ i' = i + 1
    /\ mpc' = IF i = num_workers THEN "wait" ELSE mpc
    /\ UNCHANGED <<sched, batch, counterVars, taskVars, flagVars,
                   sem_all_workers_done, pc, job, count, cancelled, resultVars>>

\* tpool_wait takes one post, whoever it is from, unless the batch is empty.
tpool_wait ==
    /\ mpc = "wait"
    /\ IF num_workers = 0
         THEN UNCHANGED sem_all_workers_done
         ELSE /\ sem_all_workers_done > 0
              /\ sem_all_workers_done' = sem_all_workers_done - 1
    /\ mpc' = "returned"
    /\ UNCHANGED <<callerVars, counterVars, taskVars, flagVars, sem_run, pc, job,
                   count, cancelled, resultVars>>

Proceed ==
    /\ mpc = "returned"
    /\ mpc' = NextOf(batch)
    /\ UNCHANGED <<callerVars, counterVars, taskVars, flagVars, sem_run,
                   sem_all_workers_done, pc, job, count, cancelled, resultVars>>

\* Mutant: the count of the last batch is kept.
DestroySetStaleCount ==
    /\ mpc = "d_set"
    /\ num_workers' = NumThreads
    /\ i' = 1
    /\ mpc' = "d_post"
    /\ UNCHANGED <<sched, batch, num_workers_done, taskVars, flagVars, sem_run,
                   sem_all_workers_done, pc, job, count, cancelled, resultVars>>

DestroySet ==
    /\ mpc = "d_set"
    /\ num_workers' = NumThreads
    /\ num_workers_done' = 0
    /\ i' = 1
    /\ mpc' = "d_post"
    /\ UNCHANGED <<sched, batch, taskVars, flagVars, sem_run, sem_all_workers_done,
                   pc, job, count, cancelled, resultVars>>

\* Mutant: the threads are woken without being told to die.
DestroyPostAlive ==
    /\ mpc = "d_post"
    /\ sem_run' = [sem_run EXCEPT ![i] = @ + 1]
    /\ i' = i + 1
    /\ mpc' = IF i = NumThreads THEN "d_wait" ELSE mpc
    /\ UNCHANGED <<sched, batch, counterVars, taskVars, flagVars, sem_all_workers_done,
                   pc, job, count, cancelled, resultVars>>

DestroyPost ==
    /\ mpc = "d_post"
    /\ die' = 1
    /\ sem_run' = [sem_run EXCEPT ![i] = @ + 1]
    /\ i' = i + 1
    /\ mpc' = IF i = NumThreads THEN "d_wait" ELSE mpc
    /\ UNCHANGED <<sched, batch, counterVars, taskVars, freed, sem_all_workers_done,
                   pc, job, count, cancelled, resultVars>>

\* Woken, the caller frees the semaphores, the thread_arg_t's and the pool.
DestroyWait ==
    /\ mpc = "d_wait"
    /\ sem_all_workers_done > 0
    /\ sem_all_workers_done' = sem_all_workers_done - 1
    /\ freed' = TRUE
    /\ mpc' = "destroyed"
    /\ UNCHANGED <<callerVars, counterVars, taskVars, die, sem_run, pc, job, count,
                   cancelled, resultVars>>

Caller == \/ CreateThread \/ CreateFails
          \/ tpool_set \/ Begin \/ PostRun \/ tpool_wait \/ Proceed
          \/ DestroySet \/ DestroyPost \/ DestroyWait

-----------------------------------------------------------------------------
(* A pool thread: thread_loop. *)

Goto(t, from, to) == pc[t] = from /\ pc' = [pc EXCEPT ![t] = to]

SemWait(t) ==
    /\ Goto(t, "sem", "die")
    /\ sem_run[t] > 0
    /\ sem_run' = [sem_run EXCEPT ![t] = @ - 1]
    /\ UNCHANGED <<callerVars, mpc, counterVars, taskVars, flagVars,
                   sem_all_workers_done, job, count, cancelled, resultVars>>

\* sem_wait is a cancellation point.
Cancelled(t) ==
    /\ Goto(t, "sem", "exit")
    /\ t \in cancelled
    /\ UNCHANGED <<callerVars, mpc, counterVars, taskVars, flagVars, sem_run,
                   sem_all_workers_done, job, count, cancelled, resultVars>>

ReadDie(t) ==
    /\ Goto(t, "die", IF die = 1 THEN "d_inc" ELSE "job")
    /\ UNCHANGED <<callerVars, mpc, counterVars, taskVars, flagVars, sem_run,
                   sem_all_workers_done, job, count, cancelled, resultVars>>

ReadJob(t) ==
    /\ Goto(t, "job", "call")
    /\ job' = [job EXCEPT ![t] = [func |-> thread_func, arg |-> args[t]]]
    /\ UNCHANGED <<callerVars, mpc, counterVars, taskVars, flagVars, sem_run,
                   sem_all_workers_done, count, cancelled, resultVars>>

Call(t) ==
    /\ Goto(t, "call", "inc")
    /\ ret' = [ret EXCEPT ![t] = job[t]]
    /\ ran' = [ran EXCEPT ![t] = @ + 1]
    /\ UNCHANGED <<callerVars, mpc, counterVars, taskVars, flagVars, sem_run,
                   sem_all_workers_done, job, count, cancelled>>

\* fetch_and_inc is one atomic instruction; the read of num_workers that its
\* result is compared with is another.
FetchAndInc(t, from, to) ==
    /\ Goto(t, from, to)
    /\ num_workers_done' = num_workers_done + 1
    /\ count' = [count EXCEPT ![t] = num_workers_done + 1]
    /\ UNCHANGED <<callerVars, mpc, num_workers, taskVars, flagVars, sem_run,
                   sem_all_workers_done, job, cancelled, resultVars>>

\* Mutant: a worker that is not the last takes itself for it.
ReadNumWorkersAtMost(t, from, last, other) ==
    /\ \E n \in IF freed THEN 0..NumThreads ELSE {num_workers} :
          Goto(t, from, IF count[t] <= n THEN last ELSE other)
    /\ UNCHANGED <<callerVars, mpc, counterVars, taskVars, flagVars, sem_run,
                   sem_all_workers_done, job, count, cancelled, resultVars>>

\* In freed memory the thread reads any value.
ReadNumWorkers(t, from, last, other) ==
    /\ \E n \in IF freed THEN 0..NumThreads ELSE {num_workers} :
          Goto(t, from, IF count[t] = n THEN last ELSE other)
    /\ UNCHANGED <<callerVars, mpc, counterVars, taskVars, flagVars, sem_run,
                   sem_all_workers_done, job, count, cancelled, resultVars>>

PostDone(t, from, to) ==
    /\ Goto(t, from, to)
    /\ sem_all_workers_done' = sem_all_workers_done + IF freed THEN 0 ELSE 1
    /\ UNCHANGED <<callerVars, mpc, counterVars, taskVars, flagVars, sem_run, job,
                   count, cancelled, resultVars>>

Worker(t) == \/ SemWait(t) \/ Cancelled(t) \/ ReadDie(t) \/ ReadJob(t) \/ Call(t)
             \/ FetchAndInc(t, "inc", "read")
             \/ ReadNumWorkers(t, "read", "done", "sem")
             \/ PostDone(t, "done", "sem")
             \/ FetchAndInc(t, "d_inc", "d_read")
             \/ ReadNumWorkers(t, "d_read", "d_done", "exit")
             \/ PostDone(t, "d_done", "exit")

\* The caller is through with the pool and every thread is gone.
Finished == /\ mpc \in {"destroyed", "failed"}
            /\ \A t \in Threads : pc[t] \in {"exit", "unborn"}
            /\ UNCHANGED vars

Next == Caller \/ (\E t \in Threads : Worker(t)) \/ Finished

Spec == Init /\ [][Next]_vars

\* The system schedules every thread that can run, and each semaphore has one
\* thread waiting on it, so a post reaches it.
FairSpec == Spec /\ WF_vars(Caller) /\ \A t \in Threads : WF_vars(Worker(t))

-----------------------------------------------------------------------------
(* Properties. *)

CallerPlaces == {"create", "failed", "set", "begin", "post", "wait", "returned",
                 "d_set", "d_post", "d_wait", "destroyed"}
ThreadPlaces == {"unborn", "sem", "die", "job", "call", "inc", "read", "done",
                 "d_inc", "d_read", "d_done", "exit"}

TypeOK ==
    /\ sched \in Schedules
    /\ batch \in 0..Len(sched)
    /\ i \in 1..NumThreads + 1
    /\ mpc \in CallerPlaces
    /\ num_workers \in 0..NumThreads
    /\ num_workers_done \in Nat
    /\ thread_func \in Nat
    /\ args \in [Threads -> Nat]
    /\ die \in {0, 1}
    /\ freed \in BOOLEAN
    /\ sem_run \in [Threads -> Nat]
    /\ sem_all_workers_done \in Nat
    /\ pc \in [Threads -> ThreadPlaces]
    /\ job \in [Threads -> Job]
    /\ count \in [Threads -> Nat]
    /\ cancelled \subseteq Threads
    /\ ret \in [Threads -> Job]
    /\ ran \in [Threads -> Nat]

\* A batch size never falls, empty batches aside.
Growing(s) == \A j, k \in 1..Len(s) : j < k /\ s[k] > 0 => s[j] <= s[k]

\* "Barrier, wait for all threads to finish" (map_reduce.c): when tpool_wait
\* returns, each worker of the batch has run the function of the batch on its
\* own argument exactly once and stored the result that tpool_get_results
\* reads, and no other thread has run.
BarrierSafe ==
    mpc = "returned" =>
        \A t \in Threads : IF t <= num_workers
                             THEN /\ ran[t] = 1
                                  /\ ret[t] = [func |-> batch, arg |-> batch]
                             ELSE ran[t] = 0

\* No signal of a batch outlives it: while the caller prepares a batch, or is
\* about to dismantle the pool, no semaphore holds a post and no thread is
\* between its sem_wait and its fetch_and_inc, or about to post.
QuietBetweenBatches ==
    mpc \in {"set", "begin", "returned", "d_set"} =>
        /\ sem_all_workers_done = 0
        /\ \A t \in Threads : sem_run[t] = 0 /\ pc[t] \in {"sem", "read"}

\* tpool_destroy is woken by the last of all the threads only: by then each one
\* has left the loop and counted itself out.
DestroyJoins ==
    mpc = "destroyed" => \A t \in Threads : pc[t] \in {"d_read", "d_done", "exit"}

\* "Everybody's done" (thread_loop, before the post that wakes tpool_destroy):
\* nobody uses the pool's memory after tpool_destroy has freed it.
FreedAfterLastUse == mpc = "destroyed" => \A t \in Threads : pc[t] = "exit"

\* tpool_wait returns.
EveryWaitReturns == (mpc = "wait") ~> (mpc = "returned")

\* tpool_destroy returns, and the detached threads do not outlive the pool for ever.
EveryThreadEnds ==
    <>[](mpc \in {"destroyed", "failed"} /\ \A t \in Threads : pc[t] \in {"exit", "unborn"})

\* Batches fork and join: every step of the pool is a step of ForkJoin, or
\* leaves the batch, the caller's side of it and the calls made in it alone.
FJ == INSTANCE ForkJoin WITH round   <- IF mpc = "begin" THEN batch - 1 ELSE batch,
                             running <- mpc \in {"post", "wait"}
ForkJoinSpec == FJ!Spec
=============================================================================
