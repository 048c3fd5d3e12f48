---------------------------- MODULE MCMapReduce ----------------------------
(* Instances of MapReduce for TLC. *)
EXTENDS MapReduce

Base == [emits |-> <<<<2, 1>>, <<1, 3>>>>, chunk_size |-> 1, partition |-> [k \in 1..3 |-> k],
         num_map_threads |-> 2, num_reduce_threads |-> 2, num_merge_threads |-> 1,
         num_reduce_tasks |-> 2, use_one_queue_per_task |-> FALSE,
         combiner |-> FALSE, identity_reduce |-> FALSE]

\* One map task for two units, fewer map workers than threads, and the combiner.
Combine == [Base EXCEPT !.emits = <<<<1, 2, 1>>, <<1>>, <<3, 1>>>>, !.chunk_size = 2,
                        !.combiner = TRUE, !.num_map_threads = 3, !.num_reduce_threads = 3]

\* Merge rounds of 2 and 1 workers, the first with slices of unequal length.
Rounds == [Base EXCEPT !.use_one_queue_per_task = TRUE, !.num_reduce_tasks = 5,
                       !.num_merge_threads = 2, !.identity_reduce = TRUE,
                       !.emits = <<<<3, 1>>, <<1, 2>>>>, !.partition = [k \in 1..3 |-> 2 * k]]

\* A single reduce worker: nothing to merge.
Alone == [Base EXCEPT !.num_map_threads = 1, !.num_reduce_threads = 1, !.identity_reduce = TRUE]

\* Three map tasks and three reduce tasks, each for a worker of its own.
Three == [Base EXCEPT !.emits = <<<<1>>, <<2>>, <<1>>>>, !.num_reduce_tasks = 3,
                      !.num_map_threads = 3, !.num_reduce_threads = 3]

\* Calls that ask for more than a pool of one thread has: map threads (but fewer than
\* these when there are fewer tasks), reduce threads, merge threads; and one with a
\* reduce thread for which there is no lock.
FewTasks == [Combine EXCEPT !.num_reduce_threads = 2]
Reducers == [Alone EXCEPT !.num_reduce_threads = 3]
Mergers  == [Rounds EXCEPT !.num_reduce_tasks = 6, !.num_merge_threads = 3]
Lockless == [Base EXCEPT !.num_reduce_threads = 3]

\* In Base one array is left of two, and keys 1 and 3 share a reduce task.
Calls == {Base, Combine, Rounds, Alone, Three, FewTasks, Reducers, Mergers, Lockless}

\* Like word_count.c and its sort: the pool of the first call serves the second, which
\* has fewer threads or, with the caller, one more; or too many.
Pairs == {<<Combine, Base>>, <<Alone, Rounds>>, <<Three>>, <<Alone, FewTasks>>,
          <<Alone, Three>>, <<Reducers>>, <<Alone, Mergers>>, <<Lockless>>}

\* More map than reduce threads (both can be asked for in map_reduce_args_t).
FewerReducers == {[Base EXCEPT !.num_map_threads = 3, !.num_reduce_tasks = 3,
                               !.emits = <<<<1>>, <<2>>, <<3>>>>]}
FewerReducersOnce == {<<a>> : a \in FewerReducers}
=============================================================================
