----------------------------- MODULE MapReduce -----------------------------
(***************************************************************************)
(* A program's calls of map_reduce (map_reduce.c), one after another on the *)
(* pool the first of them creates.  In each the input is split into map    *)
(* tasks, map workers emit key/value pairs into sorted arrays of their own,*)
(* reduce workers gather each key from the arrays of all map workers and   *)
(* emit the reduced values, and rounds of merge workers make one sorted    *)
(* array of the results.                                                   *)
(*                                                                         *)
(* The task queue is the bag TaskBag specifies, and start_workers returns  *)
(* when all the workers it started have (ForkJoin): the modules TaskQ and  *)
(* TPool say when the code provides that.  A value stands for the set of   *)
(* emissions it was made from, named by the unit of the input and the      *)
(* position among the emissions of that unit; the user's reduce function   *)
(* and combiner unite the values they are given.                           *)
(***************************************************************************)
EXTENDS Keyvals

CONSTANTS Args,          \* the map_reduce_args_t's the runtime may be called with
          Programs,      \* the sequences of calls between map_reduce_init and _finalize
          MaxThreads     \* no element of Args asks for more

(* The fields of an element of Args:                                         *)
(*   emits               the keys map emits for each unit of the input       *)
(*   chunk_size          units per map task                                  *)
(*   num_map_threads, num_reduce_threads, num_merge_threads                  *)
(*   num_reduce_tasks    256, or 32768 unless use_one_queue_per_task         *)
(*   partition           the number the partition function gives each key    *)
(*   use_one_queue_per_task, combiner, identity_reduce : BOOLEAN             *)
ASSUME MaxThreadsAssumption == MaxThreads \in Nat \ {0}
\* map asserts that there is a map task.
ASSUME ArgsAssumption ==
    \A a \in Args : /\ a.emits \in Seq(Seq(DOMAIN a.partition)) /\ a.emits # <<>>
                    /\ DOMAIN a.partition \subseteq Int
                    /\ \A key \in DOMAIN a.partition : a.partition[key] \in Nat
                    /\ \A n \in {a.chunk_size, a.num_map_threads, a.num_reduce_threads,
                                 a.num_merge_threads} : n \in Nat \ {0}
                    /\ a.num_map_threads <= MaxThreads /\ a.num_reduce_threads <= MaxThreads
                    /\ a.num_merge_threads <= MaxThreads
                    /\ a.num_reduce_tasks \in Nat \ {0, 1}
                    /\ \A b \in {a.use_one_queue_per_task, a.combiner, a.identity_reduce} :
                          b \in BOOLEAN

ASSUME ProgramsAssumption == \A p \in Programs : p \in Seq(Args) /\ p # <<>>

VARIABLES
    calls, pool,      \* the program: calls to come, threads of the pool (NULL is 0)
    args, num_map_threads, num_merge_threads,     \* the environment
    phase, splitter_pos, tasks,     \* the caller: phase, splitter, queue of tasks
    intermediate_vals, pos,         \* the arrays of the map workers, and how far
                                    \* the reduce workers are in them
    final_vals,                     \* the arrays of the reduce workers (or tasks)
    merge_input, merge_vals,        \* what a merge round reads and writes
    result,
    pc, todo,                       \* the workers: place, emissions of the map task
    work,                           \* and progress in the reduce task
    fault                           \* what ended the program: a failed assertion of
                                    \* tpool_set, or a worker without a lock

envVars    == <<calls, pool, args, num_map_threads, num_merge_threads>>
callerVars == <<phase, splitter_pos, tasks>>
mergeVars  == <<merge_input, merge_vals, result>>
jobVars == <<envVars, callerVars, intermediate_vals, pos, final_vals, mergeVars, pc, todo, work>>
vars == <<jobVars, fault>>

Min2(a, b) == IF a < b THEN a ELSE b
Max2(a, b) == IF a > b THEN a ELSE b

Threads     == 0..(MaxThreads - 1)
Units       == Len(args.emits)
ReduceTasks == 0..(args.num_reduce_tasks - 1)
Emissions   == UNION {{<<u, k>> : k \in DOMAIN args.emits[u]} : u \in 1..Units}
KeyOf(e)    == args.emits[e[1]][e[2]]

\* The merge threads env_init settles on.
MergeThreads(a) ==
    Min2(Max2(IF a.use_one_queue_per_task THEN a.num_merge_threads
                                          ELSE a.num_reduce_threads \div 2, 1),
         a.num_reduce_tasks \div 2)

Idle == [task |-> -1, min |-> <<>>, next |-> <<>>, itr |-> <<>>]

NoVals(a, nothing) == [m \in 0..(a.num_map_threads - 1) |->
                          [r \in 0..(a.num_reduce_tasks - 1) |-> nothing]]
Queues(a) == 1..(IF a.use_one_queue_per_task THEN a.num_reduce_tasks
                                             ELSE a.num_reduce_threads)

\* map_reduce_init, env_init for the first call, and tpool_create.
Init == /\ \E p \in Programs : args = p[1] /\ calls = Tail(p)
        /\ pool = args.num_map_threads
        /\ num_map_threads = args.num_map_threads
        /\ num_merge_threads = MergeThreads(args)
        /\ phase = "split" /\ splitter_pos = 0 /\ tasks = {}
        /\ intermediate_vals = NoVals(args, <<>>) /\ pos = NoVals(args, 0)
        /\ final_vals = [q \in Queues(args) |-> <<>>]
        /\ merge_input = <<>> /\ merge_vals = <<>> /\ result = <<>>
        /\ pc = [w \in Threads |-> "off"]
        /\ todo = [w \in Threads |-> <<>>]
        /\ work = [w \in Threads |-> Idle]
        /\ fault = "none"

-----------------------------------------------------------------------------
(* The caller. *)

\* start_workers: thread 0 is the caller itself, the others are the pool's.
Start(n, place) == pc' = [w \in Threads |-> IF w < n THEN place ELSE "off"]
AllOff == \A w \in Threads : pc[w] = "off"

\* getNumTaskThreads of the phase or merge round the caller is about to start, if any.
NextThreads ==
    CASE phase = "split" /\ splitter_pos = Units -> Min2(Cardinality(tasks), num_map_threads)
      [] phase = "map" /\ AllOff -> args.num_reduce_threads
      [] phase = "reduce" /\ AllOff /\ Len(final_vals) > 1 -> num_merge_threads
      [] phase = "merge" /\ AllOff /\ Len(merge_vals) > 1 -> Max2(num_merge_threads \div 2, 1)
      [] OTHER -> 0

\* Mutant: the pool needs a thread for the caller as well.
PoolSufficesWithCaller == NextThreads <= pool

\* The assertion of tpool_set: a thread for each worker but the caller ...
PoolSuffices == NextThreads - 1 <= pool

\* ... or the program ends.
tpool_set_fails == ~PoolSuffices /\ fault' = "assert" /\ UNCHANGED jobVars

\* Mutant: the last chunk has the nominal length.
SplitOverrun ==
    /\ phase = "split"
    /\ splitter_pos < Units
    /\ LET end == splitter_pos + args.chunk_size
       IN  /\ tasks' = tasks \cup {[first |-> splitter_pos + 1, last |-> end]}
           /\ splitter_pos' = end
    /\ UNCHANGED <<envVars, phase, intermediate_vals, pos, final_vals, mergeVars, pc,
                   todo, work>>

\* gen_map_tasks_split: a task for each chunk array_splitter cuts off.
Split ==
    /\ phase = "split"
    /\ splitter_pos < Units
    /\ LET end == Min2(splitter_pos + args.chunk_size, Units)
       IN  /\ tasks' = tasks \cup {[first |-> splitter_pos + 1, last |-> end]}
           /\ splitter_pos' = end
    /\ UNCHANGED <<envVars, phase, intermediate_vals, pos, final_vals, mergeVars, pc,
                   todo, work>>

\* map, after gen_map_tasks: no more threads than tasks.
StartMap ==
    /\ phase = "split"
    /\ PoolSuffices
    /\ splitter_pos = Units
    /\ phase' = "map"
    /\ num_map_threads' = Min2(Cardinality(tasks), num_map_threads)
    /\ Start(num_map_threads', "task")
    /\ UNCHANGED <<calls, pool, args, num_merge_threads, splitter_pos, tasks, intermediate_vals, pos,
                   final_vals, mergeVars, todo, work>>

\* gen_reduce_tasks queues tasks_per_thread tasks for each thread, one more while
\* tasks_leftover lasts, and stops when it has queued them all.
ReduceTasksQueued ==
    LET tasks_per_thread == args.num_reduce_tasks \div args.num_reduce_threads
        tasks_leftover   == args.num_reduce_tasks - tasks_per_thread * num_map_threads
    IN  Min2(args.num_reduce_tasks,
             tasks_per_thread * args.num_reduce_threads
               + Min2(Max2(tasks_leftover, 0), args.num_reduce_threads))

StartReduce ==
    /\ phase = "map" /\ AllOff
    /\ PoolSuffices
    /\ phase' = "reduce"
    /\ tasks' = 0..(ReduceTasksQueued - 1)
    /\ Start(args.num_reduce_threads, "task")
    /\ UNCHANGED <<envVars, splitter_pos, intermediate_vals, pos, final_vals, mergeVars,
                   todo, work>>

\* merge: a single array is the result; otherwise there are rounds, each of
\* which leaves as many arrays as it has threads, and the next has half as many.
StartMerge ==
    /\ phase = "reduce" /\ AllOff
    /\ PoolSuffices
    /\ IF Len(final_vals) <= 1
         THEN /\ result' = final_vals[1]
              /\ phase' = "done"
              /\ UNCHANGED <<merge_input, merge_vals, pc>>
         ELSE /\ phase' = "merge"
              /\ merge_input' = final_vals
              /\ merge_vals' = [w \in 1..num_merge_threads |-> <<>>]
              /\ Start(num_merge_threads, "merge")
              /\ UNCHANGED result
    /\ UNCHANGED <<envVars, splitter_pos, tasks, intermediate_vals, pos, final_vals,
                   todo, work>>

\* Mutant: one round only.
NextMergeRoundOnce ==
    /\ phase = "merge" /\ AllOff
    /\ merge_input' = merge_vals
    /\ result' = merge_vals[1]
    /\ phase' = "done"
    /\ UNCHANGED <<envVars, splitter_pos, tasks, intermediate_vals, pos, final_vals,
                   merge_vals, pc, todo, work>>

\* Mutant: another round is started for a single array.
NextMergeRoundForever ==
    /\ phase = "merge" /\ AllOff
    /\ PoolSuffices
    /\ merge_input' = merge_vals
    /\ num_merge_threads' = Max2(num_merge_threads \div 2, 1)
    /\ merge_vals' = [w \in 1..num_merge_threads' |-> <<>>]
    /\ Start(num_merge_threads', "merge")
    /\ UNCHANGED <<calls, pool, args, num_map_threads, callerVars, intermediate_vals, pos,
                   final_vals, result, todo, work>>

NextMergeRound ==
    /\ phase = "merge" /\ AllOff
    /\ PoolSuffices
    /\ merge_input' = merge_vals
    /\ num_merge_threads' = Max2(num_merge_threads \div 2, 1)
    /\ IF Len(merge_vals) > 1
         THEN /\ merge_vals' = [w \in 1..num_merge_threads' |-> <<>>]
              /\ Start(num_merge_threads', "merge")
              /\ UNCHANGED <<phase, result>>
         ELSE /\ result' = merge_vals[1]
              /\ phase' = "done"
              /\ UNCHANGED <<merge_vals, pc>>
    /\ UNCHANGED <<calls, pool, args, num_map_threads, splitter_pos, tasks, intermediate_vals,
                   pos, final_vals, todo, work>>

\* env_init for the next call, which finds the pool of the calls before.
NextCall ==
    /\ phase = "done" /\ calls # <<>>
    /\ calls' = Tail(calls) /\ args' = Head(calls)
    /\ num_map_threads' = args'.num_map_threads
    /\ num_merge_threads' = MergeThreads(args')
    /\ phase' = "split" /\ splitter_pos' = 0 /\ tasks' = {}
    /\ intermediate_vals' = NoVals(args', <<>>) /\ pos' = NoVals(args', 0)
    /\ final_vals' = [q \in Queues(args') |-> <<>>]
    /\ merge_input' = <<>> /\ merge_vals' = <<>> /\ result' = <<>>
    /\ work' = [w \in Threads |-> Idle]
    /\ UNCHANGED <<pool, pc, todo>>

map_reduce_finalize ==
    /\ phase = "done" /\ calls = <<>>
    /\ phase' = "finalized" /\ pool' = 0
    /\ UNCHANGED <<calls, args, num_map_threads, num_merge_threads, splitter_pos, tasks,
                   intermediate_vals, pos, final_vals, mergeVars, pc, todo, work>>

Caller == /\ fault = "none"
          /\ \/ /\ \/ Split \/ StartMap \/ StartReduce \/ StartMerge \/ NextMergeRound
                   \/ NextCall \/ map_reduce_finalize
                /\ UNCHANGED fault
             \/ tpool_set_fails

-----------------------------------------------------------------------------
(* A map worker. *)

Goto(w, from, to) == pc[w] = from /\ pc' = [pc EXCEPT ![w] = to]

\* tq_init, for the map threads asked for, gives each a lock in per_thread[].
HasLock(w) == w < args.num_map_threads

\* tq_dequeue by a worker with a higher number takes what is behind per_thread[] for
\* its lock. The module does not say what becomes of the program.
NoLock(w) == /\ pc[w] = "task" /\ ~HasLock(w)
             /\ fault' = "lock"
             /\ UNCHANGED jobVars

NextMapTask(w) ==
    /\ phase = "map"
    /\ Goto(w, "task", "emit") /\ HasLock(w)
    /\ \E t \in tasks :
          /\ tasks' = tasks \ {t}
          /\ todo' = [todo EXCEPT ![w] =
                        FlattenSeq([u \in 1..(t.last - t.first + 1) |->
                           [k \in DOMAIN args.emits[t.first + u - 1] |-> <<t.first + u - 1, k>>]])]
    /\ UNCHANGED <<envVars, phase, splitter_pos, intermediate_vals, pos, final_vals,
                   mergeVars, work>>

emit_intermediate(w) ==
    /\ pc[w] = "emit"
    /\ todo[w] # <<>>
    /\ LET e == Head(todo[w])
           reduce_pos == args.partition[KeyOf(e)] % args.num_reduce_tasks
       IN  intermediate_vals' = [intermediate_vals EXCEPT ![w][reduce_pos] =
                                    insert_keyval_merged(@, KeyOf(e), {e})]
    /\ todo' = [todo EXCEPT ![w] = Tail(@)]
    /\ UNCHANGED <<envVars, callerVars, pos, final_vals, mergeVars, pc, work>>

EndMapTask(w) ==
    /\ Goto(w, "emit", "task")
    /\ todo[w] = <<>>
    /\ UNCHANGED <<envVars, callerVars, intermediate_vals, pos, final_vals, mergeVars,
                   todo, work>>

\* run_combiner: one value for each key of the worker.
Combined(arr) == [k \in DOMAIN arr |-> [arr[k] EXCEPT !.vals = <<UNION ToSet(@)>>]]

FinishMap(w) ==
    /\ phase = "map"
    /\ Goto(w, "task", "off") /\ HasLock(w)
    /\ tasks = {}
    /\ intermediate_vals' =
          IF args.combiner
            THEN [intermediate_vals EXCEPT ![w] = [r \in ReduceTasks |-> Combined(@[r])]]
            ELSE intermediate_vals
    /\ UNCHANGED <<envVars, callerVars, pos, final_vals, mergeVars, todo, work>>

-----------------------------------------------------------------------------
(* A reduce worker: reduce_worker_do_next_task. *)

\* Mutant: the last map thread is forgotten.
MapThreadsButLast == 0..(num_map_threads - 2)

MapThreads == 0..(num_map_threads - 1)

\* The array of map thread m for task t from its position on, and the part of
\* it that has the key min (NULL is <<>>).
Left(m, t)       == SubSeq(intermediate_vals[m][t], pos[m][t] + 1, Len(intermediate_vals[m][t]))
Taken(m, t, min) == LET left == Left(m, t)
                        same == {k \in DOMAIN left : \A l \in 1..k : min = <<left[l].key>>}
                    IN  SubSeq(left, 1, Cardinality(same))

NextReduceTask(w) ==
    /\ phase = "reduce"
    /\ Goto(w, "task", "gather") /\ HasLock(w)
    /\ \E t \in tasks : /\ tasks' = tasks \ {t}
                        /\ work' = [work EXCEPT ![w] = [Idle EXCEPT !.task = t]]
    /\ UNCHANGED <<envVars, phase, splitter_pos, intermediate_vals, pos, final_vals,
                   mergeVars, todo>>

\* One turn of the loop up to the call of reduce: the lists of the key min_key_val
\* are added to the iterator, and the least of the other keys is next_min. There
\* is no min_key_val in the first turn.
Gather(w) ==
    LET t        == work[w].task
        min      == work[w].min
        n(m)     == Len(Taken(m, t, min))
        others   == {Left(m, t)[n(m) + 1].key : m \in {k \in MapThreads : n(k) < Len(Left(k, t))}}
        next_min == IF others = {} THEN <<>> ELSE <<CHOOSE k \in others : \A l \in others : k <= l>>
        itr      == FlattenSeq([m \in 1..Cardinality(MapThreads) |-> Taken(m - 1, t, min)])
    IN  /\ pc[w] = "gather"
        /\ pc' = [pc EXCEPT ![w] = IF min # <<>> THEN "reduce"
                                   ELSE IF others # {} THEN "gather" ELSE "task"]
        /\ pos' = [m \in DOMAIN pos |->
                     IF m \in MapThreads THEN [pos[m] EXCEPT ![t] = @ + n(m)] ELSE pos[m]]
        /\ work' = [work EXCEPT ![w] = IF min = <<>>
                                         THEN [@ EXCEPT !.min = next_min]
                                         ELSE [@ EXCEPT !.next = next_min, !.itr = itr]]
        /\ UNCHANGED <<envVars, callerVars, intermediate_vals, final_vals, mergeVars, todo>>

Queue(w)      == 1 + IF args.use_one_queue_per_task THEN work[w].task ELSE w
emit(w, val)  == final_vals' = [final_vals EXCEPT ![Queue(w)] =
                     insert_keyval(@, Head(work[w].min), val, args.use_one_queue_per_task)]
ValuesOf(w)   == FlattenSeq([l \in DOMAIN work[w].itr |-> work[w].itr[l].vals])
NextKey(w)    == /\ work' = [work EXCEPT ![w] = [@ EXCEPT !.min = work[w].next,
                                                          !.next = <<>>, !.itr = <<>>]]
                 /\ pc' = [pc EXCEPT ![w] = IF work[w].next # <<>> THEN "gather" ELSE "task"]

\* The user's reduce function emits one value for the key ...
Reduce(w) ==
    /\ pc[w] = "reduce" /\ ~args.identity_reduce
    /\ emit(w, UNION ToSet(ValuesOf(w)))
    /\ NextKey(w)
    /\ UNCHANGED <<envVars, callerVars, intermediate_vals, pos, mergeVars, todo>>

\* ... and identity_reduce each of its values.
identity_reduce(w) ==
    /\ pc[w] = "iterate" \/ (pc[w] = "reduce" /\ args.identity_reduce)
    /\ emit(w, Head(ValuesOf(w)))
    /\ IF Len(ValuesOf(w)) = 1
         THEN NextKey(w)
         ELSE /\ work' = [work EXCEPT ![w].itr = <<[key  |-> Head(work[w].min),
                                                    vals |-> Tail(ValuesOf(w))]>>]
              /\ pc' = [pc EXCEPT ![w] = "iterate"]
    /\ UNCHANGED <<envVars, callerVars, intermediate_vals, pos, mergeVars, todo>>

FinishReduce(w) ==
    /\ phase = "reduce"
    /\ Goto(w, "task", "off") /\ HasLock(w)
    /\ tasks = {}
    /\ UNCHANGED <<envVars, callerVars, intermediate_vals, pos, final_vals, mergeVars,
                   todo, work>>

-----------------------------------------------------------------------------
(* A merge worker: its slice of the arrays, and merge_results. *)

SliceLength == Len(merge_input) \div num_merge_threads
\* Mutant: no slice has one of the arrays left over.
SliceNoRemainder(w) ==
    LET first == w * SliceLength + Min2(w, Len(merge_input) % num_merge_threads)
    IN  first + 1..Min2(first + SliceLength, Len(merge_input))

Slice(w) ==
    LET short  == SliceLength <= 1
        length == IF short THEN 2 ELSE SliceLength
        modlen == Len(merge_input) % IF short THEN 2 ELSE num_merge_threads
        first  == w * length + Min2(w, modlen)
    IN  first + 1..Min2(first + length + IF w < modlen THEN 1 ELSE 0, Len(merge_input))

\* The arrays of the slice that have an element left.
Live(w) == {q \in Slice(w) : merge_input[q] # <<>>}

\* The least of the first elements is moved, that of the lowest array when
\* several are equal.
MergeStep(w) ==
    /\ pc[w] = "merge"
    /\ \E q \in Live(w) :
          /\ \A r \in Live(w) : LET k == merge_input[q][1].key
                                    l == merge_input[r][1].key
                                IN  k < l \/ (k = l /\ q <= r)
          /\ merge_vals' = [merge_vals EXCEPT ![w + 1] = Append(@, Head(merge_input[q]))]
          /\ merge_input' = [merge_input EXCEPT ![q] = Tail(@)]
    /\ UNCHANGED <<envVars, callerVars, intermediate_vals, pos, final_vals, result, pc,
                   todo, work>>

FinishMerge(w) ==
    /\ Goto(w, "merge", "off")
    /\ Live(w) = {}
    /\ UNCHANGED <<envVars, callerVars, intermediate_vals, pos, final_vals, mergeVars,
                   todo, work>>

Worker(w) == /\ fault = "none"
             /\ \/ /\ \/ NextMapTask(w) \/ emit_intermediate(w) \/ EndMapTask(w)
                      \/ FinishMap(w) \/ NextReduceTask(w) \/ Gather(w) \/ Reduce(w)
                      \/ identity_reduce(w) \/ FinishReduce(w) \/ MergeStep(w) \/ FinishMerge(w)
                   /\ UNCHANGED fault
                \/ NoLock(w)

Finished == (phase = "finalized" \/ fault # "none") /\ UNCHANGED vars

Next == Caller \/ (\E w \in Threads : Worker(w)) \/ Finished

Spec == Init /\ [][Next]_vars

\* Threads that can run are scheduled.
FairSpec == Spec /\ WF_vars(Caller) /\ \A w \in Threads : WF_vars(Worker(w))

-----------------------------------------------------------------------------
(* Properties. *)

Keyval(arr)  == \A k \in DOMAIN arr : arr[k].val \subseteq Emissions
Keyvals(arr) == \A k \in DOMAIN arr : \A l \in DOMAIN arr[k].vals :
                                         arr[k].vals[l] \subseteq Emissions

TypeOK ==
    /\ args \in Args /\ calls \in Seq(Args) /\ pool \in 0..MaxThreads
    /\ num_map_threads \in 1..args.num_map_threads
    /\ num_merge_threads \in 1..MaxThreads
    /\ phase \in {"split", "map", "reduce", "merge", "done", "finalized"}
    /\ splitter_pos \in 0..Units
    /\ IF phase \in {"split", "map"}
         THEN \A t \in tasks : t.first \in 1..t.last /\ t.last \in 1..Units
         ELSE tasks \subseteq ReduceTasks
    /\ \A m \in DOMAIN intermediate_vals : \A r \in ReduceTasks :
          /\ Keyvals(intermediate_vals[m][r])
          /\ pos[m][r] \in 0..Len(intermediate_vals[m][r])
    /\ \A arrs \in {final_vals, merge_input, merge_vals} : \A q \in DOMAIN arrs : Keyval(arrs[q])
    /\ Keyval(result)
    /\ pc \in [Threads -> {"off", "task", "emit", "gather", "reduce", "iterate",
                           "merge"}]
    /\ fault \in {"none", "assert", "lock"}
    /\ \A w \in Threads : /\ ToSet(todo[w]) \subseteq Emissions
                          /\ work[w].task \in ReduceTasks \cup {-1}
                          /\ Keyvals(work[w].itr)

\* The places of emission e: in arrays of results and in one of a map worker, ...
In(e, arrs)    == UNION {{<<q, k>> : k \in {j \in DOMAIN arrs[q] : e \in arrs[q][j].val}} :
                            q \in DOMAIN arrs}
InVals(e, arr) == UNION {{<<k, l>> : l \in {j \in DOMAIN arr[k].vals : e \in arr[k].vals[j]}} :
                            k \in DOMAIN arr}

\* ... in a map task, in the hand of a map worker, in all the arrays of the map
\* workers, in the iterators.
Waiting(e)   == {t \in tasks : t.first <= e[1] /\ e[1] <= t.last}
Emitting(e)  == {w \in Threads : e \in ToSet(todo[w])}
Collected(e) == UNION {{m} \X {r} \X InVals(e, Left(m, r)) :
                          m \in DOMAIN intermediate_vals, r \in ReduceTasks}
Iterated(e)  == UNION {{w} \X InVals(e, work[w].itr) : w \in Threads}

\* Each pair emitted is at exactly one place on its way from the map workers to
\* the result: emitted into one array, gathered by one reduce worker once,
\* emitted to one array of results and moved once in each merge round.
EmissionOnce ==
    \A e \in Emissions :
        /\ phase = "map" =>
              Cardinality(Waiting(e)) + Cardinality(Emitting(e)) + Cardinality(Collected(e)) = 1
        /\ phase = "reduce" =>
              Cardinality(Collected(e)) + Cardinality(Iterated(e)) + Cardinality(In(e, final_vals)) = 1
        /\ phase = "merge" => Cardinality(In(e, merge_input)) + Cardinality(In(e, merge_vals)) = 1

\* When reduce is called for a key, the iterator has the values of that key from
\* all the map workers and no others, in one list of each worker at most (more
\* would not fit: iter_init gets the number of map threads).
GatherComplete ==
    \A w \in Threads : pc[w] = "reduce" =>
        /\ {e \in Emissions : work[w].min = <<KeyOf(e)>>}
             = UNION {UNION ToSet(list.vals) : list \in ToSet(work[w].itr)}
        /\ Len(work[w].itr) \in 1..num_map_threads

\* The arrays of the map workers have one entry for each key, in order; the
\* arrays of results are sorted, also those that are only ever appended to.
ArraysSorted ==
    /\ \A m \in DOMAIN intermediate_vals : \A r \in ReduceTasks :
          StrictlySorted(intermediate_vals[m][r])
    /\ \A arrs \in {final_vals, merge_vals} : \A q \in DOMAIN arrs : Sorted(arrs[q])

\* The result is what map_reduce.h promises: every emission under its key, sorted,
\* one entry for each key if the reduce function emits one.
ResultCorrect ==
    phase = "done" =>
        /\ Sorted(result)
        /\ ~args.identity_reduce => StrictlySorted(result)
        /\ \A e \in Emissions : Cardinality(In(e, <<result>>)) = 1
        /\ \A k \in DOMAIN result : \A e \in result[k].val : KeyOf(e) = result[k].key

\* "The value returned is the # of the reduce task where the key will be processed"
\* (partition_t, map_reduce.h): when the reduce workers are done, every key that
\* was put into a reduce task has been processed.
EveryKeyProcessed ==
    phase \in {"merge", "done"} =>
        \A m \in DOMAIN intermediate_vals : \A r \in ReduceTasks :
            pos[m][r] = Len(intermediate_vals[m][r])

\* The pool is made by the first call, the queue and its locks by each call for its
\* map threads, before any number of tasks is known; map lowers its number of threads,
\* env_init and the rounds that of the merge threads. So a call fails the assertion of
\* tpool_set only if it asks for more map or reduce threads than the map threads of the
\* first call and the caller, or with a queue for each task for so many merge threads;
\* and a worker is without a lock only if it asks for more reduce than map threads.
FailsOnlyIfShort ==
    \E p \in Programs : \E k \in DOMAIN p :
        LET most == p[1].num_map_threads + 1
        IN  /\ args = p[k] /\ calls = SubSeq(p, k + 1, Len(p))
            /\ fault = "assert" => \/ p[k].num_map_threads > most
                                   \/ p[k].num_reduce_threads > most
                                   \/ p[k].use_one_queue_per_task /\ p[k].num_merge_threads > most
            /\ fault = "lock" => p[k].num_reduce_threads > p[k].num_map_threads

\* Every call of map_reduce returns, unless the program fails.
Terminates == <>(phase = "finalized" \/ fault # "none")
=============================================================================
