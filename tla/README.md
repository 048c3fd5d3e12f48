# Verification of the Phoenix runtime of sim-legoos

The repository packages experiments that run LegoOS under the SimBricks simulator. The program the
experiments run, and the only one with logic of its own, is a modified **Phoenix 2.0** (MapReduce on
shared memory, `experiments/phoenix/phoenix-2.0`). This directory holds TLA+ models of its runtime,
TLC configurations that check them and TLAPS proofs. File names below are those of
`phoenix-2.0/src` unless a path is given.

## Inventory

| Part | State | Operations | Hard about it |
| --- | --- | --- | --- |
| Thread pool, `tpool.c` | function, arguments, `num_workers`, `num_workers_done`, `die`; a semaphore per thread and one for the caller | create, set, begin, wait, get_results, destroy; `thread_loop` in each thread | counts compared after the caller went on; freeing memory of detached threads |
| Task queue, `taskQ.c` (`queue.h`, `list.h`) | queues, free queues, a lock per queue | init, enqueue without lock, dequeue with stealing, finalize | emptiness concluded from one queue at a time |
| Job, `map_reduce.c` | environment, intermediate arrays per map worker and reduce task, final arrays, merge arrays | splitter, map, combiner, gather, reduce, emit, merge rounds | remainders of divisions, thread numbers that change between phases, order kept by construction |
| Key arrays, `map_reduce.c` | sorted arrays of keys | `insert_keyval_merged`, `insert_keyval` | binary search with hand-made corrections |
| Value iterator, `iterator.c` | lists of chunks of values | init, add, next, rewind, reset | a walk over two levels |
| Locks, `mcs.c`, `pt_mutex.c`, `synch.c` | queue of waiters | acquire, release | order of the two writes of a waiter |
| Processors, `processor.c`, `scheduler.c`, `locality.c` | tables | thread to processor | not injective for one policy |
| Applications, `tests/*` | input, accumulators | splitter, map, reduce, combiner; pthread versions | word borders, ownership of keys and values |
| kmeans, `tests/kmeans/kmeans.c` | points, clusters, means, `modified`, `next_point` | rounds of `map_reduce` | state kept from round to round, means in an array at first and on their own later, termination |
| Experiment scripts, images, build | none | | |

How they interact. `map_reduce` runs in the caller's thread. It fills the task queue with map tasks,
calls `start_workers`, which hands `num_threads - 1` workers to the pool (`tpool_set`, `tpool_begin`),
runs worker 0 itself and waits (`tpool_wait`, "Barrier, wait for all threads to finish"); the same for
reduce tasks, and once per merge round without a queue. A program calls `map_reduce` as often as it
likes between `map_reduce_init` and `map_reduce_finalize`, and all its calls share the pool the first
one created: `word_count.c` calls it twice, `kmeans.c` until no point changes its cluster. Workers share the queue (under its locks), the
counters of the pool (atomic increments and semaphores) and the arrays, where each writes rows of its
own. Nothing is sent over a network, nothing is persisted, and there are no timeouts: the hard
behaviour is interleaving, ordering and boundary arithmetic. The hazards are listed with their lines
in `PROJECT.json`.

What makes each part correct: the pool is a *barrier* (a batch is forked, each worker runs once, the
join waits for all); the queue is a *bag* (each task is taken once, and a worker that is told there is
no more work is told the truth); the job neither loses nor repeats a pair that map emits, hands all
values of a key to one call of reduce, and returns a sorted result, and a program that asks for no more
threads than its pool and its locks are for does not fail; insertion keeps arrays sorted. kmeans ends, with means and clusters that
fit each other, and frees each mean once.

## Modules

| Module | Models | Specification it implements |
| --- | --- | --- |
| `ForkJoin` | what `start_workers` wants of the pool (abstract) | |
| `TPool` | `tpool.c` and the caller's sequence of batches | `ForkJoin` (`ForkJoinSpec`) |
| `TaskBag` | what workers want of the task queue (abstract) | |
| `TaskQ` | `taskQ.c` with the loops of its users | `TaskBag` (`BagSpec`) |
| `List` | the links of the lists `TaskQ` takes for sequences (`list.h`) | |
| `Keyvals` | the two insertions as operators | |
| `MapReduce` | a program's calls of `map_reduce` | |
| `Distribute` | how `gen_map_tasks` makes map tasks and deals them to the queues | |
| `Iterator` | the values of a key, from `emit_intermediate` to reduce (`iterator.c`) | |
| `WordCount` | `tests/word_count/word_count-pthread.c` with `sort-pthread.c` | |
| `KMeans` | `tests/kmeans/kmeans.c` | |
| `Mutex` | what `TaskQ` wants of a lock (abstract) | |
| `MCSLock` | the lock of `mcs.c` | `Mutex` (`MutexSpec`) |
| `MCTPool`, `MCTaskQ`, `MCMapReduce`, `MCWordCount`, `MCKMeans` | instances for TLC | |
| `TPool_proofs`, `TaskQ_proofs` (with those of `List`), `MapReduce_proofs` (with those of `Keyvals`), `Distribute_proofs`, `Iterator_proofs`, `MCSLock_proofs`, `WordCount_proofs`, `KMeans_proofs` | theorems | |

The definitions named *Mutant* in comments are variants of the definition that follows them, with a
plausible bug; no specification uses them. They show that each property can fail.

### TPool

The variables are the fields of `tpool_t` and of `thread_arg_t`; `pc[t]` is the place of pool thread
`t` in `thread_loop` and `mpc` that of the caller. Each `sem_wait`, `sem_post`, `fetch_and_inc`, read
of `die` and read of `num_workers` is one action. `tpool_set` is a single action: the threads read the
function and its argument only after they are posted, and the one field others may read concurrently,
`num_workers`, is written once. Semaphores are counters. A batch is named by its position in the
caller's schedule, and function, arguments and results by their batch, which is all that `BarrierSafe`
distinguishes. `pthread_create` may fail (`CreateFails`); `sem_post` and `sem_wait` on valid
semaphores do not. After `freed`, a read returns any value and a post is lost. `ran` is a history
variable.

### TaskQ

Tasks come in rounds (map tasks, then reduce tasks). The caller appends a round to any queues (the
hint or `rand` chooses) without locks, starts any non-empty crew, joins it, and finalizes after the
last round. A dequeue picks a first queue, tries each queue in cyclic order under its lock, and moves
the entry it finds to the free queue. `list_remove_head` is two actions (`ReadHead`, `Unlink`), so
that mutual exclusion matters. `start_workers` is taken as the barrier `TPool` provides.

### List

`TaskQ` takes the circular lists of `list.h` for sequences. `List` has them as they are, two links for
each cell and a dummy cell for each list, in one memory, so that an operation on one list could damage
another. `Represents` says when the links of a list stand for a sequence; `Correct` and `Framed` say
that the operations do to that list what they do to the sequence, and nothing to the others. They are
operators, so that there is nothing to run; `MCTaskQ` has TLC evaluate both on small lists (as an
assumption), and the last section of `TaskQ_proofs` proves them for all.

### Keyvals and MapReduce

`Keyvals` has the insertions and their binary search as operators on sequences. `MapReduce` is the
whole job: `Init` is `env_init` and the creation of the pool, `NextCall` is `env_init` for a further
call, which finds the pool, and `map_reduce_finalize` destroys it; the caller splits, starts phases and rounds; each map worker takes a
task and emits its pairs one by one; each reduce worker takes a task and makes the turns of the
gathering loop (`Gather` is one turn up to the call of reduce: all the arrays it reads are written by
nobody else in this phase); reduce emits; each merge worker moves one entry per step. Tasks form a bag
and phases are joined, as `TaskBag` and `ForkJoin` promise. A program may ask for any numbers of
threads. Where `tpool_set` finds the pool too small for the phase or round that is to begin
(`PoolSuffices`), its assertion ends the program (`tpool_set_fails`); where a worker would take a lock the
queue does not have (`HasLock`), what follows is undefined (`NoLock`). `fault` says which of the two
happened, and the module has no step after it. Values are sets of emissions, so that a
lost, repeated or misplaced pair shows, and reduce and combiner unite them.

### Distribute

`MapReduce` takes the tasks for a bag, and `TaskQ` lets the caller append to any queue. `Distribute` has
`gen_map_tasks` itself: the splitter fills `q` (`temp_queue`) with tasks, intervals of the units of the
input, and the tasks go from there to `queues`. `splitter` is `"array"` for the one of the library,
`"own"` for a program's, which may take any number of units, `"located"` for one with a locator. On Linux
there is one locality group, so that all located tasks go to queue 0; the others are dealt out group by
group, each pass of the loop being an action (`NextGroup`, `Move`). Nothing runs concurrently, and the
enqueueing cannot fail, since `mem_malloc` asserts. The parameters of a job are any natural numbers, and
the module has no run: its properties are proved for all of them. An empty input ends in `"aborted"`, the failed
assertion of `map`.

### Iterator

`MapReduce` takes the values of a key for a sequence; this module has the chains of chunks they are
kept in. `emit_intermediate` of any map worker for any key adds a value to a list, opening a chunk of
twice the size when the first one is full, or collapsing it when the library is built with the
incremental combiner; `FinishMap` runs the ordinary combiner. Then one reduce worker takes the keys in
order: it gathers the lists, `reduce` calls `iter_next` as often as it likes, and the chunks are freed
through the same iterator. Lists of map workers are private until then, so that they need no
interleaving. `itr` has the fields of `iterator_t`; a pointer to a chunk is the owner of its list and
its place in the chain.

### WordCount

The program of the pthread version from the mapped file on: sections, a thread for each, rounds of
pairwise merges, rounds of sorts. `data` is the mapped file, byte by byte, because the threads share
it: words are not copied, tables point into it, and the 0 that ends the last word of a section is
written to the first byte of the next. The splitter runs while the first threads already write. A
turn of the loop of `wordcount_map` is one action, as is one of `merge_sections`; the insertion into
the table of the thread is part of its turn. `qsort` is the choice of any sorted permutation. The
reference (`WordStarts`, `FileWord`) says where the sequential version finds words, without a state
machine.

### KMeans

The loop of `main`. A call of `map_reduce` is what `MapReduce` says it is: the splitter makes tasks, a
map task (one step, since tasks write to points of their own and set a flag that nobody clears
meanwhile) puts its points into the clusters of the nearest means, the reduce of a cluster allocates
the new mean, and the results are copied to the means in the order of their keys. `heap` is the memory
means live in: the array of the first ones, which can only be freed by its first element, and a block
for each mean computed later. A use of memory that is not allocated goes to phase `undefined`.
`unfilled` is a history variable. The first means and the points are chosen by `rand` in the code and
freely here.

### MCSLock

`head` is the lock, `next` and `locked` the fields of the workers' records, `prev` the local variable
of `mcs_acquire`. Each access to memory that another worker can see is an action; `line` is a history
variable, the workers in the order of their exchanges. Steps are sequentially consistent, which is
what the code gets on x86-64, for which `atomic.h` is written: the stores of a processor become
visible in program order, the exchange and the compare-and-swap drain the store buffer, and a worker
that got the lock by spinning was linked before, so that no store to a record is still buffered when
it reads its own record in `mcs_release`. The library selects this lock with `MR_LOCK_MCS` and a pthread mutex by default;
`TaskQ` models neither, only a lock that one worker holds at a time, as `Mutex` says.

## What is checked

| Run | Instance | Shows |
| --- | --- | --- |
| `tpool` | 3 threads, 5 schedules up to 6 batches, 10228 states | barrier, no signal left over, orderly destruction, both waits return, refinement of `ForkJoin` |
| `tpool_shrinking` | 4 threads, batches 3, 3, 1, 0 | **violated** `BarrierSafe` (finding 1) |
| `tpool_destroy` | 2 threads, one batch | **violated** `FreedAfterLastUse` (finding 2) |
| `taskq` | 3 queues, 2 workers, rounds of 2 tasks and 1 task, 103867 states | each entry at one place, every task run once, truthful giving up, termination, refinement of `TaskBag` |
| `map_reduce` | 8 programs of up to 2 calls, up to 3 threads, 3 keys, 6 emissions, 143943 states | each pair at one place in every phase, complete gathering, sorted arrays, correct result, failure only in calls that ask for too many threads, termination |
| `mcs_lock` | 3 workers that come back without end, 5692 states | a mutex, served in order of arrival, the assertion `locked == 0`, everyone in line enters |
| `iterator` | 2 map workers, 2 keys, up to 7 values each, first chunks of 2 (10 in the code), 3 kinds of combiner, 662016 states | the iterator points to chunks that live, reduce gets each value once and as many as `iter_size` says, all chunks are freed, also when reduce stops early |
| `word_count` | all files of 6 bytes of letters and blanks on 3 processors and of 5 bytes on 2, some others with 1, 2, 3 and 5, 12768 states | words in tables stay intact, tables stay sorted and have room, no count is lost in any round, the result is sorted, termination |
| `word_count_remainder` | all files of 5 bytes on 3 processors | **violated** `EveryWordCounted` (finding 5) |
| `kmeans` | 2 clusters, all choices of 4 points and the first means on a line of 3, tasks of 3 points, 128757 states | means and clusters fit at the end, and the means are freed properly exactly if both clusters got a point in the first round |
| `kmeans_cycle` | 4 points and 2 means in 4 dimensions | **violated** `Terminates` (finding 4) |
| `fewer_reducers` | 3 map threads, 2 reduce threads, 3 reduce tasks | **violated** `EveryKeyProcessed` (finding 3) |

**Bounds.** Three threads are the fewest for which two finish out of order while a third is being
posted; the schedules include empty, growing and full batches and a repeated job. Three queues are the
fewest where the cycle has a middle, and two workers suffice for every pair of steps to interleave.
The nine calls of `map_reduce` cover one and two merge rounds, slices with a remainder, fewer map
tasks than threads, combiner and identity reduce, both output layouts, a key in two map tasks, two
keys in one reduce task, calls that find a pool with more threads than they ask for or, with the caller, as many, and
calls that find one with too few for their map, reduce or merge threads (and one with three map
threads but two map tasks, which needs only two); one has a reduce worker without a lock. Seven values fill chunks of 2 and 4 and open a third, so that
a chain has a middle, and two lists and two keys are what the iterator can confuse. Files of six bytes
on three processors have sections that end at, before and after their nominal end, and empty ones;
five processors are the fewest with two merges in one round and a table without a partner in two
rounds. Three workers are the fewest for a line with a middle: one inside, one linked, one
between its exchange and its link. In kmeans the last of two tasks is shorter, a cluster can be
empty at first, for ever or in some round, and up to four rounds happen. The number of reduce tasks is a parameter: 256 and 32768 in the code, 2 to 5
here, since the properties only depend on its remainders.

**Fairness.** Weak fairness of the caller and of each thread: the operating system schedules a thread
that can run. Semaphores have one waiter each, so a post is not stolen; a mutex may be taken by
others again and again, and nothing stronger is assumed of it, since each worker takes a queue's lock
finitely often. In `MCSLock` a worker that has begun to acquire goes on and leaves its critical section,
which is what the loop of `TaskQ` does, but need not come back. In `Iterator` reduce returns at the latest when it has seen all values.

## Findings

1. **The barrier can open early** (`tpool.c:265`). A thread takes its count and reads `num_workers`
   in two steps. If it was not the last of its batch, the caller may have set the next batch in
   between; when that batch is smaller and as large as the old count, the thread posts its end. The
   sizes 3, 3, 1, 0 are what the library asks for by default (`proc_get_num_cpus` returns 4).
2. **The pool is freed under a dying thread** (`tpool.c:274`): the same two steps in the exit path,
   where the second reads memory that `tpool_destroy` frees once the last thread has counted.
3. **Reduce tasks can be forgotten** (`map_reduce.c:1289`): the remainder is taken from
   `num_map_threads`. With fewer reduce than map threads the last tasks may not be queued.
4. **kmeans need not end** (`kmeans.c:349`). The means are truncated to integers, so that a round need
   not bring the points nearer to their means, and the loop goes on while a point changes its cluster.
   In the run, with four points of four coordinates 0 and 1, the first round puts points 1, 2 and 4 into
   cluster 2. In the second these are as near to the mean of cluster 1, (1,0,1,1), as to that of
   cluster 2, (0,1,0,0), so that all points go to the first; the second is empty and keeps its mean,
   and the third round is like the first. So it goes on, cluster 2 being empty in every even round.
5. **The pthread version of word_count can lose the last words** (`word_count-pthread.c:154`). Each
   section has `flen / num_procs` bytes and the rest of a word; nobody has the remainder of the
   division. On three processors a file of a blank and a letter loses its word already, since each section
   has 0 bytes and goes to the next blank, which is the first byte; the run has files of 5 bytes.

Three more facts are stated by properties that hold, with the condition they need in view. The first two
are the failures `FailsOnlyIfShort` is about; programs that fail either way are in the run `map_reduce`.
*The pool can be too small* (`map_reduce.c:277`, `tpool.c:145`): it is sized by the `num_map_threads` of
the first call, although `map_reduce.h` lets a program choose the numbers of map, reduce and merge
threads of each call separately, and the number of processors stands for map or reduce threads that it
does not choose. A phase or round with more than one thread above the size of the pool fails the assertion of `tpool_set`, as does a
call of one map thread and three reduce threads. *Reduce workers can lack a lock* (`map_reduce.c:267`,
`taskQ.c:387`): a queue has `num_map_threads` locks, and a reduce worker whose number is not below that
reads behind `per_thread[]`; a pool of as many threads lets one such worker start, as with two map
threads and three reduce threads, and a later call with fewer map threads more of them. `FailsOnlyIfShort`
says what numbers a call must ask for to fail in the one way or the other, and that there is no other
cause. The programs in the repository ask for as many reduce as map threads, the same in
every call, and meet neither. *kmeans frees
its means improperly if a cluster gets no point in the first round*: its mean stays in the middle of
the array of the first means (or is that array), and is freed on its own in a later round
(`kmeans.c:445`) or at the end (l.477), which is no valid call of `free`, or frees the array twice
(l.480). `FreesValid` says that this happens then and only then.

## What is proved

All theorems are checked by TLAPS for every value of the constants.

* **TPool** (`TPool_proofs`), assuming `AllGrowing`, that no batch is smaller than a non-empty one
  before it, which finding 1 shows to be needed: `TypeCorrect`, `Barrier` (`BarrierSafe`),
  `Quiescence` (`QuietBetweenBatches`), `Joins` (`DestroyJoins`) and `Refinement` (`ForkJoinSpec`). The
  barrier is not inductive.
  The invariant adds that in an active batch the counter is the number of workers that have run and
  counted themselves (`CountInv`), that a thread has a post exactly while it is due to run
  (`Progress`), and that there is at most one signal (a post, or a thread about to post), and only once
  the counter is complete (`SignalInv`); and that a thread still holding the count of an earlier batch
  holds one that is smaller than every later non-empty batch (`Spent`), which is where `AllGrowing`
  enters. `Joins` adds (`JoinInv`) that while the pool is destroyed the counter is the number of threads
  that have left the loop, so that a stale count, being smaller than the number of threads, signals nothing.
* **TaskQ** (`TaskQ_proofs`), without further assumptions: `TypeCorrect`, `TasksRan`
  (`EveryTaskRan`), `GiveUp` (`NoWorkLeftBehind`), `NoneLost` (`EachEntryOnce`) and `Refinement`
  (`BagSpec`). The invariant says
  that a worker inside the critical section holds the lock, that the head it read is still the head,
  that each queued task is at one place (in one position of one queue, in one hand, or executed), and
  that the queues a worker has already tried in this cycle stay empty, since nobody enqueues while
  workers run. The last part is why a conclusion from one queue at a time is right. `NoneLost` adds
  (`FreeInv`) that the free queues hold the executed tasks and those on their way, each once.
* **MCSLock** (`MCSLock_proofs`), for every set of workers: `TypeCorrect`, `Cleared` (`FlagCleared`),
  `Order` (`FirstComeFirstServed`) and `Refinement` (`MutexSpec`). The invariant describes the line:
  each worker between its exchange and its departure is in it once and `head` is its last (`LineInv`);
  the first owns the lock or has been handed it, the others have their predecessor in `prev` and, once
  they spin, a flag that is set (`OrderInv`); a record points to its successor exactly when that one
  spins (`NextInv`), and flags are clear outside (`FlagInv`). Mutual exclusion follows, since owners
  are first in line.
* **Iterator** (`Iterator_proofs`), for any number of map workers, keys and values, each kind of
  combiner and a first chunk of 2 or more: `TypeCorrect`, `NoDangling` (`PointerValid`), `NoLeak`
  (`AllFreed`), `NoOverrun` (`ChunksFit`) and `WalkOnce` (`WalkComplete`). The invariant says that a
  list has chunks exactly if it has values (`ListsInv`), which is why gathering by `len` and freeing by chunk agree; that every list
  of the key that still has chunks is in the iterator at `current_list` or later (`GatherInv`); and that
  the pointer is in a chunk of the current list (`PointerInv`). A first chunk of 1 would not do: the
  combined value would fill it again. `WalkOnce` adds three parts. `StoreInv`: the chunks of a list hold
  each emission of its worker for the key in one place, and its `len` counts their values. That
  is why a combiner in between changes nothing. `OrderInv`: the iterator has no list twice, since they are
  gathered in the order of the workers, and its `size` is the sum of their lengths. `WalkInv`: what
  reduce has got are the values of the places that the iterator has passed, each once, and their number is
  that of the lists and chunks behind it plus `current_index`. The sums are functions with a value
  for every prefix, so that a step adds one equation and no induction is needed.
* **Distribute** (`Distribute_proofs`), for every input, chunk size and number of threads:
  `TypeCorrect`, `PlacedOnce` (`EachUnitOnce`) and `EvenlySpread` (`Spread`), none of which a run checks. The invariant balances the
  account (`CountInv`): the tasks left in `q` are exactly those that the groups from `lgrp` on have yet to
  get. So a group whose share is 0 finds `q` empty, which is why the loop may test its counter late and why
  the second `break` is never taken. `OrderInv` says that tasks leave `q` in the order of their numbers,
  `UnitInv` that a unit already split off is in one place of `q` or of the queues.
* **List** (`TaskQ_proofs`, last section), for any cells and lists of any length: `ListOperations` and `OtherLists`,
  the two properties above. Both rest on lemmas that say which cells the links of a list lead to.
* **KMeans** (`KMeans_proofs`), for all inputs and parameters: `Settling` (`MeansSettled`), `Freeing`
  (`FreesValid`) and `TypeCorrect` (`TypeOK`). For the first the invariant says phase by phase what is known: a point whose task is
  done is in the cluster of its nearest mean and was emitted once, to that cluster; and while the flag
  is clear the means in use are those of the clusters, so that a round without a change computes the
  same means again. For the second it accounts for the memory: while no cluster was left out, the heap
  is the array and exactly the blocks that are still to be freed, each owned once (`Kept`); after a
  cluster was left out, either the array is gone or some mean still points into it (`Lost`), so that
  the program cannot end. The type of the means is a fact about sums: a coordinate of a mean is the sum
  of `count[p] * points[p][d]` by the sum of `count[p]`, the first is at most `GridSize - 1` times the
  second, and the second is positive since reduce is called only for a key with a value. `SumBounded`
  says so for every finite domain; the recursion behind `SumFunction` is shown to have a value by
  induction on cardinality.
* **WordCount** (`WordCount_proofs`), for all files, numbers of processors and array sizes: `TypeCorrect`
  (`TypeOK`), `Intact` (`WordsIntact`), `Tables` (`TablesOK`), `TopWords` (`TopWordsFirst`) and, without a
  name in a run, `CountedToFpos`: in every round the tables count exactly the words before the place
  where the splitter stopped, whatever the sizes. `WordsCounted` (`EveryWordCounted`) adds that this is all
  words if the division of the size by the processors leaves at most 1 (`LittleLeft`), so always with one
  or two processors; finding 5 is a file with 2 left over on 3. The inductive invariant is `IInv`. Its `DataInv`
  says that a byte of the mapping is that of the file, in lower or upper case, or a 0 where no word is.
  `Reading` says that a section begins and ends where no word goes on, so that the 0 on the first byte
  of the next section harms nobody, and that the word a thread is in is upper case up to where it
  is. `TablesInv` says that tables hold words that are ended, in order and each once, and `Merging` that what is
  merged is before what is left. The insertion rests on `Search` finding the place in every table in
  order, which goes by induction on the distance of the borders. `CountInv` says which words each table
  counts: there are borders, those of the sections and then of the parts whose tables were merged, such
  that the table of a part, or the two that are being merged, count the words between its borders;
  a round of merges takes every other border. `LiveTotals` adds these up along `FlattenSeq`. `FposInv` says how far
  the sections reach, and `SortInv` that the last round of sorts is one thread with the whole table.
* **Keyvals** (`MapReduce_proofs`, first section), for every sorted array and every key: `SearchPosition`, that the
  binary search, in an array whose last key is greater, finds a place before which no key is greater and
  from which on none is less, and the record of the key if the array has each key once;
  `InsertMerged`, that `insert_keyval_merged` keeps the array strictly sorted, puts the value last in
  the record of its key and leaves every other record as it was; `InsertSorted`, that `insert_keyval`
  keeps the array sorted and puts in one record, also where it appends without a look at the keys, as
  long as no key in the array is greater. The search is a recursive function. That it has a value at
  every pair of borders, and what the value is, goes by induction on the distance of the borders, with
  the order of `Nat` in place of a predicate (`Induction`).
* **MapReduce** (`MapReduce_proofs`): `SlicesPartition`, that the slices of a merge round partition its
  arrays, for every number of arrays and at most half as many threads; `AllReduceTasksQueued`, that no
  more map than reduce threads is a condition under which finding 3 does not occur. For every program,
  also those that fail, `JobFailsOnlyIfShort` (`FailsOnlyIfShort`), `JobTypeCorrect`
  (`TypeOK`), `JobGathersAll` (`GatherComplete`) and `JobArraysSorted` (`ArraysSorted`).
  And for every program whose calls have as many reduce as map threads or a number of reduce tasks
  that the reduce threads divide (`EnoughReducers`), which finding 3 shows to be needed:
  `JobProcessesEveryKey` (`EveryKeyProcessed`), `JobEmissionOnce` (`EmissionOnce`) and
  `JobResultCorrect` (`ResultCorrect`). The programs of the run `map_reduce` are of that kind, the one
  of `fewer_reducers` is not.

  `JobFailsOnlyIfShort` rests on `FaultInv`: the program is at one of its calls (`Running`), its pool is that
  of the first, no phase has more workers than its call asks for or `env_init` settled on, and
  after a fault the call asked for too many. It needs `IInv`, for the number of a worker without a
  lock and because a further merge round has no more threads than the one before, so that only the first
  can fail (`AssertsShort`).

  The invariant of the others comes in layers, each proved with those before it. `IInv` says where a worker of which
  number may be in which phase, and `TInv` that arrays, positions and what a worker holds are of their
  type and that no two workers hold the same task; type correctness is not to be had without it, because a
  position stays inside its array only as long as one worker moves it. `MapInv` follows an emission through
  the map phase: it is in a task that is not begun, in the list of one worker, or stored, and never in
  two of these; stored, it is under its key, in the row of that key. `ReduceInv` does so through the reduce
  phase. What is left of the arrays of a task is behind the key its worker is at (`Progress`), so that
  a key of which a result was emitted is past for good (`Emitted`); that is why no key gets a second
  result, why a result is appended in order where there is one array for each task, and why the
  gathering loop may stop at the least of the keys it saw. `Somewhere` says that nothing is dropped between
  the arrays, the iterator and the results, and `AllRead` that a task that is not queued and that nobody
  has was read to the end. In the merge phase `Ordered` says that what a worker has merged is not above what it
  has left, `SlicesDone` that it left nothing when it returned, and `Merging` and `AllMerged` that a step
  moves one record and changes none. Only the last layer needs `EnoughReducers`: with too few reduce
  threads every conjunct holds but the one that says that all tasks were in the queue.

**Only model-checked**: liveness (`EveryWaitReturns`, `EveryThreadEnds`, `Drained`, `Terminates`,
`EveryWaiterEnters`, and that of `Iterator` and `WordCount`), which TLAPS does not do. Every invariant and
refinement that a passing run checks is proved.

## Not modelled

Allocation failures (the wrappers assert success, so the error paths are dead); timing code; processor
binding (`proc_bind_thread` returns before it binds), locality beyond the one group of Linux; `tq_enqueue`, which has no caller; Solaris variants. What
`emit_intermediate` does in a thread the runtime did not start is undefined in the code and left out.
Scripts, images and build files have no state.

The other applications (`histogram`, `linear_regression`, `string_match`, `matrix_multiply`, `pca`) make
one or two calls of `map_reduce` without state between them; what is left of them is a splitter like
those of `WordCount` and `KMeans`, and arithmetic. The version of word_count on Phoenix finds the borders
of its sections as the pthread version does, and its map and reduce are those of `MapReduce`.

## Plan

Done: `TPool`, `TaskQ`, `List`, `Keyvals`, `MapReduce` with sequences of calls, `Distribute`, `Iterator`, `MCSLock`,
`WordCount` and `KMeans`, with their abstract specifications and proofs. Left:

1. The pthread version of kmeans, and the splitters of the other applications.
