------------------------------ MODULE Iterator ------------------------------
(***************************************************************************)
(* The values of a key in the Phoenix runtime, from emit_intermediate to   *)
(* the reduce function.  Each map worker has a list for a key (keyvals_t,  *)
(* struct.h): a chain of chunks, each twice the size of the one before,    *)
(* the newest at the front (map_reduce.c).  A reduce worker hands the      *)
(* lists of all map workers to reduce as one iterator (iterator.c), frees  *)
(* the chunks and uses the same iterator for its next key.                 *)
(*                                                                         *)
(* A value is a set of emissions, which a combiner unites.  What allocates *)
(* or writes on which worker's time is the matter of MapReduce: here the   *)
(* lists are private, then read by one worker.                             *)
(***************************************************************************)
EXTENDS Integers, Sequences

CONSTANTS NumThreads, NumKeys,    \* map workers and keys
          DEFAULT_VALS_ARR_LEN,
          MaxValues,              \* emissions of one map worker for one key
          NULL

Threads == 1..NumThreads
Keys    == 1..NumKeys

ASSUME ConstantsAssumption == /\ NumThreads \in Nat \ {0} /\ NumKeys \in Nat \ {0}
                              /\ DEFAULT_VALS_ARR_LEN \in Nat \ {0, 1} /\ MaxValues \in Nat

ASSUME NullAssumption == NULL \notin [thread : Threads, place : Nat \ {0}]

VARIABLES
    combiner,      \* "none", "after_map", or "incremental" (INCREMENTAL_COMBINER)
    lists,         \* keyvals_t of each map worker and key
    emitted,       \* (history) how often each worker has emitted each key
    phase, key,    \* the place in the reduce worker, min_key_val
    turn,          \* the next map worker in the loop that gathers the lists
    itr,           \* iterator_t
    got, ended    \* what reduce has got for the key, and whether iter_next returned 0

map == <<combiner, emitted>>
reduce == <<phase, key, turn, got, ended>>
vars == <<map, lists, reduce, itr>>

\* A pointer to a chunk: the worker whose list it is in, and the place in the chain.
Chunk(p) == lists[p.thread][key].vals[p.place]
First(t) == [thread |-> t, place |-> 1]

-----------------------------------------------------------------------------
NoList == [len |-> 0, vals |-> <<>>]
iter_init == [list_array |-> <<>>, current_list |-> 0, current_index |-> 0, val |-> NULL,
              size |-> 0]

Init == /\ combiner \in {"none", "after_map", "incremental"}
        /\ lists = [t \in Threads |-> [k \in Keys |-> NoList]]
        /\ emitted = [t \in Threads |-> [k \in Keys |-> 0]]
        /\ phase = "map" /\ key = 1 /\ turn = 1
        /\ itr = iter_init
        /\ got = <<>> /\ ended = FALSE

-----------------------------------------------------------------------------
(* insert_keyval_merged, run_combiner *)

Combined(list) ==
    {e \in Threads \X (1..MaxValues) :
        \E c \in DOMAIN list.vals : \E n \in DOMAIN list.vals[c].array :
            e \in list.vals[c].array[n]}

\* Mutant: a chunk takes one value more than it has room for.
FullOffByOne(chunk) == Len(chunk.array) > chunk.size

Full(chunk) == Len(chunk.array) >= chunk.size

NewChunk(vals) == <<[size |-> 2 * Head(vals).size, array |-> <<>>]>> \o vals

\* The list with room in its first chunk.
WithRoom(list) ==
    IF list.vals = <<>>
      THEN [list EXCEPT !.vals = <<[size |-> DEFAULT_VALS_ARR_LEN, array |-> <<>>]>>]
    ELSE IF ~Full(Head(list.vals)) THEN list
    ELSE IF combiner = "incremental"
      THEN [len |-> 1, vals |-> [list.vals EXCEPT ![1].array = <<Combined(list)>>]]
    ELSE [list EXCEPT !.vals = NewChunk(@)]

Inserted(list, val) ==
    LET room == WithRoom(list)
    IN  [len |-> room.len + 1, vals |-> [room.vals EXCEPT ![1].array = Append(@, val)]]

emit_intermediate(t, k) ==
    /\ phase = "map" /\ emitted[t][k] < MaxValues
    /\ emitted' = [emitted EXCEPT ![t][k] = @ + 1]
    /\ lists' = [lists EXCEPT ![t][k] = Inserted(@, {<<t, emitted'[t][k]>>})]
    /\ UNCHANGED <<combiner, reduce, itr>>

run_combiner(list) ==
    [len |-> 1, vals |-> <<[size |-> Head(list.vals).size, array |-> <<Combined(list)>>]>>]

FinishMap ==
    /\ phase = "map" /\ phase' = "gather"
    /\ lists' = [t \in Threads |-> [k \in Keys |->
                    IF combiner = "after_map" /\ lists[t][k].len > 0
                      THEN run_combiner(lists[t][k]) ELSE lists[t][k]]]
    /\ UNCHANGED <<map, key, turn, got, ended, itr>>

-----------------------------------------------------------------------------
(* reduce_worker_do_next_task, iter_add *)

iter_add(t) ==
    [itr EXCEPT !.list_array = Append(@, t),
                !.val = IF itr.list_array = <<>> THEN First(t) ELSE @,
                !.size = @ + lists[t][key].len]

\* A key that nobody has emitted is not reduced.
Gather ==
    /\ phase = "gather" /\ turn \in Threads
    /\ itr' = IF lists[turn][key].len > 0 THEN iter_add(turn) ELSE itr
    /\ turn' = turn + 1
    /\ UNCHANGED <<map, lists, phase, key, got, ended>>

\* Mutant: the end of the keys is not seen.
NextKeyNoEnd == /\ turn' = 1
                /\ got' = <<>> /\ ended' = FALSE
                /\ phase' = "gather" /\ key' = key + 1

\* The turn of a key ends with "any elements left".
NextKey == /\ turn' = 1
           /\ got' = <<>> /\ ended' = FALSE
           /\ IF key + 1 \in Keys THEN phase' = "gather" /\ key' = key + 1
                                  ELSE phase' = "done" /\ key' = key

Gathered ==
    /\ phase = "gather" /\ turn \notin Threads
    /\ IF itr.list_array # <<>> THEN phase' = "reduce" /\ UNCHANGED <<key, turn, got, ended>>
                                ELSE NextKey
    /\ UNCHANGED <<map, lists, itr>>

-----------------------------------------------------------------------------
(* iter_next, called by reduce *)

Value(it) == Chunk(it.val).array[it.current_index + 1]

Take(it) == /\ got' = Append(got, Value(it))
            /\ itr' = [it EXCEPT !.current_index = @ + 1]
            /\ UNCHANGED ended

ChunkLeft == itr.current_index < Len(Chunk(itr.val).array)
NextPlace == itr.val.place + 1
ChainLeft == NextPlace \in DOMAIN lists[itr.val.thread][key].vals

\* Mutant: the iterator stops before the last list.
ListLeftOffByOne == itr.current_list + 2 < Len(itr.list_array)

ListLeft == itr.current_list + 1 < Len(itr.list_array)

NextChunk == [itr EXCEPT !.val = [thread |-> itr.val.thread, place |-> NextPlace],
                         !.current_index = 0]

NextList == [itr EXCEPT !.current_list = @ + 1, !.current_index = 0,
                        !.val = First(itr.list_array[itr.current_list + 2])]

\* A call after the end changes nothing.
iter_next ==
    /\ phase = "reduce" /\ ~ended
    /\ \/ ChunkLeft /\ Take(itr)
       \/ ~ChunkLeft /\ ChainLeft /\ Take(NextChunk)
       \/ ~ChunkLeft /\ ~ChainLeft /\ ListLeft /\ Take(NextList)
       \/ ~ChunkLeft /\ ~ChainLeft /\ ~ListLeft /\ ended' = TRUE /\ UNCHANGED <<got, itr>>
    /\ UNCHANGED <<map, lists, phase, key, turn>>

-----------------------------------------------------------------------------
(* reduce_worker_do_next_task after reduce: iter_rewind, iter_next_list, iter_reset *)

\* Mutant: the iterator is not rewound.
iter_rewind_not == itr

iter_rewind == [itr EXCEPT !.current_list = 0, !.current_index = 0,
                           !.val = First(itr.list_array[1])]

\* Mutant: the lists stay in the iterator.
iter_reset_keeping == [iter_init EXCEPT !.list_array = itr.list_array]

iter_reset == iter_init

\* Mutant: the same list is returned again.
iter_next_list_again == itr

iter_next_list == [itr EXCEPT !.current_list = @ + 1]

\* reduce returns, whether or not it has seen all values.
Reduced ==
    /\ phase = "reduce" /\ phase' = "free"
    /\ itr' = iter_rewind
    /\ UNCHANGED <<map, lists, key, turn, got, ended>>

FreeList ==
    /\ phase = "free" /\ itr.current_list < Len(itr.list_array)
    /\ lists' = [lists EXCEPT ![itr.list_array[itr.current_list + 1]][key].vals = <<>>]
    /\ itr' = iter_next_list
    /\ UNCHANGED <<map, reduce>>

Freed ==
    /\ phase = "free" /\ itr.current_list >= Len(itr.list_array)
    /\ itr' = iter_reset
    /\ NextKey
    /\ UNCHANGED <<map, lists>>

-----------------------------------------------------------------------------
Finished == phase = "done" /\ UNCHANGED vars

Worker == FinishMap \/ Gather \/ Gathered \/ iter_next \/ Reduced \/ FreeList \/ Freed

Next == \/ \E t \in Threads, k \in Keys : emit_intermediate(t, k)
        \/ Worker \/ Finished

Spec == Init /\ [][Next]_vars

\* Map workers have finitely many values to emit, and reduce returns when it has
\* seen all values (as the loops on iter_next do) or before.
FairSpec == Spec /\ WF_vars(Worker)

-----------------------------------------------------------------------------
(* Properties. *)

val_t == [size : Nat \ {0}, array : Seq(SUBSET (Threads \X (1..MaxValues)))]
keyvals_t == [len : Nat, vals : Seq(val_t)]

TypeOK ==
    /\ combiner \in {"none", "after_map", "incremental"}
    /\ lists \in [Threads -> [Keys -> keyvals_t]]
    /\ emitted \in [Threads -> [Keys -> 0..MaxValues]]
    /\ phase \in {"map", "gather", "reduce", "free", "done"}
    /\ key \in Keys /\ turn \in 1..(NumThreads + 1)
    /\ itr \in [list_array : Seq(Threads), current_list : Nat, current_index : Nat,
                val : [thread : Threads, place : Nat \ {0}] \cup {NULL}, size : Nat]

\* While reduce has the iterator it points into a chunk of its current list that
\* has not been freed, and never behind the values written there.
PointerValid ==
    phase = "reduce" =>
        /\ itr.val # NULL /\ itr.val.thread = itr.list_array[itr.current_list + 1]
        /\ itr.val.place \in DOMAIN lists[itr.val.thread][key].vals
        /\ itr.current_index <= Len(Chunk(itr.val).array)

\* Reduce gets no emission twice, none of another key, and has got them all when
\* iter_next returns 0; "assert (i == vals_len)" (kmeans.c): iter_size is the
\* number of values it got.
Emissions == {e \in Threads \X (1..MaxValues) : e[2] <= emitted[e[1]][key]}
Values == {got[n] : n \in DOMAIN got}
WalkComplete ==
    phase = "reduce" =>
        /\ \A k, l \in DOMAIN got : k # l => got[k] \cap got[l] = {}
        /\ UNION Values \subseteq Emissions
        /\ ended => UNION Values = Emissions /\ Len(got) = itr.size

\* The chunks of a key are freed, all of them, once it is reduced, also when
\* reduce has not seen all values.
AllFreed ==
    \A t \in Threads, k \in Keys :
        k < key \/ phase = "done" => lists[t][k].vals = <<>>

\* No chunk is written behind its end, and a list knows how many values it has.
ChunksFit ==
    phase \in {"map", "gather", "reduce"} => \A t \in Threads, k \in Keys :
        LET vals == lists[t][k].vals
        IN  /\ \A c \in DOMAIN vals : Len(vals[c].array) \in 1..vals[c].size
            /\ \A c \in DOMAIN vals : c > 1 => Full(vals[c])

\* The worker reaches the end of its task.
Terminates == <>(phase = "done")
=============================================================================
