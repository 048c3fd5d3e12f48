------------------------------ MODULE Keyvals ------------------------------
(***************************************************************************)
(* The key arrays of the Phoenix runtime (map_reduce.c): arrays of records *)
(* sorted by key, into which emit_intermediate and emit insert.  Arrays    *)
(* are sequences, indexed from 1 where the code indexes from 0; their      *)
(* capacity, which doubles when they are full, is left out.  Keys are      *)
(* integers.                                                               *)
(***************************************************************************)
EXTENDS Integers, SequencesExt

\* The binary search of both insertions: low when high - low > 1 fails.
BinarySearch(arr, key) ==
    LET low[p \in (0..Len(arr)) \X (-1..Len(arr))] ==
            LET h == p[1]  l == p[2]  next == (h + l) \div 2
            IN  IF h - l <= 1 THEN l
                ELSE IF arr[next + 1].key > key THEN low[<<next, l>>] ELSE low[<<h, next>>]
    IN  low[<<Len(arr), -1>>]

\* Mutant: the key found is taken to be greater.
SearchPosOffByOne(arr, key) ==
    IF BinarySearch(arr, key) < 0 THEN 1 ELSE BinarySearch(arr, key) + 1

\* Where an array whose last key is greater than key, or an empty one, takes it.
SearchPos(arr, key) ==
    LET low == IF BinarySearch(arr, key) < 0 THEN 0 ELSE BinarySearch(arr, key)
    IN  IF arr # <<>> /\ arr[low + 1].key < key THEN low + 2 ELSE low + 1

\* Every key has one entry, with the values of the key.
insert_keyval_merged(arr, key, val) ==
    LET pos == IF arr = <<>> \/ Last(arr).key > key THEN SearchPos(arr, key)
               ELSE IF Last(arr).key < key THEN Len(arr) + 1 ELSE Len(arr)
    IN  IF pos <= Len(arr) /\ arr[pos].key = key
          THEN [arr EXCEPT ![pos].vals = Append(@, val)]
          ELSE InsertAt(arr, pos, [key |-> key, vals |-> <<val>>])

\* Every value has an entry of its own; with one output array per reduce task
\* the entries come in the order of their keys and are appended.
insert_keyval(arr, key, val, oneOutputQueuePerReduceTask) ==
    LET pos == IF ~oneOutputQueuePerReduceTask /\ arr # <<>> /\ Last(arr).key > key
                 THEN SearchPos(arr, key) ELSE Len(arr) + 1
    IN  InsertAt(arr, pos, [key |-> key, val |-> val])

Sorted(arr)         == \A k, l \in DOMAIN arr : k < l => arr[k].key <= arr[l].key
StrictlySorted(arr) == \A k, l \in DOMAIN arr : k < l => arr[k].key < arr[l].key
=============================================================================
