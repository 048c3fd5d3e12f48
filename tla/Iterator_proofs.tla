---------------------------- MODULE Iterator_proofs ----------------------------
(***************************************************************************)
(* Proofs about Iterator for every number of map workers, keys and values, *)
(* every size of the first chunk above 1 and each kind of combiner: chunks *)
(* are never overrun, the iterator never points to a chunk that is freed   *)
(* or behind its values, no chunk of a reduced key is left, and reduce     *)
(* gets every emission of its key once.                                    *)
(***************************************************************************)
EXTENDS Iterator, TLAPS

-----------------------------------------------------------------------------
(* The inductive invariant. *)

\* Chunks have room for two values at least, have one, and are full behind the first.
GoodVals(vals) ==
    \A c \in DOMAIN vals : /\ vals[c].size >= 2
                           /\ Len(vals[c].array) \in 1..vals[c].size
                           /\ c > 1 => Len(vals[c].array) >= vals[c].size

ChunksInv == \A t \in Threads, k \in Keys : GoodVals(lists[t][k].vals)

\* The lists that have not been freed have chunks if and only if they have values.
Kept(k) == \/ phase \in {"map", "gather", "reduce"} /\ k >= key
           \/ phase = "free" /\ k > key
ListsInv == \A t \in Threads, k \in Keys :
                Kept(k) => (lists[t][k].len > 0 <=> lists[t][k].vals # <<>>)

\* The iterator has the lists of the key from current_list on that are to be freed,
\* as far as they have been gathered.
InIterator(t, n) == \E l \in (n + 1)..Len(itr.list_array) : itr.list_array[l] = t
GatherInv ==
    /\ phase = "map" => key = 1 /\ turn = 1
    /\ phase \in {"map", "done"} \/ (phase = "gather" /\ itr.list_array = <<>>) => itr = iter_init
    /\ phase = "gather" => \A t \in 1..(turn - 1) : lists[t][key].vals # <<>> => InIterator(t, 0)
    /\ phase = "reduce" => \A t \in Threads : lists[t][key].vals # <<>> => InIterator(t, 0)
    /\ phase = "free" => \A t \in Threads :
                            lists[t][key].vals # <<>> => InIterator(t, itr.current_list)

\* The lists in the iterator have chunks, and it points into the current one.
PointerInv ==
    phase \in {"gather", "reduce"} =>
        /\ \A l \in 1..Len(itr.list_array) : lists[itr.list_array[l]][key].vals # <<>>
        /\ phase = "gather" => itr.current_list = 0 /\ itr.current_index = 0
        /\ phase = "reduce" => itr.list_array # <<>>
        /\ itr.list_array # <<>> =>
              /\ itr.current_list < Len(itr.list_array)
              /\ itr.val \in [thread : Threads, place : Nat \ {0}]
              /\ itr.val.thread = itr.list_array[itr.current_list + 1]
              /\ itr.val.place \in DOMAIN lists[itr.val.thread][key].vals
              /\ itr.current_index <= Len(Chunk(itr.val).array)

Done == phase = "done" => key = NumKeys

IInv == TypeOK /\ ChunksInv /\ ListsInv /\ GatherInv /\ PointerInv /\ AllFreed /\ Done

-----------------------------------------------------------------------------
(* Lists. *)

LEMMA NonEmpty ==
    ASSUME NEW S, NEW s \in Seq(S), s # <<>>
    PROVE  Len(s) \in Nat \ {0} /\ Head(s) = s[1] /\ s[1] \in S /\ 1 \in DOMAIN s
OBVIOUS

LEMMA AppendLemma ==
    ASSUME NEW S, NEW s \in Seq(S), NEW e \in S
    PROVE  /\ Append(s, e) \in Seq(S) /\ Len(s) \in Nat /\ Len(Append(s, e)) = Len(s) + 1
           /\ \A n \in 1..Len(s) : Append(s, e)[n] = s[n]
           /\ Append(s, e)[Len(s) + 1] = e
OBVIOUS

LEMMA OneLemma ==
    ASSUME NEW S, NEW e \in S
    PROVE  <<e>> \in Seq(S) /\ Len(<<e>>) = 1 /\ <<e>>[1] = e /\ DOMAIN <<e>> = {1} /\ <<e>> # <<>>
OBVIOUS

LEMMA FrontLemma ==
    ASSUME NEW S, NEW s \in Seq(S), NEW e \in S
    PROVE  /\ <<e>> \o s \in Seq(S) /\ Len(<<e>> \o s) = Len(s) + 1 /\ (<<e>> \o s)[1] = e
           /\ \A n \in 2..(Len(s) + 1) : (<<e>> \o s)[n] = s[n - 1]
OBVIOUS

\* A list with a front chunk replaced.
LEMMA ReplaceLemma ==
    ASSUME NEW S, NEW s \in Seq(S), s # <<>>, NEW e \in S
    PROVE  /\ [s EXCEPT ![1] = e] \in Seq(S) /\ Len([s EXCEPT ![1] = e]) = Len(s)
           /\ [s EXCEPT ![1] = e][1] = e
           /\ \A n \in 2..Len(s) : [s EXCEPT ![1] = e][n] = s[n]
OBVIOUS

Emission == SUBSET (Threads \X (1..MaxValues))

\* WithRoom returns a list whose first chunk has room.
HasRoom(vals) ==
    /\ vals # <<>> /\ vals[1].size >= 2 /\ Len(vals[1].array) < vals[1].size
    /\ \A c \in 2..Len(vals) : /\ vals[c].size >= 2
                               /\ Len(vals[c].array) \in 1..vals[c].size
                               /\ Len(vals[c].array) >= vals[c].size

LEMMA ChunkRecord ==
    /\ \A n \in Nat \ {0}, s \in Seq(Emission) :
          /\ [size |-> n, array |-> s] \in val_t
          /\ [size |-> n, array |-> s].size = n /\ [size |-> n, array |-> s].array = s
    /\ \A c \in val_t : /\ c.size \in Nat \ {0} /\ c.array \in Seq(Emission)
                        /\ c = [size |-> c.size, array |-> c.array]
BY DEF val_t, Emission

LEMMA WithArray ==
    ASSUME NEW c \in val_t, NEW s
    PROVE  [c EXCEPT !.array = s] = [size |-> c.size, array |-> s]
BY DEF val_t

LEMMA ListRecord ==
    /\ \A n \in Nat, s \in Seq(val_t) :
          /\ [len |-> n, vals |-> s] \in keyvals_t
          /\ [len |-> n, vals |-> s].len = n /\ [len |-> n, vals |-> s].vals = s
    /\ \A list \in keyvals_t : /\ list.len \in Nat /\ list.vals \in Seq(val_t)
                               /\ list = [len |-> list.len, vals |-> list.vals]
BY DEF keyvals_t

\* What WithRoom does in each of its cases.
LEMMA WithRoomIs ==
    ASSUME NEW list \in keyvals_t
    PROVE  /\ list.vals = <<>> =>
                WithRoom(list) = [len  |-> list.len,
                                  vals |-> <<[size |-> DEFAULT_VALS_ARR_LEN, array |-> <<>>]>>]
           /\ list.vals # <<>> /\ ~Full(list.vals[1]) => WithRoom(list) = list
           /\ list.vals # <<>> /\ Full(list.vals[1]) /\ combiner = "incremental" =>
                WithRoom(list) = [len |-> 1, vals |-> [list.vals EXCEPT ![1] =
                                    [size |-> list.vals[1].size, array |-> <<Combined(list)>>]]]
           /\ list.vals # <<>> /\ Full(list.vals[1]) /\ combiner # "incremental" =>
                WithRoom(list) = [len  |-> list.len,
                                  vals |-> <<[size |-> 2 * list.vals[1].size, array |-> <<>>]>>
                                             \o list.vals]
<1>1. list.vals \in Seq(val_t) /\ list = [len |-> list.len, vals |-> list.vals]
  BY ListRecord
<1>2. list.vals # <<>> => /\ Head(list.vals) = list.vals[1] /\ list.vals[1] \in val_t
                          /\ 1 \in DOMAIN list.vals
  BY <1>1, NonEmpty
<1>3. CASE list.vals = <<>>
  BY <1>1, <1>3 DEF WithRoom
<1>4. CASE list.vals # <<>> /\ ~Full(list.vals[1])
  BY <1>2, <1>4 DEF WithRoom
<1>5. CASE list.vals # <<>> /\ Full(list.vals[1]) /\ combiner = "incremental"
  <2>1. WithRoom(list) = [len  |-> 1, vals |-> [list.vals EXCEPT ![1] =
                             [list.vals[1] EXCEPT !.array = <<Combined(list)>>]]]
    BY <1>2, <1>5 DEF WithRoom
  <2>2. [list.vals[1] EXCEPT !.array = <<Combined(list)>>]
           = [size |-> list.vals[1].size, array |-> <<Combined(list)>>]
    BY <1>2, <1>5, WithArray
  <2> QED BY <1>5, <2>1, <2>2
<1>6. CASE list.vals # <<>> /\ Full(list.vals[1]) /\ combiner # "incremental"
  BY <1>1, <1>2, <1>6 DEF WithRoom, NewChunk
<1> QED BY <1>3, <1>4, <1>5, <1>6

LEMMA WithRoomLemma ==
    ASSUME NEW list \in keyvals_t, GoodVals(list.vals)
    PROVE  WithRoom(list) \in keyvals_t /\ HasRoom(WithRoom(list).vals)
<1> DEFINE vals == list.vals
           w == WithRoom(list)
<1>0. vals \in Seq(val_t) /\ list.len \in Nat
  BY ListRecord
<1>e. <<>> \in Seq(Emission) /\ Len(<<>>) = 0
  OBVIOUS
<1> HIDE DEF vals
<1>1. CASE vals = <<>>
  <2> DEFINE chunk == [size |-> DEFAULT_VALS_ARR_LEN, array |-> <<>>]
  <2>1. DEFAULT_VALS_ARR_LEN \in Nat \ {0} /\ DEFAULT_VALS_ARR_LEN >= 2
    BY ConstantsAssumption
  <2>2. chunk \in val_t /\ chunk.size >= 2 /\ chunk.array = <<>>
    BY <1>e, <2>1, ChunkRecord
  <2>3. w = [len |-> list.len, vals |-> <<chunk>>]
    BY <1>1, WithRoomIs DEF vals
  <2> HIDE DEF chunk, w
  <2>4. <<chunk>> \in Seq(val_t) /\ Len(<<chunk>>) = 1 /\ <<chunk>>[1] = chunk /\ <<chunk>> # <<>>
    BY <2>2, OneLemma
  <2>5. w \in keyvals_t /\ w.vals = <<chunk>>
    BY <1>0, <2>3, <2>4, ListRecord
  <2>6. HasRoom(w.vals)
    <3>1. w.vals[1] = chunk /\ w.vals # <<>> /\ Len(w.vals) = 1
      BY <2>4, <2>5
    <3>2. Len(chunk.array) = 0 /\ chunk.size >= 2 /\ 0 < chunk.size
      BY <1>e, <2>2, ChunkRecord
    <3>3. Len(chunk.array) < chunk.size
      BY <3>2
    <3>4. \A c \in 2..Len(w.vals) : FALSE
      BY <3>1
    <3> QED BY <3>1, <3>2, <3>3, <3>4 DEF HasRoom
  <2> QED BY <2>5, <2>6 DEF w
<1>2. CASE vals # <<>>
  <2>1. vals[1] \in val_t /\ Len(vals) \in Nat \ {0} /\ DOMAIN vals = 1..Len(vals) /\ 1 \in DOMAIN vals
    BY <1>0, <1>2, NonEmpty
  <2>2. vals[1].size \in Nat \ {0} /\ vals[1].array \in Seq(Emission)
    BY <2>1, ChunkRecord
  <2>3. /\ vals[1].size >= 2 /\ Len(vals[1].array) \in 1..vals[1].size
    BY <2>1 DEF GoodVals, vals
  <2>4. \A c \in 2..Len(vals) : /\ vals[c].size >= 2
                                /\ Len(vals[c].array) \in 1..vals[c].size
                                /\ Len(vals[c].array) >= vals[c].size
    <3>1. \A c \in 2..Len(vals) : c \in DOMAIN vals /\ c > 1
      BY <2>1
    <3> QED BY <3>1 DEF GoodVals, vals
  <2>5. CASE ~Full(vals[1])
    <3>1. w = list
      BY <1>2, <2>5, WithRoomIs DEF vals
    <3>2. Len(vals[1].array) < vals[1].size
      BY <2>2, <2>3, <2>5 DEF Full
    <3> QED BY <1>2, <2>3, <2>4, <3>1, <3>2 DEF HasRoom, vals
  <2>6. CASE Full(vals[1]) /\ combiner = "incremental"
    <3> DEFINE chunk == [size |-> vals[1].size, array |-> <<Combined(list)>>]
    <3>1. Combined(list) \in Emission
      BY DEF Combined, Emission
    <3>2. <<Combined(list)>> \in Seq(Emission) /\ Len(<<Combined(list)>>) = 1
      BY <3>1, OneLemma
    <3>3. chunk \in val_t /\ chunk.size = vals[1].size /\ Len(chunk.array) = 1
      BY <2>2, <3>2, ChunkRecord
    <3>4. w = [len |-> 1, vals |-> [vals EXCEPT ![1] = chunk]]
      BY <1>2, <2>6, WithRoomIs DEF vals
    <3> HIDE DEF chunk, w
    <3>5. /\ [vals EXCEPT ![1] = chunk] \in Seq(val_t) /\ Len([vals EXCEPT ![1] = chunk]) = Len(vals)
          /\ [vals EXCEPT ![1] = chunk][1] = chunk
          /\ \A n \in 2..Len(vals) : [vals EXCEPT ![1] = chunk][n] = vals[n]
      BY <1>0, <1>2, <3>3, ReplaceLemma
    <3>6. w \in keyvals_t /\ w.vals = [vals EXCEPT ![1] = chunk]
      BY <3>4, <3>5, ListRecord
    <3>7. w.vals # <<>>
      BY <2>1, <3>5, <3>6
    <3>8. Len(w.vals[1].array) < w.vals[1].size /\ w.vals[1].size >= 2
      <4>1. w.vals[1] = chunk
        BY <3>5, <3>6
      <4>2. Len(chunk.array) < chunk.size /\ chunk.size >= 2
        BY <2>2, <2>3, <3>3
      <4> QED BY <4>1, <4>2
    <3>9. \A c \in 2..Len(w.vals) : w.vals[c] = vals[c] /\ c \in 2..Len(vals)
      BY <3>5, <3>6
    <3>10. HasRoom(w.vals)
      BY <2>4, <3>7, <3>8, <3>9 DEF HasRoom
    <3> QED BY <3>6, <3>10 DEF w
  <2>7. CASE Full(vals[1]) /\ combiner # "incremental"
    <3> DEFINE chunk == [size |-> 2 * vals[1].size, array |-> <<>>]
    <3>1. 2 * vals[1].size \in Nat \ {0} /\ 2 * vals[1].size >= 2
      BY <2>2
    <3>2. chunk \in val_t /\ chunk.size >= 2 /\ chunk.array = <<>>
      BY <1>e, <3>1, ChunkRecord
    <3>3. w = [len |-> list.len, vals |-> <<chunk>> \o vals]
      BY <1>2, <2>7, WithRoomIs DEF vals
    <3> HIDE DEF chunk, w
    <3>4. /\ <<chunk>> \o vals \in Seq(val_t) /\ Len(<<chunk>> \o vals) = Len(vals) + 1
          /\ (<<chunk>> \o vals)[1] = chunk
          /\ \A n \in 2..(Len(vals) + 1) : (<<chunk>> \o vals)[n] = vals[n - 1]
      BY <1>0, <3>2, FrontLemma
    <3>5. w \in keyvals_t /\ w.vals = <<chunk>> \o vals
      BY <1>0, <3>3, <3>4, ListRecord
    <3>6. w.vals # <<>>
      BY <2>1, <3>4, <3>5
    <3>7. \A n \in 1..Len(vals) : /\ vals[n].size >= 2
                                  /\ Len(vals[n].array) \in 1..vals[n].size
                                  /\ Len(vals[n].array) >= vals[n].size
      <4> SUFFICES ASSUME NEW n \in 1..Len(vals)
                   PROVE  /\ vals[n].size >= 2
                          /\ Len(vals[n].array) \in 1..vals[n].size
                          /\ Len(vals[n].array) >= vals[n].size
        OBVIOUS
      <4>1. CASE n = 1
        BY <2>3, <2>7, <4>1 DEF Full
      <4>2. CASE n # 1
        <5>1. n \in 2..Len(vals)
          BY <2>1, <4>2
        <5> QED BY <2>4, <5>1
      <4> QED BY <4>1, <4>2
    <3>8. \A c \in 2..Len(w.vals) : w.vals[c] = vals[c - 1] /\ c - 1 \in 1..Len(vals)
      BY <2>1, <3>4, <3>5
    <3>9. \A c \in 2..Len(w.vals) : /\ w.vals[c].size >= 2
                                    /\ Len(w.vals[c].array) \in 1..w.vals[c].size
                                    /\ Len(w.vals[c].array) >= w.vals[c].size
      BY <3>7, <3>8
    <3>10. w.vals[1].size >= 2 /\ Len(w.vals[1].array) < w.vals[1].size
      <4>1. w.vals[1] = chunk
        BY <3>4, <3>5
      <4> QED BY <1>e, <3>2, <4>1, ChunkRecord
    <3>11. HasRoom(w.vals)
      BY <3>6, <3>9, <3>10 DEF HasRoom
    <3> QED BY <3>5, <3>11 DEF w
  <2> QED BY <2>5, <2>6, <2>7
<1> QED BY <1>1, <1>2

\* The first chunk of the list with room has the value behind its own.
LEMMA InsertedIs ==
    ASSUME NEW list \in keyvals_t, GoodVals(list.vals), NEW val \in Emission
    PROVE  LET w   == WithRoom(list)
               new == Inserted(list, val)
           IN  /\ w \in keyvals_t /\ HasRoom(w.vals)
               /\ new \in keyvals_t /\ new.len = w.len + 1 /\ Len(new.vals) = Len(w.vals)
               /\ new.vals[1] = [size |-> w.vals[1].size, array |-> Append(w.vals[1].array, val)]
               /\ new.vals[1].array = Append(w.vals[1].array, val)
               /\ \A c \in 2..Len(w.vals) : new.vals[c] = w.vals[c]
<1> DEFINE w == WithRoom(list)
           vals == w.vals
           chunk == [size |-> vals[1].size, array |-> Append(vals[1].array, val)]
<1>0. w \in keyvals_t /\ HasRoom(vals)
  BY WithRoomLemma
<1>i. Inserted(list, val) = [len  |-> w.len + 1,
                             vals |-> [vals EXCEPT ![1] =
                                [vals[1] EXCEPT !.array = Append(vals[1].array, val)]]]
  BY DEF Inserted
<1> HIDE DEF w
<1>1. vals \in Seq(val_t) /\ vals # <<>> /\ w.len \in Nat
  BY <1>0, ListRecord DEF HasRoom
<1> HIDE DEF vals
<1>2. vals[1] \in val_t /\ Len(vals) \in Nat \ {0}
  BY <1>1, NonEmpty
<1>3. /\ vals[1].array \in Seq(Emission) /\ vals[1].size \in Nat \ {0}
      /\ vals[1] = [size |-> vals[1].size, array |-> vals[1].array]
  BY <1>2, ChunkRecord
<1>4. /\ Append(vals[1].array, val) \in Seq(Emission)
      /\ Len(vals[1].array) \in Nat
      /\ Len(Append(vals[1].array, val)) = Len(vals[1].array) + 1
  BY <1>3, AppendLemma
<1>5. chunk \in val_t /\ chunk.size = vals[1].size /\ chunk.array = Append(vals[1].array, val)
  BY <1>3, <1>4, ChunkRecord
<1>7. [vals[1] EXCEPT !.array = Append(vals[1].array, val)] = chunk
  BY <1>2, WithArray
<1>8. Inserted(list, val) = [len |-> w.len + 1, vals |-> [vals EXCEPT ![1] = chunk]]
  BY <1>i, <1>7 DEF vals
<1> HIDE DEF chunk
<1>9. /\ [vals EXCEPT ![1] = chunk] \in Seq(val_t) /\ Len([vals EXCEPT ![1] = chunk]) = Len(vals)
      /\ [vals EXCEPT ![1] = chunk][1] = chunk
      /\ \A n \in 2..Len(vals) : [vals EXCEPT ![1] = chunk][n] = vals[n]
  BY <1>1, <1>5, ReplaceLemma
<1>10. /\ Inserted(list, val) \in keyvals_t
       /\ Inserted(list, val).vals = [vals EXCEPT ![1] = chunk]
       /\ Inserted(list, val).len = w.len + 1
  <2> DEFINE n == w.len + 1
             s == [vals EXCEPT ![1] = chunk]
  <2>1. n \in Nat /\ s \in Seq(val_t) /\ Inserted(list, val) = [len |-> n, vals |-> s]
    BY <1>1, <1>8, <1>9
  <2> HIDE DEF n, s
  <2>2. Inserted(list, val) \in keyvals_t /\ Inserted(list, val).len = n /\ Inserted(list, val).vals = s
    BY <2>1, ListRecord
  <2> QED BY <2>2 DEF n, s
<1> QED BY <1>0, <1>5, <1>9, <1>10 DEF vals, w, chunk

LEMMA InsertedLemma ==
    ASSUME NEW list \in keyvals_t, GoodVals(list.vals), NEW val \in Emission
    PROVE  /\ Inserted(list, val) \in keyvals_t
           /\ GoodVals(Inserted(list, val).vals)
           /\ Inserted(list, val).len > 0 /\ Inserted(list, val).vals # <<>>
<1> DEFINE w == WithRoom(list)
           vals == w.vals
           new == Inserted(list, val)
           chunk == [size |-> vals[1].size, array |-> Append(vals[1].array, val)]
<1>1. /\ w \in keyvals_t /\ HasRoom(vals)
      /\ new \in keyvals_t /\ new.len = w.len + 1 /\ Len(new.vals) = Len(vals)
      /\ new.vals[1] = chunk
      /\ \A c \in 2..Len(vals) : new.vals[c] = vals[c]
  BY InsertedIs
<1> HIDE DEF w, new
<1>2. vals \in Seq(val_t) /\ vals # <<>> /\ w.len \in Nat /\ new.vals \in Seq(val_t)
  BY <1>1, ListRecord DEF HasRoom
<1> HIDE DEF vals
<1>3. vals[1] \in val_t /\ Len(vals) \in Nat \ {0}
  BY <1>2, NonEmpty
<1>4. vals[1].array \in Seq(Emission) /\ vals[1].size \in Nat \ {0}
  BY <1>3, ChunkRecord
<1>5. /\ Append(vals[1].array, val) \in Seq(Emission)
      /\ Len(vals[1].array) \in Nat
      /\ Len(Append(vals[1].array, val)) = Len(vals[1].array) + 1
  BY <1>4, AppendLemma
<1>6. chunk.size = vals[1].size /\ chunk.array = Append(vals[1].array, val)
  BY <1>4, <1>5, ChunkRecord
<1>7. chunk.size >= 2 /\ Len(chunk.array) \in 1..chunk.size
  BY <1>1, <1>4, <1>5, <1>6 DEF HasRoom
<1> HIDE DEF chunk
<1>8. new.vals # <<>> /\ DOMAIN new.vals = 1..Len(vals)
  BY <1>1, <1>2, <1>3
<1>9. GoodVals(new.vals)
  <2> SUFFICES ASSUME NEW c \in 1..Len(vals)
               PROVE  LET x == new.vals[c]
                      IN  /\ x.size >= 2 /\ Len(x.array) \in 1..x.size
                          /\ c > 1 => Len(x.array) >= x.size
    BY <1>8 DEF GoodVals
  <2>1. CASE c = 1
    BY <1>1, <1>7, <2>1
  <2>2. CASE c # 1
    <3>1. c \in 2..Len(vals)
      BY <1>3, <2>2
    <3> QED BY <1>1, <3>1 DEF HasRoom
  <2> QED BY <2>1, <2>2
<1> QED BY <1>1, <1>2, <1>8, <1>9 DEF new

-----------------------------------------------------------------------------
(* The iterator's fields after each operation. *)

Pointer == [thread : Threads, place : Nat \ {0}]
iterator_t == [list_array : Seq(Threads), current_list : Nat, current_index : Nat,
               val : Pointer \cup {NULL}, size : Nat]

LEMMA ItrRecord ==
    /\ \A a \in Seq(Threads), c, i, n \in Nat, v \in Pointer \cup {NULL} :
          LET r == [list_array |-> a, current_list |-> c, current_index |-> i, val |-> v, size |-> n]
          IN  /\ r \in iterator_t /\ r.list_array = a /\ r.current_list = c
              /\ r.current_index = i /\ r.val = v /\ r.size = n
    /\ \A r \in iterator_t :
          /\ r.list_array \in Seq(Threads) /\ r.current_list \in Nat /\ r.current_index \in Nat
          /\ r.val \in Pointer \cup {NULL} /\ r.size \in Nat
          /\ r = [list_array |-> r.list_array, current_list |-> r.current_list,
                  current_index |-> r.current_index, val |-> r.val, size |-> r.size]
BY DEF iterator_t

LEMMA InitIs == /\ iter_init \in iterator_t /\ iter_init.list_array = <<>>
                /\ iter_init.current_list = 0 /\ iter_init.current_index = 0
<1>1. <<>> \in Seq(Threads) /\ 0 \in Nat
  OBVIOUS
<1> QED BY <1>1, ItrRecord DEF iter_init

LEMMA FirstIs ==
    ASSUME NEW t \in Threads
    PROVE  First(t) \in Pointer /\ First(t).thread = t /\ First(t).place = 1
BY DEF First, Pointer

LEMMA AddIs ==
    ASSUME itr \in iterator_t, NEW t \in Threads, lists[t][key].len \in Nat
    PROVE  /\ iter_add(t) \in iterator_t
           /\ iter_add(t).list_array = Append(itr.list_array, t)
           /\ iter_add(t).current_list = itr.current_list
           /\ iter_add(t).current_index = itr.current_index
           /\ iter_add(t).val = IF itr.list_array = <<>> THEN First(t) ELSE itr.val
<1> DEFINE a == Append(itr.list_array, t)
           v == IF itr.list_array = <<>> THEN First(t) ELSE itr.val
           n == itr.size + lists[t][key].len
<1>1. itr.list_array \in Seq(Threads) /\ itr.val \in Pointer \cup {NULL} /\ itr.size \in Nat
  BY ItrRecord
<1>2. a \in Seq(Threads) /\ v \in Pointer \cup {NULL} /\ n \in Nat
  BY <1>1, FirstIs, AppendLemma
<1>3. iter_add(t) = [itr EXCEPT !.list_array = a, !.val = v, !.size = n]
  BY DEF iter_add
<1> HIDE DEF a, v, n
<1> DEFINE r == [list_array |-> a, current_list |-> itr.current_list,
                 current_index |-> itr.current_index, val |-> v, size |-> n]
<1>4. iter_add(t) = r
  BY <1>3 DEF iterator_t
<1>5. /\ r \in iterator_t /\ r.list_array = a /\ r.val = v
      /\ r.current_list = itr.current_list /\ r.current_index = itr.current_index
  BY <1>2, ItrRecord
<1> QED BY <1>4, <1>5 DEF a, v

\* All operations on the iterator but iter_add change where it is.
At(it, c, i, v) == [list_array |-> it.list_array, current_list |-> c, current_index |-> i,
                    val |-> v, size |-> it.size]

LEMMA AtIs ==
    ASSUME NEW it \in iterator_t, NEW c, NEW i, NEW v
    PROVE  /\ At(it, c, i, v).list_array = it.list_array /\ At(it, c, i, v).current_list = c
           /\ At(it, c, i, v).current_index = i /\ At(it, c, i, v).val = v
           /\ c \in Nat /\ i \in Nat /\ v \in Pointer \cup {NULL} => At(it, c, i, v) \in iterator_t
<1>1. /\ At(it, c, i, v).list_array = it.list_array /\ At(it, c, i, v).current_list = c
      /\ At(it, c, i, v).current_index = i /\ At(it, c, i, v).val = v
  BY DEF At
<1>2. ASSUME c \in Nat, i \in Nat, v \in Pointer \cup {NULL}
      PROVE  At(it, c, i, v) \in iterator_t
  BY <1>2, ItrRecord DEF At
<1> QED BY <1>1, <1>2

LEMMA TakeIs ==
    ASSUME NEW it \in iterator_t, NEW c, NEW i, NEW v, Take(At(it, c, i, v))
    PROVE  itr' = At(it, c, i + 1, v)
<1> DEFINE r == At(it, c, i, v)
<1>1. itr' = [r EXCEPT !.current_index = r.current_index + 1]
  BY DEF Take
<1>2. r.current_index = i
  BY DEF At
<1>3. itr' = [r EXCEPT !.current_index = i + 1]
  BY <1>1, <1>2
<1> QED BY <1>3 DEF At

LEMMA MovesAre ==
    ASSUME itr \in iterator_t
    PROVE  /\ itr = At(itr, itr.current_list, itr.current_index, itr.val)
           /\ NextChunk = At(itr, itr.current_list, 0, [thread |-> itr.val.thread, place |-> NextPlace])
           /\ NextList = At(itr, itr.current_list + 1, 0,
                            First(itr.list_array[itr.current_list + 2]))
           /\ iter_rewind = At(itr, 0, 0, First(itr.list_array[1]))
           /\ iter_next_list = At(itr, itr.current_list + 1, itr.current_index, itr.val)
<1>1. itr = At(itr, itr.current_list, itr.current_index, itr.val)
  BY ItrRecord DEF At
<1>2. NextChunk = At(itr, itr.current_list, 0, [thread |-> itr.val.thread, place |-> NextPlace])
  <2> DEFINE v == [thread |-> itr.val.thread, place |-> NextPlace]
  <2>1. NextChunk = [itr EXCEPT !.val = v, !.current_index = 0]
    BY DEF NextChunk
  <2> HIDE DEF v
  <2>2. NextChunk = At(itr, itr.current_list, 0, v)
    BY <2>1 DEF At, iterator_t
  <2> QED BY <2>2 DEF v
<1>3. NextList = At(itr, itr.current_list + 1, 0, First(itr.list_array[itr.current_list + 2]))
  <2> DEFINE v == First(itr.list_array[itr.current_list + 2])
             c == itr.current_list + 1
  <2>1. NextList = [itr EXCEPT !.current_list = c, !.current_index = 0, !.val = v]
    BY DEF NextList
  <2> HIDE DEF v, c
  <2>2. NextList = At(itr, c, 0, v)
    BY <2>1 DEF At, iterator_t
  <2> QED BY <2>2 DEF v, c
<1>4. iter_rewind = At(itr, 0, 0, First(itr.list_array[1]))
  <2> DEFINE v == First(itr.list_array[1])
  <2>1. iter_rewind = [itr EXCEPT !.current_list = 0, !.current_index = 0, !.val = v]
    BY DEF iter_rewind
  <2> HIDE DEF v
  <2>2. iter_rewind = At(itr, 0, 0, v)
    BY <2>1 DEF At, iterator_t
  <2> QED BY <2>2 DEF v
<1>5. iter_next_list = At(itr, itr.current_list + 1, itr.current_index, itr.val)
  BY DEF iter_next_list, At, iterator_t
<1> QED BY <1>1, <1>2, <1>3, <1>4, <1>5

-----------------------------------------------------------------------------
(* The actions. *)

LEMMA Bounds == /\ NumThreads \in Nat \ {0} /\ NumKeys \in Nat \ {0} /\ MaxValues \in Nat
                /\ Threads = 1..NumThreads /\ Keys = 1..NumKeys /\ 1 \in Keys
                /\ \A k \in Keys : k \in Nat /\ k >= 1 /\ k <= NumKeys
BY ConstantsAssumption DEF Threads, Keys

LEMMA Typed ==
    ASSUME IInv
    PROVE  /\ itr \in iterator_t /\ itr.list_array \in Seq(Threads)
           /\ itr.current_list \in Nat /\ itr.current_index \in Nat
           /\ \A t \in Threads, k \in Keys :
                 /\ lists[t][k] \in keyvals_t /\ GoodVals(lists[t][k].vals)
                 /\ lists[t][k].len \in Nat /\ lists[t][k].vals \in Seq(val_t)
           /\ phase \in {"map", "gather", "reduce", "free", "done"}
           /\ key \in Keys /\ turn \in 1..(NumThreads + 1)
           /\ \A l \in 1..Len(itr.list_array) : itr.list_array[l] \in Threads
<1>1. itr \in iterator_t /\ \A t \in Threads, k \in Keys :
         lists[t][k] \in keyvals_t /\ GoodVals(lists[t][k].vals)
  BY DEF IInv, TypeOK, ChunksInv, iterator_t, Pointer
<1>2. itr.list_array \in Seq(Threads) /\ itr.current_list \in Nat /\ itr.current_index \in Nat
  BY <1>1, ItrRecord
<1>3. \A l \in 1..Len(itr.list_array) : itr.list_array[l] \in Threads
  BY <1>2
<1>4. \A t \in Threads, k \in Keys : lists[t][k].len \in Nat /\ lists[t][k].vals \in Seq(val_t)
  BY <1>1, ListRecord
<1> QED BY <1>1, <1>2, <1>3, <1>4 DEF IInv, TypeOK

LEMMA InitKeeps == Init => IInv
<1> SUFFICES ASSUME Init PROVE IInv
  OBVIOUS
<1>1. /\ combiner \in {"none", "after_map", "incremental"} /\ phase = "map" /\ key = 1 /\ turn = 1
      /\ lists = [t \in Threads |-> [k \in Keys |-> NoList]]
      /\ emitted = [t \in Threads |-> [k \in Keys |-> 0]] /\ itr = iter_init
  BY DEF Init
<1>2. NoList \in keyvals_t /\ NoList.len = 0 /\ NoList.vals = <<>>
  <2>1. <<>> \in Seq(val_t) /\ 0 \in Nat
    OBVIOUS
  <2> QED BY <2>1, ListRecord DEF NoList
<1>3. \A t \in Threads, k \in Keys : lists[t][k] = NoList
  BY <1>1
<1>4. TypeOK
  <2>1. lists \in [Threads -> [Keys -> keyvals_t]]
    BY <1>1, <1>2
  <2>2. emitted \in [Threads -> [Keys -> 0..MaxValues]]
    BY <1>1, Bounds
  <2>3. itr \in iterator_t
    BY <1>1, InitIs
  <2>4. key \in Keys /\ turn \in 1..(NumThreads + 1)
    BY <1>1, Bounds
  <2> QED BY <1>1, <2>1, <2>2, <2>3, <2>4 DEF TypeOK, iterator_t, Pointer
<1>5. GoodVals(<<>>)
  BY DEF GoodVals
<1>6. ChunksInv /\ ListsInv
  BY <1>2, <1>3, <1>5 DEF ChunksInv, ListsInv
<1>7. AllFreed
  BY <1>1, <1>2, <1>3 DEF AllFreed
<1> QED BY <1>1, <1>4, <1>6, <1>7 DEF IInv, GatherInv, PointerInv, Done

LEMMA EmitKeeps ==
    ASSUME IInv, NEW t \in Threads, NEW k \in Keys, emit_intermediate(t, k) PROVE IInv'
<1> DEFINE new == Inserted(lists[t][k], {<<t, emitted'[t][k]>>})
<1>1. /\ phase = "map" /\ phase' = phase /\ key' = key /\ turn' = turn /\ itr' = itr
      /\ combiner' = combiner /\ emitted[t][k] < MaxValues
      /\ emitted' = [emitted EXCEPT ![t][k] = @ + 1]
      /\ lists' = [lists EXCEPT ![t][k] = new]
  BY DEF emit_intermediate, reduce
<1>2. /\ lists \in [Threads -> [Keys -> keyvals_t]]
      /\ emitted \in [Threads -> [Keys -> 0..MaxValues]]
      /\ key = 1 /\ itr = iter_init
  BY <1>1 DEF IInv, TypeOK, GatherInv
<1>3. emitted' \in [Threads -> [Keys -> 0..MaxValues]] /\ emitted'[t][k] \in 1..MaxValues
  <2>1. emitted[t][k] \in 0..MaxValues /\ emitted[t][k] + 1 \in 1..MaxValues
    BY <1>1, <1>2, Bounds
  <2>2. emitted[t][k] + 1 \in 0..MaxValues
    BY <2>1
  <2>3. emitted' \in [Threads -> [Keys -> 0..MaxValues]]
    BY <1>1, <1>2, <2>2
  <2>4. emitted'[t][k] = emitted[t][k] + 1
    BY <1>1, <1>2
  <2> QED BY <2>1, <2>3, <2>4
<1>4. {<<t, emitted'[t][k]>>} \in Emission
  BY <1>3 DEF Emission
<1>5. new \in keyvals_t /\ GoodVals(new.vals) /\ new.len > 0 /\ new.vals # <<>>
  BY <1>4, Typed, InsertedLemma
<1> HIDE DEF new
<1>6. /\ lists' \in [Threads -> [Keys -> keyvals_t]]
      /\ \A u \in Threads, j \in Keys : lists'[u][j] = IF u = t /\ j = k THEN new ELSE lists[u][j]
  BY <1>1, <1>2, <1>5
<1>7. TypeOK'
  BY <1>1, <1>3, <1>6 DEF IInv, TypeOK
<1>8. ChunksInv'
  <2>1. \A u \in Threads, j \in Keys : GoodVals(lists'[u][j].vals)
    BY <1>5, <1>6, Typed
  <2> QED BY <2>1 DEF ChunksInv, GoodVals
<1>9. ListsInv'
  BY <1>1, <1>5, <1>6 DEF IInv, ListsInv, Kept
<1>10. AllFreed'
  <2>1. \A j \in Keys : ~(j < key)
    BY <1>2, Bounds
  <2> QED BY <1>1, <2>1 DEF AllFreed
<1> QED BY <1>1, <1>7, <1>8, <1>9, <1>10 DEF IInv, GatherInv, PointerInv, Done, iter_init

LEMMA RunCombiner ==
    ASSUME NEW list \in keyvals_t, GoodVals(list.vals), list.vals # <<>>
    PROVE  /\ run_combiner(list) \in keyvals_t /\ GoodVals(run_combiner(list).vals)
           /\ run_combiner(list).len = 1 /\ run_combiner(list).vals # <<>>
           /\ Len(run_combiner(list).vals) = 1
           /\ run_combiner(list).vals[1].array = <<Combined(list)>>
<1> DEFINE chunk == [size |-> list.vals[1].size, array |-> <<Combined(list)>>]
<1>1. list.vals \in Seq(val_t)
  BY ListRecord
<1>2. Head(list.vals) = list.vals[1] /\ list.vals[1] \in val_t /\ 1 \in DOMAIN list.vals
  BY <1>1, NonEmpty
<1>3. list.vals[1].size \in Nat \ {0} /\ list.vals[1].size >= 2
  BY <1>2, ChunkRecord DEF GoodVals
<1>4. Combined(list) \in Emission
  BY DEF Combined, Emission
<1>5. <<Combined(list)>> \in Seq(Emission) /\ Len(<<Combined(list)>>) = 1
  BY <1>4, OneLemma
<1>6. /\ chunk \in val_t /\ chunk.size = list.vals[1].size /\ Len(chunk.array) = 1
      /\ chunk.array = <<Combined(list)>>
  BY <1>3, <1>5, ChunkRecord
<1>7. run_combiner(list) = [len |-> 1, vals |-> <<chunk>>]
  BY <1>2 DEF run_combiner
<1> HIDE DEF chunk
<1>8. /\ <<chunk>> \in Seq(val_t) /\ Len(<<chunk>>) = 1 /\ <<chunk>>[1] = chunk
      /\ DOMAIN <<chunk>> = {1} /\ <<chunk>> # <<>>
  BY <1>6, OneLemma
<1>9. /\ run_combiner(list) \in keyvals_t /\ run_combiner(list).vals = <<chunk>>
      /\ run_combiner(list).len = 1
  <2> DEFINE s == <<chunk>>
  <2>1. 1 \in Nat /\ s \in Seq(val_t) /\ run_combiner(list) = [len |-> 1, vals |-> s]
    BY <1>7, <1>8
  <2> HIDE DEF s
  <2>2. LET r == [len |-> 1, vals |-> s]
        IN  r \in keyvals_t /\ r.len = 1 /\ r.vals = s
    BY <2>1 DEF keyvals_t
  <2>3. /\ run_combiner(list) \in keyvals_t /\ run_combiner(list).len = 1
        /\ run_combiner(list).vals = s
    BY <2>1, <2>2
  <2> QED BY <2>3 DEF s
<1>10. chunk.size >= 2 /\ Len(chunk.array) \in 1..chunk.size
  BY <1>3, <1>6
<1>11. GoodVals(<<chunk>>)
  BY <1>8, <1>10 DEF GoodVals
<1> QED BY <1>6, <1>8, <1>9, <1>11

LEMMA FinishMapKeeps == ASSUME IInv, FinishMap PROVE IInv'
<1>1. /\ phase = "map" /\ phase' = "gather" /\ key' = key /\ turn' = turn /\ itr' = itr
      /\ combiner' = combiner /\ emitted' = emitted
      /\ lists' = [t \in Threads |-> [k \in Keys |->
                     IF combiner = "after_map" /\ lists[t][k].len > 0
                       THEN run_combiner(lists[t][k]) ELSE lists[t][k]]]
  BY DEF FinishMap, map
<1>2. key = 1 /\ turn = 1 /\ itr = iter_init
  BY <1>1 DEF IInv, GatherInv
<1>3. \A t \in Threads, k \in Keys : lists[t][k].len > 0 <=> lists[t][k].vals # <<>>
  BY <1>1, <1>2, Bounds DEF IInv, ListsInv, Kept
<1>4. ASSUME NEW t \in Threads, NEW k \in Keys
      PROVE  /\ lists'[t][k] \in keyvals_t /\ GoodVals(lists'[t][k].vals)
             /\ lists'[t][k].len > 0 <=> lists'[t][k].vals # <<>>
  <2>1. CASE combiner = "after_map" /\ lists[t][k].len > 0
    <3>1. lists'[t][k] = run_combiner(lists[t][k])
      BY <1>1, <2>1
    <3>2. /\ run_combiner(lists[t][k]) \in keyvals_t /\ GoodVals(run_combiner(lists[t][k]).vals)
          /\ run_combiner(lists[t][k]).len > 0 /\ run_combiner(lists[t][k]).vals # <<>>
      BY <1>3, <2>1, Typed, RunCombiner
    <3> QED BY <3>1, <3>2
  <2>2. CASE ~(combiner = "after_map" /\ lists[t][k].len > 0)
    <3>1. lists'[t][k] = lists[t][k]
      BY <1>1, <2>2
    <3> QED BY <1>3, <3>1, Typed
  <2> QED BY <2>1, <2>2
<1>5. lists' \in [Threads -> [Keys -> keyvals_t]]
  BY <1>1, <1>4
<1>6. TypeOK'
  BY <1>1, <1>5 DEF IInv, TypeOK
<1>7. ChunksInv' /\ ListsInv'
  BY <1>4 DEF ChunksInv, ListsInv, GoodVals
<1>8. AllFreed'
  <2>1. \A j \in Keys : ~(j < key')
    BY <1>1, <1>2, Bounds
  <2> QED BY <1>1, <2>1 DEF AllFreed
<1>9. GatherInv'
  <2>1. \A t \in 1..(turn' - 1) : FALSE
    BY <1>1, <1>2
  <2> QED BY <1>1, <1>2, <2>1 DEF GatherInv, iter_init
<1>10. PointerInv'
  <2>1. \A l \in 1..Len(itr'.list_array) : FALSE
    BY <1>1, <1>2, InitIs
  <2> QED BY <1>1, <1>2, <2>1, InitIs DEF PointerInv
<1> QED BY <1>1, <1>6, <1>7, <1>8, <1>9, <1>10 DEF IInv, Done

\* Gather, iter_next and Reduced do not touch the lists, nor what is to be kept.
LEMMA ListsKept ==
    ASSUME IInv, lists' = lists, key' = key, phase # "map", phase # "done",
           phase' \in {phase, "reduce", "free"}, phase' = "reduce" => phase \in {"gather", "reduce"}
    PROVE  ChunksInv' /\ ListsInv' /\ AllFreed' /\ Done'
<1>1. ChunksInv'
  BY DEF IInv, ChunksInv, GoodVals
<1>2. \A k \in Keys : Kept(k)' => Kept(k)
  BY Typed, Bounds DEF Kept
<1>3. ListsInv'
  BY <1>2 DEF IInv, ListsInv
<1>4. phase' # "done"
  BY Typed
<1> QED BY <1>1, <1>3, <1>4 DEF IInv, AllFreed, Done

LEMMA GatherKeeps == ASSUME IInv, Gather PROVE IInv'
<1>1. /\ phase = "gather" /\ turn \in Threads /\ phase' = phase /\ key' = key
      /\ itr' = IF lists[turn][key].len > 0 THEN iter_add(turn) ELSE itr
      /\ turn' = turn + 1 /\ lists' = lists /\ combiner' = combiner /\ emitted' = emitted
  BY DEF Gather, map
<1>2. turn \in 1..NumThreads /\ turn' - 1 = turn /\ turn' \in 1..(NumThreads + 1)
  BY <1>1, Bounds
<1>3. lists[turn][key].len > 0 <=> lists[turn][key].vals # <<>>
  BY <1>1, Typed, Bounds DEF IInv, ListsInv, Kept
<1>4. ChunksInv' /\ ListsInv' /\ AllFreed' /\ Done'
  BY <1>1, ListsKept
<1>5. \A t \in 1..(turn - 1) : lists[t][key].vals # <<>> => InIterator(t, 0)
  BY <1>1 DEF IInv, GatherInv
<1>6. /\ \A l \in 1..Len(itr.list_array) : lists[itr.list_array[l]][key].vals # <<>>
      /\ itr.current_list = 0 /\ itr.current_index = 0
  BY <1>1 DEF IInv, PointerInv
<1>7. CASE lists[turn][key].len > 0
  <2> DEFINE a == Append(itr.list_array, turn)
  <2>1. /\ itr' \in iterator_t /\ itr'.list_array = a
        /\ itr'.current_list = 0 /\ itr'.current_index = 0
        /\ itr'.val = IF itr.list_array = <<>> THEN First(turn) ELSE itr.val
    BY <1>1, <1>6, <1>7, Typed, AddIs
  <2>2. /\ a \in Seq(Threads) /\ Len(itr.list_array) \in Nat /\ Len(a) = Len(itr.list_array) + 1
        /\ \A n \in 1..Len(itr.list_array) : a[n] = itr.list_array[n]
        /\ a[Len(itr.list_array) + 1] = turn
    BY <1>1, Typed, AppendLemma
  <2> HIDE DEF a
  <2>3. a # <<>>
    BY <2>2
  <2>4. TypeOK'
    BY <1>1, <1>2, <2>1 DEF IInv, TypeOK, iterator_t, Pointer
  <2>5. GatherInv'
    <3>1. ASSUME NEW t \in 1..turn, lists[t][key].vals # <<>>
          PROVE  \E l \in 1..Len(a) : a[l] = t
      <4>1. CASE t = turn
        BY <2>2, <4>1
      <4>2. CASE t # turn
        <5>1. PICK l \in 1..Len(itr.list_array) : itr.list_array[l] = t
          BY <1>2, <1>5, <3>1, <4>2 DEF InIterator
        <5>2. l \in 1..Len(a) /\ a[l] = t
          BY <2>2, <5>1
        <5> QED BY <5>2
      <4> QED BY <4>1, <4>2
    <3> QED BY <1>1, <1>2, <2>1, <2>3, <3>1 DEF GatherInv, InIterator
  <2>6. \A l \in 1..Len(a) : lists[a[l]][key].vals # <<>>
    <3> SUFFICES ASSUME NEW l \in 1..Len(a) PROVE lists[a[l]][key].vals # <<>>
      OBVIOUS
    <3>1. CASE l = Len(itr.list_array) + 1
      BY <1>3, <1>7, <2>2, <3>1
    <3>2. CASE l # Len(itr.list_array) + 1
      <4>1. l \in 1..Len(itr.list_array)
        BY <2>2, <3>2
      <4> QED BY <1>6, <2>2, <4>1
    <3> QED BY <3>1, <3>2
  <2>7. /\ itr'.val \in Pointer /\ itr'.val.thread = a[1]
        /\ itr'.val.place \in DOMAIN lists[itr'.val.thread][key].vals
        /\ 0 <= Len(lists[itr'.val.thread][key].vals[itr'.val.place].array)
    <3>1. CASE itr.list_array = <<>>
      <4>1. itr'.val = First(turn) /\ a[1] = turn
        BY <2>1, <2>2, <3>1
      <4>2. itr'.val \in Pointer /\ itr'.val.thread = turn /\ itr'.val.place = 1
        BY <1>1, <4>1, FirstIs
      <4>3. /\ 1 \in DOMAIN lists[turn][key].vals /\ lists[turn][key].vals[1] \in val_t
        BY <1>1, <1>3, <1>7, Typed, NonEmpty
      <4>4. Len(lists[turn][key].vals[1].array) \in Nat
        BY <4>3, ChunkRecord
      <4> QED BY <4>1, <4>2, <4>3, <4>4
    <3>2. CASE itr.list_array # <<>>
      <4>1. /\ itr.val \in Pointer /\ itr.val.thread = itr.list_array[1]
            /\ itr.val.place \in DOMAIN lists[itr.val.thread][key].vals
            /\ 0 <= Len(lists[itr.val.thread][key].vals[itr.val.place].array)
        BY <1>1, <1>6, <3>2 DEF IInv, PointerInv, Chunk, Pointer
      <4>2. a[1] = itr.list_array[1]
        BY <2>2, <3>2, Typed
      <4> QED BY <2>1, <3>2, <4>1, <4>2
    <3> QED BY <3>1, <3>2
  <2>8. PointerInv'
    <3>1. 0 < Len(a)
      BY <2>2
    <3>2. 0 + 1 = 1 /\ phase' # "reduce"
      BY <1>1
    <3>3. /\ itr'.val \in [thread : Threads, place : Nat \ {0}] /\ itr'.val.thread = a[0 + 1]
          /\ itr'.val.place \in DOMAIN lists[itr'.val.thread][key].vals
          /\ 0 <= Len(lists[itr'.val.thread][key].vals[itr'.val.place].array)
      BY <2>7, <3>2 DEF Pointer
    <3> QED BY <1>1, <2>1, <2>6, <3>1, <3>2, <3>3 DEF PointerInv, Chunk
  <2> QED BY <1>4, <2>4, <2>5, <2>8 DEF IInv
<1>8. CASE ~(lists[turn][key].len > 0)
  <2>1. itr' = itr
    BY <1>1, <1>8
  <2>2. \A t \in 1..turn : lists[t][key].vals # <<>> => t \in 1..(turn - 1)
    BY <1>2, <1>3, <1>8
  <2>3. TypeOK'
    BY <1>1, <1>2, <2>1 DEF IInv, TypeOK
  <2>4. GatherInv'
    BY <1>1, <1>2, <1>5, <2>1, <2>2 DEF IInv, GatherInv, InIterator, iter_init
  <2>5. PointerInv'
    BY <1>1, <2>1 DEF IInv, PointerInv, Chunk
  <2> QED BY <1>4, <2>3, <2>4, <2>5 DEF IInv
<1> QED BY <1>7, <1>8

\* The worker goes on when no chunk of the key is left and the iterator is empty.
LEMMA NextKeyKeeps ==
    ASSUME IInv, NextKey, phase \in {"gather", "free"}, lists' = lists, itr' = iter_init,
           combiner' = combiner, emitted' = emitted, \A t \in Threads : lists[t][key].vals = <<>>
    PROVE  IInv'
<1>1. /\ turn' = 1 /\ phase' \in {"gather", "done"}
      /\ phase' = "gather" => key + 1 \in Keys /\ key' = key + 1
      /\ phase' = "done" => key + 1 \notin Keys /\ key' = key
  BY DEF NextKey
<1>2. key \in Nat /\ key >= 1 /\ key <= NumKeys /\ key' \in Keys
  BY <1>1, Typed, Bounds
<1>3. TypeOK'
  <2>1. itr' \in iterator_t /\ turn' \in 1..(NumThreads + 1)
    BY <1>1, InitIs, Bounds
  <2> QED BY <1>1, <1>2, <2>1 DEF IInv, TypeOK, iterator_t, Pointer
<1>4. ChunksInv'
  BY DEF IInv, ChunksInv, GoodVals
<1>5. ListsInv'
  <2>1. \A k \in Keys : Kept(k)' => Kept(k)
    BY <1>1, <1>2, Bounds DEF Kept
  <2> QED BY <2>1 DEF IInv, ListsInv
<1>6. Done'
  BY <1>1, <1>2, Bounds DEF Done
<1>7. AllFreed'
  <2>1. \A k \in Keys : k < key' \/ phase' = "done" => k < key \/ k = key
    BY <1>1, <1>2, <1>6, Bounds DEF Done
  <2> QED BY <2>1 DEF IInv, AllFreed
<1>8. GatherInv'
  <2>1. \A t \in 1..(turn' - 1) : FALSE
    BY <1>1
  <2> QED BY <1>1, <2>1 DEF GatherInv, iter_init
<1>9. PointerInv'
  <2>1. /\ itr'.list_array = <<>> /\ itr'.current_list = 0 /\ itr'.current_index = 0
    BY InitIs
  <2>2. \A l \in 1..Len(itr'.list_array) : FALSE
    BY <2>1
  <2> QED BY <1>1, <2>1, <2>2 DEF PointerInv
<1> QED BY <1>3, <1>4, <1>5, <1>6, <1>7, <1>8, <1>9 DEF IInv

LEMMA GatheredKeeps == ASSUME IInv, Gathered PROVE IInv'
<1>1. /\ phase = "gather" /\ turn \notin Threads /\ lists' = lists /\ itr' = itr
      /\ combiner' = combiner /\ emitted' = emitted
  BY DEF Gathered, map
<1>2. turn = NumThreads + 1
  BY <1>1, Typed, Bounds
<1>3. \A t \in Threads : lists[t][key].vals # <<>> => InIterator(t, 0)
  <2>1. \A t \in Threads : t \in 1..(turn - 1)
    BY <1>2, Bounds
  <2> QED BY <1>1, <2>1 DEF IInv, GatherInv
<1>4. CASE itr.list_array # <<>>
  <2>1. phase' = "reduce" /\ key' = key /\ turn' = turn
    BY <1>4 DEF Gathered
  <2>2. TypeOK'
    BY <1>1, <2>1 DEF IInv, TypeOK
  <2>3. ChunksInv' /\ ListsInv' /\ AllFreed' /\ Done'
    BY <1>1, <2>1, ListsKept
  <2>4. GatherInv'
    BY <1>1, <1>3, <2>1 DEF GatherInv, InIterator
  <2>5. PointerInv'
    BY <1>1, <1>4, <2>1 DEF IInv, PointerInv, Chunk
  <2> QED BY <2>2, <2>3, <2>4, <2>5 DEF IInv
<1>5. CASE itr.list_array = <<>>
  <2>1. NextKey
    BY <1>5 DEF Gathered
  <2>2. itr' = iter_init
    BY <1>1, <1>5 DEF IInv, GatherInv
  <2>3. \A t \in Threads : lists[t][key].vals = <<>>
    BY <1>3, <1>5 DEF InIterator
  <2> QED BY <1>1, <2>1, <2>2, <2>3, NextKeyKeeps
<1> QED BY <1>4, <1>5

\* The pointer of an iterator whose list of the key is c, at value i of chunk v.
PointsTo(c, i, v) ==
    /\ c \in Nat /\ c < Len(itr.list_array) /\ i \in Nat /\ v \in Pointer
    /\ v.thread = itr.list_array[c + 1]
    /\ v.place \in DOMAIN lists[v.thread][key].vals
    /\ i <= Len(lists[v.thread][key].vals[v.place].array)

LEMMA ReduceState ==
    ASSUME IInv, phase = "reduce"
    PROVE  /\ itr.list_array # <<>> /\ PointsTo(itr.current_list, itr.current_index, itr.val)
           /\ \A l \in 1..Len(itr.list_array) : lists[itr.list_array[l]][key].vals # <<>>
           /\ \A t \in Threads : lists[t][key].vals # <<>> => InIterator(t, 0)
BY Typed DEF IInv, PointerInv, GatherInv, PointsTo, Chunk, Pointer

\* A value more can be taken of each chunk.
LEMMA SomeValue ==
    ASSUME IInv, NEW t \in Threads, NEW c \in DOMAIN lists[t][key].vals
    PROVE  /\ Len(lists[t][key].vals[c].array) \in Nat
           /\ 1 <= Len(lists[t][key].vals[c].array)
<1>1. key \in Keys /\ lists[t][key].vals \in Seq(val_t) /\ GoodVals(lists[t][key].vals)
  BY Typed
<1>2. lists[t][key].vals[c] \in val_t
  BY <1>1
<1>3. lists[t][key].vals[c].size \in Nat /\ Len(lists[t][key].vals[c].array) \in Nat
  BY <1>2, ChunkRecord
<1> QED BY <1>1, <1>3 DEF GoodVals

\* Moving the iterator to a place with a value keeps the invariant.
LEMMA MoveKeeps ==
    ASSUME IInv, phase = "reduce", NEW c, NEW i, NEW v, PointsTo(c, i, v),
           itr' = At(itr, c, i, v), UNCHANGED <<map, lists, phase, key, turn>>
    PROVE  IInv'
<1>0. /\ itr' \in iterator_t /\ itr'.list_array = itr.list_array /\ itr'.current_list = c
      /\ itr'.current_index = i /\ itr'.val = v
  BY Typed, AtIs DEF PointsTo
<1>1. TypeOK'
  BY <1>0 DEF IInv, TypeOK, iterator_t, Pointer, map
<1>2. ChunksInv' /\ ListsInv' /\ AllFreed' /\ Done'
  BY ListsKept
<1>3. GatherInv'
  BY <1>0, ReduceState DEF GatherInv, InIterator
<1>4. PointerInv'
  BY <1>0, ReduceState DEF PointerInv, PointsTo, Chunk, Pointer
<1> QED BY <1>1, <1>2, <1>3, <1>4 DEF IInv

LEMMA NextKeeps == ASSUME IInv, iter_next PROVE IInv'
<1>1. phase = "reduce" /\ UNCHANGED <<map, lists, phase, key, turn>>
  BY DEF iter_next
<1>2. /\ itr \in iterator_t /\ PointsTo(itr.current_list, itr.current_index, itr.val)
      /\ itr.list_array \in Seq(Threads)
  BY <1>1, Typed, ReduceState
<1>3. itr.val.thread \in Threads /\ itr.val.place \in Nat \ {0}
  BY <1>2 DEF PointsTo, Pointer
<1>4. CASE ChunkLeft /\ Take(itr)
  <2> DEFINE c == itr.current_list
             i == itr.current_index
             v == itr.val
             n == Len(lists[v.thread][key].vals[v.place].array)
  <2>1. itr = At(itr, c, i, v)
    BY <1>2, MovesAre
  <2>2. i \in Nat /\ i < n /\ n \in Nat
    <3>1. n \in Nat
      BY <1>2, <1>3, SomeValue DEF PointsTo
    <3> QED BY <1>2, <1>4, <3>1 DEF PointsTo, ChunkLeft, Chunk
  <2>3. /\ c \in Nat /\ c < Len(itr.list_array) /\ v \in Pointer
        /\ v.thread = itr.list_array[c + 1]
        /\ v.place \in DOMAIN lists[v.thread][key].vals
    BY <1>2 DEF PointsTo
  <2> HIDE DEF c, i, v, n
  <2>4. i + 1 \in Nat /\ i + 1 <= n
    BY <2>2
  <2>5. PointsTo(c, i + 1, v)
    BY <2>3, <2>4 DEF PointsTo, n
  <2>6. Take(At(itr, c, i, v))
    BY <1>4, <2>1
  <2>7. itr' = At(itr, c, i + 1, v)
    BY <1>2, <2>6, TakeIs
  <2> QED BY <1>1, <2>7, <2>5, MoveKeeps
<1>5. CASE ChainLeft /\ Take(NextChunk)
  <2> DEFINE c == itr.current_list
             v == [thread |-> itr.val.thread, place |-> NextPlace]
  <2>1. Take(At(itr, c, 0, v))
    BY <1>2, <1>5, MovesAre
  <2>2. v \in Pointer /\ v.thread = itr.val.thread /\ v.place = NextPlace
    BY <1>3 DEF NextPlace, Pointer
  <2> HIDE DEF v
  <2>3. /\ c \in Nat /\ c < Len(itr.list_array) /\ v.thread = itr.list_array[c + 1]
        /\ v.thread \in Threads /\ v.place \in DOMAIN lists[v.thread][key].vals
    BY <1>2, <1>3, <1>5, <2>2 DEF PointsTo, ChainLeft
  <2> HIDE DEF c
  <2>4. 0 + 1 \in Nat /\ 0 + 1 <= Len(lists[v.thread][key].vals[v.place].array)
    BY <2>3, SomeValue
  <2>5. PointsTo(c, 0 + 1, v)
    BY <2>2, <2>3, <2>4 DEF PointsTo
  <2>6. itr' = At(itr, c, 0 + 1, v)
    BY <1>2, <2>1, TakeIs
  <2> QED BY <1>1, <2>6, <2>5, MoveKeeps
<1>6. CASE ListLeft /\ Take(NextList)
  <2> DEFINE c == itr.current_list + 1
             t == itr.list_array[itr.current_list + 2]
             v == First(t)
  <2>1. Take(At(itr, c, 0, v))
    BY <1>2, <1>6, MovesAre
  <2>2. c \in Nat /\ c < Len(itr.list_array) /\ c + 1 \in 1..Len(itr.list_array)
        /\ t = itr.list_array[c + 1]
    BY <1>2, <1>6 DEF ListLeft, PointsTo
  <2>3. t \in Threads /\ lists[t][key].vals # <<>>
    BY <1>1, <1>2, <2>2, ReduceState
  <2> HIDE DEF c, t
  <2>4. v \in Pointer /\ v.thread = t /\ v.place = 1
    BY <2>3, FirstIs
  <2>5. 1 \in DOMAIN lists[t][key].vals
    BY <2>3, Typed, NonEmpty
  <2>6. PointsTo(c, 0 + 1, v)
    BY <2>2, <2>3, <2>4, <2>5, SomeValue DEF PointsTo
  <2> HIDE DEF v
  <2>7. itr' = At(itr, c, 0 + 1, v)
    BY <1>2, <2>1, TakeIs
  <2> QED BY <1>1, <2>6, <2>7, MoveKeeps
<1>7. CASE itr' = itr
  <2>1. itr' = At(itr, itr.current_list, itr.current_index, itr.val)
    BY <1>2, <1>7, MovesAre
  <2> QED BY <1>1, <1>2, <2>1, MoveKeeps
<1> QED BY <1>4, <1>5, <1>6, <1>7 DEF iter_next

LEMMA ReducedKeeps == ASSUME IInv, Reduced PROVE IInv'
<1>1. /\ phase = "reduce" /\ phase' = "free" /\ itr' = iter_rewind /\ lists' = lists
      /\ key' = key /\ turn' = turn /\ combiner' = combiner /\ emitted' = emitted
  BY DEF Reduced, map
<1>2. /\ itr \in iterator_t /\ itr.list_array \in Seq(Threads) /\ itr.list_array # <<>>
  BY <1>1, Typed, ReduceState
<1>3. First(itr.list_array[1]) \in Pointer
  BY <1>2, NonEmpty, FirstIs
<1>4. /\ itr' \in iterator_t /\ itr'.list_array = itr.list_array /\ itr'.current_list = 0
  <2> DEFINE v == First(itr.list_array[1])
  <2>1. itr' = At(itr, 0, 0, v)
    BY <1>1, <1>2, MovesAre
  <2>2. v \in Pointer
    BY <1>3
  <2> HIDE DEF v
  <2> QED BY <1>2, <2>1, <2>2, AtIs
<1>5. TypeOK'
  BY <1>1, <1>4 DEF IInv, TypeOK, iterator_t, Pointer
<1>6. ChunksInv' /\ ListsInv' /\ AllFreed' /\ Done'
  BY <1>1, ListsKept
<1>7. GatherInv'
  BY <1>1, <1>4, ReduceState DEF GatherInv, InIterator
<1> QED BY <1>1, <1>5, <1>6, <1>7 DEF IInv, PointerInv

LEMMA FreeListKeeps == ASSUME IInv, FreeList PROVE IInv'
<1> DEFINE u == itr.list_array[itr.current_list + 1]
           n == itr.current_list
<1>1. /\ phase = "free" /\ phase' = phase /\ n < Len(itr.list_array)
      /\ lists' = [lists EXCEPT ![u][key].vals = <<>>]
      /\ itr' = iter_next_list
      /\ key' = key /\ turn' = turn /\ combiner' = combiner /\ emitted' = emitted
  BY DEF FreeList, map, reduce
<1>2. itr \in iterator_t /\ n \in Nat /\ Len(itr.list_array) \in Nat /\ u \in Threads /\ key \in Keys
  BY <1>1, Typed
<1>3. itr' \in iterator_t /\ itr'.list_array = itr.list_array /\ itr'.current_list = n + 1
  <2>1. itr' = At(itr, n + 1, itr.current_index, itr.val)
    BY <1>1, <1>2, MovesAre
  <2>2. n + 1 \in Nat /\ itr.current_index \in Nat /\ itr.val \in Pointer \cup {NULL}
    BY <1>2, ItrRecord
  <2> HIDE DEF n
  <2> QED BY <1>2, <2>1, <2>2, AtIs
<1> HIDE DEF u, n
<1> DEFINE freed == [lists[u][key] EXCEPT !.vals = <<>>]
<1>4. freed \in keyvals_t /\ freed.vals = <<>> /\ freed.len = lists[u][key].len
  <2> DEFINE l == lists[u][key]
  <2>1. l \in keyvals_t /\ <<>> \in Seq(val_t)
    BY <1>2, Typed
  <2> HIDE DEF l
  <2>2. LET f == [l EXCEPT !.vals = <<>>] IN f \in keyvals_t /\ f.vals = <<>> /\ f.len = l.len
    BY <2>1 DEF keyvals_t
  <2> QED BY <2>2 DEF l
<1>5. lists' = [lists EXCEPT ![u] = [lists[u] EXCEPT ![key] = freed]]
  BY <1>1, <1>2 DEF IInv, TypeOK
<1> HIDE DEF freed
<1>6. /\ lists' \in [Threads -> [Keys -> keyvals_t]]
      /\ \A t \in Threads, k \in Keys :
            lists'[t][k] = IF t = u /\ k = key THEN freed ELSE lists[t][k]
  BY <1>2, <1>4, <1>5 DEF IInv, TypeOK
<1>7. TypeOK'
  BY <1>1, <1>3, <1>6 DEF IInv, TypeOK, iterator_t, Pointer
<1>8. ChunksInv'
  <2>1. \A t \in Threads, k \in Keys : GoodVals(lists'[t][k].vals)
    <3>1. GoodVals(<<>>)
      BY DEF GoodVals
    <3> QED BY <1>4, <1>6, <3>1, Typed
  <2> QED BY <2>1 DEF ChunksInv, GoodVals
<1>9. ListsInv'
  <2>1. \A k \in Keys : Kept(k)' => Kept(k) /\ k # key
    BY <1>1, <1>2, Bounds DEF Kept
  <2> QED BY <1>6, <2>1 DEF IInv, ListsInv
<1>10. AllFreed'
  BY <1>1, <1>4, <1>6 DEF IInv, AllFreed
<1>11. GatherInv'
  <2>1. ASSUME NEW t \in Threads, lists'[t][key].vals # <<>>
        PROVE  \E l \in (n + 2)..Len(itr.list_array) : itr.list_array[l] = t
    <3>1. t # u /\ lists[t][key].vals # <<>>
      BY <1>2, <1>4, <1>6, <2>1
    <3>2. PICK l \in (n + 1)..Len(itr.list_array) : itr.list_array[l] = t
      BY <1>1, <3>1 DEF IInv, GatherInv, InIterator, n
    <3>3. l # n + 1
      BY <3>1, <3>2 DEF u, n
    <3>4. l \in (n + 2)..Len(itr.list_array)
      BY <1>2, <3>2, <3>3
    <3> QED BY <3>2, <3>4
  <2>2. (n + 1) + 1 = n + 2
    BY <1>2
  <2> QED BY <1>1, <1>3, <2>1, <2>2 DEF GatherInv, InIterator
<1> QED BY <1>1, <1>7, <1>8, <1>9, <1>10, <1>11 DEF IInv, PointerInv, Done

LEMMA FreedKeeps == ASSUME IInv, Freed PROVE IInv'
<1>1. /\ phase = "free" /\ itr.current_list >= Len(itr.list_array) /\ itr' = iter_init
      /\ NextKey /\ lists' = lists /\ combiner' = combiner /\ emitted' = emitted
  BY DEF Freed, iter_reset, map
<1>2. itr.current_list \in Nat /\ Len(itr.list_array) \in Nat
  BY Typed
<1>3. \A l \in (itr.current_list + 1)..Len(itr.list_array) : FALSE
  BY <1>1, <1>2
<1>4. \A t \in Threads : lists[t][key].vals = <<>>
  BY <1>1, <1>3 DEF IInv, GatherInv, InIterator
<1> QED BY <1>1, <1>4, NextKeyKeeps

LEMMA StutterKeeps == ASSUME IInv, UNCHANGED vars PROVE IInv'
<1>1. /\ combiner' = combiner /\ emitted' = emitted /\ lists' = lists /\ phase' = phase
      /\ key' = key /\ turn' = turn /\ itr' = itr
  BY DEF vars, map, reduce
<1>2. TypeOK'
  BY <1>1 DEF IInv, TypeOK
<1>3. ChunksInv'
  BY <1>1 DEF IInv, ChunksInv, GoodVals
<1>4. ListsInv'
  BY <1>1 DEF IInv, ListsInv, Kept
<1>5. AllFreed' /\ Done'
  BY <1>1 DEF IInv, AllFreed, Done
<1>6. GatherInv'
  BY <1>1 DEF IInv, GatherInv, InIterator, iter_init
<1>7. PointerInv'
  BY <1>1 DEF IInv, PointerInv, Chunk
<1> QED BY <1>2, <1>3, <1>4, <1>5, <1>6, <1>7 DEF IInv

LEMMA IInvNext == IInv /\ [Next]_vars => IInv'
<1> SUFFICES ASSUME IInv, [Next]_vars PROVE IInv'
  OBVIOUS
<1>1. CASE \E t \in Threads, k \in Keys : emit_intermediate(t, k)
  BY <1>1, EmitKeeps
<1>2. CASE FinishMap
  BY <1>2, FinishMapKeeps
<1>3. CASE Gather
  BY <1>3, GatherKeeps
<1>4. CASE Gathered
  BY <1>4, GatheredKeeps
<1>5. CASE iter_next
  BY <1>5, NextKeeps
<1>6. CASE Reduced
  BY <1>6, ReducedKeeps
<1>7. CASE FreeList
  BY <1>7, FreeListKeeps
<1>8. CASE Freed
  BY <1>8, FreedKeeps
<1>9. CASE Finished \/ UNCHANGED vars
  BY <1>9, StutterKeeps DEF Finished
<1> QED BY <1>1, <1>2, <1>3, <1>4, <1>5, <1>6, <1>7, <1>8, <1>9 DEF Next, Worker

-----------------------------------------------------------------------------
(* What the invariant is for. *)

LEMMA Always == Spec => []IInv
<1>1. Init => IInv
  BY InitKeeps
<1>2. IInv /\ [Next]_vars => IInv'
  BY IInvNext
<1> QED BY <1>1, <1>2, PTL DEF Spec

\* The lists, the iterator and the place in the reduce worker keep their types, also
\* the records that insert_keyval_merged and run_combiner build.
THEOREM TypeCorrect == Spec => []TypeOK
<1>1. IInv => TypeOK
  BY DEF IInv
<1> QED BY <1>1, Always, PTL

\* What iter_next reads is never freed and was written: the pointer of the iterator is
\* in a chunk of its current list, not behind the values there (iterator.c).
THEOREM NoDangling == Spec => []PointerValid
<1>1. IInv => PointerValid
  <2> SUFFICES ASSUME IInv, phase = "reduce"
               PROVE  /\ itr.val # NULL /\ itr.val.thread = itr.list_array[itr.current_list + 1]
                      /\ itr.val.place \in DOMAIN lists[itr.val.thread][key].vals
                      /\ itr.current_index <= Len(Chunk(itr.val).array)
    BY DEF PointerValid
  <2>1. PointsTo(itr.current_list, itr.current_index, itr.val)
    BY ReduceState
  <2>2. itr.val # NULL
    BY <2>1, NullAssumption DEF PointsTo, Pointer
  <2> QED BY <2>1, <2>2 DEF PointsTo, Chunk
<1> QED BY <1>1, Always, PTL

\* The worker leaves no chunk of a key it is done with: what it frees after reduce
\* are the lists of all map workers that have chunks of the key (map_reduce.c).
THEOREM NoLeak == Spec => []AllFreed
<1>1. IInv => AllFreed
  BY DEF IInv
<1> QED BY <1>1, Always, PTL

\* insert_keyval_merged and run_combiner never write behind the end of a chunk, keep
\* a value in each, and leave room only in the first.
THEOREM NoOverrun == Spec => []ChunksFit
<1>1. IInv => ChunksFit
  <2> SUFFICES ASSUME IInv, NEW t \in Threads, NEW k \in Keys, NEW c \in DOMAIN lists[t][k].vals
               PROVE  /\ Len(lists[t][k].vals[c].array) \in 1..lists[t][k].vals[c].size
                      /\ c > 1 => Full(lists[t][k].vals[c])
    BY DEF ChunksFit
  <2> QED BY Typed DEF GoodVals, Full
<1> QED BY <1>1, Always, PTL
-----------------------------------------------------------------------------
(* Which values are in a list, and which of them reduce has got. *)

\* Place n of chunk c has a value, and emission e is in it.
Slot(vals, c, n)  == c \in 1..Len(vals) /\ n \in 1..Len(vals[c].array)
In(vals, c, n, e) == Slot(vals, c, n) /\ e \in vals[c].array[n]

\* The chunks have the first m emissions of map worker t, each once.
Holds(vals, t, m) ==
    /\ \A c, n, e : In(vals, c, n, e) => \E i \in 1..m : e = <<t, i>>
    /\ \A i \in 1..m : \E c, n : In(vals, c, n, <<t, i>>)
    /\ \A c, n, d, l, e : In(vals, c, n, e) /\ In(vals, d, l, e) => c = d /\ n = l

\* f[c] is the number of values in the first c chunks.
Counts(vals, f) ==
    /\ \A c \in 0..Len(vals) : f[c] \in Nat
    /\ f[0] = 0
    /\ \A c \in 1..Len(vals) : f[c] = f[c - 1] + Len(vals[c].array)
Counted(vals, len) == \E f : Counts(vals, f) /\ f[Len(vals)] = len

StoreInv ==
    /\ \A t \in Threads, k \in Keys : Kept(k) =>
          /\ Holds(lists[t][k].vals, t, emitted[t][k])
          /\ Counted(lists[t][k].vals, lists[t][k].len)
    /\ combiner = "incremental" => \A t \in Threads, k \in Keys : Len(lists[t][k].vals) <= 1

\* The iterator has no list twice, and knows how many values it has: g[l] is the
\* number of values in the first l lists.
Sizes(g) ==
    /\ \A l \in 0..Len(itr.list_array) : g[l] \in Nat
    /\ g[0] = 0
    /\ \A l \in 1..Len(itr.list_array) : g[l] = g[l - 1] + lists[itr.list_array[l]][key].len
Distinct == \A k, l \in 1..Len(itr.list_array) : itr.list_array[k] = itr.list_array[l] => k = l
OrderInv ==
    /\ phase \in {"gather", "reduce"} => Distinct
    /\ phase = "gather" =>
          /\ \A l \in 1..Len(itr.list_array) : itr.list_array[l] < turn
          /\ itr.list_array # <<>> => itr.val = First(itr.list_array[1])
          /\ \E g : Sizes(g) /\ itr.size = g[Len(itr.list_array)]

\* A place in the lists of the iterator, its value, and whether an iterator that
\* points behind value i of chunk v, in list d + 1, has passed it.
Chain(l)          == lists[itr.list_array[l]][key].vals
Position(l, c, n) == l \in 1..Len(itr.list_array) /\ Slot(Chain(l), c, n)
ValueAt(l, c, n)  == Chain(l)[c].array[n]
Passed(d, i, v, l, c, n) ==
    \/ l < d + 1
    \/ l = d + 1 /\ (c < v.place \/ (c = v.place /\ n <= i))

\* The values s are those that the iterator has passed, each once, and the number len
\* is their number.
GotInv(s, d, i, v) ==
    /\ s \in Seq(Emission)
    /\ \A m \in 1..Len(s) : \E l, c, n :
          Position(l, c, n) /\ Passed(d, i, v, l, c, n) /\ s[m] = ValueAt(l, c, n)
    /\ \A l, c, n : Position(l, c, n) /\ Passed(d, i, v, l, c, n) =>
          \E m \in 1..Len(s) : s[m] = ValueAt(l, c, n)
    /\ \A k, m \in 1..Len(s) : k # m => s[k] \cap s[m] = {}
CountInv(len, d, i, v) ==
    \E g, f : /\ Sizes(g) /\ itr.size = g[Len(itr.list_array)]
              /\ Counts(Chain(d + 1), f)
              /\ f[Len(Chain(d + 1))] = lists[itr.list_array[d + 1]][key].len
              /\ len = g[d] + f[v.place - 1] + i
WalkInv ==
    /\ phase \in {"map", "gather"} => got = <<>> /\ ended = FALSE
    /\ phase = "reduce" =>
          /\ GotInv(got, itr.current_list, itr.current_index, itr.val)
          /\ CountInv(Len(got), itr.current_list, itr.current_index, itr.val)
          /\ ended => ~ChunkLeft /\ ~ChainLeft /\ ~ListLeft

WInv == StoreInv /\ OrderInv /\ WalkInv

LEMMA ValsTyped ==
    ASSUME NEW vals \in Seq(val_t)
    PROVE  /\ Len(vals) \in Nat /\ DOMAIN vals = 1..Len(vals)
           /\ \A c \in 1..Len(vals) : /\ vals[c] \in val_t /\ vals[c].array \in Seq(Emission)
                                      /\ Len(vals[c].array) \in Nat
<1>1. Len(vals) \in Nat /\ DOMAIN vals = 1..Len(vals) /\ \A c \in 1..Len(vals) : vals[c] \in val_t
  OBVIOUS
<1>2. \A c \in 1..Len(vals) : vals[c].array \in Seq(Emission)
  BY <1>1, ChunkRecord
<1>3. \A s \in Seq(Emission) : Len(s) \in Nat
  OBVIOUS
<1> QED BY <1>1, <1>2, <1>3

\* A value more in the first chunk.
LEMMA ValueAppended ==
    ASSUME NEW vals \in Seq(val_t), vals # <<>>, NEW new \in Seq(val_t), Len(new) = Len(vals),
           NEW t, NEW m \in Nat, new[1].array = Append(vals[1].array, {<<t, m + 1>>}),
           \A c \in 2..Len(vals) : new[c] = vals[c]
    PROVE  /\ Holds(vals, t, m) => Holds(new, t, m + 1)
           /\ \A len : Counted(vals, len) => Counted(new, len + 1)
<1> DEFINE N == Len(vals[1].array)
<1>1. /\ Len(vals) \in Nat \ {0} /\ 1 \in 1..Len(vals) /\ N \in Nat
      /\ vals[1].array \in Seq(Emission)
      /\ \A c \in 1..Len(vals) : Len(vals[c].array) \in Nat
  BY ValsTyped, NonEmpty
<1>2. /\ Len(new[1].array) = N + 1 /\ new[1].array[N + 1] = {<<t, m + 1>>}
      /\ \A n \in 1..N : new[1].array[n] = vals[1].array[n]
  <2> DEFINE s == vals[1].array
             x == {<<t, m + 1>>}
  <2>1. s \in Seq(Emission) /\ Len(s) \in Nat
    BY <1>1
  <2> HIDE DEF s, x
  <2>2. /\ Len(Append(s, x)) = Len(s) + 1 /\ Append(s, x)[Len(s) + 1] = x
        /\ \A n \in 1..Len(s) : Append(s, x)[n] = s[n]
    BY <2>1
  <2> QED BY <2>2 DEF s, x
<1>3. \A c : c \in 1..Len(vals) => c = 1 \/ c \in 2..Len(vals)
  BY <1>1
<1>4. \A c, n : Slot(new, c, n) <=> Slot(vals, c, n) \/ (c = 1 /\ n = N + 1)
  <2>1. \A n : n \in 1..(N + 1) <=> n \in 1..N \/ n = N + 1
    BY <1>1
  <2> HIDE DEF N
  <2>2. \A n : Slot(new, 1, n) <=> Slot(vals, 1, n) \/ n = N + 1
    BY <1>1, <1>2, <2>1 DEF Slot, N
  <2>3. \A c, n : c # 1 => (Slot(new, c, n) <=> Slot(vals, c, n))
    BY <1>3 DEF Slot
  <2> QED BY <2>2, <2>3
<1>5. \A c, n, e : In(new, c, n, e) <=>
         In(vals, c, n, e) \/ (c = 1 /\ n = N + 1 /\ e = <<t, m + 1>>)
  <2> TAKE c, n, e
  <2>1. CASE c = 1 /\ n = N + 1
    <3>1. ~Slot(vals, c, n)
      BY <1>1, <2>1 DEF Slot
    <3> QED BY <1>2, <1>4, <2>1, <3>1 DEF In
  <2>2. CASE ~(c = 1 /\ n = N + 1)
    <3>1. Slot(vals, c, n) => new[c].array[n] = vals[c].array[n]
      BY <1>2, <1>3 DEF Slot
    <3> QED BY <1>4, <2>2, <3>1 DEF In
  <2> QED BY <2>1, <2>2
<1>6. ASSUME Holds(vals, t, m) PROVE Holds(new, t, m + 1)
  <2>1. \A i : i \in 1..(m + 1) <=> i \in 1..m \/ i = m + 1
    OBVIOUS
  <2>2. \A c, n, e : In(new, c, n, e) => \E i \in 1..(m + 1) : e = <<t, i>>
    BY <1>5, <1>6, <2>1 DEF Holds
  <2>3. ASSUME NEW i \in 1..(m + 1) PROVE \E c, n : In(new, c, n, <<t, i>>)
    <3>1. CASE i = m + 1
      <4>1. In(new, 1, N + 1, <<t, i>>)
        BY <1>5, <3>1
      <4> QED BY <4>1
    <3>2. CASE i \in 1..m
      <4>1. PICK c, n : In(vals, c, n, <<t, i>>)
        BY <1>6, <3>2 DEF Holds
      <4>2. In(new, c, n, <<t, i>>)
        BY <1>5, <4>1
      <4> QED BY <4>2
    <3> QED BY <2>1, <3>1, <3>2
  <2>4. \A c, n : ~In(vals, c, n, <<t, m + 1>>)
    <3> SUFFICES ASSUME NEW c, NEW n, In(vals, c, n, <<t, m + 1>>) PROVE FALSE
      OBVIOUS
    <3>1. PICK i \in 1..m : <<t, m + 1>> = <<t, i>>
      BY <1>6 DEF Holds
    <3> QED BY <3>1
  <2>5. \A c, n, d, l, e : In(new, c, n, e) /\ In(new, d, l, e) => c = d /\ n = l
    BY <1>5, <1>6, <2>4 DEF Holds
  <2> QED BY <2>2, <2>3, <2>5 DEF Holds
<1>7. ASSUME NEW len, Counted(vals, len) PROVE Counted(new, len + 1)
  <2>1. PICK f : Counts(vals, f) /\ f[Len(vals)] = len
    BY <1>7 DEF Counted
  <2> DEFINE g == [c \in 0..Len(vals) |-> IF c = 0 THEN 0 ELSE f[c] + 1]
  <2>2. \A c \in 0..Len(new) : g[c] \in Nat
    BY <2>1 DEF Counts
  <2>3. g[0] = 0
    BY <1>1
  <2>4. ASSUME NEW c \in 1..Len(new) PROVE g[c] = g[c - 1] + Len(new[c].array)
    <3>1. /\ c \in 1..Len(vals) /\ c \in 0..Len(vals) /\ c - 1 \in 0..Len(vals)
          /\ c # 0 /\ f[c - 1] \in Nat /\ f[c] = f[c - 1] + Len(vals[c].array)
      BY <1>1, <2>1 DEF Counts
    <3>2. CASE c = 1
      <4>1. f[c] = N /\ g[c] = f[c] + 1 /\ g[c - 1] = 0 /\ Len(new[c].array) = N + 1
        BY <1>1, <1>2, <2>1, <3>1, <3>2 DEF Counts
      <4> QED BY <1>1, <4>1
    <3>3. CASE c # 1
      <4>1. c \in 2..Len(vals) /\ c - 1 # 0
        BY <3>1, <3>3
      <4>2. new[c] = vals[c] /\ Len(vals[c].array) \in Nat
        BY <1>1, <3>1, <4>1
      <4>3. g[c] = f[c] + 1 /\ g[c - 1] = f[c - 1] + 1
        BY <3>1, <4>1
      <4> QED BY <3>1, <4>2, <4>3
    <3> QED BY <3>2, <3>3
  <2>5. g[Len(new)] = len + 1
    BY <1>1, <2>1
  <2> HIDE DEF g
  <2> QED BY <2>2, <2>3, <2>4, <2>5 DEF Counts, Counted
<1> QED BY <1>6, <1>7

\* An empty chunk in front of the others.
LEMMA ChunkAdded ==
    ASSUME NEW vals \in Seq(val_t), NEW new \in Seq(val_t), Len(new) = Len(vals) + 1,
           new[1].array = <<>>, \A c \in 2..(Len(vals) + 1) : new[c] = vals[c - 1]
    PROVE  /\ \A t, m : Holds(vals, t, m) => Holds(new, t, m)
           /\ \A len : Counted(vals, len) => Counted(new, len)
<1>1. Len(vals) \in Nat /\ \A c \in 1..Len(vals) : Len(vals[c].array) \in Nat
  BY ValsTyped
<1>2. Len(new[1].array) = 0 /\ \A n : n \notin 1..Len(new[1].array)
  OBVIOUS
<1>3. \A c, n, e : In(new, c, n, e) <=> c \in 2..(Len(vals) + 1) /\ In(vals, c - 1, n, e)
  <2> TAKE c, n, e
  <2>1. CASE c \in 2..(Len(vals) + 1)
    <3>1. new[c] = vals[c - 1] /\ c \in 1..Len(new) /\ c - 1 \in 1..Len(vals)
      BY <1>1, <2>1
    <3> QED BY <2>1, <3>1 DEF In, Slot
  <2>2. CASE c \notin 2..(Len(vals) + 1)
    <3>1. c \in 1..Len(new) => c = 1
      BY <1>1, <2>2
    <3> QED BY <1>2, <2>2, <3>1 DEF In, Slot
  <2> QED BY <2>1, <2>2
<1>4. \A c, n, e : In(vals, c, n, e) => c \in 1..Len(vals) /\ In(new, c + 1, n, e)
  <2> SUFFICES ASSUME NEW c, NEW n, NEW e, In(vals, c, n, e)
               PROVE  c \in 1..Len(vals) /\ In(new, c + 1, n, e)
    OBVIOUS
  <2>1. c \in 1..Len(vals)
    BY DEF In, Slot
  <2>2. c + 1 \in 2..(Len(vals) + 1) /\ (c + 1) - 1 = c
    BY <1>1, <2>1
  <2> QED BY <1>3, <2>1, <2>2
<1>5. ASSUME NEW t, NEW m, Holds(vals, t, m) PROVE Holds(new, t, m)
  <2>1. \A c, n, e : In(new, c, n, e) => \E i \in 1..m : e = <<t, i>>
    BY <1>3, <1>5 DEF Holds
  <2>2. \A i \in 1..m : \E c, n : In(new, c, n, <<t, i>>)
    BY <1>4, <1>5 DEF Holds
  <2>3. ASSUME NEW c, NEW n, NEW d, NEW l, NEW e, In(new, c, n, e), In(new, d, l, e)
        PROVE  c = d /\ n = l
    <3>1. /\ c \in 2..(Len(vals) + 1) /\ d \in 2..(Len(vals) + 1)
          /\ In(vals, c - 1, n, e) /\ In(vals, d - 1, l, e)
      BY <1>3, <2>3
    <3>2. c - 1 = d - 1 /\ n = l
      BY <1>5, <3>1 DEF Holds
    <3> QED BY <1>1, <3>1, <3>2
  <2> QED BY <2>1, <2>2, <2>3 DEF Holds
<1>6. ASSUME NEW len, Counted(vals, len) PROVE Counted(new, len)
  <2>1. PICK f : Counts(vals, f) /\ f[Len(vals)] = len
    BY <1>6 DEF Counted
  <2> DEFINE g == [c \in 0..Len(new) |-> IF c = 0 THEN 0 ELSE f[c - 1]]
  <2>2. \A c \in 0..Len(new) : g[c] \in Nat
    <3>1. \A c \in 0..Len(new) : c = 0 \/ c - 1 \in 0..Len(vals)
      BY <1>1
    <3> QED BY <2>1, <3>1 DEF Counts
  <2>3. g[0] = 0
    BY <1>1
  <2>4. ASSUME NEW c \in 1..Len(new) PROVE g[c] = g[c - 1] + Len(new[c].array)
    <3>1. c \in 0..Len(new) /\ c - 1 \in 0..Len(new) /\ c # 0 /\ c \in Nat
      BY <1>1
    <3>2. CASE c = 1
      <4>1. g[c] = 0 /\ g[c - 1] = 0 /\ Len(new[c].array) = 0
        BY <1>2, <2>1, <3>1, <3>2 DEF Counts
      <4> QED BY <4>1
    <3>3. CASE c # 1
      <4>1. c \in 2..(Len(vals) + 1) /\ c - 1 # 0 /\ c - 1 \in 1..Len(vals)
        BY <1>1, <3>1, <3>3
      <4>2. g[c] = f[c - 1] /\ g[c - 1] = f[(c - 1) - 1]
        BY <3>1, <4>1
      <4>3. f[c - 1] = f[(c - 1) - 1] + Len(vals[c - 1].array)
        BY <2>1, <4>1 DEF Counts
      <4> QED BY <4>1, <4>2, <4>3
    <3> QED BY <3>2, <3>3
  <2>5. g[Len(new)] = len
    <3>1. Len(new) \in 0..Len(new) /\ Len(new) # 0 /\ Len(new) - 1 = Len(vals)
      BY <1>1
    <3> QED BY <2>1, <3>1
  <2> HIDE DEF g
  <2> QED BY <2>2, <2>3, <2>4, <2>5 DEF Counts, Counted
<1> QED BY <1>5, <1>6

\* All values of a list in one.
LEMMA ValuesCombined ==
    ASSUME NEW vals \in Seq(val_t), NEW new \in Seq(val_t), Len(new) = 1, NEW x,
           new[1].array = <<x>>, \A e : e \in x <=> \E c, n : In(vals, c, n, e)
    PROVE  /\ \A t, m : Holds(vals, t, m) => Holds(new, t, m)
           /\ Counted(new, 1)
<1>1. Len(new[1].array) = 1 /\ new[1].array[1] = x
  OBVIOUS
<1>2. \A c, n, e : In(new, c, n, e) <=> c = 1 /\ n = 1 /\ e \in x
  <2>1. \A c : c \in 1..1 <=> c = 1
    OBVIOUS
  <2> QED BY <1>1, <2>1 DEF In, Slot
<1>3. ASSUME NEW t, NEW m, Holds(vals, t, m) PROVE Holds(new, t, m)
  <2>1. \A c, n, e : In(new, c, n, e) => \E i \in 1..m : e = <<t, i>>
    BY <1>2, <1>3 DEF Holds
  <2>2. \A i \in 1..m : \E c, n : In(new, c, n, <<t, i>>)
    BY <1>2, <1>3 DEF Holds
  <2>3. \A c, n, d, l, e : In(new, c, n, e) /\ In(new, d, l, e) => c = d /\ n = l
    BY <1>2
  <2> QED BY <2>1, <2>2, <2>3 DEF Holds
<1>4. Counted(new, 1)
  <2> DEFINE g == [c \in 0..1 |-> c]
  <2>1. ASSUME NEW c \in 1..Len(new) PROVE g[c] = g[c - 1] + Len(new[c].array)
    <3>1. c = 1 /\ c - 1 = 0
      OBVIOUS
    <3>2. g[c] = 1 /\ g[c - 1] = 0
      BY <3>1
    <3>3. new[c].array = new[1].array /\ Len(new[c].array) = 1
      BY <1>1, <3>1
    <3> HIDE DEF g
    <3>4. 1 = 0 + Len(new[c].array)
      BY <3>3
    <3> QED BY <3>2, <3>4
  <2>2. /\ \A c \in 0..Len(new) : g[c] \in Nat
        /\ g[0] = 0 /\ g[Len(new)] = 1
    OBVIOUS
  <2> HIDE DEF g
  <2> QED BY <2>1, <2>2 DEF Counted, Counts
<1> QED BY <1>3, <1>4

LEMMA CombinedIs ==
    ASSUME NEW list \in keyvals_t
    PROVE  \A e : e \in Combined(list) <=> \E c, n : In(list.vals, c, n, e)
<1>1. list.vals \in Seq(val_t)
  BY ListRecord
<1>2. /\ DOMAIN list.vals = 1..Len(list.vals)
      /\ \A c \in 1..Len(list.vals) : list.vals[c].array \in Seq(Emission)
  BY <1>1, ValsTyped
<1>3. \A c \in 1..Len(list.vals) :
         /\ DOMAIN list.vals[c].array = 1..Len(list.vals[c].array)
         /\ \A n \in 1..Len(list.vals[c].array) : list.vals[c].array[n] \in Emission
  <2>1. \A s \in Seq(Emission) : DOMAIN s = 1..Len(s) /\ \A n \in 1..Len(s) : s[n] \in Emission
    OBVIOUS
  <2> QED BY <1>2, <2>1
<1>4. \A c, n, e : In(list.vals, c, n, e) => e \in Threads \X (1..MaxValues)
  BY <1>3 DEF In, Slot, Emission
<1> QED BY <1>2, <1>3, <1>4 DEF Combined, In, Slot

\* WithRoom loses no value, and repeats none.
LEMMA RoomKeeps ==
    ASSUME NEW list \in keyvals_t, GoodVals(list.vals), NEW t, NEW m,
           Holds(list.vals, t, m), Counted(list.vals, list.len),
           combiner = "incremental" => Len(list.vals) <= 1
    PROVE  LET w == WithRoom(list)
           IN  /\ Holds(w.vals, t, m) /\ Counted(w.vals, w.len)
               /\ combiner = "incremental" => Len(w.vals) <= 1
<1> DEFINE w == WithRoom(list)
           vals == list.vals
<1>0. vals \in Seq(val_t) /\ list.len \in Nat /\ w \in keyvals_t /\ w.vals \in Seq(val_t)
  BY ListRecord, WithRoomLemma
<1> HIDE DEF w, vals
<1>1. CASE vals = <<>>
  <2> DEFINE chunk == [size |-> DEFAULT_VALS_ARR_LEN, array |-> <<>>]
  <2>1. chunk.array = <<>>
    OBVIOUS
  <2>2. w = [len |-> list.len, vals |-> <<chunk>>]
    BY <1>1, WithRoomIs DEF vals, w
  <2> HIDE DEF chunk
  <2>3. w.len = list.len /\ w.vals = <<chunk>>
    BY <2>2
  <2>4. Len(w.vals) = 1 /\ w.vals[1].array = <<>> /\ Len(vals) = 0
    BY <1>1, <2>1, <2>3
  <2>5. Len(w.vals) = Len(vals) + 1 /\ \A c \in 2..(Len(vals) + 1) : w.vals[c] = vals[c - 1]
    BY <2>4
  <2>6. Holds(w.vals, t, m) /\ Counted(w.vals, list.len)
    BY <1>0, <2>4, <2>5, ChunkAdded DEF vals
  <2> QED BY <2>3, <2>4, <2>6 DEF w
<1>2. CASE vals # <<>> /\ ~Full(vals[1])
  <2>1. w = list
    BY <1>2, WithRoomIs DEF vals, w
  <2> QED BY <2>1 DEF w
<1>3. CASE vals # <<>> /\ Full(vals[1]) /\ combiner = "incremental"
  <2> DEFINE x == Combined(list)
             chunk == [size |-> vals[1].size, array |-> <<x>>]
             new == [vals EXCEPT ![1] = chunk]
  <2>1. chunk.array = <<x>>
    OBVIOUS
  <2>2. w = [len |-> 1, vals |-> new]
    BY <1>3, WithRoomIs DEF vals, w
  <2> HIDE DEF chunk, x
  <2>3. Len(vals) = 1
    <3>1. Len(vals) \in Nat \ {0}
      BY <1>0, <1>3, NonEmpty
    <3>2. Len(vals) <= 1
      BY <1>3 DEF vals
    <3>3. \A n \in Nat \ {0} : n <= 1 => n = 1
      OBVIOUS
    <3> QED BY <3>1, <3>2, <3>3, Zenon
  <2>4. Len(new) = 1 /\ new[1] = chunk
    BY <1>0, <2>3
  <2> HIDE DEF new
  <2>5. w.len = 1 /\ w.vals = new
    BY <2>2
  <2>6. \A e : e \in x <=> \E c, n : In(vals, c, n, e)
    BY CombinedIs DEF x, vals
  <2>7. Len(w.vals) = 1 /\ w.vals[1].array = <<x>>
    BY <2>1, <2>4, <2>5
  <2>8. Holds(w.vals, t, m) /\ Counted(w.vals, 1)
    BY <1>0, <2>6, <2>7, ValuesCombined DEF vals
  <2> QED BY <2>5, <2>7, <2>8 DEF w
<1>4. CASE vals # <<>> /\ Full(vals[1]) /\ combiner # "incremental"
  <2> DEFINE chunk == [size |-> 2 * vals[1].size, array |-> <<>>]
             new == <<chunk>> \o vals
  <2>1. chunk.array = <<>>
    OBVIOUS
  <2>2. w = [len |-> list.len, vals |-> new]
    BY <1>4, WithRoomIs DEF vals, w
  <2> HIDE DEF chunk
  <2>3. /\ Len(new) = Len(vals) + 1 /\ new[1] = chunk
        /\ \A c \in 2..(Len(vals) + 1) : new[c] = vals[c - 1]
    BY <1>0
  <2> HIDE DEF new
  <2>4. w.len = list.len /\ w.vals = new
    BY <2>2
  <2>5. new[1].array = <<>>
    BY <2>1, <2>3
  <2>6. Holds(w.vals, t, m) /\ Counted(w.vals, list.len)
    BY <1>0, <2>3, <2>4, <2>5, ChunkAdded DEF vals
  <2> QED BY <1>4, <2>4, <2>6 DEF w
<1> QED BY <1>1, <1>2, <1>3, <1>4

\* insert_keyval_merged adds its value.
LEMMA InsertKeeps ==
    ASSUME NEW list \in keyvals_t, GoodVals(list.vals), NEW t \in Threads,
           NEW m \in Nat, m + 1 \in 1..MaxValues,
           Holds(list.vals, t, m), Counted(list.vals, list.len),
           combiner = "incremental" => Len(list.vals) <= 1
    PROVE  LET new == Inserted(list, {<<t, m + 1>>})
           IN  /\ Holds(new.vals, t, m + 1) /\ Counted(new.vals, new.len)
               /\ combiner = "incremental" => Len(new.vals) <= 1
<1> DEFINE x == {<<t, m + 1>>}
           new == Inserted(list, x)
           w == WithRoom(list)
<1>1. x \in Emission
  BY DEF Emission
<1>2. Holds(w.vals, t, m) /\ Counted(w.vals, w.len) /\ (combiner = "incremental" => Len(w.vals) <= 1)
  BY RoomKeeps
<1> HIDE DEF x
<1>3. /\ w \in keyvals_t /\ HasRoom(w.vals)
      /\ new \in keyvals_t /\ new.len = w.len + 1 /\ Len(new.vals) = Len(w.vals)
      /\ new.vals[1].array = Append(w.vals[1].array, x)
      /\ \A c \in 2..Len(w.vals) : new.vals[c] = w.vals[c]
  BY <1>1, InsertedIs
<1> HIDE DEF new, w
<1>4. w.vals \in Seq(val_t) /\ new.vals \in Seq(val_t) /\ w.vals # <<>>
  BY <1>3, ListRecord DEF HasRoom
<1>5. new.vals[1].array = Append(w.vals[1].array, {<<t, m + 1>>})
  BY <1>3 DEF x
<1>6. Holds(new.vals, t, m + 1) /\ Counted(new.vals, w.len + 1)
  BY <1>2, <1>3, <1>4, <1>5, ValueAppended
<1> QED BY <1>2, <1>3, <1>6 DEF new, x

\* run_combiner makes one value of all.
LEMMA CombinerKeeps ==
    ASSUME NEW list \in keyvals_t, GoodVals(list.vals), list.vals # <<>>, NEW t, NEW m,
           Holds(list.vals, t, m)
    PROVE  LET new == run_combiner(list)
           IN  Holds(new.vals, t, m) /\ Counted(new.vals, new.len) /\ Len(new.vals) <= 1
<1> DEFINE new == run_combiner(list)
           x == Combined(list)
<1>1. /\ new \in keyvals_t /\ new.len = 1 /\ Len(new.vals) = 1 /\ new.vals[1].array = <<x>>
  BY RunCombiner
<1>2. \A e : e \in x <=> \E c, n : In(list.vals, c, n, e)
  BY CombinedIs
<1> HIDE DEF new, x
<1>3. new.vals \in Seq(val_t) /\ list.vals \in Seq(val_t)
  BY <1>1, ListRecord
<1>4. Holds(new.vals, t, m) /\ Counted(new.vals, 1)
  BY <1>1, <1>2, <1>3, ValuesCombined
<1> QED BY <1>1, <1>4 DEF new

-----------------------------------------------------------------------------
(* The steps, for the values in the lists. *)

LEMMA StoreInit == Init => StoreInv
<1> SUFFICES ASSUME Init PROVE StoreInv
  OBVIOUS
<1>1. \A t \in Threads, k \in Keys : /\ lists[t][k].vals = <<>> /\ lists[t][k].len = 0
                                    /\ emitted[t][k] = 0
  BY DEF Init, NoList
<1>2. Len(<<>>) = 0 /\ 0 <= 1 /\ \A i : i \notin 1..0
  OBVIOUS
<1>3. \A t : Holds(<<>>, t, 0)
  BY <1>2 DEF Holds, In, Slot
<1>4. Counted(<<>>, 0)
  <2> DEFINE f == [c \in 0..0 |-> 0]
  <2>1. /\ \A c \in 0..Len(<<>>) : f[c] \in Nat
        /\ f[0] = 0 /\ f[Len(<<>>)] = 0
        /\ \A c \in 1..Len(<<>>) : FALSE
    BY <1>2
  <2> HIDE DEF f
  <2> QED BY <2>1 DEF Counted, Counts
<1> QED BY <1>1, <1>2, <1>3, <1>4 DEF StoreInv

LEMMA StoreEmit ==
    ASSUME IInv, StoreInv, NEW t \in Threads, NEW k \in Keys, emit_intermediate(t, k)
    PROVE  StoreInv'
<1> DEFINE m == emitted[t][k]
           new == Inserted(lists[t][k], {<<t, m + 1>>})
<1>1. /\ phase = "map" /\ phase' = phase /\ key' = key /\ m < MaxValues /\ combiner' = combiner
      /\ emitted' = [emitted EXCEPT ![t][k] = m + 1]
      /\ lists' = [lists EXCEPT ![t][k] = Inserted(@, {<<t, emitted'[t][k]>>})]
  BY DEF emit_intermediate, reduce
<1>2. /\ lists \in [Threads -> [Keys -> keyvals_t]]
      /\ emitted \in [Threads -> [Keys -> 0..MaxValues]] /\ key = 1
  BY <1>1 DEF IInv, TypeOK, GatherInv
<1>3. m \in Nat /\ m + 1 \in 1..MaxValues
  <2>1. m \in 0..MaxValues
    BY <1>2
  <2> QED BY <1>1, <2>1, Bounds
<1>4. \A u \in Threads, j \in Keys :
         /\ emitted'[u][j] = IF u = t /\ j = k THEN m + 1 ELSE emitted[u][j]
         /\ lists'[u][j] = IF u = t /\ j = k THEN new ELSE lists[u][j]
  <2>1. \A u \in Threads, j \in Keys :
           emitted'[u][j] = IF u = t /\ j = k THEN m + 1 ELSE emitted[u][j]
    BY <1>1, <1>2
  <2>2. emitted'[t][k] = m + 1
    BY <2>1
  <2>3. lists' = [lists EXCEPT ![t][k] = new]
    BY <1>1, <2>2
  <2> HIDE DEF new, m
  <2> QED BY <1>2, <2>1, <2>3
<1>5. Kept(k)
  BY <1>1, <1>2, Bounds DEF Kept
<1>6. /\ Holds(lists[t][k].vals, t, m) /\ Counted(lists[t][k].vals, lists[t][k].len)
      /\ combiner = "incremental" => Len(lists[t][k].vals) <= 1
  BY <1>5 DEF StoreInv
<1>7. lists[t][k] \in keyvals_t /\ GoodVals(lists[t][k].vals)
  BY Typed
<1> HIDE DEF m
<1>8. /\ Holds(new.vals, t, m + 1) /\ Counted(new.vals, new.len)
      /\ combiner = "incremental" => Len(new.vals) <= 1
  BY <1>3, <1>6, <1>7, InsertKeeps
<1> HIDE DEF new
<1>9. ASSUME NEW u \in Threads, NEW j \in Keys, Kept(j)'
      PROVE  Holds(lists'[u][j].vals, u, emitted'[u][j]) /\ Counted(lists'[u][j].vals, lists'[u][j].len)
  <2>1. Kept(j)
    BY <1>1, <1>9 DEF Kept
  <2>2. CASE u = t /\ j = k
    BY <1>4, <1>8, <2>2
  <2>3. CASE ~(u = t /\ j = k)
    BY <1>4, <2>1, <2>3 DEF StoreInv
  <2> QED BY <2>2, <2>3
<1>10. combiner' = "incremental" => \A u \in Threads, j \in Keys : Len(lists'[u][j].vals) <= 1
  <2> SUFFICES ASSUME combiner = "incremental", NEW u \in Threads, NEW j \in Keys
               PROVE  Len(lists'[u][j].vals) <= 1
    BY <1>1
  <2>1. CASE u = t /\ j = k
    BY <1>4, <1>8, <2>1
  <2>2. CASE ~(u = t /\ j = k)
    BY <1>4, <2>2 DEF StoreInv
  <2> QED BY <2>1, <2>2
<1> QED BY <1>9, <1>10 DEF StoreInv, Holds, Counted, Counts, In, Slot

LEMMA StoreFinishMap == ASSUME IInv, StoreInv, FinishMap PROVE StoreInv'
<1>1. /\ phase = "map" /\ phase' = "gather" /\ key' = key
      /\ combiner' = combiner /\ emitted' = emitted
      /\ \A t \in Threads, k \in Keys :
            lists'[t][k] = IF combiner = "after_map" /\ lists[t][k].len > 0
                             THEN run_combiner(lists[t][k]) ELSE lists[t][k]
  BY DEF FinishMap, map
<1>2. \A k \in Keys : Kept(k)
  BY <1>1, Bounds DEF IInv, GatherInv, Kept
<1>3. ASSUME NEW t \in Threads, NEW k \in Keys
      PROVE  /\ Holds(lists'[t][k].vals, t, emitted'[t][k])
             /\ Counted(lists'[t][k].vals, lists'[t][k].len)
             /\ combiner' = "incremental" => Len(lists'[t][k].vals) <= 1
  <2>1. /\ Holds(lists[t][k].vals, t, emitted[t][k])
        /\ Counted(lists[t][k].vals, lists[t][k].len)
        /\ combiner = "incremental" => Len(lists[t][k].vals) <= 1
    BY <1>2 DEF StoreInv
  <2>2. CASE combiner = "after_map" /\ lists[t][k].len > 0
    <3>1. /\ lists[t][k] \in keyvals_t /\ GoodVals(lists[t][k].vals) /\ lists[t][k].vals # <<>>
      BY <1>2, <2>2, Typed DEF IInv, ListsInv
    <3> DEFINE new == run_combiner(lists[t][k])
    <3>2. /\ Holds(new.vals, t, emitted[t][k]) /\ Counted(new.vals, new.len)
          /\ Len(new.vals) <= 1
      BY <2>1, <3>1, CombinerKeeps
    <3>3. lists'[t][k] = new
      BY <1>1, <2>2
    <3> HIDE DEF new
    <3> QED BY <1>1, <3>2, <3>3
  <2>3. CASE ~(combiner = "after_map" /\ lists[t][k].len > 0)
    BY <1>1, <2>1, <2>3
  <2> QED BY <2>2, <2>3
<1>4. \A t \in Threads, k \in Keys : Kept(k)' =>
         Holds(lists'[t][k].vals, t, emitted'[t][k]) /\ Counted(lists'[t][k].vals, lists'[t][k].len)
  BY <1>3
<1>5. combiner' = "incremental" => \A t \in Threads, k \in Keys : Len(lists'[t][k].vals) <= 1
  BY <1>3
<1> QED BY <1>4, <1>5 DEF StoreInv, Holds, Counted, Counts, In, Slot

\* A step after the map phase leaves the lists that are kept, and opens no chunk.
LEMMA StoreKept ==
    ASSUME StoreInv, combiner' = combiner, emitted' = emitted,
           \A k \in Keys : Kept(k)' => Kept(k) /\ \A t \in Threads : lists'[t][k] = lists[t][k],
           \A t \in Threads, k \in Keys : lists'[t][k] = lists[t][k] \/ lists'[t][k].vals = <<>>
    PROVE  StoreInv'
<1>1. ASSUME NEW t \in Threads, NEW k \in Keys, Kept(k)'
      PROVE  Holds(lists'[t][k].vals, t, emitted'[t][k]) /\ Counted(lists'[t][k].vals, lists'[t][k].len)
  BY <1>1 DEF StoreInv
<1>2. combiner' = "incremental" => \A t \in Threads, k \in Keys : Len(lists'[t][k].vals) <= 1
  <2>1. Len(<<>>) = 0
    OBVIOUS
  <2> QED BY <2>1 DEF StoreInv
<1> QED BY <1>1, <1>2 DEF StoreInv, Holds, Counted, Counts, In, Slot

-----------------------------------------------------------------------------
(* The steps, for the values in the iterator. *)

LEMMA SizeIs ==
    ASSUME itr \in iterator_t
    PROVE  /\ iter_init.size = 0
           /\ \A t \in Threads : iter_add(t).size = itr.size + lists[t][key].len
           /\ \A c, i, v : At(itr, c, i, v).size = itr.size
<1>1. iter_init.size = 0
  BY DEF iter_init
<1>2. ASSUME NEW t \in Threads PROVE iter_add(t).size = itr.size + lists[t][key].len
  <2> DEFINE a == Append(itr.list_array, t)
             v == IF itr.list_array = <<>> THEN First(t) ELSE itr.val
             n == itr.size + lists[t][key].len
  <2>1. iter_add(t) = [itr EXCEPT !.list_array = a, !.val = v, !.size = n]
    BY DEF iter_add
  <2> HIDE DEF a, v, n
  <2>2. iter_add(t).size = n
    BY <2>1 DEF iterator_t
  <2> QED BY <2>2 DEF n
<1>3. \A c, i, v : At(itr, c, i, v).size = itr.size
  BY DEF At
<1> QED BY <1>1, <1>2, <1>3

\* An iterator without lists.
LEMMA OrderEmpty == ASSUME itr' = iter_init PROVE OrderInv'
<1>1. itr'.list_array = <<>> /\ itr'.size = 0
  BY DEF iter_init
<1>2. Len(itr'.list_array) = 0 /\ \A l : l \notin 1..0
  BY <1>1
<1> DEFINE g == [l \in 0..0 |-> 0]
<1>3. /\ \A l \in 0..Len(itr'.list_array) : g[l] \in Nat
      /\ g[0] = 0 /\ itr'.size = g[Len(itr'.list_array)]
  BY <1>1, <1>2
<1> HIDE DEF g
<1>4. Sizes(g)'
  BY <1>2, <1>3 DEF Sizes
<1>5. \E h : Sizes(h)' /\ itr'.size = h[Len(itr'.list_array)]
  BY <1>3, <1>4
<1>6. Distinct' /\ \A l \in 1..Len(itr'.list_array) : itr'.list_array[l] < turn'
  BY <1>2 DEF Distinct
<1> QED BY <1>1, <1>5, <1>6 DEF OrderInv

LEMMA OrderGather == ASSUME IInv, OrderInv, Gather PROVE OrderInv'
<1> DEFINE la == itr.list_array
           n  == Len(la)
<1>1. /\ phase = "gather" /\ turn \in Threads /\ phase' = phase /\ key' = key
      /\ itr' = IF lists[turn][key].len > 0 THEN iter_add(turn) ELSE itr
      /\ turn' = turn + 1 /\ lists' = lists
  BY DEF Gather
<1>2. /\ itr \in iterator_t /\ la \in Seq(Threads) /\ n \in Nat /\ turn \in Nat
      /\ \A l \in 1..n : la[l] \in Threads /\ la[l] \in Nat
      /\ lists[turn][key].len \in Nat
  <2>1. /\ itr \in iterator_t /\ la \in Seq(Threads) /\ key \in Keys
        /\ \A l \in 1..n : la[l] \in Threads
    BY Typed
  <2>2. \A t \in Threads : t \in Nat
    BY Bounds
  <2>3. lists[turn][key].len \in Nat
    BY <1>1, <2>1, Typed
  <2>4. n \in Nat
    BY <2>1
  <2> QED BY <1>1, <2>1, <2>2, <2>3, <2>4
<1>3. /\ Distinct /\ \A l \in 1..n : la[l] < turn
      /\ la # <<>> => itr.val = First(la[1])
  BY <1>1 DEF OrderInv
<1>4. PICK g : Sizes(g) /\ itr.size = g[n]
  BY <1>1 DEF OrderInv
<1>5. CASE lists[turn][key].len > 0
  <2> DEFINE a == Append(la, turn)
  <2>1. /\ itr'.list_array = a
        /\ itr'.val = IF la = <<>> THEN First(turn) ELSE itr.val
        /\ itr'.size = itr.size + lists[turn][key].len
    BY <1>1, <1>2, <1>5, AddIs, SizeIs
  <2>2. /\ Len(a) = n + 1 /\ a[n + 1] = turn /\ \A l \in 1..n : a[l] = la[l]
    BY <1>1, <1>2, AppendLemma
  <2> HIDE DEF a, la, n
  <2>3. \A l : l \in 1..(n + 1) <=> l \in 1..n \/ l = n + 1
    BY <1>2
  <2>4. Distinct'
    <3> SUFFICES ASSUME NEW k \in 1..(n + 1), NEW l \in 1..(n + 1), a[k] = a[l] PROVE k = l
      BY <2>1, <2>2 DEF Distinct
    <3>1. CASE k \in 1..n /\ l \in 1..n
      BY <1>3, <2>2, <3>1 DEF Distinct, la, n
    <3>2. CASE k \in 1..n /\ l = n + 1
      <4>1. la[k] = turn /\ la[k] < turn
        BY <1>3, <2>2, <3>2
      <4> QED BY <1>2, <4>1
    <3>3. CASE k = n + 1 /\ l \in 1..n
      <4>1. la[l] = turn /\ la[l] < turn
        BY <1>3, <2>2, <3>3
      <4> QED BY <1>2, <4>1
    <3> QED BY <2>3, <3>1, <3>2, <3>3
  <2>5. ASSUME NEW l \in 1..(n + 1) PROVE a[l] < turn + 1
    <3>1. CASE l = n + 1
      BY <1>2, <2>2, <3>1
    <3>2. CASE l \in 1..n
      <4>1. a[l] = la[l] /\ la[l] < turn /\ la[l] \in Nat
        BY <1>2, <1>3, <2>2, <3>2
      <4> QED BY <1>2, <4>1
    <3> QED BY <2>3, <3>1, <3>2
  <2>6. itr'.val = First(a[1])
    <3>1. CASE la = <<>>
      <4>1. n = 0
        BY <3>1 DEF n
      <4> QED BY <2>1, <2>2, <3>1, <4>1
    <3>2. CASE la # <<>>
      <4>1. 1 \in 1..n
        BY <1>2, <3>2 DEF la, n
      <4> QED BY <1>3, <2>1, <2>2, <3>2, <4>1
    <3> QED BY <3>1, <3>2
  <2>7. /\ \A l \in 0..n : g[l] \in Nat
        /\ g[0] = 0 /\ itr.size = g[n]
        /\ \A l \in 1..n : g[l] = g[l - 1] + lists[la[l]][key].len
    BY <1>4 DEF Sizes, la, n
  <2>8. PICK h : /\ \A l \in 0..n : h[l] = g[l]
                 /\ h[n + 1] = itr.size + lists[turn][key].len
    <3> DEFINE f == [l \in 0..(n + 1) |-> IF l = n + 1 THEN itr.size + lists[turn][key].len
                                                       ELSE g[l]]
    <3>1. (\A l \in 0..n : f[l] = g[l]) /\ f[n + 1] = itr.size + lists[turn][key].len
      BY <1>2
    <3> HIDE DEF f
    <3> QED BY <3>1
  <2>9. /\ \A l \in 0..(n + 1) : h[l] \in Nat
        /\ h[0] = 0
    <3>1. \A l \in 0..(n + 1) : l \in 0..n \/ l = n + 1
      BY <1>2
    <3>2. g[n] \in Nat /\ 0 \in 0..n
      BY <1>2, <2>7
    <3>3. h[n + 1] \in Nat
      BY <1>2, <2>7, <2>8, <3>2
    <3> QED BY <2>7, <2>8, <3>1, <3>2, <3>3
  <2>10. ASSUME NEW l \in 1..(n + 1) PROVE h[l] = h[l - 1] + lists[a[l]][key].len
    <3>1. CASE l = n + 1
      <4>1. l - 1 = n /\ n \in 0..n
        BY <1>2, <3>1
      <4> QED BY <2>2, <2>7, <2>8, <3>1, <4>1
    <3>2. CASE l \in 1..n
      <4>1. l - 1 \in 0..n /\ l \in 0..n
        BY <1>2, <3>2
      <4> QED BY <2>2, <2>7, <2>8, <3>2, <4>1
    <3> QED BY <2>3, <3>1, <3>2
  <2>11. Sizes(h)'
    BY <1>1, <2>1, <2>2, <2>9, <2>10 DEF Sizes
  <2>12. itr'.size = h[Len(itr'.list_array)]
    BY <2>1, <2>2, <2>8
  <2> QED BY <1>1, <2>1, <2>2, <2>4, <2>5, <2>6, <2>11, <2>12 DEF OrderInv
<1>6. CASE ~(lists[turn][key].len > 0)
  <2>1. itr' = itr
    BY <1>1, <1>6
  <2>2. \A l \in 1..n : la[l] < turn'
    BY <1>1, <1>2, <1>3
  <2>3. Sizes(g)' /\ Distinct'
    BY <1>1, <1>3, <1>4, <2>1 DEF Sizes, Distinct
  <2> QED BY <1>1, <1>3, <1>4, <2>1, <2>2, <2>3 DEF OrderInv
<1> QED BY <1>5, <1>6

\* In the reduce phase the lists of the iterator are those the map workers left.
LEMMA ReduceLists ==
    ASSUME IInv, StoreInv, OrderInv, phase \in {"gather", "reduce"}
    PROVE  /\ Distinct /\ itr.list_array \in Seq(Threads) /\ Len(itr.list_array) \in Nat
           /\ key \in Keys
           /\ \A t \in Threads : /\ Holds(lists[t][key].vals, t, emitted[t][key])
                                 /\ Counted(lists[t][key].vals, lists[t][key].len)
           /\ \A l \in 1..Len(itr.list_array) :
                 /\ itr.list_array[l] \in Threads
                 /\ Holds(Chain(l), itr.list_array[l], emitted[itr.list_array[l]][key])
                 /\ Counted(Chain(l), lists[itr.list_array[l]][key].len)
                 /\ Chain(l) \in Seq(val_t) /\ Len(Chain(l)) \in Nat
                 /\ \A c \in 1..Len(Chain(l)) : /\ Len(Chain(l)[c].array) \in Nat
                                                /\ Chain(l)[c].array \in Seq(Emission)
<1>1. Distinct /\ itr.list_array \in Seq(Threads) /\ key \in Keys /\ Len(itr.list_array) \in Nat
  BY Typed DEF OrderInv
<1>2. Kept(key)
  BY <1>1, Bounds DEF Kept
<1>3. \A t \in Threads : /\ Holds(lists[t][key].vals, t, emitted[t][key])
                         /\ Counted(lists[t][key].vals, lists[t][key].len)
                         /\ lists[t][key].vals \in Seq(val_t)
  BY <1>1, <1>2, Typed DEF StoreInv
<1>4. \A l \in 1..Len(itr.list_array) : itr.list_array[l] \in Threads
  BY Typed
<1>5. ASSUME NEW l \in 1..Len(itr.list_array)
      PROVE  /\ Holds(Chain(l), itr.list_array[l], emitted[itr.list_array[l]][key])
             /\ Counted(Chain(l), lists[itr.list_array[l]][key].len)
             /\ Chain(l) \in Seq(val_t)
  BY <1>3, <1>4 DEF Chain
<1>6. \A l \in 1..Len(itr.list_array) :
         /\ Len(Chain(l)) \in Nat
         /\ \A c \in 1..Len(Chain(l)) : /\ Len(Chain(l)[c].array) \in Nat
                                        /\ Chain(l)[c].array \in Seq(Emission)
  BY <1>5, ValsTyped
<1> QED BY <1>1, <1>3, <1>4, <1>5, <1>6

\* Values of two places have no emission in common.
LEMMA PlacesApart ==
    ASSUME IInv, StoreInv, OrderInv, phase = "reduce",
           NEW l, NEW c, NEW n, Position(l, c, n), NEW k, NEW d, NEW m, Position(k, d, m),
           ~(l = k /\ c = d /\ n = m)
    PROVE  ValueAt(l, c, n) \cap ValueAt(k, d, m) = {}
<1> SUFFICES ASSUME NEW e, e \in ValueAt(l, c, n), e \in ValueAt(k, d, m) PROVE FALSE
  OBVIOUS
<1>1. /\ l \in 1..Len(itr.list_array) /\ k \in 1..Len(itr.list_array)
      /\ In(Chain(l), c, n, e) /\ In(Chain(k), d, m, e)
  BY DEF Position, ValueAt, In
<1>2. /\ Distinct
      /\ Holds(Chain(l), itr.list_array[l], emitted[itr.list_array[l]][key])
      /\ Holds(Chain(k), itr.list_array[k], emitted[itr.list_array[k]][key])
  BY <1>1, ReduceLists
<1>3. \E i : e = <<itr.list_array[l], i>>
  BY <1>1, <1>2 DEF Holds
<1>4. \E i : e = <<itr.list_array[k], i>>
  BY <1>1, <1>2 DEF Holds
<1>5. itr.list_array[l] = itr.list_array[k]
  BY <1>3, <1>4
<1>6. l = k
  BY <1>1, <1>2, <1>5 DEF Distinct
<1>7. c = d /\ n = m
  BY <1>1, <1>2, <1>6 DEF Holds
<1> QED BY <1>6, <1>7

\* A value more that the iterator passes.
LEMMA GotOneMore ==
    ASSUME IInv, StoreInv, OrderInv, phase = "reduce",
           NEW s, NEW d, NEW i, NEW v, GotInv(s, d, i, v),
           NEW L, NEW C, NEW N, Position(L, C, N), ~Passed(d, i, v, L, C, N),
           NEW d2, NEW i2, NEW v2,
           \A l, c, n : Position(l, c, n) =>
              (Passed(d2, i2, v2, l, c, n) <=>
                  Passed(d, i, v, l, c, n) \/ (l = L /\ c = C /\ n = N))
    PROVE  GotInv(Append(s, ValueAt(L, C, N)), d2, i2, v2)
<1> DEFINE x == ValueAt(L, C, N)
           s2 == Append(s, x)
<1>1. x \in Emission
  <2>1. L \in 1..Len(itr.list_array) /\ C \in 1..Len(Chain(L)) /\ N \in 1..Len(Chain(L)[C].array)
    BY DEF Position, Slot
  <2>2. Chain(L)[C].array \in Seq(Emission)
    BY <2>1, ReduceLists
  <2> QED BY <2>1, <2>2 DEF ValueAt
<1>2. s \in Seq(Emission)
  BY DEF GotInv
<1> HIDE DEF x
<1>3. /\ s2 \in Seq(Emission) /\ Len(s) \in Nat /\ Len(s2) = Len(s) + 1
      /\ \A m \in 1..Len(s) : s2[m] = s[m]
      /\ s2[Len(s) + 1] = x
  BY <1>1, <1>2, AppendLemma
<1> HIDE DEF s2
<1>4. \A m : m \in 1..(Len(s) + 1) <=> m \in 1..Len(s) \/ m = Len(s) + 1
  BY <1>3
<1>5. ASSUME NEW m \in 1..Len(s2)
      PROVE  \E l, c, n : Position(l, c, n) /\ Passed(d2, i2, v2, l, c, n) /\ s2[m] = ValueAt(l, c, n)
  <2>1. CASE m \in 1..Len(s)
    <3>1. PICK l, c, n : Position(l, c, n) /\ Passed(d, i, v, l, c, n) /\ s[m] = ValueAt(l, c, n)
      BY <2>1 DEF GotInv
    <3>2. Passed(d2, i2, v2, l, c, n) /\ s2[m] = ValueAt(l, c, n)
      BY <1>3, <2>1, <3>1
    <3> QED BY <3>1, <3>2
  <2>2. CASE m = Len(s) + 1
    <3>1. Passed(d2, i2, v2, L, C, N) /\ s2[m] = ValueAt(L, C, N)
      BY <1>3, <2>2 DEF x
    <3> QED BY <3>1
  <2> QED BY <1>3, <1>4, <2>1, <2>2
<1>6. ASSUME NEW l, NEW c, NEW n, Position(l, c, n), Passed(d2, i2, v2, l, c, n)
      PROVE  \E m \in 1..Len(s2) : s2[m] = ValueAt(l, c, n)
  <2>1. CASE l = L /\ c = C /\ n = N
    <3>1. Len(s) + 1 \in 1..Len(s2) /\ s2[Len(s) + 1] = ValueAt(l, c, n)
      BY <1>3, <1>4, <2>1 DEF x
    <3> QED BY <3>1
  <2>2. CASE ~(l = L /\ c = C /\ n = N)
    <3>1. PICK m \in 1..Len(s) : s[m] = ValueAt(l, c, n)
      BY <1>6, <2>2 DEF GotInv
    <3>2. m \in 1..Len(s2) /\ s2[m] = ValueAt(l, c, n)
      BY <1>3, <1>4, <3>1
    <3> QED BY <3>2
  <2> QED BY <2>1, <2>2
<1>7. ASSUME NEW m \in 1..Len(s) PROVE s[m] \cap x = {}
  <2>1. PICK l, c, n : Position(l, c, n) /\ Passed(d, i, v, l, c, n) /\ s[m] = ValueAt(l, c, n)
    BY DEF GotInv
  <2>2. ~(l = L /\ c = C /\ n = N)
    BY <2>1
  <2>3. ValueAt(l, c, n) \cap ValueAt(L, C, N) = {}
    BY <2>1, <2>2, PlacesApart
  <2> QED BY <2>1, <2>3 DEF x
<1>8. ASSUME NEW k \in 1..Len(s2), NEW m \in 1..Len(s2), k # m PROVE s2[k] \cap s2[m] = {}
  <2>1. CASE k \in 1..Len(s) /\ m \in 1..Len(s)
    <3>1. s[k] \cap s[m] = {}
      BY <1>8, <2>1 DEF GotInv
    <3> QED BY <1>3, <2>1, <3>1
  <2>2. CASE k = Len(s) + 1 /\ m \in 1..Len(s)
    <3>1. s[m] \cap x = {} /\ s2[m] = s[m] /\ s2[k] = x
      BY <1>3, <1>7, <2>2
    <3> QED BY <3>1
  <2>3. CASE m = Len(s) + 1 /\ k \in 1..Len(s)
    <3>1. s[k] \cap x = {} /\ s2[k] = s[k] /\ s2[m] = x
      BY <1>3, <1>7, <2>3
    <3> QED BY <3>1
  <2> QED BY <1>3, <1>4, <1>8, <2>1, <2>2, <2>3
<1>9. GotInv(s2, d2, i2, v2)
  BY <1>3, <1>5, <1>6, <1>8 DEF GotInv
<1> QED BY <1>9 DEF s2, x

\* When the iterator has lists and is at its first value nothing has been passed.
LEMMA WalkBegins ==
    ASSUME IInv, StoreInv, OrderInv, phase = "gather", itr.list_array # <<>>
    PROVE  /\ GotInv(<<>>, itr.current_list, itr.current_index, itr.val)
           /\ CountInv(0, itr.current_list, itr.current_index, itr.val)
<1> DEFINE v == itr.val
<1>1. /\ itr.current_list = 0 /\ itr.current_index = 0
      /\ v = First(itr.list_array[1])
  BY DEF IInv, PointerInv, OrderInv
<1>2. 1 \in 1..Len(itr.list_array) /\ Len(itr.list_array) \in Nat
  BY Typed, NonEmpty
<1>3. v.place = 1
  BY <1>1, <1>2, Typed, FirstIs
<1>4. \A l, c, n : Position(l, c, n) => l \in Nat \ {0} /\ c \in Nat \ {0} /\ n \in Nat \ {0}
  <2>1. ASSUME NEW l, NEW c, NEW n, Position(l, c, n)
        PROVE  l \in Nat \ {0} /\ c \in Nat \ {0} /\ n \in Nat \ {0}
    <3>1. l \in 1..Len(itr.list_array) /\ c \in 1..Len(Chain(l)) /\ n \in 1..Len(Chain(l)[c].array)
      BY <2>1 DEF Position, Slot
    <3>2. Len(Chain(l)) \in Nat /\ Len(Chain(l)[c].array) \in Nat
      BY <3>1, ReduceLists
    <3> QED BY <1>2, <3>1, <3>2
  <2> QED BY <2>1
<1> HIDE DEF v
<1>5. \A l, c, n : Position(l, c, n) => ~Passed(0, 0, v, l, c, n)
  BY <1>3, <1>4 DEF Passed
<1>6. GotInv(<<>>, 0, 0, v)
  <2>1. <<>> \in Seq(Emission) /\ \A m : m \notin 1..Len(<<>>)
    OBVIOUS
  <2> QED BY <1>5, <2>1 DEF GotInv
<1>7. CountInv(0, 0, 0, v)
  <2>1. PICK g : Sizes(g) /\ itr.size = g[Len(itr.list_array)]
    BY DEF OrderInv
  <2>2. PICK f : Counts(Chain(1), f) /\ f[Len(Chain(1))] = lists[itr.list_array[1]][key].len
    BY <1>2, ReduceLists DEF Counted
  <2>3. g[0] = 0 /\ f[0] = 0
    BY <2>1, <2>2 DEF Sizes, Counts
  <2>4. 0 = g[0] + f[v.place - 1] + 0
    BY <1>3, <2>3
  <2>5. 0 + 1 = 1
    OBVIOUS
  <2> QED BY <2>1, <2>2, <2>4, <2>5 DEF CountInv
<1> QED BY <1>1, <1>6, <1>7 DEF v

\* What has been passed stays passed while the lists do not change.
LEMMA PlacesStay ==
    ASSUME lists' = lists, key' = key,
           itr'.list_array = itr.list_array, itr'.size = itr.size,
           NEW d, NEW i, NEW v, GotInv(got', d, i, v), CountInv(Len(got'), d, i, v)
    PROVE  GotInv(got, d, i, v)' /\ CountInv(Len(got), d, i, v)'
<1>1. \A l : Chain(l)' = Chain(l)
  BY DEF Chain
<1>2. \A l, c, n : Position(l, c, n)' <=> Position(l, c, n)
  BY <1>1 DEF Position, Slot
<1>3. \A l, c, n : ValueAt(l, c, n)' = ValueAt(l, c, n)
  BY <1>1 DEF ValueAt
<1>4. GotInv(got, d, i, v)'
  <2>1. \A l, c, n : Passed(d, i, v, l, c, n)' <=> Passed(d, i, v, l, c, n)
    BY DEF Passed
  <2>2. ASSUME NEW m \in 1..Len(got')
        PROVE  \E l, c, n : (/\ Position(l, c, n) /\ Passed(d, i, v, l, c, n)
                             /\ got[m] = ValueAt(l, c, n))'
    <3>1. PICK l, c, n : /\ Position(l, c, n) /\ Passed(d, i, v, l, c, n)
                         /\ got'[m] = ValueAt(l, c, n)
      BY DEF GotInv
    <3>2. (Position(l, c, n) /\ Passed(d, i, v, l, c, n) /\ got[m] = ValueAt(l, c, n))'
      BY <1>2, <1>3, <2>1, <3>1
    <3> QED BY <3>2
  <2>3. ASSUME NEW l, NEW c, NEW n, (Position(l, c, n) /\ Passed(d, i, v, l, c, n))'
        PROVE  (\E m \in 1..Len(got) : got[m] = ValueAt(l, c, n))'
    <3>1. PICK m \in 1..Len(got') : got'[m] = ValueAt(l, c, n)
      BY <1>2, <2>1, <2>3 DEF GotInv
    <3> QED BY <1>3, <3>1
  <2>4. (got \in Seq(Emission) /\ \A k, m \in 1..Len(got) : k # m => got[k] \cap got[m] = {})'
    BY DEF GotInv, Emission
  <2> QED BY <2>2, <2>3, <2>4, Zenon DEF GotInv
<1>5. CountInv(Len(got), d, i, v)'
  <2>1. PICK g, f : /\ Sizes(g) /\ itr.size = g[Len(itr.list_array)]
                    /\ Counts(Chain(d + 1), f)
                    /\ f[Len(Chain(d + 1))] = lists[itr.list_array[d + 1]][key].len
                    /\ Len(got') = g[d] + f[v.place - 1] + i
    BY DEF CountInv
  <2>2. Sizes(g)'
    BY <2>1 DEF Sizes
  <2>3. Counts(Chain(d + 1), f)'
    BY <1>1, <2>1
  <2>4. (/\ itr.size = g[Len(itr.list_array)]
         /\ f[Len(Chain(d + 1))] = lists[itr.list_array[d + 1]][key].len
         /\ Len(got) = g[d] + f[v.place - 1] + i)'
    BY <1>1, <2>1
  <2> QED BY <2>2, <2>3, <2>4, Zenon DEF CountInv
<1> QED BY <1>4, <1>5

\* The same of a step that leaves the iterator and what reduce has got.
LEMMA WalkStays ==
    ASSUME lists' = lists, key' = key, itr' = itr, got' = got,
           GotInv(got, itr.current_list, itr.current_index, itr.val),
           CountInv(Len(got), itr.current_list, itr.current_index, itr.val)
    PROVE  (/\ GotInv(got, itr.current_list, itr.current_index, itr.val)
            /\ CountInv(Len(got), itr.current_list, itr.current_index, itr.val))'
<1>1. PICK d, i, v : d = itr.current_list /\ i = itr.current_index /\ v = itr.val
  OBVIOUS
<1>2. GotInv(got', d, i, v) /\ CountInv(Len(got'), d, i, v)
  BY <1>1
<1>3. GotInv(got, d, i, v)' /\ CountInv(Len(got), d, i, v)'
  BY <1>2, PlacesStay
<1>4. itr'.current_list = d /\ itr'.current_index = i /\ itr'.val = v
  BY <1>1
<1> QED BY <1>3, <1>4

\* What iter_next takes in each of its cases.
LEMMA TakeKeeps ==
    ASSUME IInv, StoreInv, OrderInv, WalkInv, phase = "reduce",
           NEW d, NEW i \in Nat, NEW v, PointsTo(d, i + 1, v), Position(d + 1, v.place, i + 1),
           ~Passed(itr.current_list, itr.current_index, itr.val, d + 1, v.place, i + 1),
           \A l, c, n : Position(l, c, n) =>
              (Passed(d, i + 1, v, l, c, n) <=>
                  \/ Passed(itr.current_list, itr.current_index, itr.val, l, c, n)
                  \/ l = d + 1 /\ c = v.place /\ n = i + 1),
           CountInv(Len(got) + 1, d, i + 1, v), ended = FALSE,
           Take(At(itr, d, i, v)), UNCHANGED <<map, lists, phase, key, turn>>
    PROVE  OrderInv' /\ WalkInv'
<1>1. itr \in iterator_t /\ v.thread = itr.list_array[d + 1] /\ d \in Nat /\ v \in Pointer
  BY Typed DEF PointsTo
<1>2. itr' = At(itr, d, i + 1, v)
  BY <1>1, TakeIs
<1>3. /\ itr'.list_array = itr.list_array /\ itr'.current_list = d
      /\ itr'.current_index = i + 1 /\ itr'.val = v /\ itr'.size = itr.size
  BY <1>1, <1>2, AtIs, SizeIs
<1>4. got' = Append(got, ValueAt(d + 1, v.place, i + 1)) /\ ended' = ended
  <2>1. Value(At(itr, d, i, v)) = ValueAt(d + 1, v.place, i + 1)
    <3>1. At(itr, d, i, v).val = v /\ At(itr, d, i, v).current_index = i
      BY <1>1, AtIs
    <3>2. Value(At(itr, d, i, v)) = Chunk(v).array[i + 1]
      BY <3>1 DEF Value
    <3>3. Chunk(v) = Chain(d + 1)[v.place]
      BY <1>1 DEF Chunk, Chain
    <3> QED BY <3>2, <3>3 DEF ValueAt
  <2> QED BY <2>1 DEF Take
<1>5. GotInv(got, itr.current_list, itr.current_index, itr.val)
  BY DEF WalkInv
<1>6. GotInv(got', d, i + 1, v)
  BY <1>4, <1>5, GotOneMore
<1>7. Len(got') = Len(got) + 1
  <2>1. got \in Seq(Emission) /\ got' \in Seq(Emission)
    BY <1>5, <1>6 DEF GotInv
  <2> QED BY <1>4, <2>1
<1>8. (/\ GotInv(got, itr.current_list, itr.current_index, itr.val)
       /\ CountInv(Len(got), itr.current_list, itr.current_index, itr.val))'
  <2>1. GotInv(got, d, i + 1, v)' /\ CountInv(Len(got), d, i + 1, v)'
    BY <1>3, <1>6, <1>7, PlacesStay
  <2> QED BY <1>3, <2>1
<1>9. OrderInv'
  BY <1>3 DEF OrderInv, Distinct
<1> QED BY <1>4, <1>8, <1>9 DEF WalkInv

\* Where the iterator is.
LEMMA WalkState ==
    ASSUME IInv, StoreInv, OrderInv, WalkInv, phase = "reduce"
    PROVE  LET d == itr.current_list  i == itr.current_index  p == itr.val.place
           IN  /\ d \in Nat /\ i \in Nat /\ d + 1 \in 1..Len(itr.list_array)
               /\ Len(itr.list_array) \in Nat
               /\ itr.val.thread = itr.list_array[d + 1] /\ itr.val.thread \in Threads
               /\ Len(Chain(d + 1)) \in Nat /\ p \in 1..Len(Chain(d + 1))
               /\ Len(Chain(d + 1)[p].array) \in Nat /\ i <= Len(Chain(d + 1)[p].array)
               /\ Chunk(itr.val).array = Chain(d + 1)[p].array
               /\ ~ChunkLeft => i = Len(Chain(d + 1)[p].array)
               /\ ChainLeft <=> p + 1 \in 1..Len(Chain(d + 1))
               /\ ~ChainLeft => p = Len(Chain(d + 1))
               /\ ListLeft <=> d + 2 \in 1..Len(itr.list_array)
               /\ ~ListLeft => d + 1 = Len(itr.list_array)
<1> DEFINE d == itr.current_list
           i == itr.current_index
           p == itr.val.place
<1>1. PointsTo(d, i, itr.val) /\ Len(itr.list_array) \in Nat
  BY Typed, ReduceState
<1>2. /\ d \in Nat /\ i \in Nat /\ d < Len(itr.list_array) /\ itr.val \in Pointer
      /\ itr.val.thread = itr.list_array[d + 1]
      /\ p \in DOMAIN lists[itr.val.thread][key].vals
      /\ i <= Len(lists[itr.val.thread][key].vals[p].array)
  BY <1>1 DEF PointsTo
<1>3. lists[itr.val.thread][key].vals = Chain(d + 1)
  BY <1>2 DEF Chain
<1>4. d + 1 \in 1..Len(itr.list_array) /\ itr.val.thread \in Threads
  BY <1>1, <1>2 DEF Pointer
<1>5. /\ Len(Chain(d + 1)) \in Nat /\ DOMAIN Chain(d + 1) = 1..Len(Chain(d + 1))
      /\ \A c \in 1..Len(Chain(d + 1)) : Len(Chain(d + 1)[c].array) \in Nat
  BY <1>4, ReduceLists, ValsTyped
<1>6. p \in 1..Len(Chain(d + 1)) /\ i <= Len(Chain(d + 1)[p].array)
  BY <1>2, <1>3, <1>5
<1>7. Chunk(itr.val).array = Chain(d + 1)[p].array
  BY <1>3 DEF Chunk
<1>8. ~ChunkLeft => i = Len(Chain(d + 1)[p].array)
  <2>1. ~ChunkLeft => ~(i < Len(Chain(d + 1)[p].array))
    BY <1>7 DEF ChunkLeft
  <2>2. i \in Nat /\ Len(Chain(d + 1)[p].array) \in Nat
    BY <1>2, <1>5, <1>6
  <2>3. \A x, y \in Nat : x <= y /\ ~(x < y) => x = y
    OBVIOUS
  <2> QED BY <1>6, <2>1, <2>2, <2>3, Zenon
<1>9. /\ ChainLeft <=> p + 1 \in 1..Len(Chain(d + 1))
      /\ ~ChainLeft => p = Len(Chain(d + 1))
  BY <1>3, <1>5, <1>6 DEF ChainLeft, NextPlace
<1>10. /\ ListLeft <=> d + 2 \in 1..Len(itr.list_array)
       /\ ~ListLeft => d + 1 = Len(itr.list_array)
  BY <1>1, <1>2 DEF ListLeft
<1> QED BY <1>1, <1>2, <1>4, <1>5, <1>6, <1>7, <1>8, <1>9, <1>10

\* A place is given by three numbers.
LEMMA PositionIs ==
    ASSUME IInv, StoreInv, OrderInv, phase = "reduce", NEW l, NEW c, NEW n, Position(l, c, n)
    PROVE  /\ l \in Nat /\ c \in Nat /\ n \in Nat /\ 1 <= l /\ 1 <= c /\ 1 <= n
           /\ l <= Len(itr.list_array) /\ c <= Len(Chain(l)) /\ n <= Len(Chain(l)[c].array)
<1>1. l \in 1..Len(itr.list_array) /\ c \in 1..Len(Chain(l)) /\ n \in 1..Len(Chain(l)[c].array)
  BY DEF Position, Slot
<1>2. /\ Len(itr.list_array) \in Nat /\ Len(Chain(l)) \in Nat /\ Len(Chain(l)[c].array) \in Nat
  BY <1>1, ReduceLists
<1> QED BY <1>1, <1>2

LEMMA WalkNext ==
    ASSUME IInv, StoreInv, OrderInv, WalkInv, iter_next PROVE OrderInv' /\ WalkInv'
<1> DEFINE d == itr.current_list
           i == itr.current_index
           u == itr.val
           p == u.place
<1>1. phase = "reduce" /\ ended = FALSE /\ UNCHANGED <<map, lists, phase, key, turn>>
  BY DEF iter_next, WalkInv
<1>2. /\ d \in Nat /\ i \in Nat /\ d + 1 \in 1..Len(itr.list_array)
      /\ Len(itr.list_array) \in Nat
      /\ u.thread = itr.list_array[d + 1] /\ u.thread \in Threads
      /\ Len(Chain(d + 1)) \in Nat /\ p \in 1..Len(Chain(d + 1)) /\ p \in Nat
      /\ Len(Chain(d + 1)[p].array) \in Nat /\ i <= Len(Chain(d + 1)[p].array)
      /\ Chunk(u).array = Chain(d + 1)[p].array
      /\ ~ChunkLeft => i = Len(Chain(d + 1)[p].array)
      /\ ChainLeft <=> p + 1 \in 1..Len(Chain(d + 1))
      /\ ~ChainLeft => p = Len(Chain(d + 1))
      /\ ListLeft <=> d + 2 \in 1..Len(itr.list_array)
  BY <1>1, WalkState
<1>3. itr \in iterator_t /\ PointsTo(d, i, u)
  BY <1>1, Typed, ReduceState
<1>4. PICK g, f : /\ Sizes(g) /\ itr.size = g[Len(itr.list_array)]
                  /\ Counts(Chain(d + 1), f)
                  /\ f[Len(Chain(d + 1))] = lists[itr.list_array[d + 1]][key].len
                  /\ Len(got) = g[d] + f[p - 1] + i
  BY <1>1 DEF WalkInv, CountInv
<1>g. Len(got) \in Nat
  <2>1. got \in Seq(Emission)
    BY <1>1 DEF WalkInv, GotInv
  <2> QED BY <2>1
<1>a. \A x, y \in Nat : x + 1 \in 1..y => x \in 0..y /\ x + 1 \in 0..y /\ (x + 1) - 1 = x
  OBVIOUS
<1>b. \A x, y \in Nat : x \in 1..y => x \in 0..y /\ x - 1 \in 0..y
  OBVIOUS
<1>c. \A x, y, z \in Nat : /\ (x + y + z) + 1 = x + y + (z + 1)
                          /\ (x + y + z) + 1 = x + (y + z) + (0 + 1)
                          /\ x + y + z = x + (y + z)
  OBVIOUS
<1>5. /\ g[d] \in Nat /\ g[d + 1] \in Nat /\ g[d + 1] = g[d] + lists[itr.list_array[d + 1]][key].len
      /\ f[p - 1] \in Nat /\ f[p] \in Nat /\ f[p] = f[p - 1] + Len(Chain(d + 1)[p].array)
  <2>1. /\ d \in 0..Len(itr.list_array) /\ d + 1 \in 0..Len(itr.list_array) /\ (d + 1) - 1 = d
        /\ p \in 0..Len(Chain(d + 1)) /\ p - 1 \in 0..Len(Chain(d + 1))
    BY <1>2, <1>a, <1>b, Zenon
  <2> QED BY <1>2, <1>4, <2>1 DEF Sizes, Counts
<1>6. \A l, c, n : Position(l, c, n) => /\ l \in Nat /\ c \in Nat /\ n \in Nat
                                       /\ 1 <= l /\ 1 <= c /\ 1 <= n
                                       /\ c <= Len(Chain(l)) /\ n <= Len(Chain(l)[c].array)
  BY <1>1, PositionIs
<1>7. \A l \in 1..Len(itr.list_array) : \A c \in 1..Len(Chain(l)) :
         1 \in 1..Len(Chain(l)[c].array)
  <2> SUFFICES ASSUME NEW l \in 1..Len(itr.list_array), NEW c \in 1..Len(Chain(l))
               PROVE  1 \in 1..Len(Chain(l)[c].array)
    OBVIOUS
  <2>1. itr.list_array[l] \in Threads /\ Chain(l) \in Seq(val_t)
    BY <1>1, ReduceLists
  <2>2. c \in DOMAIN lists[itr.list_array[l]][key].vals
    BY <2>1 DEF Chain
  <2>3. /\ Len(lists[itr.list_array[l]][key].vals[c].array) \in Nat
        /\ 1 <= Len(lists[itr.list_array[l]][key].vals[c].array)
    BY <2>1, <2>2, SomeValue
  <2> QED BY <2>3 DEF Chain
<1>8. CASE ChunkLeft /\ Take(itr)
  <2>1. itr = At(itr, d, i, u) /\ i < Len(Chain(d + 1)[p].array)
    BY <1>2, <1>3, <1>8, MovesAre DEF ChunkLeft
  <2> HIDE DEF d, i, u, p
  <2>2. Position(d + 1, p, i + 1)
    BY <1>2, <2>1 DEF Position, Slot
  <2>3. ~Passed(d, i, u, d + 1, p, i + 1)
    BY <1>2 DEF Passed, p
  <2>4. \A l, c, n : Position(l, c, n) =>
           (Passed(d, i + 1, u, l, c, n) <=>
               Passed(d, i, u, l, c, n) \/ (l = d + 1 /\ c = p /\ n = i + 1))
    BY <1>2, <1>6 DEF Passed, p
  <2>5. CountInv(Len(got) + 1, d, i + 1, u)
    <3>1. Len(got) + 1 = g[d] + f[p - 1] + (i + 1)
      <4>1. g[d] \in Nat /\ f[p - 1] \in Nat /\ i \in Nat
        BY <1>2, <1>5, Zenon
      <4>2. (g[d] + f[p - 1] + i) + 1 = g[d] + f[p - 1] + (i + 1)
        BY <1>c, <4>1, Zenon
      <4>3. Len(got) = g[d] + f[p - 1] + i
        BY <1>4, Zenon
      <4> QED BY <4>2, <4>3, Zenon
    <3> QED BY <1>4, <3>1 DEF CountInv, p
  <2>6. PointsTo(d, i + 1, u)
    <3>1. lists[u.thread][key].vals = Chain(d + 1)
      BY <1>2 DEF Chain
    <3> QED BY <1>2, <1>3, <2>1, <3>1 DEF PointsTo, p
  <2>7. Take(At(itr, d, i, u))
    BY <1>8, <2>1
  <2> QED BY <1>1, <1>2, <2>2, <2>3, <2>4, <2>5, <2>6, <2>7, TakeKeeps DEF d, i, u, p
<1>9. CASE ~ChunkLeft /\ ChainLeft /\ Take(NextChunk)
  <2> DEFINE v == [thread |-> u.thread, place |-> p + 1]
  <2>1. Take(At(itr, d, 0, v))
    BY <1>3, <1>9, MovesAre DEF NextPlace
  <2>2. v \in Pointer /\ v.thread = u.thread /\ v.place = p + 1
    <3>1. u.thread \in Threads /\ p + 1 \in Nat \ {0}
      BY <1>2
    <3>2. \A t \in Threads, n \in Nat \ {0} :
             LET x == [thread |-> t, place |-> n]
             IN  x \in Pointer /\ x.thread = t /\ x.place = n
      BY DEF Pointer
    <3> QED BY <3>1, <3>2, Zenon
  <2>3. i = Len(Chain(d + 1)[p].array) /\ p + 1 \in 1..Len(Chain(d + 1))
    BY <1>2, <1>9
  <2> HIDE DEF d, i, u, p, v
  <2>4. Position(d + 1, v.place, 0 + 1)
    <3>1. d + 1 \in 1..Len(itr.list_array) /\ v.place \in 1..Len(Chain(d + 1))
      BY <1>2, <2>2, <2>3
    <3>2. 1 \in 1..Len(Chain(d + 1)[v.place].array)
      BY <1>7, <3>1, Zenon
    <3>3. 0 + 1 = 1
      OBVIOUS
    <3> QED BY <3>1, <3>2, <3>3, Zenon DEF Position, Slot
  <2>5. ~Passed(d, i, u, d + 1, v.place, 0 + 1)
    BY <1>2, <2>2 DEF Passed, p
  <2>6. \A l, c, n : Position(l, c, n) =>
           (Passed(d, 0 + 1, v, l, c, n) <=>
               Passed(d, i, u, l, c, n) \/ (l = d + 1 /\ c = v.place /\ n = 0 + 1))
    BY <1>2, <1>6, <2>2, <2>3 DEF Passed, p
  <2>7. CountInv(Len(got) + 1, d, 0 + 1, v)
    <3>1. (p + 1) - 1 = p /\ Len(got) + 1 = g[d] + f[p] + (0 + 1)
      <4>1. f[p] = f[p - 1] + i /\ Len(got) = g[d] + f[p - 1] + i
        BY <1>4, <1>5, <2>3
      <4>2. (p + 1) - 1 = p
        BY <1>2
      <4>3. g[d] \in Nat /\ f[p - 1] \in Nat /\ i \in Nat
        BY <1>2, <1>5, Zenon
      <4>4. (g[d] + f[p - 1] + i) + 1 = g[d] + (f[p - 1] + i) + (0 + 1)
        BY <1>c, <4>3, Zenon
      <4> QED BY <4>1, <4>2, <4>4, Zenon
    <3>2. Len(got) + 1 = g[d] + f[v.place - 1] + (0 + 1)
      BY <2>2, <3>1
    <3> QED BY <1>4, <3>2 DEF CountInv
  <2>8. PointsTo(d, 0 + 1, v)
    <3>1. lists[v.thread][key].vals = Chain(d + 1)
      BY <1>2, <2>2 DEF Chain
    <3>2. 0 + 1 <= Len(Chain(d + 1)[v.place].array)
      BY <2>4 DEF Position, Slot
    <3>3. v.place \in DOMAIN Chain(d + 1)
      BY <1>1, <1>2, <2>2, <2>3, ReduceLists
    <3> QED BY <1>2, <1>3, <2>2, <3>1, <3>2, <3>3 DEF PointsTo
  <2> QED BY <1>1, <2>1, <2>4, <2>5, <2>6, <2>7, <2>8, TakeKeeps DEF d, i, u
<1>10. CASE ~ChunkLeft /\ ~ChainLeft /\ ListLeft /\ Take(NextList)
  <2> DEFINE t == itr.list_array[d + 2]
             v == First(t)
  <2>1. Take(At(itr, d + 1, 0, v))
    BY <1>3, <1>10, MovesAre
  <2>2. d + 2 \in 1..Len(itr.list_array) /\ (d + 1) + 1 = d + 2 /\ t \in Threads
    BY <1>1, <1>2, <1>10, ReduceLists
  <2>3. v \in Pointer /\ v.thread = t /\ v.place = 1
    BY <2>2, FirstIs
  <2>4. i = Len(Chain(d + 1)[p].array) /\ p = Len(Chain(d + 1))
    BY <1>2, <1>10
  <2>5. 1 \in 1..Len(Chain(d + 2)) /\ DOMAIN Chain(d + 2) = 1..Len(Chain(d + 2))
    <3>1. Chain(d + 2) # <<>> /\ Chain(d + 2) \in Seq(val_t)
      BY <1>1, <2>2, ReduceState, ReduceLists DEF Chain
    <3> QED BY <3>1, NonEmpty, ValsTyped
  <2> HIDE DEF d, i, u, p, v, t
  <2>6. Position((d + 1) + 1, v.place, 0 + 1)
    BY <1>7, <2>2, <2>3, <2>5 DEF Position, Slot
  <2>7. ~Passed(d, i, u, (d + 1) + 1, v.place, 0 + 1)
    BY <1>2 DEF Passed
  <2>8. \A l, c, n : Position(l, c, n) =>
           (Passed(d + 1, 0 + 1, v, l, c, n) <=>
               Passed(d, i, u, l, c, n) \/ (l = (d + 1) + 1 /\ c = v.place /\ n = 0 + 1))
    <3> SUFFICES ASSUME NEW l, NEW c, NEW n, Position(l, c, n)
                 PROVE  Passed(d + 1, 0 + 1, v, l, c, n) <=>
                            Passed(d, i, u, l, c, n) \/ (l = (d + 1) + 1 /\ c = v.place /\ n = 0 + 1)
      OBVIOUS
    <3>1. /\ l \in Nat /\ c \in Nat /\ n \in Nat /\ 1 <= l /\ 1 <= c /\ 1 <= n
          /\ c <= Len(Chain(l)) /\ n <= Len(Chain(l)[c].array)
      BY <1>6
    <3>2. CASE l = d + 1
      <4>1. c <= p /\ (c = p => n <= i)
        BY <2>4, <3>1, <3>2
      <4> QED BY <1>2, <3>1, <3>2, <4>1 DEF Passed, p
    <3>3. CASE l # d + 1
      BY <1>2, <2>3, <3>1, <3>3 DEF Passed
    <3> QED BY <3>2, <3>3
  <2>9. CountInv(Len(got) + 1, d + 1, 0 + 1, v)
    <3>1. PICK h : Counts(Chain(d + 2), h) /\ h[Len(Chain(d + 2))] = lists[itr.list_array[d + 2]][key].len
      BY <1>1, <2>2, ReduceLists DEF Counted
    <3>2. h[0] = 0 /\ 1 - 1 = 0
      BY <3>1 DEF Counts
    <3>3. f[p] = lists[itr.list_array[d + 1]][key].len
      BY <1>4, <2>4
    <3>4. Len(got) = g[d + 1]
      <4>1. f[p] = f[p - 1] + i /\ Len(got) = g[d] + f[p - 1] + i
        BY <1>4, <1>5, <2>4, Zenon
      <4>2. g[d] \in Nat /\ f[p - 1] \in Nat /\ i \in Nat
        BY <1>2, <1>5, Zenon
      <4>3. g[d] + f[p - 1] + i = g[d] + (f[p - 1] + i)
        BY <1>c, <4>2, Zenon
      <4>4. g[d + 1] = g[d] + f[p]
        BY <1>5, <3>3, Zenon
      <4> QED BY <4>1, <4>3, <4>4, Zenon
    <3>5. Len(got) + 1 = g[d + 1] + h[v.place - 1] + (0 + 1)
      <4>1. \A x \in Nat : x + 1 = x + 0 + (0 + 1)
        OBVIOUS
      <4>2. v.place - 1 = 0
        BY <2>3
      <4> QED BY <1>5, <3>2, <3>4, <4>1, <4>2, Zenon
    <3> QED BY <1>4, <2>2, <3>1, <3>5 DEF CountInv
  <2>10. PointsTo(d + 1, 0 + 1, v)
    <3>1. lists[v.thread][key].vals = Chain(d + 2)
      BY <2>3 DEF Chain, t
    <3>2. 0 + 1 <= Len(Chain(d + 2)[v.place].array)
      BY <2>2, <2>6 DEF Position, Slot
    <3>3. v.place \in DOMAIN Chain(d + 2) /\ v.thread = itr.list_array[(d + 1) + 1]
      BY <2>2, <2>3, <2>5 DEF t
    <3>4. d + 1 < Len(itr.list_array) /\ d + 1 \in Nat
      BY <1>2, <2>2
    <3> QED BY <2>3, <3>1, <3>2, <3>3, <3>4 DEF PointsTo
  <2> QED BY <1>1, <2>1, <2>6, <2>7, <2>8, <2>9, <2>10, TakeKeeps DEF d, i, u
<1>11. CASE ~ChunkLeft /\ ~ChainLeft /\ ~ListLeft /\ ended' = TRUE /\ UNCHANGED <<got, itr>>
  <2>1. (/\ GotInv(got, itr.current_list, itr.current_index, itr.val)
         /\ CountInv(Len(got), itr.current_list, itr.current_index, itr.val))'
    <3>1. /\ GotInv(got, itr.current_list, itr.current_index, itr.val)
          /\ CountInv(Len(got), itr.current_list, itr.current_index, itr.val)
      BY <1>1 DEF WalkInv
    <3> QED BY <1>1, <1>11, <3>1, WalkStays
  <2>2. ~ChunkLeft' /\ ~ChainLeft' /\ ~ListLeft'
    BY <1>1, <1>11 DEF ChunkLeft, ChainLeft, ListLeft, NextPlace, Chunk
  <2>3. OrderInv'
    BY <1>1, <1>11 DEF OrderInv, Distinct
  <2>4. phase' = "reduce"
    BY <1>1
  <2> QED BY <2>1, <2>2, <2>3, <2>4 DEF WalkInv
<1> QED BY <1>8, <1>9, <1>10, <1>11 DEF iter_next

\* Steps that leave the lists, or free those of the key.
LEMMA StoreSame ==
    ASSUME IInv, StoreInv, combiner' = combiner, emitted' = emitted, key \in Nat,
           \/ lists' = lists /\ key' = key /\ phase' = phase
           \/ lists' = lists /\ key' = key /\ phase = "gather" /\ phase' = "reduce"
           \/ lists' = lists /\ key' = key /\ phase = "reduce" /\ phase' = "free"
           \/ lists' = lists /\ phase \in {"gather", "free"} /\ phase' = "done"
           \/ lists' = lists /\ phase \in {"gather", "free"} /\ phase' = "gather" /\ key' = key + 1
           \/ /\ phase = "free" /\ phase' = "free" /\ key' = key
              /\ \A t \in Threads, k \in Keys : k # key => lists'[t][k] = lists[t][k]
              /\ \A t \in Threads, k \in Keys : lists'[t][k] = lists[t][k] \/ lists'[t][k].vals = <<>>
    PROVE  StoreInv'
<1>1. \A k \in Keys : Kept(k)' => Kept(k) /\ (k # key \/ lists' = lists)
  <2>1. \A k \in Keys : k \in Nat
    BY Bounds
  <2> QED BY <2>1 DEF Kept
<1>2. \A k \in Keys : Kept(k)' => Kept(k) /\ \A t \in Threads : lists'[t][k] = lists[t][k]
  BY <1>1
<1>3. \A t \in Threads, k \in Keys : lists'[t][k] = lists[t][k] \/ lists'[t][k].vals = <<>>
  OBVIOUS
<1> QED BY <1>2, <1>3, StoreKept

LEMMA WInit == Init => WInv
<1> SUFFICES ASSUME Init PROVE WInv
  OBVIOUS
<1>1. phase = "map" /\ got = <<>> /\ ended = FALSE
  BY DEF Init
<1>2. OrderInv /\ WalkInv
  BY <1>1 DEF OrderInv, WalkInv
<1> QED BY <1>2, StoreInit DEF WInv

LEMMA WEmit ==
    ASSUME IInv, WInv, NEW t \in Threads, NEW k \in Keys, emit_intermediate(t, k) PROVE WInv'
<1>1. phase = "map" /\ phase' = "map" /\ got' = got /\ ended' = ended
  BY DEF emit_intermediate, reduce
<1>2. OrderInv' /\ WalkInv'
  BY <1>1 DEF WInv, OrderInv, WalkInv
<1> QED BY <1>2, StoreEmit DEF WInv

LEMMA WFinishMap == ASSUME IInv, WInv, FinishMap PROVE WInv'
<1>1. phase = "map" /\ phase' = "gather" /\ got' = got /\ ended' = ended /\ itr' = itr
  BY DEF FinishMap
<1>2. itr' = iter_init
  BY <1>1 DEF IInv, GatherInv
<1>3. WalkInv'
  BY <1>1 DEF WInv, WalkInv
<1> QED BY <1>2, <1>3, OrderEmpty, StoreFinishMap DEF WInv

LEMMA WGather == ASSUME IInv, WInv, Gather PROVE WInv'
<1>1. /\ phase = "gather" /\ phase' = phase /\ key' = key /\ got' = got /\ ended' = ended
      /\ lists' = lists /\ combiner' = combiner /\ emitted' = emitted
  BY DEF Gather, map
<1>2. WalkInv'
  BY <1>1 DEF WInv, WalkInv
<1>3. StoreInv'
  BY <1>1, Typed, Bounds, StoreSame DEF WInv
<1> QED BY <1>2, <1>3, OrderGather DEF WInv

\* The next key, or none.
LEMMA WNextKey ==
    ASSUME IInv, WInv, NextKey, phase \in {"gather", "free"}, lists' = lists, itr' = iter_init,
           combiner' = combiner, emitted' = emitted
    PROVE  WInv'
<1>1. /\ got' = <<>> /\ ended' = FALSE
      /\ phase' = "done" \/ (phase' = "gather" /\ key' = key + 1)
  BY DEF NextKey
<1>2. WalkInv'
  BY <1>1 DEF WalkInv
<1>3. StoreInv'
  BY <1>1, Typed, Bounds, StoreSame DEF WInv
<1> QED BY <1>2, <1>3, OrderEmpty DEF WInv

LEMMA WGathered == ASSUME IInv, WInv, Gathered PROVE WInv'
<1>1. /\ phase = "gather" /\ lists' = lists /\ itr' = itr
      /\ combiner' = combiner /\ emitted' = emitted
  BY DEF Gathered, map
<1>2. CASE itr.list_array # <<>>
  <2>1. phase' = "reduce" /\ key' = key /\ got' = got /\ ended' = ended
    BY <1>2 DEF Gathered
  <2>2. got = <<>> /\ ended = FALSE /\ Len(got) = 0
    BY <1>1, <2>1 DEF WInv, WalkInv
  <2>3. /\ GotInv(got, itr.current_list, itr.current_index, itr.val)
        /\ CountInv(Len(got), itr.current_list, itr.current_index, itr.val)
    BY <1>1, <1>2, <2>2, WalkBegins DEF WInv
  <2>4. (/\ GotInv(got, itr.current_list, itr.current_index, itr.val)
         /\ CountInv(Len(got), itr.current_list, itr.current_index, itr.val))'
    BY <1>1, <2>1, <2>3, WalkStays
  <2>5. WalkInv'
    BY <2>1, <2>2, <2>4 DEF WalkInv
  <2>6. OrderInv'
    BY <1>1, <2>1 DEF WInv, OrderInv, Distinct
  <2>7. StoreInv'
    BY <1>1, <2>1, Typed, Bounds, StoreSame DEF WInv
  <2> QED BY <2>5, <2>6, <2>7 DEF WInv
<1>3. CASE itr.list_array = <<>>
  <2>1. NextKey
    BY <1>3 DEF Gathered
  <2>2. itr' = iter_init
    BY <1>1, <1>3 DEF IInv, GatherInv
  <2> QED BY <1>1, <2>1, <2>2, WNextKey
<1> QED BY <1>2, <1>3

LEMMA WNext == ASSUME IInv, WInv, iter_next PROVE WInv'
<1>1. /\ key' = key /\ phase' = phase /\ lists' = lists
      /\ combiner' = combiner /\ emitted' = emitted
  BY DEF iter_next, map
<1>2. StoreInv'
  BY <1>1, Typed, Bounds, StoreSame DEF WInv
<1> QED BY <1>2, WalkNext DEF WInv

LEMMA WReduced == ASSUME IInv, WInv, Reduced PROVE WInv'
<1>1. /\ phase = "reduce" /\ phase' = "free" /\ key' = key /\ lists' = lists
      /\ combiner' = combiner /\ emitted' = emitted
  BY DEF Reduced, map
<1>2. StoreInv'
  BY <1>1, Typed, Bounds, StoreSame DEF WInv
<1>3. OrderInv' /\ WalkInv'
  BY <1>1 DEF OrderInv, WalkInv
<1> QED BY <1>2, <1>3 DEF WInv

LEMMA WFreeList == ASSUME IInv, WInv, FreeList PROVE WInv'
<1> DEFINE u == itr.list_array[itr.current_list + 1]
<1>1. /\ phase = "free" /\ phase' = "free" /\ key' = key
      /\ combiner' = combiner /\ emitted' = emitted
      /\ lists' = [lists EXCEPT ![u][key].vals = <<>>]
  BY DEF FreeList, map, reduce
<1>2. /\ key \in Keys /\ lists \in [Threads -> [Keys -> keyvals_t]]
  BY Typed DEF IInv, TypeOK
<1> HIDE DEF u
<1>3. \A t \in Threads, k \in Keys :
         /\ ~(t = u /\ k = key) => lists'[t][k] = lists[t][k]
         /\ t = u /\ k = key => lists'[t][k].vals = <<>>
  BY <1>1, <1>2 DEF keyvals_t
<1>4. StoreInv'
  BY <1>1, <1>3, Typed, Bounds, StoreSame DEF WInv
<1>5. OrderInv' /\ WalkInv'
  BY <1>1 DEF OrderInv, WalkInv
<1> QED BY <1>4, <1>5 DEF WInv

LEMMA WFreed == ASSUME IInv, WInv, Freed PROVE WInv'
<1>1. /\ phase = "free" /\ itr' = iter_init /\ NextKey /\ lists' = lists
      /\ combiner' = combiner /\ emitted' = emitted
  BY DEF Freed, iter_reset, map
<1> QED BY <1>1, WNextKey

LEMMA WStutter == ASSUME IInv, WInv, UNCHANGED vars PROVE WInv'
<1>1. /\ combiner' = combiner /\ emitted' = emitted /\ lists' = lists /\ phase' = phase
      /\ key' = key /\ turn' = turn /\ itr' = itr /\ got' = got /\ ended' = ended
  BY DEF vars, map, reduce
<1>2. StoreInv'
  BY <1>1, Typed, Bounds, StoreSame DEF WInv
<1>3. OrderInv'
  BY <1>1 DEF WInv, OrderInv, Distinct, Sizes
<1>4. WalkInv'
  <2>1. CASE phase = "reduce"
    <3>1. (/\ GotInv(got, itr.current_list, itr.current_index, itr.val)
           /\ CountInv(Len(got), itr.current_list, itr.current_index, itr.val))'
      <4>1. /\ GotInv(got, itr.current_list, itr.current_index, itr.val)
            /\ CountInv(Len(got), itr.current_list, itr.current_index, itr.val)
        BY <2>1 DEF WInv, WalkInv
      <4> QED BY <1>1, <4>1, WalkStays
    <3>2. (ended => ~ChunkLeft /\ ~ChainLeft /\ ~ListLeft)'
      BY <1>1, <2>1 DEF WInv, WalkInv, ChunkLeft, ChainLeft, ListLeft, NextPlace, Chunk
    <3>3. phase' = "reduce" /\ phase' \notin {"map", "gather"}
      BY <1>1, <2>1
    <3> QED BY <3>1, <3>2, <3>3 DEF WalkInv
  <2>2. CASE phase # "reduce"
    <3>1. phase' # "reduce" /\ (phase' \in {"map", "gather"} => got' = <<>> /\ ended' = FALSE)
      BY <1>1, <2>2 DEF WInv, WalkInv
    <3> QED BY <3>1 DEF WalkInv
  <2> QED BY <2>1, <2>2
<1> QED BY <1>2, <1>3, <1>4 DEF WInv

LEMMA WAlways == Spec => []WInv
<1>1. IInv /\ WInv /\ [Next]_vars => WInv'
  <2> SUFFICES ASSUME IInv, WInv, [Next]_vars PROVE WInv'
    OBVIOUS
  <2>1. CASE \E t \in Threads, k \in Keys : emit_intermediate(t, k)
    BY <2>1, WEmit
  <2>2. CASE FinishMap
    BY <2>2, WFinishMap
  <2>3. CASE Gather
    BY <2>3, WGather
  <2>4. CASE Gathered
    BY <2>4, WGathered
  <2>5. CASE iter_next
    BY <2>5, WNext
  <2>6. CASE Reduced
    BY <2>6, WReduced
  <2>7. CASE FreeList
    BY <2>7, WFreeList
  <2>8. CASE Freed
    BY <2>8, WFreed
  <2>9. CASE Finished \/ UNCHANGED vars
    BY <2>9, WStutter DEF Finished
  <2> QED BY <2>1, <2>2, <2>3, <2>4, <2>5, <2>6, <2>7, <2>8, <2>9 DEF Next, Worker
<1> QED BY <1>1, WInit, Always, PTL DEF Spec

LEMMA EmittedIs ==
    ASSUME IInv
    PROVE  MaxValues \in Nat /\ \A t \in Threads : emitted[t][key] \in 0..MaxValues
<1>1. key \in Keys /\ MaxValues \in Nat
  BY Typed, Bounds
<1>2. emitted \in [Threads -> [Keys -> 0..MaxValues]]
  BY DEF IInv, TypeOK
<1> QED BY <1>1, <1>2

\* What reduce has got are emissions of the key.
LEMMA GotEmissions ==
    ASSUME IInv, WInv, phase = "reduce", NEW m \in 1..Len(got), NEW e \in got[m]
    PROVE  e \in Emissions
<1>1. PICK l, c, n : Position(l, c, n) /\ got[m] = ValueAt(l, c, n)
  BY DEF WInv, WalkInv, GotInv
<1>2. l \in 1..Len(itr.list_array) /\ In(Chain(l), c, n, e)
  BY <1>1 DEF Position, ValueAt, In
<1>3. PICK t \in Threads : t = itr.list_array[l] /\ Holds(Chain(l), t, emitted[t][key])
  BY <1>2, ReduceLists DEF WInv
<1>4. PICK i \in 1..emitted[t][key] : e = <<t, i>>
  BY <1>2, <1>3 DEF Holds
<1>5. emitted[t][key] \in 0..MaxValues /\ MaxValues \in Nat
  BY EmittedIs
<1>6. i \in 1..MaxValues /\ i <= emitted[t][key]
  BY <1>4, <1>5
<1> QED BY <1>4, <1>6 DEF Emissions

\* All emissions of the key are in the lists of the iterator.
LEMMA EmissionsIn ==
    ASSUME IInv, WInv, phase = "reduce", NEW e \in Emissions
    PROVE  \E l, c, n : Position(l, c, n) /\ e \in ValueAt(l, c, n)
<1>1. PICK t \in Threads, i \in 1..MaxValues : e = <<t, i>>
  BY DEF Emissions
<1>2. i \in 1..emitted[t][key]
  <2>1. i <= emitted[t][key]
    BY <1>1 DEF Emissions
  <2>2. emitted[t][key] \in 0..MaxValues /\ MaxValues \in Nat
    BY EmittedIs
  <2> QED BY <2>1, <2>2
<1>3. Holds(lists[t][key].vals, t, emitted[t][key])
  BY ReduceLists DEF WInv
<1>4. PICK c, n : In(lists[t][key].vals, c, n, e)
  BY <1>1, <1>2, <1>3 DEF Holds
<1>5. lists[t][key].vals # <<>>
  <2>1. \A x : x \notin 1..Len(<<>>)
    OBVIOUS
  <2> QED BY <1>4, <2>1 DEF In, Slot
<1>6. PICK l \in 1..Len(itr.list_array) : itr.list_array[l] = t
  <2>1. InIterator(t, 0)
    BY <1>5, ReduceState
  <2>2. 0 + 1 = 1
    OBVIOUS
  <2> QED BY <2>1, <2>2 DEF InIterator
<1>7. Chain(l) = lists[t][key].vals
  BY <1>6 DEF Chain
<1>8. Position(l, c, n) /\ e \in ValueAt(l, c, n)
  BY <1>4, <1>6, <1>7 DEF In, Position, ValueAt
<1> QED BY <1>8

\* At the end everything has been passed.
LEMMA AllPassed ==
    ASSUME IInv, WInv, phase = "reduce", ended
    PROVE  /\ \A l, c, n : Position(l, c, n) =>
                 Passed(itr.current_list, itr.current_index, itr.val, l, c, n)
           /\ Len(got) = itr.size
<1> DEFINE d == itr.current_list
           i == itr.current_index
           p == itr.val.place
<1>1. /\ d \in Nat /\ i \in Nat /\ d + 1 \in 1..Len(itr.list_array)
      /\ Len(itr.list_array) \in Nat /\ d + 1 = Len(itr.list_array)
      /\ Len(Chain(d + 1)) \in Nat /\ p \in 1..Len(Chain(d + 1)) /\ p = Len(Chain(d + 1))
      /\ Len(Chain(d + 1)[p].array) \in Nat /\ i = Len(Chain(d + 1)[p].array)
  BY WalkState DEF WInv, WalkInv
<1>2. PICK g, f : /\ Sizes(g) /\ itr.size = g[Len(itr.list_array)]
                  /\ Counts(Chain(d + 1), f)
                  /\ f[Len(Chain(d + 1))] = lists[itr.list_array[d + 1]][key].len
                  /\ Len(got) = g[d] + f[p - 1] + i
  BY DEF WInv, WalkInv, CountInv
<1>3. ASSUME NEW l, NEW c, NEW n, Position(l, c, n)
      PROVE  Passed(d, i, itr.val, l, c, n)
  <2>1. /\ l \in Nat /\ c \in Nat /\ n \in Nat /\ l <= Len(itr.list_array)
        /\ c <= Len(Chain(l)) /\ n <= Len(Chain(l)[c].array)
    BY <1>3, PositionIs DEF WInv
  <2> HIDE DEF d, i
  <2>2. CASE l = d + 1
    <3>1. c <= p /\ (c = p => n <= i)
      BY <1>1, <2>1, <2>2
    <3>2. \A x, y \in Nat : x <= y => x < y \/ x = y
      OBVIOUS
    <3>3. c \in Nat /\ p \in Nat
      BY <1>1, <2>1
    <3>4. c < p \/ c = p
      BY <3>1, <3>2, <3>3, Zenon
    <3> QED BY <2>2, <3>1, <3>4, Zenon DEF Passed, p
  <2>3. CASE l # d + 1
    <3>1. l < d + 1
      BY <1>1, <2>1, <2>3
    <3> QED BY <3>1 DEF Passed
  <2> QED BY <2>2, <2>3
<1>4. Len(got) = itr.size
  <2> HIDE DEF d, i, p
  <2>a. \A x, y \in Nat : x + 1 \in 1..y => x \in 0..y /\ x + 1 \in 0..y /\ (x + 1) - 1 = x
    OBVIOUS
  <2>b. \A x, y \in Nat : x \in 1..y => x \in 0..y /\ x - 1 \in 0..y
    OBVIOUS
  <2>c. \A x, y, z \in Nat : x + y + z = x + (y + z)
    OBVIOUS
  <2>1. /\ d \in 0..Len(itr.list_array) /\ (d + 1) - 1 = d
        /\ p \in 0..Len(Chain(d + 1)) /\ p - 1 \in 0..Len(Chain(d + 1))
    BY <1>1, <2>a, <2>b, Zenon
  <2>2. /\ g[d] \in Nat /\ g[d + 1] = g[d] + lists[itr.list_array[d + 1]][key].len
        /\ f[p - 1] \in Nat /\ f[p] = f[p - 1] + Len(Chain(d + 1)[p].array)
    BY <1>1, <1>2, <2>1 DEF Sizes, Counts
  <2>3. f[p] = lists[itr.list_array[d + 1]][key].len /\ f[p] = f[p - 1] + i
    BY <1>1, <1>2, <2>2
  <2>4. Len(got) = g[d] + f[p]
    <3>1. g[d] \in Nat /\ f[p - 1] \in Nat /\ i \in Nat
      BY <1>1, <2>2, Zenon
    <3>2. g[d] + f[p - 1] + i = g[d] + (f[p - 1] + i)
      BY <2>c, <3>1, Zenon
    <3>3. Len(got) = g[d] + f[p - 1] + i /\ f[p] = f[p - 1] + i
      BY <1>2, <2>3, Zenon
    <3> QED BY <3>2, <3>3, Zenon
  <2> QED BY <1>1, <1>2, <2>2, <2>3, <2>4
<1> QED BY <1>3, <1>4

\* Whatever the map workers have emitted for a key, in chunks of whatever sizes and with
\* or without a combiner, reduce gets each emission once, none of another key, and
\* when iter_next returns 0 all of them; then iter_size is the number of values it got
\* (iterator.c; "assert (i == vals_len)" in kmeans.c).
THEOREM WalkOnce == Spec => []WalkComplete
<1>1. IInv /\ WInv => WalkComplete
  <2> SUFFICES ASSUME IInv, WInv, phase = "reduce"
               PROVE  /\ \A k, l \in DOMAIN got : k # l => got[k] \cap got[l] = {}
                      /\ UNION Values \subseteq Emissions
                      /\ ended => UNION Values = Emissions /\ Len(got) = itr.size
    BY DEF WalkComplete
  <2>1. got \in Seq(Emission) /\ \A k, l \in 1..Len(got) : k # l => got[k] \cap got[l] = {}
    BY DEF WInv, WalkInv, GotInv
  <2>2. DOMAIN got = 1..Len(got)
    BY <2>1
  <2>3. UNION Values \subseteq Emissions
    <3> SUFFICES ASSUME NEW m \in 1..Len(got), NEW e \in got[m] PROVE e \in Emissions
      BY <2>2 DEF Values
    <3> QED BY GotEmissions
  <2>4. ASSUME ended, NEW e \in Emissions PROVE e \in UNION Values
    <3>1. PICK l, c, n : Position(l, c, n) /\ e \in ValueAt(l, c, n)
      BY EmissionsIn
    <3>2. Passed(itr.current_list, itr.current_index, itr.val, l, c, n)
      BY <2>4, <3>1, AllPassed
    <3>3. PICK m \in 1..Len(got) : got[m] = ValueAt(l, c, n)
      BY <3>1, <3>2 DEF WInv, WalkInv, GotInv
    <3> QED BY <2>2, <3>1, <3>3 DEF Values
  <2>5. ended => Len(got) = itr.size
    BY AllPassed
  <2> QED BY <2>1, <2>2, <2>3, <2>4, <2>5
<1> QED BY <1>1, Always, WAlways, PTL
=============================================================================
