------------------------------- MODULE List -------------------------------
(***************************************************************************)
(* The doubly linked circular lists of list.h, on which queue.h builds the *)
(* queues of TaskQ, at the level of their links: what TaskQ takes to be a  *)
(* sequence.  A list is its dummy cell; the links of all cells are in two  *)
(* functions, so that an operation on one list may disturb another one.    *)
(***************************************************************************)
EXTENDS Integers, Sequences

CONSTANTS Cells, Null     \* Null is none of the cells

Links == [next : [Cells -> Cells \cup {Null}], prev : [Cells -> Cells \cup {Null}]]

list_init(h, l) == [h EXCEPT !.next[l] = l, !.prev[l] = l]

list_peek_head(h, l) == IF h.next[l] # l THEN h.next[l] ELSE Null
list_peek_tail(h, l) == IF h.prev[l] # l THEN h.prev[l] ELSE Null

\* The four stores of an insertion between two neighbours.
Insert(h, before, new, after) ==
    [h EXCEPT !.next = [@ EXCEPT ![new] = after, ![before] = new],
              !.prev = [@ EXCEPT ![new] = before, ![after] = new]]

list_add_head(h, l, e) == Insert(h, l, e, h.next[l])
list_add_tail(h, l, e) == Insert(h, h.prev[l], e, l)

\* The neighbours are linked with each other, and the cell with none.
list_remove(h, e) ==
    [h EXCEPT !.prev = [@ EXCEPT ![h.next[e]] = h.prev[e], ![e] = Null],
              !.next = [@ EXCEPT ![h.prev[e]] = h.next[e], ![e] = Null]]

\* The links after it; what is returned is list_peek_head (or _tail) of before.
list_remove_head(h, l) == IF h.next[l] # l THEN list_remove(h, h.next[l]) ELSE h
list_remove_tail(h, l) == IF h.prev[l] # l THEN list_remove(h, h.prev[l]) ELSE h

-----------------------------------------------------------------------------

\* The cells of list l in order are s: the dummy cell stands before the first of
\* them and behind the last, and neighbours point at each other.
At(l, s, i) == IF i \in 1..Len(s) THEN s[i] ELSE l
Represents(h, l, s) ==
    /\ s \in Seq(Cells)
    /\ \A i \in 1..Len(s) : s[i] # l /\ \A j \in 1..Len(s) : s[i] = s[j] => i = j
    /\ \A i \in 0..Len(s) : /\ h.next[At(l, s, i)] = At(l, s, i + 1)
                            /\ h.prev[At(l, s, i + 1)] = At(l, s, i)

\* Lists have no cell in common.
Apart(k, t, l, s) == /\ k # l
                     /\ \A i \in 1..Len(s) : s[i] # k
                     /\ \A i \in 1..Len(t) : t[i] # l
                     /\ \A i \in 1..Len(s), j \in 1..Len(t) : s[i] # t[j]

\* The operations do to the sequence what their names say ...
Correct(h, l, s) ==
    /\ list_peek_head(h, l) = (IF s = <<>> THEN Null ELSE s[1])
    /\ list_peek_tail(h, l) = (IF s = <<>> THEN Null ELSE s[Len(s)])
    /\ \A e \in Cells : (e # l /\ \A i \in 1..Len(s) : s[i] # e) =>
          /\ Represents(list_add_tail(h, l, e), l, Append(s, e))
          /\ Represents(list_add_head(h, l, e), l, <<e>> \o s)
    /\ s # <<>> => /\ Represents(list_remove_head(h, l), l, Tail(s))
                   /\ Represents(list_remove_tail(h, l), l, SubSeq(s, 1, Len(s) - 1))

\* ... and nothing to the other lists.
Framed(h, l, s, k, t) ==
    /\ Represents(list_init(h, l), k, t)
    /\ Represents(list_remove_head(h, l), k, t)
    /\ Represents(list_remove_tail(h, l), k, t)
    /\ \A e \in Cells : (e # l /\ e # k /\ (\A i \in 1..Len(s) : s[i] # e)
                                      /\ (\A i \in 1..Len(t) : t[i] # e)) =>
          /\ Represents(list_add_tail(h, l, e), k, t)
          /\ Represents(list_add_head(h, l, e), k, t)
=============================================================================
