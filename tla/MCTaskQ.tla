------------------------------ MODULE MCTaskQ ------------------------------
(* An instance of TaskQ for TLC: a round of map tasks and one of reduce tasks; *)
(* and the lists its queues are made of, with up to three cells in two lists.  *)
EXTENDS TaskQ
CONSTANTS m1, m2, r1
TwoRounds == <<<<m1, m2>>, <<r1>>>>

NoCell == -1
L == INSTANCE List WITH Cells <- 0..4, Null <- NoCell

\* Links of the lists 0 and 4 with the cells s and t.
Neighbours(l, s) == {<<L!At(l, s, i), L!At(l, s, i + 1)>> : i \in 0..Len(s)}
Linked(s, t) ==
    LET pairs == Neighbours(0, s) \cup Neighbours(4, t)
        To(c)   == {p[2] : p \in {q \in pairs : q[1] = c}} \cup {NoCell}
        From(c) == {p[1] : p \in {q \in pairs : q[2] = c}} \cup {NoCell}
        The(S)  == CHOOSE c \in S : c = NoCell => S = {NoCell}
    IN  [next |-> [c \in 0..4 |-> The(To(c))], prev |-> [c \in 0..4 |-> The(From(c))]]

Orders(S) == UNION {{s \in [1..n -> S] : \A i, j \in 1..n : s[i] = s[j] => i = j} : n \in 0..3}

ASSUME ListsAssumption ==
    \A s \in Orders(1..3) : \A t \in Orders(1..3 \ {s[i] : i \in DOMAIN s}) :
        LET h == Linked(s, t)
        IN  /\ h \in L!Links /\ L!Represents(h, 0, s) /\ L!Represents(h, 4, t)
            /\ L!Correct(h, 0, s)
            /\ L!Framed(h, 0, s, 4, t)
            /\ L!Represents(L!list_init(h, 0), 0, <<>>)
=============================================================================
