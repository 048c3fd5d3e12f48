------------------------- MODULE Distribute_proofs --------------------------
(***************************************************************************)
(* Proofs about Distribute for every input, chunk size and number of       *)
(* threads: each unit of the input is placed once, and a program's own     *)
(* splitter has its tasks spread evenly and in order.                      *)
(***************************************************************************)
EXTENDS Distribute, FiniteSetTheorems, TLAPS

-----------------------------------------------------------------------------
(* The inductive invariant. *)

\* What is at hand when the tasks are split.
SplitInv ==
    /\ phase = "split" => /\ queues = [g \in Queues |-> <<>>] /\ lgrp = 0
                          /\ \A k \in 1..Len(q) : q[k].id = k - 1
                          /\ \A k \in 1..Len(q) : q[k].data + q[k].len <= splitter_pos
    /\ phase \notin {"split", "aborted"} => splitter_pos >= data_units
    /\ phase \in {"group", "move"} => splitter = "own"
    /\ phase = "locate" => splitter # "own"
    /\ phase = "done" => q = <<>>

\* The tasks in q are as many as the groups from lgrp on have yet to get.
CountInv ==
    /\ phase = "group" =>
          /\ lgrp <= num_lgrps
          /\ tasks_leftover <= num_lgrps - lgrp
          /\ tasks_leftover + tasks_per_lgrp * (num_lgrps - lgrp) = Len(q)
    /\ phase = "move" =>
          /\ lgrp < num_lgrps
          /\ tasks_leftover <= num_lgrps - lgrp - 1
          /\ remaining_cur_lgrp_tasks + tasks_leftover
                + tasks_per_lgrp * (num_lgrps - lgrp - 1) = Len(q)
          /\ remaining_cur_lgrp_tasks = 0 => tasks_per_lgrp = 0 /\ tasks_leftover = 0

\* Groups before lgrp have their share, those behind it nothing.
Share(n) == n = tasks_per_lgrp \/ n = tasks_per_lgrp + 1
Dealing == phase \in {"group", "move"}
ShareInv ==
    /\ Dealing => \A g \in Queues : /\ g < lgrp => Share(Len(queues[g]))
                                    /\ g > lgrp => queues[g] = <<>>
    /\ phase = "group" /\ lgrp \in Queues => queues[lgrp] = <<>>
    /\ phase = "move" => Share(Len(queues[lgrp]) + remaining_cur_lgrp_tasks)
    /\ phase = "done" /\ splitter = "own" => \A g \in Queues : Share(Len(queues[g]))

\* Tasks leave q in the order of their numbers, and the last that left is in lgrp.
First == num_map_tasks - Len(q)
InOrder == /\ \A g \in Queues : \A k \in 2..Len(queues[g]) :
                 queues[g][k].id = queues[g][k - 1].id + 1
           /\ \A g, h \in Queues : \A k \in 1..Len(queues[g]), l \in 1..Len(queues[h]) :
                 g < h => queues[g][k].id < queues[h][l].id
OrderInv ==
    /\ Dealing => /\ InOrder
                  /\ \A k \in 1..Len(q) : q[k].id = First + k - 1
                  /\ \A g \in Queues : \A k \in 1..Len(queues[g]) : queues[g][k].id < First
    /\ phase = "move" =>
          (queues[lgrp] # <<>> => queues[lgrp][Len(queues[lgrp])].id = First - 1)
    /\ phase = "done" /\ splitter = "own" => InOrder

\* Where a unit is in q, and where in the queues.
InQ(u) == {k \in 1..Len(q) : Covers(q[k], u)}
InQueues(u) == {p \in UNION {{g} \X (1..Len(queues[g])) : g \in Queues} :
                   Covers(queues[p[1]][p[2]], u)}
UnitInv == phase # "aborted" =>
    \A u \in 0..(splitter_pos - 1) : \/ InQueues(u) = {} /\ \E k \in InQ(u) : InQ(u) = {k}
                                     \/ InQ(u) = {} /\ \E p \in InQueues(u) : InQueues(u) = {p}

IInv == TypeOK /\ SplitInv /\ CountInv /\ ShareInv /\ OrderInv /\ UnitInv

-----------------------------------------------------------------------------
(* Arithmetic, sequences and places. *)

LEMMA GroupsLemma ==
    ASSUME num_map_threads \in Nat \ {0}
    PROVE  /\ num_queues \in Nat \ {0} /\ num_lgrps = num_queues
           /\ Queues = 0..(num_queues - 1) /\ 0 \in Queues
           /\ \A g \in Queues : g % num_queues = g
<1>1. num_map_threads \div loc_get_lgrp_size \in Nat
  BY SMTT(20) DEF loc_get_lgrp_size, proc_get_num_cpus
<1>2. num_queues \in Nat \ {0}
  BY <1>1 DEF num_queues, AtLeastOne
<1>3. \A n \in Nat \ {0} : \A g \in 0..(n - 1) : g % n = g
  BY SMTT(20)
<1> QED BY <1>2, <1>3 DEF num_queues, num_lgrps, Queues

LEMMA ShareLemma ==
    ASSUME NEW n \in Nat, NEW m \in Nat \ {0}
    PROVE  /\ n \div m \in Nat
           /\ n - (n \div m) * m \in 0..(m - 1)
           /\ n - (n \div m) * m + (n \div m) * (m - 0) = n
BY SMTT(30)

\* The share of one group taken from those of k groups.
LEMMA OneShareLess ==
    ASSUME NEW p \in Nat, NEW k \in Nat \ {0}
    PROVE  p * k = p + p * (k - 1) /\ p * (k - 1) \in Nat
BY SMTT(30)

LEMMA AppendTask ==
    ASSUME NEW s \in Seq(Task), NEW e \in Task
    PROVE  /\ Append(s, e) \in Seq(Task) /\ Len(Append(s, e)) = Len(s) + 1
           /\ \A k \in 1..Len(s) : Append(s, e)[k] = s[k]
           /\ Append(s, e)[Len(s) + 1] = e
OBVIOUS

LEMMA TailTask ==
    ASSUME NEW s \in Seq(Task), s # <<>>
    PROVE  /\ Head(s) \in Task /\ Tail(s) \in Seq(Task) /\ Len(Tail(s)) = Len(s) - 1
           /\ Len(s) \in Nat \ {0} /\ Head(s) = s[1]
           /\ \A k \in 1..Len(Tail(s)) : Tail(s)[k] = s[k + 1]
OBVIOUS

LEMMA Unit ==
    \A u : /\ \A k : k \in InQ(u) <=> k \in 1..Len(q) /\ Covers(q[k], u)
           /\ \A p : p \in InQueues(u) <=>
                 \E g \in Queues : \E k \in 1..Len(queues[g]) :
                     p = <<g, k>> /\ Covers(queues[g][k], u)
BY DEF InQ, InQueues

LEMMA SameParameters ==
    ASSUME UNCHANGED parameters
    PROVE  /\ num_lgrps' = num_lgrps /\ num_queues' = num_queues /\ Queues' = Queues
           /\ data_units' = data_units /\ splitter' = splitter
           /\ num_map_threads' = num_map_threads /\ chunk_size' = chunk_size
BY DEF parameters, num_lgrps, num_queues, Queues

-----------------------------------------------------------------------------
(* Each action preserves the invariant. *)

LEMMA InitLemma == Init => IInv
<1> SUFFICES ASSUME Init PROVE IInv
  OBVIOUS
<1> USE DEF Init
<1>0. num_map_threads \in Nat \ {0}
  OBVIOUS
<1>1. TypeOK
  <2>1. lgrp \in 0..num_lgrps
    BY <1>0, GroupsLemma
  <2> QED BY <2>1 DEF TypeOK
<1>2. SplitInv
  BY DEF SplitInv
<1>3. CountInv /\ ShareInv /\ OrderInv
  BY DEF CountInv, ShareInv, OrderInv, Dealing
<1>4. UnitInv
  BY DEF UnitInv
<1> QED BY <1>1, <1>2, <1>3, <1>4 DEF IInv

LEMMA SplitStep ==
    ASSUME IInv, Split
    PROVE  IInv'
<1> USE DEF IInv
<1>0. /\ UNCHANGED parameters /\ phase = "split" /\ phase' = "split"
      /\ UNCHANGED <<num_map_tasks, groupVars, queues>>
  BY DEF Split
<1>1. PICK length \in 1..(data_units - splitter_pos) :
          /\ q' = Append(q, [id |-> Len(q), data |-> splitter_pos, len |-> length])
          /\ splitter_pos' = splitter_pos + length
  <2>1. splitter = "array" => array_splitter_length \in 1..(data_units - splitter_pos)
    BY DEF Split, array_splitter_length, TypeOK
  <2> QED BY <2>1 DEF Split
<1> DEFINE task == [id |-> Len(q), data |-> splitter_pos, len |-> length]
<1>2. task \in Task /\ Len(q) \in Nat /\ splitter_pos \in Nat
  BY DEF Task, TypeOK
<1>3. /\ q' \in Seq(Task) /\ Len(q') = Len(q) + 1 /\ q'[Len(q) + 1] = task
      /\ \A k \in 1..Len(q) : q'[k] = q[k]
  BY <1>1, <1>2, AppendTask DEF TypeOK
<1>4. TypeOK'
  <2>1. splitter_pos' \in 0..data_units
    BY <1>1 DEF TypeOK
  <2> QED BY <1>0, <1>3, <2>1, SameParameters DEF TypeOK, groupVars
<1>5. SplitInv'
  <2>1. \A k \in 1..Len(q') : q'[k].id = k - 1 /\ q'[k].data + q'[k].len <= splitter_pos'
    <3> SUFFICES ASSUME NEW k \in 1..Len(q')
                 PROVE  q'[k].id = k - 1 /\ q'[k].data + q'[k].len <= splitter_pos'
      OBVIOUS
    <3>1. CASE k = Len(q) + 1
      BY <1>1, <1>2, <1>3, <3>1
    <3>2. CASE k # Len(q) + 1
      <4>1. k \in 1..Len(q) /\ q'[k] = q[k]
        BY <1>2, <1>3, <3>2
      <4>2. q[k] \in Task
        BY <4>1 DEF TypeOK
      <4> QED BY <1>0, <1>1, <1>2, <4>1, <4>2 DEF SplitInv, Task
    <3> QED BY <3>1, <3>2
  <2> QED BY <1>0, <2>1, SameParameters DEF SplitInv, groupVars
<1>6. CountInv' /\ ShareInv' /\ OrderInv'
  BY <1>0 DEF CountInv, ShareInv, OrderInv, Dealing
<1>7. UnitInv'
  <2> SUFFICES ASSUME NEW u \in 0..(splitter_pos' - 1)
               PROVE  \/ InQueues(u)' = {} /\ \E k \in InQ(u)' : InQ(u)' = {k}
                      \/ InQ(u)' = {} /\ \E p \in InQueues(u)' : InQueues(u)' = {p}
    BY DEF UnitInv
  <2>1. InQueues(u)' = {} /\ InQueues(u) = {}
    <3>1. \A g \in Queues : Len(queues[g]) = 0
      BY <1>0 DEF SplitInv
    <3> QED BY <1>0, <3>1, SameParameters DEF InQueues
  <2>2. CASE u < splitter_pos
    <3>1. ~Covers(task, u)
      BY <1>2, <2>2 DEF Covers
    <3>2. \A k : k \in InQ(u)' <=> k \in InQ(u)
      BY <1>2, <1>3, <3>1 DEF InQ
    <3>3. u \in 0..(splitter_pos - 1)
      BY <1>2, <2>2
    <3>4. \E k \in InQ(u) : InQ(u) = {k}
      BY <1>0, <2>1, <3>3 DEF UnitInv
    <3> QED BY <2>1, <3>2, <3>4
  <2>3. CASE ~(u < splitter_pos)
    <3>1. Covers(task, u)
      BY <1>1, <1>2, <2>3 DEF Covers
    <3>2. \A k \in 1..Len(q) : ~Covers(q'[k], u)
      <4> SUFFICES ASSUME NEW k \in 1..Len(q) PROVE ~Covers(q[k], u)
        BY <1>3
      <4>1. q[k] \in Task /\ q[k].data + q[k].len <= splitter_pos
        BY <1>0 DEF SplitInv, TypeOK
      <4> QED BY <1>2, <2>3, <4>1 DEF Covers, Task
    <3>3. \A k : k \in InQ(u)' <=> k = Len(q) + 1
      BY <1>2, <1>3, <3>1, <3>2 DEF InQ
    <3> QED BY <2>1, <3>3
  <2> QED BY <2>2, <2>3
<1> QED BY <1>4, <1>5, <1>6, <1>7

LEMMA StartStep ==
    ASSUME IInv, StartDistribute
    PROVE  IInv'
<1> USE DEF IInv
<1>0. /\ phase = "split" /\ splitter_pos >= data_units
      /\ phase' = IF q = <<>> THEN "aborted" ELSE IF splitter = "own" THEN "group" ELSE "locate"
      /\ num_map_tasks' = Len(q)
      /\ tasks_leftover' = Len(q) - (Len(q) \div num_lgrps) * num_lgrps
      /\ UNCHANGED <<parameters, splitter_pos, q, lgrp, remaining_cur_lgrp_tasks, queues>>
  BY DEF StartDistribute
<1>1. /\ Len(q) \in Nat /\ num_lgrps \in Nat \ {0} /\ lgrp = 0
      /\ num_map_threads \in Nat \ {0} /\ splitter_pos \in Nat /\ data_units \in Nat
  BY <1>0, GroupsLemma DEF TypeOK, SplitInv
<1>2. /\ tasks_per_lgrp' = Len(q) \div num_lgrps /\ tasks_per_lgrp' \in Nat
      /\ tasks_leftover' \in 0..(num_lgrps - 1)
  BY <1>0, <1>1, ShareLemma, SameParameters DEF tasks_per_lgrp
<1>3. TypeOK'
  BY <1>0, <1>1, <1>2, SameParameters DEF TypeOK
<1>4. SplitInv'
  BY <1>0, <1>1, SameParameters DEF SplitInv
<1>5. CountInv'
  <2>1. tasks_leftover' + tasks_per_lgrp' * (num_lgrps - 0) = Len(q)
    BY <1>0, <1>1, <1>2, ShareLemma
  <2> QED BY <1>0, <1>1, <1>2, <2>1, SameParameters DEF CountInv
<1>6. /\ Queues' = Queues /\ 0 \in Queues /\ \A g \in Queues : g \in Nat /\ queues[g] = <<>>
  BY <1>0, <1>1, GroupsLemma, SameParameters DEF SplitInv
<1>7. ShareInv'
  BY <1>0, <1>1, <1>6 DEF ShareInv, Dealing
<1>8. OrderInv'
  <2>1. First' = 0
    BY <1>0, <1>1 DEF First
  <2> QED BY <1>0, <1>1, <1>6, <2>1 DEF OrderInv, InOrder, SplitInv, Dealing
<1>9. UnitInv'
  BY <1>0, <1>6 DEF UnitInv, InQ, InQueues
<1> QED BY <1>3, <1>4, <1>5, <1>7, <1>8, <1>9

\* A task goes from q to the end of queue g.
Pass(g) == /\ q # <<>>
           /\ queues' = [queues EXCEPT ![g] = Append(@, Head(q))]
           /\ q' = Tail(q)

LEMMA PassSequences ==
    ASSUME TypeOK, UNCHANGED parameters, NEW g \in Queues, Pass(g)
    PROVE  /\ queues' \in [Queues -> Seq(Task)] /\ q' \in Seq(Task) /\ Queues' = Queues
           /\ Len(q') = Len(q) - 1 /\ Len(q) \in Nat \ {0}
           /\ \A k \in 1..Len(q') : q'[k] = q[k + 1]
           /\ \A h \in Queues : h # g => queues'[h] = queues[h]
           /\ Len(queues[g]) \in Nat /\ Len(queues'[g]) = Len(queues[g]) + 1
           /\ \A k \in 1..Len(queues[g]) : queues'[g][k] = queues[g][k]
           /\ queues'[g][Len(queues[g]) + 1] = q[1]
<1>1. /\ Head(q) \in Task /\ Tail(q) \in Seq(Task) /\ Len(Tail(q)) = Len(q) - 1
      /\ Len(q) \in Nat \ {0} /\ Head(q) = q[1]
      /\ \A k \in 1..Len(Tail(q)) : Tail(q)[k] = q[k + 1]
  BY TailTask DEF TypeOK, Pass
<1>2. queues[g] \in Seq(Task) /\ queues \in [Queues -> Seq(Task)]
  BY DEF TypeOK
<1> DEFINE longer == Append(queues[g], Head(q))
<1>3. /\ longer \in Seq(Task) /\ Len(longer) = Len(queues[g]) + 1
      /\ \A k \in 1..Len(queues[g]) : longer[k] = queues[g][k]
      /\ longer[Len(queues[g]) + 1] = Head(q)
  BY <1>1, <1>2, AppendTask
<1>4. queues' = [queues EXCEPT ![g] = longer]
  BY DEF Pass
<1> HIDE DEF longer
<1>5. queues' \in [Queues -> Seq(Task)] /\ queues'[g] = longer
      /\ \A h \in Queues : h # g => queues'[h] = queues[h]
  BY <1>2, <1>3, <1>4
<1>6. Len(queues[g]) \in Nat
  BY <1>2
<1> QED BY <1>1, <1>3, <1>5, <1>6, SameParameters DEF Pass

LEMMA PassUnits ==
    ASSUME TypeOK, UNCHANGED <<parameters, splitter_pos>>, NEW g \in Queues, Pass(g),
           UnitInv, phase # "aborted"
    PROVE  UnitInv'
<1> SUFFICES ASSUME NEW u \in 0..(splitter_pos - 1)
             PROVE  \/ InQueues(u)' = {} /\ \E k \in InQ(u)' : InQ(u)' = {k}
                    \/ InQ(u)' = {} /\ \E p \in InQueues(u)' : InQueues(u)' = {p}
  BY DEF UnitInv
<1> DEFINE new == <<g, Len(queues[g]) + 1>>
<1>1. UNCHANGED parameters
  OBVIOUS
<1> HIDE DEF Pass
<1>2. \A p : p \in InQueues(u)' <=> p \in InQueues(u) \/ (p = new /\ Covers(q[1], u))
  <2>0. \A p : p \in InQueues(u)' <=>
            \E h \in Queues : \E k \in 1..Len(queues'[h]) : p = <<h, k>> /\ Covers(queues'[h][k], u)
    BY <1>1, PassSequences DEF InQueues
  <2>1. \A h \in Queues : h # g => queues'[h] = queues[h]
    BY <1>1, PassSequences
  <2>2. \A k : k \in 1..Len(queues'[g]) <=> k \in 1..Len(queues[g]) \/ k = Len(queues[g]) + 1
    BY <1>1, PassSequences
  <2>3. /\ \A k \in 1..Len(queues[g]) : queues'[g][k] = queues[g][k]
        /\ queues'[g][Len(queues[g]) + 1] = q[1]
    BY <1>1, PassSequences
  <2>4. ASSUME NEW p, p \in InQueues(u)'
        PROVE  p \in InQueues(u) \/ (p = new /\ Covers(q[1], u))
    <3>1. PICK h \in Queues : \E k \in 1..Len(queues'[h]) : p = <<h, k>> /\ Covers(queues'[h][k], u)
      BY <2>0, <2>4
    <3>2. PICK k \in 1..Len(queues'[h]) : p = <<h, k>> /\ Covers(queues'[h][k], u)
      BY <3>1
    <3>3. CASE h # g
      BY <2>1, <3>2, <3>3, Unit
    <3>4. CASE h = g /\ k \in 1..Len(queues[g])
      BY <2>3, <3>2, <3>4, Unit
    <3>5. CASE h = g /\ k = Len(queues[g]) + 1
      BY <2>3, <3>2, <3>5
    <3> QED BY <2>2, <3>2, <3>3, <3>4, <3>5
  <2>5. ASSUME NEW p, p \in InQueues(u)
        PROVE  p \in InQueues(u)'
    <3>1. PICK h \in Queues : \E k \in 1..Len(queues[h]) : p = <<h, k>> /\ Covers(queues[h][k], u)
      BY <2>5, Unit
    <3>2. PICK k \in 1..Len(queues[h]) : p = <<h, k>> /\ Covers(queues[h][k], u)
      BY <3>1
    <3>3. k \in 1..Len(queues'[h]) /\ queues'[h][k] = queues[h][k]
      BY <2>1, <2>2, <2>3, <3>2
    <3> QED BY <2>0, <3>2, <3>3
  <2>6. Covers(q[1], u) => new \in InQueues(u)'
    <3>1. Len(queues[g]) + 1 \in 1..Len(queues'[g])
      BY <2>2
    <3> QED BY <2>0, <2>3, <3>1
  <2> QED BY <2>4, <2>5, <2>6
<1>3. \A k : k \in InQ(u)' <=> k \in 1..(Len(q) - 1) /\ k + 1 \in InQ(u)
  BY <1>1, PassSequences DEF InQ
<1>4. 1 \in InQ(u) <=> Covers(q[1], u)
  BY <1>1, PassSequences, Unit
<1>5. \A k \in InQ(u) : k \in 1..Len(q)
  BY DEF InQ
<1>6. Len(q) \in Nat \ {0}
  BY <1>1, PassSequences
<1>7. CASE InQueues(u) = {} /\ \E k \in InQ(u) : InQ(u) = {k}
  <2>1. PICK k \in InQ(u) : InQ(u) = {k}
    BY <1>7
  <2>2. CASE k = 1
    <3>1. InQ(u)' = {}
      BY <1>3, <1>6, <2>1, <2>2
    <3>2. \A p : p \in InQueues(u)' <=> p = new
      BY <1>2, <1>4, <1>7, <2>1, <2>2
    <3>3. new \in InQueues(u)' /\ InQueues(u)' = {new}
      <4> HIDE DEF new
      <4> QED BY <3>2
    <3> QED BY <3>1, <3>3
  <2>3. CASE k # 1
    <3>1. InQueues(u)' = {}
      BY <1>2, <1>4, <1>7, <2>1, <2>3
    <3>2. \A j : j \in InQ(u)' <=> j = k - 1
      BY <1>3, <1>5, <1>6, <2>1, <2>3
    <3> QED BY <3>1, <3>2
  <2> QED BY <2>2, <2>3
<1>8. CASE InQ(u) = {} /\ \E p \in InQueues(u) : InQueues(u) = {p}
  <2>1. InQ(u)' = {}
    BY <1>3, <1>8
  <2>2. \A p : p \in InQueues(u)' <=> p \in InQueues(u)
    BY <1>2, <1>4, <1>8
  <2> QED BY <1>8, <2>1, <2>2
<1> QED BY <1>7, <1>8 DEF UnitInv

LEMMA LocateStep ==
    ASSUME IInv, Locate
    PROVE  IInv'
<1> USE DEF IInv
<1>0. /\ phase = "locate" /\ splitter # "own" /\ splitter_pos >= data_units
      /\ UNCHANGED <<parameters, splitter_pos, num_map_tasks, groupVars>>
  BY DEF Locate, SplitInv
<1>1. 0 \in Queues /\ 0 % num_queues = 0
  BY GroupsLemma DEF TypeOK
<1>2. CASE q # <<>>
  <2>1. Pass(0) /\ phase' = phase
    BY <1>1, <1>2 DEF Locate, Pass
  <2>2. /\ queues' \in [Queues -> Seq(Task)] /\ q' \in Seq(Task)
    BY <1>0, <1>1, <2>1, PassSequences
  <2>3. TypeOK'
    BY <1>0, <2>1, <2>2, SameParameters DEF TypeOK, groupVars
  <2>4. SplitInv' /\ CountInv' /\ ShareInv' /\ OrderInv'
    BY <1>0, <2>1, SameParameters DEF SplitInv, CountInv, ShareInv, OrderInv, Dealing
  <2>5. UnitInv'
    BY <1>0, <1>1, <2>1, PassUnits
  <2> QED BY <2>3, <2>4, <2>5
<1>3. CASE q = <<>>
  <2>1. phase' = "done" /\ UNCHANGED <<q, queues>>
    BY <1>3 DEF Locate
  <2>2. TypeOK'
    BY <1>0, <2>1, SameParameters DEF TypeOK, groupVars
  <2>3. SplitInv' /\ CountInv' /\ ShareInv' /\ OrderInv'
    BY <1>0, <1>3, <2>1, SameParameters DEF SplitInv, CountInv, ShareInv, OrderInv, Dealing
  <2>4. UnitInv'
    BY <1>0, <2>1, SameParameters DEF UnitInv, InQ, InQueues
  <2> QED BY <2>2, <2>3, <2>4
<1> QED BY <1>2, <1>3

\* What the two steps of a group's loop use.
LEMMA DealingFacts ==
    ASSUME IInv, Dealing
    PROVE  /\ Len(q) \in Nat /\ num_lgrps \in Nat \ {0} /\ num_lgrps = num_queues
           /\ lgrp \in Nat /\ tasks_per_lgrp \in Nat /\ tasks_leftover \in Nat
           /\ remaining_cur_lgrp_tasks \in Nat /\ num_map_tasks \in Nat
           /\ \A g : g \in Queues <=> g \in Nat /\ g < num_lgrps
           /\ \A g \in Queues : g % num_queues = g /\ Len(queues[g]) \in Nat
           /\ splitter = "own" /\ splitter_pos >= data_units
<1> USE DEF IInv, TypeOK
<1>1. num_lgrps \in Nat \ {0} /\ num_lgrps = num_queues /\ \A g \in Queues : g % num_queues = g
  BY GroupsLemma
<1>2. tasks_per_lgrp \in Nat
  BY <1>1, ShareLemma DEF tasks_per_lgrp
<1>3. \A g : g \in Queues <=> g \in Nat /\ g < num_lgrps
  BY <1>1 DEF Queues
<1>4. \A g \in Queues : Len(queues[g]) \in Nat
  OBVIOUS
<1>5. splitter = "own" /\ splitter_pos >= data_units
  BY DEF SplitInv, Dealing
<1>6. lgrp \in Nat
  BY <1>1
<1> QED BY <1>1, <1>2, <1>3, <1>4, <1>5, <1>6

LEMMA NextGroupStep ==
    ASSUME IInv, NextGroup
    PROVE  IInv'
<1> USE DEF IInv
<1>0. /\ phase = "group" /\ Dealing
      /\ UNCHANGED <<parameters, splitter_pos, q, num_map_tasks, lgrp, queues>>
  BY DEF NextGroup, Dealing
<1>1. /\ Queues' = Queues /\ First' = First /\ tasks_per_lgrp' = tasks_per_lgrp
      /\ num_lgrps' = num_lgrps /\ splitter' = splitter /\ data_units' = data_units
  BY <1>0, SameParameters DEF First, tasks_per_lgrp
<1>2. UnitInv'
  BY <1>0, <1>1 DEF UnitInv, InQ, InQueues, NextGroup
<1>3. CASE lgrp < num_lgrps
  <2> DEFINE one == IF tasks_leftover > 0 THEN 1 ELSE 0
  <2>1. /\ phase' = "move"
        /\ remaining_cur_lgrp_tasks' = tasks_per_lgrp + one
        /\ tasks_leftover' = tasks_leftover - one
    BY <1>3 DEF NextGroup
  <2>2. lgrp \in Queues
    BY <1>0, <1>3, DealingFacts
  <2>3. tasks_leftover' \in Nat /\ remaining_cur_lgrp_tasks' \in Nat
    BY <1>0, <2>1, DealingFacts
  <2>4. TypeOK'
    BY <1>0, <2>1, <2>3, SameParameters DEF TypeOK
  <2>5. SplitInv'
    BY <1>0, <1>1, <2>1, DealingFacts DEF SplitInv
  <2>6. CountInv'
    <3> DEFINE rest == tasks_per_lgrp * (num_lgrps - lgrp - 1)
    <3>1. tasks_per_lgrp * (num_lgrps - lgrp) = tasks_per_lgrp + rest /\ rest \in Nat
      BY <1>0, <1>3, DealingFacts, OneShareLess
    <3>2. /\ tasks_leftover <= num_lgrps - lgrp
          /\ tasks_leftover + (tasks_per_lgrp + rest) = Len(q)
      BY <1>0, <3>1 DEF CountInv
    <3>3. /\ Len(q) \in Nat /\ tasks_per_lgrp \in Nat /\ tasks_leftover \in Nat
          /\ num_lgrps \in Nat /\ lgrp \in Nat
      BY <1>0, DealingFacts
    <3> HIDE DEF rest
    <3>4. remaining_cur_lgrp_tasks' + tasks_leftover' + rest = Len(q)
      BY <2>1, <3>1, <3>2, <3>3
    <3>5. tasks_leftover' <= num_lgrps - lgrp - 1
      BY <1>3, <2>1, <3>2, <3>3
    <3>6. remaining_cur_lgrp_tasks' = 0 => tasks_per_lgrp = 0 /\ tasks_leftover' = 0
      BY <2>1, <3>3
    <3> QED BY <1>0, <1>1, <1>3, <2>1, <3>4, <3>5, <3>6 DEF CountInv, rest
  <2>7. ShareInv'
    <3>1. queues[lgrp] = <<>> /\ Len(queues[lgrp]) = 0
      BY <1>0, <2>2 DEF ShareInv
    <3>2. Share(Len(queues[lgrp]) + remaining_cur_lgrp_tasks)'
      BY <1>0, <1>1, <2>1, <3>1, DealingFacts DEF Share
    <3> QED BY <1>0, <1>1, <2>1, <3>2 DEF ShareInv, Share, Dealing
  <2>8. OrderInv'
    <3>1. queues[lgrp] = <<>>
      BY <1>0, <2>2 DEF ShareInv
    <3> QED BY <1>0, <1>1, <2>1, <3>1 DEF OrderInv, InOrder, Dealing
  <2> QED BY <1>2, <2>4, <2>5, <2>6, <2>7, <2>8
<1>4. CASE ~(lgrp < num_lgrps)
  <2>1. phase' = "done" /\ UNCHANGED <<remaining_cur_lgrp_tasks, tasks_leftover>>
    BY <1>4 DEF NextGroup
  <2>2. lgrp = num_lgrps
    BY <1>0, <1>4, DealingFacts DEF CountInv
  <2>3. q = <<>>
    <3>1. tasks_per_lgrp * (num_lgrps - lgrp) = 0 /\ tasks_leftover = 0
      BY <1>0, <2>2, DealingFacts DEF CountInv
    <3>2. Len(q) = 0
      BY <1>0, <3>1 DEF CountInv
    <3> QED BY <3>2 DEF TypeOK
  <2>4. TypeOK'
    BY <1>0, <2>1, SameParameters DEF TypeOK
  <2>5. SplitInv'
    BY <1>0, <1>1, <2>1, <2>3, DealingFacts DEF SplitInv
  <2>6. ShareInv'
    <3>1. \A g \in Queues : Share(Len(queues[g]))
      BY <1>0, <2>2, DealingFacts DEF ShareInv
    <3> QED BY <1>0, <1>1, <2>1, <3>1 DEF ShareInv, Share, Dealing
  <2>7. CountInv' /\ OrderInv'
    BY <1>0, <1>1, <2>1 DEF CountInv, OrderInv, InOrder, Dealing
  <2> QED BY <1>2, <2>4, <2>5, <2>6, <2>7
<1> QED BY <1>3, <1>4

\* The order in which a task joins the queue of its group.
LEMMA PassOrder ==
    ASSUME IInv, phase = "move", lgrp \in Queues, Pass(lgrp),
           UNCHANGED <<parameters, splitter_pos, num_map_tasks>>
    PROVE  /\ InOrder' /\ First' = First + 1
           /\ \A k \in 1..Len(q') : q'[k].id = First' + k - 1
           /\ \A g \in Queues' : \A k \in 1..Len(queues'[g]) : queues'[g][k].id < First'
           /\ queues'[lgrp][Len(queues'[lgrp])].id = First' - 1
<1> USE DEF IInv
<1> DEFINE n == Len(queues[lgrp])
<1> HIDE DEF Pass
<1>0. /\ Dealing /\ TypeOK /\ UNCHANGED parameters
  BY DEF Dealing
<1>1. /\ Queues' = Queues /\ Len(q') = Len(q) - 1 /\ Len(q) \in Nat \ {0}
      /\ \A k \in 1..Len(q') : q'[k] = q[k + 1]
      /\ \A h \in Queues : h # lgrp => queues'[h] = queues[h]
      /\ n \in Nat /\ Len(queues'[lgrp]) = n + 1
      /\ \A k \in 1..n : queues'[lgrp][k] = queues[lgrp][k]
      /\ queues'[lgrp][n + 1] = q[1]
  BY <1>0, PassSequences
<1>2. /\ num_map_tasks \in Nat /\ First \in Int /\ First' = First + 1
  BY <1>0, <1>1, DealingFacts DEF First
<1>3. /\ \A k \in 1..Len(q) : q[k].id = First + k - 1
      /\ \A g \in Queues : \A k \in 1..Len(queues[g]) : queues[g][k].id < First
      /\ n > 0 => queues[lgrp][n].id = First - 1
      /\ InOrder
  BY <1>0, <1>1 DEF OrderInv
<1>4. q[1].id = First
  BY <1>1, <1>2, <1>3
<1>5. \A g \in Queues : \A k \in 1..Len(queues[g]) : queues[g][k].id \in Nat
  <2>1. \A g \in Queues : queues[g] \in Seq(Task)
    BY DEF TypeOK
  <2>2. \A g \in Queues : \A k \in 1..Len(queues[g]) : queues[g][k] \in Task
    BY <2>1
  <2> QED BY <2>2 DEF Task
<1>6. \A k \in 1..Len(q') : q'[k].id = First' + k - 1
  BY <1>1, <1>2, <1>3
<1>7. \A g \in Queues : \A k \in 1..Len(queues'[g]) :
          \/ g = lgrp /\ k = n + 1 /\ queues'[g][k].id = First
          \/ k \in 1..Len(queues[g]) /\ queues'[g][k] = queues[g][k] /\ queues[g][k].id < First
  <2> SUFFICES ASSUME NEW g \in Queues, NEW k \in 1..Len(queues'[g])
               PROVE  \/ g = lgrp /\ k = n + 1 /\ queues'[g][k].id = First
                      \/ /\ k \in 1..Len(queues[g]) /\ queues'[g][k] = queues[g][k]
                         /\ queues[g][k].id < First
    OBVIOUS
  <2>1. CASE g # lgrp
    BY <1>1, <1>3, <2>1
  <2>2. CASE g = lgrp
    BY <1>1, <1>3, <1>4, <2>2
  <2> QED BY <2>1, <2>2
<1>8. \A g \in Queues : \A k \in 1..Len(queues'[g]) : queues'[g][k].id < First'
  <2> SUFFICES ASSUME NEW g \in Queues, NEW k \in 1..Len(queues'[g])
               PROVE  queues'[g][k].id < First'
    OBVIOUS
  <2>1. CASE queues'[g][k].id = First
    BY <1>2, <2>1
  <2>2. CASE k \in 1..Len(queues[g]) /\ queues'[g][k] = queues[g][k] /\ queues[g][k].id < First
    <3>1. queues[g][k].id \in Nat
      BY <1>5, <2>2
    <3> QED BY <1>2, <2>2, <3>1
  <2> QED BY <1>7, <2>1, <2>2
<1>9. \A g \in Queues : \A k \in 2..Len(queues'[g]) :
          queues'[g][k].id = queues'[g][k - 1].id + 1
  <2> SUFFICES ASSUME NEW g \in Queues, NEW k \in 2..Len(queues'[g])
               PROVE  queues'[g][k].id = queues'[g][k - 1].id + 1
    OBVIOUS
  <2>1. CASE g # lgrp
    BY <1>1, <1>3, <2>1 DEF InOrder
  <2>2. CASE g = lgrp /\ k = n + 1
    <3>1. n > 0 /\ n \in 1..n /\ k - 1 = n
      BY <1>1, <2>2
    <3>2. queues'[lgrp][n].id = First - 1
      BY <1>1, <1>3, <3>1
    <3>3. queues'[g][k].id = First /\ queues'[g][k - 1].id = First - 1
      BY <1>1, <1>4, <2>2, <3>1, <3>2
    <3> QED BY <1>2, <3>3
  <2>3. CASE g = lgrp /\ k # n + 1
    <3>1. k \in 2..n /\ k - 1 \in 1..n /\ k \in 1..n
      BY <1>1, <2>3
    <3> QED BY <1>1, <1>3, <2>3, <3>1 DEF InOrder
  <2> QED BY <2>1, <2>2, <2>3
<1>10. \A g, h \in Queues : \A k \in 1..Len(queues'[g]), l \in 1..Len(queues'[h]) :
          g < h => queues'[g][k].id < queues'[h][l].id
  <2> SUFFICES ASSUME NEW g \in Queues, NEW h \in Queues,
                      NEW k \in 1..Len(queues'[g]), NEW l \in 1..Len(queues'[h]), g < h
               PROVE  queues'[g][k].id < queues'[h][l].id
    OBVIOUS
  <2>1. g \in Nat /\ h \in Nat /\ lgrp \in Nat
    BY <1>0, DealingFacts
  <2>2. CASE h > lgrp
    <3>1. queues[h] = <<>> /\ queues'[h] = queues[h]
      BY <1>0, <1>1, <2>1, <2>2 DEF ShareInv
    <3> QED BY <3>1
  <2>3. CASE ~(h > lgrp)
    <3>1. g # lgrp
      BY <2>1, <2>3
    <3>2. k \in 1..Len(queues[g]) /\ queues'[g][k] = queues[g][k] /\ queues[g][k].id < First
      BY <1>7, <3>1
    <3> QED BY <1>3, <1>7, <3>2 DEF InOrder
  <2> QED BY <2>2, <2>3
<1>11. InOrder'
  BY <1>1, <1>9, <1>10 DEF InOrder
<1>12. queues'[lgrp][Len(queues'[lgrp])].id = First' - 1
  BY <1>1, <1>2, <1>4
<1> QED BY <1>1, <1>2, <1>6, <1>8, <1>11, <1>12

LEMMA MoveStep ==
    ASSUME IInv, Move
    PROVE  IInv'
<1> USE DEF IInv
<1>0. /\ phase = "move" /\ Dealing
      /\ UNCHANGED <<parameters, splitter_pos, num_map_tasks, tasks_leftover>>
  BY DEF Move, Dealing
<1>1. /\ Queues' = Queues /\ tasks_per_lgrp' = tasks_per_lgrp
      /\ num_lgrps' = num_lgrps /\ splitter' = splitter /\ data_units' = data_units
  BY <1>0, SameParameters DEF tasks_per_lgrp
<1> DEFINE rest == tasks_per_lgrp * (num_lgrps - lgrp - 1)
<1>2. /\ lgrp < num_lgrps /\ lgrp \in Queues /\ lgrp % num_queues = lgrp
      /\ tasks_leftover <= num_lgrps - lgrp - 1
      /\ remaining_cur_lgrp_tasks + tasks_leftover + rest = Len(q)
  BY <1>0, DealingFacts DEF CountInv
<1>3. rest \in Nat
  <2>1. num_lgrps \in Nat /\ lgrp \in Nat /\ tasks_per_lgrp \in Nat
    BY <1>0, DealingFacts
  <2>2. num_lgrps - lgrp \in Nat \ {0}
    BY <1>2, <2>1
  <2> QED BY <2>1, <2>2, OneShareLess
<1>4. /\ Len(q) \in Nat /\ num_lgrps \in Nat \ {0} /\ lgrp \in Nat /\ tasks_per_lgrp \in Nat
      /\ tasks_leftover \in Nat /\ remaining_cur_lgrp_tasks \in Nat /\ num_map_tasks \in Nat
      /\ \A g : g \in Queues <=> g \in Nat /\ g < num_lgrps
      /\ splitter = "own" /\ splitter_pos >= data_units
  BY <1>0, DealingFacts
<1> HIDE DEF rest
<1>5. CASE q = <<>>
  <2>1. Len(q) = 0 /\ remaining_cur_lgrp_tasks = 0 /\ tasks_leftover = 0 /\ rest = 0
    BY <1>2, <1>3, <1>4, <1>5
  <2>2. /\ phase' = "group" /\ lgrp' = lgrp + 1
        /\ UNCHANGED <<q, queues, remaining_cur_lgrp_tasks>>
    BY <1>5, <2>1 DEF Move, EndGroup
  <2>3. TypeOK'
    BY <1>0, <1>1, <1>2, <1>4, <2>2, SameParameters DEF TypeOK
  <2>4. SplitInv'
    BY <1>1, <1>0, <1>4, <2>2 DEF SplitInv
  <2>5. CountInv'
    BY <1>0, <1>1, <1>2, <1>4, <2>1, <2>2 DEF CountInv, rest
  <2>6. ShareInv'
    <3>1. Share(Len(queues[lgrp]))
      <4>1. Share(Len(queues[lgrp]) + 0)
        BY <1>0, <2>1 DEF ShareInv
      <4> QED BY <1>0, <1>2, <4>1, DealingFacts
    <3>2. \A g \in Queues : /\ g < lgrp' => Share(Len(queues[g]))
                            /\ g >= lgrp' => queues[g] = <<>>
      BY <1>0, <1>4, <2>2, <3>1 DEF ShareInv
    <3> QED BY <1>1, <1>4, <2>2, <3>2 DEF ShareInv, Share, Dealing
  <2>7. OrderInv'
    BY <1>0, <1>1, <2>2 DEF OrderInv, InOrder, Dealing, First
  <2>8. UnitInv'
    BY <1>0, <1>1, <2>2 DEF UnitInv, InQ, InQueues
  <2> QED BY <2>3, <2>4, <2>5, <2>6, <2>7, <2>8
<1>6. CASE q # <<>>
  <2>1. /\ Pass(lgrp) /\ remaining_cur_lgrp_tasks' = remaining_cur_lgrp_tasks - 1
        /\ IF remaining_cur_lgrp_tasks = 1 THEN phase' = "group" /\ lgrp' = lgrp + 1
                                           ELSE UNCHANGED <<phase, lgrp>>
    BY <1>2, <1>6 DEF Move, EndGroup, Pass
  <2>2. /\ queues' \in [Queues -> Seq(Task)] /\ q' \in Seq(Task)
        /\ Len(q') = Len(q) - 1 /\ Len(q) \in Nat \ {0}
        /\ \A h \in Queues : h # lgrp => queues'[h] = queues[h]
        /\ Len(queues[lgrp]) \in Nat /\ Len(queues'[lgrp]) = Len(queues[lgrp]) + 1
    BY <1>0, <1>2, <2>1, PassSequences
  <2>3. remaining_cur_lgrp_tasks > 0
    <3> SUFFICES ASSUME remaining_cur_lgrp_tasks = 0 PROVE FALSE
      BY <1>4
    <3>1. tasks_per_lgrp = 0 /\ tasks_leftover = 0
      BY <1>0 DEF CountInv
    <3>2. rest = 0
      BY <1>4, <3>1 DEF rest
    <3> QED BY <1>2, <1>4, <2>2, <3>1, <3>2
  <2>4. remaining_cur_lgrp_tasks' \in Nat /\ lgrp' \in 0..num_lgrps
    BY <1>2, <1>4, <2>1, <2>3
  <2>5. TypeOK'
    BY <1>0, <1>1, <2>1, <2>2, <2>4, SameParameters DEF TypeOK
  <2>6. SplitInv'
    BY <1>0, <1>1, <1>4, <2>1 DEF SplitInv
  <2>7. CountInv'
    <3>1. remaining_cur_lgrp_tasks' + tasks_leftover + rest = Len(q')
      BY <1>2, <1>3, <1>4, <2>1, <2>2
    <3>2. CASE remaining_cur_lgrp_tasks = 1
      <4>1. /\ num_lgrps - (lgrp + 1) = num_lgrps - lgrp - 1
            /\ lgrp + 1 <= num_lgrps
        BY <1>2, <1>4
      <4>2. tasks_leftover + rest = Len(q')
        BY <1>3, <1>4, <2>1, <3>1, <3>2
      <4> QED BY <1>0, <1>1, <1>2, <2>1, <3>2, <4>1, <4>2 DEF CountInv, rest
    <3>3. CASE remaining_cur_lgrp_tasks # 1
      <4>1. remaining_cur_lgrp_tasks' # 0
        BY <1>4, <2>1, <3>3
      <4> QED BY <1>0, <1>1, <1>2, <2>1, <3>1, <3>3, <4>1 DEF CountInv, rest
    <3> QED BY <3>2, <3>3
  <2>8. ShareInv'
    <3>1. Share(Len(queues'[lgrp]) + remaining_cur_lgrp_tasks')
      <4>1. Len(queues'[lgrp]) + remaining_cur_lgrp_tasks'
                = Len(queues[lgrp]) + remaining_cur_lgrp_tasks
        BY <1>4, <2>1, <2>2
      <4> QED BY <1>0, <4>1 DEF ShareInv
    <3>2. \A g \in Queues : /\ g < lgrp => Share(Len(queues'[g]))
                            /\ g > lgrp => queues'[g] = <<>>
      BY <1>0, <1>4, <2>2 DEF ShareInv
    <3>3. CASE remaining_cur_lgrp_tasks = 1
      <4>1. Share(Len(queues'[lgrp]))
        <5>1. Share(Len(queues'[lgrp]) + 0) /\ Len(queues'[lgrp]) \in Nat
          BY <1>4, <2>1, <2>2, <3>1, <3>3
        <5> QED BY <5>1
      <4>2. \A g \in Queues : /\ g < lgrp' => Share(Len(queues'[g]))
                              /\ g >= lgrp' => queues'[g] = <<>>
        BY <1>4, <2>1, <3>2, <3>3, <4>1
      <4> QED BY <1>1, <1>4, <2>1, <3>3, <4>2 DEF ShareInv, Share, Dealing
    <3>4. CASE remaining_cur_lgrp_tasks # 1
      BY <1>0, <1>1, <2>1, <3>1, <3>2, <3>4 DEF ShareInv, Share, Dealing
    <3> QED BY <3>3, <3>4
  <2>9. OrderInv'
    <3>1. /\ InOrder' /\ \A k \in 1..Len(q') : q'[k].id = First' + k - 1
          /\ \A g \in Queues' : \A k \in 1..Len(queues'[g]) : queues'[g][k].id < First'
          /\ queues'[lgrp][Len(queues'[lgrp])].id = First' - 1
      BY <1>0, <1>2, <2>1, PassOrder
    <3>2. phase' = "move" => lgrp' = lgrp
      BY <1>0, <2>1
    <3>3. phase' \in {"group", "move"}
      BY <1>0, <2>1
    <3> QED BY <3>1, <3>2, <3>3 DEF OrderInv, Dealing
  <2>10. UnitInv'
    BY <1>0, <1>2, <2>1, PassUnits
  <2> QED BY <2>5, <2>6, <2>7, <2>8, <2>9, <2>10
<1> QED BY <1>5, <1>6

-----------------------------------------------------------------------------
(* Theorems. *)

LEMMA Invariance == Spec => []IInv
<1>1. Init => IInv
  BY InitLemma
<1>2. IInv /\ [Next]_vars => IInv'
  <2> SUFFICES ASSUME IInv, [Next]_vars PROVE IInv'
    OBVIOUS
  <2>1. CASE UNCHANGED vars
    <3>1. /\ UNCHANGED <<parameters, phase, splitter_pos, q, num_map_tasks, groupVars, queues>>
          /\ Queues' = Queues /\ num_lgrps' = num_lgrps /\ First' = First
          /\ tasks_per_lgrp' = tasks_per_lgrp
      BY <2>1, SameParameters DEF vars, First, tasks_per_lgrp
    <3>2. TypeOK' /\ SplitInv' /\ CountInv'
      BY <3>1, SameParameters DEF IInv, TypeOK, SplitInv, CountInv, groupVars
    <3>3. ShareInv' /\ OrderInv'
      BY <3>1, SameParameters DEF IInv, ShareInv, Share, OrderInv, InOrder, Dealing, groupVars
    <3>4. UnitInv'
      BY <3>1 DEF IInv, UnitInv, InQ, InQueues
    <3> QED BY <3>2, <3>3, <3>4 DEF IInv
  <2>2. CASE Split
    BY <2>2, SplitStep
  <2>3. CASE StartDistribute
    BY <2>3, StartStep
  <2>4. CASE Locate
    BY <2>4, LocateStep
  <2>5. CASE NextGroup
    BY <2>5, NextGroupStep
  <2>6. CASE Move
    BY <2>6, MoveStep
  <2> QED BY <2>1, <2>2, <2>3, <2>4, <2>5, <2>6 DEF Next, Finished
<1> QED BY <1>1, <1>2, PTL DEF Spec

\* The variables of gen_map_tasks stay in their types; in particular a group's loop never
\* counts below 0, although it tests its counter only after a task.
THEOREM TypeCorrect == Spec => []TypeOK
<1>1. IInv => TypeOK
  BY DEF IInv
<1> QED BY <1>1, Invariance, PTL

\* When gen_map_tasks returns, each unit of the input is in one task in one queue.
THEOREM PlacedOnce == Spec => []EachUnitOnce
<1>1. IInv => EachUnitOnce
  <2> SUFFICES ASSUME IInv, phase = "done", NEW u \in 0..(data_units - 1)
               PROVE  Cardinality(InQueues(u)) = 1
    BY DEF EachUnitOnce, InQueues
  <2>1. u \in 0..(splitter_pos - 1)
    BY DEF IInv, SplitInv, TypeOK
  <2>2. InQ(u) = {}
    BY DEF IInv, SplitInv, InQ
  <2>3. \E p \in InQueues(u) : InQueues(u) = {p}
    BY <2>1, <2>2 DEF IInv, UnitInv
  <2> QED BY <2>3, FS_Singleton
<1> QED BY <1>1, Invariance, PTL

\* A program's own splitter without a locator has its tasks spread evenly over the queues,
\* and each queue has consecutive ones.
THEOREM EvenlySpread == Spec => []Spread
<1>1. IInv => Spread
  <2> SUFFICES ASSUME IInv, phase = "done", splitter = "own" PROVE Spread
    BY DEF Spread
  <2>1. InOrder /\ \A g \in Queues : Share(Len(queues[g]))
    BY DEF IInv, OrderInv, ShareInv
  <2>2. tasks_per_lgrp \in Nat
    BY GroupsLemma, ShareLemma DEF IInv, TypeOK, tasks_per_lgrp
  <2>3. \A g, h \in Queues : Len(queues[g]) <= Len(queues[h]) + 1
    BY <2>1, <2>2 DEF Share
  <2> QED BY <2>1, <2>3 DEF Spread, InOrder
<1> QED BY <1>1, Invariance, PTL
=============================================================================
