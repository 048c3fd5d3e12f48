----------------------------- MODULE Distribute -----------------------------
(***************************************************************************)
(* How the Phoenix runtime makes map tasks and places them in the queues   *)
(* of the task queue (gen_map_tasks in map_reduce.c, on Linux).            *)
(*                                                                         *)
(* The splitter cuts the input into tasks, which go to a temporary queue.  *)
(* If the program has its own splitter and no locator, each locality group *)
(* gets its share of consecutive tasks; otherwise a task goes to the group *)
(* of its data.  The numbers of groups and of queues are computed in two   *)
(* places from the same threads and processors.                            *)
(*                                                                         *)
(* One thread does all this, and the properties are proved for every input *)
(* in Distribute_proofs.                                                   *)
(***************************************************************************)
EXTENDS Integers, Sequences, FiniteSets

VARIABLES
    data_units, chunk_size, num_map_threads,    \* the parameters of a job,
    splitter,      \* "array", "own", or "located": one's own with a locator
    phase,         \* the place in gen_map_tasks
    splitter_pos,
    q,             \* temp_queue: tasks, an interval of the units each
    num_map_tasks,
    lgrp, remaining_cur_lgrp_tasks, tasks_leftover,   \* gen_map_tasks_distribute_lgrp
    queues         \* of the task queue

parameters == <<data_units, chunk_size, num_map_threads, splitter>>
groupVars == <<lgrp, remaining_cur_lgrp_tasks, tasks_leftover>>
vars == <<parameters, phase, splitter_pos, q, num_map_tasks, groupVars, queues>>

AtLeastOne(n) == IF n = 0 THEN 1 ELSE n

proc_get_num_cpus == 4
loc_get_lgrp_size == proc_get_num_cpus

\* tq_init_normal
num_queues == AtLeastOne(num_map_threads \div loc_get_lgrp_size)
Queues == 0..(num_queues - 1)

Init == /\ data_units \in Nat /\ chunk_size \in Nat \ {0}
        /\ num_map_threads \in Nat \ {0}
        /\ splitter \in {"array", "own", "located"}
        /\ phase = "split" /\ splitter_pos = 0 /\ q = <<>> /\ num_map_tasks = 0
        /\ lgrp = 0 /\ remaining_cur_lgrp_tasks = 0 /\ tasks_leftover = 0
        /\ queues = [g \in Queues |-> <<>>]

-----------------------------------------------------------------------------
(* gen_map_tasks_split *)

array_splitter_length == IF splitter_pos + chunk_size > data_units
                           THEN data_units - splitter_pos ELSE chunk_size

\* A program's own splitter takes what suits it.
Split ==
    /\ phase = "split" /\ splitter_pos < data_units
    /\ \E length \in IF splitter = "array" THEN {array_splitter_length}
                                           ELSE 1..(data_units - splitter_pos) :
          /\ q' = Append(q, [id |-> Len(q), data |-> splitter_pos, len |-> length])
          /\ splitter_pos' = splitter_pos + length
    /\ UNCHANGED <<parameters, phase, num_map_tasks, groupVars, queues>>

-----------------------------------------------------------------------------
(* gen_map_tasks, gen_map_tasks_distribute *)

num_lgrps == AtLeastOne(num_map_threads \div loc_get_lgrp_size)
tasks_per_lgrp == num_map_tasks \div num_lgrps

\* Without a task map's assertion fails.
StartDistribute ==
    /\ phase = "split" /\ splitter_pos >= data_units
    /\ num_map_tasks' = Len(q)
    /\ tasks_leftover' = Len(q) - (Len(q) \div num_lgrps) * num_lgrps
    /\ phase' = IF q = <<>> THEN "aborted" ELSE IF splitter = "own" THEN "group" ELSE "locate"
    /\ UNCHANGED <<parameters, splitter_pos, q, lgrp, remaining_cur_lgrp_tasks, queues>>

\* gen_map_tasks_distribute_locator: loc_mem_to_lgrp returns 0.
Locate ==
    /\ phase = "locate"
    /\ IF q # <<>> THEN /\ queues' = [queues EXCEPT ![0 % num_queues] = Append(@, Head(q))]
                        /\ q' = Tail(q) /\ UNCHANGED phase
                   ELSE phase' = "done" /\ UNCHANGED <<q, queues>>
    /\ UNCHANGED <<parameters, splitter_pos, num_map_tasks, groupVars>>

-----------------------------------------------------------------------------
(* gen_map_tasks_distribute_lgrp *)

NextGroup ==
    /\ phase = "group"
    /\ IF lgrp < num_lgrps
         THEN LET one == IF tasks_leftover > 0 THEN 1 ELSE 0
              IN  /\ phase' = "move"
                  /\ remaining_cur_lgrp_tasks' = tasks_per_lgrp + one
                  /\ tasks_leftover' = tasks_leftover - one
         ELSE phase' = "done" /\ UNCHANGED <<remaining_cur_lgrp_tasks, tasks_leftover>>
    /\ UNCHANGED <<parameters, splitter_pos, q, num_map_tasks, lgrp, queues>>

\* The end of a group's loop, with n tasks that it should still have got.
EndGroup(n) == IF n # 0 THEN phase' = "done" /\ UNCHANGED lgrp
                        ELSE phase' = "group" /\ lgrp' = lgrp + 1

\* The loop tests remaining_cur_lgrp_tasks only behind the first task.
Move ==
    /\ phase = "move"
    /\ IF q = <<>>
         THEN /\ EndGroup(remaining_cur_lgrp_tasks)
              /\ UNCHANGED <<q, queues, remaining_cur_lgrp_tasks>>
         ELSE /\ queues' = [queues EXCEPT ![lgrp % num_queues] = Append(@, Head(q))]
              /\ q' = Tail(q)
              /\ remaining_cur_lgrp_tasks' = remaining_cur_lgrp_tasks - 1
              /\ IF remaining_cur_lgrp_tasks = 1 THEN EndGroup(0) ELSE UNCHANGED <<phase, lgrp>>
    /\ UNCHANGED <<parameters, splitter_pos, num_map_tasks, tasks_leftover>>

Finished == phase \in {"done", "aborted"} /\ UNCHANGED vars

Next == Split \/ StartDistribute \/ Locate \/ NextGroup \/ Move \/ Finished

Spec == Init /\ [][Next]_vars

-----------------------------------------------------------------------------
(* Properties. *)

Task == [id : Nat, data : Nat, len : Nat \ {0}]

TypeOK ==
    /\ data_units \in Nat /\ chunk_size \in Nat \ {0}
    /\ num_map_threads \in Nat \ {0}
    /\ splitter \in {"array", "own", "located"}
    /\ phase \in {"split", "locate", "group", "move", "done", "aborted"}
    /\ splitter_pos \in 0..data_units
    /\ q \in Seq(Task) /\ num_map_tasks \in Nat
    /\ lgrp \in 0..num_lgrps /\ remaining_cur_lgrp_tasks \in Nat /\ tasks_leftover \in Nat
    /\ queues \in [Queues -> Seq(Task)]

\* Each unit of the input is in one task, which is in one place of one queue.
Covers(task, u) == task.data <= u /\ u < task.data + task.len
EachUnitOnce ==
    phase = "done" =>
        \A u \in 0..(data_units - 1) :
            Cardinality({p \in UNION {{g} \X (1..Len(queues[g])) : g \in Queues} :
                            Covers(queues[p[1]][p[2]], u)}) = 1

\* "Just try to put consecutive tasks in the same task queue" (map_reduce.c): the
\* queues have their tasks in order, one after the other, and no queue has two tasks
\* more than another.
Spread ==
    phase = "done" /\ splitter = "own" =>
        /\ \A g, h \in Queues : Len(queues[g]) <= Len(queues[h]) + 1
        /\ \A g \in Queues : \A k \in 2..Len(queues[g]) :
              queues[g][k].id = queues[g][k - 1].id + 1
        /\ \A g, h \in Queues : \A k \in 1..Len(queues[g]), l \in 1..Len(queues[h]) :
              g < h => queues[g][k].id < queues[h][l].id
=============================================================================
