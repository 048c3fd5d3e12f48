------------------------------ MODULE MCTPool ------------------------------
(* Instances of TPool for TLC. *)
EXTENDS TPool

\* The schedules of the runtime with 2 and 3 processors (map and reduce on all
\* but the caller's, then a merge on none), twice as word_count does, and
\* others whose batches do not shrink: an empty batch, a growing one, all of
\* the threads.
GrowingSchedules == {<<1, 1, 0, 1, 1, 0>>, <<2, 2, 0, 2>>, <<1, 2, 3>>, <<3, 0, 3>>, <<>>}
ASSUME \A s \in GrowingSchedules : Growing(s)

\* word_count with the runtime's default of 4 processors: 3 workers map, 3
\* reduce, and the first merge round has 2 slices, one of them the caller's.
DefaultSchedule == {<<3, 3, 1, 0>>}

OneBatch == {<<2>>}
=============================================================================
