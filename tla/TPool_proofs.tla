---------------------------- MODULE TPool_proofs ----------------------------
(***************************************************************************)
(* Proofs about TPool for every number of threads and every set of         *)
(* schedules: type correctness, and, when no batch is smaller than one     *)
(* before it (empty batches aside), BarrierSafe, QuietBetweenBatches,      *)
(* DestroyJoins and the refinement of ForkJoin.                            *)
(***************************************************************************)
EXTENDS TPool, FiniteSetTheorems, SequenceTheorems, TLAPS

AllGrowing == \A s \in Schedules : Growing(s)

\* What the proofs need of the constants and of the schedule of a behaviour.
SchedInv == /\ NumThreads \in Nat \ {0}
            /\ Len(sched) \in Nat
            /\ \A k \in 1..Len(sched) : sched[k] \in 0..NumThreads
            /\ Growing(sched)

-----------------------------------------------------------------------------
(* The inductive invariant. *)

Destroying == mpc \in {"d_post", "d_wait", "destroyed"}
Quiet  == mpc \in {"set", "begin", "returned", "d_set"} \/ (mpc = "wait" /\ num_workers = 0)
Active == mpc \in {"post", "wait"} /\ num_workers > 0

\* The count that thread t has yet to compare with num_workers is the size of no
\* batch from batch b on.
Spent(t, b) == /\ count[t] \in 1..(NumThreads - 1)
               /\ \A k \in b..Len(sched) : sched[k] > 0 => count[t] < sched[k]

\* The threads that the counter counts in this batch.
Counted == {t \in Threads : ran[t] = 1 /\ pc[t] # "inc"}

\* Thread t is going to signal the end of the batch.
Signals(t) == \/ pc[t] = "done"
              \/ pc[t] = "read" /\ ran[t] = 1 /\ count[t] = num_workers

CallerInv ==
    /\ mpc \in {"create", "failed"} => batch = 0 /\ \A t \in Threads : ran[t] = 0
    /\ mpc = "set" => batch < Len(sched)
    /\ mpc \in {"begin", "post", "wait", "returned"} =>
          /\ batch >= 1
          /\ num_workers = sched[batch]
          /\ thread_func = batch
          /\ \A t \in Threads : t <= num_workers => args[t] = batch
    /\ mpc \in {"create", "d_post"} => i <= NumThreads
    /\ mpc = "post" => i <= num_workers
    /\ freed => mpc \in {"failed", "destroyed"}
    /\ die = 1 => Destroying
    /\ cancelled # {} => mpc = "failed"

CreateInv ==
    mpc \in {"create", "failed"} =>
        /\ sem_all_workers_done = 0
        /\ \A t \in Threads : sem_run[t] = 0
        /\ \A t \in Threads : pc[t] \in {"unborn", "sem", "exit"}
        /\ mpc = "create" => \A t \in Threads : pc[t] = IF t < i THEN "sem" ELSE "unborn"

QuietInv ==
    Quiet =>
        /\ sem_all_workers_done = 0
        /\ \A t \in Threads :
              /\ sem_run[t] = 0
              /\ pc[t] \in {"sem", "read"}
              /\ pc[t] = "read" => /\ Spent(t, IF mpc = "begin" THEN batch ELSE batch + 1)
                                   /\ count[t] # num_workers
        /\ mpc = "wait" => \A t \in Threads : ran[t] = 0

\* The progress of one thread in a batch that has been forked.
Progress(t) ==
    /\ ran[t] \in {0, 1}
    /\ t > num_workers \/ (mpc = "post" /\ t >= i) =>
          ran[t] = 0 /\ sem_run[t] = 0 /\ pc[t] \in {"sem", "read"}
    /\ ran[t] = 0 =>
          \/ t > num_workers \/ (mpc = "post" /\ t >= i)
          \/ sem_run[t] = 1 /\ pc[t] \in {"sem", "read"}
          \/ sem_run[t] = 0 /\ pc[t] \in {"die", "job", "call"}
    /\ ran[t] = 1 => /\ sem_run[t] = 0
                     /\ pc[t] \in {"inc", "read", "done", "sem"}
                     /\ ret[t] = [func |-> batch, arg |-> batch]
    /\ pc[t] = "call" => job[t] = [func |-> batch, arg |-> batch]
    /\ pc[t] = "read" /\ ran[t] = 0 => Spent(t, batch)
    /\ pc[t] = "read" /\ ran[t] = 1 => count[t] \in 1..num_workers_done

CountInv == num_workers_done = Cardinality(Counted)

SignalInv ==
    /\ sem_all_workers_done \in {0, 1}
    /\ sem_all_workers_done = 1 =>
          num_workers_done = num_workers /\ \A t \in Threads : ~Signals(t)
    /\ \A t \in Threads : Signals(t) => num_workers_done = num_workers
    /\ \A s, t \in Threads : Signals(s) /\ Signals(t) => s = t

ActiveInv == Active => (\A t \in Threads : Progress(t)) /\ CountInv /\ SignalInv

\* Once the pool is being destroyed no thread calls its function.
DestroyInv ==
    Destroying => \A t \in Threads :
                     /\ pc[t] \notin {"unborn", "job", "call", "inc"}
                     /\ sem_run[t] > 0 \/ pc[t] = "die" => die = 1

IInv == /\ TypeOK /\ CallerInv /\ CreateInv /\ QuietInv /\ ActiveInv /\ DestroyInv
        /\ BarrierSafe

-----------------------------------------------------------------------------
(* Lemmas *)

\* The schedule of a behaviour is one of Schedules.
LEMMA SchedLemma ==
    ASSUME TypeOK, AllGrowing
    PROVE  SchedInv
  <1>1. sched \in Schedules /\ Growing(sched)
    BY DEF TypeOK, AllGrowing
  <1>2. sched \in Seq(0..NumThreads)
    BY <1>1, SchedulesAssumption
  <1>3. Len(sched) \in Nat /\ \A k \in 1..Len(sched) : sched[k] \in 0..NumThreads
    BY <1>2, LenProperties, ElementOfSeq
  <1> QED
    BY <1>1, <1>3, NumThreadsAssumption DEF SchedInv

\* The counted threads of a batch are finitely many workers of it.
LEMMA CountedFinite ==
    ASSUME SchedInv, TypeOK, ActiveInv, Active
    PROVE  /\ Counted \subseteq 1..num_workers
           /\ IsFiniteSet(Counted)
           /\ num_workers_done \in Nat
           /\ num_workers_done <= num_workers
           /\ num_workers_done = num_workers => Counted = 1..num_workers
  <1>1. Counted \subseteq 1..num_workers
    BY DEF SchedInv, Counted, ActiveInv, Progress, TypeOK, Threads
  <1>2. num_workers \in Nat
    BY DEF SchedInv, TypeOK
  <1>3. IsFiniteSet(1..num_workers) /\ Cardinality(1..num_workers) = num_workers
    BY <1>2, FS_Interval
  <1>4. /\ IsFiniteSet(Counted)
        /\ Cardinality(Counted) <= Cardinality(1..num_workers)
        /\ Cardinality(1..num_workers) = Cardinality(Counted) => 1..num_workers = Counted
    BY <1>1, <1>3, FS_Subset
  <1>5. num_workers_done = Cardinality(Counted)
    BY DEF ActiveInv, CountInv
  <1> QED
    BY <1>1, <1>3, <1>4, <1>5, FS_CardinalityType

LEMMA CreateThreadStep ==
    ASSUME SchedInv, IInv, CreateThread
    PROVE  IInv'
  <1> USE DEF IInv, CreateThread, NextOf, callerVars, counterVars, taskVars, flagVars,
              resultVars
  <1>a. i \in Threads /\ i \in 1..NumThreads
    BY DEF TypeOK, CallerInv, SchedInv, Threads
  <1>1. TypeOK'
    BY <1>a DEF TypeOK, CallerInv, CallerPlaces, ThreadPlaces, SchedInv
  <1>2. CallerInv'
    BY <1>a DEF TypeOK, CallerInv, CreateInv, Destroying, CallerPlaces, SchedInv
  <1>3. CreateInv'
    BY <1>a DEF TypeOK, CallerInv, CreateInv, Threads
  <1>4. QuietInv'
    <2>1. \A t \in Threads : sem_run[t] = 0 /\ (i = NumThreads => pc'[t] = "sem")
      BY <1>a DEF TypeOK, CreateInv, Threads
    <2>2. Quiet' => i = NumThreads
      BY DEF Quiet
    <2> QED
      BY <1>a, <2>1, <2>2 DEF TypeOK, CallerInv, CreateInv, QuietInv, Quiet
  <1>5. ActiveInv'
    BY <1>a DEF TypeOK, SchedInv, CallerInv, QuietInv, ActiveInv, Quiet, Active, Spent,
                Progress, CountInv, SignalInv, Signals, Counted
  <1>6. DestroyInv'
    BY <1>a DEF TypeOK, CallerInv, QuietInv, DestroyInv, Quiet, Destroying
  <1>7. BarrierSafe'
    BY <1>a DEF TypeOK, CallerInv, QuietInv, Quiet, BarrierSafe
  <1> QED
    BY <1>1, <1>2, <1>3, <1>4, <1>5, <1>6, <1>7

LEMMA CreateFailsStep ==
    ASSUME SchedInv, IInv, CreateFails
    PROVE  IInv'
  <1> USE DEF IInv, CreateFails, callerVars, counterVars, taskVars, flagVars, resultVars
  <1>1. TypeOK'
    BY DEF TypeOK, CallerInv, CallerPlaces, ThreadPlaces, SchedInv
  <1>2. CallerInv'
    BY DEF TypeOK, CallerInv, CreateInv, Destroying, CallerPlaces, SchedInv
  <1>3. CreateInv'
    BY DEF TypeOK, CallerInv, CreateInv, QuietInv, Quiet
  <1>4. QuietInv'
    BY DEF TypeOK, CallerInv, CreateInv, QuietInv, Quiet, Spent, SchedInv
  <1>5. ActiveInv'
    BY DEF TypeOK, SchedInv, CallerInv, QuietInv, ActiveInv, Quiet, Active, Spent, Progress,
           CountInv, SignalInv, Signals, Counted
  <1>6. DestroyInv'
    BY DEF TypeOK, CallerInv, QuietInv, DestroyInv, Quiet, Destroying
  <1>7. BarrierSafe'
    BY DEF TypeOK, CallerInv, QuietInv, Quiet, BarrierSafe
  <1> QED
    BY <1>1, <1>2, <1>3, <1>4, <1>5, <1>6, <1>7

LEMMA tpool_setStep ==
    ASSUME SchedInv, IInv, tpool_set
    PROVE  IInv'
  <1> USE DEF IInv, tpool_set, callerVars, counterVars, taskVars, flagVars, resultVars
  <1>1. TypeOK'
    BY DEF TypeOK, CallerInv, CallerPlaces, ThreadPlaces, SchedInv
  <1>2. CallerInv'
    BY DEF TypeOK, CallerInv, CreateInv, Destroying, CallerPlaces, SchedInv
  <1>3. CreateInv'
    BY DEF TypeOK, CallerInv, CreateInv, QuietInv, Quiet
  <1>4. QuietInv'
    BY DEF TypeOK, CallerInv, CreateInv, QuietInv, Quiet, Spent, SchedInv
  <1>5. ActiveInv'
    BY DEF TypeOK, SchedInv, CallerInv, QuietInv, ActiveInv, Quiet, Active, Spent, Progress,
           CountInv, SignalInv, Signals, Counted
  <1>6. DestroyInv'
    BY DEF TypeOK, CallerInv, QuietInv, DestroyInv, Quiet, Destroying
  <1>7. BarrierSafe'
    BY DEF TypeOK, CallerInv, QuietInv, Quiet, BarrierSafe
  <1> QED
    BY <1>1, <1>2, <1>3, <1>4, <1>5, <1>6, <1>7

LEMMA BeginStep ==
    ASSUME SchedInv, IInv, Begin
    PROVE  IInv'
  <1> USE DEF IInv, Begin, NoneRan, callerVars, counterVars, taskVars, flagVars, resultVars
  <1>1. TypeOK'
    BY DEF TypeOK, CallerInv, CallerPlaces, ThreadPlaces, SchedInv
  <1>2. CallerInv'
    BY DEF TypeOK, CallerInv, CreateInv, Destroying, CallerPlaces, SchedInv
  <1>3. CreateInv'
    BY DEF TypeOK, CallerInv, CreateInv, QuietInv, Quiet
  <1>4. QuietInv'
    BY DEF TypeOK, CallerInv, CreateInv, QuietInv, Quiet, Spent, SchedInv
  <1>5. ActiveInv'
    <2> SUFFICES ASSUME Active'
                 PROVE  (\A s \in Threads : Progress(s)') /\ CountInv' /\ SignalInv'
      BY DEF ActiveInv
    <2>1. num_workers > 0 /\ i' = 1 /\ num_workers_done' = 0
      BY DEF Active, TypeOK
    <2>2. \A s \in Threads :
             /\ ran'[s] = 0 /\ sem_run[s] = 0 /\ pc[s] \in {"sem", "read"}
             /\ pc[s] = "read" => Spent(s, batch)
      BY DEF QuietInv, Quiet
    <2>3. ASSUME NEW s \in Threads
          PROVE  Progress(s)'
      BY <2>1, <2>2 DEF TypeOK, Progress, Spent, Threads, SchedInv
    <2>4. CountInv'
      <3>1. Counted' = {}
        BY <2>2 DEF Counted
      <3> QED
        BY <2>1, <3>1, FS_EmptySet DEF CountInv
    <2>5. SignalInv'
      BY <2>2 DEF SignalInv, Signals, QuietInv, Quiet
    <2> QED
      BY <2>3, <2>4, <2>5
  <1>6. DestroyInv'
    BY DEF TypeOK, CallerInv, QuietInv, DestroyInv, Quiet, Destroying
  <1>7. BarrierSafe'
    BY DEF TypeOK, CallerInv, QuietInv, Quiet, BarrierSafe
  <1> QED
    BY <1>1, <1>2, <1>3, <1>4, <1>5, <1>6, <1>7

LEMMA PostRunStep ==
    ASSUME SchedInv, IInv, PostRun
    PROVE  IInv'
  <1> USE DEF IInv, PostRun, callerVars, counterVars, taskVars, flagVars, resultVars
  <1>a. i \in Threads /\ i \in 1..NumThreads
    BY DEF TypeOK, CallerInv, SchedInv, Threads
  <1>1. TypeOK'
    <2>1. sem_run' \in [Threads -> Nat]
      BY <1>a DEF TypeOK
    <2>2. i' \in 1..NumThreads + 1
      BY <1>a DEF SchedInv
    <2> QED
      BY <2>1, <2>2 DEF TypeOK, CallerPlaces
  <1>2. CallerInv'
    BY <1>a DEF TypeOK, CallerInv, CreateInv, Destroying, CallerPlaces, SchedInv
  <1>3. CreateInv'
    BY <1>a DEF TypeOK, CallerInv, CreateInv, QuietInv, Quiet
  <1>4. QuietInv'
    BY <1>a DEF TypeOK, CallerInv, CreateInv, QuietInv, Quiet, Spent, SchedInv
  <1>5. ActiveInv'
    <2>1. Active /\ (\A s \in Threads : Progress(s)) /\ CountInv /\ SignalInv
      BY <1>a DEF TypeOK, SchedInv, CallerInv, Active, ActiveInv, Threads
    <2>2. ASSUME NEW s \in Threads
          PROVE  Progress(s)'
      <3>1. CASE s = i
        BY <1>a, <2>1, <3>1 DEF TypeOK, SchedInv, CallerInv, Progress, Spent
      <3>2. CASE s # i
        BY <1>a, <2>1, <3>2 DEF TypeOK, SchedInv, CallerInv, Progress, Spent, Threads
      <3> QED
        BY <3>1, <3>2
    <2>3. CountInv'
      BY <2>1 DEF CountInv, Counted
    <2>4. SignalInv'
      BY <2>1 DEF SignalInv, Signals
    <2> QED
      BY <2>2, <2>3, <2>4 DEF ActiveInv
  <1>6. DestroyInv'
    BY <1>a DEF TypeOK, CallerInv, QuietInv, DestroyInv, Quiet, Destroying
  <1>7. BarrierSafe'
    BY <1>a DEF TypeOK, CallerInv, QuietInv, Quiet, BarrierSafe
  <1> QED
    BY <1>1, <1>2, <1>3, <1>4, <1>5, <1>6, <1>7

LEMMA tpool_waitStep ==
    ASSUME SchedInv, IInv, tpool_wait
    PROVE  IInv'
  <1> USE DEF IInv, tpool_wait, callerVars, counterVars, taskVars, flagVars, resultVars
  <1>a. ASSUME num_workers > 0
        PROVE  /\ sem_all_workers_done' = 0
               /\ \A t \in Threads :
                     /\ sem_run[t] = 0 /\ pc[t] \in {"sem", "read"}
                     /\ pc[t] = "read" => Spent(t, batch + 1) /\ count[t] # num_workers
                     /\ IF t <= num_workers
                          THEN ran[t] = 1 /\ ret[t] = [func |-> batch, arg |-> batch]
                          ELSE ran[t] = 0
    <2>1. /\ mpc = "wait" /\ Active /\ (\A t \in Threads : Progress(t)) /\ SignalInv
          /\ num_workers = sched[batch] /\ batch \in 1..Len(sched)
      BY <1>a DEF TypeOK, SchedInv, CallerInv, Active, ActiveInv
    <2>2. /\ sem_all_workers_done = 1 /\ sem_all_workers_done' = 0
          /\ num_workers_done = num_workers
          /\ \A t \in Threads : ~Signals(t)
      BY <1>a, <2>1 DEF TypeOK, SignalInv
    <2>3. Counted = 1..num_workers
      BY <2>1, <2>2, CountedFinite
    <2>4. ASSUME NEW t \in Threads, t <= num_workers
          PROVE  /\ ran[t] = 1 /\ sem_run[t] = 0 /\ pc[t] \in {"sem", "read"}
                 /\ ret[t] = [func |-> batch, arg |-> batch]
                 /\ pc[t] = "read" => Spent(t, batch + 1) /\ count[t] # num_workers
      <3>1. t \in Counted
        BY <2>3, <2>4 DEF Threads, SchedInv, TypeOK
      <3>2. /\ ran[t] = 1 /\ sem_run[t] = 0 /\ pc[t] \in {"sem", "read"}
            /\ ret[t] = [func |-> batch, arg |-> batch]
            /\ pc[t] = "read" => count[t] \in 1..num_workers /\ count[t] # num_workers
        BY <2>1, <2>2, <3>1 DEF Counted, Progress, Signals
      <3>3. \A k \in batch + 1..Len(sched) : sched[k] > 0 => num_workers <= sched[k]
        BY <2>1 DEF SchedInv, Growing
      <3> QED
        BY <3>2, <3>3, <2>1 DEF Spent, SchedInv, TypeOK
    <2>5. ASSUME NEW t \in Threads, ~(t <= num_workers)
          PROVE  /\ ran[t] = 0 /\ sem_run[t] = 0 /\ pc[t] \in {"sem", "read"}
                 /\ pc[t] = "read" => Spent(t, batch + 1) /\ count[t] # num_workers
      <3>1. t > num_workers /\ Progress(t)
        <4>1. t \in Nat /\ num_workers \in Nat
          BY DEF Threads, SchedInv, TypeOK
        <4> QED
          BY <4>1, <2>1, <2>5
      <3>2. /\ ran[t] = 0 /\ sem_run[t] = 0 /\ pc[t] \in {"sem", "read"}
            /\ pc[t] = "read" => Spent(t, batch)
        BY <3>1 DEF Progress
      <3>3. Spent(t, batch) => Spent(t, batch + 1) /\ count[t] # num_workers
        BY <1>a, <2>1 DEF Spent, SchedInv, TypeOK
      <3> QED
        BY <3>2, <3>3
    <2> QED
      BY <2>2, <2>4, <2>5
  <1>1. TypeOK'
    BY DEF TypeOK, CallerInv, CallerPlaces, ThreadPlaces, SchedInv
  <1>2. CallerInv'
    BY DEF TypeOK, CallerInv, CreateInv, Destroying, CallerPlaces, SchedInv
  <1>3. CreateInv'
    BY DEF TypeOK, CallerInv, CreateInv, QuietInv, Quiet
  <1>4. QuietInv'
    <2>1. CASE num_workers = 0
      BY <2>1 DEF TypeOK, QuietInv, Quiet, Spent
    <2>2. CASE num_workers > 0
      BY <1>a, <2>2 DEF TypeOK, QuietInv, Quiet, Spent
    <2> QED
      BY <2>1, <2>2 DEF TypeOK
  <1>5. ActiveInv'
    BY DEF TypeOK, SchedInv, CallerInv, QuietInv, ActiveInv, Quiet, Active, Spent, Progress,
           CountInv, SignalInv, Signals, Counted
  <1>6. DestroyInv'
    BY DEF TypeOK, CallerInv, QuietInv, DestroyInv, Quiet, Destroying
  <1>7. BarrierSafe'
    <2>1. CASE num_workers = 0
      BY <2>1 DEF TypeOK, QuietInv, Quiet, BarrierSafe, Threads, SchedInv
    <2>2. CASE num_workers > 0
      BY <1>a, <2>2 DEF TypeOK, BarrierSafe
    <2> QED
      BY <2>1, <2>2 DEF TypeOK
  <1> QED
    BY <1>1, <1>2, <1>3, <1>4, <1>5, <1>6, <1>7

LEMMA ProceedStep ==
    ASSUME SchedInv, IInv, Proceed
    PROVE  IInv'
  <1> USE DEF IInv, Proceed, NextOf, callerVars, counterVars, taskVars, flagVars, resultVars
  <1>1. TypeOK'
    BY DEF TypeOK, CallerInv, CallerPlaces, ThreadPlaces, SchedInv
  <1>2. CallerInv'
    BY DEF TypeOK, CallerInv, CreateInv, Destroying, CallerPlaces, SchedInv
  <1>3. CreateInv'
    BY DEF TypeOK, CallerInv, CreateInv, QuietInv, Quiet
  <1>4. QuietInv'
    BY DEF TypeOK, CallerInv, CreateInv, QuietInv, Quiet, Spent, SchedInv
  <1>5. ActiveInv'
    BY DEF TypeOK, SchedInv, CallerInv, QuietInv, ActiveInv, Quiet, Active, Spent, Progress,
           CountInv, SignalInv, Signals, Counted
  <1>6. DestroyInv'
    BY DEF TypeOK, CallerInv, QuietInv, DestroyInv, Quiet, Destroying
  <1>7. BarrierSafe'
    BY DEF TypeOK, CallerInv, QuietInv, Quiet, BarrierSafe
  <1> QED
    BY <1>1, <1>2, <1>3, <1>4, <1>5, <1>6, <1>7

LEMMA DestroySetStep ==
    ASSUME SchedInv, IInv, DestroySet
    PROVE  IInv'
  <1> USE DEF IInv, DestroySet, callerVars, counterVars, taskVars, flagVars, resultVars
  <1>1. TypeOK'
    BY DEF TypeOK, CallerInv, CallerPlaces, ThreadPlaces, SchedInv
  <1>2. CallerInv'
    BY DEF TypeOK, CallerInv, CreateInv, Destroying, CallerPlaces, SchedInv
  <1>3. CreateInv'
    BY DEF TypeOK, CallerInv, CreateInv, QuietInv, Quiet
  <1>4. QuietInv'
    BY DEF TypeOK, CallerInv, CreateInv, QuietInv, Quiet, Spent, SchedInv
  <1>5. ActiveInv'
    BY DEF TypeOK, SchedInv, CallerInv, QuietInv, ActiveInv, Quiet, Active, Spent, Progress,
           CountInv, SignalInv, Signals, Counted
  <1>6. DestroyInv'
    <2>1. \A t \in Threads : sem_run[t] = 0 /\ pc[t] \in {"sem", "read"}
      BY DEF QuietInv, Quiet
    <2> QED
      BY <2>1 DEF DestroyInv
  <1>7. BarrierSafe'
    BY DEF TypeOK, CallerInv, QuietInv, Quiet, BarrierSafe
  <1> QED
    BY <1>1, <1>2, <1>3, <1>4, <1>5, <1>6, <1>7

LEMMA DestroyPostStep ==
    ASSUME SchedInv, IInv, DestroyPost
    PROVE  IInv'
  <1> USE DEF IInv, DestroyPost, callerVars, counterVars, taskVars, flagVars, resultVars
  <1>a. i \in Threads /\ i \in 1..NumThreads
    BY DEF TypeOK, CallerInv, SchedInv, Threads
  <1>1. TypeOK'
    BY <1>a DEF TypeOK, CallerInv, CallerPlaces, ThreadPlaces, SchedInv
  <1>2. CallerInv'
    BY <1>a DEF TypeOK, CallerInv, CreateInv, Destroying, CallerPlaces, SchedInv
  <1>3. CreateInv'
    BY <1>a DEF TypeOK, CallerInv, CreateInv, QuietInv, Quiet
  <1>4. QuietInv'
    BY <1>a DEF TypeOK, CallerInv, CreateInv, QuietInv, Quiet, Spent, SchedInv
  <1>5. ActiveInv'
    BY <1>a DEF TypeOK, SchedInv, CallerInv, QuietInv, ActiveInv, Quiet, Active, Spent,
                Progress, CountInv, SignalInv, Signals, Counted
  <1>6. DestroyInv'
    BY <1>a DEF TypeOK, CallerInv, QuietInv, DestroyInv, Quiet, Destroying
  <1>7. BarrierSafe'
    BY <1>a DEF TypeOK, CallerInv, QuietInv, Quiet, BarrierSafe
  <1> QED
    BY <1>1, <1>2, <1>3, <1>4, <1>5, <1>6, <1>7

LEMMA DestroyWaitStep ==
    ASSUME SchedInv, IInv, DestroyWait
    PROVE  IInv'
  <1> USE DEF IInv, DestroyWait, callerVars, counterVars, taskVars, flagVars, resultVars
  <1>1. TypeOK'
    BY DEF TypeOK, CallerInv, CallerPlaces, ThreadPlaces, SchedInv
  <1>2. CallerInv'
    BY DEF TypeOK, CallerInv, CreateInv, Destroying, CallerPlaces, SchedInv
  <1>3. CreateInv'
    BY DEF TypeOK, CallerInv, CreateInv, QuietInv, Quiet
  <1>4. QuietInv'
    BY DEF TypeOK, CallerInv, CreateInv, QuietInv, Quiet, Spent, SchedInv
  <1>5. ActiveInv'
    BY DEF TypeOK, SchedInv, CallerInv, QuietInv, ActiveInv, Quiet, Active, Spent, Progress,
           CountInv, SignalInv, Signals, Counted
  <1>6. DestroyInv'
    BY DEF TypeOK, CallerInv, QuietInv, DestroyInv, Quiet, Destroying
  <1>7. BarrierSafe'
    BY DEF TypeOK, CallerInv, QuietInv, Quiet, BarrierSafe
  <1> QED
    BY <1>1, <1>2, <1>3, <1>4, <1>5, <1>6, <1>7

LEMMA SemWaitStep ==
    ASSUME SchedInv, IInv, NEW t \in Threads, SemWait(t)
    PROVE  IInv'
  <1> USE DEF IInv, SemWait, Goto, callerVars, counterVars, taskVars, flagVars, resultVars
  <1>1. TypeOK'
    BY DEF TypeOK, CallerInv, CallerPlaces, ThreadPlaces, SchedInv
  <1>2. CallerInv'
    BY DEF TypeOK, CallerInv, CreateInv, Destroying, CallerPlaces, SchedInv
  <1>3. CreateInv'
    BY DEF TypeOK, CallerInv, CreateInv, QuietInv, Quiet
  <1>4. QuietInv'
    BY DEF TypeOK, CallerInv, CreateInv, QuietInv, Quiet, Spent, SchedInv
  <1>5. ActiveInv'
    <2> SUFFICES ASSUME Active'
                 PROVE  (\A s \in Threads : Progress(s)') /\ CountInv' /\ SignalInv'
      BY DEF ActiveInv
    <2>1. Active /\ (\A s \in Threads : Progress(s)) /\ CountInv /\ SignalInv
      BY DEF Active, ActiveInv
    <2>2. /\ ran[t] = 0 /\ t <= num_workers /\ ~(mpc = "post" /\ t >= i)
          /\ sem_run[t] = 1
      <3>1. Progress(t) /\ t \in Nat /\ num_workers \in Nat /\ sem_run[t] \in Nat
        BY <2>1 DEF TypeOK, Threads, SchedInv
      <3>2. /\ ran[t] = 0 /\ ~(t > num_workers) /\ ~(mpc = "post" /\ t >= i)
            /\ sem_run[t] = 1
        BY <3>1 DEF Progress
      <3> QED
        BY <3>1, <3>2, <2>1 DEF TypeOK, SchedInv, Active, CallerInv, Destroying
    <2>3. Progress(t)'
      BY <2>1, <2>2 DEF TypeOK, SchedInv, Active, Progress, Spent
    <2>4. ASSUME NEW s \in Threads, s # t
          PROVE  Progress(s)'
      BY <2>1, <2>2, <2>4 DEF TypeOK, SchedInv, Active, Progress, Spent
    <2>5. CountInv'
      <3>1. Counted' = Counted
        BY <2>1, <2>2 DEF TypeOK, Counted
      <3> QED
        BY <3>1, <2>1 DEF CountInv
    <2>6. SignalInv'
      BY <2>1, <2>2 DEF TypeOK, SignalInv, Signals
    <2> QED
      BY <2>3, <2>4, <2>5, <2>6
  <1>6. DestroyInv'
    BY DEF TypeOK, CallerInv, QuietInv, DestroyInv, Quiet, Destroying
  <1>7. BarrierSafe'
    BY DEF TypeOK, CallerInv, QuietInv, Quiet, BarrierSafe
  <1> QED
    BY <1>1, <1>2, <1>3, <1>4, <1>5, <1>6, <1>7

LEMMA CancelledStep ==
    ASSUME SchedInv, IInv, NEW t \in Threads, Cancelled(t)
    PROVE  IInv'
  <1> USE DEF IInv, Cancelled, Goto, callerVars, counterVars, taskVars, flagVars, resultVars
  <1>1. TypeOK'
    BY DEF TypeOK, CallerInv, CallerPlaces, ThreadPlaces, SchedInv
  <1>2. CallerInv'
    BY DEF TypeOK, CallerInv, CreateInv, Destroying, CallerPlaces, SchedInv
  <1>3. CreateInv'
    BY DEF TypeOK, CallerInv, CreateInv, QuietInv, Quiet
  <1>4. QuietInv'
    BY DEF TypeOK, CallerInv, CreateInv, QuietInv, Quiet, Spent, SchedInv
  <1>5. ActiveInv'
    BY DEF TypeOK, SchedInv, CallerInv, QuietInv, ActiveInv, Quiet, Active, Spent, Progress,
           CountInv, SignalInv, Signals, Counted
  <1>6. DestroyInv'
    BY DEF TypeOK, CallerInv, QuietInv, DestroyInv, Quiet, Destroying
  <1>7. BarrierSafe'
    BY DEF TypeOK, CallerInv, QuietInv, Quiet, BarrierSafe
  <1> QED
    BY <1>1, <1>2, <1>3, <1>4, <1>5, <1>6, <1>7

LEMMA ReadDieStep ==
    ASSUME SchedInv, IInv, NEW t \in Threads, ReadDie(t)
    PROVE  IInv'
  <1> USE DEF IInv, ReadDie, Goto, callerVars, counterVars, taskVars, flagVars, resultVars
  <1>1. TypeOK'
    BY DEF TypeOK, CallerInv, CallerPlaces, ThreadPlaces, SchedInv
  <1>2. CallerInv'
    BY DEF TypeOK, CallerInv, CreateInv, Destroying, CallerPlaces, SchedInv
  <1>3. CreateInv'
    BY DEF TypeOK, CallerInv, CreateInv, QuietInv, Quiet
  <1>4. QuietInv'
    BY DEF TypeOK, CallerInv, CreateInv, QuietInv, Quiet, Spent, SchedInv
  <1>5. ActiveInv'
    <2> SUFFICES ASSUME Active'
                 PROVE  (\A s \in Threads : Progress(s)') /\ CountInv' /\ SignalInv'
      BY DEF ActiveInv
    <2>1. Active /\ (\A s \in Threads : Progress(s)) /\ CountInv /\ SignalInv
      BY DEF Active, ActiveInv
    <2>2. /\ ran[t] = 0 /\ t <= num_workers /\ ~(mpc = "post" /\ t >= i)
          /\ sem_run[t] = 0 /\ die = 0
      <3>1. Progress(t) /\ t \in Nat /\ num_workers \in Nat /\ sem_run[t] \in Nat
        BY <2>1 DEF TypeOK, Threads, SchedInv
      <3>2. /\ ran[t] = 0 /\ ~(t > num_workers) /\ ~(mpc = "post" /\ t >= i)
            /\ sem_run[t] = 0
        BY <3>1 DEF Progress
      <3> QED
        BY <3>1, <3>2, <2>1 DEF TypeOK, SchedInv, Active, CallerInv, Destroying
    <2>3. Progress(t)'
      BY <2>1, <2>2 DEF TypeOK, SchedInv, Active, Progress, Spent
    <2>4. ASSUME NEW s \in Threads, s # t
          PROVE  Progress(s)'
      BY <2>1, <2>2, <2>4 DEF TypeOK, SchedInv, Active, Progress, Spent
    <2>5. CountInv'
      <3>1. Counted' = Counted
        BY <2>1, <2>2 DEF TypeOK, Counted
      <3> QED
        BY <3>1, <2>1 DEF CountInv
    <2>6. SignalInv'
      BY <2>1, <2>2 DEF TypeOK, SignalInv, Signals
    <2> QED
      BY <2>3, <2>4, <2>5, <2>6
  <1>6. DestroyInv'
    BY DEF TypeOK, CallerInv, QuietInv, DestroyInv, Quiet, Destroying
  <1>7. BarrierSafe'
    BY DEF TypeOK, CallerInv, QuietInv, Quiet, BarrierSafe
  <1> QED
    BY <1>1, <1>2, <1>3, <1>4, <1>5, <1>6, <1>7

LEMMA ReadJobStep ==
    ASSUME SchedInv, IInv, NEW t \in Threads, ReadJob(t)
    PROVE  IInv'
  <1> USE DEF IInv, ReadJob, Goto, Job, callerVars, counterVars, taskVars, flagVars, resultVars
  <1>1. TypeOK'
    BY DEF TypeOK, CallerInv, CallerPlaces, ThreadPlaces, SchedInv
  <1>2. CallerInv'
    BY DEF TypeOK, CallerInv, CreateInv, Destroying, CallerPlaces, SchedInv
  <1>3. CreateInv'
    BY DEF TypeOK, CallerInv, CreateInv, QuietInv, Quiet
  <1>4. QuietInv'
    BY DEF TypeOK, CallerInv, CreateInv, QuietInv, Quiet, Spent, SchedInv
  <1>5. ActiveInv'
    <2> SUFFICES ASSUME Active'
                 PROVE  (\A s \in Threads : Progress(s)') /\ CountInv' /\ SignalInv'
      BY DEF ActiveInv
    <2>1. Active /\ (\A s \in Threads : Progress(s)) /\ CountInv /\ SignalInv
      BY DEF Active, ActiveInv
    <2>2. /\ ran[t] = 0 /\ t <= num_workers /\ ~(mpc = "post" /\ t >= i)
          /\ sem_run[t] = 0 /\ thread_func = batch /\ args[t] = batch
      <3>1. Progress(t) /\ t \in Nat /\ num_workers \in Nat /\ sem_run[t] \in Nat
        BY <2>1 DEF TypeOK, Threads, SchedInv
      <3>2. /\ ran[t] = 0 /\ ~(t > num_workers) /\ ~(mpc = "post" /\ t >= i)
            /\ sem_run[t] = 0
        BY <3>1 DEF Progress
      <3> QED
        BY <3>1, <3>2, <2>1 DEF TypeOK, SchedInv, Active, CallerInv, Destroying
    <2>3. Progress(t)'
      BY <2>1, <2>2 DEF TypeOK, SchedInv, Active, Progress, Spent
    <2>4. ASSUME NEW s \in Threads, s # t
          PROVE  Progress(s)'
      BY <2>1, <2>2, <2>4 DEF TypeOK, SchedInv, Active, Progress, Spent
    <2>5. CountInv'
      <3>1. Counted' = Counted
        BY <2>1, <2>2 DEF TypeOK, Counted
      <3> QED
        BY <3>1, <2>1 DEF CountInv
    <2>6. SignalInv'
      BY <2>1, <2>2 DEF TypeOK, SignalInv, Signals
    <2> QED
      BY <2>3, <2>4, <2>5, <2>6
  <1>6. DestroyInv'
    BY DEF TypeOK, CallerInv, QuietInv, DestroyInv, Quiet, Destroying
  <1>7. BarrierSafe'
    BY DEF TypeOK, CallerInv, QuietInv, Quiet, BarrierSafe
  <1> QED
    BY <1>1, <1>2, <1>3, <1>4, <1>5, <1>6, <1>7

LEMMA CallStep ==
    ASSUME SchedInv, IInv, NEW t \in Threads, Call(t)
    PROVE  IInv'
  <1> USE DEF IInv, Call, Goto, Job, callerVars, counterVars, taskVars, flagVars, resultVars
  <1>1. TypeOK'
    BY DEF TypeOK, CallerInv, CallerPlaces, ThreadPlaces, SchedInv
  <1>2. CallerInv'
    BY DEF TypeOK, CallerInv, CreateInv, Destroying, CallerPlaces, SchedInv
  <1>3. CreateInv'
    BY DEF TypeOK, CallerInv, CreateInv, QuietInv, Quiet
  <1>4. QuietInv'
    BY DEF TypeOK, CallerInv, CreateInv, QuietInv, Quiet, Spent, SchedInv
  <1>5. ActiveInv'
    <2> SUFFICES ASSUME Active'
                 PROVE  (\A s \in Threads : Progress(s)') /\ CountInv' /\ SignalInv'
      BY DEF ActiveInv
    <2>1. Active /\ (\A s \in Threads : Progress(s)) /\ CountInv /\ SignalInv
      BY DEF Active, ActiveInv
    <2>2. /\ ran[t] = 0 /\ t <= num_workers /\ ~(mpc = "post" /\ t >= i)
          /\ sem_run[t] = 0 /\ job[t] = [func |-> batch, arg |-> batch]
      <3>1. Progress(t) /\ t \in Nat /\ num_workers \in Nat /\ sem_run[t] \in Nat
        BY <2>1 DEF TypeOK, Threads, SchedInv
      <3>2. /\ ran[t] = 0 /\ ~(t > num_workers) /\ ~(mpc = "post" /\ t >= i)
            /\ sem_run[t] = 0
        BY <3>1 DEF Progress
      <3> QED
        BY <3>1, <3>2, <2>1 DEF TypeOK, SchedInv, Active, CallerInv, Destroying, Progress
    <2>3. Progress(t)'
      <3>1. /\ ran'[t] = 1 /\ pc'[t] = "inc" /\ sem_run'[t] = 0
            /\ ret'[t] = [func |-> batch, arg |-> batch]
        BY <2>2 DEF TypeOK
      <3>2. num_workers' = num_workers /\ mpc' = mpc /\ i' = i /\ batch' = batch
        OBVIOUS
      <3>3. ~(t > num_workers)
        BY <2>2 DEF TypeOK, SchedInv, Threads
      <3> QED
        BY <2>2, <3>1, <3>2, <3>3 DEF Progress
    <2>4. ASSUME NEW s \in Threads, s # t
          PROVE  Progress(s)'
      BY <2>1, <2>2, <2>4 DEF TypeOK, SchedInv, Active, Progress, Spent
    <2>5. CountInv'
      <3>1. Counted' = Counted
        BY <2>1, <2>2 DEF TypeOK, Counted
      <3> QED
        BY <3>1, <2>1 DEF CountInv
    <2>6. SignalInv'
      BY <2>1, <2>2 DEF TypeOK, SignalInv, Signals
    <2> QED
      BY <2>3, <2>4, <2>5, <2>6
  <1>6. DestroyInv'
    BY DEF TypeOK, CallerInv, QuietInv, DestroyInv, Quiet, Destroying
  <1>7. BarrierSafe'
    BY DEF TypeOK, CallerInv, QuietInv, Quiet, BarrierSafe
  <1> QED
    BY <1>1, <1>2, <1>3, <1>4, <1>5, <1>6, <1>7

LEMMA FetchAndIncStep ==
    ASSUME SchedInv, IInv, NEW t \in Threads, FetchAndInc(t, "inc", "read")
    PROVE  IInv'
  <1> USE DEF IInv, FetchAndInc, Goto, callerVars, counterVars, taskVars, flagVars, resultVars
  <1>1. TypeOK'
    BY DEF TypeOK, CallerInv, CallerPlaces, ThreadPlaces, SchedInv
  <1>2. CallerInv'
    BY DEF TypeOK, CallerInv, CreateInv, Destroying, CallerPlaces, SchedInv
  <1>3. CreateInv'
    BY DEF TypeOK, CallerInv, CreateInv, QuietInv, Quiet
  <1>4. QuietInv'
    BY DEF TypeOK, CallerInv, CreateInv, QuietInv, Quiet, Spent, SchedInv
  <1>5. ActiveInv'
    <2> SUFFICES ASSUME Active'
                 PROVE  (\A s \in Threads : Progress(s)') /\ CountInv' /\ SignalInv'
      BY DEF ActiveInv
    <2>1. Active /\ (\A s \in Threads : Progress(s)) /\ CountInv /\ SignalInv
      BY DEF Active, ActiveInv
    <2>2. /\ ran[t] = 1 /\ t \in 1..num_workers /\ t \notin Counted /\ sem_run[t] = 0
          /\ ret[t] = [func |-> batch, arg |-> batch]
          /\ num_workers_done \in Nat /\ num_workers_done < num_workers
          /\ IsFiniteSet(Counted)
      <3>1. /\ ran[t] = 1 /\ t \in 1..num_workers /\ t \notin Counted /\ sem_run[t] = 0
            /\ ret[t] = [func |-> batch, arg |-> batch]
        <4>1. Progress(t) /\ t \in Nat /\ t >= 1 /\ num_workers \in Nat
          BY <2>1 DEF TypeOK, Threads, SchedInv
        <4>2. pc[t] = "inc" /\ t \notin Counted
          BY DEF Counted
        <4> QED
          BY <4>1, <4>2 DEF Progress
      <3>2. /\ num_workers_done \in Nat /\ num_workers_done <= num_workers
            /\ num_workers_done = num_workers => Counted = 1..num_workers
            /\ IsFiniteSet(Counted)
        BY <2>1, CountedFinite
      <3> QED
        BY <3>1, <3>2 DEF TypeOK
    <2>3. Progress(t)'
      BY <2>1, <2>2 DEF TypeOK, SchedInv, Active, Progress, Spent
    <2>4. ASSUME NEW s \in Threads, s # t
          PROVE  Progress(s)'
      BY <2>1, <2>2, <2>4 DEF TypeOK, SchedInv, Active, Progress, Spent
    <2>5. CountInv'
      <3>1. Counted' = Counted \cup {t}
        BY <2>2 DEF TypeOK, Counted
      <3>2. Cardinality(Counted') = Cardinality(Counted) + 1
        BY <2>2, <3>1, FS_AddElement
      <3> QED
        BY <3>2, <2>1 DEF CountInv
    <2>6. SignalInv'
      <3>1. sem_all_workers_done = 0 /\ \A s \in Threads : ~Signals(s)
        BY <2>1, <2>2 DEF TypeOK, SignalInv
      <3>2. \A s \in Threads : s # t => ~Signals(s)'
        BY <3>1 DEF TypeOK, Signals
      <3>3. Signals(t)' => (num_workers_done = num_workers)'
        BY DEF TypeOK, Signals
      <3> QED
        BY <3>1, <3>2, <3>3 DEF SignalInv
    <2> QED
      BY <2>3, <2>4, <2>5, <2>6
  <1>6. DestroyInv'
    BY DEF TypeOK, CallerInv, QuietInv, DestroyInv, Quiet, Destroying
  <1>7. BarrierSafe'
    BY DEF TypeOK, CallerInv, QuietInv, Quiet, BarrierSafe
  <1> QED
    BY <1>1, <1>2, <1>3, <1>4, <1>5, <1>6, <1>7

LEMMA ReadNumWorkersStep ==
    ASSUME SchedInv, IInv, NEW t \in Threads, ReadNumWorkers(t, "read", "done", "sem")
    PROVE  IInv'
  <1> USE DEF IInv, ReadNumWorkers, Goto, callerVars, counterVars, taskVars, flagVars,
              resultVars
  <1>a. Quiet \/ Active => freed = FALSE
    BY DEF TypeOK, CallerInv, Quiet, Active
  <1>1. TypeOK'
    BY <1>a DEF TypeOK, CallerInv, CallerPlaces, ThreadPlaces, SchedInv
  <1>2. CallerInv'
    BY <1>a DEF TypeOK, CallerInv, CreateInv, Destroying, CallerPlaces, SchedInv
  <1>3. CreateInv'
    BY <1>a DEF TypeOK, CallerInv, CreateInv, QuietInv, Quiet
  <1>4. QuietInv'
    BY <1>a DEF TypeOK, CallerInv, CreateInv, QuietInv, Quiet, Spent, SchedInv
  <1>5. ActiveInv'
    <2> SUFFICES ASSUME Active'
                 PROVE  (\A s \in Threads : Progress(s)') /\ CountInv' /\ SignalInv'
      BY DEF ActiveInv
    <2>1. Active /\ (\A s \in Threads : Progress(s)) /\ CountInv /\ SignalInv
      BY DEF Active, ActiveInv
    <2>2. /\ pc[t] = "read" /\ ran[t] \in {0, 1}
          /\ pc'[t] = IF Signals(t) THEN "done" ELSE "sem"
          /\ Signals(t) => ran[t] = 1
      <3>1. pc[t] = "read" /\ pc'[t] = IF count[t] = num_workers THEN "done" ELSE "sem"
        BY <1>a, <2>1 DEF TypeOK
      <3>2. ran[t] \in {0, 1} /\ (ran[t] = 0 => count[t] < num_workers)
        BY <2>1, <3>1 DEF TypeOK, SchedInv, CallerInv, Active, Progress, Spent
      <3> QED
        BY <3>1, <3>2 DEF TypeOK, Signals
    <2>3. Progress(t)'
      <3>1. /\ Progress(t) /\ pc'[t] \in {"done", "sem"} /\ (ran[t] = 0 => pc'[t] = "sem")
            /\ pc[t] = "read" /\ ran[t] \in {0, 1}
        BY <2>1, <2>2
      <3> QED
        BY <3>1 DEF Progress, Spent
    <2>4. ASSUME NEW s \in Threads, s # t
          PROVE  Progress(s)'
      BY <2>1, <2>2, <2>4 DEF TypeOK, SchedInv, Active, Progress, Spent
    <2>5. CountInv'
      <3>1. Counted' = Counted
        BY <2>1, <2>2 DEF TypeOK, Counted
      <3> QED
        BY <3>1, <2>1 DEF CountInv
    <2>6. SignalInv'
      <3>1. \A s \in Threads : Signals(s)' <=> Signals(s)
        BY <2>2 DEF TypeOK, Signals
      <3> QED
        BY <2>1, <3>1 DEF SignalInv
    <2> QED
      BY <2>3, <2>4, <2>5, <2>6
  <1>6. DestroyInv'
    BY <1>a DEF TypeOK, CallerInv, QuietInv, DestroyInv, Quiet, Destroying
  <1>7. BarrierSafe'
    BY <1>a DEF TypeOK, CallerInv, QuietInv, Quiet, BarrierSafe
  <1> QED
    BY <1>1, <1>2, <1>3, <1>4, <1>5, <1>6, <1>7

LEMMA PostDoneStep ==
    ASSUME SchedInv, IInv, NEW t \in Threads, PostDone(t, "done", "sem")
    PROVE  IInv'
  <1> USE DEF IInv, PostDone, Goto, callerVars, counterVars, taskVars, flagVars, resultVars
  <1>1. TypeOK'
    BY DEF TypeOK, CallerInv, CallerPlaces, ThreadPlaces, SchedInv
  <1>2. CallerInv'
    BY DEF TypeOK, CallerInv, CreateInv, Destroying, CallerPlaces, SchedInv
  <1>3. CreateInv'
    BY DEF TypeOK, CallerInv, CreateInv, QuietInv, Quiet
  <1>4. QuietInv'
    BY DEF TypeOK, CallerInv, CreateInv, QuietInv, Quiet, Spent, SchedInv
  <1>5. ActiveInv'
    <2> SUFFICES ASSUME Active'
                 PROVE  (\A s \in Threads : Progress(s)') /\ CountInv' /\ SignalInv'
      BY DEF ActiveInv
    <2>1. Active /\ (\A s \in Threads : Progress(s)) /\ CountInv /\ SignalInv
      BY DEF Active, ActiveInv
    <2>2. /\ pc[t] = "done" /\ pc'[t] = "sem" /\ ran[t] = 1
          /\ Signals(t) /\ num_workers_done = num_workers
          /\ sem_all_workers_done = 0 /\ sem_all_workers_done' = 1
      <3>1. pc[t] = "done" /\ pc'[t] = "sem" /\ Signals(t)
        BY DEF TypeOK, Signals
      <3>2. ran[t] = 1
        BY <2>1, <3>1 DEF Progress
      <3>3. freed = FALSE
        BY <2>1 DEF Active, CallerInv, TypeOK
      <3> QED
        BY <2>1, <3>1, <3>2, <3>3 DEF SignalInv
    <2>3. Progress(t)'
      BY <2>1, <2>2 DEF TypeOK, SchedInv, Active, Progress, Spent
    <2>4. ASSUME NEW s \in Threads, s # t
          PROVE  Progress(s)'
      BY <2>1, <2>2, <2>4 DEF TypeOK, SchedInv, Active, Progress, Spent
    <2>5. CountInv'
      <3>1. Counted' = Counted
        BY <2>1, <2>2 DEF TypeOK, Counted
      <3> QED
        BY <3>1, <2>1 DEF CountInv
    <2>6. SignalInv'
      <3>1. \A s \in Threads : ~Signals(s)'
        BY <2>1, <2>2 DEF TypeOK, SignalInv, Signals
      <3> QED
        BY <2>2, <3>1 DEF SignalInv
    <2> QED
      BY <2>3, <2>4, <2>5, <2>6
  <1>6. DestroyInv'
    BY DEF TypeOK, CallerInv, QuietInv, DestroyInv, Quiet, Destroying
  <1>7. BarrierSafe'
    BY DEF TypeOK, CallerInv, QuietInv, Quiet, BarrierSafe
  <1> QED
    BY <1>1, <1>2, <1>3, <1>4, <1>5, <1>6, <1>7

LEMMA DFetchAndIncStep ==
    ASSUME SchedInv, IInv, NEW t \in Threads, FetchAndInc(t, "d_inc", "d_read")
    PROVE  IInv'
  <1> USE DEF IInv, FetchAndInc, Goto, callerVars, counterVars, taskVars, flagVars, resultVars
  <1>1. TypeOK'
    BY DEF TypeOK, CallerInv, CallerPlaces, ThreadPlaces, SchedInv
  <1>2. CallerInv'
    BY DEF TypeOK, CallerInv, CreateInv, Destroying, CallerPlaces, SchedInv
  <1>3. CreateInv'
    BY DEF TypeOK, CallerInv, CreateInv, QuietInv, Quiet
  <1>4. QuietInv'
    BY DEF TypeOK, CallerInv, CreateInv, QuietInv, Quiet, Spent, SchedInv
  <1>5. ActiveInv'
    BY DEF TypeOK, SchedInv, CallerInv, QuietInv, ActiveInv, Quiet, Active, Spent, Progress,
           CountInv, SignalInv, Signals, Counted
  <1>6. DestroyInv'
    BY DEF TypeOK, CallerInv, QuietInv, DestroyInv, Quiet, Destroying
  <1>7. BarrierSafe'
    BY DEF TypeOK, CallerInv, QuietInv, Quiet, BarrierSafe
  <1> QED
    BY <1>1, <1>2, <1>3, <1>4, <1>5, <1>6, <1>7

LEMMA DReadNumWorkersStep ==
    ASSUME SchedInv, IInv, NEW t \in Threads, ReadNumWorkers(t, "d_read", "d_done", "exit")
    PROVE  IInv'
  <1> USE DEF IInv, ReadNumWorkers, Goto, callerVars, counterVars, taskVars, flagVars,
              resultVars
  <1>1. TypeOK'
    BY DEF TypeOK, CallerInv, CallerPlaces, ThreadPlaces, SchedInv
  <1>2. CallerInv'
    BY DEF TypeOK, CallerInv, CreateInv, Destroying, CallerPlaces, SchedInv
  <1>3. CreateInv'
    BY DEF TypeOK, CallerInv, CreateInv, QuietInv, Quiet
  <1>4. QuietInv'
    BY DEF TypeOK, CallerInv, CreateInv, QuietInv, Quiet, Spent, SchedInv
  <1>5. ActiveInv'
    BY DEF TypeOK, SchedInv, CallerInv, QuietInv, ActiveInv, Quiet, Active, Spent, Progress,
           CountInv, SignalInv, Signals, Counted
  <1>6. DestroyInv'
    BY DEF TypeOK, CallerInv, QuietInv, DestroyInv, Quiet, Destroying
  <1>7. BarrierSafe'
    BY DEF TypeOK, CallerInv, QuietInv, Quiet, BarrierSafe
  <1> QED
    BY <1>1, <1>2, <1>3, <1>4, <1>5, <1>6, <1>7

LEMMA DPostDoneStep ==
    ASSUME SchedInv, IInv, NEW t \in Threads, PostDone(t, "d_done", "exit")
    PROVE  IInv'
  <1> USE DEF IInv, PostDone, Goto, callerVars, counterVars, taskVars, flagVars, resultVars
  <1>1. TypeOK'
    BY DEF TypeOK, CallerInv, CallerPlaces, ThreadPlaces, SchedInv
  <1>2. CallerInv'
    BY DEF TypeOK, CallerInv, CreateInv, Destroying, CallerPlaces, SchedInv
  <1>3. CreateInv'
    BY DEF TypeOK, CallerInv, CreateInv, QuietInv, Quiet
  <1>4. QuietInv'
    BY DEF TypeOK, CallerInv, CreateInv, QuietInv, Quiet, Spent, SchedInv
  <1>5. ActiveInv'
    BY DEF TypeOK, SchedInv, CallerInv, QuietInv, ActiveInv, Quiet, Active, Spent, Progress,
           CountInv, SignalInv, Signals, Counted
  <1>6. DestroyInv'
    BY DEF TypeOK, CallerInv, QuietInv, DestroyInv, Quiet, Destroying
  <1>7. BarrierSafe'
    BY DEF TypeOK, CallerInv, QuietInv, Quiet, BarrierSafe
  <1> QED
    BY <1>1, <1>2, <1>3, <1>4, <1>5, <1>6, <1>7

-----------------------------------------------------------------------------
(* Theorems *)

\* The invariant is inductive: one step for each action.
LEMMA InvariantStep ==
    ASSUME AllGrowing, IInv, [Next]_vars
    PROVE  IInv'
  <1>1. SchedInv
    BY SchedLemma DEF IInv
  <1>2. CASE Caller
    BY <1>1, <1>2, CreateThreadStep, CreateFailsStep, tpool_setStep, BeginStep,
       PostRunStep, tpool_waitStep, ProceedStep, DestroySetStep, DestroyPostStep,
       DestroyWaitStep DEF Caller
  <1>3. ASSUME NEW t \in Threads, Worker(t)
        PROVE  IInv'
    <2>1. CASE SemWait(t) \/ Cancelled(t) \/ ReadDie(t) \/ ReadJob(t) \/ Call(t)
      BY <1>1, <2>1, SemWaitStep, CancelledStep, ReadDieStep, ReadJobStep, CallStep
    <2>2. CASE \/ FetchAndInc(t, "inc", "read")
               \/ ReadNumWorkers(t, "read", "done", "sem")
               \/ PostDone(t, "done", "sem")
      BY <1>1, <2>2, FetchAndIncStep, ReadNumWorkersStep, PostDoneStep
    <2>3. CASE \/ FetchAndInc(t, "d_inc", "d_read")
               \/ ReadNumWorkers(t, "d_read", "d_done", "exit")
               \/ PostDone(t, "d_done", "exit")
      BY <1>1, <2>3, DFetchAndIncStep, DReadNumWorkersStep, DPostDoneStep
    <2> QED
      BY <1>3, <2>1, <2>2, <2>3 DEF Worker
  <1>4. CASE UNCHANGED vars
    BY <1>4 DEF vars, callerVars, counterVars, taskVars, flagVars, resultVars,
       IInv, TypeOK, CallerInv, CreateInv, QuietInv, ActiveInv, DestroyInv, BarrierSafe,
       Quiet, Active, Destroying, Spent, Progress, CountInv, Counted, SignalInv, Signals
  <1> QED
    BY <1>2, <1>3, <1>4 DEF Next, Finished

LEMMA InitInvariant ==
    ASSUME Init
    PROVE  IInv
  <1> USE DEF Init, NoneRan, NoJob, Job
  <1>1. TypeOK
    <2>1. sched \in Seq(0..NumThreads)
      BY SchedulesAssumption
    <2>2. Len(sched) \in Nat
      BY <2>1, LenProperties
    <2>3. batch \in 0..Len(sched) /\ i \in 1..NumThreads + 1 /\ num_workers \in 0..NumThreads
      BY <2>2, NumThreadsAssumption
    <2> QED
      BY <2>3 DEF TypeOK, CallerPlaces, ThreadPlaces
  <1>2. CallerInv
    BY NumThreadsAssumption DEF CallerInv, Destroying
  <1>3. CreateInv
    BY DEF CreateInv, Threads
  <1>4. QuietInv /\ ActiveInv /\ DestroyInv /\ BarrierSafe
    BY DEF QuietInv, ActiveInv, DestroyInv, BarrierSafe, Quiet, Active, Destroying
  <1> QED
    BY <1>1, <1>2, <1>3, <1>4 DEF IInv

\* The inductive invariant holds in every behaviour whose batches do not shrink.
THEOREM Invariance == ASSUME AllGrowing PROVE Spec => []IInv
  <1>1. IInv /\ [Next]_vars => IInv'
    BY InvariantStep
  <1> QED
    BY <1>1, InitInvariant, PTL DEF Spec

\* The variables keep their types when the batches do not shrink.
THEOREM TypeCorrect == ASSUME AllGrowing PROVE Spec => []TypeOK
  <1>1. IInv => TypeOK
    BY DEF IInv
  <1> QED
    BY <1>1, Invariance, PTL

\* When tpool_wait returns, each worker of the batch has run its function on its
\* argument exactly once: the barrier start_workers relies on, for any number of
\* threads and of batches, as long as no batch is smaller than one before it.
THEOREM Barrier == ASSUME AllGrowing PROVE Spec => []BarrierSafe
  <1>1. IInv => BarrierSafe
    BY DEF IInv
  <1> QED
    BY <1>1, Invariance, PTL

\* No post and no running worker is left over between two batches.
THEOREM Quiescence == ASSUME AllGrowing PROVE Spec => []QuietBetweenBatches
  <1>1. IInv => QuietBetweenBatches
    BY DEF IInv, QuietInv, Quiet, QuietBetweenBatches
  <1> QED
    BY <1>1, Invariance, PTL

-----------------------------------------------------------------------------
(* tpool_destroy waits for all threads. *)

\* The threads that have counted themselves out of a pool that is being destroyed.
Gone == {t \in Threads : pc[t] \in {"d_read", "d_done", "exit"}}

\* Only the last of them signals: the counter is their number, and a thread still
\* holding the count of a batch holds too small a one.
JoinInv ==
    Destroying =>
        /\ num_workers = NumThreads
        /\ num_workers_done = Cardinality(Gone)
        /\ \A t \in Threads :
              /\ pc[t] # "done"
              /\ pc[t] = "read" => count[t] \in 1..(NumThreads - 1)
              /\ pc[t] = "d_read" => count[t] \in 1..num_workers_done
              /\ pc[t] = "d_done" => Gone = Threads
        /\ sem_all_workers_done > 0 \/ mpc = "destroyed" => Gone = Threads

LEMMA GoneFinite ==
    ASSUME SchedInv
    PROVE  /\ IsFiniteSet(Threads) /\ Cardinality(Threads) = NumThreads
           /\ IsFiniteSet(Gone) /\ Cardinality(Gone) \in Nat /\ Cardinality(Gone) <= NumThreads
           /\ Cardinality(Gone) = NumThreads => Gone = Threads
  <1>1. NumThreads \in Nat
    BY DEF SchedInv
  <1>2. IsFiniteSet(1..NumThreads) /\ Cardinality(1..NumThreads) = NumThreads
    BY <1>1, FS_Interval
  <1>3. Gone \subseteq Threads
    BY DEF Gone
  <1> QED
    BY <1>2, <1>3, FS_Subset, FS_CardinalityType DEF Threads

\* The caller's way into tpool_destroy and out of it.
LEMMA CallerJoins ==
    ASSUME SchedInv, IInv, JoinInv, Caller
    PROVE  JoinInv'
  <1>1. CASE DestroySet
    <2>1. /\ mpc = "d_set" /\ num_workers' = NumThreads /\ num_workers_done' = 0
          /\ mpc' = "d_post" /\ pc' = pc /\ count' = count
          /\ sem_all_workers_done' = sem_all_workers_done
      BY <1>1 DEF DestroySet
    <2>2. /\ sem_all_workers_done = 0
          /\ \A t \in Threads : /\ pc[t] \in {"sem", "read"}
                                /\ pc[t] = "read" => count[t] \in 1..(NumThreads - 1)
      BY <2>1 DEF IInv, QuietInv, Quiet, Spent
    <2>3. Gone' = {}
      BY <2>1, <2>2 DEF Gone
    <2>4. Cardinality(Gone') = 0
      BY <2>3, FS_EmptySet
    <2> QED
      BY <2>1, <2>2, <2>4 DEF JoinInv
  <1>2. CASE DestroyPost \/ DestroyWait
    <2>1. /\ Destroying /\ pc' = pc /\ count' = count /\ num_workers' = num_workers
          /\ num_workers_done' = num_workers_done
      BY <1>2 DEF DestroyPost, DestroyWait, Destroying, counterVars, callerVars
    <2>2. Gone' = Gone
      BY <2>1 DEF Gone
    <2>3. CASE DestroyPost
      <3>1. sem_all_workers_done' = sem_all_workers_done /\ mpc' # "destroyed"
        BY <2>3 DEF DestroyPost
      <3> QED
        BY <2>1, <2>2, <3>1 DEF JoinInv
    <2>4. CASE DestroyWait
      <3>1. Gone = Threads
        BY <2>1, <2>4 DEF DestroyWait, JoinInv
      <3> QED
        BY <2>1, <2>2, <3>1 DEF JoinInv
    <2> QED
      BY <1>2, <2>3, <2>4
  <1>3. CASE ~(DestroySet \/ DestroyPost \/ DestroyWait)
    <2>1. ~Destroying'
      BY <1>3 DEF Caller, CreateThread, CreateFails, tpool_set, Begin, PostRun, tpool_wait,
                  Proceed, NextOf, IInv, CallerInv, TypeOK, Destroying
    <2> QED
      BY <2>1 DEF JoinInv
  <1> QED
    BY <1>1, <1>2, <1>3

\* A thread that wakes up, or reads the count of an earlier batch.
LEMMA OthersJoin ==
    ASSUME SchedInv, IInv, JoinInv, Destroying, NEW t \in Threads,
           SemWait(t) \/ ReadDie(t) \/ ReadNumWorkers(t, "read", "done", "sem")
    PROVE  JoinInv'
  <1>1. /\ mpc' = mpc /\ num_workers' = num_workers /\ num_workers_done' = num_workers_done
        /\ count' = count /\ sem_all_workers_done' = sem_all_workers_done
    BY DEF SemWait, ReadDie, ReadNumWorkers, callerVars, counterVars
  <1>2. /\ pc[t] \in {"sem", "die", "read"} /\ pc \in [Threads -> ThreadPlaces]
        /\ \E p \in {"die", "d_inc", "job", "done", "sem"} : pc' = [pc EXCEPT ![t] = p]
    BY DEF SemWait, ReadDie, ReadNumWorkers, Goto, IInv, TypeOK
  <1>3. pc'[t] # "done"
    <2>1. CASE pc[t] = "read"
      <3>1. ~freed
        BY <2>1 DEF JoinInv, Gone, IInv, CallerInv, Destroying
      <3>2. count[t] # num_workers
        BY <2>1 DEF JoinInv, SchedInv
      <3> QED
        BY <1>2, <2>1, <3>1, <3>2 DEF SemWait, ReadDie, ReadNumWorkers, Goto
    <2>2. CASE pc[t] # "read"
      BY <1>2, <2>2 DEF SemWait, ReadDie, ReadNumWorkers, Goto
    <2> QED
      BY <2>1, <2>2
  <1>4. /\ pc'[t] \in {"die", "d_inc", "job", "sem"}
        /\ \A u \in Threads : u # t => pc'[u] = pc[u]
    BY <1>2, <1>3
  <1>5. Gone' = Gone
    BY <1>2, <1>4 DEF Gone
  <1> QED
    BY <1>1, <1>4, <1>5 DEF JoinInv, Destroying

\* A thread that counts itself out.
LEMMA CounterJoins ==
    ASSUME SchedInv, IInv, JoinInv, Destroying, NEW t \in Threads,
           FetchAndInc(t, "d_inc", "d_read")
    PROVE  JoinInv'
  <1>1. /\ mpc' = mpc /\ num_workers' = num_workers /\ num_workers_done' = num_workers_done + 1
        /\ sem_all_workers_done' = sem_all_workers_done
        /\ pc[t] = "d_inc" /\ pc' = [pc EXCEPT ![t] = "d_read"]
        /\ count' = [count EXCEPT ![t] = num_workers_done + 1]
        /\ pc \in [Threads -> ThreadPlaces] /\ count \in [Threads -> Nat]
    BY DEF FetchAndInc, Goto, callerVars, IInv, TypeOK
  <1>2. /\ pc'[t] = "d_read" /\ count'[t] = num_workers_done + 1
        /\ \A u \in Threads : u # t => pc'[u] = pc[u] /\ count'[u] = count[u]
    BY <1>1
  <1>3. t \notin Gone /\ Gone' = Gone \cup {t}
    BY <1>1, <1>2 DEF Gone
  <1>4. Cardinality(Gone') = Cardinality(Gone) + 1 /\ Cardinality(Gone) \in Nat
    BY <1>3, GoneFinite, FS_AddElement
  <1>5. Gone # Threads
    BY <1>3
  <1> QED
    BY <1>1, <1>2, <1>4, <1>5 DEF JoinInv, Destroying

\* A thread on its way from there to its end; the last one posts.
LEMMA LeaverJoins ==
    ASSUME SchedInv, IInv, JoinInv, Destroying, NEW t \in Threads,
           ReadNumWorkers(t, "d_read", "d_done", "exit") \/ PostDone(t, "d_done", "exit")
    PROVE  JoinInv'
  <1>1. /\ mpc' = mpc /\ num_workers' = num_workers /\ num_workers_done' = num_workers_done
        /\ count' = count /\ pc \in [Threads -> ThreadPlaces]
    BY DEF ReadNumWorkers, PostDone, callerVars, counterVars, IInv, TypeOK
  <1>2. /\ pc[t] \in {"d_read", "d_done"}
        /\ \E p \in {"d_done", "exit"} : pc' = [pc EXCEPT ![t] = p]
    BY DEF ReadNumWorkers, PostDone, Goto
  <1>3. /\ pc'[t] \in {"d_done", "exit"}
        /\ \A u \in Threads : u # t => pc'[u] = pc[u]
    BY <1>1, <1>2
  <1>4. Gone' = Gone
    BY <1>2, <1>3 DEF Gone
  <1>5. pc'[t] = "d_done" => Gone = Threads
    <2> SUFFICES ASSUME pc'[t] = "d_done" PROVE Gone = Threads
      OBVIOUS
    <2>1. ReadNumWorkers(t, "d_read", "d_done", "exit")
      BY <1>1 DEF PostDone, Goto
    <2>2. CASE freed
      BY <2>2 DEF JoinInv, IInv, CallerInv, Destroying
    <2>3. CASE ~freed
      <3>1. count[t] = num_workers /\ pc[t] = "d_read"
        BY <1>1, <2>1, <2>3 DEF ReadNumWorkers, Goto
      <3>2. NumThreads <= Cardinality(Gone)
        BY <3>1, GoneFinite DEF JoinInv, SchedInv
      <3> QED
        BY <3>2, GoneFinite DEF SchedInv
    <2> QED
      BY <2>2, <2>3
  <1>6. sem_all_workers_done' > 0 => Gone = Threads
    <2>1. CASE ReadNumWorkers(t, "d_read", "d_done", "exit")
      <3>1. sem_all_workers_done' = sem_all_workers_done
        BY <2>1 DEF ReadNumWorkers
      <3> QED
        BY <3>1 DEF JoinInv
    <2>2. CASE PostDone(t, "d_done", "exit")
      BY <2>2 DEF PostDone, Goto, JoinInv
    <2> QED
      BY <2>1, <2>2
  <1> QED
    BY <1>1, <1>3, <1>4, <1>5, <1>6 DEF JoinInv, Destroying

LEMMA JoinStep ==
    ASSUME AllGrowing, IInv, JoinInv, [Next]_vars
    PROVE  JoinInv'
  <1>1. SchedInv
    BY SchedLemma DEF IInv
  <1>2. CASE Caller
    BY <1>1, <1>2, CallerJoins
  <1>3. ASSUME NEW t \in Threads, Worker(t)
        PROVE  JoinInv'
    <2>1. mpc' = mpc
      BY <1>3 DEF Worker, SemWait, Cancelled, ReadDie, ReadJob, Call, FetchAndInc,
                  ReadNumWorkers, PostDone
    <2>2. CASE ~Destroying
      BY <2>1, <2>2 DEF JoinInv, Destroying
    <2>3. CASE Destroying
      <3>1. ~(Cancelled(t) \/ ReadJob(t) \/ Call(t) \/ FetchAndInc(t, "inc", "read")
              \/ PostDone(t, "done", "sem"))
        BY <2>3 DEF Cancelled, ReadJob, Call, FetchAndInc, PostDone, Goto, IInv, DestroyInv,
                    CallerInv, JoinInv, Destroying
      <3> QED
        BY <1>1, <1>3, <2>3, <3>1, OthersJoin, CounterJoins, LeaverJoins DEF Worker
    <2> QED
      BY <2>2, <2>3
  <1>4. CASE UNCHANGED vars
    BY <1>4 DEF vars, callerVars, counterVars, JoinInv, Gone, Destroying
  <1> QED
    BY <1>2, <1>3, <1>4 DEF Next, Finished

\* When tpool_destroy is woken, every thread has left its loop and counted itself out:
\* the stale count of a batch never passes for the last of the pool.
THEOREM Joins == ASSUME AllGrowing PROVE Spec => []DestroyJoins
  <1>1. Init => JoinInv
    BY DEF Init, JoinInv, Destroying
  <1>2. JoinInv => DestroyJoins
    BY DEF JoinInv, Gone, Destroying, DestroyJoins
  <1>3. IInv /\ JoinInv /\ [Next]_vars => JoinInv'
    BY JoinStep
  <1> QED
    BY <1>1, <1>2, <1>3, Invariance, PTL DEF Spec

-----------------------------------------------------------------------------
(* The pool implements ForkJoin. *)

\* A worker that is about to call its function runs in a forked batch, is one
\* of its workers and has not run in it.
LEMMA CallInBatch ==
    ASSUME SchedInv, IInv, NEW t \in Threads, Call(t)
    PROVE  Active /\ t <= sched[batch] /\ ran[t] = 0 /\ ran' = [ran EXCEPT ![t] = 1]
  <1>1. pc[t] = "call" /\ ran' = [ran EXCEPT ![t] = @ + 1]
    BY DEF Call, Goto
  <1>2. Active
    <2>1. ~Quiet /\ ~Destroying /\ mpc \notin {"create", "failed"}
      BY <1>1 DEF IInv, CreateInv, QuietInv, DestroyInv
    <2>2. mpc \in CallerPlaces /\ num_workers \in Nat
      BY DEF IInv, TypeOK, SchedInv
    <2>3. mpc \in {"post", "wait"} /\ num_workers # 0
      <3>1. mpc \in {"post", "wait"}
        BY <2>1, <2>2 DEF CallerPlaces, Quiet, Destroying
      <3>2. mpc = "post" => i <= num_workers /\ i \in 1..NumThreads + 1
        BY DEF IInv, CallerInv, TypeOK
      <3> QED
        BY <2>1, <2>2, <3>1, <3>2 DEF Quiet, SchedInv
    <2> QED
      BY <2>2, <2>3 DEF Active
  <1>3. Progress(t) /\ num_workers = sched[batch]
    BY <1>2 DEF IInv, ActiveInv, CallerInv, Active
  <1>4. ran[t] = 0 /\ ~(t > num_workers)
    BY <1>1, <1>3 DEF Progress
  <1>5. t <= num_workers
    BY <1>4 DEF IInv, TypeOK, SchedInv, Threads
  <1>6. ran' = [ran EXCEPT ![t] = 1]
    BY <1>1, <1>4
  <1> QED
    BY <1>2, <1>3, <1>4, <1>5, <1>6

LEMMA ForkJoinStep ==
    ASSUME SchedInv, IInv, IInv', [Next]_vars
    PROVE  [FJ!Next]_FJ!fjVars
  <1> DEFINE round == IF mpc = "begin" THEN batch - 1 ELSE batch
             running == mpc \in {"post", "wait"}
  <1> USE DEF callerVars, counterVars, taskVars, flagVars, resultVars
  <1>1. CASE Begin
    <2>1. /\ ~running /\ round = batch - 1 /\ round' = batch /\ running' = TRUE
          /\ batch \in 1..Len(sched) /\ sched' = sched /\ ran' = FJ!NoneRan
      BY <1>1 DEF Begin, IInv, TypeOK, CallerInv, NoneRan, Threads, FJ!NoneRan, FJ!Threads
    <2>2. FJ!Fork
      BY <2>1 DEF FJ!Fork, SchedInv
    <2> QED
      BY <2>2 DEF FJ!Next
  <1>2. CASE tpool_wait
    <2>1. /\ running /\ ~running' /\ round = batch /\ round' = batch
          /\ sched' = sched /\ ran' = ran /\ num_workers' = num_workers
          /\ num_workers = sched[batch]
      BY <1>2 DEF tpool_wait, IInv, CallerInv
    <2>2. \A t \in Threads : t <= num_workers => ran[t] = 1
      BY <1>2, <2>1 DEF tpool_wait, IInv, BarrierSafe
    <2>3. \A t \in 1..sched[round] : ran[t] = 1
      <3>1. sched[round] = num_workers /\ num_workers \in 0..NumThreads
        BY <2>1 DEF IInv, TypeOK
      <3> HIDE DEF round
      <3> QED
        BY <2>2, <3>1 DEF Threads, SchedInv
    <2>4. FJ!Join
      BY <2>1, <2>3 DEF FJ!Join
    <2> QED
      BY <2>4 DEF FJ!Next
  <1>3. ASSUME NEW t \in Threads, Call(t)
        PROVE  [FJ!Next]_FJ!fjVars
    <2>1. Active /\ t <= sched[batch] /\ ran[t] = 0 /\ ran' = [ran EXCEPT ![t] = 1]
      BY <1>3, CallInBatch
    <2>2. running /\ round = batch
      BY <2>1 DEF Active
    <2>3. FJ!Work(t)
      BY <1>3, <2>1, <2>2 DEF Call, FJ!Work
    <2> QED
      BY <2>3 DEF FJ!Next, FJ!Threads, Threads
  <1>4. CASE \/ CreateThread \/ CreateFails \/ tpool_set \/ PostRun \/ Proceed
             \/ DestroySet \/ DestroyPost \/ DestroyWait
    <2>1. round' = round
      <3>1. CASE tpool_set
        BY <3>1 DEF tpool_set, IInv, TypeOK, SchedInv
      <3>2. CASE ~tpool_set
        BY <1>4, <3>2 DEF CreateThread, CreateFails, PostRun, Proceed, DestroySet,
                          DestroyPost, DestroyWait, NextOf
      <3> QED
        BY <3>1, <3>2
    <2>2. running' = running
      BY <1>4 DEF CreateThread, CreateFails, tpool_set, PostRun, Proceed,
                  DestroySet, DestroyPost, DestroyWait, NextOf
    <2>3. sched' = sched /\ ran' = ran
      BY <1>4 DEF CreateThread, CreateFails, tpool_set, PostRun, Proceed,
                  DestroySet, DestroyPost, DestroyWait
    <2> QED
      BY <2>1, <2>2, <2>3 DEF FJ!fjVars
  <1>5. ASSUME NEW t \in Threads, Worker(t), ~Call(t)
        PROVE  UNCHANGED FJ!fjVars
    BY <1>5 DEF Worker, SemWait, Cancelled, ReadDie, ReadJob, FetchAndInc, ReadNumWorkers,
                PostDone, FJ!fjVars
  <1>6. CASE UNCHANGED vars
    BY <1>6 DEF vars, FJ!fjVars
  <1> QED
    BY <1>1, <1>2, <1>3, <1>4, <1>5, <1>6 DEF Next, Caller, Finished

\* Every behaviour of the pool whose batches do not shrink is a behaviour of
\* ForkJoin: batches are forked one after the other, each worker runs once in
\* its batch, and a batch is joined after all of its workers.
THEOREM Refinement == ASSUME AllGrowing PROVE Spec => ForkJoinSpec
  <1>1. Init => FJ!Init
    BY DEF Init, NoneRan, Threads, FJ!Init, FJ!NoneRan, FJ!Threads
  <1>2. IInv /\ IInv' /\ [Next]_vars => [FJ!Next]_FJ!fjVars
    BY SchedLemma, ForkJoinStep DEF IInv
  <1> QED
    BY <1>1, <1>2, Invariance, PTL DEF Spec, ForkJoinSpec, FJ!Spec

=============================================================================
