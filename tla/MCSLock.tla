------------------------------ MODULE MCSLock ------------------------------
(***************************************************************************)
(* The MCS lock of the Phoenix runtime, src/mcs.c (built with MR_LOCK_MCS):*)
(* each worker has a record of its own, with a pointer to the record of    *)
(* the worker behind it and a flag it spins on; the lock points to the     *)
(* record of the last one.  Each access to memory that another worker can  *)
(* see is an action.  set_and_flush only keeps the compiler from moving a  *)
(* store; the stores of one processor become visible in program order, and *)
(* the exchange and the compare-and-swap flush them (x86-64), so that      *)
(* sequentially consistent steps are faithful.                             *)
(***************************************************************************)
EXTENDS Integers, Sequences

CONSTANTS Workers, Null

ASSUME NullAssumption == Null \notin Workers

VARIABLES
    head,              \* mcs_lock: the last worker in line (the code's name)
    next, locked,      \* mcs_lock_priv
    prev, pc,          \* local to mcs_acquire, place
    line               \* (history) the workers that have exchanged and not left

records == <<next, locked>>
vars == <<head, records, prev, pc, line>>

Init == /\ head = Null
        /\ next = [w \in Workers |-> Null]
        /\ locked = [w \in Workers |-> 0]
        /\ prev = [w \in Workers |-> Null]
        /\ pc = [w \in Workers |-> "out"]
        /\ line = <<>>

Goto(w, from, to) == pc[w] = from /\ pc' = [pc EXCEPT ![w] = to]

-----------------------------------------------------------------------------
(* mcs_acquire *)

mcs_acquire(w) ==
    /\ Goto(w, "out", "exchange")
    /\ next' = [next EXCEPT ![w] = Null]
    /\ UNCHANGED <<head, locked, prev, line>>

Exchange(w) ==
    /\ Goto(w, "exchange", IF head = Null THEN "in" ELSE "lock")
    /\ prev' = [prev EXCEPT ![w] = head]
    /\ head' = w
    /\ line' = Append(line, w)
    /\ UNCHANGED records

\* Mutant: the flag is not set.
SetLockedNot(w) ==
    /\ Goto(w, "lock", "link")
    /\ UNCHANGED <<head, records, prev, line>>

\* Mutant: the flag is set to the wrong word.
SetLockedPrev(w) ==
    /\ Goto(w, "lock", "link")
    /\ locked' = [locked EXCEPT ![w] = prev[w]]
    /\ UNCHANGED <<head, next, prev, line>>

\* "this ordering is important": the flag is set before the predecessor can see
\* the worker behind it.
SetLocked(w) ==
    /\ Goto(w, "lock", "link")
    /\ locked' = [locked EXCEPT ![w] = 1]
    /\ UNCHANGED <<head, next, prev, line>>

Link(w) ==
    /\ Goto(w, "link", "spin")
    /\ next' = [next EXCEPT ![prev[w]] = w]
    /\ UNCHANGED <<head, locked, prev, line>>

\* Mutant: the worker does not spin.
SpinNot(w) ==
    /\ Goto(w, "spin", "in")
    /\ UNCHANGED <<head, records, prev, line>>

Spin(w) ==
    /\ Goto(w, "spin", "in")
    /\ locked[w] = 0
    /\ UNCHANGED <<head, records, prev, line>>

-----------------------------------------------------------------------------
(* mcs_release *)

mcs_release(w) ==
    /\ Goto(w, "in", IF next[w] = Null THEN "swap" ELSE "handoff")
    /\ UNCHANGED <<head, records, prev, line>>

\* Mutant: the worker leaves also when another one has exchanged.
CompareAndSwapGiveUp(w) ==
    /\ Goto(w, "swap", "out")
    /\ head' = IF head = w THEN Null ELSE head
    /\ line' = IF head = w THEN <<>> ELSE line
    /\ UNCHANGED <<records, prev>>

\* The last in line leaves; a worker that is not waits for the next to link.
CompareAndSwap(w) ==
    /\ Goto(w, "swap", IF head = w THEN "out" ELSE "await")
    /\ IF head = w THEN head' = Null /\ line' = Tail(line)
                   ELSE UNCHANGED <<head, line>>
    /\ UNCHANGED <<records, prev>>

AwaitNext(w) ==
    /\ Goto(w, "await", "handoff")
    /\ next[w] # Null
    /\ UNCHANGED <<head, records, prev, line>>

HandOff(w) ==
    /\ Goto(w, "handoff", "out")
    /\ locked' = [locked EXCEPT ![next[w]] = 0]
    /\ line' = Tail(line)
    /\ UNCHANGED <<head, next, prev>>

\* A worker that has begun to acquire the lock goes on, and releases it.
Proceed(w) == \/ Exchange(w) \/ SetLocked(w) \/ Link(w) \/ Spin(w)
              \/ mcs_release(w) \/ CompareAndSwap(w) \/ AwaitNext(w) \/ HandOff(w)

Next == \E w \in Workers : mcs_acquire(w) \/ Proceed(w)

Spec == Init /\ [][Next]_vars

\* Threads that can run are scheduled, and critical sections end (TaskQ); a
\* worker need not want the lock again.
FairSpec == Spec /\ \A w \in Workers : WF_vars(Proceed(w))

-----------------------------------------------------------------------------
(* Properties. *)

TypeOK ==
    /\ head \in Workers \cup {Null}
    /\ next \in [Workers -> Workers \cup {Null}]
    /\ locked \in [Workers -> {0, 1}]
    /\ prev \in [Workers -> Workers \cup {Null}]
    /\ pc \in [Workers -> {"out", "exchange", "lock", "link", "spin", "in", "swap",
                           "await", "handoff"}]
    /\ line \in Seq(Workers)

\* "assert (priv->locked == 0)" (mcs_acquire): a worker that comes back finds its
\* flag cleared by whoever handed it the lock.
FlagCleared == \A w \in Workers : pc[w] = "out" => locked[w] = 0

\* The lock is passed on in the order of the exchanges: whoever is inside came
\* first of those in line.
FirstComeFirstServed == \A w \in Workers : pc[w] = "in" => line # <<>> /\ w = Head(line)

\* A worker that has exchanged gets the lock, whatever the others do: none of
\* them can overtake it again and again, as with a mutex.
EveryWaiterEnters == \A w \in Workers : (pc[w] = "lock") ~> (pc[w] = "in")

\* The lock is a mutex.
Holder == IF \E w \in Workers : pc[w] = "in" THEN CHOOSE w \in Workers : pc[w] = "in" ELSE Null
Mx == INSTANCE Mutex WITH Nobody <- Null, holder <- Holder
MutexSpec == Mx!Spec
=============================================================================
