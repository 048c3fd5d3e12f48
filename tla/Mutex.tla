------------------------------- MODULE Mutex -------------------------------
(***************************************************************************)
(* What the task queue of the Phoenix runtime wants of lock_acquire and    *)
(* lock_release (synch.h): one worker holds the lock at a time.  MCSLock   *)
(* implements this specification, and TaskQ uses its locks in this way.    *)
(***************************************************************************)
CONSTANTS Workers, Nobody

VARIABLE holder

Init == holder = Nobody

Acquire(w) == holder = Nobody /\ holder' = w
Release(w) == holder = w /\ holder' = Nobody

Next == \E w \in Workers : Acquire(w) \/ Release(w)

Spec == Init /\ [][Next]_holder
=============================================================================
