------------------------------ MODULE MCSynch ------------------------------
(***************************************************************************)
(* Small instances of Synch for TLC: a handful of pages for threads, one   *)
(* lock besides tid_lock, a semaphore.                                     *)
(***************************************************************************)
EXTENDS Synch

CONSTANTS main, t1, t2, idle, tid, A, S

\* A thread that holds A may create threads, which takes tid_lock; nobody asks
\* for A inside thread_create.
LockRank == [l \in Locks |-> IF l = A THEN 1 ELSE 2]

\* The threads other than the initial one are interchangeable.
ThreadSymmetry == Permutations(Threads \ {Main})
=============================================================================
