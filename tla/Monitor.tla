------------------------------ MODULE Monitor ------------------------------
(***************************************************************************)
(* What synch.c promises of a lock with one condition variable: "Mesa"     *)
(* style monitors.  Giving up the lock and beginning to wait is one step,  *)
(* a signal takes one of the threads that wait at that moment, and a       *)
(* thread gets the lock back only after it was signalled.                  *)
(***************************************************************************)
CONSTANTS Threads, NULL

VARIABLES
    holder,     \* the thread inside the monitor, or NULL
    waiting,    \* the threads that wait for a signal
    signalled   \* the threads that were signalled and want the lock back

vars == <<holder, waiting, signalled>>

Init ==
    /\ holder = NULL
    /\ waiting = {}
    /\ signalled = {}

Acquire(t) ==
    /\ holder = NULL
    /\ t \notin waiting \cup signalled
    /\ holder' = t
    /\ UNCHANGED <<waiting, signalled>>

Release(t) ==
    /\ holder = t
    /\ holder' = NULL
    /\ UNCHANGED <<waiting, signalled>>

Wait(t) ==
    /\ holder = t
    /\ holder' = NULL
    /\ waiting' = waiting \cup {t}
    /\ UNCHANGED signalled

Signal(t, u) ==
    /\ holder = t
    /\ u \in waiting
    /\ waiting' = waiting \ {u}
    /\ signalled' = signalled \cup {u}
    /\ UNCHANGED holder

Reacquire(t) ==
    /\ holder = NULL
    /\ t \in signalled
    /\ holder' = t
    /\ signalled' = signalled \ {t}
    /\ UNCHANGED waiting

Next ==
    \E t \in Threads :
        \/ Acquire(t) \/ Release(t) \/ Wait(t) \/ Reacquire(t)
        \/ \E u \in Threads : Signal(t, u)

Spec == Init /\ [][Next]_vars
=============================================================================
