------------------------------ MODULE CondVar ------------------------------
(***************************************************************************)
(* The condition variables of lab 1 (threads/synch.c): one condition, the  *)
(* lock that protects it, and the semaphore each waiting thread keeps on   *)
(* its own stack (struct semaphore_elem), named here by its thread.        *)
(*                                                                         *)
(* The lock is taken and given up in one step: what happens inside a lock  *)
(* is the subject of Synch.  cond_wait is cut between list_push_back,      *)
(* lock_release and sema_down, where interrupts are on.                    *)
(***************************************************************************)
EXTENDS KernelLists

CONSTANTS
    Threads,
    Priorities,
    StackWords,      \* what a word of a kernel stack may hold, as a priority
    FreePriorities,  \* whether priorities change while threads wait
    Strict,          \* whether only a thread of highest priority takes steps
    NULL

ASSUME CondVarAssumption ==
    /\ NULL \notin Threads
    /\ Priorities \subseteq Int /\ Priorities # {}
    /\ StackWords \subseteq Int /\ StackWords # {}
    /\ FreePriorities \in BOOLEAN
    /\ Strict \in BOOLEAN

VARIABLES
    holder,      \* of the monitor's lock
    waiters,     \* of the condition: the threads whose semaphores it lists
    value,       \* the value of each thread's semaphore
    priority,
    pc,          \* where each thread is
    broadcasting \* the threads inside cond_broadcast

vars == <<holder, waiters, value, priority, pc, broadcasting>>

PCs == {"out",       \* outside of the monitor
        "acquire",   \* in lock_acquire
        "in",        \* inside the monitor
        "queued",    \* in cond_wait: listed, about to release the lock
        "down",      \* in cond_wait: about to test its semaphore
        "asleep",    \* blocked in that semaphore's sema_down
        "reacquire", \* in cond_wait: in lock_acquire
        "sorted",    \* in cond_signal: about to pop the first waiter
        "loop"}      \* in cond_broadcast: about to test the list

TypeOK ==
    /\ holder \in Threads \cup {NULL}
    /\ waiters \in Seq(Threads)
    /\ value \in [Threads -> Nat]
    /\ priority \in [Threads -> Priorities]
    /\ pc \in [Threads -> PCs]
    /\ broadcasting \subseteq Threads

Init ==
    /\ holder = NULL
    /\ waiters = <<>>
    /\ value = [t \in Threads |-> 0]
    /\ priority \in [Threads -> Priorities]
    /\ pc = [t \in Threads |-> "out"]
    /\ broadcasting = {}

-----------------------------------------------------------------------------
(* Who may run.  Without Strict any thread may take the next step: a time  *)
(* slice, an interrupt or a page of higher priority elsewhere may come     *)
(* between any two.  With Strict it is only the priority scheduler's pick; *)
(* a thread outside may be woken by an interrupt at any moment.            *)

Requesters == {t \in Threads : pc[t] \in {"acquire", "reacquire"}}

\* The threads the scheduler could run.
Runnable ==
    {t \in Threads : pc[t] \notin {"out", "asleep"}}
        \ (IF holder = NULL THEN {} ELSE Requesters)

\* The holder also runs with the priority of those it keeps waiting.
Donors(t) == {t} \cup (IF t = holder THEN Requesters ELSE {})

Scheduled(t) ==
    Strict => \A u \in Runnable :
                 \E d \in Donors(t) : \A e \in Donors(u) : priority[d] >= priority[e]

Goto(t, place) == pc' = [pc EXCEPT ![t] = place]

-----------------------------------------------------------------------------
CallLockAcquire(t) ==
    /\ pc[t] = "out"
    /\ Goto(t, "acquire")
    /\ UNCHANGED <<holder, waiters, value, priority, broadcasting>>

\* lock_acquire returns, in the caller or at the end of cond_wait.
LockAcquire(t) ==
    /\ t \in Requesters
    /\ Scheduled(t)
    /\ holder = NULL
    /\ holder' = t
    /\ Goto(t, "in")
    /\ UNCHANGED <<waiters, value, priority, broadcasting>>

CallLockRelease(t) ==
    /\ pc[t] = "in"
    /\ Scheduled(t)
    /\ holder' = NULL
    /\ Goto(t, "out")
    /\ UNCHANGED <<waiters, value, priority, broadcasting>>

\* Mutant: the waiter's semaphore starts at 1.
InitialValue_One == 1

\* sema_init (&waiter.semaphore, 0)
InitialValue == 0

\* cond_wait up to list_push_back.
CallCondWait(t) ==
    /\ pc[t] = "in"
    /\ Scheduled(t)
    /\ value' = [value EXCEPT ![t] = InitialValue]
    /\ waiters' = Append(waiters, t)
    /\ Goto(t, "queued")
    /\ UNCHANGED <<holder, priority, broadcasting>>

CondWaitReleases(t) ==
    /\ pc[t] = "queued"
    /\ Scheduled(t)
    /\ holder' = NULL
    /\ Goto(t, "down")
    /\ UNCHANGED <<waiters, value, priority, broadcasting>>

\* cond_wait's sema_down: while (value == 0) block; value--.
CondWaitDowns(t) ==
    /\ pc[t] = "down"
    /\ Scheduled(t)
    /\ IF value[t] = 0
       THEN Goto(t, "asleep") /\ UNCHANGED value
       ELSE Goto(t, "reacquire") /\ value' = [value EXCEPT ![t] = @ - 1]
    /\ UNCHANGED <<holder, waiters, priority, broadcasting>>

-----------------------------------------------------------------------------
(***************************************************************************)
(* cond_cmp copies both semaphores and takes list_front of the copy's      *)
(* waiters.  If a thread sleeps there it is found.  If not, the copy does  *)
(* not look empty (its head points to the tail of the original), and the   *)
(* word of the waiter's stack 48 bytes below that tail is the priority.    *)
(***************************************************************************)
SortKeys ==
    {key \in [Threads -> Priorities \cup StackWords] :
        \A t \in Threads :
            IF pc[t] = "asleep" THEN key[t] = priority[t]
            ELSE IF t \in ToSet(waiters) THEN key[t] \in StackWords
            ELSE key[t] = CHOOSE w \in StackWords : TRUE}

\* The test of the list and the list_sort of cond_signal.
CondSort(t) ==
    /\ waiters # <<>>
    /\ \E key \in SortKeys : waiters' = list_sort(waiters, key)
    /\ Goto(t, "sorted")

CallCondSignal(t) ==
    /\ pc[t] = "in"
    /\ Scheduled(t)
    /\ CondSort(t)
    /\ UNCHANGED <<holder, value, priority, broadcasting>>

CallCondBroadcast(t) ==
    /\ pc[t] = "in"
    /\ Scheduled(t)
    /\ broadcasting' = broadcasting \cup {t}
    /\ Goto(t, "loop")
    /\ UNCHANGED <<holder, waiters, value, priority>>

CondBroadcastLoops(t) ==
    /\ pc[t] = "loop"
    /\ Scheduled(t)
    /\ IF waiters = <<>>
       THEN /\ broadcasting' = broadcasting \ {t}
            /\ Goto(t, "in")
            /\ UNCHANGED waiters
       ELSE CondSort(t) /\ UNCHANGED broadcasting
    /\ UNCHANGED <<holder, value, priority>>

\* Mutant: a signal to a thread that does not sleep yet is lost.
SemaUp_Unheard(t) == IF pc[t] = "asleep" THEN value[t] + 1 ELSE value[t]

\* sema_up: the value goes up whether or not a thread sleeps.
SemaUp(t) == value[t] + 1

\* sema_up unblocks the thread that sleeps, which tests the value again.
PlaceAfterUp(t) == IF pc[t] = "asleep" THEN "down" ELSE pc[t]

\* Mutant: cond_broadcast tests the list only once.
PlaceAfterSignal_Once(t) == "in"

PlaceAfterSignal(t) == IF t \in broadcasting THEN "loop" ELSE "in"

\* sema_up (&list_entry (list_pop_front (...))->semaphore)
CondPopUp(t) ==
    /\ pc[t] = "sorted"
    /\ Scheduled(t)
    /\ LET u == Head(waiters)
       IN  /\ value' = [value EXCEPT ![u] = SemaUp(u)]
           /\ pc' = [pc EXCEPT ![u] = PlaceAfterUp(u),
                               ![t] = PlaceAfterSignal(t)]
    /\ waiters' = Tail(waiters)
    /\ UNCHANGED <<holder, priority, broadcasting>>

\* thread_set_priority, or a donation through some other lock.
PriorityChanges(t) ==
    /\ FreePriorities
    /\ \E p \in Priorities : priority' = [priority EXCEPT ![t] = p]
    /\ UNCHANGED <<holder, waiters, value, pc, broadcasting>>

-----------------------------------------------------------------------------
\* The steps that finish a call already made.
Step(t) ==
    \/ CondWaitReleases(t)
    \/ CondWaitDowns(t)
    \/ CondBroadcastLoops(t)
    \/ CondPopUp(t)

Next ==
    \E t \in Threads :
        \/ CallLockAcquire(t)
        \/ LockAcquire(t)
        \/ CallLockRelease(t)
        \/ CallCondWait(t)
        \/ CallCondSignal(t)
        \/ CallCondBroadcast(t)
        \/ PriorityChanges(t)
        \/ Step(t)

Spec == Init /\ [][Next]_vars

\* As long as all threads have one priority, the scheduler is round robin: a
\* thread that has been called and is ready runs again, since thread_yield puts
\* the running one behind its equals.  Under strict priority a lower thread
\* may starve, and nothing is assumed of the threads of different priorities.
SamePriority == \A t, u \in Threads : priority[t] = priority[u]

FairSpec == Spec /\ \A t \in Threads : WF_vars(SamePriority /\ Step(t))

-----------------------------------------------------------------------------
(* What must hold.                                                         *)

Waiting == {t \in ToSet(waiters) : pc[t] # "queued"}

Signalled ==
    {t \in Threads \ ToSet(waiters) : pc[t] \in {"down", "asleep", "reacquire"}}

\* cond_wait, cond_signal and cond_broadcast (synch.c:361-416) implement a
\* monitor: a thread counts as waiting from lock_release on, although it
\* reaches sema_down later, and gets the lock back only when signalled.
Abstract == INSTANCE Monitor WITH waiting <- Waiting, signalled <- Signalled
ImplementsMonitor == Abstract!Spec

\* A signal is remembered in the semaphore of the thread it was for, whether
\* or not that thread has reached sema_down; nobody else has a token, and a
\* signalled thread is not asleep (synch.c:369-376, 393-397).
SignalPending ==
    \A t \in Threads :
        pc[t] \in {"queued", "down", "asleep"} =>
            /\ value[t] = (IF t \in ToSet(waiters) THEN 0 ELSE 1)
            /\ pc[t] = "asleep" => t \in ToSet(waiters)

\* If every thread on the list has reached its semaphore by then, cond_signal
\* sorts the one of highest present priority to the front (synch.c:393-395,
\* 426-441), whatever became of the priorities since they were listed.
SleepersByPriority ==
    [][\A t \in Threads :
          /\ pc[t] # "sorted" /\ pc'[t] = "sorted"
          /\ \A u \in ToSet(waiters) : pc[u] = "asleep"
          => \A u \in ToSet(waiters) : priority[Head(waiters')] >= priority[u]]_vars

\* Every thread that waits when cond_broadcast (synch.c:408-416) begins comes
\* to ask for the lock again, also when it was not asleep yet - provided that
\* from some time on all threads have the same priority, whatever their
\* priorities were before.
BroadcastReaches ==
    <>[]SamePriority =>
        \A t, u \in Threads :
            (pc[t] = "loop" /\ u \in Waiting) ~> pc[u] = "reacquire"

\* thread.c:690, rule 6: the wait queue of a condition is a priority queue, so
\* that the thread signalled has the highest priority of those that wait.
HighestSignalled ==
    [][\A u \in Waiting \ Waiting' :
          \A w \in Waiting : priority[u] >= priority[w]]_vars

\* The inductive invariant behind the first two.
Inv ==
    /\ \A t \in Threads :
          (holder = t) <=> pc[t] \in {"in", "queued", "sorted", "loop"}
    /\ NoDuplicates(waiters)
    /\ \A t \in ToSet(waiters) : pc[t] \in {"queued", "down", "asleep"}
    /\ \A t \in Threads : pc[t] = "queued" => t \in ToSet(waiters)
    /\ \A t \in Threads : pc[t] = "sorted" => waiters # <<>>
    /\ SignalPending
=============================================================================
