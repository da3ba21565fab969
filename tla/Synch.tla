------------------------------- MODULE Synch -------------------------------
(***************************************************************************)
(* The priority scheduler of threads/thread.c together with the            *)
(* semaphores, the locks and the priority donation of threads/synch.c, as  *)
(* lab 1 leaves them (src/lab1/zhk/pintos/src).                            *)
(*                                                                         *)
(* There is one CPU.  A piece of code that runs with interrupts off is one *)
(* step; code that runs with interrupts on is cut where it reads or writes *)
(* a field that another thread also reads or writes, and Preempt - the     *)
(* timer interrupt that ends a time slice - may strike at every cut.  pc   *)
(* says where each thread is; only the thread current takes steps.         *)
(***************************************************************************)
EXTENDS KernelLists

CONSTANTS
    Threads,      \* the pages a struct thread may occupy
    Main,         \* initial_thread
    Idle,         \* idle_thread
    Locks,        \* the locks threads share, tid_lock included
    TidLock,      \* thread.c's tid_lock
    Semas,        \* the semaphores that are not part of a lock
    IntrSemas,    \* the semaphores that device interrupt handlers "up"
    TryLocks,     \* the locks threads also take with lock_try_acquire
    Sleepers,     \* the threads that call timer_sleep or wait for a device
    Rank,         \* the order in which threads take locks
    Priorities,   \* the priorities in use, 0 (PRI_MIN) being idle's
    NewPriorities,\* the priorities passed to thread_set_priority
    MaxValue,     \* bound: no semaphore counts further than this
    Mlfqs,        \* thread_mlfqs
    NULL

AllThreads == Threads \cup {Idle}
AllSemas   == Locks \cup Semas      \* a lock stands for its own semaphore

ASSUME SynchAssumption ==
    /\ IsFiniteSet(Threads)
    /\ Main \in Threads
    /\ Idle \notin Threads
    /\ TidLock \in Locks
    /\ Locks \cap Semas = {}
    /\ IntrSemas \subseteq Semas
    /\ TryLocks \subseteq Locks \ {TidLock}
    /\ Sleepers \subseteq Threads
    /\ Rank \in [Locks -> Nat]
    /\ 0 \in Priorities /\ Priorities \subseteq Nat
    /\ NewPriorities \subseteq Priorities
    /\ MaxValue \in Nat
    /\ Mlfqs \in BOOLEAN
    /\ NULL \notin AllThreads \cup AllSemas

VARIABLES
    current,       \* the running thread
    status,        \* status of each thread; "FREE" is a page given back
    ready_list,    \* THREAD_READY threads, the next to run first
    woken,         \* ghost: the threads that interrupt handlers have made
                   \* ready since the running thread was chosen
    priority, original_pri,
    blocked_lock,  \* the lock a thread waits for
    lock_list,     \* the locks a thread holds
    tangled,       \* a lock has been linked that was on a list already
    holder, max_pri,      \* of each lock
    value, waiters,       \* of each semaphore
    pc,            \* where each thread is
    arg,           \* the lock or semaphore its current call is about
    cur_lock, lock_h_t,   \* the locals of lock_acquire
    new_pri,       \* a priority computed and not yet stored
    child,         \* the thread being created
    panic          \* the panic that stopped the kernel, or "none"

sched  == <<current, status, ready_list, woken>>
pri    == <<priority, original_pri>>
donate == <<blocked_lock, lock_list, tangled, holder, max_pri>>
sema   == <<value, waiters>>
local  == <<arg, cur_lock, lock_h_t, new_pri, child>>
vars   == <<sched, pri, donate, sema, pc, local, panic>>

Statuses == {"RUNNING", "READY", "BLOCKED", "DYING", "FREE"}
PCs == {"user", "asleep", "blocked", "link", "donate", "donate_write", "chain",
        "again", "sorting", "down", "down_wait",
        "own", "own_holder", "try_own", "rel_pri", "rel_holder", "up", "tid",
        "create_unblock", "create_yield", "set_empty", "copy_pri", "set_raise",
        "raise_original", "set_original", "yield"}

TypeOK ==
    /\ current \in AllThreads
    /\ status \in [AllThreads -> Statuses]
    /\ ready_list \in Seq(Threads)
    /\ woken \subseteq Threads
    /\ priority \in [AllThreads -> Priorities]
    /\ original_pri \in [AllThreads -> Priorities]
    /\ blocked_lock \in [Threads -> Locks \cup {NULL}]
    /\ lock_list \in [Threads -> Seq(Locks)]
    /\ tangled \in BOOLEAN
    /\ holder \in [Locks -> Threads \cup {NULL}]
    /\ max_pri \in [Locks -> Priorities]
    /\ value \in [AllSemas -> Nat]
    /\ waiters \in [AllSemas -> Seq(Threads)]
    /\ pc \in [Threads -> PCs]
    /\ arg \in [Threads -> AllSemas \cup {NULL}]
    /\ cur_lock \in [Threads -> Locks \cup {NULL}]
    /\ lock_h_t \in [Threads -> Threads \cup {NULL}]
    /\ new_pri \in [Threads -> Priorities]
    /\ child \in [Threads -> Threads \cup {NULL}]
    /\ panic \in {"none", "null_holder", "freed_holder", "null_lock",
                  "intr_yield", "not_in_list", "bad_list"}

(***************************************************************************)
(* thread_start has returned in the initial thread: the idle thread exists *)
(* and has yielded in sema_up (&idle_started), which left it THREAD_READY  *)
(* without being on the ready list; nothing else has been created.         *)
(***************************************************************************)
Init ==
    /\ current = Main
    /\ status = [t \in AllThreads |->
                    CASE t = Main -> "RUNNING"
                      [] t = Idle -> "READY"
                      [] OTHER    -> "FREE"]
    /\ ready_list = <<>>
    /\ woken = {}
    /\ \E p \in Priorities :
          priority = [t \in AllThreads |-> IF t = Main THEN p ELSE 0]
    /\ original_pri = priority
    /\ blocked_lock = [t \in Threads |-> NULL]
    /\ lock_list = [t \in Threads |-> <<>>]
    /\ tangled = FALSE
    /\ holder = [l \in Locks |-> NULL]
    /\ max_pri = [l \in Locks |-> 0]
    /\ value = [s \in AllSemas |-> IF s \in Locks THEN 1 ELSE 0]
    /\ waiters = [s \in AllSemas |-> <<>>]
    /\ pc = [t \in Threads |-> "user"]
    /\ arg = [t \in Threads |-> NULL]
    /\ cur_lock = [t \in Threads |-> NULL]
    /\ lock_h_t = [t \in Threads |-> NULL]
    /\ new_pri = [t \in Threads |-> 0]
    /\ child = [t \in Threads |-> NULL]
    /\ panic = "none"

-----------------------------------------------------------------------------
(* The scheduler: thread_schedule_tail, next_thread_to_run, thread_yield.  *)

\* schedule() once the running thread has left THREAD_RUNNING: st and queue
\* are the statuses and the ready list at that point.
Schedule(st, queue) ==
    LET next == IF queue = <<>> THEN Idle ELSE Head(queue)
    IN  /\ current' = next
        /\ status' = [st EXCEPT ![next] = "RUNNING"]
        /\ ready_list' = IF queue = <<>> THEN <<>> ELSE Tail(queue)
        /\ woken' = {}

\* thread_yield: the idle thread is never put on the ready list.
ThreadYield(st, queue) ==
    Schedule([st EXCEPT ![current] = "READY"],
             IF current = Idle
             THEN queue
             ELSE list_insert_ordered(queue, current, priority))

\* sema_up: if a thread waits, the waiters are sorted again and the first one
\* becomes ready.
\* Mutant: a waiter is woken only if the semaphore was down to 0.
HasWaiter_AtZero(s) == waiters[s] # <<>> /\ value[s] = 0

HasWaiter(s) == waiters[s] # <<>>

SortedWaiters(s) == list_sort(waiters[s], priority)

\* Mutants: the woken thread is read but not popped; the list is emptied.
WaitersAfterUp_Kept(s) == waiters[s]
WaitersAfterUp_Lost(s) == <<>>

WaitersAfterUp(s) == IF HasWaiter(s) THEN Tail(SortedWaiters(s)) ELSE waiters[s]

StatusAfterUp(s) ==
    IF HasWaiter(s)
    THEN [status EXCEPT ![Head(SortedWaiters(s))] = "READY"]
    ELSE status

ReadyListAfterUp(s) ==
    IF HasWaiter(s)
    THEN list_insert_ordered(ready_list, Head(SortedWaiters(s)), priority)
    ELSE ready_list

\* Value grows whether or not a thread waited, and the caller yields with
\* interrupts still off; it goes on at `after` when it runs again.
SemaUp(t, s, after) ==
    /\ value' = [value EXCEPT ![s] = @ + 1]
    /\ waiters' = [waiters EXCEPT ![s] = WaitersAfterUp(s)]
    /\ ThreadYield(StatusAfterUp(s), ReadyListAfterUp(s))
    /\ pc' = [pc EXCEPT ![t] = after]

-----------------------------------------------------------------------------
(* What can happen to a running thread at any instant it has interrupts on *)
(* (a thread that wakes up inside sema_down still has them off).           *)

Running(t) == panic = "none" /\ t = current /\ t \in Threads

At(t, place) == Running(t) /\ pc[t] = place

InterruptsOn ==
    panic = "none" /\ (current \in Threads => pc[current] # "down_wait")

\* thread_tick ends the time slice: intr_handler yields on return.
Preempt ==
    /\ InterruptsOn
    /\ ThreadYield(status, ready_list)
    /\ UNCHANGED <<pri, donate, sema, pc, local, panic>>

\* One turn of idle's loop, when the ready list is (still) empty or not.
IdleBlock ==
    /\ panic = "none" /\ current = Idle
    /\ Schedule([status EXCEPT ![Idle] = "BLOCKED"], ready_list)
    /\ UNCHANGED <<pri, donate, sema, pc, local, panic>>

\* timer_interrupt with -o mlfqs: every TIMER_FREQ ticks all threads but idle
\* get a new priority, every fourth tick the running one does.
MlfqsTick ==
    /\ Mlfqs /\ InterruptsOn
    /\ \E who \in {{current}, {t \in Threads : status[t] # "FREE"}} :
       \E p \in [who \ {Idle} -> Priorities] :
          priority' = [t \in AllThreads |->
                          IF t \in who \ {Idle} THEN p[t] ELSE priority[t]]
    /\ UNCHANGED <<sched, original_pri, donate, sema, pc, local, panic>>

\* A device interrupt handler calls sema_up (devices/ide.c:517): the unblock
\* and the increment happen, then thread_yield's ASSERT (!intr_context ())
\* panics.
IntrSemaUp(s) ==
    /\ InterruptsOn /\ value[s] < MaxValue
    /\ value' = [value EXCEPT ![s] = @ + 1]
    /\ waiters' = [waiters EXCEPT ![s] = WaitersAfterUp(s)]
    /\ status' = StatusAfterUp(s)
    /\ ready_list' = ReadyListAfterUp(s)
    /\ panic' = "intr_yield"
    /\ UNCHANGED <<current, woken, pri, donate, pc, local>>

\* thread_unblock in a handler that does not yield: timer_interrupt's
\* time_minus, or the signal of intq.c.
InterruptWakes(t) ==
    /\ InterruptsOn
    /\ status[t] = "BLOCKED" /\ pc[t] = "asleep"
    /\ status' = [status EXCEPT ![t] = "READY"]
    /\ ready_list' = list_insert_ordered(ready_list, t, priority)
    /\ woken' = woken \cup {t}
    /\ pc' = [pc EXCEPT ![t] = "user"]
    /\ UNCHANGED <<current, pri, donate, sema, local, panic>>

\* debug_panic ends in for (;;).
Halted ==
    /\ panic # "none"
    /\ UNCHANGED vars

\* timer_sleep, or intq.c's wait: thread_block, whatever locks are held.
CallSleep(t) ==
    /\ At(t, "user") /\ t \in Sleepers
    /\ Schedule([status EXCEPT ![t] = "BLOCKED"], ready_list)
    /\ pc' = [pc EXCEPT ![t] = "asleep"]
    /\ UNCHANGED <<pri, donate, sema, local, panic>>

-----------------------------------------------------------------------------
(* Semaphores.                                                             *)

CallSemaDown(t, s) ==
    /\ At(t, "user")
    /\ pc' = [pc EXCEPT ![t] = "down"]
    /\ arg' = [arg EXCEPT ![t] = s]
    /\ UNCHANGED <<sched, pri, donate, sema, cur_lock, lock_h_t, new_pri,
                   child, panic>>

CallSemaUp(t, s) ==
    /\ At(t, "user") /\ value[s] < MaxValue
    /\ SemaUp(t, s, "user")
    /\ UNCHANGED <<pri, donate, local, panic>>

\* The while loop of sema_down, entered from the call ("down") or after a
\* wake-up ("down_wait"): the value is tested again every time.
\* Mutant: if instead of while, a woken thread does not test the value again.
MustWait_TestedOnce(t) == pc[t] = "down" /\ value[arg[t]] = 0

MustWait(t) == value[arg[t]] = 0

DownBlocks(t) ==
    /\ At(t, "down") \/ At(t, "down_wait")
    /\ MustWait(t)
    /\ waiters' = [waiters EXCEPT ![arg[t]] = Append(@, t)]
    /\ Schedule([status EXCEPT ![t] = "BLOCKED"], ready_list)
    /\ pc' = [pc EXCEPT ![t] = "down_wait"]
    /\ UNCHANGED <<pri, donate, value, local, panic>>

DownTakes(t) ==
    /\ At(t, "down") \/ At(t, "down_wait")
    /\ ~ MustWait(t)
    /\ value' = [value EXCEPT ![arg[t]] = @ - 1]
    /\ IF arg[t] \in Locks
       THEN /\ pc' = [pc EXCEPT ![t] = "own"]
            /\ UNCHANGED arg
       ELSE /\ pc' = [pc EXCEPT ![t] = "user"]
            /\ arg' = [arg EXCEPT ![t] = NULL]
    /\ UNCHANGED <<sched, pri, donate, waiters, cur_lock, lock_h_t, new_pri,
                   child, panic>>

-----------------------------------------------------------------------------
(* lock_acquire.                                                           *)

\* The test of lock->holder, with interrupts on.
TestHolder(t, l) ==
    /\ holder[l] # t
    /\ arg' = [arg EXCEPT ![t] = l]
    /\ pc' = [pc EXCEPT ![t] = IF holder[l] = NULL THEN "down" ELSE "blocked"]

Held(t) == {l \in Locks : holder[l] = t}

\* A program takes its locks in the order of their ranks.
CallLockAcquire(t, l) ==
    /\ At(t, "user")
    /\ \A h \in Held(t) : Rank[h] < Rank[l]
    /\ TestHolder(t, l)
    /\ UNCHANGED <<sched, pri, donate, sema, cur_lock, lock_h_t, new_pri,
                   child, panic>>

\* blocked_lock is recorded, and the loop begins with the lock itself.
RecordBlockedLock(t) ==
    /\ At(t, "blocked")
    /\ blocked_lock' = [blocked_lock EXCEPT ![t] = arg[t]]
    /\ cur_lock' = [cur_lock EXCEPT ![t] = arg[t]]
    /\ pc' = [pc EXCEPT ![t] = "link"]
    /\ UNCHANGED <<sched, pri, lock_list, tangled, holder, max_pri, sema, arg,
                   lock_h_t, new_pri, child, panic>>

\* lock_h_t = cur_lock->holder
ReadHolder(t) ==
    /\ At(t, "link")
    /\ IF cur_lock[t] = NULL
       THEN panic' = "null_lock" /\ UNCHANGED <<pc, lock_h_t>>
       ELSE /\ lock_h_t' = [lock_h_t EXCEPT ![t] = holder[cur_lock[t]]]
            /\ pc' = [pc EXCEPT ![t] = "donate"]
            /\ UNCHANGED panic
    /\ UNCHANGED <<sched, pri, donate, sema, arg, cur_lock, new_pri, child>>

\* The priority of thread h as its locks and its own priority make it.
DonatedPriority(list, h, max) ==
    IF list # <<>> /\ max[Head(list)] > original_pri[h]
    THEN max[Head(list)]
    ELSE original_pri[h]

\* lock_h_t is NULL, or points to a page freed (and filled with 0xcc): the
\* next access through it faults.
DonateFaults(t) ==
    /\ Running(t) /\ pc[t] \in {"donate", "donate_write", "chain", "again"}
    /\ \/ lock_h_t[t] = NULL /\ panic' = "null_holder"
       \/ /\ lock_h_t[t] # NULL /\ status[lock_h_t[t]] = "FREE"
          /\ panic' = "freed_holder"
    /\ UNCHANGED <<sched, pri, donate, sema, pc, local>>

HolderLives(t) == lock_h_t[t] # NULL /\ status[lock_h_t[t]] # "FREE"

\* cur_lock->max_pri is already as high: nothing is donated at this link.
DonateSkips(t) ==
    /\ At(t, "donate") /\ HolderLives(t)
    /\ priority[t] <= max_pri[cur_lock[t]]
    /\ pc' = [pc EXCEPT ![t] = "chain"]
    /\ UNCHANGED <<sched, pri, donate, sema, local, panic>>

MaxPriAfter(t) == [max_pri EXCEPT ![cur_lock[t]] = priority[t]]

DonateComputes(t) ==
    LET h == lock_h_t[t]
        sorted == list_sort(lock_list[h], MaxPriAfter(t))
    IN  /\ At(t, "donate") /\ HolderLives(t) /\ ~ tangled
        /\ priority[t] > max_pri[cur_lock[t]]
        /\ max_pri' = MaxPriAfter(t)
        /\ lock_list' = [lock_list EXCEPT ![h] = sorted]
        /\ new_pri' = [new_pri EXCEPT
                           ![t] = DonatedPriority(sorted, h, MaxPriAfter(t))]
        /\ pc' = [pc EXCEPT ![t] = "donate_write"]
        /\ UNCHANGED <<sched, pri, blocked_lock, tangled, holder, sema, arg,
                       cur_lock, lock_h_t, child, panic>>

\* Links that are no longer those of lists: list_sort may go round for ever,
\* fail an assertion or come back with any lock in front.
DonateTangled(t) ==
    LET h == lock_h_t[t]
    IN  /\ At(t, "donate") /\ HolderLives(t) /\ tangled
        /\ priority[t] > max_pri[cur_lock[t]]
        /\ max_pri' = MaxPriAfter(t)
        /\ \/ pc' = [pc EXCEPT ![t] = "sorting"] /\ UNCHANGED <<new_pri, panic>>
           \/ panic' = "bad_list" /\ UNCHANGED <<pc, new_pri>>
           \/ /\ \E front \in {<<>>} \cup {<<l>> : l \in Locks} :
                    new_pri' = [new_pri EXCEPT
                                   ![t] = DonatedPriority(front, h, MaxPriAfter(t))]
              /\ pc' = [pc EXCEPT ![t] = "donate_write"]
              /\ UNCHANGED panic
        /\ UNCHANGED <<sched, pri, blocked_lock, lock_list, tangled, holder, sema,
                       arg, cur_lock, lock_h_t, child>>

DonateWrites(t) ==
    /\ At(t, "donate_write") /\ HolderLives(t)
    /\ priority' = [priority EXCEPT ![lock_h_t[t]] = new_pri[t]]
    /\ new_pri' = [new_pri EXCEPT ![t] = 0]
    /\ pc' = [pc EXCEPT ![t] = "chain"]
    /\ UNCHANGED <<sched, original_pri, donate, sema, arg, cur_lock, lock_h_t,
                   child, panic>>

\* The end of the loop body, the test of lock_h_t->blocked_lock: on to the
\* lock the holder waits for, if any.  A compiler may read the field once for
\* the test and the assignment, or twice.
EndsChain(t) ==
    /\ At(t, "chain") /\ HolderLives(t)
    /\ blocked_lock[lock_h_t[t]] = NULL
    /\ pc' = [pc EXCEPT ![t] = "down"]
    /\ cur_lock' = [cur_lock EXCEPT ![t] = NULL]
    /\ lock_h_t' = [lock_h_t EXCEPT ![t] = NULL]
    /\ UNCHANGED <<sched, pri, donate, sema, arg, new_pri, child, panic>>

ReadsAgain(t) ==
    /\ At(t, "chain") /\ HolderLives(t)
    /\ blocked_lock[lock_h_t[t]] # NULL
    /\ pc' = [pc EXCEPT ![t] = "again"]
    /\ UNCHANGED <<sched, pri, donate, sema, local, panic>>

NextInChain(t) ==
    /\ Running(t) /\ HolderLives(t)
    /\ \/ pc[t] = "chain" /\ blocked_lock[lock_h_t[t]] # NULL
       \/ pc[t] = "again"
    /\ cur_lock' = [cur_lock EXCEPT ![t] = blocked_lock[lock_h_t[t]]]
    /\ pc' = [pc EXCEPT ![t] = "link"]
    /\ UNCHANGED <<sched, pri, donate, sema, arg, lock_h_t, new_pri, child, panic>>

\* Mutant: blocked_lock survives the wait.
BlockedLockAfterWait_Stale(t) == blocked_lock

BlockedLockAfterWait(t) == [blocked_lock EXCEPT ![t] = NULL]

\* After sema_down.  With -o mlfqs lock_release leaves the lock on the list,
\* so that the next list_push_back of its element links it a second time: its
\* neighbours keep pointing at it, and lists run into each other.
LockOwn(t) ==
    /\ At(t, "own")
    /\ blocked_lock' = BlockedLockAfterWait(t)
    /\ lock_list' = [lock_list EXCEPT
                         ![t] = IF arg[t] \in ToSet(@) THEN @ ELSE Append(@, arg[t])]
    /\ tangled' = (tangled \/ \E u \in Threads : arg[t] \in ToSet(lock_list[u]))
    /\ pc' = [pc EXCEPT ![t] = "own_holder"]
    /\ UNCHANGED <<sched, pri, holder, max_pri, sema, local, panic>>

\* lock->holder is written last; allocate_tid goes on with tid_lock held.
OwnHolder(t) ==
    /\ At(t, "own_holder") \/ At(t, "try_own")
    /\ holder' = [holder EXCEPT ![arg[t]] = t]
    /\ pc' = [pc EXCEPT ![t] = IF arg[t] = TidLock THEN "tid" ELSE "user"]
    /\ arg' = [arg EXCEPT ![t] = NULL]
    /\ UNCHANGED <<sched, pri, blocked_lock, lock_list, tangled, max_pri, sema,
                   cur_lock, lock_h_t, new_pri, child, panic>>

\* Mutant: lock_try_acquire looks at the holder, which is written later.
CanTake_Holder(l) == holder[l] = NULL

CanTake(l) == value[l] > 0

\* lock_try_acquire that succeeds (one that fails changes nothing): neither
\* lock_list nor blocked_lock is touched.
CallLockTryAcquire(t, l) ==
    /\ At(t, "user")
    /\ holder[l] # t /\ CanTake(l)
    /\ value' = [value EXCEPT ![l] = @ - 1]
    /\ arg' = [arg EXCEPT ![t] = l]
    /\ pc' = [pc EXCEPT ![t] = "try_own"]
    /\ UNCHANGED <<sched, pri, donate, waiters, cur_lock, lock_h_t, new_pri,
                   child, panic>>

-----------------------------------------------------------------------------
(* lock_release.                                                           *)

\* Up to the priority that is computed; max_pri stays as it is.  The lock is
\* in no list when lock_try_acquire took it: list_remove's ASSERT
\* (is_interior (elem)) fails.
LockRelease(t, l) ==
    /\ holder[l] = t
    /\ IF Mlfqs
       THEN /\ pc' = [pc EXCEPT ![t] = "rel_holder"]
            /\ arg' = [arg EXCEPT ![t] = l]
            /\ UNCHANGED <<lock_list, new_pri, panic>>
       ELSE IF l \notin ToSet(lock_list[t])
       THEN /\ panic' = "not_in_list"
            /\ UNCHANGED <<lock_list, new_pri, pc, arg>>
       ELSE LET rest == list_sort(list_remove(lock_list[t], l), max_pri)
            IN  /\ lock_list' = [lock_list EXCEPT ![t] = rest]
                /\ new_pri' = [new_pri EXCEPT
                                  ![t] = DonatedPriority(rest, t, max_pri)]
                /\ pc' = [pc EXCEPT ![t] = "rel_pri"]
                /\ arg' = [arg EXCEPT ![t] = l]
                /\ UNCHANGED panic
    /\ UNCHANGED <<sched, pri, blocked_lock, tangled, holder, max_pri, sema,
                   cur_lock, lock_h_t, child>>

CallLockRelease(t, l) == At(t, "user") /\ LockRelease(t, l)

ReleasePriority(t) ==
    /\ At(t, "rel_pri")
    /\ priority' = [priority EXCEPT ![t] = new_pri[t]]
    /\ new_pri' = [new_pri EXCEPT ![t] = 0]
    /\ pc' = [pc EXCEPT ![t] = "rel_holder"]
    /\ UNCHANGED <<sched, original_pri, donate, sema, arg, cur_lock, lock_h_t,
                   child, panic>>

ReleaseHolder(t) ==
    /\ At(t, "rel_holder")
    /\ holder' = [holder EXCEPT ![arg[t]] = NULL]
    /\ pc' = [pc EXCEPT ![t] = "up"]
    /\ UNCHANGED <<sched, pri, blocked_lock, lock_list, tangled, max_pri, sema,
                   local, panic>>

ReleaseUp(t) ==
    /\ At(t, "up")
    /\ SemaUp(t, arg[t],
              IF arg[t] = TidLock THEN "create_unblock" ELSE "user")
    /\ arg' = [arg EXCEPT ![t] = NULL]
    /\ UNCHANGED <<pri, donate, cur_lock, lock_h_t, new_pri, child, panic>>

-----------------------------------------------------------------------------
(* Threads.                                                                *)

\* init_thread fills the page, then allocate_tid calls lock_acquire.
CallThreadCreate(t, c, p) ==
    /\ At(t, "user") /\ status[c] = "FREE"
    /\ status' = [status EXCEPT ![c] = "BLOCKED"]
    /\ priority' = [priority EXCEPT ![c] = p]
    /\ original_pri' = [original_pri EXCEPT ![c] = p]
    /\ blocked_lock' = [blocked_lock EXCEPT ![c] = NULL]
    /\ lock_list' = [lock_list EXCEPT ![c] = <<>>]
    /\ child' = [child EXCEPT ![t] = c]
    /\ TestHolder(t, TidLock)
    /\ UNCHANGED <<current, ready_list, woken, tangled, holder, max_pri, sema,
                   cur_lock, lock_h_t, new_pri, panic>>

AllocateTid(t) == At(t, "tid") /\ LockRelease(t, TidLock)

CreateUnblocks(t) ==
    /\ At(t, "create_unblock")
    /\ status' = [status EXCEPT ![child[t]] = "READY"]
    /\ ready_list' = list_insert_ordered(ready_list, child[t], priority)
    /\ pc' = [pc EXCEPT ![t] = "create_yield"]
    /\ UNCHANGED <<current, woken, pri, donate, sema, local, panic>>

\* Mutant: the creator never lets the child run first.
ChildPreempts_Never(t) == FALSE

\* thread_current ()->priority < t->priority: the child may have run and
\* exited by now, and 0xcccccccc, read from its page, is negative.
ChildPreempts(t) ==
    status[child[t]] # "FREE" /\ priority[t] < priority[child[t]]

CreateYields(t) ==
    /\ At(t, "create_yield")
    /\ IF ChildPreempts(t)
       THEN ThreadYield(status, ready_list)
       ELSE UNCHANGED sched
    /\ child' = [child EXCEPT ![t] = NULL]
    /\ pc' = [pc EXCEPT ![t] = "user"]
    /\ UNCHANGED <<pri, donate, sema, arg, cur_lock, lock_h_t, new_pri, panic>>

\* thread_set_priority: the branch is chosen first, the fields are written
\* one after the other, with interrupts on all the while.
CallSetPriority(t, p) ==
    /\ At(t, "user") /\ ~ Mlfqs
    /\ new_pri' = [new_pri EXCEPT ![t] = p]
    /\ pc' = [pc EXCEPT ![t] = IF lock_list[t] = <<>> THEN "set_empty"
                               ELSE IF p > priority[t] THEN "set_raise"
                               ELSE "set_original"]
    /\ UNCHANGED <<sched, pri, donate, sema, arg, cur_lock, lock_h_t, child,
                   panic>>

SetPriorityWrites(t) ==
    /\ \/ /\ At(t, "set_empty")
          /\ pc' = [pc EXCEPT ![t] = "copy_pri"]
       \/ /\ At(t, "set_raise")
          /\ pc' = [pc EXCEPT ![t] = "raise_original"]
    /\ priority' = [priority EXCEPT ![t] = new_pri[t]]
    /\ UNCHANGED <<sched, original_pri, donate, sema, local, panic>>

\* Without locks the original priority is read back from the priority.
SetOriginalWrites(t) ==
    /\ \/ /\ At(t, "copy_pri")
          /\ original_pri' = [original_pri EXCEPT ![t] = priority[t]]
          /\ pc' = [pc EXCEPT ![t] = "yield"]
       \/ /\ At(t, "raise_original")
          /\ original_pri' = [original_pri EXCEPT ![t] = new_pri[t]]
          /\ pc' = [pc EXCEPT ![t] = "yield"]
       \/ /\ At(t, "set_original")
          /\ original_pri' = [original_pri EXCEPT ![t] = new_pri[t]]
          /\ pc' = [pc EXCEPT ![t] = "user"]
    /\ new_pri' = [new_pri EXCEPT ![t] = 0]
    /\ UNCHANGED <<sched, priority, donate, sema, arg, cur_lock, lock_h_t,
                   child, panic>>

SetPriorityYields(t) ==
    /\ At(t, "yield")
    /\ ThreadYield(status, ready_list)
    /\ pc' = [pc EXCEPT ![t] = "user"]
    /\ UNCHANGED <<pri, donate, sema, local, panic>>

\* thread_exit, called by a thread that holds no lock: thread_schedule_tail
\* frees the page of every thread but the initial one (and nothing reads the
\* priorities of a freed page before init_thread has set them again).
CallThreadExit(t) ==
    /\ At(t, "user") /\ Held(t) = {}
    /\ Schedule([status EXCEPT ![t] = IF t = Main THEN "DYING" ELSE "FREE"],
                ready_list)
    /\ priority' = [priority EXCEPT ![t] = 0]
    /\ original_pri' = [original_pri EXCEPT ![t] = 0]
    /\ UNCHANGED <<donate, sema, pc, local, panic>>

-----------------------------------------------------------------------------
UserCall(t) ==
    \/ \E s \in Semas : CallSemaDown(t, s) \/ CallSemaUp(t, s)
    \/ \E l \in Locks \ {TidLock} : CallLockAcquire(t, l) \/ CallLockRelease(t, l)
    \/ \E l \in TryLocks : CallLockTryAcquire(t, l)
    \/ \E c \in Threads, p \in Priorities : CallThreadCreate(t, c, p)
    \/ \E p \in NewPriorities : CallSetPriority(t, p)
    \/ CallSleep(t) \/ CallThreadExit(t)

Step(t) ==
    \/ DownBlocks(t) \/ DownTakes(t)
    \/ RecordBlockedLock(t) \/ ReadHolder(t) \/ DonateFaults(t)
    \/ DonateSkips(t) \/ DonateComputes(t) \/ DonateTangled(t) \/ DonateWrites(t)
    \/ EndsChain(t) \/ ReadsAgain(t) \/ NextInChain(t)
    \/ LockOwn(t) \/ OwnHolder(t)
    \/ ReleasePriority(t) \/ ReleaseHolder(t) \/ ReleaseUp(t)
    \/ AllocateTid(t) \/ CreateUnblocks(t) \/ CreateYields(t)
    \/ SetPriorityWrites(t) \/ SetOriginalWrites(t) \/ SetPriorityYields(t)

Next ==
    \/ \E t \in Threads : UserCall(t) \/ Step(t) \/ InterruptWakes(t)
    \/ Preempt \/ IdleBlock \/ MlfqsTick
    \/ \E s \in IntrSemas : IntrSemaUp(s)
    \/ Halted

Spec == Init /\ [][Next]_vars

-----------------------------------------------------------------------------
(* What the scheduler and the semaphores promise.                          *)

\* thread.h:80-85: one elem serves the run queue and the wait lists because a
\* thread is never on both.  One thread runs; the ready list is exactly the
\* READY threads; a thread is on at most one wait list, that of the semaphore
\* its call is about, and only while it is BLOCKED.
OneRunning ==
    \A t \in AllThreads : status[t] = "RUNNING" <=> t = current

ReadyListExact ==
    /\ NoDuplicates(ready_list)
    /\ \A t \in Threads : t \in ToSet(ready_list) <=> status[t] = "READY"

WaitListsExact ==
    \A s \in AllSemas :
        /\ NoDuplicates(waiters[s])
        /\ \A t \in ToSet(waiters[s]) :
              status[t] = "BLOCKED" /\ pc[t] = "down_wait" /\ arg[t] = s

ElemUsedOnce == OneRunning /\ ReadyListExact /\ WaitListsExact

\* No thread is BLOCKED out of everybody's reach: it is on the wait list of
\* the semaphore of its call, the timer or a device is to wake it, or
\* thread_create is still to unblock it.
BlockedReachable ==
    \A t \in Threads :
        status[t] = "BLOCKED" =>
            \/ pc[t] = "down_wait" /\ t \in ToSet(waiters[arg[t]])
            \/ pc[t] = "asleep"
            \/ \E u \in Threads : child[u] = t

\* The threads a sema_up has woken that have not tested the value again.
WokenFor(s) ==
    {t \in Threads : /\ pc[t] = "down_wait" /\ arg[t] = s
                     /\ t \notin ToSet(waiters[s])}

\* No wake-up is lost, although sema_up's waiter has to compete for the value
\* again: while threads sleep on a semaphore, each unit of its value has a
\* thread that was woken for it.
NoLostWakeup ==
    \A s \in AllSemas :
        waiters[s] # <<>> => value[s] <= Cardinality(WokenFor(s))

\* Rule 5 at thread.c:689 (a semaphore's wait queue is a priority queue): the
\* thread that a sema_up takes off the wait list has the highest priority of
\* all the waiters, counting what was donated to them while they slept.
HighestWaiterWoken ==
    [][\A s \in AllSemas :
          Len(waiters'[s]) < Len(waiters[s]) =>
              \E t \in ToSet(waiters[s]) :
                  /\ ToSet(waiters'[s]) = ToSet(waiters[s]) \ {t}
                  /\ \A u \in ToSet(waiters[s]) : priority[u] <= priority[t]
      ]_vars

\* No thread has donated its priority so far: max_pri never comes down.
NothingDonated == \A l \in Locks : max_pri[l] = 0

\* The ready list is the priority queue the design document says it is
\* (src/doc, PRIORITY SCHEDULING, B3).  Only true where nothing is donated.
ReadyListSorted == IsSortedBy(ready_list, priority)

\* The design document's rule of priority scheduling: between two kernel
\* calls no thread runs while one of higher priority is ready, whatever was
\* created, "upped" or given another priority.  Two exceptions: donation, and
\* the handlers of the timer and the devices, which unblock threads without
\* yielding (timer.c:374, intq.c:110) - such a thread waits for the next yield.
RunsHighest ==
    \A t, u \in Threads :
        At(t, "user") /\ status[u] = "READY" /\ u \notin woken =>
            priority[u] <= priority[t]

\* Both, until somebody donates: the order of the list is what makes the
\* highest thread run.
StrictPriority == NothingDonated => ReadyListSorted /\ RunsHighest

-----------------------------------------------------------------------------
(* What the locks and priority donation promise.                           *)

\* A thread between sema_down's decrement and sema_up's increment of a lock's
\* semaphore.
Owns(t, l) ==
    \/ holder[l] = t
    \/ arg[t] = l /\ pc[t] \in {"own", "own_holder", "try_own", "up"}

\* A lock's semaphore is 1 exactly when nobody is inside the lock, and two
\* threads never are, wherever a thread is preempted: between sema_down and
\* the write of holder, or between the clearing of holder and sema_up.
LockExclusion ==
    \A l \in Locks :
        /\ value[l] = IF \E t \in Threads : Owns(t, l) THEN 0 ELSE 1
        /\ \A t, u \in Threads : Owns(t, l) /\ Owns(u, l) => t = u

\* thread.h: lock_list is "the locks held" - no lock stays behind on the list
\* of a thread that gave it up, and none is there before its thread is in.
LockListHeld ==
    \A t \in Threads : \A l \in ToSet(lock_list[t]) : Owns(t, l)

\* lock_acquire's while (1) ends: following "waits for", "is held by" from a
\* thread never comes back to it, stale blocked_lock fields included.
DonationChainsEnd ==
    \A S \in SUBSET Threads :
        S # {} => \E t \in S :
                     \/ blocked_lock[t] = NULL
                     \/ holder[blocked_lock[t]] \notin S

\* synch.c:218, "the lock has a holder": the thread that lock_acquire donates
\* to is there, while it follows the chain of holders.
HolderStillThere == panic \notin {"null_holder", "freed_holder"}

\* Rule 1 at thread.c:683: when lock_acquire has found a holder and is about
\* to wait, that holder runs at its priority or a higher one (a holder that
\* is in lock_release, or that another thread is donating to, aside).
DonationReaches ==
    \A t, h \in Threads :
        /\ At(t, "down") /\ blocked_lock[t] # NULL
        /\ holder[arg[t]] = h /\ pc[h] \notin {"rel_pri", "rel_holder"}
        /\ \A u \in Threads : lock_h_t[u] # h
        => priority[t] <= priority[h]

DonorPCs == {"link", "donate", "donate_write", "chain", "again"}

\* Rules 2 and 4 at thread.c:685-688: outside lock_release, and while no
\* donation to it is under way, a thread has its own priority or one that a
\* thread still waiting for some lock could have donated.
BoostJustified ==
    \A t \in Threads :
        At(t, "user") /\ (\A u \in Threads : lock_h_t[u] # t) =>
            \/ priority[t] = original_pri[t]
            \/ \E u \in Threads :
                  /\ pc[u] \in DonorPCs \cup {"down", "down_wait"}
                  /\ arg[u] \in Locks /\ blocked_lock[u] # NULL
                  /\ priority[u] >= priority[t]

\* thread.c:172-173: the child "could even exit before thread_create()
\* returns"; thread_create reads t->priority all the same.
ChildStillThere ==
    \A t \in Threads :
        At(t, "create_yield") => status[child[t]] # "FREE"
=============================================================================
