-------------------------------- MODULE Timer --------------------------------
(***************************************************************************)
(* The timer interrupt of lab 1 and what depends on it (devices/timer.c,   *)
(* with the scheduler of threads/thread.c): sleeping threads, time slices, *)
(* and the multi-level feedback queue scheduler's accounts in fixed point. *)
(*                                                                         *)
(* A tick is one step, as interrupts are off in its handler.  What         *)
(* semaphores and queues do is left at "a thread waits for an event": here *)
(* matters that it is blocked without sleeping.                            *)
(***************************************************************************)
EXTENDS KernelLists

CONSTANTS
    AllList,        \* all_list without idle, in the order of creation
    Idle,           \* idle_thread
    Sleepers,       \* bound: the threads that call timer_sleep, without and
                    \* with -mlfqs
    Waiters,        \* bound: the threads that wait for something else than the clock
    Sleeps,         \* the arguments of timer_sleep
    Nices,          \* the arguments of thread_set_nice
    TIMER_FREQ, TIME_SLICE, PRI_MAX,
    Minute,         \* seconds, 60 in the code, over which the load is averaged
    f,              \* the fixed-point number 1
    Period          \* ticks is counted modulo this

Threads    == Range(AllList)
AllThreads == Threads \cup {Idle}

ASSUME TimerAssumption ==
    /\ AllList \in Seq(Threads) /\ NoDuplicates(AllList) /\ AllList # <<>>
    /\ Idle \notin Threads
    /\ Sleepers \in [BOOLEAN -> SUBSET Threads] /\ Waiters \subseteq Threads
    /\ Sleeps \subseteq Nat /\ Nices \subseteq Int
    /\ TIMER_FREQ \in Nat \ {0} /\ TIME_SLICE \in Nat \ {0} /\ PRI_MAX \in Nat
    /\ f \in Nat \ {0} /\ Minute \in Nat \ {0}
    /\ Period \in Nat \ {0} /\ Period % TIMER_FREQ = 0 /\ Period % 4 = 0

VARIABLES
    thread_mlfqs,   \* the kernel was started with -mlfqs
    ticks,
    current, status, ready_list,
    thread_ticks,   \* of the running thread's time slice
    waiting_time,   \* -1 stands for any negative number
    priority, nice, recent_cpu, load_avg,
    pc,             \* where a thread is
    late            \* ghost: for how many ticks a ready thread has outranked
                    \* the thread that runs

sched    == <<current, status, ready_list, thread_ticks>>
accounts == <<nice, recent_cpu, load_avg>>
vars     == <<thread_mlfqs, ticks, sched, waiting_time, priority, accounts, pc, late>>

TypeOK ==
    /\ thread_mlfqs \in BOOLEAN /\ ticks \in 0..Period - 1
    /\ current \in AllThreads
    /\ status \in [AllThreads -> {"RUNNING", "READY", "BLOCKED"}]
    /\ ready_list \in Seq(Threads) /\ NoDuplicates(ready_list)
    /\ \A t \in Threads : status[t] = "READY" <=> t \in Range(ready_list)
    /\ thread_ticks \in 0..TIME_SLICE - 1
    /\ waiting_time \in [AllThreads -> Int] /\ priority \in [AllThreads -> 0..PRI_MAX]
    /\ nice \in [AllThreads -> Nices \cup {0}] /\ recent_cpu \in [AllThreads -> Int]
    /\ load_avg \in Nat
    /\ pc \in [AllThreads -> {"run", "set", "asleep", "wait", "hlt"}]
    /\ late \in [Threads -> Nat]

\* All threads have been created; the first is about to sleep or to wait, the
\* others are ready.
Init ==
    /\ thread_mlfqs \in BOOLEAN
    /\ ticks = 0 /\ thread_ticks = 0
    /\ current = Head(AllList)
    /\ \E p \in [Threads -> {PRI_MAX, PRI_MAX \div 2}] :
          /\ \A t \in Threads : p[t] <= p[current] /\ (thread_mlfqs => p[t] = PRI_MAX)
          /\ priority = [t \in AllThreads |-> IF t = Idle THEN 0 ELSE p[t]]
    /\ status = [t \in AllThreads |-> IF t = current THEN "RUNNING"
                                      ELSE IF t = Idle THEN "BLOCKED" ELSE "READY"]
    /\ ready_list = list_sort(Tail(AllList), priority)
    /\ waiting_time = [t \in AllThreads |-> 0]
    /\ nice = [t \in AllThreads |-> 0] /\ recent_cpu = [t \in AllThreads |-> 0]
    /\ load_avg = 0
    /\ pc = [t \in AllThreads |-> IF t = Idle THEN "hlt" ELSE "run"]
    /\ late = [t \in Threads |-> 0]

-----------------------------------------------------------------------------
(* Fixed point.                                                            *)

\* C's division, which rounds toward zero.
Quotient(a, b) == IF a >= 0 THEN a \div b ELSE -((-a) \div b)

RoundToZero(x) == Quotient(x, f)
RoundToNearest(x) == Quotient(IF x <= 0 THEN x - f \div 2 ELSE x + f \div 2, f)
MultiplyFixed(x, y) == Quotient(x * y, f)
DivideFixed(x, y) == Quotient(x * f, y)

check_priority(pri) == IF pri < 0 THEN 0 ELSE IF pri > PRI_MAX THEN PRI_MAX ELSE pri

\* PRI_MAX - recent_cpu / 4 - nice * 2
FixedPriority(cpu, n) == PRI_MAX * f - Quotient(cpu, 4) - n * 2 * f

LoadAverage(ready) == Quotient(load_avg * (Minute - 1), Minute) + Quotient(ready * f, Minute)

Decayed(cpu, n, load) == MultiplyFixed(DivideFixed(load * 2, load * 2 + f), cpu) + n * f

-----------------------------------------------------------------------------
(* The scheduler.                                                          *)

\* schedule (), and who is outranked now.
Schedule(st, queue) ==
    LET next == IF queue = <<>> THEN Idle ELSE Head(queue)
    IN  /\ current' = next
        /\ status' = [st EXCEPT ![next] = "RUNNING"]
        /\ ready_list' = IF queue = <<>> THEN <<>> ELSE Tail(queue)
        /\ thread_ticks' = 0

\* Mutant: a thread that yields stays in front of the ready list.
ThreadYield_Front(st, queue, pri) ==
    Schedule([st EXCEPT ![current] = "READY"],
             IF current = Idle THEN queue ELSE <<current>> \o queue)

ThreadYield(st, queue, pri) ==
    Schedule([st EXCEPT ![current] = "READY"],
             IF current = Idle THEN queue ELSE list_insert_ordered(queue, current, pri))

\* Without -mlfqs, where the ready list is sorted.
Outranked(t) ==
    /\ ~thread_mlfqs
    /\ status'[t] = "READY"
    /\ current' = Idle \/ priority'[t] > priority'[current']

\* Counts a tick, or forgets the threads that do not outrank the running one.
Late(more) ==
    late' = [t \in Threads |-> IF Outranked(t) THEN late[t] + more ELSE 0]

Runs(t) == current = t /\ pc[t] = "run" /\ t \in Threads

\* timer_sleep up to the assignment; 0 returns at once.
TimerSleep(t) ==
    /\ t \in Sleepers[thread_mlfqs] /\ Runs(t)
    /\ \E n \in Sleeps \ {0} : waiting_time' = [waiting_time EXCEPT ![t] = n]
    /\ pc' = [pc EXCEPT ![t] = "set"]
    /\ UNCHANGED <<thread_mlfqs, ticks, sched, priority, accounts, late>>

Blocks(t, place) ==
    /\ pc' = [pc EXCEPT ![t] = place]
    /\ Schedule([status EXCEPT ![t] = "BLOCKED"], ready_list)
    /\ UNCHANGED <<thread_mlfqs, ticks, waiting_time, priority, accounts>>
    /\ Late(0)

\* The rest of timer_sleep.
FallsAsleep(t) == current = t /\ pc[t] = "set" /\ Blocks(t, "asleep")

Waits(t) == t \in Waiters /\ Runs(t) /\ Blocks(t, "wait")

\* The loop of the idle thread after its hlt.
IdleBlocks == current = Idle /\ pc[Idle] = "run" /\ Blocks(Idle, "hlt")

Waiting == {u \in Threads : status[u] = "BLOCKED" /\ pc[u] = "wait"}

Unblocked(u) == [status EXCEPT ![u] = "READY"]
Queued(u) == list_insert_ordered(ready_list, u, priority)

\* The running thread ends the wait of another: sema_up, with its yield.
Signals(t) ==
    /\ Runs(t)
    /\ \E u \in Waiting :
          /\ pc' = [pc EXCEPT ![u] = "run"]
          /\ ThreadYield(Unblocked(u), Queued(u), priority)
    /\ UNCHANGED <<thread_mlfqs, ticks, waiting_time, priority, accounts>>
    /\ Late(0)

\* A device interrupt does: intq.c's signal, which does not yield.
Interrupt ==
    /\ \E u \in Waiting :
          /\ pc' = [pc EXCEPT ![u] = "run", ![Idle] = IF current = Idle THEN "run" ELSE @]
          /\ status' = Unblocked(u)
          /\ ready_list' = Queued(u)
    /\ UNCHANGED <<thread_mlfqs, ticks, current, thread_ticks, waiting_time, priority, accounts>>
    /\ Late(0)

\* thread_set_nice
SetNice(t) ==
    /\ Runs(t)
    /\ \E n \in Nices :
          LET pri == [priority EXCEPT ![t] =
                         check_priority(RoundToNearest(FixedPriority(recent_cpu[t], n)))]
          IN  /\ nice' = [nice EXCEPT ![t] = n]
              /\ priority' = pri
              /\ ThreadYield(status, ready_list, pri)
    /\ UNCHANGED <<thread_mlfqs, ticks, waiting_time, recent_cpu, load_avg, pc>>
    /\ Late(0)

-----------------------------------------------------------------------------
(* timer_interrupt.                                                        *)

\* Mutant: the waiting time of every thread runs.
Counts_Every(t) == TRUE

Counts(t) == status[t] = "BLOCKED"

Woken(t) == Counts(t) /\ waiting_time[t] = 1

\* thread_foreach (time_minus)
TimeMinus(t) == IF ~Counts(t) \/ waiting_time[t] = -1 THEN waiting_time[t]
                ELSE waiting_time[t] - 1

WakesUp == [t \in AllThreads |-> IF Woken(t) THEN "READY" ELSE status[t]]

\* Mutant: woken threads go to the end of the ready list.
QueueAfterWakeUp_AtBack == ready_list \o SelectSeq(AllList, Woken)

\* The ready list once thread_foreach has come to the n-th thread.
QueueUpTo[n \in 0..Len(AllList)] ==
    IF n = 0 THEN ready_list
    ELSE IF Woken(AllList[n])
         THEN list_insert_ordered(QueueUpTo[n - 1], AllList[n], priority)
         ELSE QueueUpTo[n - 1]

QueueAfterWakeUp == QueueUpTo[Len(AllList)]

ZeroPriority(cpu, n) == check_priority(RoundToZero(FixedPriority(cpu, n)))

Charged == IF current = Idle THEN recent_cpu
           ELSE [recent_cpu EXCEPT ![current] = @ + f]

CpuAfterSecond(load) ==
    [t \in AllThreads |-> IF t = Idle THEN recent_cpu[t]
                          ELSE Decayed(Charged[t], nice[t], load)]

\* Every second: the load average, and the accounts of all threads.
SecondPasses(queue) ==
    LET ready == Len(queue) + IF current = Idle THEN 0 ELSE 1
    IN  /\ load_avg' = LoadAverage(ready)
        /\ recent_cpu' = CpuAfterSecond(load_avg')
        /\ priority' = [t \in AllThreads |-> IF t = Idle THEN priority[t]
                                             ELSE ZeroPriority(recent_cpu'[t], nice[t])]

\* Every fourth tick: the priority of the thread that runs.
FourthTick ==
    /\ recent_cpu' = Charged
    /\ priority' = IF current = Idle THEN priority
                   ELSE [priority EXCEPT ![current] = ZeroPriority(Charged[current], nice[current])]
    /\ UNCHANGED load_avg

Accounts(now, queue) ==
    /\ IF ~thread_mlfqs THEN UNCHANGED <<recent_cpu, load_avg, priority>>
       ELSE IF now % TIMER_FREQ = 0 THEN SecondPasses(queue)
       ELSE IF now % 4 = 0 THEN FourthTick
       ELSE recent_cpu' = Charged /\ UNCHANGED <<load_avg, priority>>
    /\ UNCHANGED nice

\* Mutant: the slice has no end.
SliceOver_Never == FALSE

SliceOver == thread_ticks + 1 >= TIME_SLICE

Tick ==
    /\ ticks' = (ticks + 1) % Period
    /\ waiting_time' = [t \in AllThreads |-> TimeMinus(t)]
    /\ pc' = [t \in AllThreads |->
                 IF Woken(t) \/ (t = Idle /\ current = Idle) THEN "run" ELSE pc[t]]
    /\ Accounts(ticks + 1, QueueAfterWakeUp)
    /\ IF SliceOver THEN ThreadYield(WakesUp, QueueAfterWakeUp, priority')
       ELSE /\ status' = WakesUp /\ ready_list' = QueueAfterWakeUp
            /\ thread_ticks' = thread_ticks + 1
            /\ UNCHANGED current
    /\ Late(1)
    /\ UNCHANGED thread_mlfqs

-----------------------------------------------------------------------------
Steps(t) == TimerSleep(t) \/ FallsAsleep(t) \/ Waits(t) \/ Signals(t) \/ SetNice(t)

Next == (\E t \in Threads : Steps(t)) \/ IdleBlocks \/ Interrupt \/ Tick

Spec == Init /\ [][Next]_vars

\* The 8254 never stops; Tick is always enabled, so this is WF_vars(Tick).
FairSpec == Spec /\ []<><<Tick>>_vars

-----------------------------------------------------------------------------
\* A ready thread that outranks the running one runs before the time slice is
\* over, though the tick that woke it does not yield (timer.c:273, 373,
\* thread.c:154 and 600).  Under -mlfqs priorities change in the ready list,
\* which is not sorted again.
OutrankedBriefly == ~thread_mlfqs => \A t \in Threads : late[t] < TIME_SLICE

\* Sleepers sleep the ticks they asked for, and only sleepers are woken by the
\* clock: the counter that threads waiting for something else also have never
\* rings (timer.c:362-374).
Alarm == INSTANCE AlarmClock WITH
    alarm <- [t \in Threads |->
                 IF pc[t] = "set" THEN <<"asked", waiting_time[t]>>
                 ELSE IF pc[t] = "asleep" THEN <<"asleep", waiting_time[t]>>
                 ELSE IF pc[t] = "wait" THEN <<"away", 0>>
                 ELSE <<"awake", 0>>]

AlarmImplemented == Alarm!Spec

\* Among threads of equal nice, whoever is ready under -mlfqs runs in the end:
\* the accounts of the threads that run grow until it outranks them
\* (timer.c:226-256).
NoStarvation ==
    \A t \in Threads : (thread_mlfqs /\ status[t] = "READY") ~> current = t
=============================================================================
