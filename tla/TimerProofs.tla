---------------------------- MODULE TimerProofs ----------------------------
(***************************************************************************)
(* Sleepers sleep the ticks they asked for, and without -mlfqs a ready     *)
(* thread outranks the running one for less than a time slice, for any     *)
(* threads, priorities, frequencies and fixed-point numbers.               *)
(***************************************************************************)
EXTENDS Timer, KernelListsProofs

Statuses == {"RUNNING", "READY", "BLOCKED"}

\* The ready list has exactly the threads that are READY in st.
ReadyIs(st, queue) ==
    /\ queue \in Seq(Threads) /\ NoDuplicates(queue)
    /\ \A t \in Threads : st[t] = "READY" <=> t \in ToSet(queue)

TypeSched ==
    /\ current \in AllThreads /\ status \in [AllThreads -> Statuses]
    /\ ReadyIs(status, ready_list) /\ thread_ticks \in 0..TIME_SLICE - 1

TypeAccounts ==
    /\ thread_mlfqs \in BOOLEAN /\ ticks \in 0..Period - 1
    /\ priority \in [AllThreads -> 0..PRI_MAX]
    /\ nice \in [AllThreads -> Nices \cup {0}] /\ recent_cpu \in [AllThreads -> Int]
    /\ load_avg \in Nat

TypePlaces ==
    /\ waiting_time \in [AllThreads -> Int]
    /\ pc \in [AllThreads -> {"run", "set", "asleep", "wait", "hlt"}]
    /\ late \in [Threads -> Nat]

\* TypeOK in three parts: who runs, the accounts, and where threads are.
LEMMA TypeParts == TypeOK <=> TypeSched /\ TypeAccounts /\ TypePlaces
BY DEF TypeOK, TypeSched, TypeAccounts, TypePlaces, ReadyIs, Statuses, Range, ToSet

\* One thread runs.
Running == \A t \in AllThreads : status[t] = "RUNNING" <=> t = current

\* What a thread does agrees with its status and with its counter, which rings
\* only when it asked for it.
Doing ==
    /\ \A t \in Threads :
          /\ pc[t] # "hlt"
          /\ pc[t] = "set" => waiting_time[t] \in Sleeps \ {0}
          /\ pc[t] \in {"asleep", "wait"} <=> status[t] = "BLOCKED"
          /\ pc[t] = "asleep" => waiting_time[t] \in Nat \ {0}
          /\ pc[t] \in {"run", "wait"} => waiting_time[t] \in {0, -1}
    /\ waiting_time[Idle] \in {0, -1}

\* Without -mlfqs the ready list is in order, so that nobody outranks the
\* running thread for longer than its slice has lasted.
Prompt == ~thread_mlfqs => /\ IsSortedBy(ready_list, priority)
                           /\ \A t \in Threads : late[t] <= thread_ticks

Inv == TypeOK /\ Running /\ Doing /\ Prompt

\* The constants.
LEMMA Constants ==
    /\ Len(AllList) \in Nat \ {0} /\ AllList \in Seq(Threads) /\ Idle \notin Threads
    /\ \A n \in 1..Len(AllList) : AllList[n] \in Threads
    /\ \A t \in Threads : \E n \in 1..Len(AllList) : AllList[n] = t
    /\ Idle \in AllThreads /\ Threads \subseteq AllThreads
    /\ TIME_SLICE \in Nat \ {0} /\ PRI_MAX \in Nat /\ f \in Nat \ {0} /\ Minute \in Nat \ {0}
    /\ Period \in Nat \ {0}
    /\ \A pri \in [AllThreads -> 0..PRI_MAX] : \A t \in AllThreads : pri[t] \in Int
<1>1. /\ AllList \in Seq(Threads) /\ AllList # <<>>
  BY TimerAssumption
<1>2. Len(AllList) \in Nat \ {0} /\ \A n \in 1..Len(AllList) : AllList[n] \in Threads
  BY <1>1, EmptySeq, ElementOfSeq
<1>3. ASSUME NEW t \in Threads PROVE \E n \in 1..Len(AllList) : AllList[n] = t
  BY <1>1, LenProperties DEF Threads, Range
<1>4. ASSUME NEW pri \in [AllThreads -> 0..PRI_MAX], NEW t \in AllThreads PROVE pri[t] \in Int
  BY TimerAssumption
<1> QED BY <1>1, <1>2, <1>3, <1>4, TimerAssumption DEF AllThreads

-----------------------------------------------------------------------------
(* thread_foreach (time_minus).                                            *)

QueueStep(g, n) ==
    IF n = 0 THEN ready_list
    ELSE IF Woken(AllList[n]) THEN list_insert_ordered(g[n - 1], AllList[n], priority)
    ELSE g[n - 1]

\* thread_foreach comes to the threads one after the other: what the recursion
\* says is true of QueueUpTo.
LEMMA QueueUpToSteps == \A n \in 0..Len(AllList) : QueueUpTo[n] = QueueStep(QueueUpTo, n)
<1>0. Len(AllList) \in Nat
  BY Constants
<1> DEFINE Defined(m) == \E g : g = [n \in 0..m |-> QueueStep(g, n)]
           T == {m \in 0..Len(AllList) : ~Defined(m)}
<1>1. CASE T = {}
  <2>1. Defined(Len(AllList))
    BY <1>0, <1>1
  <2>2. QueueUpTo = CHOOSE g : g = [n \in 0..Len(AllList) |-> QueueStep(g, n)]
    BY DEF QueueUpTo, QueueStep
  <2>3. QueueUpTo = [n \in 0..Len(AllList) |-> QueueStep(QueueUpTo, n)]
    BY <2>1, <2>2
  <2> QED BY <2>3
<1>2. CASE T # {}
  <2>1. T \in SUBSET Nat
    BY <1>0
  <2> HIDE DEF T
  <2>2. PICK m \in T : \A j \in T : m <= j
    BY <1>2, <2>1, LeastElement
  <2>3. m \in 0..Len(AllList) /\ ~Defined(m)
    BY DEF T
  <2>4. CASE m = 0
    <3> DEFINE g == [n \in 0..0 |-> ready_list]
    <3>1. g = [n \in 0..0 |-> QueueStep(g, n)]
      BY DEF QueueStep
    <3> QED BY <2>3, <2>4, <3>1
  <2>5. CASE m # 0
    <3>1. m - 1 \in 0..Len(AllList) /\ m - 1 \notin T
      BY <1>0, <2>1, <2>2, <2>3, <2>5
    <3>2. PICK g : g = [n \in 0..m - 1 |-> QueueStep(g, n)]
      BY <3>1 DEF T
    <3> DEFINE h == [n \in 0..m |-> IF n = m THEN QueueStep(g, m) ELSE g[n]]
    <3>3. ASSUME NEW n \in 0..m PROVE h[n] = QueueStep(h, n)
      <4>1. n = 0 \/ h[n - 1] = g[n - 1]
        BY <1>0, <2>3
      <4>2. QueueStep(h, n) = QueueStep(g, n)
        BY <4>1 DEF QueueStep
      <4>3. n # m => n \in 0..m - 1
        BY <1>0, <2>3
      <4>4. h[n] = QueueStep(g, n)
        BY <3>2, <4>3
      <4> QED BY <4>2, <4>4
    <3>4. h = [n \in 0..m |-> QueueStep(h, n)]
      BY <3>3
    <3> QED BY <2>3, <3>4
  <2> QED BY <2>4, <2>5
<1> QED BY <1>1, <1>2

\* The woken threads join the ready list, each at its place.
LEMMA QueueWoken ==
    ASSUME TypeOK, \A t \in Threads : Woken(t) => status[t] = "BLOCKED"
    PROVE  /\ ReadyIs(WakesUp, QueueAfterWakeUp)
           /\ IsSortedBy(ready_list, priority) => IsSortedBy(QueueAfterWakeUp, priority)
<1> DEFINE WokenUpTo(n) == {t \in Threads : Woken(t) /\ \E k \in 1..n : AllList[k] = t}
           Good(n) == /\ QueueUpTo[n] \in Seq(Threads) /\ NoDuplicates(QueueUpTo[n])
                      /\ ToSet(QueueUpTo[n]) = ToSet(ready_list) \cup WokenUpTo(n)
                      /\ IsSortedBy(ready_list, priority) => IsSortedBy(QueueUpTo[n], priority)
           N == Len(AllList)
           T == {n \in 0..N : ~Good(n)}
<1>0. /\ N \in Nat /\ ready_list \in Seq(Threads) /\ NoDuplicates(ready_list)
      /\ \A t \in Threads : status[t] = "READY" <=> t \in ToSet(ready_list)
      /\ \A t \in Threads : priority[t] \in Int
  BY Constants DEF TypeOK, Range, ToSet
<1>1. Good(0)
  <2>1. QueueUpTo[0] = ready_list
    BY <1>0, QueueUpToSteps DEF QueueStep
  <2>2. WokenUpTo(0) = {}
    OBVIOUS
  <2> QED BY <1>0, <2>1, <2>2
<1>2. ASSUME NEW n \in 1..N, Good(n - 1) PROVE Good(n)
  <2> DEFINE before == QueueUpTo[n - 1]
  <2>1. n \in 0..N /\ n # 0 /\ AllList[n] \in Threads
    BY <1>0, Constants
  <2>2. /\ before \in Seq(Threads) /\ NoDuplicates(before)
        /\ ToSet(before) = ToSet(ready_list) \cup WokenUpTo(n - 1)
        /\ IsSortedBy(ready_list, priority) => IsSortedBy(before, priority)
    BY <1>2
  <2>3. QueueUpTo[n] = IF Woken(AllList[n])
                       THEN list_insert_ordered(before, AllList[n], priority) ELSE before
    BY <2>1, QueueUpToSteps DEF QueueStep
  <2>4. WokenUpTo(n) = WokenUpTo(n - 1) \cup {t \in {AllList[n]} : Woken(t)}
    BY <1>0, <2>1
  <2>5. AllList[n] \notin WokenUpTo(n - 1)
    <3>1. \A k \in 1..n - 1 : AllList[k] # AllList[n]
      BY <1>0, TimerAssumption DEF NoDuplicates
    <3> QED BY <3>1
  <2>6. CASE ~Woken(AllList[n])
    BY <2>2, <2>3, <2>4, <2>6
  <2>7. CASE Woken(AllList[n])
    <3>1. AllList[n] \notin ToSet(before)
      BY <1>0, <2>1, <2>2, <2>5, <2>7
    <3>2. QueueUpTo[n] = list_insert_ordered(before, AllList[n], priority)
      BY <2>3, <2>7
    <3> HIDE DEF before, WokenUpTo
    <3>3. /\ QueueUpTo[n] \in Seq(Threads) /\ NoDuplicates(QueueUpTo[n])
          /\ ToSet(QueueUpTo[n]) = ToSet(before) \cup {AllList[n]}
      BY <1>0, <2>1, <2>2, <3>1, <3>2, InsertOrderedElements
    <3>4. IsSortedBy(ready_list, priority) => IsSortedBy(QueueUpTo[n], priority)
      BY <1>0, <2>1, <2>2, <3>2, InsertOrderedSorted
    <3>5. ToSet(QueueUpTo[n]) = ToSet(ready_list) \cup WokenUpTo(n)
      BY <2>2, <2>4, <2>7, <3>3
    <3> QED BY <3>3, <3>4, <3>5
  <2> QED BY <2>6, <2>7
<1>3. T = {}
  <2> SUFFICES ASSUME T # {} PROVE FALSE
    OBVIOUS
  <2>1. T \in SUBSET Nat
    BY <1>0
  <2> HIDE DEF Good
  <2>2. PICK m \in T : \A j \in T : m <= j
    BY <2>1, LeastElement
  <2>3. m \in 1..N /\ m - 1 \in 0..N /\ m - 1 \notin T
    BY <1>0, <1>1, <2>1, <2>2
  <2>4. Good(m - 1) /\ ~Good(m)
    BY <2>2, <2>3
  <2> QED BY <1>2, <2>3, <2>4
<1>4. Good(N)
  BY <1>0, <1>3
<1>5. WokenUpTo(N) = {t \in Threads : Woken(t)}
  BY Constants
<1>6. \A t \in Threads : WakesUp[t] = "READY" <=> t \in ToSet(QueueAfterWakeUp)
  BY <1>0, <1>4, <1>5, Constants DEF WakesUp, QueueAfterWakeUp
<1> QED BY <1>4, <1>6 DEF ReadyIs, QueueAfterWakeUp

-----------------------------------------------------------------------------
(* The scheduler.                                                          *)

\* What schedule () leaves, from a status st in which nobody runs.
Scheduled(st) ==
    /\ TypeSched' /\ Running' /\ thread_ticks' = 0
    /\ \A t \in Threads : status'[t] = "BLOCKED" <=> st[t] = "BLOCKED"

\* By key nobody in the ready list outranks the thread that runs.
InOrder(key) ==
    /\ IsSortedBy(ready_list', key)
    /\ \A t \in Threads : status'[t] = "READY" => current' # Idle /\ key[current'] >= key[t]

\* schedule () takes the first ready thread, which is a greatest one if the
\* list is in order.
LEMMA ScheduleTakesFirst ==
    ASSUME NEW st \in [AllThreads -> Statuses], NEW queue, ReadyIs(st, queue),
           \A t \in AllThreads : st[t] # "RUNNING", Schedule(st, queue)
    PROVE  /\ Scheduled(st)
           /\ \A key \in [AllThreads -> 0..PRI_MAX] : IsSortedBy(queue, key) => InOrder(key)
<1>0. /\ queue \in Seq(Threads) /\ NoDuplicates(queue)
      /\ \A t \in Threads : st[t] = "READY" <=> t \in ToSet(queue)
  BY DEF ReadyIs
<1>1. thread_ticks' = 0 /\ 0 \in 0..TIME_SLICE - 1
  BY Constants DEF Schedule
<1>2. CASE queue = <<>>
  <2>1. current' = Idle /\ status' = [st EXCEPT ![Idle] = "RUNNING"] /\ ready_list' = <<>>
    BY <1>2 DEF Schedule
  <2>2. ToSet(queue) = {}
    BY <1>2 DEF ToSet
  <2>3. \A t \in Threads : status'[t] = st[t] /\ st[t] # "READY"
    BY <1>0, <2>1, <2>2, Constants
  <2>4. current' \in AllThreads /\ status' \in [AllThreads -> Statuses]
    BY <2>1, Constants DEF Statuses
  <2>5. ReadyIs(status', ready_list')
    BY <1>0, <1>2, <2>1, <2>2, <2>3 DEF ReadyIs
  <2>6. Running'
    BY <2>1, <2>4, Constants DEF Running
  <2>7. \A key : IsSortedBy(ready_list', key)
    BY <2>1 DEF IsSortedBy
  <2> QED BY <1>1, <2>3, <2>4, <2>5, <2>6, <2>7 DEF Scheduled, TypeSched, InOrder, ReadyIs
<1>3. CASE queue # <<>>
  <2> DEFINE next == Head(queue)
  <2>1. /\ current' = next /\ status' = [st EXCEPT ![next] = "RUNNING"]
        /\ ready_list' = Tail(queue)
    BY <1>3 DEF Schedule
  <2>2. /\ next \in Threads /\ Tail(queue) \in Seq(Threads) /\ NoDuplicates(Tail(queue))
        /\ ToSet(Tail(queue)) = ToSet(queue) \ {next} /\ next \in ToSet(queue)
    BY <1>0, <1>3, PopFrontElements
  <2> HIDE DEF next
  <2>3. /\ \A t \in Threads : status'[t] = IF t = next THEN "RUNNING" ELSE st[t]
        /\ st[next] = "READY" /\ next # Idle
    BY <1>0, <2>1, <2>2, Constants
  <2>4. current' \in AllThreads /\ status' \in [AllThreads -> Statuses]
    BY <2>1, <2>2, Constants DEF Statuses
  <2>5. ReadyIs(status', ready_list')
    BY <1>0, <2>1, <2>2, <2>3 DEF ReadyIs
  <2>6. Running'
    BY <2>1, <2>2, <2>4, Constants DEF Running
  <2>7. ASSUME NEW key \in [AllThreads -> 0..PRI_MAX], IsSortedBy(queue, key) PROVE InOrder(key)
    <3>1. \A t \in Threads : key[t] \in Int
      BY Constants
    <3>2. /\ \A t \in ToSet(queue) : key[next] >= key[t]
          /\ IsSortedBy(Tail(queue), key)
      BY <1>0, <1>3, <2>7, <3>1, PopFrontSorted DEF next
    <3> QED BY <1>0, <2>1, <2>3, <3>2 DEF InOrder
  <2> QED BY <1>1, <2>3, <2>4, <2>5, <2>6, <2>7 DEF Scheduled, TypeSched, ReadyIs
<1> QED BY <1>2, <1>3

\* thread_yield: the running thread joins the ready list first, unless it is
\* the idle thread.
LEMMA YieldTakesFirst ==
    ASSUME NEW st \in [AllThreads -> Statuses], NEW queue, ReadyIs(st, queue),
           current \in AllThreads, \A t \in AllThreads : st[t] = "RUNNING" <=> t = current,
           NEW pri \in [AllThreads -> 0..PRI_MAX], ThreadYield(st, queue, pri)
    PROVE  /\ Scheduled(st)
           /\ IsSortedBy(queue, pri) => InOrder(pri)
<1> DEFINE after == [st EXCEPT ![current] = "READY"]
           joined == IF current = Idle THEN queue ELSE list_insert_ordered(queue, current, pri)
<1>0. /\ queue \in Seq(Threads) /\ NoDuplicates(queue)
      /\ \A t \in Threads : st[t] = "READY" <=> t \in ToSet(queue)
      /\ \A t \in Threads : pri[t] \in Int
  BY Constants DEF ReadyIs
<1>1. /\ after \in [AllThreads -> Statuses] /\ \A t \in AllThreads : after[t] # "RUNNING"
      /\ \A t \in AllThreads : after[t] = IF t = current THEN "READY" ELSE st[t]
  BY DEF Statuses
<1>2. ReadyIs(after, joined) /\ (IsSortedBy(queue, pri) => IsSortedBy(joined, pri))
  <2>1. CASE current = Idle
    <3>1. joined = queue /\ \A t \in Threads : after[t] = st[t]
      BY <1>1, <2>1, Constants
    <3> HIDE DEF joined, after
    <3> QED BY <1>0, <3>1 DEF ReadyIs
  <2>2. CASE current # Idle
    <3>1. current \in Threads /\ current \notin ToSet(queue)
      BY <1>0, <2>2 DEF AllThreads
    <3>2. joined = list_insert_ordered(queue, current, pri)
      BY <2>2
    <3>3. /\ joined \in Seq(Threads) /\ NoDuplicates(joined)
          /\ ToSet(joined) = ToSet(queue) \cup {current}
      BY <1>0, <3>1, <3>2, InsertOrderedElements
    <3>4. IsSortedBy(queue, pri) => IsSortedBy(joined, pri)
      BY <1>0, <3>1, <3>2, InsertOrderedSorted
    <3> HIDE DEF joined, after
    <3>5. \A t \in Threads : after[t] = "READY" <=> t \in ToSet(joined)
      BY <1>0, <1>1, <3>1, <3>3, Constants
    <3> QED BY <3>3, <3>4, <3>5 DEF ReadyIs
  <2> QED BY <2>1, <2>2
<1>3. Schedule(after, joined)
  BY DEF ThreadYield
<1> HIDE DEF after, joined
<1>4. Scheduled(after) /\ (IsSortedBy(queue, pri) => InOrder(pri))
  BY <1>1, <1>2, <1>3, ScheduleTakesFirst
<1>5. \A t \in Threads : after[t] = "BLOCKED" <=> st[t] = "BLOCKED"
  BY <1>1, Constants
<1> QED BY <1>4, <1>5 DEF Scheduled

\* Once nobody outranks the running thread, the ticks of everybody are
\* forgotten.
LEMMA PromptAfterSchedule ==
    ASSUME TypeOK, NEW more \in Nat, Late(more), UNCHANGED thread_mlfqs,
           ~thread_mlfqs => InOrder(priority'), TypeSched', thread_ticks' = 0,
           priority' \in [AllThreads -> 0..PRI_MAX]
    PROVE  Prompt' /\ late' \in [Threads -> Nat]
<1>1. /\ late \in [Threads -> Nat] /\ current' \in AllThreads
      /\ \A t \in AllThreads : priority'[t] \in Int
  BY Constants DEF TypeOK, TypeSched
<1>2. late' \in [Threads -> Nat]
  BY <1>1 DEF Late
<1>3. ASSUME ~thread_mlfqs, NEW t \in Threads PROVE late'[t] <= thread_ticks'
  <2>1. InOrder(priority')
    BY <1>3
  <2>2. /\ status'[t] = "READY" => current' # Idle /\ priority'[current'] >= priority'[t]
        /\ priority'[t] \in Int /\ priority'[current'] \in Int
    BY <1>1, <2>1, Constants DEF InOrder
  <2>3. ~Outranked(t)
    BY <2>2 DEF Outranked
  <2> QED BY <1>1, <2>3 DEF Late, TypeOK
<1> QED BY <1>2, <1>3 DEF Prompt, InOrder

\* thread_unblock of a thread that waits for something else than the clock.
LEMMA UnblockQueues ==
    ASSUME TypeOK, Running, NEW u \in Waiting
    PROVE  /\ u \in Threads /\ status[u] = "BLOCKED" /\ pc[u] = "wait"
           /\ Unblocked(u) \in [AllThreads -> Statuses]
           /\ \A t \in AllThreads : Unblocked(u)[t] = IF t = u THEN "READY" ELSE status[t]
           /\ \A t \in AllThreads : Unblocked(u)[t] = "RUNNING" <=> t = current
           /\ ReadyIs(Unblocked(u), Queued(u))
           /\ IsSortedBy(ready_list, priority) => IsSortedBy(Queued(u), priority)
<1>1. /\ u \in Threads /\ status[u] = "BLOCKED" /\ pc[u] = "wait"
      /\ TypeSched /\ priority \in [AllThreads -> 0..PRI_MAX]
  BY TypeParts DEF Waiting, TypeAccounts
<1>2. /\ Unblocked(u) \in [AllThreads -> Statuses]
      /\ \A t \in AllThreads : Unblocked(u)[t] = IF t = u THEN "READY" ELSE status[t]
  BY <1>1, Constants DEF Unblocked, TypeSched, Statuses
<1>3. \A t \in AllThreads : Unblocked(u)[t] = "RUNNING" <=> t = current
  BY <1>1, <1>2, Constants DEF Running
<1>4. /\ ready_list \in Seq(Threads) /\ NoDuplicates(ready_list) /\ u \notin ToSet(ready_list)
      /\ \A t \in Threads : priority[t] \in Int
  BY <1>1, Constants DEF TypeSched, ReadyIs
<1>5. /\ Queued(u) \in Seq(Threads) /\ NoDuplicates(Queued(u))
      /\ ToSet(Queued(u)) = ToSet(ready_list) \cup {u}
  BY <1>1, <1>4, InsertOrderedElements DEF Queued
<1>6. IsSortedBy(ready_list, priority) => IsSortedBy(Queued(u), priority)
  BY <1>1, <1>4, InsertOrderedSorted DEF Queued
<1>7. ReadyIs(Unblocked(u), Queued(u))
  BY <1>1, <1>2, <1>5, Constants DEF TypeSched, ReadyIs
<1> QED BY <1>1, <1>2, <1>3, <1>6, <1>7

-----------------------------------------------------------------------------
(* The accounts.                                                           *)

\* Priorities are clipped, and the load is never negative.
LEMMA FixedPoint ==
    /\ \A pri \in Int : check_priority(pri) \in 0..PRI_MAX
    /\ \A x \in Int : RoundToZero(x) \in Int /\ RoundToNearest(x) \in Int
    /\ \A cpu, n \in Int : FixedPriority(cpu, n) \in Int
    /\ load_avg \in Nat => \A ready \in Nat : LoadAverage(ready) \in Nat
    /\ \A cpu, n \in Int, load \in Nat : Decayed(cpu, n, load) \in Int
<1>0. f \in Nat \ {0} /\ Minute \in Nat \ {0} /\ PRI_MAX \in Nat
  BY Constants
<1>1. \A a \in Int, b \in Nat \ {0} : Quotient(a, b) \in Int /\ (a >= 0 => Quotient(a, b) \in Nat)
  BY DEF Quotient
<1>2. \A pri \in Int : check_priority(pri) \in 0..PRI_MAX
  BY <1>0 DEF check_priority
<1>3. ASSUME NEW x \in Int PROVE RoundToZero(x) \in Int /\ RoundToNearest(x) \in Int
  <2>1. f \div 2 \in Int
    BY <1>0
  <2>2. (IF x <= 0 THEN x - f \div 2 ELSE x + f \div 2) \in Int
    BY <2>1
  <2> QED BY <1>0, <1>1, <2>2 DEF RoundToZero, RoundToNearest
<1>4. ASSUME NEW cpu \in Int, NEW n \in Int PROVE FixedPriority(cpu, n) \in Int
  <2>1. Quotient(cpu, 4) \in Int /\ PRI_MAX * f \in Int /\ n * 2 * f \in Int
    BY <1>0, <1>1
  <2> QED BY <2>1 DEF FixedPriority
<1>5. ASSUME load_avg \in Nat, NEW ready \in Nat PROVE LoadAverage(ready) \in Nat
  <2>1. load_avg * (Minute - 1) \in Nat /\ ready * f \in Nat
    BY <1>0, <1>5
  <2>2. \A a \in Nat : Quotient(a, Minute) \in Nat
    BY <1>0, <1>1
  <2>3. Quotient(load_avg * (Minute - 1), Minute) \in Nat /\ Quotient(ready * f, Minute) \in Nat
    BY <2>1, <2>2
  <2> QED BY <2>3 DEF LoadAverage
<1>6. ASSUME NEW cpu \in Int, NEW n \in Int, NEW load \in Nat PROVE Decayed(cpu, n, load) \in Int
  <2>1. load * 2 + f \in Nat \ {0} /\ load * 2 * f \in Int /\ n * f \in Int
    BY <1>0
  <2>2. DivideFixed(load * 2, load * 2 + f) \in Int
    BY <1>1, <2>1 DEF DivideFixed
  <2>3. \A x \in Int : MultiplyFixed(x, cpu) \in Int
    <3>1. \A x \in Int : x * cpu \in Int
      OBVIOUS
    <3> QED BY <1>0, <1>1, <3>1 DEF MultiplyFixed
  <2>4. MultiplyFixed(DivideFixed(load * 2, load * 2 + f), cpu) \in Int
    BY <2>2, <2>3
  <2> QED BY <2>1, <2>4 DEF Decayed
<1> QED BY <1>2, <1>3, <1>4, <1>5, <1>6

\* What timer_interrupt does to the accounts keeps their types, and without
\* -mlfqs it leaves the priorities alone.
LEMMA AccountsTypes ==
    ASSUME TypeOK, NEW now, NEW queue \in Seq(Threads), Accounts(now, queue),
           UNCHANGED thread_mlfqs, ticks' \in 0..Period - 1
    PROVE  TypeAccounts' /\ (~thread_mlfqs => priority' = priority)
<1>0. /\ TypeAccounts /\ current \in AllThreads /\ f \in Int
      /\ \A t \in AllThreads : nice[t] \in Int /\ recent_cpu[t] \in Int
  <2>1. TypeAccounts /\ current \in AllThreads /\ f \in Int
    BY TypeParts, TimerAssumption DEF TypeSched
  <2>2. ASSUME NEW t \in AllThreads PROVE nice[t] \in Int /\ recent_cpu[t] \in Int
    <3>1. nice[t] \in Nices \cup {0} /\ recent_cpu[t] \in Int
      BY <2>1 DEF TypeAccounts
    <3>2. \A n \in Nices \cup {0} : n \in Int
      BY TimerAssumption
    <3> QED BY <3>1, <3>2
  <2> QED BY <2>1, <2>2
<1>1. Charged \in [AllThreads -> Int]
  BY <1>0 DEF Charged, TypeAccounts
<1>2. \A cpu, n \in Int : ZeroPriority(cpu, n) \in 0..PRI_MAX
  BY FixedPoint DEF ZeroPriority
<1>3. ASSUME SecondPasses(queue)
      PROVE  /\ priority' \in [AllThreads -> 0..PRI_MAX] /\ load_avg' \in Nat
             /\ recent_cpu' \in [AllThreads -> Int]
  <2>1. Len(queue) + (IF current = Idle THEN 0 ELSE 1) \in Nat
    BY LenProperties
  <2>2. load_avg' \in Nat
    BY <1>0, <1>3, <2>1, FixedPoint DEF SecondPasses, TypeAccounts
  <2>3. recent_cpu' \in [AllThreads -> Int]
    <3>1. \A t \in AllThreads : Decayed(Charged[t], nice[t], load_avg') \in Int
      BY <1>0, <1>1, <2>2, FixedPoint
    <3> QED BY <1>0, <1>3, <3>1 DEF SecondPasses, CpuAfterSecond
  <2>4. priority' \in [AllThreads -> 0..PRI_MAX]
    <3>1. \A t \in AllThreads : ZeroPriority(recent_cpu'[t], nice[t]) \in 0..PRI_MAX
      BY <1>0, <1>2, <2>3
    <3> QED BY <1>0, <1>3, <3>1 DEF SecondPasses, TypeAccounts
  <2> QED BY <2>2, <2>3, <2>4
<1>4. ASSUME FourthTick
      PROVE  /\ priority' \in [AllThreads -> 0..PRI_MAX] /\ load_avg' \in Nat
             /\ recent_cpu' \in [AllThreads -> Int]
  <2>1. ZeroPriority(Charged[current], nice[current]) \in 0..PRI_MAX
    BY <1>0, <1>1, <1>2
  <2> QED BY <1>0, <1>1, <1>4, <2>1 DEF FourthTick, TypeAccounts
<1>5. ASSUME recent_cpu' = Charged, UNCHANGED <<load_avg, priority>>
      PROVE  /\ priority' \in [AllThreads -> 0..PRI_MAX] /\ load_avg' \in Nat
             /\ recent_cpu' \in [AllThreads -> Int]
  BY <1>0, <1>1, <1>5 DEF TypeAccounts
<1>6. CASE ~thread_mlfqs
  BY <1>0, <1>6 DEF Accounts, TypeAccounts
<1>7. CASE thread_mlfqs
  <2>1. \/ SecondPasses(queue) \/ FourthTick
        \/ recent_cpu' = Charged /\ UNCHANGED <<load_avg, priority>>
    BY <1>7 DEF Accounts
  <2>2. /\ priority' \in [AllThreads -> 0..PRI_MAX] /\ recent_cpu' \in [AllThreads -> Int]
        /\ load_avg' \in Nat
    BY <1>0, <1>3, <1>4, <1>5, <2>1 DEF TypeAccounts
  <2>3. nice' = nice
    BY DEF Accounts
  <2> QED BY <1>0, <1>7, <2>2, <2>3 DEF TypeAccounts
<1> QED BY <1>6, <1>7

-----------------------------------------------------------------------------
(* Inv is inductive.                                                       *)

\* At start everybody but the first thread is ready, in order.
LEMMA InitInv == Init => Inv
<1> SUFFICES ASSUME Init PROVE Inv
  OBVIOUS
<1>0. /\ TIME_SLICE \in Nat \ {0} /\ PRI_MAX \in Nat /\ Period \in Nat \ {0}
      /\ AllList \in Seq(Threads) /\ AllList # <<>> /\ NoDuplicates(AllList)
      /\ Idle \notin Threads /\ AllThreads = Threads \cup {Idle}
  BY Constants, TimerAssumption DEF AllThreads
<1>1. /\ current \in Threads /\ current = Head(AllList)
      /\ Tail(AllList) \in Seq(Threads) /\ NoDuplicates(Tail(AllList))
      /\ ToSet(Tail(AllList)) = Threads \ {current}
  <2>1. ToSet(AllList) = Threads
    BY DEF Threads, Range, ToSet
  <2> QED BY <1>0, <2>1, PopFrontElements DEF Init
<1>2. priority \in [AllThreads -> 0..PRI_MAX] /\ \A t \in Threads : priority[t] \in Int
  <2>1. PRI_MAX \div 2 \in 0..PRI_MAX /\ PRI_MAX \in 0..PRI_MAX /\ 0 \in 0..PRI_MAX
    BY <1>0
  <2>2. PICK p \in [Threads -> {PRI_MAX, PRI_MAX \div 2}] :
           priority = [t \in AllThreads |-> IF t = Idle THEN 0 ELSE p[t]]
    BY DEF Init
  <2>3. priority \in [AllThreads -> 0..PRI_MAX]
    BY <1>0, <2>1, <2>2
  <2> QED BY <2>3, Constants
<1>3. /\ ready_list \in Seq(Threads) /\ NoDuplicates(ready_list)
      /\ ToSet(ready_list) = Threads \ {current} /\ IsSortedBy(ready_list, priority)
  BY <1>1, <1>2, ListSortElements DEF Init
<1>4. /\ status \in [AllThreads -> Statuses] /\ Running
      /\ \A t \in Threads : status[t] = IF t = current THEN "RUNNING" ELSE "READY"
  BY <1>0, <1>1 DEF Init, Statuses, Running
<1>5. TypeSched
  <2>1. \A t \in Threads : status[t] = "READY" <=> t \in ToSet(ready_list)
    BY <1>3, <1>4
  <2>2. current \in AllThreads /\ thread_ticks \in 0..TIME_SLICE - 1
    BY <1>0, <1>1 DEF Init
  <2> QED BY <1>3, <1>4, <2>1, <2>2 DEF TypeSched, ReadyIs
<1>6. TypeAccounts
  BY <1>0, <1>2 DEF Init, TypeAccounts
<1>7. TypePlaces
  BY DEF Init, TypePlaces
<1>8. Doing
  BY <1>0, <1>4 DEF Init, Doing
<1>9. Prompt
  BY <1>3 DEF Init, Prompt
<1> QED BY <1>4, <1>5, <1>6, <1>7, <1>8, <1>9, TypeParts DEF Inv

\* thread_block: timer_sleep, sema_down and the idle thread.
LEMMA BlocksInv ==
    ASSUME Inv, NEW t \in AllThreads, t = current, NEW place \in {"asleep", "wait", "hlt"},
           Blocks(t, place), t = Idle <=> place = "hlt",
           place = "asleep" => pc[t] = "set", place = "wait" => pc[t] = "run"
    PROVE  Inv'
<1> DEFINE st == [status EXCEPT ![t] = "BLOCKED"]
<1>0. /\ TypeOK /\ TypeSched /\ TypeAccounts /\ TypePlaces /\ Running /\ Doing /\ Prompt
  BY TypeParts DEF Inv
<1>1. /\ st \in [AllThreads -> Statuses] /\ \A u \in AllThreads : st[u] # "RUNNING"
      /\ \A u \in AllThreads : st[u] = IF u = t THEN "BLOCKED" ELSE status[u]
  BY <1>0 DEF TypeSched, Statuses, Running
<1>2. status[t] = "RUNNING"
  BY <1>0 DEF Running
<1>3. ReadyIs(st, ready_list)
  BY <1>0, <1>1, <1>2, Constants DEF TypeSched, ReadyIs
<1>4. /\ Schedule(st, ready_list) /\ Late(0) /\ pc' = [pc EXCEPT ![t] = place]
      /\ UNCHANGED <<thread_mlfqs, ticks, waiting_time, priority, accounts>>
  BY DEF Blocks
<1> HIDE DEF st
<1>5. Scheduled(st) /\ (~thread_mlfqs => InOrder(priority'))
  BY <1>0, <1>1, <1>3, <1>4, ScheduleTakesFirst DEF Prompt, TypeAccounts
<1>6. Prompt' /\ late' \in [Threads -> Nat]
  BY <1>0, <1>4, <1>5, PromptAfterSchedule DEF Scheduled, TypeAccounts
<1>7. TypeAccounts' /\ TypePlaces'
  BY <1>0, <1>4, <1>6 DEF TypeAccounts, TypePlaces, accounts
<1>8. ASSUME NEW u \in Threads
      PROVE  /\ pc'[u] = IF u = t THEN place ELSE pc[u]
             /\ status'[u] = "BLOCKED" <=> u = t \/ status[u] = "BLOCKED"
  BY <1>0, <1>1, <1>4, <1>5, Constants DEF TypePlaces, Scheduled
<1>9. Doing'
  <2>1. Sleeps \ {0} \subseteq Nat \ {0}
    BY TimerAssumption
  <2>2. waiting_time' = waiting_time
    BY <1>4
  <2>3. ASSUME NEW u \in Threads, u # t
        PROVE  /\ pc'[u] # "hlt"
               /\ pc'[u] = "set" => waiting_time'[u] \in Sleeps \ {0}
               /\ pc'[u] \in {"asleep", "wait"} <=> status'[u] = "BLOCKED"
               /\ pc'[u] = "asleep" => waiting_time'[u] \in Nat \ {0}
               /\ pc'[u] \in {"run", "wait"} => waiting_time'[u] \in {0, -1}
    BY <1>0, <1>8, <2>2, <2>3 DEF Doing
  <2>4. ASSUME t \in Threads
        PROVE  /\ pc'[t] # "hlt"
               /\ pc'[t] = "set" => waiting_time'[t] \in Sleeps \ {0}
               /\ pc'[t] \in {"asleep", "wait"} <=> status'[t] = "BLOCKED"
               /\ pc'[t] = "asleep" => waiting_time'[t] \in Nat \ {0}
               /\ pc'[t] \in {"run", "wait"} => waiting_time'[t] \in {0, -1}
    <3>1. place \in {"asleep", "wait"} /\ pc'[t] = place /\ status'[t] = "BLOCKED"
      BY <1>8, <2>4, Constants
    <3> QED BY <1>0, <2>1, <2>2, <2>4, <3>1 DEF Doing
  <2>5. waiting_time'[Idle] \in {0, -1}
    BY <1>0, <2>2 DEF Doing
  <2> QED BY <2>3, <2>4, <2>5 DEF Doing
<1>10. TypeOK'
  BY <1>5, <1>7 DEF Scheduled, TypeOK, TypeSched, TypeAccounts, TypePlaces, ReadyIs, Statuses,
     Range, ToSet
<1> QED BY <1>5, <1>6, <1>9, <1>10 DEF Inv, Scheduled

\* sema_up by a thread, and by the handler of a device.
LEMMA UnblockInv ==
    ASSUME Inv, Interrupt \/ \E t \in Threads : Signals(t)
    PROVE  Inv'
<1>0. /\ TypeOK /\ TypeSched /\ TypeAccounts /\ TypePlaces /\ Running /\ Doing /\ Prompt
  BY TypeParts DEF Inv
<1>1. PICK u \in Waiting :
         /\ pc' = [pc EXCEPT ![u] = "run"]
            \/ pc' = [pc EXCEPT ![u] = "run", ![Idle] = IF current = Idle THEN "run" ELSE @]
         /\ \/ ThreadYield(Unblocked(u), Queued(u), priority)
            \/ /\ status' = Unblocked(u) /\ ready_list' = Queued(u)
               /\ UNCHANGED <<current, thread_ticks>>
         /\ UNCHANGED <<thread_mlfqs, ticks, waiting_time, priority, accounts>>
         /\ Late(0)
  BY DEF Interrupt, Signals
<1>2. /\ u \in Threads /\ status[u] = "BLOCKED" /\ pc[u] = "wait"
      /\ Unblocked(u) \in [AllThreads -> Statuses]
      /\ \A t \in AllThreads : Unblocked(u)[t] = IF t = u THEN "READY" ELSE status[t]
      /\ \A t \in AllThreads : Unblocked(u)[t] = "RUNNING" <=> t = current
      /\ ReadyIs(Unblocked(u), Queued(u))
      /\ IsSortedBy(ready_list, priority) => IsSortedBy(Queued(u), priority)
  BY <1>0, UnblockQueues
<1>3. /\ TypeSched' /\ Running' /\ Prompt' /\ late' \in [Threads -> Nat]
      /\ \A t \in Threads : status'[t] = "BLOCKED" <=> Unblocked(u)[t] = "BLOCKED"
  <2>1. CASE ThreadYield(Unblocked(u), Queued(u), priority)
    <3>1. Scheduled(Unblocked(u)) /\ (~thread_mlfqs => InOrder(priority'))
      BY <1>0, <1>1, <1>2, <2>1, YieldTakesFirst DEF Prompt, TypeAccounts, TypeSched
    <3>2. Prompt' /\ late' \in [Threads -> Nat]
      BY <1>0, <1>1, <3>1, PromptAfterSchedule DEF Scheduled, TypeAccounts
    <3> QED BY <3>1, <3>2 DEF Scheduled
  <2>2. CASE /\ status' = Unblocked(u) /\ ready_list' = Queued(u)
             /\ UNCHANGED <<current, thread_ticks>>
    <3>1. TypeSched'
      BY <1>0, <1>2, <2>2 DEF TypeSched, ReadyIs
    <3>2. Running'
      BY <1>2, <2>2 DEF Running
    <3>3. late' \in [Threads -> Nat] /\ \A t \in Threads : late'[t] <= late[t]
      BY <1>0, <1>1 DEF Late, TypePlaces
    <3>4. Prompt'
      <4>1. thread_ticks \in Int /\ \A t \in Threads : late[t] \in Int /\ late'[t] \in Int
        BY <1>0, <3>3 DEF TypeSched, TypePlaces
      <4>2. /\ thread_ticks' = thread_ticks /\ ready_list' = Queued(u) /\ priority' = priority
            /\ thread_mlfqs' = thread_mlfqs
        BY <1>1, <2>2
      <4>3. ASSUME ~thread_mlfqs
            PROVE  /\ IsSortedBy(ready_list', priority')
                   /\ \A t \in Threads : late'[t] <= thread_ticks'
        BY <1>0, <1>2, <3>3, <4>1, <4>2, <4>3 DEF Prompt
      <4> QED BY <4>2, <4>3 DEF Prompt
    <3> QED BY <2>2, <3>1, <3>2, <3>3, <3>4
  <2> QED BY <1>1, <2>1, <2>2
<1>4. TypeAccounts' /\ TypePlaces'
  BY <1>0, <1>1, <1>2, <1>3 DEF TypeAccounts, TypePlaces, accounts
<1>5. ASSUME NEW t \in Threads
      PROVE  /\ pc'[t] = IF t = u THEN "run" ELSE pc[t]
             /\ status'[t] = "BLOCKED" <=> t # u /\ status[t] = "BLOCKED"
  <2>1. t # Idle /\ t \in AllThreads
    BY Constants
  <2> QED BY <1>0, <1>1, <1>2, <1>3, <2>1 DEF TypePlaces
<1>6. Doing'
  BY <1>0, <1>1, <1>2, <1>5 DEF Doing
<1>7. TypeOK'
  BY <1>3, <1>4 DEF TypeOK, TypeSched, TypeAccounts, TypePlaces, ReadyIs, Statuses, Range, ToSet
<1> QED BY <1>3, <1>6, <1>7 DEF Inv

\* thread_set_nice: the thread that runs is not in the ready list, so that its
\* new priority leaves the list in order.
LEMMA SetNiceInv ==
    ASSUME Inv, NEW t \in Threads, SetNice(t)
    PROVE  Inv'
<1>0. /\ TypeOK /\ TypeSched /\ TypeAccounts /\ TypePlaces /\ Running /\ Doing /\ Prompt
      /\ t = current /\ t \in AllThreads
  BY TypeParts, Constants DEF Inv, SetNice, Runs
<1>1. PICK n \in Nices :
         /\ nice' = [nice EXCEPT ![t] = n]
         /\ priority' = [priority EXCEPT ![t] =
               check_priority(RoundToNearest(FixedPriority(recent_cpu[t], n)))]
         /\ ThreadYield(status, ready_list, priority')
  BY DEF SetNice
<1>2. /\ UNCHANGED <<thread_mlfqs, ticks, waiting_time, recent_cpu, load_avg, pc>>
      /\ Late(0)
  BY DEF SetNice
<1>3. check_priority(RoundToNearest(FixedPriority(recent_cpu[t], n))) \in 0..PRI_MAX
  <2>1. n \in Int /\ recent_cpu[t] \in Int
    BY <1>0, TimerAssumption DEF TypeAccounts
  <2>2. FixedPriority(recent_cpu[t], n) \in Int
    BY <2>1, FixedPoint
  <2> QED BY <2>2, FixedPoint
<1>4. /\ priority' \in [AllThreads -> 0..PRI_MAX]
      /\ \A u \in Threads \ {t} : priority'[u] = priority[u]
  BY <1>0, <1>1, <1>3, Constants DEF TypeAccounts
<1>5. IsSortedBy(ready_list, priority) => IsSortedBy(ready_list, priority')
  <2>1. status[t] = "RUNNING" /\ t \notin ToSet(ready_list)
    BY <1>0 DEF Running, TypeSched, ReadyIs
  <2>2. \A i \in 1..Len(ready_list) : ready_list[i] \in Threads \ {t}
    BY <1>0, <2>1, ElementOfSeq DEF TypeSched, ReadyIs, ToSet
  <2> QED BY <1>4, <2>2 DEF IsSortedBy
<1>6. Scheduled(status) /\ (IsSortedBy(ready_list, priority') => InOrder(priority'))
  <2>1. /\ status \in [AllThreads -> Statuses] /\ current \in AllThreads
        /\ ReadyIs(status, ready_list)
        /\ \A u \in AllThreads : status[u] = "RUNNING" <=> u = current
    BY <1>0 DEF TypeSched, Running
  <2> QED BY <1>1, <1>4, <2>1, YieldTakesFirst
<1>7. Prompt' /\ late' \in [Threads -> Nat]
  BY <1>0, <1>2, <1>4, <1>5, <1>6, PromptAfterSchedule DEF Scheduled, Prompt
<1>8. TypeAccounts' /\ TypePlaces'
  <2>1. nice' \in [AllThreads -> Nices \cup {0}]
    BY <1>0, <1>1 DEF TypeAccounts
  <2> QED BY <1>0, <1>2, <1>4, <1>7, <2>1 DEF TypeAccounts, TypePlaces
<1>9. Doing'
  BY <1>0, <1>2, <1>6 DEF Doing, Scheduled
<1>10. TypeOK'
  BY <1>6, <1>8 DEF Scheduled, TypeOK, TypeSched, TypeAccounts, TypePlaces, ReadyIs, Statuses,
     Range, ToSet
<1> QED BY <1>6, <1>7, <1>9, <1>10 DEF Inv, Scheduled

\* timer_sleep, before it blocks: the counter of a thread that runs is set.
LEMMA TimerSleepInv ==
    ASSUME Inv, NEW t \in Threads, TimerSleep(t)
    PROVE  Inv'
<1>0. /\ TypeOK /\ TypeSched /\ TypeAccounts /\ TypePlaces /\ Running /\ Doing /\ Prompt
      /\ t = current /\ pc[t] = "run" /\ t \in AllThreads /\ t # Idle
  BY TypeParts, Constants DEF Inv, TimerSleep, Runs
<1>1. PICK n \in Sleeps \ {0} : waiting_time' = [waiting_time EXCEPT ![t] = n]
  BY DEF TimerSleep
<1>2. /\ pc' = [pc EXCEPT ![t] = "set"]
      /\ UNCHANGED <<thread_mlfqs, ticks, current, status, ready_list, thread_ticks, priority,
                     nice, recent_cpu, load_avg, late>>
  BY DEF TimerSleep, sched, accounts
<1>3. n \in Nat \ {0}
  BY TimerAssumption
<1>4. status[t] = "RUNNING"
  BY <1>0 DEF Running
<1>5. TypePlaces'
  BY <1>0, <1>1, <1>2, <1>3 DEF TypePlaces
<1>6. TypeSched' /\ TypeAccounts' /\ Running' /\ Prompt'
  BY <1>0, <1>2 DEF TypeSched, TypeAccounts, ReadyIs, Running, Prompt
<1>7. \A u \in AllThreads :
         /\ pc'[u] = IF u = t THEN "set" ELSE pc[u]
         /\ waiting_time'[u] = IF u = t THEN n ELSE waiting_time[u]
         /\ status'[u] = status[u]
  BY <1>0, <1>1, <1>2 DEF TypePlaces
<1>8. Doing'
  BY <1>0, <1>4, <1>7, Constants DEF Doing
<1>9. TypeOK'
  BY <1>5, <1>6 DEF TypeOK, TypeSched, TypeAccounts, TypePlaces, ReadyIs, Statuses, Range, ToSet
<1> QED BY <1>6, <1>8, <1>9 DEF Inv

\* What thread_foreach (time_minus) does to a thread.
LEMMA TickWakes ==
    ASSUME Inv
    PROVE  /\ WakesUp \in [AllThreads -> Statuses]
           /\ \A t \in AllThreads : WakesUp[t] = "RUNNING" <=> t = current
           /\ \A t \in Threads : WakesUp[t] = "BLOCKED" <=> status[t] = "BLOCKED" /\ ~Woken(t)
           /\ \A t \in Threads : Woken(t) <=> pc[t] = "asleep" /\ waiting_time[t] = 1
           /\ ~Woken(Idle) /\ TimeMinus(Idle) \in {0, -1}
           /\ \A t \in Threads :
                 TimeMinus(t) = IF pc[t] = "asleep" THEN waiting_time[t] - 1
                                ELSE IF pc[t] = "wait" THEN -1 ELSE waiting_time[t]
<1>0. /\ TypeSched /\ TypePlaces /\ Running /\ Doing
  BY TypeParts DEF Inv
<1>1. /\ WakesUp \in [AllThreads -> Statuses]
      /\ \A t \in AllThreads : WakesUp[t] = IF Woken(t) THEN "READY" ELSE status[t]
  BY <1>0 DEF WakesUp, TypeSched, Statuses
<1>2. \A t \in AllThreads : Woken(t) => status[t] = "BLOCKED"
  BY DEF Woken, Counts
<1>3. \A t \in Threads : Woken(t) <=> pc[t] = "asleep" /\ waiting_time[t] = 1
  BY <1>0 DEF Doing, Woken, Counts, TypePlaces
<1>4. ~Woken(Idle) /\ TimeMinus(Idle) \in {0, -1}
  BY <1>0 DEF Doing, Woken, TimeMinus
<1>5. ASSUME NEW t \in Threads
      PROVE  TimeMinus(t) = IF pc[t] = "asleep" THEN waiting_time[t] - 1
                            ELSE IF pc[t] = "wait" THEN -1 ELSE waiting_time[t]
  <2>1. waiting_time[t] \in Int /\ (pc[t] \in {"asleep", "wait"} <=> status[t] = "BLOCKED")
    BY <1>0, Constants DEF Doing, TypePlaces
  <2>2. CASE pc[t] = "asleep"
    BY <1>0, <2>1, <2>2 DEF Doing, TimeMinus, Counts
  <2>3. CASE pc[t] = "wait"
    BY <1>0, <2>1, <2>3 DEF Doing, TimeMinus, Counts
  <2>4. CASE pc[t] \notin {"asleep", "wait"}
    BY <2>1, <2>4 DEF TimeMinus, Counts
  <2> QED BY <2>2, <2>3, <2>4
<1>6. \A t \in AllThreads : WakesUp[t] = "RUNNING" <=> t = current
  BY <1>0, <1>1, <1>2 DEF Running
<1>7. \A t \in Threads : WakesUp[t] = "BLOCKED" <=> status[t] = "BLOCKED" /\ ~Woken(t)
  BY <1>1, Constants
<1> QED BY <1>1, <1>3, <1>4, <1>5, <1>6, <1>7

\* timer_interrupt
LEMMA TickInv ==
    ASSUME Inv, Tick
    PROVE  Inv'
<1>0. /\ TypeOK /\ TypeSched /\ TypeAccounts /\ TypePlaces /\ Running /\ Doing /\ Prompt
  BY TypeParts DEF Inv
<1>1. /\ ticks' = (ticks + 1) % Period
      /\ waiting_time' = [t \in AllThreads |-> TimeMinus(t)]
      /\ pc' = [t \in AllThreads |->
                   IF Woken(t) \/ (t = Idle /\ current = Idle) THEN "run" ELSE pc[t]]
      /\ Accounts(ticks + 1, QueueAfterWakeUp)
      /\ Late(1) /\ UNCHANGED thread_mlfqs
  BY DEF Tick
<1>2. /\ ReadyIs(WakesUp, QueueAfterWakeUp)
      /\ IsSortedBy(ready_list, priority) => IsSortedBy(QueueAfterWakeUp, priority)
  BY <1>0, QueueWoken DEF Woken, Counts
<1>3. TypeAccounts' /\ (~thread_mlfqs => priority' = priority)
  <2>1. ticks' \in 0..Period - 1
    <3>1. Period \in Nat \ {0} /\ ticks + 1 \in Int
      BY <1>0, Constants DEF TypeAccounts
    <3> QED BY <1>1, <3>1
  <2>2. QueueAfterWakeUp \in Seq(Threads)
    BY <1>2 DEF ReadyIs
  <2> QED BY <1>0, <1>1, <2>1, <2>2, AccountsTypes
<1>4. /\ TypeSched' /\ Running' /\ Prompt' /\ late' \in [Threads -> Nat]
      /\ \A t \in Threads : status'[t] = "BLOCKED" <=> WakesUp[t] = "BLOCKED"
  <2>0. priority' \in [AllThreads -> 0..PRI_MAX]
    BY <1>3 DEF TypeAccounts
  <2>1. CASE SliceOver
    <3>1. ThreadYield(WakesUp, QueueAfterWakeUp, priority')
      BY <2>1 DEF Tick
    <3>2. /\ Scheduled(WakesUp)
          /\ IsSortedBy(QueueAfterWakeUp, priority') => InOrder(priority')
      BY <1>0, <1>2, <2>0, <3>1, TickWakes, YieldTakesFirst DEF Inv, TypeSched
    <3>3. ~thread_mlfqs => InOrder(priority')
      BY <1>0, <1>2, <1>3, <3>2 DEF Prompt
    <3>4. Prompt' /\ late' \in [Threads -> Nat]
      BY <1>0, <1>1, <2>0, <3>2, <3>3, PromptAfterSchedule DEF Scheduled
    <3> QED BY <3>2, <3>4 DEF Scheduled
  <2>2. CASE ~SliceOver
    <3>1. /\ status' = WakesUp /\ ready_list' = QueueAfterWakeUp
          /\ thread_ticks' = thread_ticks + 1 /\ current' = current
      BY <2>2 DEF Tick
    <3>2. thread_ticks' \in 0..TIME_SLICE - 1 /\ thread_ticks \in Int
      BY <1>0, <2>2, <3>1, Constants DEF SliceOver, TypeSched
    <3>3. TypeSched'
      BY <1>0, <1>2, <3>1, <3>2, TickWakes DEF TypeSched, ReadyIs, Inv
    <3>4. Running'
      BY <3>1, TickWakes DEF Running
    <3>5. /\ late' \in [Threads -> Nat]
          /\ \A t \in Threads : late[t] \in Nat /\ late'[t] <= late[t] + 1
      BY <1>0, <1>1 DEF Late, TypePlaces
    <3>6. ASSUME ~thread_mlfqs
          PROVE  /\ IsSortedBy(ready_list', priority')
                 /\ \A t \in Threads : late'[t] <= thread_ticks'
      <4>1. \A t \in Threads : late[t] <= thread_ticks
        BY <1>0, <3>6 DEF Prompt
      <4>2. \A t \in Threads : late'[t] <= thread_ticks'
        BY <3>1, <3>2, <3>5, <4>1
      <4>3. IsSortedBy(QueueAfterWakeUp, priority)
        BY <1>0, <1>2, <3>6 DEF Prompt
      <4> QED BY <1>3, <3>1, <3>6, <4>2, <4>3
    <3>7. Prompt'
      BY <1>1, <3>6 DEF Prompt
    <3> QED BY <3>1, <3>3, <3>4, <3>5, <3>7
  <2> QED BY <2>1, <2>2
<1>5. ASSUME NEW t \in Threads
      PROVE  /\ pc'[t] = IF Woken(t) THEN "run" ELSE pc[t]
             /\ waiting_time'[t] = TimeMinus(t)
             /\ status'[t] = "BLOCKED" <=> status[t] = "BLOCKED" /\ ~Woken(t)
  BY <1>1, <1>4, TickWakes, Constants
<1>6. waiting_time'[Idle] \in {0, -1}
  BY <1>1, TickWakes, Constants
<1>7. Doing'
  <2>1. ASSUME NEW t \in Threads
        PROVE  /\ pc'[t] # "hlt"
               /\ pc'[t] = "set" => waiting_time'[t] \in Sleeps \ {0}
               /\ pc'[t] \in {"asleep", "wait"} <=> status'[t] = "BLOCKED"
               /\ pc'[t] = "asleep" => waiting_time'[t] \in Nat \ {0}
               /\ pc'[t] \in {"run", "wait"} => waiting_time'[t] \in {0, -1}
    <3>1. /\ pc[t] # "hlt"
          /\ pc[t] = "set" => waiting_time[t] \in Sleeps \ {0}
          /\ pc[t] \in {"asleep", "wait"} <=> status[t] = "BLOCKED"
          /\ pc[t] = "asleep" => waiting_time[t] \in Nat \ {0}
          /\ pc[t] \in {"run", "wait"} => waiting_time[t] \in {0, -1}
      BY <1>0 DEF Doing
    <3>2. /\ Woken(t) <=> pc[t] = "asleep" /\ waiting_time[t] = 1
          /\ waiting_time'[t] = IF pc[t] = "asleep" THEN waiting_time[t] - 1
                                ELSE IF pc[t] = "wait" THEN -1 ELSE waiting_time[t]
      BY <1>5, TickWakes
    <3>3. CASE Woken(t)
      BY <1>5, <3>1, <3>2, <3>3
    <3>4. CASE ~Woken(t)
      BY <1>5, <3>1, <3>2, <3>4
    <3> QED BY <3>3, <3>4
  <2> QED BY <1>6, <2>1 DEF Doing
<1>8. TypePlaces'
  <2>1. \A t \in AllThreads : TimeMinus(t) \in Int
    BY <1>0 DEF TypePlaces, TimeMinus
  <2> QED BY <1>0, <1>1, <1>4, <2>1 DEF TypePlaces
<1>9. TypeOK'
  BY <1>3, <1>4, <1>8 DEF TypeOK, TypeSched, TypeAccounts, TypePlaces, ReadyIs, Statuses,
     Range, ToSet
<1> QED BY <1>4, <1>7, <1>9 DEF Inv

\* Every step keeps Inv.
LEMMA NextInv == Inv /\ [Next]_vars => Inv'
<1> SUFFICES ASSUME Inv, [Next]_vars PROVE Inv'
  OBVIOUS
<1>1. CASE UNCHANGED vars
  BY <1>1 DEF vars, sched, accounts, Inv, TypeOK, Running, Doing, Prompt, Range
<1>2. ASSUME NEW t \in Threads, TimerSleep(t) PROVE Inv'
  BY <1>2, TimerSleepInv
<1>3. ASSUME NEW t \in Threads, FallsAsleep(t) PROVE Inv'
  BY <1>3, BlocksInv, Constants DEF FallsAsleep
<1>4. ASSUME NEW t \in Threads, Waits(t) PROVE Inv'
  BY <1>4, BlocksInv, Constants DEF Waits, Runs
<1>5. CASE IdleBlocks
  BY <1>5, BlocksInv, Constants DEF IdleBlocks
<1>6. ASSUME NEW t \in Threads, SetNice(t) PROVE Inv'
  BY <1>6, SetNiceInv
<1>7. CASE Interrupt \/ \E t \in Threads : Signals(t)
  BY <1>7, UnblockInv
<1>8. CASE Tick
  BY <1>8, TickInv
<1> QED BY <1>1, <1>2, <1>3, <1>4, <1>5, <1>6, <1>7, <1>8 DEF Next, Steps

\* Inv is an invariant.
LEMMA InvInvariant == Spec => []Inv
BY InitInv, NextInv, PTL DEF Spec

\* The type invariant.
THEOREM TypeCorrect == Spec => []TypeOK
BY InvInvariant, PTL DEF Inv

\* Without -mlfqs a ready thread that outranks the running one waits for less
\* than a time slice, though the tick that wakes a thread does not yield to it.
THEOREM OutrankedForLessThanASlice == Spec => []OutrankedBriefly
<1>1. Inv => OutrankedBriefly
  <2> SUFFICES ASSUME Inv, ~thread_mlfqs, NEW t \in Threads PROVE late[t] < TIME_SLICE
    BY DEF OutrankedBriefly
  <2>1. /\ late[t] \in Nat /\ thread_ticks \in 0..TIME_SLICE - 1 /\ late[t] <= thread_ticks
        /\ TIME_SLICE \in Nat
    BY Constants DEF Inv, TypeOK, Prompt
  <2> QED BY <2>1
<1> QED BY <1>1, InvInvariant, PTL

-----------------------------------------------------------------------------
(* timer_sleep implements the alarm clock.                                 *)

\* What Timer shows to the abstract specification, thread by thread.
AlarmOf(t) == IF pc[t] = "set" THEN <<"asked", waiting_time[t]>>
              ELSE IF pc[t] = "asleep" THEN <<"asleep", waiting_time[t]>>
              ELSE IF pc[t] = "wait" THEN <<"away", 0>>
              ELSE <<"awake", 0>>

Alarms == [t \in Threads |-> AlarmOf(t)]

\* Nobody has asked for anything at start.
LEMMA InitAlarm == Init => Alarm!Init
<1> SUFFICES ASSUME Init PROVE Alarm!Init
  OBVIOUS
<1>1. \A t \in Threads : pc[t] = "run"
  BY Constants DEF Init
<1> QED BY <1>1 DEF Alarm!Init, Alarm!Awake

\* timer_sleep, whose two steps are the abstract ones.
LEMMA SleepsAlarm ==
    ASSUME Inv, NEW t \in Threads, TimerSleep(t) \/ FallsAsleep(t)
    PROVE  Alarm!Next
<1>0. /\ t \in AllThreads /\ TypePlaces
  BY TypeParts, Constants DEF Inv
<1>1. CASE TimerSleep(t)
  <2>1. PICK n \in Sleeps \ {0} : waiting_time' = [waiting_time EXCEPT ![t] = n]
    BY <1>1 DEF TimerSleep
  <2>2. pc' = [pc EXCEPT ![t] = "set"] /\ pc[t] = "run"
    BY <1>1 DEF TimerSleep, Runs
  <2>3. /\ AlarmOf(t) = <<"awake", 0>>
        /\ \A u \in Threads : AlarmOf(u)' = IF u = t THEN <<"asked", n>> ELSE AlarmOf(u)
    BY <1>0, <2>1, <2>2, Constants DEF AlarmOf, TypePlaces
  <2>4. Alarms[t] = <<"awake", 0>> /\ Alarms' = [Alarms EXCEPT ![t] = <<"asked", n>>]
    BY <2>3 DEF Alarms
  <2>5. Alarm!Asks(t, n)
    BY <2>4 DEF Alarm!Asks, Alarm!Awake, Alarms, AlarmOf
  <2> QED BY <2>5 DEF Alarm!Next
<1>2. CASE FallsAsleep(t)
  <2>1. pc' = [pc EXCEPT ![t] = "asleep"] /\ pc[t] = "set" /\ waiting_time' = waiting_time
    BY <1>2 DEF FallsAsleep, Blocks
  <2>2. /\ AlarmOf(t) = <<"asked", waiting_time[t]>>
        /\ \A u \in Threads :
              AlarmOf(u)' = IF u = t THEN <<"asleep", waiting_time[t]>> ELSE AlarmOf(u)
    BY <1>0, <2>1, Constants DEF AlarmOf, TypePlaces
  <2>3. /\ Alarms[t] = <<"asked", waiting_time[t]>>
        /\ Alarms' = [Alarms EXCEPT ![t] = <<"asleep", waiting_time[t]>>]
    BY <2>2 DEF Alarms
  <2>4. /\ Alarms[t][1] = "asked"
        /\ Alarms' = [Alarms EXCEPT ![t] = <<"asleep", Alarms[t][2]>>]
    BY <2>3
  <2>5. Alarm!FallsAsleep(t)
    BY <2>4 DEF Alarm!FallsAsleep, Alarms, AlarmOf
  <2> QED BY <2>5 DEF Alarm!Next
<1> QED BY <1>1, <1>2

\* Waiting for something else than the clock, and being called.
LEMMA WaitsAlarm ==
    ASSUME Inv, Interrupt \/ \E t \in Threads : Waits(t) \/ Signals(t)
    PROVE  Alarm!Next
<1>0. TypePlaces /\ waiting_time' = waiting_time
  BY TypeParts DEF Inv, Interrupt, Waits, Signals, Blocks
<1>1. ASSUME NEW t \in Threads, Waits(t) PROVE Alarm!Next
  <2>1. pc' = [pc EXCEPT ![t] = "wait"] /\ pc[t] = "run"
    BY <1>1 DEF Waits, Runs, Blocks
  <2>2. /\ AlarmOf(t) = <<"awake", 0>>
        /\ \A u \in Threads : AlarmOf(u)' = IF u = t THEN <<"away", 0>> ELSE AlarmOf(u)
    BY <1>0, <2>1, Constants DEF AlarmOf, TypePlaces
  <2>3. Alarms[t] = <<"awake", 0>> /\ Alarms' = [Alarms EXCEPT ![t] = <<"away", 0>>]
    BY <2>2 DEF Alarms
  <2>4. Alarm!Waits(t)
    BY <2>3 DEF Alarm!Waits, Alarm!Awake, Alarm!Away, Alarms, AlarmOf
  <2> QED BY <2>4 DEF Alarm!Next
<1>2. CASE Interrupt \/ \E t \in Threads : Signals(t)
  <2>1. PICK u \in Waiting :
           \/ pc' = [pc EXCEPT ![u] = "run"]
           \/ pc' = [pc EXCEPT ![u] = "run", ![Idle] = IF current = Idle THEN "run" ELSE @]
    BY <1>2 DEF Interrupt, Signals
  <2>2. u \in Threads /\ pc[u] = "wait"
    BY DEF Waiting
  <2>3. \A t \in Threads : pc'[t] = IF t = u THEN "run" ELSE pc[t]
    BY <1>0, <2>1, <2>2, Constants DEF TypePlaces
  <2>4. /\ AlarmOf(u) = <<"away", 0>>
        /\ \A t \in Threads : AlarmOf(t)' = IF t = u THEN <<"awake", 0>> ELSE AlarmOf(t)
    BY <1>0, <2>2, <2>3 DEF AlarmOf
  <2>5. Alarms[u] = <<"away", 0>> /\ Alarms' = [Alarms EXCEPT ![u] = <<"awake", 0>>]
    BY <2>2, <2>4 DEF Alarms
  <2>6. Alarm!IsCalled(u)
    BY <2>5 DEF Alarm!IsCalled, Alarm!Awake, Alarm!Away, Alarms, AlarmOf
  <2> QED BY <2>2, <2>6 DEF Alarm!Next
<1> QED BY <1>1, <1>2

\* The clock rings for the sleepers whose ticks are over, and for nobody else.
LEMMA TickAlarm ==
    ASSUME Inv, Tick
    PROVE  Alarm!Next
<1>0. TypePlaces /\ Doing
  BY TypeParts DEF Inv
<1>1. ASSUME NEW t \in Threads
      PROVE  AlarmOf(t)' = IF AlarmOf(t)[1] = "asleep" THEN Alarm!Rings(AlarmOf(t)[2])
                           ELSE AlarmOf(t)
  <2>1. /\ t \in AllThreads /\ t # Idle
        /\ pc[t] # "hlt" /\ pc[t] \in {"run", "set", "asleep", "wait", "hlt"}
    BY <1>0, Constants DEF Doing, TypePlaces
  <2>2. /\ Woken(t) <=> pc[t] = "asleep" /\ waiting_time[t] = 1
        /\ TimeMinus(t) = IF pc[t] = "asleep" THEN waiting_time[t] - 1
                          ELSE IF pc[t] = "wait" THEN -1 ELSE waiting_time[t]
    BY TickWakes
  <2>3. /\ pc'[t] = IF Woken(t) THEN "run" ELSE pc[t]
        /\ waiting_time'[t] = TimeMinus(t)
    BY <2>1 DEF Tick
  <2>4. CASE pc[t] = "asleep"
    <3>1. AlarmOf(t) = <<"asleep", waiting_time[t]>>
      BY <2>4 DEF AlarmOf
    <3>2. AlarmOf(t)[1] = "asleep" /\ AlarmOf(t)[2] = waiting_time[t]
      BY <3>1
    <3>3. AlarmOf(t)' = IF waiting_time[t] = 1 THEN <<"awake", 0>>
                        ELSE <<"asleep", waiting_time[t] - 1>>
      BY <2>2, <2>3, <2>4 DEF AlarmOf
    <3> QED BY <3>2, <3>3 DEF Alarm!Rings, Alarm!Awake
  <2>5. CASE pc[t] # "asleep"
    <3>1. AlarmOf(t)' = AlarmOf(t)
      BY <2>1, <2>2, <2>3, <2>5 DEF AlarmOf
    <3>2. AlarmOf(t)[1] # "asleep"
      BY <2>1, <2>5 DEF AlarmOf
    <3> QED BY <3>1, <3>2
  <2> QED BY <2>4, <2>5
<1>2. Alarms' = [t \in Threads |-> IF Alarms[t][1] = "asleep" THEN Alarm!Rings(Alarms[t][2])
                                   ELSE Alarms[t]]
  BY <1>1 DEF Alarms
<1>3. Alarm!Tick
  BY <1>2 DEF Alarm!Tick, Alarms, AlarmOf
<1> QED BY <1>3 DEF Alarm!Next

\* Every step of Timer is a step of the alarm clock, or one that it does not
\* show.
LEMMA NextAlarm == Inv /\ [Next]_vars => [Alarm!Next]_Alarms
<1> SUFFICES ASSUME Inv, [Next]_vars PROVE Alarm!Next \/ UNCHANGED Alarms
  OBVIOUS
<1>0. TypePlaces
  BY TypeParts DEF Inv
<1>1. CASE UNCHANGED <<pc, waiting_time>>
  BY <1>1 DEF Alarms, AlarmOf
<1>2. ASSUME NEW t \in Threads, SetNice(t) PROVE UNCHANGED <<pc, waiting_time>>
  BY <1>2 DEF SetNice
<1>3. CASE IdleBlocks
  <2>1. pc' = [pc EXCEPT ![Idle] = "hlt"] /\ waiting_time' = waiting_time
    BY <1>3 DEF IdleBlocks, Blocks
  <2>2. \A t \in Threads : AlarmOf(t)' = AlarmOf(t)
    BY <1>0, <2>1, Constants DEF AlarmOf, TypePlaces
  <2> QED BY <2>2 DEF Alarms
<1>4. CASE UNCHANGED vars
  BY <1>1, <1>4 DEF vars
<1> QED BY <1>1, <1>2, <1>3, <1>4, SleepsAlarm, WaitsAlarm, TickAlarm DEF Next, Steps

\* Sleepers sleep exactly the ticks they asked for and nothing but the clock
\* ends their sleep; the clock does nothing to threads that wait otherwise.
THEOREM TimerImplementsAlarm == Spec => AlarmImplemented
BY InvInvariant, InitAlarm, NextAlarm, PTL DEF Spec, AlarmImplemented, Alarm!Spec, Alarms, AlarmOf
=============================================================================
