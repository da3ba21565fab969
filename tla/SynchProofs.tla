---------------------------- MODULE SynchProofs ----------------------------
(***************************************************************************)
(* What holds of Synch for any number of threads, locks and semaphores and *)
(* any set of priorities: types, mutual exclusion, the locks on the lists  *)
(* of their holders, the chains of holders, the ready list and the wait    *)
(* lists, wake-ups, and the order by priority.                             *)
(***************************************************************************)
EXTENDS Synch, KernelListsProofs

-----------------------------------------------------------------------------
(* Types.                                                                  *)

LockPCs == {"blocked", "link", "donate", "donate_write", "chain", "again", "sorting",
            "own", "own_holder", "try_own", "rel_pri", "rel_holder", "up"}

\* What a thread's locals point to, by the place it has reached.
LocalsFit ==
    \A t \in Threads :
        /\ pc[t] \in LockPCs => arg[t] \in Locks
        /\ pc[t] \in {"down", "down_wait"} => arg[t] \in AllSemas
        /\ pc[t] \notin LockPCs \cup {"down", "down_wait"} => arg[t] = NULL
        /\ arg[t] = TidLock => child[t] \in Threads
        /\ pc[t] \in {"tid", "create_unblock", "create_yield"} => child[t] \in Threads
        /\ child[t] # NULL =>
              arg[t] = TidLock \/ pc[t] \in {"tid", "create_unblock", "create_yield"}

Types == TypeOK /\ LocalsFit

LEMMA ConstantFacts ==
    /\ Main \in Threads /\ Idle \notin Threads
    /\ NULL \notin AllThreads /\ NULL \notin AllSemas
    /\ TidLock \in Locks /\ TidLock \notin Semas
    /\ \A l \in Locks : l \notin Semas
    /\ 0 \in Priorities /\ \A p \in Priorities : p \in Nat
    /\ \A p \in NewPriorities : p \in Priorities
    /\ \A l \in TryLocks : l \in Locks /\ l # TidLock
    /\ \A s \in IntrSemas : s \in Semas
BY SynchAssumption DEF AllThreads, AllSemas

LEMMA TidLockIsReal == TidLock # NULL
BY SynchAssumption DEF AllSemas

LEMMA KeyTypes ==
    ASSUME TypeOK
    PROVE  /\ \A x \in Threads : priority[x] \in Int
           /\ \A l \in Locks : max_pri[l] \in Int
BY ConstantFacts DEF TypeOK, AllThreads

\* The scheduler keeps the types of its three variables.
LEMMA ScheduleTypes ==
    ASSUME NEW st \in [AllThreads -> Statuses], NEW queue \in Seq(Threads),
           Schedule(st, queue)
    PROVE  /\ current' \in AllThreads
           /\ status' \in [AllThreads -> Statuses]
           /\ ready_list' \in Seq(Threads) /\ woken' \subseteq Threads
<1>1. CASE queue = <<>>
  BY <1>1, EmptySeq DEF Schedule, AllThreads, Statuses
<1>2. CASE queue # <<>>
  <2>1. Head(queue) \in Threads /\ Tail(queue) \in Seq(Threads)
    BY <1>2, HeadTailProperties
  <2> QED BY <1>2, <2>1 DEF Schedule, AllThreads, Statuses
<1> QED BY <1>1, <1>2

LEMMA YieldTypes ==
    ASSUME TypeOK, NEW st \in [AllThreads -> Statuses],
           NEW queue \in Seq(Threads), ThreadYield(st, queue)
    PROVE  /\ current' \in AllThreads
           /\ status' \in [AllThreads -> Statuses]
           /\ ready_list' \in Seq(Threads) /\ woken' \subseteq Threads
<1> DEFINE st2 == [st EXCEPT ![current] = "READY"]
           queue2 == IF current = Idle THEN queue
                     ELSE list_insert_ordered(queue, current, priority)
<1>1. st2 \in [AllThreads -> Statuses]
  BY DEF Statuses
<1>2. queue2 \in Seq(Threads)
  <2>1. CASE current = Idle
    BY <2>1
  <2>2. CASE current # Idle
    <3>1. current \in Threads
      BY <2>2 DEF TypeOK, AllThreads
    <3>2. list_insert_ordered(queue, current, priority) \in Seq(Threads)
      BY <3>1, KeyTypes, InsertOrderedElements
    <3> QED BY <2>2, <3>2
  <2> QED BY <2>1, <2>2
<1>3. Schedule(st2, queue2)
  BY DEF ThreadYield
<1> HIDE DEF st2, queue2
<1> QED BY <1>1, <1>2, <1>3, ScheduleTypes

LEMMA UpTypes ==
    ASSUME TypeOK, NEW s \in AllSemas
    PROVE  /\ WaitersAfterUp(s) \in Seq(Threads)
           /\ StatusAfterUp(s) \in [AllThreads -> Statuses]
           /\ ReadyListAfterUp(s) \in Seq(Threads)
<1>0. waiters[s] \in Seq(Threads) /\ ready_list \in Seq(Threads)
      /\ status \in [AllThreads -> Statuses]
  BY DEF TypeOK
<1>1. CASE HasWaiter(s)
  <2>1. SortedWaiters(s) \in Seq(Threads) /\ Len(SortedWaiters(s)) = Len(waiters[s])
    BY <1>0, KeyTypes, ListSortElements DEF SortedWaiters
  <2>2. SortedWaiters(s) # <<>>
    BY <1>0, <1>1, <2>1, EmptySeq DEF HasWaiter
  <2>3. Head(SortedWaiters(s)) \in Threads /\ Tail(SortedWaiters(s)) \in Seq(Threads)
    BY <2>1, <2>2, HeadTailProperties
  <2>4. list_insert_ordered(ready_list, Head(SortedWaiters(s)), priority) \in Seq(Threads)
    BY <1>0, <2>3, KeyTypes, InsertOrderedElements
  <2> QED BY <1>0, <1>1, <2>3, <2>4
          DEF WaitersAfterUp, StatusAfterUp, ReadyListAfterUp, AllThreads, Statuses
<1>2. CASE ~ HasWaiter(s)
  BY <1>0, <1>2 DEF WaitersAfterUp, StatusAfterUp, ReadyListAfterUp
<1> QED BY <1>1, <1>2

\* Every step of the scheduler and of an interrupt keeps the types.
LEMMA KernelStepTypes ==
    ASSUME Types,
           \/ Preempt \/ IdleBlock \/ MlfqsTick \/ Halted
           \/ \E s \in IntrSemas : IntrSemaUp(s)
           \/ \E t \in Threads : InterruptWakes(t)
    PROVE  Types'
<1> USE DEF Types, LocalsFit
<1>0. TypeOK /\ status \in [AllThreads -> Statuses] /\ ready_list \in Seq(Threads)
  BY DEF TypeOK
<1>1. CASE Preempt
  <2>1. /\ current' \in AllThreads /\ status' \in [AllThreads -> Statuses]
        /\ ready_list' \in Seq(Threads) /\ woken' \subseteq Threads
    BY <1>0, <1>1, YieldTypes DEF Preempt
  <2> QED BY <1>1, <2>1 DEF TypeOK, Preempt, pri, donate, sema, local
<1>2. CASE IdleBlock
  <2>1. [status EXCEPT ![Idle] = "BLOCKED"] \in [AllThreads -> Statuses]
    BY <1>0 DEF Statuses
  <2>2. /\ current' \in AllThreads /\ status' \in [AllThreads -> Statuses]
        /\ ready_list' \in Seq(Threads) /\ woken' \subseteq Threads
    BY <1>0, <1>2, <2>1, ScheduleTypes DEF IdleBlock
  <2> QED BY <1>2, <2>2 DEF TypeOK, IdleBlock, pri, donate, sema, local
<1>3. CASE MlfqsTick
  <2>1. priority' \in [AllThreads -> Priorities]
    BY <1>0, <1>3 DEF MlfqsTick, TypeOK
  <2> QED BY <1>3, <2>1 DEF TypeOK, MlfqsTick, sched, donate, sema, local
<1>4. CASE Halted
  BY <1>4 DEF TypeOK, Halted, vars, sched, pri, donate, sema, local
<1>5. ASSUME NEW s \in IntrSemas, IntrSemaUp(s) PROVE Types'
  <2>1. s \in AllSemas
    BY ConstantFacts DEF AllSemas
  <2>2. /\ WaitersAfterUp(s) \in Seq(Threads)
        /\ StatusAfterUp(s) \in [AllThreads -> Statuses]
        /\ ReadyListAfterUp(s) \in Seq(Threads)
    BY <1>0, <2>1, UpTypes
  <2>3. value' \in [AllSemas -> Nat] /\ waiters' \in [AllSemas -> Seq(Threads)]
    BY <1>0, <1>5, <2>1, <2>2 DEF TypeOK, IntrSemaUp
  <2> QED BY <1>5, <2>2, <2>3 DEF TypeOK, IntrSemaUp, pri, donate, local
<1>6. ASSUME NEW t \in Threads, InterruptWakes(t) PROVE Types'
  <2>1. /\ ready_list' \in Seq(Threads) /\ woken' \subseteq Threads
        /\ status' \in [AllThreads -> Statuses]
    BY <1>0, <1>6, KeyTypes, InsertOrderedElements DEF InterruptWakes, Statuses, TypeOK
  <2>2. pc[t] = "asleep" /\ pc' = [pc EXCEPT ![t] = "user"]
        /\ UNCHANGED <<current, pri, donate, sema, local, panic>>
    BY <1>6 DEF InterruptWakes
  <2> QED BY <1>0, <2>1, <2>2 DEF TypeOK, PCs, LockPCs, pri, donate, sema, local
<1> QED BY <1>1, <1>2, <1>3, <1>4, <1>5, <1>6

\* sema_up keeps the types, whatever place its caller goes on at.
LEMMA SemaUpTypes ==
    ASSUME TypeOK, NEW t \in Threads, NEW s \in AllSemas, NEW after \in PCs,
           SemaUp(t, s, after)
    PROVE  /\ current' \in AllThreads
           /\ status' \in [AllThreads -> Statuses]
           /\ ready_list' \in Seq(Threads) /\ woken' \subseteq Threads
           /\ value' \in [AllSemas -> Nat]
           /\ waiters' \in [AllSemas -> Seq(Threads)]
           /\ pc' = [pc EXCEPT ![t] = after]
<1>1. /\ WaitersAfterUp(s) \in Seq(Threads)
      /\ StatusAfterUp(s) \in [AllThreads -> Statuses]
      /\ ReadyListAfterUp(s) \in Seq(Threads)
  BY UpTypes
<1>2. /\ current' \in AllThreads
      /\ status' \in [AllThreads -> Statuses]
      /\ ready_list' \in Seq(Threads) /\ woken' \subseteq Threads
  BY <1>1, YieldTypes DEF SemaUp
<1> QED BY <1>1, <1>2 DEF SemaUp, TypeOK

LEMMA SemaStepTypes ==
    ASSUME Types, NEW t \in Threads,
           \/ \E s \in Semas : CallSemaDown(t, s) \/ CallSemaUp(t, s)
           \/ DownBlocks(t) \/ DownTakes(t)
    PROVE  Types'
<1> USE DEF Types, LocalsFit
<1>0. TypeOK /\ status \in [AllThreads -> Statuses] /\ ready_list \in Seq(Threads)
  BY DEF TypeOK
<1>1. ASSUME NEW s \in Semas, CallSemaDown(t, s) PROVE Types'
  <2>1. s \in AllSemas /\ s # TidLock /\ pc[t] = "user"
    BY <1>1, ConstantFacts DEF AllSemas, CallSemaDown, At
  <2> QED BY <1>1, <2>1, TidLockIsReal
          DEF TypeOK, CallSemaDown, PCs, LockPCs, sched, pri, donate, sema
<1>2. ASSUME NEW s \in Semas, CallSemaUp(t, s) PROVE Types'
  <2>1. s \in AllSemas /\ "user" \in PCs /\ pc[t] = "user"
    BY <1>2 DEF AllSemas, PCs, CallSemaUp, At
  <2>2. /\ current' \in AllThreads /\ status' \in [AllThreads -> Statuses]
        /\ ready_list' \in Seq(Threads) /\ woken' \subseteq Threads /\ value' \in [AllSemas -> Nat]
        /\ waiters' \in [AllSemas -> Seq(Threads)]
        /\ pc' = [pc EXCEPT ![t] = "user"]
    BY <1>0, <1>2, <2>1, SemaUpTypes DEF CallSemaUp
  <2> QED BY <1>2, <2>1, <2>2 DEF TypeOK, CallSemaUp, LockPCs, pri, donate, local
<1>3. CASE DownBlocks(t)
  <2>1. [status EXCEPT ![t] = "BLOCKED"] \in [AllThreads -> Statuses]
    BY <1>0 DEF Statuses
  <2>2. /\ current' \in AllThreads /\ status' \in [AllThreads -> Statuses]
        /\ ready_list' \in Seq(Threads) /\ woken' \subseteq Threads
    BY <1>0, <1>3, <2>1, ScheduleTypes DEF DownBlocks
  <2>3. pc[t] \in {"down", "down_wait"} /\ arg[t] \in AllSemas
    BY <1>3 DEF DownBlocks, At
  <2>4. Append(waiters[arg[t]], t) \in Seq(Threads)
    BY <1>0, <2>3, PushBackElements DEF TypeOK
  <2>5. waiters' \in [AllSemas -> Seq(Threads)]
    BY <1>0, <1>3, <2>4 DEF DownBlocks, TypeOK
  <2>6. pc' = [pc EXCEPT ![t] = "down_wait"]
    BY <1>3 DEF DownBlocks
  <2> QED BY <1>3, <2>2, <2>3, <2>5, <2>6
          DEF TypeOK, DownBlocks, PCs, LockPCs, pri, donate, local
<1>4. CASE DownTakes(t)
  <2>1. pc[t] \in {"down", "down_wait"} /\ arg[t] \in AllSemas /\ value[arg[t]] # 0
    BY <1>4 DEF DownTakes, At, MustWait
  <2>2. value' \in [AllSemas -> Nat]
    BY <1>0, <1>4, <2>1 DEF DownTakes, TypeOK
  <2>3. CASE arg[t] \in Locks
    <3>1. /\ pc' = [pc EXCEPT ![t] = "own"]
          /\ UNCHANGED <<sched, pri, donate, waiters, arg, cur_lock, lock_h_t, new_pri,
                         child, panic>>
      BY <1>4, <2>3 DEF DownTakes
    <3>2. TypeOK'
      BY <1>0, <2>2, <3>1 DEF TypeOK, PCs, sched, pri, donate
    <3>3. LocalsFit'
      BY <1>0, <2>1, <2>3, <3>1 DEF TypeOK, LockPCs
    <3> QED BY <3>2, <3>3
  <2>4. CASE arg[t] \notin Locks
    <3>1. TidLock # NULL
      BY ConstantFacts DEF AllSemas
    <3>2. pc' = [pc EXCEPT ![t] = "user"] /\ arg' = [arg EXCEPT ![t] = NULL]
      BY <1>4, <2>4 DEF DownTakes
    <3>3. TypeOK'
      BY <1>4, <2>2, <3>2 DEF TypeOK, DownTakes, PCs, sched, pri, donate
    <3>4. UNCHANGED child /\ arg[t] # TidLock
      BY <1>4, <2>4, ConstantFacts DEF DownTakes
    <3>5. LocalsFit'
      BY <1>0, <2>1, <3>1, <3>2, <3>4 DEF TypeOK, LockPCs
    <3> QED BY <3>3, <3>5
  <2> QED BY <2>3, <2>4
<1> QED BY <1>1, <1>2, <1>3, <1>4

LEMMA LockAcquireTypes ==
    ASSUME Types, NEW t \in Threads,
           \/ \E l \in Locks \ {TidLock} : CallLockAcquire(t, l)
           \/ \E l \in TryLocks : CallLockTryAcquire(t, l)
           \/ RecordBlockedLock(t) \/ ReadHolder(t) \/ DonateFaults(t)
           \/ DonateSkips(t) \/ DonateComputes(t) \/ DonateTangled(t) \/ DonateWrites(t)
           \/ EndsChain(t) \/ ReadsAgain(t) \/ NextInChain(t)
           \/ LockOwn(t) \/ OwnHolder(t)
    PROVE  Types'
<1> USE DEF Types, LocalsFit
<1>0. TypeOK
  OBVIOUS
<1>1. ASSUME NEW l \in Locks \ {TidLock}, CallLockAcquire(t, l) PROVE Types'
  <2>1. l \in AllSemas /\ l # TidLock /\ pc[t] = "user"
    BY <1>1 DEF AllSemas, CallLockAcquire, At
  <2>2. /\ pc' \in [Threads -> PCs] /\ pc'[t] \in {"down", "blocked"}
        /\ \A u \in Threads \ {t} : pc'[u] = pc[u]
        /\ arg' = [arg EXCEPT ![t] = l]
        /\ UNCHANGED <<sched, pri, donate, sema, cur_lock, lock_h_t, new_pri, child,
                       panic>>
    BY <1>0, <1>1 DEF CallLockAcquire, TestHolder, TypeOK, PCs
  <2>3. TypeOK'
    BY <1>0, <2>1, <2>2 DEF TypeOK, sched, pri, donate, sema
  <2>4. LocalsFit'
    BY <1>0, <2>1, <2>2, TidLockIsReal DEF TypeOK, LockPCs
  <2> QED BY <2>3, <2>4
<1>2. ASSUME NEW l \in TryLocks, CallLockTryAcquire(t, l) PROVE Types'
  <2>1. l \in AllSemas /\ l \in Locks /\ l # TidLock /\ pc[t] = "user"
    BY <1>2, ConstantFacts DEF AllSemas, CallLockTryAcquire, At
  <2>2. value' \in [AllSemas -> Nat]
    BY <1>0, <1>2, <2>1 DEF CallLockTryAcquire, CanTake, TypeOK
  <2>3. /\ pc' = [pc EXCEPT ![t] = "try_own"] /\ arg' = [arg EXCEPT ![t] = l]
        /\ UNCHANGED <<sched, pri, donate, waiters, cur_lock, lock_h_t, new_pri, child,
                       panic>>
    BY <1>2 DEF CallLockTryAcquire
  <2>4. TypeOK'
    BY <1>0, <2>1, <2>2, <2>3 DEF TypeOK, PCs, sched, pri, donate
  <2>5. LocalsFit'
    BY <1>0, <2>1, <2>3, TidLockIsReal DEF TypeOK, LockPCs
  <2> QED BY <2>4, <2>5
<1>3. CASE RecordBlockedLock(t)
  <2>1. pc[t] = "blocked" /\ arg[t] \in Locks
    BY <1>3 DEF RecordBlockedLock, At, LockPCs
  <2> QED BY <1>3, <2>1 DEF TypeOK, RecordBlockedLock, PCs, LockPCs, sched, pri, sema
<1>4. CASE DonateFaults(t)
  BY <1>4 DEF TypeOK, DonateFaults, sched, pri, donate, sema, local
<1>5. CASE ReadHolder(t) \/ EndsChain(t) \/ ReadsAgain(t) \/ NextInChain(t) \/ DonateSkips(t)
  <2>1. pc[t] \in LockPCs /\ arg[t] \in Locks /\ arg[t] \in AllSemas
    BY <1>5 DEF ReadHolder, EndsChain, ReadsAgain, NextInChain, DonateSkips, At, LockPCs, AllSemas
  <2>2. /\ cur_lock' \in [Threads -> Locks \cup {NULL}]
        /\ lock_h_t' \in [Threads -> Threads \cup {NULL}]
        /\ UNCHANGED <<sched, pri, donate, sema, arg, new_pri, child>>
        /\ panic' \in {panic, "null_lock"}
    <3>1. CASE ReadHolder(t)
      <4>1. CASE cur_lock[t] = NULL
        BY <1>0, <3>1, <4>1 DEF ReadHolder, TypeOK
      <4>2. CASE cur_lock[t] # NULL
        <5>1. holder[cur_lock[t]] \in Threads \cup {NULL}
          BY <1>0, <4>2 DEF TypeOK
        <5> QED BY <1>0, <3>1, <4>2, <5>1 DEF ReadHolder, TypeOK
      <4> QED BY <4>1, <4>2
    <3>2. CASE EndsChain(t) \/ ReadsAgain(t) \/ DonateSkips(t)
      BY <1>0, <3>2 DEF EndsChain, ReadsAgain, DonateSkips, TypeOK, local
    <3>3. CASE NextInChain(t)
      BY <1>0, <3>3 DEF NextInChain, HolderLives, TypeOK
    <3> QED BY <1>5, <3>1, <3>2, <3>3
  <2>3. /\ pc' \in [Threads -> PCs] /\ \A u \in Threads \ {t} : pc'[u] = pc[u]
        /\ pc'[t] \in {"link", "donate", "chain", "again", "down"}
    BY <1>0, <1>5 DEF ReadHolder, EndsChain, ReadsAgain, NextInChain, DonateSkips, At, TypeOK, PCs
  <2>4. TypeOK'
    BY <1>0, <2>2, <2>3 DEF TypeOK, sched, pri, donate, sema
  <2>5. LocalsFit'
    BY <1>0, <2>1, <2>2, <2>3 DEF TypeOK, LockPCs
  <2> QED BY <2>4, <2>5
<1>6. CASE DonateTangled(t)
  <2>1. pc[t] = "donate" /\ arg[t] \in Locks
    BY <1>6 DEF DonateTangled, At, LockPCs
  <2>2. max_pri' \in [Locks -> Priorities]
    BY <1>0, <1>6 DEF DonateTangled, MaxPriAfter, TypeOK, AllThreads
  <2>3. /\ new_pri' \in [Threads -> Priorities]
        /\ pc' \in [Threads -> PCs] /\ \A u \in Threads \ {t} : pc'[u] = pc[u]
        /\ pc'[t] \in {"sorting", "donate", "donate_write"}
        /\ panic' \in {panic, "bad_list"}
    <3>1. CASE pc' = [pc EXCEPT ![t] = "sorting"] /\ UNCHANGED <<new_pri, panic>>
      BY <1>0, <3>1 DEF TypeOK, PCs
    <3>2. CASE panic' = "bad_list" /\ UNCHANGED <<pc, new_pri>>
      BY <1>0, <2>1, <3>2 DEF TypeOK
    <3>3. ASSUME NEW front \in {<<>>} \cup {<<l>> : l \in Locks},
                 new_pri' = [new_pri EXCEPT
                                ![t] = DonatedPriority(front, lock_h_t[t], MaxPriAfter(t))],
                 pc' = [pc EXCEPT ![t] = "donate_write"], UNCHANGED panic
          PROVE  /\ new_pri' \in [Threads -> Priorities]
                 /\ pc' \in [Threads -> PCs] /\ \A u \in Threads \ {t} : pc'[u] = pc[u]
                 /\ pc'[t] \in {"sorting", "donate", "donate_write"}
                 /\ panic' \in {panic, "bad_list"}
      <4>1. front # <<>> => Head(front) \in Locks
        OBVIOUS
      <4>2. MaxPriAfter(t) \in [Locks -> Priorities] /\ lock_h_t[t] \in AllThreads
        BY <1>0, <1>6, <2>2 DEF DonateTangled, HolderLives, TypeOK, AllThreads
      <4>3. DonatedPriority(front, lock_h_t[t], MaxPriAfter(t)) \in Priorities
        BY <1>0, <4>1, <4>2 DEF DonatedPriority, TypeOK
      <4> QED BY <1>0, <3>3, <4>3 DEF TypeOK, PCs
    <3> QED BY <1>6, <3>1, <3>2, <3>3 DEF DonateTangled
  <2>4. UNCHANGED <<sched, pri, blocked_lock, lock_list, tangled, holder, sema, arg, cur_lock,
                    lock_h_t, child>>
    BY <1>6 DEF DonateTangled
  <2>5. TypeOK'
    BY <1>0, <2>2, <2>3, <2>4 DEF TypeOK, sched, pri, sema
  <2>6. LocalsFit'
    BY <1>0, <2>1, <2>3, <2>4 DEF TypeOK, LockPCs
  <2> QED BY <2>5, <2>6
<1>7. CASE DonateComputes(t)
  <2> DEFINE h == lock_h_t[t]
             max == [max_pri EXCEPT ![cur_lock[t]] = priority[t]]
             sorted == list_sort(lock_list[h], max)
  <2>1. h \in Threads /\ pc[t] = "donate" /\ arg[t] \in Locks
    BY <1>0, <1>7 DEF DonateComputes, HolderLives, TypeOK, At, LockPCs
  <2>2. max \in [Locks -> Priorities]
    BY <1>0 DEF TypeOK, AllThreads
  <2>3. lock_list[h] \in Seq(Locks) /\ \A l \in Locks : max[l] \in Int
    BY <1>0, <2>1, <2>2, ConstantFacts DEF TypeOK
  <2> HIDE DEF max
  <2>4. sorted \in Seq(Locks)
    BY <2>3, ListSortElements
  <2> HIDE DEF sorted
  <2>5. sorted # <<>> => Head(sorted) \in Locks
    BY <2>4, HeadTailProperties
  <2>6. DonatedPriority(sorted, h, max) \in Priorities
    BY <1>0, <2>1, <2>2, <2>5 DEF DonatedPriority, TypeOK, AllThreads
  <2>7. /\ max_pri' = max /\ lock_list' = [lock_list EXCEPT ![h] = sorted]
        /\ new_pri' = [new_pri EXCEPT ![t] = DonatedPriority(sorted, h, max)]
        /\ pc' = [pc EXCEPT ![t] = "donate_write"]
        /\ UNCHANGED <<sched, pri, blocked_lock, tangled, holder, sema, arg, cur_lock,
                       lock_h_t, child, panic>>
    BY <1>7 DEF DonateComputes, MaxPriAfter, max, sorted
  <2> HIDE DEF h
  <2> QED BY <1>0, <2>1, <2>2, <2>4, <2>6, <2>7
          DEF TypeOK, PCs, LockPCs, sched, pri, sema
<1>8. CASE DonateWrites(t)
  <2>1. priority' \in [AllThreads -> Priorities] /\ new_pri' \in [Threads -> Priorities]
    BY <1>0, <1>8, ConstantFacts DEF DonateWrites, TypeOK
  <2>2. pc[t] = "donate_write" /\ arg[t] \in Locks /\ pc' = [pc EXCEPT ![t] = "chain"]
        /\ UNCHANGED <<sched, original_pri, donate, sema, arg, cur_lock, lock_h_t, child, panic>>
    BY <1>8 DEF DonateWrites, At, LockPCs
  <2> QED BY <1>0, <2>1, <2>2 DEF TypeOK, LockPCs, PCs, sched, donate, sema
<1>9. CASE LockOwn(t)
  <2>1. pc[t] = "own" /\ arg[t] \in Locks
    BY <1>9 DEF LockOwn, At, LockPCs
  <2>2. Append(lock_list[t], arg[t]) \in Seq(Locks) /\ lock_list[t] \in Seq(Locks)
    BY <1>0, <2>1, PushBackElements DEF TypeOK
  <2>3. lock_list' \in [Threads -> Seq(Locks)]
    BY <1>0, <1>9, <2>2 DEF LockOwn, TypeOK
  <2>4. tangled' \in BOOLEAN
    BY <1>0, <1>9 DEF LockOwn, TypeOK
  <2> QED BY <1>9, <2>1, <2>3, <2>4 DEF TypeOK, LockOwn, BlockedLockAfterWait, PCs, LockPCs,
                           sched, pri, sema, local
<1>10. CASE OwnHolder(t)
  <2>1. pc[t] \in {"own_holder", "try_own"} /\ arg[t] \in Locks
    BY <1>10 DEF OwnHolder, At, LockPCs
  <2>2. TidLock # NULL
    BY ConstantFacts DEF AllSemas
  <2> QED BY <1>10, <2>1, <2>2 DEF TypeOK, OwnHolder, PCs, LockPCs, sched, pri, sema
<1> QED BY <1>1, <1>2, <1>3, <1>4, <1>5, <1>6, <1>7, <1>8, <1>9, <1>10

LEMMA LockReleaseTypes ==
    ASSUME Types, NEW t \in Threads,
           \/ \E l \in Locks \ {TidLock} : CallLockRelease(t, l)
           \/ AllocateTid(t)
           \/ ReleasePriority(t) \/ ReleaseHolder(t) \/ ReleaseUp(t)
    PROVE  Types'
<1> USE DEF Types, LocalsFit
<1>0. TypeOK
  OBVIOUS
<1>1. ASSUME NEW l \in Locks, LockRelease(t, l),
             l = TidLock => child[t] \in Threads, child[t] # NULL => l = TidLock
      PROVE  Types'
  <2> DEFINE rest == list_sort(list_remove(lock_list[t], l), max_pri)
  <2>1. lock_list[t] \in Seq(Locks) /\ l \in AllSemas
    BY <1>0 DEF TypeOK, AllSemas
  <2>2. CASE Mlfqs
    <3>1. /\ pc' = [pc EXCEPT ![t] = "rel_holder"]
          /\ arg' = [arg EXCEPT ![t] = l]
          /\ UNCHANGED <<lock_list, new_pri, panic, sched, pri, blocked_lock, tangled, holder,
                         max_pri, sema, cur_lock, lock_h_t, child>>
      BY <1>1, <2>2 DEF LockRelease
    <3>2. TypeOK'
      BY <1>0, <2>1, <3>1 DEF TypeOK, PCs, sched, pri, sema
    <3>3. LocalsFit'
      BY <1>0, <1>1, <3>1, TidLockIsReal DEF TypeOK, LockPCs, AllSemas
    <3> QED BY <3>2, <3>3
  <2>3. CASE ~ Mlfqs /\ l \notin ToSet(lock_list[t])
    BY <1>1, <2>3 DEF TypeOK, LockRelease, sched, pri, sema
  <2>4. CASE ~ Mlfqs /\ l \in ToSet(lock_list[t])
    <3>1. list_remove(lock_list[t], l) \in Seq(Locks)
      BY <2>1, <2>4, RemoveElements
    <3>2. rest \in Seq(Locks)
      BY <1>0, <3>1, KeyTypes, ListSortElements
    <3>3. /\ lock_list' = [lock_list EXCEPT ![t] = rest]
          /\ new_pri' = [new_pri EXCEPT ![t] = DonatedPriority(rest, t, max_pri)]
          /\ pc' = [pc EXCEPT ![t] = "rel_pri"]
          /\ arg' = [arg EXCEPT ![t] = l]
          /\ UNCHANGED <<panic, sched, pri, blocked_lock, tangled, holder, max_pri, sema,
                         cur_lock, lock_h_t, child>>
      BY <1>1, <2>4 DEF LockRelease
    <3> HIDE DEF rest
    <3>4. rest # <<>> => Head(rest) \in Locks
      BY <3>2, HeadTailProperties
    <3>5. DonatedPriority(rest, t, max_pri) \in Priorities
      BY <1>0, <3>4 DEF DonatedPriority, TypeOK, AllThreads
    <3>6. TypeOK'
      BY <1>0, <2>1, <3>2, <3>3, <3>5 DEF TypeOK, PCs, sched, pri, sema
    <3>7. LocalsFit'
      BY <1>0, <1>1, <3>3 DEF TypeOK, LockPCs
    <3> QED BY <3>6, <3>7
  <2> QED BY <2>2, <2>3, <2>4
<1>2. ASSUME NEW l \in Locks \ {TidLock}, CallLockRelease(t, l) PROVE Types'
  <2>1. pc[t] = "user" /\ LockRelease(t, l)
    BY <1>2 DEF CallLockRelease, At
  <2>2. child[t] = NULL
    BY <2>1, TidLockIsReal DEF LockPCs
  <2> QED BY <1>1, <2>1, <2>2
<1>3. CASE AllocateTid(t)
  <2>1. child[t] \in Threads /\ TidLock \in Locks
    BY <1>3, ConstantFacts DEF AllocateTid, At
  <2> QED BY <1>1, <1>3, <2>1 DEF AllocateTid
<1>4. CASE ReleasePriority(t)
  <2>1. pc[t] = "rel_pri" /\ arg[t] \in Locks
    BY <1>4 DEF ReleasePriority, At, LockPCs
  <2> QED BY <1>4, <2>1, ConstantFacts
          DEF TypeOK, ReleasePriority, PCs, LockPCs, sched, donate, sema, AllThreads
<1>5. CASE ReleaseHolder(t)
  <2>1. pc[t] = "rel_holder" /\ arg[t] \in Locks
    BY <1>5 DEF ReleaseHolder, At, LockPCs
  <2> QED BY <1>5, <2>1 DEF TypeOK, ReleaseHolder, PCs, LockPCs, sched, pri, sema, local
<1>6. CASE ReleaseUp(t)
  <2> DEFINE after == IF arg[t] = TidLock THEN "create_unblock" ELSE "user"
  <2>1. pc[t] = "up" /\ arg[t] \in Locks /\ arg[t] \in AllSemas /\ after \in PCs
    BY <1>6 DEF ReleaseUp, At, LockPCs, PCs, AllSemas
  <2>2. SemaUp(t, arg[t], after)
    BY <1>6 DEF ReleaseUp
  <2>3. after \in {"create_unblock", "user"}
        /\ (after = "create_unblock" <=> arg[t] = TidLock)
    OBVIOUS
  <2> HIDE DEF after
  <2>4. /\ current' \in AllThreads /\ status' \in [AllThreads -> Statuses]
        /\ ready_list' \in Seq(Threads) /\ woken' \subseteq Threads /\ value' \in [AllSemas -> Nat]
        /\ waiters' \in [AllSemas -> Seq(Threads)]
        /\ pc' = [pc EXCEPT ![t] = after]
    BY <1>0, <2>1, <2>2, SemaUpTypes
  <2>5. arg' = [arg EXCEPT ![t] = NULL] /\ TidLock # NULL
        /\ UNCHANGED <<pri, donate, cur_lock, lock_h_t, new_pri, child, panic>>
    BY <1>6, ConstantFacts DEF ReleaseUp, AllSemas
  <2>6. TypeOK'
    BY <1>0, <2>1, <2>4, <2>5 DEF TypeOK, pri, donate
  <2>7. LocalsFit'
    BY <1>0, <2>1, <2>3, <2>4, <2>5 DEF TypeOK, LockPCs
  <2> QED BY <2>6, <2>7
<1> QED BY <1>2, <1>3, <1>4, <1>5, <1>6

LEMMA ThreadStepTypes ==
    ASSUME Types, NEW t \in Threads,
           \/ \E c \in Threads, p \in Priorities : CallThreadCreate(t, c, p)
           \/ CreateUnblocks(t) \/ CreateYields(t)
           \/ \E p \in NewPriorities : CallSetPriority(t, p)
           \/ SetPriorityWrites(t) \/ SetOriginalWrites(t) \/ SetPriorityYields(t)
           \/ CallThreadExit(t) \/ CallSleep(t)
    PROVE  Types'
<1> USE DEF Types, LocalsFit
<1>0. TypeOK /\ status \in [AllThreads -> Statuses] /\ ready_list \in Seq(Threads)
      /\ Threads \subseteq AllThreads
  BY DEF TypeOK, AllThreads
<1>1. ASSUME NEW c \in Threads, NEW p \in Priorities, CallThreadCreate(t, c, p)
      PROVE  Types'
  <2>1. TidLock \in Locks /\ TidLock \in AllSemas /\ pc[t] = "user"
    BY <1>1, ConstantFacts DEF AllSemas, CallThreadCreate, At
  <2>2. pc' \in [Threads -> PCs] /\ pc'[t] \in {"down", "blocked"}
        /\ arg' = [arg EXCEPT ![t] = TidLock] /\ child' = [child EXCEPT ![t] = c]
        /\ \A u \in Threads \ {t} : pc'[u] = pc[u]
    BY <1>0, <1>1 DEF CallThreadCreate, TestHolder, TypeOK, PCs
  <2>3. /\ lock_list' \in [Threads -> Seq(Locks)]
        /\ blocked_lock' \in [Threads -> Locks \cup {NULL}]
        /\ priority' \in [AllThreads -> Priorities]
        /\ original_pri' \in [AllThreads -> Priorities]
        /\ status' \in [AllThreads -> Statuses]
    <3>1. <<>> \in Seq(Locks)
      BY EmptySeq
    <3> QED BY <1>0, <1>1, <3>1 DEF CallThreadCreate, TypeOK, Statuses
  <2>4. UNCHANGED <<current, ready_list, woken, tangled, holder, max_pri, sema, cur_lock,
                    lock_h_t, new_pri, panic>>
    BY <1>1 DEF CallThreadCreate
  <2>5. TypeOK'
    BY <1>0, <2>1, <2>2, <2>3, <2>4 DEF TypeOK, sema
  <2>6. LocalsFit'
    BY <1>0, <2>1, <2>2 DEF TypeOK, LockPCs
  <2> QED BY <2>5, <2>6
<1>2. CASE CreateUnblocks(t)
  <2>1. pc[t] = "create_unblock" /\ child[t] \in Threads
    BY <1>2 DEF CreateUnblocks, At
  <2>2. ready_list' \in Seq(Threads) /\ status' \in [AllThreads -> Statuses]
    BY <1>0, <1>2, <2>1, KeyTypes, InsertOrderedElements DEF CreateUnblocks, Statuses
  <2> QED BY <1>2, <2>1, <2>2 DEF TypeOK, CreateUnblocks, PCs, LockPCs, pri, donate,
                                 sema, local
<1>3. CASE CreateYields(t)
  <2>1. pc[t] = "create_yield" /\ arg[t] = NULL /\ TidLock # NULL
    BY <1>3, ConstantFacts DEF CreateYields, At, LockPCs, AllSemas
  <2>2. /\ current' \in AllThreads /\ status' \in [AllThreads -> Statuses]
        /\ ready_list' \in Seq(Threads) /\ woken' \subseteq Threads
    BY <1>0, <1>3, YieldTypes DEF CreateYields, TypeOK, sched
  <2> QED BY <1>3, <2>1, <2>2 DEF TypeOK, CreateYields, PCs, LockPCs, pri, donate, sema
<1>4. ASSUME NEW p \in NewPriorities, CallSetPriority(t, p) PROVE Types'
  <2>1. pc[t] = "user" /\ p \in Priorities
    BY <1>4, ConstantFacts DEF CallSetPriority, At
  <2> QED BY <1>4, <2>1 DEF TypeOK, CallSetPriority, PCs, LockPCs, sched, pri, donate,
                           sema
<1>5. CASE SetPriorityWrites(t)
  <2>1. pc[t] \in {"set_empty", "set_raise"}
    BY <1>5 DEF SetPriorityWrites, At
  <2>2. pc' \in [Threads -> PCs] /\ pc'[t] \in {"copy_pri", "raise_original"}
        /\ \A u \in Threads \ {t} : pc'[u] = pc[u]
    <3>1. CASE pc' = [pc EXCEPT ![t] = "copy_pri"]
      BY <1>0, <3>1 DEF TypeOK, PCs
    <3>2. CASE pc' = [pc EXCEPT ![t] = "raise_original"]
      BY <1>0, <3>2 DEF TypeOK, PCs
    <3> QED BY <1>5, <3>1, <3>2 DEF SetPriorityWrites
  <2>3. priority' = [priority EXCEPT ![t] = new_pri[t]]
        /\ UNCHANGED <<sched, original_pri, donate, sema, local, panic>>
    BY <1>5 DEF SetPriorityWrites
  <2>4. TypeOK'
    BY <1>0, <2>2, <2>3 DEF TypeOK, sched, donate, sema, local
  <2>5. LocalsFit'
    BY <1>0, <2>1, <2>2, <2>3 DEF TypeOK, LockPCs, local
  <2> QED BY <2>4, <2>5
<1>6. CASE SetOriginalWrites(t)
  <2>1. pc[t] \in {"copy_pri", "raise_original", "set_original"}
        /\ \E place \in {"yield", "user"} : pc' = [pc EXCEPT ![t] = place]
        /\ \/ original_pri' = [original_pri EXCEPT ![t] = priority[t]]
           \/ original_pri' = [original_pri EXCEPT ![t] = new_pri[t]]
        /\ new_pri' = [new_pri EXCEPT ![t] = 0]
    BY <1>6, Zenon DEF SetOriginalWrites, At
  <2>2. /\ pc' \in [Threads -> PCs] /\ pc'[t] \in {"yield", "user"}
        /\ \A u \in Threads \ {t} : pc'[u] = pc[u]
        /\ original_pri' \in [AllThreads -> Priorities]
        /\ new_pri' \in [Threads -> Priorities]
    <3>1. PICK place \in {"yield", "user"} : pc' = [pc EXCEPT ![t] = place]
      BY <2>1
    <3>2. pc' \in [Threads -> PCs] /\ pc'[t] \in {"yield", "user"}
          /\ \A u \in Threads \ {t} : pc'[u] = pc[u]
      BY <1>0, <3>1 DEF TypeOK, PCs
    <3>3. priority[t] \in Priorities /\ new_pri[t] \in Priorities /\ 0 \in Priorities
      BY <1>0, ConstantFacts DEF TypeOK
    <3>4. original_pri \in [AllThreads -> Priorities]
          /\ new_pri \in [Threads -> Priorities]
      BY <1>0 DEF TypeOK
    <3>5. new_pri' \in [Threads -> Priorities]
      BY <2>1, <3>3, <3>4
    <3>6. PICK p \in Priorities : original_pri' = [original_pri EXCEPT ![t] = p]
      BY <2>1, <3>3
    <3>7. original_pri' \in [AllThreads -> Priorities]
      BY <3>4, <3>6
    <3> QED BY <3>2, <3>5, <3>7
  <2>3. UNCHANGED <<sched, priority, donate, sema, arg, cur_lock, lock_h_t,
                    child, panic>>
    BY <1>6 DEF SetOriginalWrites
  <2> QED BY <1>0, <2>1, <2>2, <2>3 DEF TypeOK, LockPCs, sched, donate, sema
<1>7. CASE SetPriorityYields(t)
  <2>1. pc[t] = "yield"
    BY <1>7 DEF SetPriorityYields, At
  <2>2. /\ current' \in AllThreads /\ status' \in [AllThreads -> Statuses]
        /\ ready_list' \in Seq(Threads) /\ woken' \subseteq Threads
    BY <1>0, <1>7, YieldTypes DEF SetPriorityYields
  <2> QED BY <1>7, <2>1, <2>2 DEF TypeOK, SetPriorityYields, PCs, LockPCs, pri,
                                 donate, sema, local
<1>8. CASE CallThreadExit(t)
  <2> DEFINE st == [status EXCEPT ![t] = IF t = Main THEN "DYING" ELSE "FREE"]
  <2>1. st \in [AllThreads -> Statuses] /\ Schedule(st, ready_list)
    BY <1>0, <1>8 DEF CallThreadExit, Statuses
  <2>2. /\ current' \in AllThreads /\ status' \in [AllThreads -> Statuses]
        /\ ready_list' \in Seq(Threads) /\ woken' \subseteq Threads
    BY <1>0, <2>1, ScheduleTypes
  <2> QED BY <1>8, <2>2, ConstantFacts DEF TypeOK, CallThreadExit, donate, sema, local
<1>9. CASE CallSleep(t)
  <2>1. [status EXCEPT ![t] = "BLOCKED"] \in [AllThreads -> Statuses] /\ pc[t] = "user"
        /\ Schedule([status EXCEPT ![t] = "BLOCKED"], ready_list)
        /\ pc' = [pc EXCEPT ![t] = "asleep"] /\ UNCHANGED <<pri, donate, sema, local, panic>>
    BY <1>0, <1>9 DEF CallSleep, Statuses, At
  <2>2. /\ current' \in AllThreads /\ status' \in [AllThreads -> Statuses]
        /\ ready_list' \in Seq(Threads) /\ woken' \subseteq Threads
    BY <1>0, <2>1, ScheduleTypes
  <2> QED BY <1>0, <2>1, <2>2 DEF TypeOK, PCs, LockPCs, pri, donate, sema, local
<1> QED BY <1>1, <1>2, <1>3, <1>4, <1>5, <1>6, <1>7, <1>8, <1>9

LEMMA InitTypes == Init => Types
<1> SUFFICES ASSUME Init PROVE Types
  OBVIOUS
<1>1. <<>> \in Seq(Threads) /\ <<>> \in Seq(Locks)
  BY EmptySeq
<1>2. TypeOK
  BY <1>1, ConstantFacts DEF Init, TypeOK, AllThreads, Statuses, PCs
<1>3. LocalsFit
  BY ConstantFacts DEF Init, LocalsFit, LockPCs, AllSemas
<1> QED BY <1>2, <1>3 DEF Types

LEMMA NextTypes == Types /\ [Next]_vars => Types'
<1> SUFFICES ASSUME Types, [Next]_vars PROVE Types'
  OBVIOUS
<1>1. CASE UNCHANGED vars
  BY <1>1 DEF Types, TypeOK, LocalsFit, vars, sched, pri, donate, sema, local
<1>2. CASE \/ Preempt \/ IdleBlock \/ MlfqsTick \/ Halted
           \/ \E s \in IntrSemas : IntrSemaUp(s)
           \/ \E t \in Threads : InterruptWakes(t)
  BY <1>2, KernelStepTypes
<1>3. ASSUME NEW t \in Threads, UserCall(t) \/ Step(t) PROVE Types'
  BY <1>3, SemaStepTypes, LockAcquireTypes, LockReleaseTypes, ThreadStepTypes
     DEF UserCall, Step
<1> QED BY <1>1, <1>2, <1>3 DEF Next

\* Every variable keeps its type, whatever the numbers of threads, locks,
\* semaphores and priorities: sema_down never decrements a value of 0, and no
\* list of the scheduler ever has anything but threads on it.
THEOREM TypeCorrect == Spec => []TypeOK
<1>1. Spec => []Types
  BY InitTypes, NextTypes, PTL DEF Spec
<1>2. Types => TypeOK
  BY DEF Types
<1> QED BY <1>1, <1>2, PTL

-----------------------------------------------------------------------------
(* Mutual exclusion.                                                       *)

\* LockExclusion is not inductive: a thread on its way out of lock_release
\* must still be the holder when it clears holder, and must not be the holder
\* any more when it calls sema_up.
ReleasersHold ==
    \A t \in Threads :
        /\ pc[t] \in {"rel_pri", "rel_holder"} => holder[arg[t]] = t
        /\ pc[t] = "up" => holder[arg[t]] # t

Locking == LockExclusion /\ ReleasersHold

OwnPCs == {"own", "own_holder", "try_own", "up"}

\* LockExclusion, in a form that is easier to use and to establish.
LEMMA LockExclusionSplit ==
    LockExclusion <=>
        \A l \in Locks :
            /\ value[l] \in {0, 1}
            /\ value[l] = 0 => \E t \in Threads : Owns(t, l)
            /\ value[l] = 1 => \A t \in Threads : ~ Owns(t, l)
            /\ \A t, u \in Threads : Owns(t, l) /\ Owns(u, l) => t = u
BY DEF LockExclusion

\* Steps that leave every lock as it is.
LEMMA OwnersKept ==
    ASSUME Locking, ReleasersHold',
           \A l \in Locks : value'[l] = value[l],
           \A t \in Threads, l \in Locks : Owns(t, l)' <=> Owns(t, l)
    PROVE  Locking'
BY LockExclusionSplit DEF Locking, LockExclusion

LEMMA LocksUntouched ==
    ASSUME Locking, UNCHANGED <<holder, pc, arg>>,
           \A l \in Locks : value'[l] = value[l]
    PROVE  Locking'
<1>1. \A t \in Threads, l \in Locks : Owns(t, l)' <=> Owns(t, l)
  BY DEF Owns
<1>2. ReleasersHold'
  BY DEF Locking, ReleasersHold
<1> QED BY <1>1, <1>2, OwnersKept

\* A step of a thread that is not inside a lock's code, nor enters it.
LEMMA LocksElsewhere ==
    ASSUME Locking, NEW t \in Threads, UNCHANGED holder,
           \A l \in Locks : value'[l] = value[l],
           \A u \in Threads \ {t} : pc'[u] = pc[u] /\ arg'[u] = arg[u],
           pc[t] \notin OwnPCs, pc'[t] \notin OwnPCs \cup {"rel_pri", "rel_holder"}
    PROVE  Locking'
<1>1. \A u \in Threads, l \in Locks : Owns(u, l)' <=> Owns(u, l)
  BY DEF Owns, OwnPCs
<1>2. ReleasersHold'
  BY DEF Locking, ReleasersHold, OwnPCs
<1> QED BY <1>1, <1>2, OwnersKept

\* sema_down or sema_try_down takes the value of a lock: nobody owned it.
LEMMA LockTaken ==
    ASSUME Types, Locking, NEW t \in Threads, NEW l \in Locks, value[l] # 0,
           value' = [value EXCEPT ![l] = @ - 1], UNCHANGED holder,
           pc[t] \notin OwnPCs, pc'[t] \in {"own", "try_own"}, arg'[t] = l,
           \A u \in Threads \ {t} : pc'[u] = pc[u] /\ arg'[u] = arg[u]
    PROVE  Locking'
<1>1. value[l] = 1 /\ \A u \in Threads : ~ Owns(u, l)
  BY LockExclusionSplit DEF Locking
<1>2. value'[l] = 0 /\ \A m \in Locks \ {l} : value'[m] = value[m]
  BY <1>1 DEF Types, TypeOK, AllSemas
<1>3. \A u \in Threads : Owns(u, l)' <=> u = t
  BY <1>1 DEF Owns, OwnPCs
<1>4. \A u \in Threads, m \in Locks \ {l} : Owns(u, m)' <=> Owns(u, m)
  BY DEF Owns, OwnPCs
<1>5. \A m \in Locks : /\ value'[m] = IF \E u \in Threads : Owns(u, m)' THEN 0 ELSE 1
                       /\ \A u, v \in Threads : Owns(u, m)' /\ Owns(v, m)' => u = v
  BY <1>2, <1>3, <1>4, LockExclusionSplit DEF Locking
<1>6. ReleasersHold'
  BY DEF Locking, ReleasersHold
<1> QED BY <1>5, <1>6 DEF Locking, LockExclusion

LEMMA KernelStepLocking ==
    ASSUME Types, Locking,
           \/ Preempt \/ IdleBlock \/ MlfqsTick \/ Halted
           \/ \E s \in IntrSemas : IntrSemaUp(s)
           \/ \E t \in Threads : InterruptWakes(t)
    PROVE  Locking'
<1>1. CASE Preempt \/ IdleBlock \/ MlfqsTick \/ Halted
  <2>1. UNCHANGED <<holder, pc, arg, value>>
    BY <1>1 DEF Preempt, IdleBlock, MlfqsTick, Halted, vars, sema, donate, local
  <2> QED BY <2>1, LocksUntouched
<1>2. ASSUME NEW s \in IntrSemas, IntrSemaUp(s) PROVE Locking'
  <2>1. UNCHANGED <<holder, pc, arg>> /\ value' = [value EXCEPT ![s] = @ + 1]
    BY <1>2 DEF IntrSemaUp, donate, local
  <2>2. \A l \in Locks : value'[l] = value[l]
    BY <2>1, ConstantFacts DEF Types, TypeOK, AllSemas
  <2> QED BY <2>1, <2>2, LocksUntouched
<1>3. ASSUME NEW t \in Threads, InterruptWakes(t) PROVE Locking'
  <2>1. /\ UNCHANGED <<holder, value, arg>> /\ pc[t] = "asleep"
        /\ pc' = [pc EXCEPT ![t] = "user"]
    BY <1>3 DEF InterruptWakes, donate, sema, local
  <2>2. pc \in [Threads -> PCs]
    BY DEF Types, TypeOK
  <2> QED BY <2>1, <2>2, LocksElsewhere DEF OwnPCs
<1> QED BY <1>1, <1>2, <1>3

LEMMA SemaStepLocking ==
    ASSUME Types, Locking, NEW t \in Threads,
           \/ \E s \in Semas : CallSemaDown(t, s) \/ CallSemaUp(t, s)
           \/ DownBlocks(t) \/ DownTakes(t)
    PROVE  Locking'
<1>0. pc \in [Threads -> PCs] /\ arg \in [Threads -> AllSemas \cup {NULL}]
      /\ value \in [AllSemas -> Nat]
  BY DEF Types, TypeOK
<1>1. ASSUME NEW s \in Semas, CallSemaDown(t, s) PROVE Locking'
  <2>1. /\ UNCHANGED <<holder, value>> /\ pc[t] = "user"
        /\ pc' = [pc EXCEPT ![t] = "down"] /\ arg' = [arg EXCEPT ![t] = s]
    BY <1>1 DEF CallSemaDown, At, donate, sema
  <2> QED BY <1>0, <2>1, LocksElsewhere DEF OwnPCs
<1>2. ASSUME NEW s \in Semas, CallSemaUp(t, s) PROVE Locking'
  <2>1. /\ UNCHANGED <<holder, arg>> /\ pc[t] = "user"
        /\ pc' = [pc EXCEPT ![t] = "user"] /\ value' = [value EXCEPT ![s] = @ + 1]
    BY <1>2 DEF CallSemaUp, SemaUp, At, donate, local
  <2>2. \A l \in Locks : value'[l] = value[l]
    BY <1>0, <2>1, ConstantFacts DEF AllSemas
  <2>3. pc' = pc
    BY <1>0, <2>1
  <2> QED BY <2>1, <2>2, <2>3, LocksUntouched
<1>3. CASE DownBlocks(t)
  <2>1. /\ UNCHANGED <<holder, arg, value>> /\ pc[t] \in {"down", "down_wait"}
        /\ pc' = [pc EXCEPT ![t] = "down_wait"]
    BY <1>3 DEF DownBlocks, At, donate, local
  <2> QED BY <1>0, <2>1, LocksElsewhere DEF OwnPCs
<1>4. CASE DownTakes(t)
  <2>1. /\ UNCHANGED holder /\ pc[t] \in {"down", "down_wait"} /\ arg[t] \in AllSemas
        /\ value' = [value EXCEPT ![arg[t]] = @ - 1] /\ value[arg[t]] # 0
    BY <1>4 DEF DownTakes, At, MustWait, donate, Types, LocalsFit
  <2>2. CASE arg[t] \in Locks
    <3>1. pc' = [pc EXCEPT ![t] = "own"] /\ UNCHANGED arg
      BY <1>4, <2>2 DEF DownTakes
    <3> QED BY <1>0, <2>1, <2>2, <3>1, LockTaken DEF OwnPCs
  <2>3. CASE arg[t] \notin Locks
    <3>1. pc' = [pc EXCEPT ![t] = "user"] /\ arg' = [arg EXCEPT ![t] = NULL]
      BY <1>4, <2>3 DEF DownTakes
    <3>2. \A l \in Locks : value'[l] = value[l]
      BY <1>0, <2>1, <2>3 DEF AllSemas
    <3> QED BY <1>0, <2>1, <3>1, <3>2, LocksElsewhere DEF OwnPCs
  <2> QED BY <2>2, <2>3
<1> QED BY <1>1, <1>2, <1>3, <1>4

LEMMA LockAcquireLocking ==
    ASSUME Types, Locking, NEW t \in Threads,
           \/ \E l \in Locks \ {TidLock} : CallLockAcquire(t, l)
           \/ \E l \in TryLocks : CallLockTryAcquire(t, l)
           \/ RecordBlockedLock(t) \/ ReadHolder(t) \/ DonateFaults(t)
           \/ DonateSkips(t) \/ DonateComputes(t) \/ DonateTangled(t)
           \/ DonateWrites(t) \/ EndsChain(t) \/ ReadsAgain(t) \/ NextInChain(t)
           \/ LockOwn(t) \/ OwnHolder(t)
    PROVE  Locking'
<1>0. pc \in [Threads -> PCs] /\ arg \in [Threads -> AllSemas \cup {NULL}]
      /\ value \in [AllSemas -> Nat] /\ holder \in [Locks -> Threads \cup {NULL}]
  BY DEF Types, TypeOK
<1>1. ASSUME NEW l \in Locks \ {TidLock}, CallLockAcquire(t, l) PROVE Locking'
  <2>1. /\ UNCHANGED <<holder, value>> /\ pc[t] = "user"
        /\ \E place \in {"down", "blocked"} : pc' = [pc EXCEPT ![t] = place]
        /\ arg' = [arg EXCEPT ![t] = l]
    BY <1>1 DEF CallLockAcquire, TestHolder, At, donate, sema
  <2> QED BY <1>0, <2>1, LocksElsewhere DEF OwnPCs
<1>2. ASSUME NEW l \in TryLocks, CallLockTryAcquire(t, l) PROVE Locking'
  <2>1. l \in Locks /\ value[l] # 0
    BY <1>0, <1>2, ConstantFacts DEF CallLockTryAcquire, CanTake, AllSemas
  <2>2. /\ UNCHANGED holder /\ pc[t] = "user"
        /\ value' = [value EXCEPT ![l] = @ - 1]
        /\ pc' = [pc EXCEPT ![t] = "try_own"] /\ arg' = [arg EXCEPT ![t] = l]
    BY <1>2 DEF CallLockTryAcquire, At, donate
  <2> QED BY <1>0, <2>1, <2>2, LockTaken DEF OwnPCs
<1>3. CASE DonateFaults(t)
  BY <1>3, LocksUntouched DEF DonateFaults, donate, sema, local
<1> DEFINE Donating == {"blocked", "link", "donate", "donate_write", "chain", "again",
                        "sorting", "down"}
           Donates == /\ UNCHANGED <<holder, value, arg>> /\ pc[t] \in Donating
                      /\ \E place \in Donating : pc' = [pc EXCEPT ![t] = place]
<1>4. Donates => Locking'
  BY <1>0, LocksElsewhere DEF OwnPCs
<1>5. \/ RecordBlockedLock(t) \/ DonateSkips(t) \/ DonateComputes(t)
      \/ DonateWrites(t) \/ EndsChain(t) \/ ReadsAgain(t)
      => Donates
  BY DEF RecordBlockedLock, DonateSkips, DonateComputes, DonateWrites, EndsChain,
         ReadsAgain, At, donate, sema, local
<1>6. ReadHolder(t) \/ DonateTangled(t) \/ NextInChain(t) => Donates
  <2> SUFFICES ASSUME ReadHolder(t) \/ DonateTangled(t) \/ NextInChain(t)
               PROVE  Donates
    OBVIOUS
  <2>1. UNCHANGED <<holder, value, arg>>
    BY DEF ReadHolder, DonateTangled, NextInChain, donate, sema
  <2>2. pc[t] \in Donating
    BY DEF ReadHolder, DonateTangled, NextInChain, At
  <2>3. UNCHANGED pc \/ \E place \in Donating : pc' = [pc EXCEPT ![t] = place]
    BY Zenon DEF ReadHolder, DonateTangled, NextInChain
  <2> QED BY <1>0, <2>1, <2>2, <2>3
<1>7. CASE LockOwn(t)
  <2>1. /\ UNCHANGED <<holder, value, arg>> /\ pc[t] = "own"
        /\ pc' = [pc EXCEPT ![t] = "own_holder"]
    BY <1>7 DEF LockOwn, At, sema, local
  <2>2. \A u \in Threads, l \in Locks : Owns(u, l)' <=> Owns(u, l)
    BY <1>0, <2>1 DEF Owns
  <2>3. ReleasersHold'
    BY <1>0, <2>1 DEF Locking, ReleasersHold
  <2> QED BY <2>1, <2>2, <2>3, OwnersKept
<1>8. CASE OwnHolder(t)
  <2>1. /\ UNCHANGED value /\ pc[t] \in {"own_holder", "try_own"} /\ arg[t] \in Locks
        /\ holder' = [holder EXCEPT ![arg[t]] = t]
        /\ \E place \in {"tid", "user"} : pc' = [pc EXCEPT ![t] = place]
        /\ arg' = [arg EXCEPT ![t] = NULL]
    BY <1>8 DEF OwnHolder, At, sema, Types, LocalsFit, LockPCs
  <2>2. Owns(t, arg[t]) /\ \A u \in Threads : Owns(u, arg[t]) => u = t
    BY <2>1, LockExclusionSplit DEF Owns, Locking
  <2>3. \A u \in Threads : ~ (pc[u] \in {"up", "rel_pri", "rel_holder"} /\ arg[u] = arg[t])
    BY <2>1, <2>2 DEF Owns, Locking, ReleasersHold
  <2>4. \A u \in Threads, l \in Locks : Owns(u, l)' <=> Owns(u, l)
    <3> SUFFICES ASSUME NEW u \in Threads, NEW l \in Locks
                 PROVE  Owns(u, l)' <=> Owns(u, l)
      OBVIOUS
    <3>1. CASE l = arg[t]
      BY <1>0, <2>1, <2>2, <3>1 DEF Owns
    <3>2. CASE l # arg[t]
      BY <1>0, <2>1, <3>2 DEF Owns
    <3> QED BY <3>1, <3>2
  <2>5. ReleasersHold'
    BY <1>0, <2>1, <2>3 DEF Locking, ReleasersHold
  <2> QED BY <2>1, <2>4, <2>5, OwnersKept
<1> QED BY <1>1, <1>2, <1>3, <1>4, <1>5, <1>6, <1>7, <1>8

LEMMA LockReleaseLocking ==
    ASSUME Types, Locking, NEW t \in Threads,
           \/ \E l \in Locks \ {TidLock} : CallLockRelease(t, l)
           \/ AllocateTid(t)
           \/ ReleasePriority(t) \/ ReleaseHolder(t) \/ ReleaseUp(t)
    PROVE  Locking'
<1>0. pc \in [Threads -> PCs] /\ arg \in [Threads -> AllSemas \cup {NULL}]
      /\ value \in [AllSemas -> Nat] /\ holder \in [Locks -> Threads \cup {NULL}]
  BY DEF Types, TypeOK
<1>1. ASSUME NEW l \in Locks, LockRelease(t, l), pc[t] \in {"user", "tid"}
      PROVE  Locking'
  <2>1. holder[l] = t /\ UNCHANGED <<holder, value>>
    BY <1>1 DEF LockRelease, sema
  <2>2. CASE UNCHANGED <<pc, arg>>
    BY <2>1, <2>2, LocksUntouched
  <2>3. CASE /\ \E place \in {"rel_pri", "rel_holder"} : pc' = [pc EXCEPT ![t] = place]
             /\ arg' = [arg EXCEPT ![t] = l]
    <3>1. \A u \in Threads, m \in Locks : Owns(u, m)' <=> Owns(u, m)
      BY <1>0, <1>1, <2>1, <2>3 DEF Owns
    <3>2. ReleasersHold'
      BY <1>0, <1>1, <2>1, <2>3 DEF Locking, ReleasersHold
    <3> QED BY <2>1, <3>1, <3>2, OwnersKept
  <2>4. \/ UNCHANGED <<pc, arg>>
        \/ /\ \E place \in {"rel_pri", "rel_holder"} : pc' = [pc EXCEPT ![t] = place]
           /\ arg' = [arg EXCEPT ![t] = l]
    BY <1>1, Zenon DEF LockRelease
  <2> QED BY <2>2, <2>3, <2>4
<1>2. ASSUME NEW l \in Locks \ {TidLock}, CallLockRelease(t, l) PROVE Locking'
  BY <1>1, <1>2 DEF CallLockRelease, At
<1>3. CASE AllocateTid(t)
  BY <1>1, <1>3, ConstantFacts DEF AllocateTid, At
<1>4. CASE ReleasePriority(t)
  <2>1. /\ UNCHANGED <<holder, value, arg>> /\ pc[t] = "rel_pri"
        /\ pc' = [pc EXCEPT ![t] = "rel_holder"]
    BY <1>4 DEF ReleasePriority, At, donate, sema
  <2>2. \A u \in Threads, l \in Locks : Owns(u, l)' <=> Owns(u, l)
    BY <1>0, <2>1 DEF Owns
  <2>3. ReleasersHold'
    BY <1>0, <2>1 DEF Locking, ReleasersHold
  <2> QED BY <2>1, <2>2, <2>3, OwnersKept
<1>5. CASE ReleaseHolder(t)
  <2>1. /\ UNCHANGED <<value, arg>> /\ pc[t] = "rel_holder" /\ arg[t] \in Locks
        /\ holder' = [holder EXCEPT ![arg[t]] = NULL]
        /\ pc' = [pc EXCEPT ![t] = "up"]
    BY <1>5 DEF ReleaseHolder, At, sema, local, Types, LocalsFit, LockPCs
  <2>2. holder[arg[t]] = t
    BY <2>1 DEF Locking, ReleasersHold
  <2>3. Owns(t, arg[t]) /\ \A u \in Threads : Owns(u, arg[t]) => u = t
    BY <2>1, <2>2, LockExclusionSplit DEF Owns, Locking
  <2>4. \A u \in Threads : u # t /\ pc[u] \in {"rel_pri", "rel_holder"} => arg[u] # arg[t]
    BY <2>2 DEF Locking, ReleasersHold
  <2>5. \A u \in Threads, l \in Locks : Owns(u, l)' <=> Owns(u, l)
    <3> SUFFICES ASSUME NEW u \in Threads, NEW l \in Locks
                 PROVE  Owns(u, l)' <=> Owns(u, l)
      OBVIOUS
    <3>1. CASE l = arg[t]
      <4>1. NULL \notin Threads
        BY ConstantFacts DEF AllThreads
      <4> QED BY <1>0, <2>1, <2>2, <2>3, <3>1, <4>1 DEF Owns
    <3>2. CASE l # arg[t]
      BY <1>0, <2>1, <3>2 DEF Owns
    <3> QED BY <3>1, <3>2
  <2>6. ReleasersHold'
    <3>1. NULL \notin Threads
      BY ConstantFacts DEF AllThreads
    <3> QED BY <1>0, <2>1, <2>4, <3>1 DEF Locking, ReleasersHold
  <2> QED BY <2>1, <2>5, <2>6, OwnersKept
<1>6. CASE ReleaseUp(t)
  <2>1. /\ UNCHANGED holder /\ pc[t] = "up" /\ arg[t] \in Locks /\ arg[t] \in AllSemas
        /\ value' = [value EXCEPT ![arg[t]] = @ + 1]
        /\ \E place \in {"create_unblock", "user"} : pc' = [pc EXCEPT ![t] = place]
        /\ arg' = [arg EXCEPT ![t] = NULL]
    BY <1>6 DEF ReleaseUp, SemaUp, At, donate, Types, LocalsFit, LockPCs, AllSemas
  <2>0. PICK m \in Locks : m = arg[t]
    BY <2>1
  <2>2. holder[m] # t /\ Owns(t, m)
        /\ \A u \in Threads : Owns(u, m) => u = t
    BY <2>0, <2>1, LockExclusionSplit DEF Owns, Locking, ReleasersHold
  <2>3. value[m] = 0 /\ \A l \in Locks : value[l] \in {0, 1}
    BY <2>1, <2>2, LockExclusionSplit DEF Locking
  <2>4. value'[m] = 1 /\ \A l \in Locks \ {m} : value'[l] = value[l]
    BY <1>0, <2>0, <2>1, <2>3 DEF AllSemas
  <2>5. \A u \in Threads : ~ Owns(u, m)'
    BY <1>0, <2>0, <2>1, <2>2 DEF Owns
  <2>6. \A u \in Threads, l \in Locks \ {m} : Owns(u, l)' <=> Owns(u, l)
    BY <1>0, <2>0, <2>1 DEF Owns
  <2>7. \A l \in Locks : /\ value'[l] = IF \E u \in Threads : Owns(u, l)' THEN 0 ELSE 1
                         /\ \A u, v \in Threads : Owns(u, l)' /\ Owns(v, l)' => u = v
    BY <2>4, <2>5, <2>6, LockExclusionSplit DEF Locking
  <2>8. ReleasersHold'
    BY <1>0, <2>1 DEF Locking, ReleasersHold
  <2> QED BY <2>7, <2>8 DEF Locking, LockExclusion
<1> QED BY <1>2, <1>3, <1>4, <1>5, <1>6

LEMMA ThreadStepLocking ==
    ASSUME Types, Locking, NEW t \in Threads,
           \/ \E c \in Threads, p \in Priorities : CallThreadCreate(t, c, p)
           \/ CreateUnblocks(t) \/ CreateYields(t)
           \/ \E p \in NewPriorities : CallSetPriority(t, p)
           \/ SetPriorityWrites(t) \/ SetOriginalWrites(t) \/ SetPriorityYields(t)
           \/ CallThreadExit(t) \/ CallSleep(t)
    PROVE  Locking'
<1>0. pc \in [Threads -> PCs] /\ arg \in [Threads -> AllSemas \cup {NULL}]
  BY DEF Types, TypeOK
<1> DEFINE Outside == {"user", "asleep", "down", "blocked", "create_unblock",
                       "create_yield", "set_empty", "copy_pri", "set_raise",
                       "raise_original", "set_original", "yield"}
           Moves == /\ UNCHANGED <<holder, value>> /\ pc[t] \in Outside
                    /\ \E place \in Outside : pc' = [pc EXCEPT ![t] = place]
                    /\ \A u \in Threads \ {t} : arg'[u] = arg[u]
<1>1. Moves => Locking'
  BY <1>0, LocksElsewhere DEF OwnPCs
<1>2. ASSUME NEW c \in Threads, NEW p \in Priorities, CallThreadCreate(t, c, p)
      PROVE  Moves
  BY <1>0, <1>2 DEF CallThreadCreate, TestHolder, At, sema
<1>3. CreateUnblocks(t) => Moves
  BY DEF CreateUnblocks, At, donate, sema, local
<1>4. CreateYields(t) => Moves
  BY DEF CreateYields, At, donate, sema
<1>5. ASSUME NEW p \in NewPriorities, CallSetPriority(t, p) PROVE Moves
  BY <1>5, Zenon DEF CallSetPriority, At, donate, sema
<1>6. SetPriorityWrites(t) => Moves
  BY Zenon DEF SetPriorityWrites, At, donate, sema, local
<1>7. SetOriginalWrites(t) => Moves
  BY Zenon DEF SetOriginalWrites, At, donate, sema
<1>8. SetPriorityYields(t) => Moves
  BY DEF SetPriorityYields, At, donate, sema, local
<1>9. CallThreadExit(t) => Locking'
  BY LocksUntouched DEF CallThreadExit, donate, sema, local
<1>10. CallSleep(t) => Moves
  BY DEF CallSleep, At, donate, sema, local
<1> QED BY <1>1, <1>2, <1>3, <1>4, <1>5, <1>6, <1>7, <1>8, <1>9, <1>10

LEMMA InitLocking == Init => Locking
<1> SUFFICES ASSUME Init PROVE Locking
  OBVIOUS
<1>1. \A t \in Threads, l \in Locks : ~ Owns(t, l)
  BY ConstantFacts DEF Init, Owns, AllThreads
<1>2. \A l \in Locks : value[l] = 1
  BY DEF Init, AllSemas
<1>3. ReleasersHold
  BY DEF Init, ReleasersHold
<1> QED BY <1>1, <1>2, <1>3 DEF Locking, LockExclusion

LEMMA NextLocking == Types /\ Locking /\ [Next]_vars => Locking'
<1> SUFFICES ASSUME Types, Locking, [Next]_vars PROVE Locking'
  OBVIOUS
<1>1. CASE UNCHANGED vars
  BY <1>1, LocksUntouched DEF vars, sema, donate, local
<1>2. CASE \/ Preempt \/ IdleBlock \/ MlfqsTick \/ Halted
           \/ \E s \in IntrSemas : IntrSemaUp(s)
           \/ \E t \in Threads : InterruptWakes(t)
  BY <1>2, KernelStepLocking
<1>3. ASSUME NEW t \in Threads, UserCall(t) \/ Step(t) PROVE Locking'
  BY <1>3, SemaStepLocking, LockAcquireLocking, LockReleaseLocking,
     ThreadStepLocking DEF UserCall, Step
<1> QED BY <1>1, <1>2, <1>3 DEF Next

\* Whatever the threads, the locks and the places where threads are preempted,
\* two threads never hold a lock, and its semaphore is 1 exactly when none
\* does: priority donation, which reads holder and blocked_lock with interrupts
\* on, cannot break mutual exclusion.
THEOREM MutualExclusion == Spec => []LockExclusion
<1>1. Spec => []Types
  BY InitTypes, NextTypes, PTL DEF Spec
<1>2. Spec => [](Types /\ Locking)
  BY <1>1, InitTypes, InitLocking, NextTypes, NextLocking, PTL DEF Spec
<1>3. Locking => LockExclusion
  BY DEF Locking
<1> QED BY <1>2, <1>3, PTL

-----------------------------------------------------------------------------
(* The locks a thread holds, and the lock it waits for.                    *)

RelPCs == {"rel_pri", "rel_holder", "up"}

\* Where a thread is while blocked_lock may be set, and while it is known to
\* ask for a lock above all those it holds.
DonationPCs == {"link", "donate", "donate_write", "chain", "again", "sorting"}
WaitPCs == DonationPCs \cup {"down", "down_wait", "own"}
RankPCs == WaitPCs \cup {"blocked"}

\* What most steps leave alone: who holds what, and which locks are asked for.
Quiet(t) ==
    /\ UNCHANGED <<holder, blocked_lock>>
    /\ \A u \in Threads \ {t} : pc'[u] = pc[u] /\ arg'[u] = arg[u]
    /\ \/ pc'[t] = pc[t] /\ arg'[t] = arg[t]
       \/ /\ pc[t] \notin OwnPCs \cup RelPCs \cup {"tid"}
          /\ pc'[t] \notin RelPCs
          /\ pc[t] \in WaitPCs /\ arg[t] \in Locks => pc'[t] \in WaitPCs /\ arg'[t] = arg[t]
          /\ pc'[t] \in RankPCs /\ arg'[t] \in Locks \ {TidLock} =>
                \/ pc[t] \in RankPCs /\ arg'[t] = arg[t]
                \/ \A h \in Held(t) : Rank[h] < Rank[arg'[t]]

\* The steps outside lock_own and lock_release.
LEMMA QuietSteps ==
    ASSUME Types, NEW t \in Threads,
           \/ \E s \in Semas : CallSemaDown(t, s) \/ CallSemaUp(t, s)
           \/ DownBlocks(t) \/ DownTakes(t)
           \/ \E l \in Locks \ {TidLock} : CallLockAcquire(t, l)
           \/ \E l \in TryLocks : CallLockTryAcquire(t, l)
           \/ ReadHolder(t) \/ DonateFaults(t) \/ DonateSkips(t) \/ DonateComputes(t)
           \/ DonateTangled(t) \/ DonateWrites(t)
           \/ EndsChain(t) \/ ReadsAgain(t) \/ NextInChain(t)
           \/ CreateUnblocks(t) \/ CreateYields(t)
           \/ \E p \in NewPriorities : CallSetPriority(t, p)
           \/ SetPriorityWrites(t) \/ SetOriginalWrites(t) \/ SetPriorityYields(t)
           \/ CallThreadExit(t) \/ CallSleep(t)
    PROVE  Quiet(t) /\ (UNCHANGED lock_list \/ DonateComputes(t))
<1>0. /\ pc \in [Threads -> PCs] /\ arg \in [Threads -> AllSemas \cup {NULL}]
      /\ \A l \in Locks : l \notin Semas
  BY ConstantFacts DEF Types, TypeOK
<1>1. ASSUME NEW s \in Semas, CallSemaDown(t, s) PROVE Quiet(t) /\ UNCHANGED lock_list
  <2>1. /\ UNCHANGED <<holder, blocked_lock, lock_list>> /\ pc[t] = "user"
        /\ pc' = [pc EXCEPT ![t] = "down"] /\ arg' = [arg EXCEPT ![t] = s]
    BY <1>1 DEF CallSemaDown, At, donate
  <2> QED BY <1>0, <2>1 DEF Quiet, OwnPCs, RelPCs, DonationPCs, WaitPCs, RankPCs
<1> DEFINE Moves(froms, tos) ==
              /\ UNCHANGED <<holder, blocked_lock, lock_list, arg>> /\ pc[t] \in froms
              /\ \E place \in tos : pc' = [pc EXCEPT ![t] = place]
<1>2. Moves({"user", "create_unblock", "create_yield", "set_empty", "copy_pri", "set_raise",
             "raise_original", "set_original", "yield"},
            {"user", "asleep", "create_yield", "set_empty", "copy_pri", "set_raise",
             "raise_original", "set_original", "yield"})
        => Quiet(t)
  BY <1>0 DEF Quiet, OwnPCs, RelPCs, DonationPCs, WaitPCs, RankPCs
<1>3. ASSUME NEW s \in Semas, CallSemaUp(t, s) PROVE Quiet(t) /\ UNCHANGED lock_list
  BY <1>2, <1>3 DEF CallSemaUp, SemaUp, At, donate, local
<1>4. CreateUnblocks(t) => Quiet(t) /\ UNCHANGED lock_list
  BY <1>2 DEF CreateUnblocks, At, donate, local
<1>5. CreateYields(t) => Quiet(t) /\ UNCHANGED lock_list
  BY <1>2 DEF CreateYields, At, donate
<1>6. ASSUME NEW p \in NewPriorities, CallSetPriority(t, p) PROVE Quiet(t) /\ UNCHANGED lock_list
  <2>1. Moves({"user"}, {"set_empty", "set_raise", "set_original"})
    BY <1>6, Zenon DEF CallSetPriority, At, donate
  <2> QED BY <1>2, <2>1
<1>7. SetPriorityWrites(t) => Quiet(t) /\ UNCHANGED lock_list
  <2>1. SetPriorityWrites(t) => Moves({"set_empty", "set_raise"}, {"copy_pri", "raise_original"})
    BY Zenon DEF SetPriorityWrites, At, donate, local
  <2> QED BY <1>2, <2>1
<1>8. SetOriginalWrites(t) => Quiet(t) /\ UNCHANGED lock_list
  <2>1. SetOriginalWrites(t) => Moves({"copy_pri", "raise_original", "set_original"},
                                      {"yield", "user"})
    BY Zenon DEF SetOriginalWrites, At, donate
  <2> QED BY <1>2, <2>1
<1>9. SetPriorityYields(t) => Quiet(t) /\ UNCHANGED lock_list
  BY <1>2 DEF SetPriorityYields, At, donate, local
<1>10. CallThreadExit(t) => Quiet(t) /\ UNCHANGED lock_list
  BY DEF CallThreadExit, donate, local, Quiet
<1>11. CASE DownBlocks(t)
  <2>1. Moves({"down", "down_wait"}, {"down_wait"})
    BY <1>11 DEF DownBlocks, At, donate, local
  <2> QED BY <1>0, <2>1 DEF Quiet, OwnPCs, RelPCs, DonationPCs, WaitPCs, RankPCs
<1>12. CASE DownTakes(t)
  <2>1. /\ UNCHANGED <<holder, blocked_lock, lock_list>> /\ pc[t] \in {"down", "down_wait"}
        /\ \/ arg[t] \in Locks /\ pc' = [pc EXCEPT ![t] = "own"] /\ UNCHANGED arg
           \/ /\ arg[t] \notin Locks /\ pc' = [pc EXCEPT ![t] = "user"]
              /\ arg' = [arg EXCEPT ![t] = NULL]
    BY <1>12 DEF DownTakes, At, donate
  <2> QED BY <1>0, <2>1 DEF Quiet, OwnPCs, RelPCs, DonationPCs, WaitPCs, RankPCs
<1>13. ASSUME NEW l \in Locks \ {TidLock}, CallLockAcquire(t, l)
       PROVE  Quiet(t) /\ UNCHANGED lock_list
  <2>1. /\ UNCHANGED <<holder, blocked_lock, lock_list>> /\ pc[t] = "user"
        /\ \E place \in {"down", "blocked"} : pc' = [pc EXCEPT ![t] = place]
        /\ arg' = [arg EXCEPT ![t] = l]
        /\ \A h \in Held(t) : Rank[h] < Rank[l]
    BY <1>13 DEF CallLockAcquire, TestHolder, At, donate
  <2> QED BY <1>0, <2>1 DEF Quiet, OwnPCs, RelPCs, DonationPCs, WaitPCs, RankPCs
<1>14. ASSUME NEW l \in TryLocks, CallLockTryAcquire(t, l) PROVE Quiet(t) /\ UNCHANGED lock_list
  <2>1. /\ UNCHANGED <<holder, blocked_lock, lock_list>> /\ pc[t] = "user"
        /\ pc' = [pc EXCEPT ![t] = "try_own"] /\ arg' = [arg EXCEPT ![t] = l]
    BY <1>14 DEF CallLockTryAcquire, At, donate
  <2> QED BY <1>0, <2>1 DEF Quiet, OwnPCs, RelPCs, DonationPCs, WaitPCs, RankPCs
<1>15. DonateFaults(t) => Quiet(t) /\ UNCHANGED lock_list
  BY DEF DonateFaults, donate, local, Quiet
<1> DEFINE Donates == /\ UNCHANGED <<holder, blocked_lock, arg>> /\ pc[t] \in DonationPCs
                      /\ \E place \in DonationPCs \cup {"down"} :
                            pc' = [pc EXCEPT ![t] = place]
<1>16. Donates => Quiet(t)
  BY <1>0 DEF Quiet, OwnPCs, RelPCs, DonationPCs, WaitPCs, RankPCs
<1>17. \/ DonateSkips(t) \/ DonateComputes(t) \/ DonateWrites(t) \/ EndsChain(t)
       \/ ReadsAgain(t)
       => Donates /\ (UNCHANGED lock_list \/ DonateComputes(t))
  BY DEF DonateSkips, DonateComputes, DonateWrites, EndsChain, ReadsAgain, At, donate, local,
         DonationPCs
<1>18. ReadHolder(t) \/ DonateTangled(t) \/ NextInChain(t) => Donates /\ UNCHANGED lock_list
  <2> SUFFICES ASSUME ReadHolder(t) \/ DonateTangled(t) \/ NextInChain(t)
               PROVE  Donates /\ UNCHANGED lock_list
    OBVIOUS
  <2>1. UNCHANGED <<holder, blocked_lock, lock_list, arg>>
    BY DEF ReadHolder, DonateTangled, NextInChain, donate
  <2>2. pc[t] \in DonationPCs
    BY DEF ReadHolder, DonateTangled, NextInChain, At, DonationPCs
  <2>3. \/ UNCHANGED pc
        \/ \E place \in {"donate", "sorting", "donate_write", "link"} :
              pc' = [pc EXCEPT ![t] = place]
    BY Zenon DEF ReadHolder, DonateTangled, NextInChain
  <2> QED BY <1>0, <2>1, <2>2, <2>3 DEF DonationPCs
<1>19. CallSleep(t) => Quiet(t) /\ UNCHANGED lock_list
  BY <1>2 DEF CallSleep, At, donate, local
<1> QED BY <1>1, <1>3, <1>4, <1>5, <1>6, <1>7, <1>8, <1>9, <1>10, <1>11, <1>12, <1>13, <1>14,
           <1>15, <1>16, <1>17, <1>18, <1>19

\* The steps of the scheduler and of interrupts.
LEMMA KernelStepsKeepLocks ==
    ASSUME \/ Preempt \/ IdleBlock \/ MlfqsTick \/ Halted
           \/ \E s \in IntrSemas : IntrSemaUp(s)
    PROVE  UNCHANGED <<holder, blocked_lock, lock_list, pc, arg>>
BY DEF Preempt, IdleBlock, MlfqsTick, Halted, IntrSemaUp, vars, donate, local

LEMMA InterruptWakesQuiet ==
    ASSUME Types, NEW t \in Threads, InterruptWakes(t)
    PROVE  Quiet(t) /\ UNCHANGED lock_list
BY DEF InterruptWakes, donate, local, Types, TypeOK, Quiet, OwnPCs, RelPCs, DonationPCs,
       WaitPCs, RankPCs

(***************************************************************************)
(* LockListHeld is inductive without -mlfqs, where lock_release unlinks    *)
(* the lock: no list has a lock twice, so that one list_remove takes the   *)
(* lock off the list, and it is off while lock_release goes on.            *)
(***************************************************************************)
ListsOnce == \A t \in Threads : NoDuplicates(lock_list[t])

ReleasedOff == \A t \in Threads : pc[t] \in RelPCs => arg[t] \notin ToSet(lock_list[t])

Holdings == ListsOnce /\ LockListHeld /\ ReleasedOff

\* Steps after which no list has more than before.
LEMMA HoldingsKept ==
    ASSUME Types, Holdings,
           \A u \in Threads : /\ NoDuplicates(lock_list'[u])
                              /\ ToSet(lock_list'[u]) \subseteq ToSet(lock_list[u]),
           \A u \in Threads, l \in Locks : Owns(u, l) => Owns(u, l)',
           \A u \in Threads : pc'[u] \in RelPCs => \/ pc[u] \in RelPCs /\ arg'[u] = arg[u]
                                                   \/ arg'[u] \notin ToSet(lock_list'[u])
    PROVE  Holdings'
<1>1. ListsOnce'
  BY DEF ListsOnce
<1>2. \A u \in Threads : ToSet(lock_list[u]) \subseteq Locks
  BY ElementOfSeq, LenProperties DEF Types, TypeOK, ToSet
<1>3. LockListHeld'
  BY <1>2 DEF Holdings, LockListHeld
<1>4. ReleasedOff'
  BY DEF Holdings, ReleasedOff
<1> QED BY <1>1, <1>3, <1>4 DEF Holdings

\* A quiet step that at most sorts the lock list of a holder.
LEMMA QuietHoldings ==
    ASSUME Types, Holdings, NEW t \in Threads, Quiet(t), UNCHANGED lock_list \/ DonateComputes(t)
    PROVE  Holdings'
<1>1. \A u \in Threads, l \in Locks : Owns(u, l) => Owns(u, l)'
  BY DEF Quiet, Owns, OwnPCs
<1>2. \A u \in Threads : pc'[u] \in RelPCs => pc[u] \in RelPCs /\ arg'[u] = arg[u]
  BY DEF Quiet
<1>3. ASSUME NEW u \in Threads
      PROVE  NoDuplicates(lock_list'[u]) /\ ToSet(lock_list'[u]) = ToSet(lock_list[u])
  <2>1. NoDuplicates(lock_list[u]) /\ lock_list \in [Threads -> Seq(Locks)]
    BY DEF Holdings, ListsOnce, Types, TypeOK
  <2>2. CASE UNCHANGED lock_list
    BY <2>1, <2>2
  <2>3. CASE DonateComputes(t)
    <3> DEFINE h == lock_h_t[t]
               max == [max_pri EXCEPT ![cur_lock[t]] = priority[t]]
               sorted == list_sort(lock_list[h], max)
    <3>1. lock_list' = [lock_list EXCEPT ![h] = sorted] /\ h \in Threads
      BY <2>3 DEF DonateComputes, MaxPriAfter, HolderLives, Types, TypeOK
    <3>2. \A l \in Locks : max[l] \in Int
      BY KeyTypes, ConstantFacts DEF Types, TypeOK, AllThreads
    <3>3. NoDuplicates(lock_list[h])
      BY <3>1 DEF Holdings, ListsOnce
    <3> HIDE DEF max
    <3>4. NoDuplicates(sorted) /\ ToSet(sorted) = ToSet(lock_list[h])
      BY <2>1, <3>1, <3>2, <3>3, ListSortElements
    <3> HIDE DEF sorted, h
    <3> QED BY <2>1, <3>1, <3>4
  <2> QED BY <2>2, <2>3
<1> QED BY <1>1, <1>2, <1>3, HoldingsKept

\* lock_acquire's end: the lock goes to the list, then its holder is written.
LEMMA OwnHoldings ==
    ASSUME Types, Locking, Holdings, NEW t \in Threads,
           RecordBlockedLock(t) \/ LockOwn(t) \/ OwnHolder(t)
    PROVE  Holdings'
<1>0. /\ pc \in [Threads -> PCs] /\ arg \in [Threads -> AllSemas \cup {NULL}]
      /\ holder \in [Locks -> Threads \cup {NULL}] /\ lock_list \in [Threads -> Seq(Locks)]
      /\ \A u \in Threads : NoDuplicates(lock_list[u])
  BY DEF Types, TypeOK, Holdings, ListsOnce
<1>1. CASE RecordBlockedLock(t)
  <2>1. /\ UNCHANGED <<holder, lock_list, arg>> /\ pc[t] = "blocked"
        /\ pc' = [pc EXCEPT ![t] = "link"]
    BY <1>1 DEF RecordBlockedLock, At
  <2>2. \A u \in Threads, l \in Locks : Owns(u, l) => Owns(u, l)'
    BY <1>0, <2>1 DEF Owns
  <2>3. \A u \in Threads : pc'[u] \in RelPCs => pc[u] \in RelPCs /\ arg'[u] = arg[u]
    BY <1>0, <2>1 DEF RelPCs
  <2> QED BY <1>0, <2>1, <2>2, <2>3, HoldingsKept
<1>2. CASE LockOwn(t)
  <2>1. /\ UNCHANGED <<holder, arg>> /\ pc[t] = "own" /\ arg[t] \in Locks
        /\ pc' = [pc EXCEPT ![t] = "own_holder"]
        /\ IF arg[t] \in ToSet(lock_list[t])
           THEN \A u \in Threads : lock_list'[u] = lock_list[u]
           ELSE lock_list' = [lock_list EXCEPT ![t] = Append(@, arg[t])]
    BY <1>0, <1>2 DEF LockOwn, At, local, Types, LocalsFit, LockPCs
  <2>2. \A u \in Threads, l \in Locks : Owns(u, l) => Owns(u, l)'
    BY <1>0, <2>1 DEF Owns
  <2>3. \A u \in Threads : pc'[u] \in RelPCs => pc[u] \in RelPCs /\ arg'[u] = arg[u] /\ u # t
    BY <1>0, <2>1 DEF RelPCs
  <2>4. CASE arg[t] \in ToSet(lock_list[t])
    BY <1>0, <2>1, <2>2, <2>3, <2>4, HoldingsKept
  <2>5. CASE arg[t] \notin ToSet(lock_list[t])
    <3>1. PICK new : new = Append(lock_list[t], arg[t])
      OBVIOUS
    <3>2. NoDuplicates(new) /\ ToSet(new) = ToSet(lock_list[t]) \cup {arg[t]}
      BY <1>0, <2>1, <2>5, <3>1, PushBackElements
    <3>3. \A u \in Threads : lock_list'[u] = IF u = t THEN new ELSE lock_list[u]
      BY <1>0, <2>1, <2>5, <3>1
    <3>4. ListsOnce'
      BY <1>0, <3>2, <3>3 DEF ListsOnce
    <3>5. \A u \in Threads : ToSet(lock_list[u]) \subseteq Locks
      BY <1>0, ElementOfSeq, LenProperties DEF ToSet
    <3>6. Owns(t, arg[t])'
      BY <1>0, <2>1 DEF Owns
    <3>7. LockListHeld'
      BY <2>1, <2>2, <3>2, <3>3, <3>5, <3>6 DEF Holdings, LockListHeld
    <3>8. ReleasedOff'
      BY <2>3, <3>3 DEF Holdings, ReleasedOff
    <3> QED BY <3>4, <3>7, <3>8 DEF Holdings
  <2> QED BY <2>1, <2>4, <2>5
<1>3. CASE OwnHolder(t)
  <2>1. /\ UNCHANGED lock_list /\ pc[t] \in {"own_holder", "try_own"} /\ arg[t] \in Locks
        /\ holder' = [holder EXCEPT ![arg[t]] = t]
        /\ \E place \in {"tid", "user"} : pc' = [pc EXCEPT ![t] = place]
        /\ arg' = [arg EXCEPT ![t] = NULL]
    BY <1>3 DEF OwnHolder, At, Types, LocalsFit, LockPCs
  <2>2. \A u \in Threads : Owns(u, arg[t]) => u = t
    <3>1. Owns(t, arg[t])
      BY <2>1 DEF Owns
    <3> QED BY <2>1, <3>1, LockExclusionSplit DEF Locking
  <2>3. ASSUME NEW u \in Threads, NEW l \in Locks, Owns(u, l) PROVE Owns(u, l)'
    <3>1. CASE l = arg[t]
      BY <1>0, <2>1, <2>2, <2>3, <3>1 DEF Owns
    <3>2. CASE l # arg[t]
      BY <1>0, <2>1, <2>3, <3>2 DEF Owns
    <3> QED BY <3>1, <3>2
  <2>4. \A u \in Threads : pc'[u] \in RelPCs => pc[u] \in RelPCs /\ arg'[u] = arg[u]
    BY <1>0, <2>1 DEF RelPCs
  <2> QED BY <1>0, <2>1, <2>3, <2>4, HoldingsKept
<1> QED BY <1>1, <1>2, <1>3

\* lock_release without -mlfqs.
LEMMA ReleaseHoldings ==
    ASSUME Types, Locking, Holdings, ~Mlfqs, NEW t \in Threads,
           \/ \E l \in Locks \ {TidLock} : CallLockRelease(t, l)
           \/ AllocateTid(t)
           \/ ReleasePriority(t) \/ ReleaseHolder(t) \/ ReleaseUp(t)
    PROVE  Holdings'
<1>0. /\ pc \in [Threads -> PCs] /\ arg \in [Threads -> AllSemas \cup {NULL}]
      /\ holder \in [Locks -> Threads \cup {NULL}] /\ lock_list \in [Threads -> Seq(Locks)]
      /\ \A u \in Threads : NoDuplicates(lock_list[u])
  BY DEF Types, TypeOK, Holdings, ListsOnce
<1>1. ASSUME NEW l \in Locks, LockRelease(t, l), pc[t] \in {"user", "tid"}
      PROVE  Holdings'
  <2>1. CASE l \notin ToSet(lock_list[t])
    <3>1. UNCHANGED <<holder, lock_list, pc, arg>>
      BY <1>1, <2>1 DEF LockRelease
    <3>2. \A u \in Threads, m \in Locks : Owns(u, m) => Owns(u, m)'
      BY <3>1 DEF Owns
    <3> QED BY <1>0, <3>1, <3>2, HoldingsKept
  <2>2. CASE l \in ToSet(lock_list[t])
    <3> DEFINE removed == list_remove(lock_list[t], l)
               rest == list_sort(removed, max_pri)
    <3>1. /\ UNCHANGED holder /\ lock_list' = [lock_list EXCEPT ![t] = rest]
          /\ pc' = [pc EXCEPT ![t] = "rel_pri"] /\ arg' = [arg EXCEPT ![t] = l]
      BY <1>1, <2>2 DEF LockRelease
    <3>2. /\ removed \in Seq(Locks) /\ NoDuplicates(removed)
          /\ ToSet(removed) = ToSet(lock_list[t]) \ {l}
      BY <1>0, <2>2, RemoveElements
    <3> HIDE DEF removed
    <3>3. NoDuplicates(rest) /\ ToSet(rest) = ToSet(lock_list[t]) \ {l}
      BY <3>2, KeyTypes, ListSortElements DEF Types
    <3> HIDE DEF rest
    <3>4. \A u \in Threads : lock_list'[u] = IF u = t THEN rest ELSE lock_list[u]
      BY <1>0, <3>1
    <3>5. \A u \in Threads, m \in Locks : Owns(u, m) => Owns(u, m)'
      BY <1>0, <1>1, <3>1 DEF Owns
    <3>6. \A u \in Threads : pc'[u] \in RelPCs => \/ pc[u] \in RelPCs /\ arg'[u] = arg[u]
                                                  \/ arg'[u] \notin ToSet(lock_list'[u])
      BY <1>0, <3>1, <3>3, <3>4
    <3> QED BY <1>0, <3>3, <3>4, <3>5, <3>6, HoldingsKept
  <2> QED BY <2>1, <2>2
<1>2. ASSUME NEW l \in Locks \ {TidLock}, CallLockRelease(t, l) PROVE Holdings'
  BY <1>1, <1>2 DEF CallLockRelease, At
<1>3. CASE AllocateTid(t)
  BY <1>1, <1>3, ConstantFacts DEF AllocateTid, At
<1>4. CASE ReleasePriority(t)
  <2>1. /\ UNCHANGED <<holder, lock_list, arg>> /\ pc[t] = "rel_pri"
        /\ pc' = [pc EXCEPT ![t] = "rel_holder"]
    BY <1>4 DEF ReleasePriority, At, donate
  <2>2. \A u \in Threads, l \in Locks : Owns(u, l) => Owns(u, l)'
    BY <1>0, <2>1 DEF Owns
  <2>3. \A u \in Threads : pc'[u] \in RelPCs => pc[u] \in RelPCs /\ arg'[u] = arg[u]
    BY <1>0, <2>1 DEF RelPCs
  <2> QED BY <1>0, <2>1, <2>2, <2>3, HoldingsKept
<1>5. CASE ReleaseHolder(t)
  <2>1. /\ UNCHANGED <<lock_list, arg>> /\ pc[t] = "rel_holder" /\ arg[t] \in Locks
        /\ holder' = [holder EXCEPT ![arg[t]] = NULL] /\ pc' = [pc EXCEPT ![t] = "up"]
    BY <1>5 DEF ReleaseHolder, At, local, Types, LocalsFit, LockPCs
  <2>2. holder[arg[t]] = t
    BY <2>1 DEF Locking, ReleasersHold
  <2>3. \A u \in Threads, l \in Locks : Owns(u, l) => Owns(u, l)'
    BY <1>0, <2>1, <2>2 DEF Owns
  <2>4. \A u \in Threads : pc'[u] \in RelPCs => pc[u] \in RelPCs /\ arg'[u] = arg[u]
    BY <1>0, <2>1 DEF RelPCs
  <2> QED BY <1>0, <2>1, <2>3, <2>4, HoldingsKept
<1>6. CASE ReleaseUp(t)
  <2>1. /\ UNCHANGED <<holder, lock_list>> /\ pc[t] = "up" /\ arg[t] \in Locks
        /\ \E place \in {"create_unblock", "user"} : pc' = [pc EXCEPT ![t] = place]
        /\ arg' = [arg EXCEPT ![t] = NULL]
    BY <1>6 DEF ReleaseUp, SemaUp, At, donate, Types, LocalsFit, LockPCs
  <2>2. PICK m \in Locks : m = arg[t]
    BY <2>1
  <2>3. Owns(t, m) /\ \A u \in Threads : Owns(u, m) => u = t
    BY <2>1, <2>2, LockExclusionSplit DEF Owns, Locking
  <2>4. \A u \in Threads : m \notin ToSet(lock_list[u])
    BY <2>1, <2>2, <2>3 DEF Holdings, LockListHeld, ReleasedOff, RelPCs
  <2>5. \A u \in Threads, l \in Locks \ {m} : Owns(u, l) => Owns(u, l)'
    BY <1>0, <2>1, <2>2 DEF Owns
  <2>6. \A u \in Threads : ToSet(lock_list[u]) \subseteq Locks
    BY <1>0, ElementOfSeq, LenProperties DEF ToSet
  <2>7. LockListHeld'
    BY <2>1, <2>4, <2>5, <2>6 DEF Holdings, LockListHeld
  <2>8. ReleasedOff'
    BY <1>0, <2>1 DEF Holdings, ReleasedOff, RelPCs
  <2> QED BY <1>0, <2>1, <2>7, <2>8 DEF Holdings, ListsOnce
<1> QED BY <1>2, <1>3, <1>4, <1>5, <1>6

\* init_thread empties the list of a new thread; the creator asks for tid_lock.
LEMMA CreateHoldings ==
    ASSUME Types, Holdings, NEW t \in Threads, NEW c \in Threads, NEW p,
           CallThreadCreate(t, c, p)
    PROVE  Holdings'
<1>0. /\ pc \in [Threads -> PCs] /\ arg \in [Threads -> AllSemas \cup {NULL}]
      /\ lock_list \in [Threads -> Seq(Locks)]
      /\ \A u \in Threads : NoDuplicates(lock_list[u])
  BY DEF Types, TypeOK, Holdings, ListsOnce
<1>1. /\ UNCHANGED holder /\ pc[t] = "user"
      /\ lock_list' = [lock_list EXCEPT ![c] = <<>>]
      /\ \E place \in {"down", "blocked"} : pc' = [pc EXCEPT ![t] = place]
      /\ arg' = [arg EXCEPT ![t] = TidLock]
  BY DEF CallThreadCreate, TestHolder, At
<1>2. ToSet(<<>>) = {} /\ NoDuplicates(<<>>)
  BY EmptySeq DEF ToSet, NoDuplicates
<1>3. \A u \in Threads : /\ NoDuplicates(lock_list'[u])
                         /\ ToSet(lock_list'[u]) \subseteq ToSet(lock_list[u])
  BY <1>0, <1>1, <1>2
<1>4. \A u \in Threads, l \in Locks : Owns(u, l) => Owns(u, l)'
  BY <1>0, <1>1 DEF Owns
<1>5. \A u \in Threads : pc'[u] \in RelPCs => pc[u] \in RelPCs /\ arg'[u] = arg[u]
  BY <1>0, <1>1 DEF RelPCs
<1> QED BY <1>3, <1>4, <1>5, HoldingsKept

\* Nobody holds a lock at start.
LEMMA InitHoldings == Init => Holdings
<1> SUFFICES ASSUME Init PROVE Holdings
  OBVIOUS
<1>1. ToSet(<<>>) = {} /\ NoDuplicates(<<>>)
  BY EmptySeq DEF ToSet, NoDuplicates
<1>2. \A t \in Threads : lock_list[t] = <<>>
  BY DEF Init
<1> QED BY <1>1, <1>2 DEF Holdings, ListsOnce, LockListHeld, ReleasedOff

\* Every step keeps Holdings.
LEMMA NextHoldings == ~Mlfqs /\ Types /\ Locking /\ Holdings /\ [Next]_vars => Holdings'
<1> SUFFICES ASSUME ~Mlfqs, Types, Locking, Holdings, [Next]_vars PROVE Holdings'
  OBVIOUS
<1>1. CASE UNCHANGED <<holder, lock_list, pc, arg>>
  BY <1>1 DEF Holdings, ListsOnce, LockListHeld, ReleasedOff, Owns
<1>2. CASE UNCHANGED vars
  BY <1>1, <1>2 DEF vars, donate, local
<1>3. CASE Preempt \/ IdleBlock \/ MlfqsTick \/ Halted
           \/ \E s \in IntrSemas : IntrSemaUp(s)
  BY <1>1, <1>3, KernelStepsKeepLocks
<1>4. ASSUME NEW t \in Threads, UserCall(t) \/ Step(t) PROVE Holdings'
  BY <1>4, QuietSteps, QuietHoldings, OwnHoldings, ReleaseHoldings, CreateHoldings
     DEF UserCall, Step
<1>5. ASSUME NEW t \in Threads, InterruptWakes(t) PROVE Holdings'
  BY <1>5, InterruptWakesQuiet, QuietHoldings
<1> QED BY <1>2, <1>3, <1>4, <1>5 DEF Next

\* thread.h, "the locks held": without -mlfqs a lock is on the list of a thread
\* only while the thread owns it.
THEOREM ListedLocksHeld == ~Mlfqs => (Spec => []LockListHeld)
<1>1. Spec => [](Types /\ Locking)
  BY InitTypes, InitLocking, NextTypes, NextLocking, PTL DEF Spec
<1>2. ASSUME ~Mlfqs PROVE Types /\ Locking /\ Holdings /\ [Next]_vars => Holdings'
  BY <1>2, NextHoldings
<1>3. Holdings => LockListHeld
  BY DEF Holdings
<1>4. ASSUME ~Mlfqs PROVE Spec => []LockListHeld
  BY <1>1, <1>2, <1>3, <1>4, InitHoldings, PTL DEF Spec
<1> QED BY <1>4

(***************************************************************************)
(* Why the loop of lock_acquire ends: blocked_lock is set only while its   *)
(* thread asks for that lock, which ranks above all those the thread       *)
(* holds; or it is tid_lock, whose holder asks for nothing.                *)
(***************************************************************************)
BlockedWaits ==
    \A t \in Threads : blocked_lock[t] # NULL => pc[t] \in WaitPCs /\ arg[t] = blocked_lock[t]

TidHolderBusy ==
    \A t \in Threads :
        holder[TidLock] = t =>
            pc[t] = "tid" \/ (pc[t] \in {"rel_pri", "rel_holder"} /\ arg[t] = TidLock)

RankRises ==
    \A t \in Threads :
        pc[t] \in RankPCs /\ arg[t] \in Locks \ {TidLock} =>
            \A h \in Held(t) : Rank[h] < Rank[arg[t]]

Chains == BlockedWaits /\ TidHolderBusy /\ RankRises

\* Whoever asks for a lock holds lower ones only.
LEMMA QuietChains ==
    ASSUME Types, Chains, NEW t \in Threads, Quiet(t)
    PROVE  Chains'
<1>0. \A u \in Threads : blocked_lock[u] # NULL => blocked_lock[u] \in Locks
  BY DEF Types, TypeOK
<1>1. BlockedWaits'
  BY <1>0 DEF Quiet, Chains, BlockedWaits
<1>2. TidHolderBusy'
  BY DEF Quiet, Chains, TidHolderBusy, RelPCs
<1>3. RankRises'
  <2>1. \A u \in Threads : Held(u)' = Held(u)
    BY DEF Quiet, Held
  <2> QED BY <2>1 DEF Quiet, Chains, RankRises
<1> QED BY <1>1, <1>2, <1>3 DEF Chains

\* lock_acquire records the lock, and clears blocked_lock before it writes the
\* holder.
LEMMA OwnChains ==
    ASSUME Types, Chains, NEW t \in Threads,
           RecordBlockedLock(t) \/ LockOwn(t) \/ OwnHolder(t)
    PROVE  Chains'
<1>0. /\ pc \in [Threads -> PCs] /\ arg \in [Threads -> AllSemas \cup {NULL}]
      /\ holder \in [Locks -> Threads \cup {NULL}]
      /\ blocked_lock \in [Threads -> Locks \cup {NULL}]
      /\ NULL \notin Locks
  BY ConstantFacts DEF Types, TypeOK, AllSemas
<1>1. CASE RecordBlockedLock(t)
  <2>1. /\ UNCHANGED <<holder, arg>> /\ pc[t] = "blocked"
        /\ pc' = [pc EXCEPT ![t] = "link"]
        /\ blocked_lock' = [blocked_lock EXCEPT ![t] = arg[t]]
    BY <1>1 DEF RecordBlockedLock, At
  <2>2. BlockedWaits'
    BY <1>0, <2>1 DEF Chains, BlockedWaits, DonationPCs, WaitPCs
  <2>3. TidHolderBusy'
    BY <1>0, <2>1 DEF Chains, TidHolderBusy
  <2>4. RankRises'
    BY <1>0, <2>1 DEF Chains, RankRises, RankPCs, DonationPCs, WaitPCs, Held
  <2> QED BY <2>2, <2>3, <2>4 DEF Chains
<1>2. CASE LockOwn(t)
  <2>1. /\ UNCHANGED <<holder, arg>> /\ pc[t] = "own"
        /\ pc' = [pc EXCEPT ![t] = "own_holder"]
        /\ blocked_lock' = [blocked_lock EXCEPT ![t] = NULL]
    BY <1>2 DEF LockOwn, At, local, BlockedLockAfterWait
  <2>2. BlockedWaits'
    BY <1>0, <2>1 DEF Chains, BlockedWaits
  <2>3. TidHolderBusy'
    BY <1>0, <2>1 DEF Chains, TidHolderBusy
  <2>4. RankRises'
    BY <1>0, <2>1 DEF Chains, RankRises, RankPCs, DonationPCs, WaitPCs, Held
  <2> QED BY <2>2, <2>3, <2>4 DEF Chains
<1>3. CASE OwnHolder(t)
  <2>1. /\ UNCHANGED blocked_lock /\ pc[t] \in {"own_holder", "try_own"} /\ arg[t] \in Locks
        /\ holder' = [holder EXCEPT ![arg[t]] = t]
        /\ pc' = [pc EXCEPT ![t] = IF arg[t] = TidLock THEN "tid" ELSE "user"]
        /\ arg' = [arg EXCEPT ![t] = NULL]
    BY <1>3 DEF OwnHolder, At, Types, LocalsFit, LockPCs
  <2>2. BlockedWaits'
    BY <1>0, <2>1 DEF Chains, BlockedWaits, DonationPCs, WaitPCs
  <2>3. TidHolderBusy'
    BY <1>0, <2>1 DEF Chains, TidHolderBusy
  <2>4. RankRises'
    <3>1. \A u \in Threads \ {t} : Held(u)' \subseteq Held(u)
      BY <1>0, <2>1 DEF Held
    <3>2. pc'[t] \notin RankPCs /\ \A u \in Threads \ {t} : pc'[u] = pc[u] /\ arg'[u] = arg[u]
      BY <1>0, <2>1 DEF RankPCs, DonationPCs, WaitPCs
    <3> QED BY <3>1, <3>2 DEF Chains, RankRises
  <2> QED BY <2>2, <2>3, <2>4 DEF Chains
<1> QED BY <1>1, <1>2, <1>3

\* lock_release, and the creation of a thread, which asks for tid_lock.
LEMMA ReleaseChains ==
    ASSUME Types, Chains, NEW t \in Threads,
           \/ \E l \in Locks \ {TidLock} : CallLockRelease(t, l)
           \/ AllocateTid(t)
           \/ ReleasePriority(t) \/ ReleaseHolder(t) \/ ReleaseUp(t)
           \/ \E c \in Threads, p \in Priorities : CallThreadCreate(t, c, p)
    PROVE  Chains'
<1>0. /\ pc \in [Threads -> PCs] /\ arg \in [Threads -> AllSemas \cup {NULL}]
      /\ holder \in [Locks -> Threads \cup {NULL}] /\ TidLock \in Locks
      /\ blocked_lock \in [Threads -> Locks \cup {NULL}] /\ NULL \notin Threads
  BY ConstantFacts DEF Types, TypeOK, AllThreads
<1>1. ASSUME NEW l \in Locks, LockRelease(t, l),
             pc[t] = "tid" <=> l = TidLock, pc[t] \in {"tid", "user"}
      PROVE  Chains'
  <2>1. /\ UNCHANGED <<holder, blocked_lock>> /\ holder[l] = t
        /\ \/ UNCHANGED <<pc, arg>>
           \/ /\ \E place \in {"rel_pri", "rel_holder"} : pc' = [pc EXCEPT ![t] = place]
              /\ arg' = [arg EXCEPT ![t] = l]
    BY <1>1, Zenon DEF LockRelease
  <2>2. BlockedWaits'
    BY <1>0, <1>1, <2>1 DEF Chains, BlockedWaits, DonationPCs, WaitPCs
  <2>3. TidHolderBusy'
    BY <1>0, <1>1, <2>1 DEF Chains, TidHolderBusy
  <2>4. RankRises'
    BY <1>0, <2>1 DEF Chains, RankRises, RankPCs, DonationPCs, WaitPCs, Held
  <2> QED BY <2>2, <2>3, <2>4 DEF Chains
<1>2. ASSUME NEW l \in Locks \ {TidLock}, CallLockRelease(t, l) PROVE Chains'
  BY <1>1, <1>2 DEF CallLockRelease, At
<1>3. CASE AllocateTid(t)
  <2>1. pc[t] = "tid" /\ LockRelease(t, TidLock) /\ TidLock \in Locks
    BY <1>0, <1>3 DEF AllocateTid, At
  <2> QED BY <1>1, <2>1
<1>4. CASE ReleasePriority(t)
  <2>1. /\ UNCHANGED <<holder, blocked_lock, arg>> /\ pc[t] = "rel_pri"
        /\ pc' = [pc EXCEPT ![t] = "rel_holder"]
    BY <1>4 DEF ReleasePriority, At, donate
  <2>2. BlockedWaits' /\ TidHolderBusy'
    BY <1>0, <2>1 DEF Chains, BlockedWaits, DonationPCs, WaitPCs, TidHolderBusy
  <2>3. RankRises'
    BY <1>0, <2>1 DEF Chains, RankRises, RankPCs, DonationPCs, WaitPCs, Held
  <2> QED BY <2>2, <2>3 DEF Chains
<1>5. CASE ReleaseHolder(t)
  <2>1. /\ UNCHANGED <<blocked_lock, arg>> /\ pc[t] = "rel_holder"
        /\ holder' = [holder EXCEPT ![arg[t]] = NULL] /\ pc' = [pc EXCEPT ![t] = "up"]
    BY <1>5 DEF ReleaseHolder, At, local
  <2>2. BlockedWaits'
    BY <1>0, <2>1 DEF Chains, BlockedWaits, DonationPCs, WaitPCs
  <2>3. TidHolderBusy'
    BY <1>0, <2>1 DEF Chains, TidHolderBusy
  <2>4. RankRises'
    <3>1. \A u \in Threads : Held(u)' \subseteq Held(u)
      BY <1>0, <2>1 DEF Held
    <3>2. pc'[t] \notin RankPCs /\ \A u \in Threads \ {t} : pc'[u] = pc[u] /\ arg'[u] = arg[u]
      BY <1>0, <2>1 DEF RankPCs, DonationPCs, WaitPCs
    <3> QED BY <3>1, <3>2 DEF Chains, RankRises
  <2> QED BY <2>2, <2>3, <2>4 DEF Chains
<1>6. CASE ReleaseUp(t)
  <2>1. /\ UNCHANGED <<holder, blocked_lock>> /\ pc[t] = "up"
        /\ \E place \in {"create_unblock", "user"} : pc' = [pc EXCEPT ![t] = place]
        /\ arg' = [arg EXCEPT ![t] = NULL]
    BY <1>6 DEF ReleaseUp, SemaUp, At, donate
  <2>2. BlockedWaits' /\ TidHolderBusy'
    BY <1>0, <2>1 DEF Chains, BlockedWaits, DonationPCs, WaitPCs, TidHolderBusy
  <2>3. RankRises'
    BY <1>0, <2>1 DEF Chains, RankRises, RankPCs, DonationPCs, WaitPCs, Held
  <2> QED BY <2>2, <2>3 DEF Chains
<1>7. ASSUME NEW c \in Threads, NEW p \in Priorities, CallThreadCreate(t, c, p) PROVE Chains'
  <2>1. /\ UNCHANGED holder /\ pc[t] = "user"
        /\ blocked_lock' = [blocked_lock EXCEPT ![c] = NULL]
        /\ \E place \in {"down", "blocked"} : pc' = [pc EXCEPT ![t] = place]
        /\ arg' = [arg EXCEPT ![t] = TidLock]
    BY <1>7 DEF CallThreadCreate, TestHolder, At
  <2>2. BlockedWaits'
    BY <1>0, <2>1 DEF Chains, BlockedWaits, DonationPCs, WaitPCs
  <2>3. TidHolderBusy'
    BY <1>0, <2>1 DEF Chains, TidHolderBusy
  <2>4. RankRises'
    BY <1>0, <2>1 DEF Chains, RankRises, RankPCs, DonationPCs, WaitPCs, Held
  <2> QED BY <2>2, <2>3, <2>4 DEF Chains
<1> QED BY <1>2, <1>3, <1>4, <1>5, <1>6, <1>7

\* Nobody asks for a lock at start.
LEMMA InitChains == Init => Chains
<1> SUFFICES ASSUME Init PROVE Chains
  OBVIOUS
<1>1. NULL \notin Threads /\ TidLock \in Locks
  BY ConstantFacts DEF AllThreads
<1>2. \A t \in Threads : blocked_lock[t] = NULL /\ pc[t] = "user"
  BY DEF Init
<1>3. holder[TidLock] = NULL
  BY <1>1 DEF Init
<1> QED BY <1>1, <1>2, <1>3
        DEF Chains, BlockedWaits, TidHolderBusy, RankRises, RankPCs, DonationPCs, WaitPCs

\* Every step keeps Chains.
LEMMA NextChains == Types /\ Chains /\ [Next]_vars => Chains'
<1> SUFFICES ASSUME Types, Chains, [Next]_vars PROVE Chains'
  OBVIOUS
<1>1. CASE UNCHANGED <<holder, blocked_lock, pc, arg>>
  BY <1>1 DEF Chains, BlockedWaits, TidHolderBusy, RankRises, Held
<1>2. CASE UNCHANGED vars
  BY <1>1, <1>2 DEF vars, donate, local
<1>3. CASE Preempt \/ IdleBlock \/ MlfqsTick \/ Halted
           \/ \E s \in IntrSemas : IntrSemaUp(s)
  BY <1>1, <1>3, KernelStepsKeepLocks
<1>4. ASSUME NEW t \in Threads, UserCall(t) \/ Step(t) PROVE Chains'
  BY <1>4, QuietSteps, QuietChains, OwnChains, ReleaseChains DEF UserCall, Step
<1>5. ASSUME NEW t \in Threads, InterruptWakes(t) PROVE Chains'
  BY <1>5, InterruptWakesQuiet, QuietChains
<1> QED BY <1>2, <1>3, <1>4, <1>5 DEF Next

\* One of finitely many things has the greatest rank.
LEMMA GreatestRank ==
    ASSUME NEW S, IsFiniteSet(S), S # {}, NEW rank \in [S -> Nat]
    PROVE  \E x \in S : \A y \in S : rank[y] <= rank[x]
<1> DEFINE Great(T) == \E x \in T : \A y \in T : rank[y] <= rank[x]
           Sizes == {n \in Nat : \E T \in SUBSET S : T # {} /\ Cardinality(T) = n /\ ~Great(T)}
<1>1. ASSUME ~Great(S) PROVE FALSE
  <2>1. Cardinality(S) \in Sizes
    BY <1>1, FS_CardinalityType
  <2>2. PICK n \in Sizes : \A m \in Sizes : n <= m
    BY <2>1, LeastElement
  <2>3. PICK T \in SUBSET S : T # {} /\ Cardinality(T) = n /\ ~Great(T)
    OBVIOUS
  <2>4. PICK x \in T : TRUE
    BY <2>3
  <2> DEFINE rest == T \ {x}
  <2>5. Cardinality(rest) = n - 1 /\ n - 1 \in Nat /\ n \in Nat
    <3>1. IsFiniteSet(T) /\ IsFiniteSet(rest)
      BY FS_Subset
    <3>2. Cardinality(rest) = Cardinality(T) - 1
      BY <3>1, FS_RemoveElement
    <3>3. Cardinality(rest) \in Nat /\ Cardinality(T) \in Nat
      BY <3>1, FS_CardinalityType
    <3> QED BY <2>3, <3>2, <3>3
  <2>6. rest = {} \/ Great(rest)
    <3> HIDE DEF Great
    <3> QED BY <2>2, <2>5
  <2>7. CASE rest = {}
    BY <2>3, <2>7
  <2>8. CASE Great(rest)
    <3>1. PICK m \in rest : \A y \in rest : rank[y] <= rank[m]
      BY <2>8
    <3>2. \A y \in T : rank[y] \in Nat /\ (y = x \/ rank[y] <= rank[m])
      BY <3>1
    <3>3. CASE rank[m] <= rank[x]
      BY <2>3, <3>2, <3>3
    <3>4. CASE rank[x] <= rank[m]
      BY <2>3, <3>1, <3>2, <3>4
    <3> QED BY <3>2, <3>3, <3>4
  <2> QED BY <2>6, <2>7, <2>8
<1> QED BY <1>1

\* The loop of lock_acquire that follows the chain of holders ends: whatever
\* the threads hold and wait for, and though blocked_lock is cleared late, no
\* thread is reached from itself.
THEOREM ChainsEnd == Spec => []DonationChainsEnd
<1>1. Spec => [](Types /\ Chains)
  <2>1. Spec => []Types
    BY InitTypes, NextTypes, PTL DEF Spec
  <2> QED BY <2>1, InitTypes, InitChains, NextTypes, NextChains, PTL DEF Spec
<1>2. ASSUME Types, Chains PROVE DonationChainsEnd
  <2> SUFFICES ASSUME NEW S \in SUBSET Threads, S # {},
                      \A t \in S : blocked_lock[t] # NULL /\ holder[blocked_lock[t]] \in S
               PROVE  FALSE
    BY DEF DonationChainsEnd
  <2>1. \A t \in S : /\ blocked_lock[t] \in Locks /\ arg[t] = blocked_lock[t]
                     /\ pc[t] \in WaitPCs
    BY <1>2 DEF Types, TypeOK, Chains, BlockedWaits
  <2>2. \A t \in S : blocked_lock[t] # TidLock
    BY <1>2, <2>1 DEF Chains, TidHolderBusy, DonationPCs, WaitPCs
  <2> DEFINE rank == [t \in S |-> Rank[blocked_lock[t]]]
  <2>3. rank \in [S -> Nat]
    BY <2>1, SynchAssumption
  <2>4. IsFiniteSet(S)
    BY SynchAssumption, FS_Subset
  <2>5. PICK t \in S : \A u \in S : rank[u] <= rank[t]
    <3> HIDE DEF rank
    <3> QED BY <2>3, <2>4, GreatestRank
  <2>6. PICK h \in S : holder[blocked_lock[t]] = h
    OBVIOUS
  <2>7. blocked_lock[t] \in Held(h)
    BY <2>1, <2>6 DEF Held
  <2>8. Rank[blocked_lock[t]] < Rank[blocked_lock[h]]
    BY <1>2, <2>1, <2>2, <2>7 DEF Chains, RankRises, RankPCs
  <2>9. rank[h] <= rank[t] /\ rank[h] \in Nat /\ rank[t] \in Nat
    BY <2>3, <2>5
  <2> QED BY <2>8, <2>9
<1> QED BY <1>1, <1>2, PTL

-----------------------------------------------------------------------------
(* The lists of threads.                                                   *)

(***************************************************************************)
(* ElemUsedOnce and BlockedReachable are inductive together with what is   *)
(* true of a thread whose page is free, or which is still being created:   *)
(* it is at the start, so it waits for nothing, and only its creator can   *)
(* make it ready.                                                          *)
(***************************************************************************)
DeadAtUser ==
    \A t \in Threads : status[t] \in {"FREE", "DYING"} => pc[t] = "user"

Creating(t) == child[t] # NULL /\ pc[t] # "create_yield"

ChildrenWait ==
    \A t \in Threads :
        Creating(t) => status[child[t]] = "BLOCKED" /\ pc[child[t]] = "user"

ChildrenDiffer ==
    \A t, u \in Threads : Creating(t) /\ Creating(u) /\ child[t] = child[u] => t = u

BlockedFound ==
    \A t \in Threads :
        status[t] = "BLOCKED" =>
            \/ pc[t] = "down_wait" /\ t \in ToSet(waiters[arg[t]])
            \/ pc[t] = "asleep"
            \/ \E u \in Threads : Creating(u) /\ child[u] = t

Listing == /\ OneRunning /\ ReadyListExact /\ WaitListsExact
           /\ DeadAtUser /\ ChildrenWait /\ ChildrenDiffer /\ BlockedFound

-----------------------------------------------------------------------------
(* What the scheduler's operators do to statuses and lists.                *)

\* A ready list that holds exactly the READY threads of st.
Lists(queue, st) ==
    /\ NoDuplicates(queue)
    /\ \A t \in Threads : t \in ToSet(queue) <=> st[t] = "READY"

LEMMA ScheduleLists ==
    ASSUME NEW st \in [AllThreads -> Statuses], NEW queue \in Seq(Threads),
           Lists(queue, st), \A t \in AllThreads : st[t] # "RUNNING",
           Schedule(st, queue)
    PROVE  /\ OneRunning' /\ ReadyListExact'
           /\ \A t \in Threads :
                 /\ st[t] # "READY" => status'[t] = st[t]
                 /\ st[t] = "READY" => status'[t] \in {"READY", "RUNNING"}
<1>0. Idle \notin Threads /\ AllThreads = Threads \cup {Idle}
  BY ConstantFacts DEF AllThreads
<1>1. CASE queue = <<>>
  <2>1. ToSet(queue) = {}
    BY <1>1, EmptySeq DEF ToSet
  <2>2. /\ current' = Idle /\ ready_list' = <<>>
        /\ status' = [st EXCEPT ![Idle] = "RUNNING"]
    BY <1>1 DEF Schedule
  <2> QED BY <1>0, <1>1, <2>1, <2>2 DEF Lists, OneRunning, ReadyListExact
<1>2. CASE queue # <<>>
  <2>1. PICK next : next = Head(queue)
    OBVIOUS
  <2>2. /\ next \in Threads /\ next \in ToSet(queue)
        /\ NoDuplicates(Tail(queue)) /\ ToSet(Tail(queue)) = ToSet(queue) \ {next}
    BY <1>2, <2>1, PopFrontElements DEF Lists
  <2>3. /\ current' = next /\ ready_list' = Tail(queue)
        /\ status' = [st EXCEPT ![next] = "RUNNING"]
    BY <1>2, <2>1 DEF Schedule
  <2>4. OneRunning'
    BY <1>0, <2>2, <2>3 DEF OneRunning
  <2>5. ReadyListExact'
    BY <1>0, <2>2, <2>3 DEF Lists, ReadyListExact
  <2> QED BY <1>0, <2>2, <2>3, <2>4, <2>5 DEF Lists
<1> QED BY <1>1, <1>2

LEMMA YieldLists ==
    ASSUME TypeOK, NEW st \in [AllThreads -> Statuses],
           NEW queue \in Seq(Threads), Lists(queue, st),
           \A t \in AllThreads : st[t] = "RUNNING" <=> t = current,
           ThreadYield(st, queue)
    PROVE  /\ OneRunning' /\ ReadyListExact'
           /\ \A t \in Threads :
                 /\ st[t] \notin {"READY", "RUNNING"} => status'[t] = st[t]
                 /\ st[t] \in {"READY", "RUNNING"} => status'[t] \in {"READY", "RUNNING"}
<1> DEFINE st2 == [st EXCEPT ![current] = "READY"]
           queue2 == IF current = Idle THEN queue
                     ELSE list_insert_ordered(queue, current, priority)
<1>0. Idle \notin Threads /\ AllThreads = Threads \cup {Idle} /\ current \in AllThreads
  BY ConstantFacts DEF AllThreads, TypeOK
<1>1. st2 \in [AllThreads -> Statuses] /\ \A t \in AllThreads : st2[t] # "RUNNING"
  BY <1>0 DEF Statuses
<1>2. queue2 \in Seq(Threads) /\ Lists(queue2, st2)
  <2>1. CASE current = Idle
    BY <1>0, <2>1 DEF Lists
  <2>2. CASE current # Idle
    <3>1. current \in Threads /\ current \notin ToSet(queue)
      BY <1>0, <2>2 DEF Lists
    <3>2. PICK new : new = list_insert_ordered(queue, current, priority)
      OBVIOUS
    <3>3. /\ new \in Seq(Threads) /\ ToSet(new) = ToSet(queue) \cup {current}
          /\ NoDuplicates(new)
      BY <3>1, <3>2, KeyTypes, InsertOrderedElements DEF Lists
    <3> QED BY <1>0, <2>2, <3>1, <3>2, <3>3 DEF Lists
  <2> QED BY <2>1, <2>2
<1>3. Schedule(st2, queue2)
  BY DEF ThreadYield
<1>4. /\ OneRunning' /\ ReadyListExact'
      /\ \A t \in Threads :
            /\ st2[t] # "READY" => status'[t] = st2[t]
            /\ st2[t] = "READY" => status'[t] \in {"READY", "RUNNING"}
  <2> HIDE DEF st2, queue2
  <2> QED BY <1>1, <1>2, <1>3, ScheduleLists
<1> QED BY <1>0, <1>4

\* The wait list, the statuses and the ready list as sema_up leaves them
\* before it yields.
LEMMA UpLists ==
    ASSUME Types, Listing, NEW s \in AllSemas
    PROVE  /\ Lists(ReadyListAfterUp(s), StatusAfterUp(s))
           /\ \A t \in AllThreads : StatusAfterUp(s)[t] = "RUNNING" <=> t = current
           /\ NoDuplicates(WaitersAfterUp(s))
           /\ \A t \in Threads :
                 \/ /\ StatusAfterUp(s)[t] = status[t]
                    /\ t \in ToSet(WaitersAfterUp(s)) <=> t \in ToSet(waiters[s])
                 \/ /\ t \in ToSet(waiters[s]) /\ t \notin ToSet(WaitersAfterUp(s))
                    /\ StatusAfterUp(s)[t] = "READY"
<1>0. /\ TypeOK /\ waiters[s] \in Seq(Threads) /\ ready_list \in Seq(Threads)
      /\ status \in [AllThreads -> Statuses]
      /\ AllThreads = Threads \cup {Idle} /\ Idle \notin Threads
  BY ConstantFacts DEF Types, TypeOK, AllThreads
<1>1. /\ NoDuplicates(waiters[s])
      /\ \A t \in ToSet(waiters[s]) : status[t] = "BLOCKED"
      /\ NoDuplicates(ready_list)
      /\ \A t \in Threads : t \in ToSet(ready_list) <=> status[t] = "READY"
      /\ \A t \in AllThreads : status[t] = "RUNNING" <=> t = current
  BY DEF Listing, WaitListsExact, ReadyListExact, OneRunning
<1>2. CASE HasWaiter(s)
  <2>1. PICK sorted : sorted = SortedWaiters(s)
    OBVIOUS
  <2>2. /\ sorted \in Seq(Threads) /\ Len(sorted) = Len(waiters[s])
        /\ ToSet(sorted) = ToSet(waiters[s]) /\ NoDuplicates(sorted)
    BY <1>0, <1>1, <2>1, KeyTypes, ListSortElements DEF SortedWaiters
  <2>3. sorted # <<>>
    BY <1>0, <1>2, <2>2, EmptySeq DEF HasWaiter
  <2>4. PICK first : first = Head(sorted)
    OBVIOUS
  <2>5. /\ first \in Threads /\ first \in ToSet(waiters[s])
        /\ NoDuplicates(Tail(sorted)) /\ ToSet(Tail(sorted)) = ToSet(waiters[s]) \ {first}
    BY <2>2, <2>3, <2>4, PopFrontElements
  <2>6. status[first] = "BLOCKED" /\ first \notin ToSet(ready_list)
    BY <1>1, <2>5
  <2>7. PICK new : new = list_insert_ordered(ready_list, first, priority)
    OBVIOUS
  <2>8. ToSet(new) = ToSet(ready_list) \cup {first} /\ NoDuplicates(new)
    BY <1>0, <1>1, <2>5, <2>6, <2>7, KeyTypes, InsertOrderedElements
  <2>9. /\ WaitersAfterUp(s) = Tail(sorted)
        /\ StatusAfterUp(s) = [status EXCEPT ![first] = "READY"]
        /\ ReadyListAfterUp(s) = new
    BY <1>2, <2>1, <2>4, <2>7 DEF WaitersAfterUp, StatusAfterUp, ReadyListAfterUp
  <2>10. Lists(ReadyListAfterUp(s), StatusAfterUp(s))
    BY <1>0, <1>1, <2>5, <2>8, <2>9 DEF Lists
  <2>11. \A t \in AllThreads : StatusAfterUp(s)[t] = "RUNNING" <=> t = current
    BY <1>0, <1>1, <2>5, <2>6, <2>9
  <2> QED BY <1>0, <1>1, <2>5, <2>9, <2>10, <2>11
<1>3. CASE ~ HasWaiter(s)
  <2>1. /\ WaitersAfterUp(s) = waiters[s] /\ StatusAfterUp(s) = status
        /\ ReadyListAfterUp(s) = ready_list
    BY <1>3 DEF WaitersAfterUp, StatusAfterUp, ReadyListAfterUp
  <2> QED BY <1>1, <2>1 DEF Lists
<1> QED BY <1>2, <1>3

-----------------------------------------------------------------------------
(* The steps keep Listing.                                                 *)

LEMMA ToSetOfSeq ==
    ASSUME NEW S, NEW list \in Seq(S)
    PROVE  ToSet(list) \subseteq S
BY LenProperties, ElementOfSeq DEF ToSet

Runnable == {"READY", "RUNNING"}

\* What most steps do to a thread: its statuses, READY and RUNNING aside, and
\* the creation it is busy with stay; its place moves only if it can run.
Undisturbed(t) ==
    /\ status[t] \notin Runnable => status'[t] = status[t]
    /\ status[t] \in Runnable => status'[t] \in Runnable

Steady(t) ==
    /\ status[t] \notin Runnable => pc'[t] = pc[t] /\ arg'[t] = arg[t]
    /\ Creating(t)' <=> Creating(t)
    /\ Creating(t) => child'[t] = child[t]

\* A step that takes at most one thread off a wait list, and makes it ready.
LEMMA ListingKept ==
    ASSUME Types, Listing, OneRunning', ReadyListExact',
           NEW s \in AllSemas, NEW w \in Seq(Threads), NoDuplicates(w),
           waiters' = [waiters EXCEPT ![s] = w],
           \A t \in Threads : Steady(t),
           \A t \in Threads :
               \/ Undisturbed(t) /\ (t \in ToSet(w) <=> t \in ToSet(waiters[s]))
               \/ /\ t \in ToSet(waiters[s]) /\ t \notin ToSet(w)
                  /\ status'[t] \in Runnable
    PROVE  Listing'
<1>0. /\ waiters \in [AllSemas -> Seq(Threads)] /\ NULL \notin Threads
      /\ child \in [Threads -> Threads \cup {NULL}]
      /\ ToSet(w) \subseteq Threads
      /\ \A r \in AllSemas : ToSet(waiters[r]) \subseteq Threads
  BY ToSetOfSeq, ConstantFacts DEF Types, TypeOK, AllThreads
<1>1. /\ \A t \in ToSet(waiters[s]) :
            status[t] = "BLOCKED" /\ pc[t] = "down_wait" /\ arg[t] = s
      /\ \A r \in AllSemas, t \in Threads :
            t \in ToSet(waiters'[r]) =>
                /\ t \in ToSet(waiters[r]) /\ Undisturbed(t)
                /\ status[t] = "BLOCKED" /\ pc[t] = "down_wait" /\ arg[t] = r
  <2>1. \A r \in AllSemas : \A t \in ToSet(waiters[r]) :
            status[t] = "BLOCKED" /\ pc[t] = "down_wait" /\ arg[t] = r
    BY DEF Listing, WaitListsExact
  <2> QED BY <1>0, <2>1
<1>2. WaitListsExact'
  <2>1. \A r \in AllSemas : NoDuplicates(waiters'[r])
    BY <1>0 DEF Listing, WaitListsExact
  <2>2. \A r \in AllSemas : ToSet(waiters'[r]) \subseteq Threads
    BY <1>0
  <2>3. \A r \in AllSemas, t \in Threads : t \in ToSet(waiters'[r]) =>
            status'[t] = "BLOCKED" /\ pc'[t] = "down_wait" /\ arg'[t] = r
    BY <1>1 DEF Undisturbed, Steady, Runnable
  <2> QED BY <2>1, <2>2, <2>3 DEF WaitListsExact
<1>3. DeadAtUser'
  <2>1. \A t \in Threads : status'[t] \in {"FREE", "DYING"} =>
            status'[t] = status[t] /\ pc'[t] = pc[t]
    BY DEF Undisturbed, Steady, Runnable
  <2> QED BY <2>1 DEF Listing, DeadAtUser
<1>4. \A t \in Threads : Creating(t)' => /\ Creating(t) /\ child'[t] = child[t]
                                         /\ child[t] \in Threads
  BY <1>0 DEF Steady, Creating
<1>5. ChildrenWait'
  <2> SUFFICES ASSUME NEW t \in Threads, Creating(t)'
               PROVE  status'[child'[t]] = "BLOCKED" /\ pc'[child'[t]] = "user"
    BY DEF ChildrenWait
  <2>1. /\ Creating(t) /\ child'[t] = child[t] /\ child[t] \in Threads
        /\ status[child[t]] = "BLOCKED" /\ pc[child[t]] = "user"
    BY <1>4 DEF Listing, ChildrenWait
  <2>2. child[t] \notin ToSet(waiters[s])
    BY <1>1, <2>1
  <2> QED BY <2>1, <2>2 DEF Undisturbed, Steady, Runnable
<1>6. ChildrenDiffer'
  BY <1>4 DEF Listing, ChildrenDiffer
<1>7. BlockedFound'
  <2> SUFFICES ASSUME NEW t \in Threads, status'[t] = "BLOCKED"
               PROVE  \/ pc'[t] = "down_wait" /\ t \in ToSet(waiters'[arg'[t]])
                      \/ pc'[t] = "asleep"
                      \/ \E u \in Threads : Creating(u)' /\ child'[u] = t
    BY DEF BlockedFound
  <2>1. /\ status[t] = "BLOCKED" /\ pc'[t] = pc[t] /\ arg'[t] = arg[t]
        /\ t \in ToSet(w) <=> t \in ToSet(waiters[s])
    BY DEF Undisturbed, Steady, Runnable
  <2>2. CASE pc[t] = "down_wait" /\ t \in ToSet(waiters[arg[t]])
    <3>1. arg[t] \in AllSemas
      BY <2>2 DEF Types, LocalsFit
    <3> QED BY <1>0, <2>1, <2>2, <3>1
  <2>3. CASE \E u \in Threads : Creating(u) /\ child[u] = t
    BY <2>3 DEF Steady
  <2> QED BY <2>1, <2>2, <2>3 DEF Listing, BlockedFound
<1> QED BY <1>2, <1>3, <1>5, <1>6, <1>7 DEF Listing

\* A step that touches no wait list.
LEMMA ListingKeptQuietly ==
    ASSUME Types, Listing, OneRunning', ReadyListExact', UNCHANGED waiters,
           \A t \in Threads : Steady(t) /\ Undisturbed(t)
    PROVE  Listing'
<1>1. /\ TidLock \in AllSemas /\ waiters[TidLock] \in Seq(Threads)
      /\ waiters' = [waiters EXCEPT ![TidLock] = waiters[TidLock]]
  BY ConstantFacts DEF Types, TypeOK, AllSemas
<1>2. NoDuplicates(waiters[TidLock])
  BY <1>1 DEF Listing, WaitListsExact
<1> QED BY <1>1, <1>2, ListingKept

\* A step that does not reschedule either.
LEMMA ListingOfMove ==
    ASSUME Types, Listing, UNCHANGED <<sched, waiters>>,
           \A t \in Threads : Steady(t)
    PROVE  Listing'
<1>1. OneRunning' /\ ReadyListExact'
  BY DEF Listing, OneRunning, ReadyListExact, sched
<1>2. \A t \in Threads : Undisturbed(t)
  BY DEF Undisturbed, sched
<1> QED BY <1>1, <1>2, ListingKeptQuietly

\* thread_yield by the running thread, or by the timer on its behalf.
LEMMA ListingOfYield ==
    ASSUME Types, Listing, ThreadYield(status, ready_list), UNCHANGED waiters,
           \A t \in Threads : Steady(t)
    PROVE  Listing'
<1>1. /\ TypeOK /\ status \in [AllThreads -> Statuses] /\ ready_list \in Seq(Threads)
      /\ Lists(ready_list, status)
      /\ \A t \in AllThreads : status[t] = "RUNNING" <=> t = current
  BY DEF Types, TypeOK, Listing, ReadyListExact, OneRunning, Lists
<1>2. /\ OneRunning' /\ ReadyListExact'
      /\ \A t \in Threads :
            /\ status[t] \notin {"READY", "RUNNING"} => status'[t] = status[t]
            /\ status[t] \in {"READY", "RUNNING"} => status'[t] \in {"READY", "RUNNING"}
  BY <1>1, YieldLists
<1> QED BY <1>2, ListingKeptQuietly DEF Undisturbed, Runnable

\* sema_up by thread t.
LEMMA ListingOfUp ==
    ASSUME Types, Listing, NEW t \in Threads, NEW s \in AllSemas, NEW after,
           SemaUp(t, s, after), \A u \in Threads : Steady(u)
    PROVE  Listing'
<1>1. /\ Lists(ReadyListAfterUp(s), StatusAfterUp(s))
      /\ \A u \in AllThreads : StatusAfterUp(s)[u] = "RUNNING" <=> u = current
      /\ NoDuplicates(WaitersAfterUp(s))
      /\ \A u \in Threads :
            \/ /\ StatusAfterUp(s)[u] = status[u]
               /\ u \in ToSet(WaitersAfterUp(s)) <=> u \in ToSet(waiters[s])
            \/ /\ u \in ToSet(waiters[s]) /\ u \notin ToSet(WaitersAfterUp(s))
               /\ StatusAfterUp(s)[u] = "READY"
  BY UpLists
<1>2. /\ WaitersAfterUp(s) \in Seq(Threads)
      /\ StatusAfterUp(s) \in [AllThreads -> Statuses]
      /\ ReadyListAfterUp(s) \in Seq(Threads)
  BY UpTypes DEF Types
<1>3. PICK st \in [AllThreads -> Statuses], queue \in Seq(Threads), w \in Seq(Threads) :
         st = StatusAfterUp(s) /\ queue = ReadyListAfterUp(s) /\ w = WaitersAfterUp(s)
  BY <1>2
<1>4. ThreadYield(st, queue) /\ waiters' = [waiters EXCEPT ![s] = w]
  BY <1>3 DEF SemaUp
<1>5. /\ OneRunning' /\ ReadyListExact'
      /\ \A u \in Threads :
            /\ st[u] \notin {"READY", "RUNNING"} => status'[u] = st[u]
            /\ st[u] \in {"READY", "RUNNING"} => status'[u] \in {"READY", "RUNNING"}
  BY <1>1, <1>3, <1>4, YieldLists DEF Types
<1>6. \A u \in Threads :
          \/ Undisturbed(u) /\ (u \in ToSet(w) <=> u \in ToSet(waiters[s]))
          \/ /\ u \in ToSet(waiters[s]) /\ u \notin ToSet(w)
             /\ status'[u] \in Runnable
  BY <1>1, <1>3, <1>5 DEF Undisturbed, Runnable
<1> QED BY <1>1, <1>3, <1>4, <1>5, <1>6, ListingKept

\* The running thread is on no list, is not being created, and its status is
\* RUNNING: where it goes disturbs nobody.
LEMMA RunnerSteady ==
    ASSUME Types, Listing, NEW t \in Threads, t = current,
           \A u \in Threads \ {t} :
               pc'[u] = pc[u] /\ arg'[u] = arg[u] /\ child'[u] = child[u],
           Creating(t)' <=> Creating(t), Creating(t) => child'[t] = child[t]
    PROVE  \A u \in Threads : Steady(u)
<1>1. status[t] = "RUNNING"
  BY DEF Types, TypeOK, Listing, OneRunning
<1> QED BY <1>1 DEF Steady, Creating, Runnable

\* A thread that goes from one place to another, not into thread_create's end.
LEMMA RunnerMoves ==
    ASSUME Types, Listing, NEW t \in Threads, t = current, UNCHANGED child,
           pc[t] # "create_yield", NEW place, place # "create_yield",
           pc' = [pc EXCEPT ![t] = place],
           \A u \in Threads \ {t} : arg'[u] = arg[u]
    PROVE  \A u \in Threads : Steady(u)
<1>1. \A u \in Threads \ {t} : pc'[u] = pc[u]
  BY DEF Types, TypeOK
<1>2. Creating(t)' <=> Creating(t)
  BY DEF Creating, Types, TypeOK
<1> QED BY <1>1, <1>2, RunnerSteady

\* A handler makes a sleeper ready.
LEMMA InterruptWakesListing ==
    ASSUME Types, Listing, NEW t \in Threads, InterruptWakes(t)
    PROVE  Listing'
<1>0. /\ pc \in [Threads -> PCs] /\ status \in [AllThreads -> Statuses]
      /\ child \in [Threads -> Threads \cup {NULL}] /\ NULL \notin Threads
      /\ ready_list \in Seq(Threads) /\ TypeOK
      /\ AllThreads = Threads \cup {Idle} /\ Idle \notin Threads
      /\ \A s \in AllSemas : ToSet(waiters[s]) \subseteq Threads
  BY ToSetOfSeq, ConstantFacts DEF Types, TypeOK, AllThreads
<1>1. PICK new : new = list_insert_ordered(ready_list, t, priority)
  OBVIOUS
<1>2. /\ status[t] = "BLOCKED" /\ pc[t] = "asleep"
      /\ status' = [status EXCEPT ![t] = "READY"] /\ ready_list' = new
      /\ pc' = [pc EXCEPT ![t] = "user"]
      /\ UNCHANGED <<current, waiters, arg, child>>
  BY <1>1 DEF InterruptWakes, sema, local
<1>3. t \notin ToSet(ready_list)
  BY <1>2 DEF Listing, ReadyListExact
<1>4. ToSet(new) = ToSet(ready_list) \cup {t} /\ NoDuplicates(new)
  BY <1>0, <1>1, <1>3, KeyTypes, InsertOrderedElements DEF Listing, ReadyListExact
<1>5. OneRunning' /\ ReadyListExact'
  BY <1>0, <1>2, <1>4 DEF Listing, OneRunning, ReadyListExact
<1>6. /\ status'[t] = "READY" /\ \A u \in Threads \ {t} : status'[u] = status[u]
      /\ \A u \in Threads \ {t} : pc'[u] = pc[u]
  BY <1>0, <1>2
<1>7. WaitListsExact'
  <2>1. \A s \in AllSemas : \A u \in ToSet(waiters[s]) :
            /\ u \in Threads \ {t}
            /\ status[u] = "BLOCKED" /\ pc[u] = "down_wait" /\ arg[u] = s
    BY <1>0, <1>2 DEF Listing, WaitListsExact
  <2>2. \A s \in AllSemas : NoDuplicates(waiters[s])
    BY DEF Listing, WaitListsExact
  <2> QED BY <1>2, <1>6, <2>1, <2>2 DEF WaitListsExact
<1>8. DeadAtUser'
  BY <1>6 DEF Listing, DeadAtUser
<1>9. \A u \in Threads : Creating(u)' <=> Creating(u)
  BY <1>0, <1>2 DEF Creating
<1>10. \A u \in Threads : Creating(u) => child[u] \in Threads \ {t}
  BY <1>0, <1>2 DEF Listing, ChildrenWait, Creating
<1>11. ChildrenWait'
  BY <1>2, <1>6, <1>9, <1>10 DEF Listing, ChildrenWait
<1>12. ChildrenDiffer'
  BY <1>2, <1>9 DEF Listing, ChildrenDiffer
<1>13. BlockedFound'
  BY <1>2, <1>6, <1>9 DEF Listing, BlockedFound
<1> QED BY <1>5, <1>7, <1>8, <1>11, <1>12, <1>13 DEF Listing

LEMMA KernelStepListing ==
    ASSUME Types, Listing,
           \/ Preempt \/ IdleBlock \/ MlfqsTick \/ Halted
           \/ \E s \in IntrSemas : IntrSemaUp(s)
    PROVE  Listing'
<1>0. UNCHANGED <<pc, arg, child>> => \A t \in Threads : Steady(t)
  BY DEF Steady, Creating
<1>1. CASE Preempt
  <2>1. ThreadYield(status, ready_list) /\ UNCHANGED <<waiters, pc, arg, child>>
    BY <1>1 DEF Preempt, sema, local
  <2> QED BY <1>0, <2>1, ListingOfYield
<1>2. CASE IdleBlock
  <2> DEFINE st == [status EXCEPT ![Idle] = "BLOCKED"]
  <2>1. /\ current = Idle /\ Schedule(st, ready_list)
        /\ UNCHANGED <<waiters, pc, arg, child>>
    BY <1>2 DEF IdleBlock, sema, local
  <2>2. /\ status \in [AllThreads -> Statuses] /\ ready_list \in Seq(Threads)
        /\ AllThreads = Threads \cup {Idle} /\ Idle \notin Threads
    BY ConstantFacts DEF Types, TypeOK, AllThreads
  <2>3. st \in [AllThreads -> Statuses] /\ \A t \in Threads : st[t] = status[t]
    BY <2>2 DEF Statuses
  <2>4. Lists(ready_list, st) /\ \A t \in AllThreads : st[t] # "RUNNING"
    BY <2>1, <2>2, <2>3 DEF Listing, ReadyListExact, OneRunning, Lists
  <2> HIDE DEF st
  <2>5. /\ OneRunning' /\ ReadyListExact'
        /\ \A t \in Threads :
              /\ st[t] # "READY" => status'[t] = st[t]
              /\ st[t] = "READY" => status'[t] \in {"READY", "RUNNING"}
    BY <2>1, <2>2, <2>3, <2>4, ScheduleLists
  <2>6. \A t \in Threads : Undisturbed(t)
    BY <2>3, <2>5 DEF Undisturbed, Runnable
  <2> QED BY <1>0, <2>1, <2>5, <2>6, ListingKeptQuietly
<1>3. CASE MlfqsTick \/ Halted
  <2>1. UNCHANGED <<sched, waiters, pc, arg, child>>
    BY <1>3 DEF MlfqsTick, Halted, vars, sema, local
  <2> QED BY <1>0, <2>1, ListingOfMove
<1>4. ASSUME NEW s \in IntrSemas, IntrSemaUp(s) PROVE Listing'
  <2>1. s \in AllSemas
    BY ConstantFacts DEF AllSemas
  <2>2. PICK w \in Seq(Threads) : w = WaitersAfterUp(s)
    BY <2>1, UpTypes DEF Types
  <2>3. /\ waiters' = [waiters EXCEPT ![s] = w] /\ status' = StatusAfterUp(s)
        /\ ready_list' = ReadyListAfterUp(s) /\ UNCHANGED <<current, pc, arg, child>>
    BY <1>4, <2>2 DEF IntrSemaUp, local
  <2>4. /\ Lists(ready_list', status')
        /\ \A u \in AllThreads : status'[u] = "RUNNING" <=> u = current
        /\ NoDuplicates(w)
        /\ \A u \in Threads :
              \/ /\ status'[u] = status[u]
                 /\ u \in ToSet(w) <=> u \in ToSet(waiters[s])
              \/ /\ u \in ToSet(waiters[s]) /\ u \notin ToSet(w)
                 /\ status'[u] = "READY"
    BY <2>1, <2>2, <2>3, UpLists
  <2>5. OneRunning' /\ ReadyListExact'
    BY <2>3, <2>4 DEF OneRunning, ReadyListExact, Lists
  <2> QED BY <1>0, <2>1, <2>3, <2>4, <2>5, ListingKept DEF Undisturbed, Runnable
<1> QED BY <1>1, <1>2, <1>3, <1>4

LEMMA SemaStepListing ==
    ASSUME Types, Listing, NEW t \in Threads,
           \/ \E s \in Semas : CallSemaDown(t, s) \/ CallSemaUp(t, s)
           \/ DownBlocks(t) \/ DownTakes(t)
    PROVE  Listing'
<1>0. /\ pc \in [Threads -> PCs] /\ arg \in [Threads -> AllSemas \cup {NULL}]
      /\ TypeOK
  BY DEF Types, TypeOK
<1>1. ASSUME NEW s \in Semas, CallSemaDown(t, s) PROVE Listing'
  <2>1. /\ t = current /\ pc[t] = "user" /\ pc' = [pc EXCEPT ![t] = "down"]
        /\ arg' = [arg EXCEPT ![t] = s] /\ UNCHANGED <<sched, waiters, child>>
    BY <1>1 DEF CallSemaDown, At, Running, sema
  <2>2. \A u \in Threads : Steady(u)
    BY <1>0, <2>1, RunnerMoves
  <2> QED BY <2>1, <2>2, ListingOfMove
<1>2. ASSUME NEW s \in Semas, CallSemaUp(t, s) PROVE Listing'
  <2>1. /\ t = current /\ pc[t] = "user" /\ pc' = [pc EXCEPT ![t] = "user"]
        /\ SemaUp(t, s, "user") /\ UNCHANGED <<arg, child>> /\ s \in AllSemas
    BY <1>2 DEF CallSemaUp, SemaUp, At, Running, local, AllSemas
  <2>2. \A u \in Threads : Steady(u)
    BY <2>1, RunnerMoves
  <2> QED BY <2>1, <2>2, ListingOfUp
<1>3. CASE DownBlocks(t)
  <2> DEFINE st == [status EXCEPT ![t] = "BLOCKED"]
  <2>1. /\ t = current /\ pc[t] \in {"down", "down_wait"} /\ arg[t] \in AllSemas
        /\ pc' = [pc EXCEPT ![t] = "down_wait"] /\ UNCHANGED <<arg, child>>
        /\ waiters' = [waiters EXCEPT ![arg[t]] = Append(@, t)]
        /\ Schedule(st, ready_list)
    BY <1>3 DEF DownBlocks, At, Running, local, Types, LocalsFit
  <2>2. /\ status \in [AllThreads -> Statuses] /\ ready_list \in Seq(Threads)
        /\ AllThreads = Threads \cup {Idle} /\ Idle \notin Threads
        /\ waiters \in [AllSemas -> Seq(Threads)]
        /\ \A r \in AllSemas : ToSet(waiters[r]) \subseteq Threads
    BY ToSetOfSeq, ConstantFacts DEF Types, TypeOK, AllThreads
  <2>3. /\ \A u \in AllThreads : status[u] = "RUNNING" <=> u = t
        /\ NoDuplicates(ready_list)
        /\ \A u \in Threads : u \in ToSet(ready_list) <=> status[u] = "READY"
        /\ \A r \in AllSemas : /\ NoDuplicates(waiters[r])
                               /\ \A u \in ToSet(waiters[r]) :
                                     status[u] = "BLOCKED" /\ pc[u] = "down_wait" /\ arg[u] = r
    BY <2>1 DEF Listing, OneRunning, ReadyListExact, WaitListsExact
  <2>4. /\ st \in [AllThreads -> Statuses] /\ st[t] = "BLOCKED"
        /\ \A u \in AllThreads \ {t} : st[u] = status[u]
    BY <2>2 DEF Statuses
  <2>5. Lists(ready_list, st) /\ \A u \in AllThreads : st[u] # "RUNNING"
    BY <2>2, <2>3, <2>4 DEF Lists
  <2> HIDE DEF st
  <2>6. /\ OneRunning' /\ ReadyListExact'
        /\ \A u \in Threads :
              /\ st[u] # "READY" => status'[u] = st[u]
              /\ st[u] = "READY" => status'[u] \in {"READY", "RUNNING"}
    BY <2>1, <2>2, <2>4, <2>5, ScheduleLists
  <2>7. PICK r \in AllSemas : r = arg[t]
    BY <2>1
  <2>8. t \notin ToSet(waiters[r])
    BY <2>2, <2>3
  <2>9. PICK w : w = Append(waiters[r], t)
    OBVIOUS
  <2>10. w \in Seq(Threads) /\ NoDuplicates(w) /\ ToSet(w) = ToSet(waiters[r]) \cup {t}
    BY <2>2, <2>3, <2>8, <2>9, PushBackElements
  <2>11. waiters' = [waiters EXCEPT ![r] = w]
    BY <2>1, <2>7, <2>9
  <2>12. /\ status'[t] = "BLOCKED" /\ pc'[t] = "down_wait" /\ arg'[t] = r
         /\ \A u \in Threads \ {t} :
               /\ Undisturbed(u) /\ pc'[u] = pc[u] /\ arg'[u] = arg[u]
    BY <1>0, <2>1, <2>2, <2>4, <2>6, <2>7 DEF Undisturbed, Runnable
  <2>13. WaitListsExact'
    <3>1. \A q \in AllSemas : NoDuplicates(waiters'[q])
      BY <2>2, <2>3, <2>10, <2>11
    <3>2. \A q \in AllSemas, u \in Threads \ {t} :
              u \in ToSet(waiters'[q]) => u \in ToSet(waiters[q])
      BY <2>2, <2>10, <2>11
    <3>3. \A q \in AllSemas : t \in ToSet(waiters'[q]) => q = r
      BY <2>2, <2>3, <2>10, <2>11
    <3>4. \A q \in AllSemas : ToSet(waiters'[q]) \subseteq Threads
      BY <2>2, <2>10, <2>11
    <3>5. ASSUME NEW q \in AllSemas, NEW u \in Threads, u \in ToSet(waiters'[q])
          PROVE  status'[u] = "BLOCKED" /\ pc'[u] = "down_wait" /\ arg'[u] = q
      <4>1. CASE u = t
        BY <2>12, <3>3, <3>5, <4>1
      <4>2. CASE u # t
        BY <2>3, <2>12, <3>2, <3>5, <4>2 DEF Undisturbed, Runnable
      <4> QED BY <4>1, <4>2
    <3> QED BY <3>1, <3>4, <3>5 DEF WaitListsExact
  <2>14. DeadAtUser'
    BY <2>12 DEF Listing, DeadAtUser, Undisturbed, Runnable
  <2>15. \A u \in Threads : Creating(u)' <=> Creating(u)
    BY <1>0, <2>1 DEF Creating
  <2>16. \A u \in Threads : Creating(u) => child[u] \in Threads /\ child[u] # t
    <3>1. child \in [Threads -> Threads \cup {NULL}] /\ status[t] = "RUNNING"
      BY <2>2, <2>3 DEF Types, TypeOK
    <3> QED BY <3>1 DEF Listing, ChildrenWait, Creating
  <2>17. ChildrenWait'
    BY <2>1, <2>12, <2>15, <2>16
       DEF Listing, ChildrenWait, Undisturbed, Runnable
  <2>18. ChildrenDiffer'
    BY <2>1, <2>15 DEF Listing, ChildrenDiffer
  <2>19. BlockedFound'
    <3> SUFFICES ASSUME NEW u \in Threads, status'[u] = "BLOCKED"
                 PROVE  \/ pc'[u] = "down_wait" /\ u \in ToSet(waiters'[arg'[u]])
                        \/ pc'[u] = "asleep"
                        \/ \E v \in Threads : Creating(v)' /\ child'[v] = u
      BY DEF BlockedFound
    <3>1. CASE u = t
      BY <2>2, <2>10, <2>11, <2>12, <3>1
    <3>2. CASE u # t
      <4>1. status[u] = "BLOCKED" /\ pc'[u] = pc[u] /\ arg'[u] = arg[u]
        BY <2>12, <3>2 DEF Undisturbed, Runnable
      <4>2. CASE pc[u] = "down_wait" /\ u \in ToSet(waiters[arg[u]])
        <5>1. arg[u] \in AllSemas
          BY <4>2 DEF Types, LocalsFit
        <5> QED BY <2>2, <2>10, <2>11, <4>1, <4>2, <5>1
      <4>3. CASE \E v \in Threads : Creating(v) /\ child[v] = u
        BY <2>1, <2>15, <4>3
      <4> QED BY <4>1, <4>2, <4>3 DEF Listing, BlockedFound
    <3> QED BY <3>1, <3>2
  <2> QED BY <2>6, <2>13, <2>14, <2>17, <2>18, <2>19 DEF Listing
<1>4. CASE DownTakes(t)
  <2>1. /\ t = current /\ pc[t] # "create_yield"
        /\ \E place \in {"own", "user"} : pc' = [pc EXCEPT ![t] = place]
        /\ \A u \in Threads \ {t} : arg'[u] = arg[u]
        /\ UNCHANGED <<sched, waiters, child>>
    BY <1>0, <1>4 DEF DownTakes, At, Running
  <2>2. \A u \in Threads : Steady(u)
    BY <2>1, RunnerMoves
  <2> QED BY <2>1, <2>2, ListingOfMove
<1> QED BY <1>1, <1>2, <1>3, <1>4

LEMMA LockStepListing ==
    ASSUME Types, Listing, NEW t \in Threads,
           \/ \E l \in Locks \ {TidLock} : CallLockAcquire(t, l) \/ CallLockRelease(t, l)
           \/ \E l \in TryLocks : CallLockTryAcquire(t, l)
           \/ RecordBlockedLock(t) \/ ReadHolder(t) \/ DonateFaults(t)
           \/ DonateSkips(t) \/ DonateComputes(t) \/ DonateTangled(t)
           \/ DonateWrites(t) \/ EndsChain(t) \/ ReadsAgain(t) \/ NextInChain(t)
           \/ LockOwn(t) \/ OwnHolder(t) \/ AllocateTid(t)
           \/ ReleasePriority(t) \/ ReleaseHolder(t) \/ ReleaseUp(t)
    PROVE  Listing'
<1>0. pc \in [Threads -> PCs] /\ arg \in [Threads -> AllSemas \cup {NULL}]
  BY DEF Types, TypeOK
<1> DEFINE Places == DonationPCs \cup
                     {"blocked", "down", "own", "own_holder", "try_own", "rel_pri",
                      "rel_holder", "up", "tid", "user"}
           Moves == /\ t = current /\ pc[t] # "create_yield"
                    /\ \E place \in Places : pc' = [pc EXCEPT ![t] = place]
                    /\ \A u \in Threads \ {t} : arg'[u] = arg[u]
                    /\ UNCHANGED <<sched, waiters, child>>
           Stays == UNCHANGED <<sched, waiters, pc, arg, child>>
<1>1. Moves => Listing'
  <2> SUFFICES ASSUME Moves PROVE Listing'
    OBVIOUS
  <2>1. \A u \in Threads : Steady(u)
    BY RunnerMoves DEF DonationPCs
  <2> QED BY <2>1, ListingOfMove
<1>2. Stays => Listing'
  <2> SUFFICES ASSUME Stays PROVE Listing'
    OBVIOUS
  <2>1. \A u \in Threads : Steady(u)
    BY DEF Steady, Creating
  <2> QED BY <2>1, ListingOfMove
<1>3. ASSUME NEW l \in Locks, CallLockAcquire(t, l) PROVE Moves
  BY <1>0, <1>3, Zenon DEF CallLockAcquire, TestHolder, At, Running, sema
<1>4. ASSUME NEW l \in TryLocks, CallLockTryAcquire(t, l) PROVE Moves
  BY <1>0, <1>4 DEF CallLockTryAcquire, At, Running
<1>5. \/ RecordBlockedLock(t) \/ DonateSkips(t) \/ DonateComputes(t)
      \/ DonateWrites(t) \/ EndsChain(t) \/ ReadsAgain(t)
      => Moves
  BY DEF RecordBlockedLock, DonateSkips, DonateComputes, DonateWrites, EndsChain,
         ReadsAgain, At, Running, sema, local, DonationPCs
<1>6. DonateFaults(t) => Stays
  BY DEF DonateFaults, sema, local
<1>7. ReadHolder(t) \/ DonateTangled(t) \/ NextInChain(t) => Moves \/ Stays
  <2> SUFFICES ASSUME ReadHolder(t) \/ DonateTangled(t) \/ NextInChain(t)
               PROVE  Moves \/ Stays
    OBVIOUS
  <2>1. /\ t = current /\ pc[t] \in DonationPCs
        /\ UNCHANGED <<sched, waiters, arg, child>>
    BY DEF ReadHolder, DonateTangled, NextInChain, At, Running, sema, DonationPCs
  <2>2. \/ UNCHANGED pc
        \/ \E place \in {"donate", "sorting", "donate_write", "link"} :
              pc' = [pc EXCEPT ![t] = place]
    BY Zenon DEF ReadHolder, DonateTangled, NextInChain
  <2> QED BY <2>1, <2>2 DEF DonationPCs
<1>8. LockOwn(t) => Moves
  BY DEF LockOwn, At, Running, sema, local
<1>10. OwnHolder(t) => Moves
  BY <1>0 DEF OwnHolder, At, Running, sema
<1>11. ASSUME NEW l \in Locks, LockRelease(t, l), t = current, pc[t] # "create_yield"
       PROVE  Moves \/ Stays
  <2>1. UNCHANGED <<sched, waiters, child>>
    BY <1>11 DEF LockRelease, sema
  <2>2. \/ UNCHANGED <<pc, arg>>
        \/ /\ \E place \in {"rel_pri", "rel_holder"} : pc' = [pc EXCEPT ![t] = place]
           /\ arg' = [arg EXCEPT ![t] = l]
    BY <1>11, Zenon DEF LockRelease
  <2> QED BY <1>0, <1>11, <2>1, <2>2
<1>12. ASSUME NEW l \in Locks, CallLockRelease(t, l) PROVE Moves \/ Stays
  BY <1>11, <1>12 DEF CallLockRelease, At, Running
<1>13. AllocateTid(t) => Moves \/ Stays
  BY <1>11, ConstantFacts DEF AllocateTid, At, Running
<1>14. ReleasePriority(t) => Moves
  BY DEF ReleasePriority, At, Running, sema
<1>15. ReleaseHolder(t) => Moves
  BY DEF ReleaseHolder, At, Running, sema, local
<1>16. CASE ReleaseUp(t)
  <2> DEFINE after == IF arg[t] = TidLock THEN "create_unblock" ELSE "user"
  <2>1. /\ t = current /\ pc[t] = "up" /\ arg[t] \in AllSemas
        /\ SemaUp(t, arg[t], after) /\ pc' = [pc EXCEPT ![t] = after]
        /\ arg' = [arg EXCEPT ![t] = NULL] /\ UNCHANGED child
        /\ after # "create_yield"
    BY <1>16 DEF ReleaseUp, SemaUp, At, Running, Types, LocalsFit, LockPCs, AllSemas
  <2> HIDE DEF after
  <2>2. \A u \in Threads : Steady(u)
    BY <1>0, <2>1, RunnerMoves
  <2> QED BY <2>1, <2>2, ListingOfUp
<1> HIDE DEF Moves, Stays
<1> QED BY <1>1, <1>2, <1>3, <1>4, <1>5, <1>6, <1>7, <1>8, <1>10, <1>12, <1>13,
           <1>14, <1>15, <1>16

LEMMA CreateListing ==
    ASSUME Types, Listing, NEW t \in Threads, NEW c \in Threads, NEW p,
           CallThreadCreate(t, c, p)
    PROVE  Listing'
<1>0. /\ pc \in [Threads -> PCs] /\ status \in [AllThreads -> Statuses]
      /\ child \in [Threads -> Threads \cup {NULL}] /\ NULL \notin Threads
      /\ arg \in [Threads -> AllSemas \cup {NULL}]
      /\ AllThreads = Threads \cup {Idle} /\ Idle \notin Threads
      /\ \A s \in AllSemas : ToSet(waiters[s]) \subseteq Threads
  BY ToSetOfSeq, ConstantFacts DEF Types, TypeOK, AllThreads
<1>1. /\ t = current /\ pc[t] = "user" /\ status[c] = "FREE"
      /\ status' = [status EXCEPT ![c] = "BLOCKED"]
      /\ child' = [child EXCEPT ![t] = c]
      /\ \E place \in {"down", "blocked"} : pc' = [pc EXCEPT ![t] = place]
      /\ arg' = [arg EXCEPT ![t] = TidLock]
      /\ UNCHANGED <<current, ready_list, waiters>>
  BY Zenon DEF CallThreadCreate, TestHolder, At, Running, sema
<1>2. /\ status[t] = "RUNNING" /\ t # c /\ pc[c] = "user"
      /\ \A u \in Threads \ {c} : status'[u] = status[u]
      /\ \A u \in Threads \ {t} : pc'[u] = pc[u] /\ arg'[u] = arg[u] /\ child'[u] = child[u]
      /\ status'[c] = "BLOCKED" /\ child'[t] = c /\ pc'[t] \in {"down", "blocked"}
  BY <1>0, <1>1 DEF Listing, OneRunning, DeadAtUser
<1>3. OneRunning' /\ ReadyListExact'
  BY <1>0, <1>1 DEF Listing, OneRunning, ReadyListExact
<1>4. WaitListsExact'
  <2>1. \A s \in AllSemas : \A u \in ToSet(waiters[s]) : u # c /\ u # t
    BY <1>1, <1>2 DEF Listing, WaitListsExact
  <2> QED BY <1>0, <1>1, <1>2, <2>1 DEF Listing, WaitListsExact
<1>5. DeadAtUser'
  BY <1>2 DEF Listing, DeadAtUser
<1>6. \A u \in Threads \ {t} : Creating(u) => child[u] \in Threads \ {t, c}
  BY <1>0, <1>1, <1>2 DEF Listing, ChildrenWait, Creating
<1>7. Creating(t)' /\ \A u \in Threads \ {t} : Creating(u)' <=> Creating(u)
  BY <1>0, <1>2 DEF Creating
<1>8. ChildrenWait'
  <2> SUFFICES ASSUME NEW u \in Threads, Creating(u)'
               PROVE  status'[child'[u]] = "BLOCKED" /\ pc'[child'[u]] = "user"
    BY DEF ChildrenWait
  <2>1. CASE u = t
    BY <1>2, <2>1
  <2>2. CASE u # t
    BY <1>2, <1>6, <1>7, <2>2 DEF Listing, ChildrenWait
  <2> QED BY <2>1, <2>2
<1>9. ChildrenDiffer'
  BY <1>2, <1>6, <1>7 DEF Listing, ChildrenDiffer
<1>10. BlockedFound'
  <2> SUFFICES ASSUME NEW u \in Threads, status'[u] = "BLOCKED"
               PROVE  \/ pc'[u] = "down_wait" /\ u \in ToSet(waiters'[arg'[u]])
                      \/ pc'[u] = "asleep"
                      \/ \E v \in Threads : Creating(v)' /\ child'[v] = u
    BY DEF BlockedFound
  <2>1. CASE u = c
    BY <1>2, <1>7, <2>1
  <2>2. CASE u # c
    <3>1. status[u] = "BLOCKED" /\ u # t
      BY <1>2, <2>2
    <3>2. CASE pc[u] = "down_wait" /\ u \in ToSet(waiters[arg[u]])
      BY <1>1, <1>2, <3>1, <3>2
    <3>3. CASE \E v \in Threads : Creating(v) /\ child[v] = u
      <4>1. PICK v \in Threads : Creating(v) /\ child[v] = u
        BY <3>3
      <4>2. v # t
        <5>1. arg[t] = NULL /\ TidLock # NULL
          BY <1>1, ConstantFacts DEF Types, LocalsFit, LockPCs, AllSemas
        <5>2. child[t] = NULL
          BY <1>1, <5>1 DEF Types, LocalsFit
        <5> QED BY <4>1, <5>2 DEF Creating
      <4> QED BY <1>2, <1>7, <4>1, <4>2
    <3>4. pc'[u] = pc[u]
      BY <1>2, <3>1
    <3> QED BY <3>1, <3>2, <3>3, <3>4 DEF Listing, BlockedFound
  <2> QED BY <2>1, <2>2
<1> QED BY <1>3, <1>4, <1>5, <1>8, <1>9, <1>10 DEF Listing

LEMMA CreateUnblocksListing ==
    ASSUME Types, Listing, NEW t \in Threads, CreateUnblocks(t)
    PROVE  Listing'
<1>0. /\ pc \in [Threads -> PCs] /\ status \in [AllThreads -> Statuses]
      /\ child \in [Threads -> Threads \cup {NULL}] /\ NULL \notin Threads
      /\ ready_list \in Seq(Threads) /\ TypeOK
      /\ AllThreads = Threads \cup {Idle} /\ Idle \notin Threads
      /\ \A s \in AllSemas : ToSet(waiters[s]) \subseteq Threads
  BY ToSetOfSeq, ConstantFacts DEF Types, TypeOK, AllThreads
<1>1. PICK c \in Threads : c = child[t] /\ pc[t] = "create_unblock" /\ t = current
  BY DEF CreateUnblocks, At, Running, Types, LocalsFit
<1>2. PICK new : new = list_insert_ordered(ready_list, c, priority)
  OBVIOUS
<1>3. /\ status' = [status EXCEPT ![c] = "READY"] /\ ready_list' = new
      /\ pc' = [pc EXCEPT ![t] = "create_yield"]
      /\ UNCHANGED <<current, waiters, arg, child>>
  BY <1>1, <1>2 DEF CreateUnblocks, sema, local
<1>4. /\ Creating(t) /\ status[c] = "BLOCKED" /\ pc[c] = "user"
      /\ status[t] = "RUNNING" /\ c # t /\ c \notin ToSet(ready_list)
  BY <1>0, <1>1 DEF Listing, ChildrenWait, Creating, OneRunning, ReadyListExact
<1>5. ToSet(new) = ToSet(ready_list) \cup {c} /\ NoDuplicates(new)
  BY <1>0, <1>2, <1>4, KeyTypes, InsertOrderedElements DEF Listing, ReadyListExact
<1>6. OneRunning' /\ ReadyListExact'
  BY <1>0, <1>3, <1>4, <1>5 DEF Listing, OneRunning, ReadyListExact
<1>7. /\ status'[c] = "READY" /\ \A u \in Threads \ {c} : status'[u] = status[u]
      /\ \A u \in Threads \ {t} : pc'[u] = pc[u]
  BY <1>0, <1>3
<1>8. WaitListsExact'
  <2>1. \A s \in AllSemas : \A u \in ToSet(waiters[s]) :
            /\ u \in Threads \ {c, t}
            /\ status[u] = "BLOCKED" /\ pc[u] = "down_wait" /\ arg[u] = s
    BY <1>0, <1>1, <1>4 DEF Listing, WaitListsExact
  <2>2. \A s \in AllSemas : NoDuplicates(waiters[s])
    BY DEF Listing, WaitListsExact
  <2> QED BY <1>3, <1>7, <2>1, <2>2 DEF WaitListsExact
<1>9. DeadAtUser'
  BY <1>4, <1>7 DEF Listing, DeadAtUser
<1>10. ~ Creating(t)' /\ \A u \in Threads \ {t} : Creating(u)' <=> Creating(u)
  BY <1>0, <1>3, <1>7 DEF Creating
<1>11. \A u \in Threads \ {t} : Creating(u) => child[u] \in Threads \ {t, c}
  BY <1>0, <1>1, <1>4 DEF Listing, ChildrenWait, ChildrenDiffer, Creating
<1>12. ChildrenWait'
  BY <1>3, <1>7, <1>10, <1>11 DEF Listing, ChildrenWait
<1>13. ChildrenDiffer'
  BY <1>3, <1>10 DEF Listing, ChildrenDiffer
<1>14. BlockedFound'
  <2> SUFFICES ASSUME NEW u \in Threads, status'[u] = "BLOCKED"
               PROVE  \/ pc'[u] = "down_wait" /\ u \in ToSet(waiters'[arg'[u]])
                      \/ pc'[u] = "asleep"
                      \/ \E v \in Threads : Creating(v)' /\ child'[v] = u
    BY DEF BlockedFound
  <2>1. u # c /\ u # t /\ status[u] = "BLOCKED"
    BY <1>4, <1>7
  <2>2. CASE pc[u] = "down_wait" /\ u \in ToSet(waiters[arg[u]])
    BY <1>3, <1>7, <2>1, <2>2
  <2>3. CASE \E v \in Threads : Creating(v) /\ child[v] = u
    BY <1>1, <1>3, <1>10, <2>1, <2>3
  <2>4. pc'[u] = pc[u]
    BY <1>7, <2>1
  <2> QED BY <2>1, <2>2, <2>3, <2>4 DEF Listing, BlockedFound
<1> QED BY <1>6, <1>8, <1>9, <1>12, <1>13, <1>14 DEF Listing

\* The running thread exits, or goes to sleep.
LEMMA LeaveListing ==
    ASSUME Types, Listing, NEW t \in Threads, CallThreadExit(t) \/ CallSleep(t)
    PROVE  Listing'
<1>0. /\ status \in [AllThreads -> Statuses] /\ ready_list \in Seq(Threads)
      /\ child \in [Threads -> Threads \cup {NULL}] /\ NULL \notin Threads
      /\ pc \in [Threads -> PCs]
      /\ AllThreads = Threads \cup {Idle} /\ Idle \notin Threads
      /\ \A s \in AllSemas : ToSet(waiters[s]) \subseteq Threads
  BY ToSetOfSeq, ConstantFacts DEF Types, TypeOK, AllThreads
<1>1. PICK left \in {"DYING", "FREE", "BLOCKED"} :
         /\ t = current /\ pc[t] = "user"
         /\ Schedule([status EXCEPT ![t] = left], ready_list)
         /\ pc' = [pc EXCEPT ![t] = IF left = "BLOCKED" THEN "asleep" ELSE "user"]
         /\ UNCHANGED <<waiters, arg, child>>
  <2>1. CASE CallThreadExit(t)
    <3>1. PICK dead \in {"DYING", "FREE"} : dead = IF t = Main THEN "DYING" ELSE "FREE"
      OBVIOUS
    <3>2. /\ t = current /\ pc[t] = "user"
          /\ Schedule([status EXCEPT ![t] = dead], ready_list)
          /\ UNCHANGED <<waiters, pc, arg, child>>
      BY <2>1, <3>1 DEF CallThreadExit, At, Running, sema, local
    <3>3. pc' = [pc EXCEPT ![t] = IF dead = "BLOCKED" THEN "asleep" ELSE "user"]
      BY <1>0, <3>1, <3>2
    <3> QED BY <3>2, <3>3
  <2>2. CASE CallSleep(t)
    BY <2>2 DEF CallSleep, At, Running, sema, local
  <2> QED BY <2>1, <2>2
<1>2. PICK st : st = [status EXCEPT ![t] = left]
  OBVIOUS
<1>3. /\ t = current /\ pc[t] = "user" /\ Schedule(st, ready_list)
      /\ pc'[t] = IF left = "BLOCKED" THEN "asleep" ELSE "user"
      /\ \A u \in Threads \ {t} : pc'[u] = pc[u]
      /\ UNCHANGED <<waiters, arg, child>>
  BY <1>0, <1>1, <1>2
<1>4. /\ \A u \in AllThreads : status[u] = "RUNNING" <=> u = t
      /\ NoDuplicates(ready_list)
      /\ \A u \in Threads : u \in ToSet(ready_list) <=> status[u] = "READY"
  BY <1>3 DEF Listing, OneRunning, ReadyListExact
<1>5. /\ st \in [AllThreads -> Statuses] /\ st[t] = left
      /\ \A u \in AllThreads \ {t} : st[u] = status[u]
  BY <1>0, <1>2 DEF Statuses
<1>6. Lists(ready_list, st) /\ \A u \in AllThreads : st[u] # "RUNNING"
  BY <1>0, <1>4, <1>5 DEF Lists
<1>7. /\ OneRunning' /\ ReadyListExact'
      /\ \A u \in Threads :
            /\ st[u] # "READY" => status'[u] = st[u]
            /\ st[u] = "READY" => status'[u] \in {"READY", "RUNNING"}
  BY <1>0, <1>3, <1>5, <1>6, ScheduleLists
<1>8. /\ status[t] = "RUNNING" /\ status'[t] = left
      /\ \A u \in Threads \ {t} : Undisturbed(u)
  BY <1>0, <1>4, <1>5, <1>7 DEF Undisturbed, Runnable
<1>9. WaitListsExact'
  <2>1. \A s \in AllSemas : \A u \in ToSet(waiters[s]) : u # t
    BY <1>8 DEF Listing, WaitListsExact
  <2> QED BY <1>0, <1>3, <1>8, <2>1 DEF Listing, WaitListsExact, Undisturbed, Runnable
<1>10. DeadAtUser'
  BY <1>3, <1>8 DEF Listing, DeadAtUser, Undisturbed, Runnable
<1>11. \A u \in Threads : Creating(u)' <=> Creating(u)
  BY <1>3 DEF Creating
<1>12. ChildrenWait'
  <2>1. \A u \in Threads : Creating(u) => child[u] \in Threads \ {t}
    BY <1>0, <1>8 DEF Listing, ChildrenWait, Creating
  <2> QED BY <1>3, <1>8, <1>11, <2>1 DEF Listing, ChildrenWait, Undisturbed, Runnable
<1>13. ChildrenDiffer'
  BY <1>3, <1>11 DEF Listing, ChildrenDiffer
<1>14. BlockedFound'
  <2>1. \A u \in Threads : status'[u] = "BLOCKED" =>
                               \/ status[u] = "BLOCKED" /\ u # t
                               \/ u = t /\ pc'[t] = "asleep"
    BY <1>3, <1>8 DEF Undisturbed, Runnable
  <2> QED BY <1>3, <1>11, <2>1 DEF Listing, BlockedFound
<1> QED BY <1>7, <1>9, <1>10, <1>12, <1>13, <1>14 DEF Listing

LEMMA ThreadStepListing ==
    ASSUME Types, Listing, NEW t \in Threads,
           \/ CreateYields(t)
           \/ \E p \in NewPriorities : CallSetPriority(t, p)
           \/ SetPriorityWrites(t) \/ SetOriginalWrites(t) \/ SetPriorityYields(t)
    PROVE  Listing'
<1>0. pc \in [Threads -> PCs] /\ child \in [Threads -> Threads \cup {NULL}]
  BY DEF Types, TypeOK
<1>1. CASE CreateYields(t)
  <2>1. /\ t = current /\ pc[t] = "create_yield" /\ child' = [child EXCEPT ![t] = NULL]
        /\ pc' = [pc EXCEPT ![t] = "user"] /\ UNCHANGED <<waiters, arg>>
        /\ ThreadYield(status, ready_list) \/ UNCHANGED sched
    BY <1>1, Zenon DEF CreateYields, At, Running, sema
  <2>2. ~ Creating(t) /\ ~ Creating(t)'
    BY <1>0, <2>1 DEF Creating
  <2>3. \A u \in Threads : Steady(u)
    BY <1>0, <2>1, <2>2, RunnerSteady
  <2> QED BY <2>1, <2>3, ListingOfYield, ListingOfMove
<1> DEFINE Places == {"set_empty", "copy_pri", "set_raise", "raise_original",
                      "set_original", "yield", "user"}
           Moves == /\ t = current /\ pc[t] # "create_yield"
                    /\ \E place \in Places : pc' = [pc EXCEPT ![t] = place]
                    /\ UNCHANGED <<arg, child, waiters>>
                    /\ ThreadYield(status, ready_list) \/ UNCHANGED sched
<1>2. Moves => Listing'
  <2> SUFFICES ASSUME Moves PROVE Listing'
    OBVIOUS
  <2>1. \A u \in Threads : Steady(u)
    BY RunnerMoves
  <2> QED BY <2>1, ListingOfYield, ListingOfMove
<1>3. ASSUME NEW p \in NewPriorities, CallSetPriority(t, p) PROVE Moves
  BY <1>3, Zenon DEF CallSetPriority, At, Running, sema
<1>4. SetPriorityWrites(t) => Moves
  BY Zenon DEF SetPriorityWrites, At, Running, sema, local
<1>5. SetOriginalWrites(t) => Moves
  BY Zenon DEF SetOriginalWrites, At, Running, sema
<1>6. SetPriorityYields(t) => Moves
  BY DEF SetPriorityYields, At, Running, sema, local
<1> HIDE DEF Moves
<1> QED BY <1>1, <1>2, <1>3, <1>4, <1>5, <1>6

LEMMA InitListing == Init => Listing
<1> SUFFICES ASSUME Init PROVE Listing
  OBVIOUS
<1>0. /\ Main \in Threads /\ Idle \notin Threads /\ AllThreads = Threads \cup {Idle}
  BY ConstantFacts DEF AllThreads
<1>1. ToSet(<<>>) = {} /\ NoDuplicates(<<>>)
  BY EmptySeq DEF ToSet, NoDuplicates
<1>2. /\ current = Main /\ ready_list = <<>> /\ \A s \in AllSemas : waiters[s] = <<>>
      /\ \A t \in Threads : pc[t] = "user" /\ child[t] = NULL
      /\ status[Main] = "RUNNING" /\ status[Idle] = "READY"
      /\ \A t \in Threads \ {Main} : status[t] = "FREE"
  BY <1>0 DEF Init
<1>3. OneRunning /\ ReadyListExact
  BY <1>0, <1>1, <1>2 DEF OneRunning, ReadyListExact
<1>4. WaitListsExact
  BY <1>1, <1>2 DEF WaitListsExact
<1>5. DeadAtUser /\ \A t \in Threads : ~ Creating(t)
  BY <1>2 DEF DeadAtUser, Creating
<1>6. ChildrenWait /\ ChildrenDiffer
  BY <1>5 DEF ChildrenWait, ChildrenDiffer
<1>7. BlockedFound
  BY <1>0, <1>2 DEF BlockedFound
<1> QED BY <1>3, <1>4, <1>5, <1>6, <1>7 DEF Listing

LEMMA NextListing == Types /\ Listing /\ [Next]_vars => Listing'
<1> SUFFICES ASSUME Types, Listing, [Next]_vars PROVE Listing'
  OBVIOUS
<1>1. CASE UNCHANGED vars
  <2>1. UNCHANGED <<sched, waiters, pc, arg, child>>
    BY <1>1 DEF vars, sema, local
  <2>2. \A t \in Threads : Steady(t)
    BY <2>1 DEF Steady, Creating
  <2> QED BY <2>1, <2>2, ListingOfMove
<1>2. CASE Preempt \/ IdleBlock \/ MlfqsTick \/ Halted
           \/ \E s \in IntrSemas : IntrSemaUp(s)
  BY <1>2, KernelStepListing
<1>3. ASSUME NEW t \in Threads, UserCall(t) \/ Step(t) PROVE Listing'
  BY <1>3, SemaStepListing, LockStepListing, CreateListing, CreateUnblocksListing,
     ThreadStepListing, LeaveListing DEF UserCall, Step
<1>4. ASSUME NEW t \in Threads, InterruptWakes(t) PROVE Listing'
  BY <1>4, InterruptWakesListing
<1> QED BY <1>1, <1>2, <1>3, <1>4 DEF Next

LEMMA ListingInvariant == Spec => [](Types /\ Listing)
<1>1. Spec => []Types
  BY InitTypes, NextTypes, PTL DEF Spec
<1> QED BY <1>1, InitTypes, InitListing, NextTypes, NextListing, PTL DEF Spec

\* thread.h:80-85 for any number of threads: one thread runs, the ready list
\* is exactly the READY threads, and the elem of a thread is on one list at
\* most, so no list operation can corrupt another list.
THEOREM ElemOnOneList == Spec => []ElemUsedOnce
<1>1. Listing => ElemUsedOnce
  BY DEF Listing, ElemUsedOnce
<1> QED BY <1>1, ListingInvariant, PTL

\* A BLOCKED thread is always on the wait list of the semaphore of its call,
\* or waits for a handler that knows it, or is still being created: no thread
\* sleeps out of everybody's reach.
THEOREM NoThreadForgotten == Spec => []BlockedReachable
<1>1. Types /\ Listing => BlockedReachable
  BY DEF Listing, BlockedFound, BlockedReachable
<1> QED BY <1>1, ListingInvariant, PTL

-----------------------------------------------------------------------------
(* Wake-ups.                                                               *)

\* sema_up takes a waiter of the highest priority off the list.
LEMMA UpTakesHighest ==
    ASSUME Types, Listing, NEW s \in AllSemas, HasWaiter(s)
    PROVE  \E first \in ToSet(waiters[s]) :
              /\ first \in Threads
              /\ ToSet(WaitersAfterUp(s)) = ToSet(waiters[s]) \ {first}
              /\ \A u \in ToSet(waiters[s]) : priority[u] <= priority[first]
<1>0. /\ waiters[s] \in Seq(Threads) /\ NoDuplicates(waiters[s])
      /\ \A x \in Threads : priority[x] \in Int
  BY KeyTypes DEF Types, TypeOK, Listing, WaitListsExact
<1> DEFINE sorted == SortedWaiters(s)
<1>1. /\ sorted \in Seq(Threads) /\ Len(sorted) = Len(waiters[s])
      /\ ToSet(sorted) = ToSet(waiters[s]) /\ NoDuplicates(sorted)
      /\ IsSortedBy(sorted, priority)
  BY <1>0, ListSortElements DEF SortedWaiters
<1>2. WaitersAfterUp(s) = Tail(sorted) /\ waiters[s] # <<>>
  BY DEF WaitersAfterUp, HasWaiter
<1> HIDE DEF sorted
<1>3. sorted # <<>>
  BY <1>0, <1>1, <1>2, EmptySeq
<1>4. /\ Head(sorted) \in Threads /\ Head(sorted) \in ToSet(sorted)
      /\ ToSet(Tail(sorted)) = ToSet(sorted) \ {Head(sorted)}
  BY <1>1, <1>3, PopFrontElements
<1>5. \A u \in ToSet(sorted) : priority[Head(sorted)] >= priority[u]
  BY <1>0, <1>1, <1>3, PopFrontSorted
<1>6. \A u \in ToSet(sorted) : u \in Threads
  BY <1>1, ToSetOfSeq
<1>7. \A u \in ToSet(sorted) : priority[u] <= priority[Head(sorted)]
  BY <1>0, <1>4, <1>5, <1>6
<1> QED BY <1>1, <1>2, <1>4, <1>7

\* What a step that neither ups nor downs a semaphore, but for a
\* lock_try_acquire, does to the sleepers.
Sleeping(t) ==
    /\ UNCHANGED waiters
    /\ \A s \in AllSemas : value'[s] <= value[s]
    /\ \A u \in Threads \ {t} : pc'[u] = pc[u] /\ arg'[u] = arg[u]
    /\ \/ pc'[t] = pc[t] /\ arg'[t] = arg[t]
       \/ pc[t] # "down_wait" /\ pc'[t] # "down_wait"

\* Most steps are such.
LEMMA SleepingSteps ==
    ASSUME Types, NEW t \in Threads,
           \/ \E s \in Semas : CallSemaDown(t, s)
           \/ \E l \in Locks \ {TidLock} : CallLockAcquire(t, l) \/ CallLockRelease(t, l)
           \/ \E l \in TryLocks : CallLockTryAcquire(t, l)
           \/ \E c \in Threads, p \in Priorities : CallThreadCreate(t, c, p)
           \/ \E p \in NewPriorities : CallSetPriority(t, p)
           \/ CallThreadExit(t) \/ CallSleep(t)
           \/ RecordBlockedLock(t) \/ ReadHolder(t) \/ DonateFaults(t)
           \/ DonateSkips(t) \/ DonateComputes(t) \/ DonateTangled(t)
           \/ DonateWrites(t) \/ EndsChain(t) \/ ReadsAgain(t) \/ NextInChain(t)
           \/ LockOwn(t) \/ OwnHolder(t)
           \/ ReleasePriority(t) \/ ReleaseHolder(t) \/ AllocateTid(t)
           \/ CreateUnblocks(t) \/ CreateYields(t)
           \/ SetPriorityWrites(t) \/ SetOriginalWrites(t) \/ SetPriorityYields(t)
    PROVE  Sleeping(t)
<1>0. /\ pc \in [Threads -> PCs] /\ arg \in [Threads -> AllSemas \cup {NULL}]
      /\ value \in [AllSemas -> Nat]
  BY DEF Types, TypeOK
<1> DEFINE Moves == /\ UNCHANGED sema /\ pc[t] # "down_wait"
                    /\ \E place \in PCs \ {"down_wait"} : pc' = [pc EXCEPT ![t] = place]
                    /\ \A u \in Threads \ {t} : arg'[u] = arg[u]
           Stays == UNCHANGED <<value, waiters, pc, arg>>
<1>1. Moves \/ Stays => Sleeping(t)
  BY <1>0 DEF Sleeping, sema
<1>2. ASSUME NEW s \in Semas, CallSemaDown(t, s) PROVE Moves
  BY <1>0, <1>2 DEF CallSemaDown, At, PCs
<1>3. ASSUME NEW l \in Locks \ {TidLock}, CallLockAcquire(t, l) PROVE Moves
  BY <1>0, <1>3 DEF CallLockAcquire, TestHolder, At, PCs
<1>4. ASSUME NEW l \in Locks, LockRelease(t, l), pc[t] \in {"user", "tid"} PROVE Moves \/ Stays
  <2>1. /\ UNCHANGED <<value, waiters>>
        /\ \/ UNCHANGED <<pc, arg>>
           \/ /\ \E place \in {"rel_pri", "rel_holder"} : pc' = [pc EXCEPT ![t] = place]
              /\ arg' = [arg EXCEPT ![t] = l]
    BY <1>4, Zenon DEF LockRelease, sema
  <2> QED BY <1>0, <1>4, <2>1 DEF PCs, sema
<1>5. ASSUME NEW l \in Locks, CallLockRelease(t, l) PROVE Moves \/ Stays
  BY <1>4, <1>5 DEF CallLockRelease, At
<1>6. AllocateTid(t) => Moves \/ Stays
  BY <1>4, ConstantFacts DEF AllocateTid, At
<1>7. ASSUME NEW l \in TryLocks, CallLockTryAcquire(t, l) PROVE Sleeping(t)
  <2>1. l \in Locks /\ l \in AllSemas
    BY ConstantFacts DEF AllSemas
  <2>2. /\ UNCHANGED waiters /\ pc[t] = "user"
        /\ value' = [value EXCEPT ![l] = @ - 1]
        /\ pc' = [pc EXCEPT ![t] = "try_own"] /\ arg' = [arg EXCEPT ![t] = l]
    BY <1>7 DEF CallLockTryAcquire, At
  <2> QED BY <1>0, <2>1, <2>2 DEF Sleeping
<1>8. ASSUME NEW c \in Threads, NEW p \in Priorities, CallThreadCreate(t, c, p) PROVE Moves
  BY <1>0, <1>8 DEF CallThreadCreate, TestHolder, At, PCs
<1>9. ASSUME NEW p \in NewPriorities, CallSetPriority(t, p) PROVE Moves
  <2>1. /\ UNCHANGED <<sema, arg>> /\ pc[t] = "user"
        /\ \E place \in {"set_empty", "set_raise", "set_original"} : pc' = [pc EXCEPT ![t] = place]
    BY <1>9, Zenon DEF CallSetPriority, At
  <2> QED BY <2>1 DEF PCs
<1>10. CallThreadExit(t) => Stays
  BY DEF CallThreadExit, sema, local
<1>11. \/ RecordBlockedLock(t) \/ DonateSkips(t) \/ DonateComputes(t)
       \/ DonateWrites(t) \/ EndsChain(t) \/ ReadsAgain(t)
       => Moves
  BY DEF RecordBlockedLock, DonateSkips, DonateComputes, DonateWrites, EndsChain,
         ReadsAgain, At, local, PCs
<1>12. DonateFaults(t) => Stays
  BY DEF DonateFaults, sema, local
<1>13. ReadHolder(t) \/ DonateTangled(t) \/ NextInChain(t) => Moves \/ Stays
  <2> SUFFICES ASSUME ReadHolder(t) \/ DonateTangled(t) \/ NextInChain(t)
               PROVE  Moves \/ Stays
    OBVIOUS
  <2>1. UNCHANGED <<sema, value, waiters, arg>> /\ pc[t] # "down_wait"
    BY DEF ReadHolder, DonateTangled, NextInChain, At, sema
  <2>2. \/ UNCHANGED pc
        \/ \E place \in {"donate", "sorting", "donate_write", "link"} :
              pc' = [pc EXCEPT ![t] = place]
    BY Zenon DEF ReadHolder, DonateTangled, NextInChain
  <2> QED BY <2>1, <2>2 DEF PCs
<1>14. CallSleep(t) => Moves
  BY DEF CallSleep, At, PCs, local
<1>15. LockOwn(t) => Moves
  BY DEF LockOwn, At, PCs, local
<1>16. OwnHolder(t) => Moves
  BY <1>0 DEF OwnHolder, At, PCs
<1>17. ReleasePriority(t) => Moves
  BY DEF ReleasePriority, At, PCs
<1>18. ReleaseHolder(t) => Moves
  BY DEF ReleaseHolder, At, PCs, local
<1>19. CreateUnblocks(t) => Moves
  BY DEF CreateUnblocks, At, PCs, local
<1>20. CreateYields(t) => Moves
  BY DEF CreateYields, At, PCs
<1>21. SetPriorityWrites(t) => Moves
  <2>1. SetPriorityWrites(t) =>
           /\ UNCHANGED <<sema, arg>> /\ pc[t] \in {"set_empty", "set_raise"}
           /\ \E place \in {"copy_pri", "raise_original"} : pc' = [pc EXCEPT ![t] = place]
    BY Zenon DEF SetPriorityWrites, At, local
  <2> QED BY <2>1 DEF PCs
<1>22. SetOriginalWrites(t) => Moves
  <2>1. SetOriginalWrites(t) =>
           /\ UNCHANGED <<sema, arg>> /\ pc[t] \in {"copy_pri", "raise_original", "set_original"}
           /\ \E place \in {"yield", "user"} : pc' = [pc EXCEPT ![t] = place]
    BY Zenon DEF SetOriginalWrites, At
  <2> QED BY <2>1 DEF PCs
<1>23. SetPriorityYields(t) => Moves
  BY DEF SetPriorityYields, At, PCs, local
<1> HIDE DEF Moves, Stays
<1> QED BY <1>1, <1>2, <1>3, <1>5, <1>6, <1>7, <1>8, <1>9, <1>10, <1>11, <1>12, <1>13, <1>14,
           <1>15, <1>16, <1>17, <1>18, <1>19, <1>20, <1>21, <1>22, <1>23

\* NoLostWakeup, semaphore by semaphore.
Kept(s) == waiters[s] # <<>> => value[s] <= Cardinality(WokenFor(s))

LEMMA WokenGrows ==
    ASSUME Types, Types', NEW s \in AllSemas, Kept(s),
           waiters'[s] = waiters[s], value'[s] <= value[s],
           WokenFor(s) \subseteq WokenFor(s)'
    PROVE  Kept(s)'
<1>1. /\ IsFiniteSet(WokenFor(s)') /\ value[s] \in Nat /\ value'[s] \in Nat
  <2>1. WokenFor(s)' \subseteq Threads /\ IsFiniteSet(Threads)
    BY SynchAssumption DEF WokenFor
  <2>2. IsFiniteSet(WokenFor(s)')
    BY <2>1, FS_Subset
  <2> QED BY <2>2 DEF Types, TypeOK
<1>2. /\ IsFiniteSet(WokenFor(s))
      /\ Cardinality(WokenFor(s)) \in Nat /\ Cardinality(WokenFor(s)') \in Nat
      /\ Cardinality(WokenFor(s)) <= Cardinality(WokenFor(s)')
  BY <1>1, FS_Subset, FS_CardinalityType
<1>3. CASE waiters[s] # <<>>
  <2>1. value[s] <= Cardinality(WokenFor(s))
    BY <1>3 DEF Kept
  <2>2. value'[s] <= Cardinality(WokenFor(s)')
    BY <1>1, <1>2, <2>1
  <2> QED BY <2>2 DEF Kept
<1>4. CASE waiters[s] = <<>>
  BY <1>4 DEF Kept
<1> QED BY <1>3, <1>4

\* Whoever sleeps in sema_down goes on sleeping there.
LEMMA UpKeeps ==
    ASSUME Types, Types', Listing, NoLostWakeup, NEW s \in AllSemas,
           value' = [value EXCEPT ![s] = @ + 1],
           waiters' = [waiters EXCEPT ![s] = WaitersAfterUp(s)],
           \A u \in Threads :
               pc[u] = "down_wait" => pc'[u] = "down_wait" /\ arg'[u] = arg[u]
    PROVE  NoLostWakeup'
<1>0. /\ waiters \in [AllSemas -> Seq(Threads)] /\ value \in [AllSemas -> Nat]
      /\ \A r \in AllSemas : Kept(r)
  BY DEF Types, TypeOK, NoLostWakeup, Kept
<1>1. ASSUME NEW r \in AllSemas \ {s} PROVE Kept(r)'
  <2>1. waiters'[r] = waiters[r] /\ value'[r] = value[r]
    BY <1>0
  <2>2. WokenFor(r) \subseteq WokenFor(r)'
    BY <2>1 DEF WokenFor
  <2>3. value'[r] <= value[r]
    BY <1>0, <2>1
  <2> QED BY <1>0, <2>1, <2>2, <2>3, WokenGrows
<1>2. CASE ~ HasWaiter(s)
  <2>1. waiters'[s] = <<>>
    BY <1>0, <1>2 DEF HasWaiter, WaitersAfterUp
  <2> QED BY <1>1, <2>1 DEF NoLostWakeup, Kept
<1>3. CASE HasWaiter(s)
  <2>1. PICK first \in ToSet(waiters[s]) :
           /\ first \in Threads
           /\ ToSet(WaitersAfterUp(s)) = ToSet(waiters[s]) \ {first}
    BY <1>3, UpTakesHighest
  <2>2. pc[first] = "down_wait" /\ arg[first] = s
    BY <2>1 DEF Listing, WaitListsExact
  <2>3. waiters'[s] = WaitersAfterUp(s) /\ value'[s] = value[s] + 1
    BY <1>0
  <2>4. first \notin WokenFor(s) /\ WokenFor(s) \cup {first} \subseteq WokenFor(s)'
    BY <2>1, <2>2, <2>3 DEF WokenFor
  <2>5. IsFiniteSet(WokenFor(s)) /\ IsFiniteSet(WokenFor(s)')
    <3>1. /\ WokenFor(s) \subseteq Threads /\ WokenFor(s)' \subseteq Threads
          /\ IsFiniteSet(Threads)
      BY SynchAssumption DEF WokenFor
    <3> QED BY <3>1, FS_Subset
  <2>6. /\ IsFiniteSet(WokenFor(s) \cup {first})
        /\ Cardinality(WokenFor(s) \cup {first}) = Cardinality(WokenFor(s)) + 1
        /\ Cardinality(WokenFor(s)) \in Nat
    BY <2>4, <2>5, FS_AddElement, FS_CardinalityType
  <2>7. /\ Cardinality(WokenFor(s)') \in Nat
        /\ Cardinality(WokenFor(s) \cup {first}) <= Cardinality(WokenFor(s)')
    BY <2>4, <2>5, FS_Subset, FS_CardinalityType
  <2>8. value[s] <= Cardinality(WokenFor(s)) /\ value[s] \in Nat
    BY <1>0, <1>3 DEF Kept, HasWaiter
  <2>9. value'[s] <= Cardinality(WokenFor(s)')
    BY <2>3, <2>6, <2>7, <2>8
  <2> QED BY <1>1, <2>9 DEF NoLostWakeup, Kept
<1> QED BY <1>2, <1>3

LEMMA SleepingKeeps ==
    ASSUME Types, Types', NoLostWakeup, NEW t \in Threads, Sleeping(t)
    PROVE  NoLostWakeup'
<1>1. ASSUME NEW s \in AllSemas PROVE Kept(s)'
  <2>1. waiters'[s] = waiters[s] /\ value'[s] <= value[s] /\ Kept(s)
    BY DEF Sleeping, NoLostWakeup, Kept
  <2>2. WokenFor(s) \subseteq WokenFor(s)'
    BY DEF Sleeping, WokenFor
  <2> QED BY <2>1, <2>2, WokenGrows
<1> QED BY <1>1 DEF NoLostWakeup, Kept

LEMMA DownKeeps ==
    ASSUME Types, Types', NoLostWakeup, NEW t \in Threads,
           DownBlocks(t) \/ DownTakes(t)
    PROVE  NoLostWakeup'
<1>0. /\ pc \in [Threads -> PCs] /\ arg \in [Threads -> AllSemas \cup {NULL}]
      /\ waiters \in [AllSemas -> Seq(Threads)] /\ value \in [AllSemas -> Nat]
      /\ \A r \in AllSemas : Kept(r)
  BY DEF Types, TypeOK, NoLostWakeup, Kept
<1>1. PICK r \in AllSemas : r = arg[t]
  BY DEF DownBlocks, DownTakes, At, Types, LocalsFit
<1>2. ASSUME NEW s \in AllSemas \ {r}, waiters'[s] = waiters[s], value'[s] = value[s],
             \A u \in Threads \ {t} : pc'[u] = pc[u] /\ arg'[u] = arg[u]
      PROVE  Kept(s)'
  <2>1. WokenFor(s) \subseteq WokenFor(s)'
    BY <1>1, <1>2 DEF WokenFor
  <2>2. value'[s] <= value[s]
    BY <1>0, <1>2
  <2> QED BY <1>0, <1>2, <2>1, <2>2, WokenGrows
<1>3. CASE DownBlocks(t)
  <2>1. /\ value[r] = 0 /\ value' = value
        /\ waiters' = [waiters EXCEPT ![r] = Append(@, t)]
        /\ \A u \in Threads \ {t} : pc'[u] = pc[u] /\ arg'[u] = arg[u]
    BY <1>0, <1>1, <1>3 DEF DownBlocks, MustWait, local
  <2>2. Kept(r)'
    <3>1. WokenFor(r)' \subseteq Threads /\ IsFiniteSet(Threads)
      BY SynchAssumption DEF WokenFor
    <3>2. Cardinality(WokenFor(r)') \in Nat
      BY <3>1, FS_Subset, FS_CardinalityType
    <3> QED BY <2>1, <3>2 DEF Kept
  <2>3. ASSUME NEW s \in AllSemas \ {r} PROVE Kept(s)'
    BY <1>0, <1>2, <2>1
  <2> QED BY <2>2, <2>3 DEF NoLostWakeup, Kept
<1>4. CASE DownTakes(t)
  <2>1. /\ value[r] # 0 /\ value' = [value EXCEPT ![r] = @ - 1] /\ waiters' = waiters
        /\ \A u \in Threads \ {t} : pc'[u] = pc[u] /\ arg'[u] = arg[u]
    BY <1>0, <1>1, <1>4 DEF DownTakes, MustWait
  <2>2. WokenFor(r) \ {t} \subseteq WokenFor(r)'
    BY <2>1 DEF WokenFor
  <2>3. IsFiniteSet(WokenFor(r)) /\ IsFiniteSet(WokenFor(r)')
    <3>1. /\ WokenFor(r) \subseteq Threads /\ WokenFor(r)' \subseteq Threads
          /\ IsFiniteSet(Threads)
      BY SynchAssumption DEF WokenFor
    <3> QED BY <3>1, FS_Subset
  <2>4. /\ Cardinality(WokenFor(r)) \in Nat /\ IsFiniteSet(WokenFor(r) \ {t})
        /\ Cardinality(WokenFor(r)) <= Cardinality(WokenFor(r) \ {t}) + 1
    <3>1. CASE t \in WokenFor(r)
      <4>1. /\ IsFiniteSet(WokenFor(r) \ {t})
            /\ Cardinality(WokenFor(r) \ {t}) = Cardinality(WokenFor(r)) - 1
        BY <2>3, <3>1, FS_RemoveElement
      <4>2. Cardinality(WokenFor(r)) \in Nat
        BY <2>3, FS_CardinalityType
      <4> QED BY <4>1, <4>2
    <3>2. CASE t \notin WokenFor(r)
      <4>1. WokenFor(r) \ {t} = WokenFor(r)
        BY <3>2
      <4>2. Cardinality(WokenFor(r)) \in Nat
        BY <2>3, FS_CardinalityType
      <4> QED BY <2>3, <4>1, <4>2
    <3> QED BY <3>1, <3>2
  <2>5. /\ Cardinality(WokenFor(r) \ {t}) \in Nat /\ Cardinality(WokenFor(r)') \in Nat
        /\ Cardinality(WokenFor(r) \ {t}) <= Cardinality(WokenFor(r)')
    BY <2>2, <2>3, <2>4, FS_Subset, FS_CardinalityType
  <2>6. value'[r] = value[r] - 1 /\ value[r] \in Nat
    BY <1>0, <2>1
  <2>7. Kept(r)'
    BY <1>0, <2>1, <2>4, <2>5, <2>6 DEF Kept
  <2>8. ASSUME NEW s \in AllSemas \ {r} PROVE Kept(s)'
    BY <1>0, <1>2, <2>1
  <2> QED BY <2>7, <2>8 DEF NoLostWakeup, Kept
<1> QED BY <1>3, <1>4

LEMMA NextWakeups == Types /\ Types' /\ Listing /\ NoLostWakeup /\ [Next]_vars => NoLostWakeup'
<1> SUFFICES ASSUME Types, Types', Listing, NoLostWakeup, [Next]_vars PROVE NoLostWakeup'
  OBVIOUS
<1>1. CASE UNCHANGED vars \/ Preempt \/ IdleBlock \/ MlfqsTick \/ Halted
  <2>1. UNCHANGED <<waiters, value, pc, arg>>
    BY <1>1 DEF Preempt, IdleBlock, MlfqsTick, Halted, vars, sema, local
  <2>2. Main \in Threads /\ \A s \in AllSemas : value'[s] <= value[s]
    BY <2>1, ConstantFacts DEF Types, TypeOK
  <2>3. Sleeping(Main)
    BY <2>1, <2>2 DEF Sleeping
  <2> QED BY <2>2, <2>3, SleepingKeeps
<1>2. ASSUME NEW s \in IntrSemas, IntrSemaUp(s) PROVE NoLostWakeup'
  <2>1. s \in AllSemas
    BY ConstantFacts DEF AllSemas
  <2> QED BY <1>2, <2>1, UpKeeps DEF IntrSemaUp, local
<1>3. ASSUME NEW t \in Threads, NEW s \in Semas, CallSemaUp(t, s) PROVE NoLostWakeup'
  <2>1. /\ pc' = [pc EXCEPT ![t] = "user"] /\ pc[t] = "user" /\ UNCHANGED arg
        /\ s \in AllSemas
    BY <1>3 DEF CallSemaUp, SemaUp, At, local, AllSemas
  <2>2. \A u \in Threads :
            pc[u] = "down_wait" => pc'[u] = "down_wait" /\ arg'[u] = arg[u]
    BY <2>1 DEF Types, TypeOK
  <2> QED BY <1>3, <2>1, <2>2, UpKeeps DEF CallSemaUp, SemaUp
<1>4. ASSUME NEW t \in Threads, ReleaseUp(t) PROVE NoLostWakeup'
  <2>1. /\ pc[t] = "up" /\ arg[t] \in AllSemas /\ arg' = [arg EXCEPT ![t] = NULL]
        /\ \A u \in Threads \ {t} : pc'[u] = pc[u]
    BY <1>4 DEF ReleaseUp, SemaUp, At, Types, TypeOK, LocalsFit, LockPCs, AllSemas
  <2>2. \A u \in Threads :
            pc[u] = "down_wait" => pc'[u] = "down_wait" /\ arg'[u] = arg[u]
    BY <2>1 DEF Types, TypeOK
  <2> QED BY <1>4, <2>1, <2>2, UpKeeps DEF ReleaseUp, SemaUp
<1>5. ASSUME NEW t \in Threads, UserCall(t) \/ Step(t) PROVE NoLostWakeup'
  BY <1>3, <1>4, <1>5, DownKeeps, SleepingSteps, SleepingKeeps DEF UserCall, Step
<1>6. ASSUME NEW t \in Threads, InterruptWakes(t) PROVE NoLostWakeup'
  <2>1. /\ UNCHANGED <<waiters, value, arg>> /\ pc[t] = "asleep"
        /\ pc' = [pc EXCEPT ![t] = "user"]
    BY <1>6 DEF InterruptWakes, sema, local
  <2>2. Sleeping(t)
    BY <2>1 DEF Sleeping, Types, TypeOK
  <2> QED BY <2>2, SleepingKeeps
<1> QED BY <1>1, <1>2, <1>5, <1>6 DEF Next

\* sema_up and sema_down for any number of sleepers: while threads sleep on a
\* semaphore, each unit of its value has a thread that was woken for it, so no
\* wake-up is lost although the woken thread competes for the value again.
THEOREM WakeupsKept == Spec => []NoLostWakeup
<1>1. Init => NoLostWakeup
  BY DEF Init, NoLostWakeup
<1>2. Types /\ Types' /\ Listing /\ NoLostWakeup /\ [Next]_vars => NoLostWakeup'
  BY NextWakeups
<1> QED BY <1>1, <1>2, ListingInvariant, PTL DEF Spec

-----------------------------------------------------------------------------
(* Who is woken.                                                           *)

\* The wait lists but that of s stay, that of s may lose a waiter to sema_up.
WokenBy(s) ==
    \/ waiters' = waiters
    \/ waiters' = [waiters EXCEPT ![s] = WaitersAfterUp(s)]
    \/ \E t \in Threads : waiters' = [waiters EXCEPT ![s] = Append(@, t)]

LEMMA WaitersMove == Types /\ [Next]_vars => \E s \in AllSemas : WokenBy(s)
<1> SUFFICES ASSUME Types, [Next]_vars PROVE \E s \in AllSemas : WokenBy(s)
  OBVIOUS
<1>1. UNCHANGED waiters => WokenBy(TidLock) /\ TidLock \in AllSemas
  BY ConstantFacts DEF WokenBy, AllSemas
<1>2. CASE UNCHANGED vars \/ Preempt \/ IdleBlock \/ MlfqsTick \/ Halted
  BY <1>1, <1>2 DEF Preempt, IdleBlock, MlfqsTick, Halted, vars, sema
<1>3. ASSUME NEW s \in IntrSemas, IntrSemaUp(s) PROVE s \in AllSemas /\ WokenBy(s)
  BY <1>3, ConstantFacts DEF IntrSemaUp, WokenBy, AllSemas
<1>4. ASSUME NEW t \in Threads, NEW s \in Semas, CallSemaUp(t, s)
      PROVE  s \in AllSemas /\ WokenBy(s)
  BY <1>4 DEF CallSemaUp, SemaUp, WokenBy, AllSemas
<1>5. ASSUME NEW t \in Threads, ReleaseUp(t) PROVE arg[t] \in AllSemas /\ WokenBy(arg[t])
  BY <1>5 DEF ReleaseUp, SemaUp, WokenBy, At, Types, LocalsFit, LockPCs, AllSemas
<1>6. ASSUME NEW t \in Threads, DownBlocks(t) PROVE arg[t] \in AllSemas /\ WokenBy(arg[t])
  BY <1>6 DEF DownBlocks, WokenBy, At, Types, LocalsFit
<1>7. ASSUME NEW t \in Threads, DownTakes(t) PROVE UNCHANGED waiters
  BY <1>7 DEF DownTakes
<1>8. ASSUME NEW t \in Threads, Sleeping(t) PROVE UNCHANGED waiters
  BY <1>8 DEF Sleeping
<1>9. ASSUME NEW t \in Threads, UserCall(t) \/ Step(t) PROVE \E s \in AllSemas : WokenBy(s)
  BY <1>1, <1>4, <1>5, <1>6, <1>7, <1>8, <1>9, SleepingSteps DEF UserCall, Step
<1>10. ASSUME NEW t \in Threads, InterruptWakes(t) PROVE UNCHANGED waiters
  BY <1>10 DEF InterruptWakes, sema
<1> QED BY <1>1, <1>2, <1>3, <1>9, <1>10 DEF Next

\* Rule 5 at thread.c:689 for any number of waiters: the thread that a sema_up
\* takes off the wait list has the highest priority of all the waiters at that
\* moment, whatever was donated to them while they slept.
THEOREM HighestWoken == Spec => HighestWaiterWoken
<1> DEFINE Woken ==
        \A s \in AllSemas :
            Len(waiters'[s]) < Len(waiters[s]) =>
                \E t \in ToSet(waiters[s]) :
                    /\ ToSet(waiters'[s]) = ToSet(waiters[s]) \ {t}
                    /\ \A u \in ToSet(waiters[s]) : priority[u] <= priority[t]
<1>1. ASSUME Types, Listing, [Next]_vars PROVE Woken
  <2>0. waiters \in [AllSemas -> Seq(Threads)]
    BY <1>1 DEF Types, TypeOK
  <2>1. PICK r \in AllSemas : WokenBy(r)
    BY <1>1, WaitersMove
  <2> SUFFICES ASSUME NEW s \in AllSemas, Len(waiters'[s]) < Len(waiters[s])
               PROVE  \E t \in ToSet(waiters[s]) :
                          /\ ToSet(waiters'[s]) = ToSet(waiters[s]) \ {t}
                          /\ \A u \in ToSet(waiters[s]) : priority[u] <= priority[t]
    OBVIOUS
  <2>2. waiters'[s] # waiters[s]
    <3>1. Len(waiters[s]) \in Nat
      BY <2>0, LenProperties
    <3> QED BY <3>1
  <2>3. ASSUME NEW t \in Threads, waiters' = [waiters EXCEPT ![r] = Append(@, t)]
        PROVE  FALSE
    <3>1. s = r /\ waiters'[s] = Append(waiters[s], t)
      BY <2>0, <2>2, <2>3
    <3>2. Len(Append(waiters[s], t)) = Len(waiters[s]) + 1 /\ Len(waiters[s]) \in Nat
      BY <2>0, AppendProperties, LenProperties
    <3> QED BY <3>1, <3>2
  <2>4. s = r /\ waiters'[s] = WaitersAfterUp(s)
    BY <2>0, <2>1, <2>2, <2>3 DEF WokenBy
  <2>5. HasWaiter(s)
    BY <2>2, <2>4 DEF WaitersAfterUp
  <2>6. PICK first \in ToSet(waiters[s]) :
           /\ ToSet(WaitersAfterUp(s)) = ToSet(waiters[s]) \ {first}
           /\ \A u \in ToSet(waiters[s]) : priority[u] <= priority[first]
    BY <1>1, <2>5, UpTakesHighest
  <2> QED BY <2>4, <2>6
<1>2. Types /\ Listing /\ [Next]_vars => [Woken]_vars
  BY <1>1
<1> QED BY <1>2, ListingInvariant, PTL DEF Spec, HighestWaiterWoken

-----------------------------------------------------------------------------
(***************************************************************************)
(* Priority order.  StrictPriority speaks of a thread at "user" only; what *)
(* keeps it is that whatever runs was the head of an ordered ready list    *)
(* when it was chosen, and has not lowered its own priority since without  *)
(* being on its way to thread_yield (Loose), nor made a thread ready that  *)
(* thread_create has not yet compared it with.  The threads that handlers  *)
(* made ready since then (woken) are left out.                             *)
(***************************************************************************)
DonatePCs == {"donate", "donate_write"}
Loose == {"rel_holder", "up", "copy_pri", "raise_original", "yield"}

Donating ==
    \A t \in Threads :
        /\ pc[t] \in DonatePCs => cur_lock[t] \in Locks
        /\ pc[t] = "donate_write" => ~ NothingDonated

RunsFirst ==
    panic = "none" /\ current \in Threads /\ pc[current] \notin Loose =>
        \A u \in Threads :
            status[u] = "READY" /\ u \notin woken =>
                \/ priority[u] <= priority[current]
                \/ pc[current] = "create_yield" /\ u = child[current]

Order == NothingDonated => ReadyListSorted /\ RunsFirst

\* After schedule() on an ordered ready list.
LEMMA OrderOfSchedule ==
    ASSUME Types, NEW st \in [AllThreads -> Statuses], NEW queue \in Seq(Threads),
           Lists(queue, st), IsSortedBy(queue, priority), Schedule(st, queue),
           \A x \in ToSet(queue) : priority'[x] = priority[x]
    PROVE  ReadyListSorted' /\ RunsFirst'
<1>0. Idle \notin Threads /\ AllThreads = Threads \cup {Idle}
      /\ \A x \in Threads : priority[x] \in Int
  BY ConstantFacts, KeyTypes DEF AllThreads, Types
<1>1. CASE queue = <<>>
  <2>1. current' = Idle /\ ready_list' = <<>>
    BY <1>1 DEF Schedule
  <2>2. \A key : IsSortedBy(<<>>, key)
    BY EmptySeq DEF IsSortedBy
  <2> QED BY <1>0, <2>1, <2>2 DEF ReadyListSorted, RunsFirst
<1>2. CASE queue # <<>>
  <2>1. PICK next : next = Head(queue)
    OBVIOUS
  <2>2. PICK rest : rest = Tail(queue)
    OBVIOUS
  <2>3. /\ next \in Threads /\ next \in ToSet(queue) /\ rest \in Seq(Threads)
        /\ ToSet(rest) = ToSet(queue) \ {next}
    BY <1>2, <2>1, <2>2, PopFrontElements, HeadTailProperties DEF Lists
  <2>4. /\ \A x \in ToSet(queue) : priority[next] >= priority[x]
        /\ IsSortedBy(rest, priority)
    BY <1>0, <1>2, <2>1, <2>2, PopFrontSorted
  <2>5. /\ current' = next /\ ready_list' = rest
        /\ status' = [st EXCEPT ![next] = "RUNNING"]
    BY <1>2, <2>1, <2>2 DEF Schedule
  <2>6. ReadyListSorted'
    <3>1. \A i \in 1..Len(rest) : priority'[rest[i]] = priority[rest[i]]
      BY <2>3, LenProperties DEF ToSet
    <3> QED BY <2>4, <2>5, <3>1 DEF ReadyListSorted, IsSortedBy
  <2>7. ASSUME NEW u \in Threads, status'[u] = "READY" PROVE priority'[u] <= priority'[next]
    <3>1. u # next /\ st[u] = "READY"
      BY <1>0, <2>3, <2>5, <2>7
    <3>2. u \in ToSet(queue)
      BY <3>1 DEF Lists
    <3> QED BY <1>0, <2>3, <2>4, <3>2
  <2> QED BY <2>5, <2>6, <2>7 DEF RunsFirst
<1> QED BY <1>1, <1>2

\* After thread_yield on an ordered ready list.
LEMMA OrderOfYield ==
    ASSUME Types, NEW st \in [AllThreads -> Statuses],
           NEW queue \in Seq(Threads), Lists(queue, st),
           \A t \in AllThreads : st[t] = "RUNNING" <=> t = current,
           IsSortedBy(queue, priority), ThreadYield(st, queue), UNCHANGED priority
    PROVE  ReadyListSorted' /\ RunsFirst'
<1> DEFINE st2 == [st EXCEPT ![current] = "READY"]
           queue2 == IF current = Idle THEN queue
                     ELSE list_insert_ordered(queue, current, priority)
<1>0. /\ Idle \notin Threads /\ AllThreads = Threads \cup {Idle} /\ current \in AllThreads
      /\ \A x \in Threads : priority[x] \in Int
  BY ConstantFacts, KeyTypes DEF AllThreads, Types, TypeOK
<1>1. st2 \in [AllThreads -> Statuses] /\ \A t \in AllThreads : st2[t] # "RUNNING"
  BY <1>0 DEF Statuses
<1>2. queue2 \in Seq(Threads) /\ Lists(queue2, st2) /\ IsSortedBy(queue2, priority)
  <2>1. CASE current = Idle
    BY <1>0, <2>1 DEF Lists
  <2>2. CASE current # Idle
    <3>1. current \in Threads /\ current \notin ToSet(queue)
      BY <1>0, <2>2 DEF Lists
    <3>2. PICK new : new = list_insert_ordered(queue, current, priority)
      OBVIOUS
    <3>3. /\ new \in Seq(Threads) /\ ToSet(new) = ToSet(queue) \cup {current}
          /\ NoDuplicates(new)
      BY <1>0, <3>1, <3>2, InsertOrderedElements DEF Lists
    <3>4. IsSortedBy(new, priority)
      BY <1>0, <3>1, <3>2, InsertOrderedSorted
    <3> QED BY <1>0, <2>2, <3>1, <3>2, <3>3, <3>4 DEF Lists
  <2> QED BY <2>1, <2>2
<1>3. Schedule(st2, queue2)
  BY DEF ThreadYield
<1> HIDE DEF st2, queue2
<1>4. \A x \in ToSet(queue2) : priority'[x] = priority[x]
  OBVIOUS
<1> QED BY <1>1, <1>2, <1>3, <1>4, OrderOfSchedule

\* sema_up inserts the thread it wakes in order.
LEMMA UpSorted ==
    ASSUME Types, Listing, ReadyListSorted, NEW s \in AllSemas
    PROVE  IsSortedBy(ReadyListAfterUp(s), priority)
<1>0. /\ ready_list \in Seq(Threads) /\ waiters[s] \in Seq(Threads)
      /\ NoDuplicates(waiters[s]) /\ \A x \in Threads : priority[x] \in Int
  BY KeyTypes DEF Types, TypeOK, Listing, WaitListsExact
<1>1. CASE HasWaiter(s)
  <2>1. SortedWaiters(s) \in Seq(Threads) /\ Len(SortedWaiters(s)) = Len(waiters[s])
    BY <1>0, ListSortElements DEF SortedWaiters
  <2>2. SortedWaiters(s) # <<>>
    BY <1>0, <1>1, <2>1, EmptySeq DEF HasWaiter
  <2>3. PICK first \in Threads : first = Head(SortedWaiters(s))
    BY <2>1, <2>2, HeadTailProperties
  <2>4. IsSortedBy(list_insert_ordered(ready_list, first, priority), priority)
    BY <1>0, <2>3, InsertOrderedSorted DEF ReadyListSorted
  <2> QED BY <1>1, <2>3, <2>4 DEF ReadyListAfterUp
<1>2. CASE ~ HasWaiter(s)
  BY <1>2 DEF ReadyListAfterUp, ReadyListSorted
<1> QED BY <1>1, <1>2

\* A sema_up that yields at once.
LEMMA OrderOfUp ==
    ASSUME Types, Listing, ReadyListSorted, NEW t \in Threads, NEW s \in AllSemas,
           NEW after, SemaUp(t, s, after), UNCHANGED priority
    PROVE  ReadyListSorted' /\ RunsFirst'
<1>1. /\ Lists(ReadyListAfterUp(s), StatusAfterUp(s))
      /\ \A u \in AllThreads : StatusAfterUp(s)[u] = "RUNNING" <=> u = current
  BY UpLists
<1>2. /\ StatusAfterUp(s) \in [AllThreads -> Statuses]
      /\ ReadyListAfterUp(s) \in Seq(Threads)
  BY UpTypes DEF Types
<1>3. IsSortedBy(ReadyListAfterUp(s), priority)
  BY UpSorted
<1>4. ThreadYield(StatusAfterUp(s), ReadyListAfterUp(s))
  BY DEF SemaUp
<1> QED BY <1>1, <1>2, <1>3, <1>4, OrderOfYield

\* A step that neither reschedules nor makes a thread ready, and after which
\* the running thread has its priority or is on its way to thread_yield.
Calm(t) ==
    /\ UNCHANGED sched /\ t = current /\ panic = "none"
    /\ \A u \in Threads \ {t} : priority'[u] = priority[u]
    /\ \/ pc'[t] \in Loose
       \/ priority'[t] = priority[t] /\ pc[t] \notin Loose \cup {"create_yield"}

LEMMA OrderOfCalm ==
    ASSUME Types, Listing, ReadyListSorted, RunsFirst, NEW t \in Threads, Calm(t)
    PROVE  ReadyListSorted' /\ RunsFirst'
<1>1. /\ ready_list' = ready_list /\ status' = status /\ current' = t /\ current = t
      /\ woken' = woken /\ panic = "none"
      /\ \A u \in Threads \ {t} : priority'[u] = priority[u]
      /\ \/ pc'[t] \in Loose
         \/ priority'[t] = priority[t] /\ pc[t] \notin Loose \cup {"create_yield"}
  BY DEF Calm, sched
<1>2. status[t] = "RUNNING" /\ ToSet(ready_list) \subseteq Threads
  BY <1>1, ToSetOfSeq DEF Listing, OneRunning, Types, TypeOK
<1>3. \A x \in ToSet(ready_list) : priority'[x] = priority[x]
  BY <1>1, <1>2 DEF Listing, ReadyListExact
<1>4. ReadyListSorted'
  <2>1. \A i \in 1..Len(ready_list) : ready_list[i] \in ToSet(ready_list)
    BY LenProperties DEF ToSet, Types, TypeOK
  <2> QED BY <1>1, <1>3, <2>1 DEF ReadyListSorted, IsSortedBy
<1>5. RunsFirst'
  BY <1>1, <1>2 DEF RunsFirst
<1> QED BY <1>4, <1>5

\* The steps that donate nothing.
Undonating ==
    /\ UNCHANGED max_pri
    /\ \A u \in Threads :
          pc'[u] \in DonatePCs => pc'[u] = pc[u] /\ cur_lock'[u] = cur_lock[u]

LEMMA CalmSteps ==
    ASSUME Types, NEW t \in Threads,
           \/ \E s \in Semas : CallSemaDown(t, s)
           \/ \E l \in Locks \ {TidLock} : CallLockAcquire(t, l) \/ CallLockRelease(t, l)
           \/ \E l \in TryLocks : CallLockTryAcquire(t, l)
           \/ \E p \in NewPriorities : CallSetPriority(t, p)
           \/ DownTakes(t) \/ RecordBlockedLock(t) \/ DonateFaults(t) \/ DonateSkips(t)
           \/ EndsChain(t) \/ ReadsAgain(t) \/ NextInChain(t)
           \/ LockOwn(t) \/ OwnHolder(t)
           \/ ReleasePriority(t) \/ ReleaseHolder(t) \/ AllocateTid(t)
           \/ SetPriorityWrites(t) \/ SetOriginalWrites(t)
    PROVE  Calm(t) /\ Undonating
<1>0. /\ pc \in [Threads -> PCs] /\ priority \in [AllThreads -> Priorities]
      /\ cur_lock \in [Threads -> Locks \cup {NULL}]
      /\ AllThreads = Threads \cup {Idle}
  BY DEF Types, TypeOK, AllThreads
<1> DEFINE Here == /\ UNCHANGED <<sched, max_pri>> /\ t = current /\ panic = "none"
                   /\ \A u \in Threads \ {t} : cur_lock'[u] = cur_lock[u]
           Goes(froms, tos) == /\ Here /\ pc[t] \in froms
                               /\ \E place \in tos : pc' = [pc EXCEPT ![t] = place]
           Froms == {"user", "tid", "set_original", "blocked", "down", "down_wait", "own",
                     "own_holder", "try_own"} \cup DonationPCs
           Tos == {"user", "tid", "down", "blocked", "own", "own_holder", "try_own",
                   "rel_pri", "rel_holder", "set_empty", "set_raise", "set_original",
                   "link", "chain", "again"}
<1>1. Goes(Froms, Tos) /\ UNCHANGED priority => Calm(t) /\ Undonating
  BY <1>0 DEF Calm, Undonating, Loose, DonatePCs, DonationPCs
<1>2. Goes(PCs, Loose) /\ (\A u \in Threads \ {t} : priority'[u] = priority[u])
        => Calm(t) /\ Undonating
  BY <1>0 DEF Calm, Undonating, Loose, DonatePCs
<1>3. Here /\ UNCHANGED <<pc, priority, cur_lock>> /\ pc[t] \in Froms
        => Calm(t) /\ Undonating
  BY <1>0 DEF Calm, Undonating, Loose, DonatePCs, DonationPCs
<1>4. ASSUME NEW s \in Semas, CallSemaDown(t, s) PROVE Calm(t) /\ Undonating
  BY <1>1, <1>4 DEF CallSemaDown, At, Running, pri, donate
<1>5. ASSUME NEW l \in Locks \ {TidLock}, CallLockAcquire(t, l) PROVE Calm(t) /\ Undonating
  <2>1. Goes({"user"}, {"down", "blocked"}) /\ UNCHANGED priority
    BY <1>5, Zenon DEF CallLockAcquire, TestHolder, At, Running, pri, donate
  <2> QED BY <1>1, <2>1
<1>6. ASSUME NEW l \in Locks, LockRelease(t, l), t = current, panic = "none",
             pc[t] \in {"user", "tid"}
      PROVE  Calm(t) /\ Undonating
  <2>1. /\ Here /\ UNCHANGED <<priority, cur_lock>>
        /\ \/ UNCHANGED pc
           \/ \E place \in {"rel_pri", "rel_holder"} : pc' = [pc EXCEPT ![t] = place]
    BY <1>6, Zenon DEF LockRelease, pri
  <2> QED BY <1>1, <1>3, <1>6, <2>1
<1>7. ASSUME NEW l \in Locks, CallLockRelease(t, l) PROVE Calm(t) /\ Undonating
  BY <1>6, <1>7 DEF CallLockRelease, At, Running
<1>8. AllocateTid(t) => Calm(t) /\ Undonating
  BY <1>6, ConstantFacts DEF AllocateTid, At, Running
<1>9. ASSUME NEW l \in TryLocks, CallLockTryAcquire(t, l) PROVE Calm(t) /\ Undonating
  BY <1>1, <1>9 DEF CallLockTryAcquire, At, Running, pri, donate
<1>10. ASSUME NEW p \in NewPriorities, CallSetPriority(t, p) PROVE Calm(t) /\ Undonating
  <2>1. Goes({"user"}, {"set_empty", "set_raise", "set_original"}) /\ UNCHANGED priority
    BY <1>10, Zenon DEF CallSetPriority, At, Running, pri, donate
  <2> QED BY <1>1, <2>1
<1>11. CASE DownTakes(t)
  <2>1. Goes({"down", "down_wait"}, {"own", "user"}) /\ UNCHANGED priority
    BY <1>11, Zenon DEF DownTakes, At, Running, pri, donate
  <2> QED BY <1>1, <2>1
<1>12. DonateFaults(t) => Calm(t) /\ Undonating
  BY <1>3 DEF DonateFaults, At, Running, pri, donate, local, DonationPCs
<1>13. LockOwn(t) => Calm(t) /\ Undonating
  BY <1>1 DEF LockOwn, At, Running, pri, local
<1>14. CASE OwnHolder(t)
  <2>1. Goes({"own_holder", "try_own"}, {"tid", "user"}) /\ UNCHANGED priority
    BY <1>14, Zenon DEF OwnHolder, At, Running, pri
  <2> QED BY <1>1, <2>1
<1>15. CASE ReleasePriority(t)
  <2>1. Goes(PCs, Loose)
    BY <1>0, <1>15 DEF ReleasePriority, At, Running, donate, Loose
  <2>2. \A u \in Threads \ {t} : priority'[u] = priority[u]
    BY <1>0, <1>15 DEF ReleasePriority
  <2> QED BY <1>2, <2>1, <2>2
<1>16. ReleaseHolder(t) => Calm(t) /\ Undonating
  BY <1>0, <1>2 DEF ReleaseHolder, At, Running, pri, local, Loose
<1>17. CASE SetPriorityWrites(t)
  <2>1. Here /\ \E place \in {"copy_pri", "raise_original"} : pc' = [pc EXCEPT ![t] = place]
    BY <1>17, Zenon DEF SetPriorityWrites, At, Running, donate, local
  <2>2. \A u \in Threads \ {t} : priority'[u] = priority[u]
    BY <1>0, <1>17 DEF SetPriorityWrites
  <2> QED BY <1>0, <1>2, <2>1, <2>2 DEF Loose
<1>18. CASE SetOriginalWrites(t)
  <2>1. /\ Here /\ UNCHANGED priority
        /\ \/ pc' = [pc EXCEPT ![t] = "yield"]
           \/ pc[t] = "set_original" /\ pc' = [pc EXCEPT ![t] = "user"]
    BY <1>18, Zenon DEF SetOriginalWrites, At, Running, donate
  <2> QED BY <1>0, <1>1, <1>2, <2>1 DEF Loose
<1>19. CASE RecordBlockedLock(t)
  <2>1. Goes({"blocked"}, {"link"}) /\ UNCHANGED priority
    BY <1>0, <1>19 DEF RecordBlockedLock, At, Running, pri
  <2> QED BY <1>1, <2>1
<1>20. CASE DonateSkips(t) \/ EndsChain(t) \/ ReadsAgain(t)
  <2>1. Goes({"donate", "chain"}, {"chain", "down", "again"}) /\ UNCHANGED priority
    BY <1>0, <1>20 DEF DonateSkips, EndsChain, ReadsAgain, At, Running, pri, donate, local
  <2> QED BY <1>1, <2>1 DEF DonationPCs
<1>21. CASE NextInChain(t)
  <2>1. Goes({"chain", "again"}, {"link"}) /\ UNCHANGED priority
    BY <1>0, <1>21 DEF NextInChain, Running, pri, donate
  <2> QED BY <1>1, <2>1 DEF DonationPCs
<1> HIDE DEF Here, Goes, Froms, Tos
<1> QED BY <1>4, <1>5, <1>7, <1>8, <1>9, <1>10, <1>11, <1>12, <1>13, <1>14, <1>15, <1>16,
           <1>17, <1>18, <1>19, <1>20, <1>21

LEMMA UndonatingKeeps ==
    ASSUME Types, Donating, Undonating
    PROVE  Donating' /\ (NothingDonated' <=> NothingDonated)
<1>1. NothingDonated' <=> NothingDonated
  BY DEF Undonating, NothingDonated
<1>2. Donating'
  BY <1>1 DEF Undonating, Donating, DonatePCs
<1> QED BY <1>1, <1>2

\* The steps of lock_acquire's loop: the thread that goes round is at a lock,
\* and a priority is written only after some max_pri has been raised.
LEMMA DonationSteps ==
    ASSUME Types, Donating, NEW t \in Threads,
           \/ ReadHolder(t) \/ DonateComputes(t) \/ DonateTangled(t) \/ DonateWrites(t)
    PROVE  /\ Donating'
           /\ NothingDonated' => NothingDonated /\ Calm(t)
<1>0. /\ pc \in [Threads -> PCs] /\ cur_lock \in [Threads -> Locks \cup {NULL}]
      /\ blocked_lock \in [Threads -> Locks \cup {NULL}]
      /\ lock_h_t \in [Threads -> Threads \cup {NULL}]
      /\ max_pri \in [Locks -> Priorities] /\ priority \in [AllThreads -> Priorities]
      /\ \A p \in Priorities : p \in Nat
      /\ t \in AllThreads
  BY ConstantFacts DEF Types, TypeOK, AllThreads
<1>1. CASE ReadHolder(t)
  <2>1. /\ pc[t] = "link" /\ t = current /\ panic = "none"
        /\ UNCHANGED <<sched, priority, max_pri, cur_lock>>
        /\ \/ UNCHANGED pc
           \/ cur_lock[t] # NULL /\ pc' = [pc EXCEPT ![t] = "donate"]
    BY <1>1, Zenon DEF ReadHolder, At, Running, pri, donate
  <2>2. NothingDonated' <=> NothingDonated
    BY <2>1 DEF NothingDonated
  <2>3. Donating'
    BY <1>0, <2>1, <2>2 DEF Donating, DonatePCs
  <2> QED BY <2>1, <2>2, <2>3 DEF Calm, Loose
<1>2. CASE DonateWrites(t)
  <2>1. /\ pc[t] = "donate_write" /\ pc' = [pc EXCEPT ![t] = "chain"]
        /\ UNCHANGED <<max_pri, cur_lock>>
    BY <1>2 DEF DonateWrites, At, donate
  <2>2. ~ NothingDonated /\ (NothingDonated' <=> NothingDonated)
    BY <2>1 DEF Donating, NothingDonated
  <2>3. Donating'
    BY <1>0, <2>1, <2>2 DEF Donating, DonatePCs
  <2> QED BY <2>2, <2>3
<1>3. CASE DonateComputes(t) \/ DonateTangled(t)
  <2>1. /\ pc[t] = "donate" /\ UNCHANGED cur_lock
        /\ max_pri' = [max_pri EXCEPT ![cur_lock[t]] = priority[t]]
        /\ priority[t] > max_pri[cur_lock[t]]
    BY <1>3 DEF DonateComputes, DonateTangled, MaxPriAfter, At
  <2>2. \/ UNCHANGED pc
        \/ \E place \in {"donate_write", "sorting"} : pc' = [pc EXCEPT ![t] = place]
    BY <1>3, Zenon DEF DonateComputes, DonateTangled
  <2>3. cur_lock[t] \in Locks
    BY <2>1 DEF Donating, DonatePCs
  <2>4. max_pri'[cur_lock[t]] # 0
    BY <1>0, <2>1, <2>3
  <2>5. ~ NothingDonated'
    BY <2>1, <2>3, <2>4 DEF NothingDonated
  <2>6. Donating'
    BY <1>0, <2>1, <2>2, <2>3, <2>5 DEF Donating, DonatePCs
  <2> QED BY <2>5, <2>6
<1> QED BY <1>1, <1>2, <1>3

\* The steps that choose another thread to run.
LEMMA ReschedulingSteps ==
    ASSUME Types, Listing, NEW t \in Threads,
           \/ \E s \in Semas : CallSemaUp(t, s)
           \/ ReleaseUp(t) \/ DownBlocks(t) \/ CallSleep(t) \/ CallThreadExit(t)
           \/ SetPriorityYields(t)
    PROVE  /\ Undonating
           /\ ReadyListSorted => ReadyListSorted' /\ RunsFirst'
<1>0. /\ pc \in [Threads -> PCs] /\ status \in [AllThreads -> Statuses]
      /\ ready_list \in Seq(Threads) /\ priority \in [AllThreads -> Priorities]
      /\ AllThreads = Threads \cup {Idle} /\ Idle \notin Threads
      /\ \A u \in Threads : u \in ToSet(ready_list) <=> status[u] = "READY"
      /\ ToSet(ready_list) \subseteq Threads
      /\ Lists(ready_list, status)
      /\ \A u \in AllThreads : status[u] = "RUNNING" <=> u = current
  BY ToSetOfSeq, ConstantFacts
     DEF Types, TypeOK, AllThreads, Listing, ReadyListExact, OneRunning, Lists
<1>1. ASSUME NEW s \in Semas, CallSemaUp(t, s)
      PROVE  Undonating /\ (ReadyListSorted => ReadyListSorted' /\ RunsFirst')
  <2>1. /\ SemaUp(t, s, "user") /\ UNCHANGED <<priority, max_pri, cur_lock>>
        /\ pc' = [pc EXCEPT ![t] = "user"] /\ s \in AllSemas
    BY <1>1 DEF CallSemaUp, SemaUp, pri, donate, local, AllSemas
  <2>2. Undonating
    BY <1>0, <2>1 DEF Undonating, DonatePCs
  <2> QED BY <2>1, <2>2, OrderOfUp
<1>2. CASE ReleaseUp(t)
  <2> DEFINE after == IF arg[t] = TidLock THEN "create_unblock" ELSE "user"
  <2>1. /\ SemaUp(t, arg[t], after) /\ UNCHANGED <<priority, max_pri, cur_lock>>
        /\ pc' = [pc EXCEPT ![t] = after] /\ after \in {"create_unblock", "user"}
        /\ arg[t] \in AllSemas
    BY <1>2 DEF ReleaseUp, SemaUp, At, pri, donate, Types, LocalsFit, LockPCs, AllSemas
  <2> HIDE DEF after
  <2>2. Undonating
    BY <1>0, <2>1 DEF Undonating, DonatePCs
  <2> QED BY <2>1, <2>2, OrderOfUp
<1>3. ASSUME NEW st \in [AllThreads -> Statuses], Schedule(st, ready_list),
             t = current, st[t] \notin {"READY", "RUNNING"},
             \A u \in AllThreads \ {t} : st[u] = status[u],
             \A u \in Threads \ {t} : priority'[u] = priority[u]
      PROVE  ReadyListSorted => ReadyListSorted' /\ RunsFirst'
  <2>1. Lists(ready_list, st)
    BY <1>0, <1>3 DEF Lists
  <2>2. \A x \in ToSet(ready_list) : priority'[x] = priority[x]
    BY <1>0, <1>3
  <2> QED BY <1>0, <1>3, <2>1, <2>2, OrderOfSchedule DEF ReadyListSorted
<1>4. CASE DownBlocks(t) \/ CallSleep(t)
  <2> DEFINE st == [status EXCEPT ![t] = "BLOCKED"]
  <2>1. /\ Schedule(st, ready_list) /\ t = current
        /\ UNCHANGED <<priority, max_pri, cur_lock>>
        /\ \E place \in {"down_wait", "asleep"} : pc' = [pc EXCEPT ![t] = place]
    BY <1>4 DEF DownBlocks, CallSleep, At, Running, pri, donate, local
  <2>2. /\ st \in [AllThreads -> Statuses] /\ st[t] = "BLOCKED"
        /\ \A u \in AllThreads \ {t} : st[u] = status[u]
    BY <1>0 DEF Statuses
  <2>3. Undonating
    BY <1>0, <2>1 DEF Undonating, DonatePCs
  <2> HIDE DEF st
  <2> QED BY <1>3, <2>1, <2>2, <2>3
<1>5. CASE CallThreadExit(t)
  <2>1. PICK dead \in {"DYING", "FREE"} : dead = IF t = Main THEN "DYING" ELSE "FREE"
    OBVIOUS
  <2> DEFINE st == [status EXCEPT ![t] = dead]
  <2>2. /\ Schedule(st, ready_list) /\ t = current
        /\ priority' = [priority EXCEPT ![t] = 0] /\ UNCHANGED <<max_pri, cur_lock, pc>>
    BY <1>5, <2>1 DEF CallThreadExit, At, Running, donate, local
  <2>3. /\ st \in [AllThreads -> Statuses] /\ st[t] \in {"DYING", "FREE"}
        /\ \A u \in AllThreads \ {t} : st[u] = status[u]
    BY <1>0 DEF Statuses
  <2>4. Undonating /\ \A u \in Threads \ {t} : priority'[u] = priority[u]
    BY <1>0, <2>2 DEF Undonating
  <2> HIDE DEF st
  <2> QED BY <1>3, <2>2, <2>3, <2>4
<1>6. CASE SetPriorityYields(t)
  <2>1. /\ ThreadYield(status, ready_list) /\ pc' = [pc EXCEPT ![t] = "user"]
        /\ UNCHANGED <<priority, max_pri, cur_lock>>
    BY <1>6 DEF SetPriorityYields, pri, donate, local
  <2>2. Undonating
    BY <1>0, <2>1 DEF Undonating, DonatePCs
  <2> QED BY <1>0, <2>1, <2>2, OrderOfYield DEF ReadyListSorted
<1> QED BY <1>1, <1>2, <1>4, <1>5, <1>6

\* thread_create: init_thread, thread_unblock, and the comparison with the
\* child that may make the creator yield.
LEMMA CreationSteps ==
    ASSUME Types, Listing, NEW t \in Threads,
           \/ \E c \in Threads, p \in Priorities : CallThreadCreate(t, c, p)
           \/ CreateUnblocks(t) \/ CreateYields(t)
    PROVE  /\ Undonating
           /\ ReadyListSorted /\ RunsFirst => ReadyListSorted' /\ RunsFirst'
<1>0. /\ pc \in [Threads -> PCs] /\ status \in [AllThreads -> Statuses]
      /\ ready_list \in Seq(Threads) /\ priority \in [AllThreads -> Priorities]
      /\ child \in [Threads -> Threads \cup {NULL}]
      /\ \A x \in Threads : priority[x] \in Int
      /\ AllThreads = Threads \cup {Idle} /\ Idle \notin Threads
      /\ ToSet(ready_list) \subseteq Threads
      /\ \A i \in 1..Len(ready_list) : ready_list[i] \in ToSet(ready_list)
      /\ Lists(ready_list, status)
      /\ \A u \in AllThreads : status[u] = "RUNNING" <=> u = current
  <2>1. /\ ready_list \in Seq(Threads) /\ TypeOK
        /\ AllThreads = Threads \cup {Idle} /\ Idle \notin Threads
    BY ConstantFacts DEF Types, TypeOK, AllThreads
  <2>2. /\ ToSet(ready_list) \subseteq Threads
        /\ \A i \in 1..Len(ready_list) : ready_list[i] \in ToSet(ready_list)
    <3>1. \A i \in 1..Len(ready_list) : ready_list[i] \in ToSet(ready_list)
      BY <2>1, LenProperties DEF ToSet
    <3> QED BY <2>1, <3>1, ToSetOfSeq
  <2> QED BY <2>1, <2>2, KeyTypes
          DEF TypeOK, Listing, ReadyListExact, OneRunning, Lists
<1>1. ASSUME NEW c \in Threads, NEW p \in Priorities, CallThreadCreate(t, c, p)
      PROVE  Undonating /\ (ReadyListSorted /\ RunsFirst => ReadyListSorted' /\ RunsFirst')
  <2>1. /\ t = current /\ panic = "none" /\ pc[t] = "user" /\ status[c] = "FREE"
        /\ status' = [status EXCEPT ![c] = "BLOCKED"]
        /\ priority' = [priority EXCEPT ![c] = p]
        /\ \E place \in {"down", "blocked"} : pc' = [pc EXCEPT ![t] = place]
        /\ UNCHANGED <<current, ready_list, woken, max_pri, cur_lock>>
    BY <1>1, Zenon DEF CallThreadCreate, TestHolder, At, Running
  <2>2. Undonating
    BY <1>0, <2>1 DEF Undonating, DonatePCs
  <2>3. c # t /\ c \notin ToSet(ready_list)
    BY <1>0, <2>1 DEF Lists
  <2>4. \A u \in Threads \ {c} : priority'[u] = priority[u] /\ status'[u] = status[u]
    BY <1>0, <2>1
  <2>5. ReadyListSorted => ReadyListSorted'
    <3>1. \A i \in 1..Len(ready_list) : priority'[ready_list[i]] = priority[ready_list[i]]
      BY <1>0, <2>3, <2>4
    <3> QED BY <2>1, <3>1 DEF ReadyListSorted, IsSortedBy
  <2>6. status'[c] # "READY"
    BY <1>0, <2>1
  <2>7. RunsFirst => RunsFirst'
    BY <1>0, <2>1, <2>3, <2>4, <2>6 DEF RunsFirst, Loose
  <2> QED BY <2>2, <2>5, <2>7
<1>2. CASE CreateUnblocks(t)
  <2>1. PICK c \in Threads : c = child[t]
    BY <1>2 DEF CreateUnblocks, At, Types, LocalsFit
  <2>2. /\ t = current /\ panic = "none" /\ pc[t] = "create_unblock"
        /\ status' = [status EXCEPT ![c] = "READY"]
        /\ ready_list' = list_insert_ordered(ready_list, c, priority)
        /\ pc' = [pc EXCEPT ![t] = "create_yield"]
        /\ UNCHANGED <<current, woken, priority, child, max_pri, cur_lock>>
    BY <1>2, <2>1 DEF CreateUnblocks, At, Running, pri, donate, local
  <2>3. Undonating
    BY <1>0, <2>2 DEF Undonating, DonatePCs
  <2>4. ReadyListSorted => ReadyListSorted'
    <3>1. ASSUME ReadyListSorted
          PROVE  IsSortedBy(list_insert_ordered(ready_list, c, priority), priority)
      BY <1>0, <3>1, InsertOrderedSorted DEF ReadyListSorted
    <3> QED BY <2>2, <3>1 DEF ReadyListSorted
  <2>5. RunsFirst => RunsFirst'
    <3>1. \A u \in Threads \ {c} : status'[u] = status[u]
      BY <1>0, <2>2
    <3>2. pc'[t] = "create_yield" /\ child'[t] = c /\ pc[t] \notin Loose
      BY <1>0, <2>1, <2>2 DEF Loose
    <3> QED BY <2>2, <3>1, <3>2 DEF RunsFirst
  <2> QED BY <2>3, <2>4, <2>5
<1>3. CASE CreateYields(t)
  <2>1. /\ t = current /\ panic = "none" /\ pc[t] = "create_yield"
        /\ pc' = [pc EXCEPT ![t] = "user"] /\ UNCHANGED <<priority, max_pri, cur_lock>>
        /\ \/ ThreadYield(status, ready_list)
           \/ ~ ChildPreempts(t) /\ UNCHANGED sched
    BY <1>3, Zenon DEF CreateYields, At, Running, pri, donate
  <2>2. Undonating
    BY <1>0, <2>1 DEF Undonating, DonatePCs
  <2>3. CASE ThreadYield(status, ready_list)
    BY <1>0, <2>1, <2>2, <2>3, OrderOfYield DEF ReadyListSorted
  <2>4. CASE ~ ChildPreempts(t) /\ UNCHANGED sched
    <3>1. PICK c \in Threads : c = child[t]
      BY <2>1 DEF Types, LocalsFit
    <3>2. status[c] = "READY" => priority[c] <= priority[t]
      BY <1>0, <2>4, <3>1 DEF ChildPreempts
    <3>3. RunsFirst => RunsFirst'
      BY <2>1, <2>4, <3>1, <3>2 DEF RunsFirst, Loose, sched
    <3>4. ReadyListSorted => ReadyListSorted'
      BY <2>1, <2>4 DEF ReadyListSorted, sched
    <3> QED BY <2>2, <3>3, <3>4
  <2> QED BY <2>1, <2>3, <2>4
<1> QED BY <1>1, <1>2, <1>3

LEMMA KernelStepOrder ==
    ASSUME ~ Mlfqs, Types, Listing,
           \/ Preempt \/ IdleBlock \/ MlfqsTick \/ Halted \/ UNCHANGED vars
           \/ \E s \in IntrSemas : IntrSemaUp(s)
           \/ \E t \in Threads : InterruptWakes(t)
    PROVE  /\ Undonating
           /\ ReadyListSorted /\ RunsFirst => ReadyListSorted' /\ RunsFirst'
<1>0. /\ status \in [AllThreads -> Statuses] /\ ready_list \in Seq(Threads)
      /\ AllThreads = Threads \cup {Idle} /\ Idle \notin Threads
      /\ Lists(ready_list, status)
      /\ \A u \in AllThreads : status[u] = "RUNNING" <=> u = current
  BY ConstantFacts
     DEF Types, TypeOK, AllThreads, Listing, ReadyListExact, OneRunning, Lists
<1>1. CASE Preempt
  <2>1. /\ ThreadYield(status, ready_list)
        /\ UNCHANGED <<priority, max_pri, cur_lock, pc>>
    BY <1>1 DEF Preempt, pri, donate, local
  <2> QED BY <1>0, <2>1, OrderOfYield DEF ReadyListSorted, Undonating
<1>2. CASE IdleBlock
  <2> DEFINE st == [status EXCEPT ![Idle] = "BLOCKED"]
  <2>1. /\ Schedule(st, ready_list) /\ UNCHANGED <<priority, max_pri, cur_lock, pc>>
    BY <1>2 DEF IdleBlock, pri, donate, local
  <2>2. st \in [AllThreads -> Statuses] /\ Lists(ready_list, st)
    BY <1>0 DEF Statuses, Lists
  <2> HIDE DEF st
  <2> QED BY <2>1, <2>2, <1>0, OrderOfSchedule DEF ReadyListSorted, Undonating
<1>3. CASE Halted \/ UNCHANGED vars
  <2>1. /\ UNCHANGED <<current, status, ready_list, woken, priority, max_pri, cur_lock>>
        /\ UNCHANGED <<pc, child, panic>>
    BY <1>3 DEF Halted, vars, sched, pri, donate, local
  <2> QED BY <2>1 DEF ReadyListSorted, RunsFirst, Undonating
<1>4. ~ MlfqsTick
  BY DEF MlfqsTick
<1>5. ASSUME NEW s \in IntrSemas, IntrSemaUp(s)
      PROVE  Undonating /\ (ReadyListSorted => ReadyListSorted' /\ RunsFirst')
  <2>1. /\ ready_list' = ReadyListAfterUp(s) /\ panic' = "intr_yield"
        /\ UNCHANGED <<priority, max_pri, cur_lock, pc>> /\ s \in AllSemas
    BY <1>5, ConstantFacts DEF IntrSemaUp, pri, donate, local, AllSemas
  <2>2. ReadyListSorted => IsSortedBy(ReadyListAfterUp(s), priority)
    BY <2>1, UpSorted
  <2> QED BY <2>1, <2>2 DEF ReadyListSorted, RunsFirst, Undonating
<1>6. ASSUME NEW t \in Threads, InterruptWakes(t)
      PROVE  /\ Undonating
             /\ ReadyListSorted /\ RunsFirst => ReadyListSorted' /\ RunsFirst'
  <2>1. /\ status[t] = "BLOCKED" /\ status' = [status EXCEPT ![t] = "READY"]
        /\ ready_list' = list_insert_ordered(ready_list, t, priority)
        /\ woken' = woken \cup {t} /\ pc' = [pc EXCEPT ![t] = "user"]
        /\ UNCHANGED <<current, priority, child, max_pri, cur_lock, panic>>
    BY <1>6 DEF InterruptWakes, pri, donate, local
  <2>2. pc \in [Threads -> PCs] /\ \A x \in Threads : priority[x] \in Int
    BY KeyTypes DEF Types, TypeOK
  <2>3. Undonating
    BY <2>1, <2>2 DEF Undonating, DonatePCs
  <2>4. ReadyListSorted => ReadyListSorted'
    <3>1. ASSUME ReadyListSorted
          PROVE  IsSortedBy(list_insert_ordered(ready_list, t, priority), priority)
      BY <1>0, <2>2, <3>1, InsertOrderedSorted DEF ReadyListSorted
    <3> QED BY <2>1, <3>1 DEF ReadyListSorted
  <2>5. RunsFirst => RunsFirst'
    <3>1. /\ \A u \in Threads \ {t} : status'[u] = status[u] /\ pc'[u] = pc[u]
          /\ current # t
      BY <1>0, <2>1, <2>2
    <3> QED BY <2>1, <3>1 DEF RunsFirst
  <2> QED BY <2>3, <2>4, <2>5
<1> QED BY <1>1, <1>2, <1>3, <1>4, <1>5, <1>6

LEMMA NextOrder ==
    ASSUME ~ Mlfqs, Types, Listing, Donating, Order, [Next]_vars
    PROVE  Donating' /\ Order'
<1>1. ASSUME Undonating,
             ReadyListSorted /\ RunsFirst => ReadyListSorted' /\ RunsFirst'
      PROVE  Donating' /\ Order'
  BY <1>1, UndonatingKeeps DEF Order
<1>2. ASSUME NEW t \in Threads, Undonating, Calm(t) PROVE Donating' /\ Order'
  <2>1. ReadyListSorted /\ RunsFirst => ReadyListSorted' /\ RunsFirst'
    BY <1>2, OrderOfCalm
  <2> QED BY <1>1, <1>2, <2>1
<1>3. ASSUME NEW t \in Threads,
             \/ ReadHolder(t) \/ DonateComputes(t) \/ DonateTangled(t)
             \/ DonateWrites(t)
      PROVE  Donating' /\ Order'
  <2>1. Donating' /\ (NothingDonated' => NothingDonated /\ Calm(t))
    BY <1>3, DonationSteps
  <2>2. ASSUME NothingDonated' PROVE ReadyListSorted' /\ RunsFirst'
    BY <2>1, <2>2, OrderOfCalm DEF Order
  <2> QED BY <2>1, <2>2 DEF Order
<1>4. ASSUME NEW t \in Threads, UserCall(t) \/ Step(t) PROVE Donating' /\ Order'
  BY <1>1, <1>2, <1>3, <1>4, CalmSteps, ReschedulingSteps, CreationSteps DEF UserCall, Step
<1>5. CASE \/ Preempt \/ IdleBlock \/ MlfqsTick \/ Halted \/ UNCHANGED vars
           \/ \E s \in IntrSemas : IntrSemaUp(s)
           \/ \E t \in Threads : InterruptWakes(t)
  BY <1>1, <1>5, KernelStepOrder
<1> QED BY <1>4, <1>5 DEF Next

LEMMA InitOrder == Init => Donating /\ Order
<1> SUFFICES ASSUME Init PROVE Donating /\ Order
  OBVIOUS
<1>1. Donating
  BY DEF Init, Donating, DonatePCs
<1>2. ReadyListSorted
  BY EmptySeq DEF Init, ReadyListSorted, IsSortedBy
<1>3. \A u \in Threads : status[u] # "READY"
  BY ConstantFacts DEF Init, AllThreads
<1> QED BY <1>1, <1>2, <1>3 DEF Order, RunsFirst

\* The design document's rule of priority scheduling for any number of threads
\* under the priority scheduler: until a thread donates, the ready list is
\* ordered by priority, and no thread outside the kernel's calls runs while a
\* thread of higher priority is ready, but for the threads that handlers of the
\* timer and the devices have woken since it was chosen.
THEOREM StrictlyByPriority == ~ Mlfqs => (Spec => []StrictPriority)
<1> SUFFICES ASSUME ~ Mlfqs PROVE Spec => []StrictPriority
  OBVIOUS
<1>1. Types /\ Listing /\ Donating /\ Order /\ [Next]_vars => Donating' /\ Order'
  BY NextOrder
<1>2. Types /\ Order => StrictPriority
  BY DEF Order, StrictPriority, RunsFirst, RunsHighest, At, Running, Loose, Types, TypeOK
<1> QED BY <1>1, <1>2, ListingInvariant, InitOrder, PTL DEF Spec
=============================================================================
