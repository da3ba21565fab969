-------------------------- MODULE CondVarProofs --------------------------
(***************************************************************************)
(* CondVar implements Monitor, for any threads, priorities and stack       *)
(* contents: Inv is inductive, and under it every step of the code is a    *)
(* step of the monitor or changes nothing in it.                           *)
(***************************************************************************)
EXTENDS CondVar, KernelListsProofs

\* What the proof needs to know of a sort, whatever keys cond_cmp read.
LEMMA CondSortElements ==
    ASSUME TypeOK, NEW t \in Threads, CondSort(t)
    PROVE  /\ waiters # <<>>
           /\ waiters' \in Seq(Threads)
           /\ waiters' # <<>>
           /\ ToSet(waiters') = ToSet(waiters)
           /\ NoDuplicates(waiters) => NoDuplicates(waiters')
<1>1. PICK key \in SortKeys : waiters' = list_sort(waiters, key)
  BY DEF CondSort
<1>2. \A u \in Threads : key[u] \in Int
  <2>1. key \in [Threads -> Priorities \cup StackWords]
    BY <1>1 DEF SortKeys
  <2>2. QED
    BY <2>1, CondVarAssumption
<1>3. waiters \in Seq(Threads) /\ waiters # <<>>
  BY DEF TypeOK, CondSort
<1>4. /\ waiters' \in Seq(Threads)
      /\ Len(waiters') = Len(waiters)
      /\ ToSet(waiters') = ToSet(waiters)
      /\ NoDuplicates(waiters) => NoDuplicates(waiters')
  BY <1>1, <1>2, <1>3, ListSortElements
<1>5. waiters' # <<>>
  BY <1>3, <1>4, EmptySeq
<1>6. QED
  BY <1>3, <1>4, <1>5

-----------------------------------------------------------------------------
LEMMA InitInv == Init => TypeOK /\ Inv
<1> SUFFICES ASSUME Init PROVE TypeOK /\ Inv
  OBVIOUS
<1>1. waiters = <<>> /\ ToSet(waiters) = {} /\ NoDuplicates(waiters)
  BY DEF Init, ToSet, NoDuplicates
<1>2. TypeOK
  BY <1>1 DEF Init, TypeOK, PCs
<1>3. Inv
  BY <1>1, CondVarAssumption DEF Init, Inv, SignalPending
<1>4. QED
  BY <1>2, <1>3

\* Every step keeps the types.
LEMMA NextTypeOK == TypeOK /\ Inv /\ [Next]_vars => TypeOK'
<1> SUFFICES ASSUME TypeOK, Inv, [Next]_vars PROVE TypeOK'
  OBVIOUS
<1> USE DEF PCs
<1>1. CASE UNCHANGED vars
  BY <1>1 DEF vars, TypeOK
<1>2. ASSUME NEW t \in Threads, CallLockAcquire(t) PROVE TypeOK'
  BY <1>2 DEF CallLockAcquire, TypeOK, Goto
<1>3. ASSUME NEW t \in Threads, LockAcquire(t) PROVE TypeOK'
  BY <1>3 DEF LockAcquire, TypeOK, Goto
<1>4. ASSUME NEW t \in Threads, CallLockRelease(t) PROVE TypeOK'
  BY <1>4 DEF CallLockRelease, TypeOK, Goto
<1>5. ASSUME NEW t \in Threads, CallCondWait(t) PROVE TypeOK'
  <2>1. waiters' \in Seq(Threads)
    BY <1>5, PushBackElements DEF CallCondWait, TypeOK
  <2>2. QED
    BY <1>5, <2>1 DEF CallCondWait, TypeOK, Goto, InitialValue
<1>6. ASSUME NEW t \in Threads, CondWaitReleases(t) PROVE TypeOK'
  BY <1>6 DEF CondWaitReleases, TypeOK, Goto
<1>7. ASSUME NEW t \in Threads, CondWaitDowns(t) PROVE TypeOK'
  <2>1. value' \in [Threads -> Nat]
    BY <1>7 DEF CondWaitDowns, TypeOK
  <2>2. pc' \in [Threads -> PCs]
    BY <1>7 DEF CondWaitDowns, TypeOK, Goto
  <2>3. QED
    BY <1>7, <2>1, <2>2 DEF CondWaitDowns, TypeOK
<1>8. ASSUME NEW t \in Threads, CallCondSignal(t) PROVE TypeOK'
  <2>1. waiters' \in Seq(Threads)
    BY <1>8, CondSortElements DEF CallCondSignal
  <2>2. QED
    BY <1>8, <2>1 DEF CallCondSignal, CondSort, TypeOK, Goto
<1>9. ASSUME NEW t \in Threads, CallCondBroadcast(t) PROVE TypeOK'
  BY <1>9 DEF CallCondBroadcast, TypeOK, Goto
<1>10. ASSUME NEW t \in Threads, CondBroadcastLoops(t) PROVE TypeOK'
  <2>1. CASE waiters = <<>>
    BY <1>10, <2>1 DEF CondBroadcastLoops, TypeOK, Goto
  <2>2. CASE waiters # <<>>
    <3>1. waiters' \in Seq(Threads)
      BY <1>10, <2>2, CondSortElements DEF CondBroadcastLoops
    <3>2. QED
      BY <1>10, <2>2, <3>1 DEF CondBroadcastLoops, CondSort, TypeOK, Goto
  <2>3. QED
    BY <2>1, <2>2
<1>11. ASSUME NEW t \in Threads, CondPopUp(t) PROVE TypeOK'
  <2>1. waiters # <<>>
    BY <1>11 DEF CondPopUp, Inv
  <2>2. Head(waiters) \in Threads /\ Tail(waiters) \in Seq(Threads)
    BY <2>1, PopFrontElements DEF TypeOK
  <2>3. value' \in [Threads -> Nat]
    BY <1>11, <2>2 DEF CondPopUp, TypeOK, SemaUp
  <2>4. pc' \in [Threads -> PCs]
    BY <1>11, <2>2 DEF CondPopUp, TypeOK, PlaceAfterUp, PlaceAfterSignal
  <2>5. QED
    BY <1>11, <2>2, <2>3, <2>4 DEF CondPopUp, TypeOK
<1>12. ASSUME NEW t \in Threads, PriorityChanges(t) PROVE TypeOK'
  BY <1>12 DEF PriorityChanges, TypeOK
<1>13. QED
  BY <1>1, <1>2, <1>3, <1>4, <1>5, <1>6, <1>7, <1>8, <1>9, <1>10, <1>11, <1>12
     DEF Next, Step

-----------------------------------------------------------------------------
\* The places of the threads that hold the lock.
Inside == {"in", "queued", "sorted", "loop"}

\* A step that leaves the list and the semaphores alone, and moves one thread
\* that is not in cond_wait, or from "queued" on, keeps the invariant.
LEMMA MoveKeepsInv ==
    ASSUME TypeOK, Inv, UNCHANGED <<waiters, value>>,
           NEW t \in Threads, NEW to \in {"acquire", "in", "out", "down", "loop"},
           pc' = [pc EXCEPT ![t] = to],
           \/ pc[t] \notin {"queued", "down", "asleep"} /\ to # "down"
           \/ pc[t] = "queued" /\ to = "down",
           \/ holder' = t /\ holder \in {t, NULL} /\ to \in Inside
           \/ holder' = NULL /\ holder = t /\ to \notin Inside
           \/ holder' = holder /\ holder # t /\ to \notin Inside
    PROVE  Inv'
<1>1. \A u \in Threads : pc'[u] = IF u = t THEN to ELSE pc[u]
  BY DEF TypeOK
<1>2. NULL \notin Threads
  BY CondVarAssumption
<1>3. \A u \in Threads : (holder' = u) <=> pc'[u] \in Inside
  BY <1>1, <1>2 DEF Inv, Inside
<1>4. /\ NoDuplicates(waiters')
      /\ \A u \in ToSet(waiters') : u \in Threads /\ pc'[u] \in {"queued", "down", "asleep"}
  <2>1. \A u \in ToSet(waiters) : u \in Threads
    BY ElementOfSeq, LenProperties DEF TypeOK, ToSet
  <2>2. QED
    BY <1>1, <2>1 DEF Inv
<1>5. \A u \in Threads : /\ pc'[u] = "queued" => u \in ToSet(waiters')
                         /\ pc'[u] = "sorted" => waiters' # <<>>
  BY <1>1 DEF Inv
<1>6. SignalPending'
  <2>1. \A u \in Threads :
          pc[u] \in {"queued", "down", "asleep"} =>
              /\ value[u] = (IF u \in ToSet(waiters) THEN 0 ELSE 1)
              /\ pc[u] = "asleep" => u \in ToSet(waiters)
    BY DEF Inv, SignalPending
  <2>2. QED
    BY <1>1, <2>1 DEF SignalPending
<1>7. QED
  BY <1>3, <1>4, <1>5, <1>6 DEF Inv, Inside

\* So does a sort by the holder, whatever it compares.
LEMMA SortKeepsInv ==
    ASSUME TypeOK, Inv, NEW t \in Threads, pc[t] \in {"in", "loop"},
           CondSort(t), UNCHANGED <<holder, value>>
    PROVE  Inv'
<1>1. /\ waiters' # <<>> /\ ToSet(waiters') = ToSet(waiters)
      /\ NoDuplicates(waiters')
  BY CondSortElements DEF Inv
<1>2. \A u \in Threads : pc'[u] = IF u = t THEN "sorted" ELSE pc[u]
  BY DEF CondSort, Goto, TypeOK
<1>3. \A u \in ToSet(waiters) : u \in Threads /\ u # t
  BY ElementOfSeq, LenProperties DEF TypeOK, ToSet, Inv
<1>4. SignalPending'
  <2>1. \A u \in Threads :
          pc[u] \in {"queued", "down", "asleep"} =>
              /\ value[u] = (IF u \in ToSet(waiters) THEN 0 ELSE 1)
              /\ pc[u] = "asleep" => u \in ToSet(waiters)
    BY DEF Inv, SignalPending
  <2>2. QED
    BY <1>1, <1>2, <2>1 DEF SignalPending
<1>5. \A u \in Threads : (holder' = u) <=> pc'[u] \in {"in", "queued", "sorted", "loop"}
  BY <1>2 DEF Inv
<1>6. \A u \in ToSet(waiters') : pc'[u] \in {"queued", "down", "asleep"}
  BY <1>1, <1>2, <1>3 DEF Inv
<1>7. \A u \in Threads : pc'[u] = "queued" => u \in ToSet(waiters')
  BY <1>1, <1>2 DEF Inv
<1>8. QED
  BY <1>1, <1>4, <1>5, <1>6, <1>7 DEF Inv

\* Who is on the list is a thread in cond_wait, and what Inv says of a thread.
LEMMA InvFacts ==
    ASSUME TypeOK, Inv
    PROVE  /\ \A u \in ToSet(waiters) : u \in Threads /\ pc[u] \in {"queued", "down", "asleep"}
           /\ \A u \in Threads : (holder = u) <=> pc[u] \in Inside
           /\ \A u \in Threads :
                 pc[u] \in {"queued", "down", "asleep"} =>
                     /\ value[u] = (IF u \in ToSet(waiters) THEN 0 ELSE 1)
                     /\ pc[u] = "asleep" => u \in ToSet(waiters)
           /\ \A u \in Threads : pc[u] = "queued" => u \in ToSet(waiters)
           /\ \A u \in Threads : pc[u] = "sorted" => waiters # <<>>
           /\ NULL \notin Threads
<1>1. \A u \in ToSet(waiters) : u \in Threads
  BY ElementOfSeq, LenProperties DEF TypeOK, ToSet
<1>2. \A u \in Threads :
          pc[u] \in {"queued", "down", "asleep"} =>
              /\ value[u] = (IF u \in ToSet(waiters) THEN 0 ELSE 1)
              /\ pc[u] = "asleep" => u \in ToSet(waiters)
  BY DEF Inv, SignalPending
<1>3. QED
  BY <1>1, <1>2, CondVarAssumption DEF Inv, Inside

LEMMA CallCondWaitInv ==
    ASSUME TypeOK, Inv, NEW t \in Threads, CallCondWait(t)
    PROVE  Inv'
<1>1. \A u \in Threads : /\ pc'[u] = IF u = t THEN "queued" ELSE pc[u]
                         /\ value'[u] = IF u = t THEN 0 ELSE value[u]
  BY DEF CallCondWait, Goto, TypeOK, InitialValue
<1>2. pc[t] = "in" /\ holder' = holder /\ t \notin ToSet(waiters)
  BY InvFacts DEF CallCondWait
<1>3. /\ ToSet(waiters') = ToSet(waiters) \cup {t}
      /\ NoDuplicates(waiters')
      /\ waiters' # <<>>
  <2>1. waiters' = Append(waiters, t) /\ waiters \in Seq(Threads) /\ NoDuplicates(waiters)
    BY DEF CallCondWait, TypeOK, Inv
  <2>2. /\ ToSet(waiters') = ToSet(waiters) \cup {t}
        /\ NoDuplicates(waiters')
    BY <1>2, <2>1, PushBackElements
  <2>3. waiters' # <<>>
    BY <2>1
  <2>4. QED
    BY <2>2, <2>3
<1>4. SignalPending'
  BY <1>1, <1>3, InvFacts DEF SignalPending
<1>5. \A u \in Threads : (holder' = u) <=> pc'[u] \in {"in", "queued", "sorted", "loop"}
  BY <1>1, <1>2, InvFacts DEF Inside
<1>6. \A u \in ToSet(waiters') : pc'[u] \in {"queued", "down", "asleep"}
  BY <1>1, <1>3, InvFacts
<1>7. \A u \in Threads : pc'[u] = "queued" => u \in ToSet(waiters')
  BY <1>1, <1>3, InvFacts
<1>8. QED
  BY <1>3, <1>4, <1>5, <1>6, <1>7 DEF Inv

LEMMA CondWaitDownsInv ==
    ASSUME TypeOK, Inv, NEW t \in Threads, CondWaitDowns(t)
    PROVE  Inv'
<1>1. PICK to \in {"asleep", "reacquire"} :
         /\ \A u \in Threads : pc'[u] = IF u = t THEN to ELSE pc[u]
         /\ to = "asleep" => t \in ToSet(waiters)
         /\ to = "reacquire" => t \notin ToSet(waiters)
         /\ \A u \in Threads : u # t \/ to = "asleep" => value'[u] = value[u]
  <2>1. CASE value[t] = 0
    BY <2>1, InvFacts DEF CondWaitDowns, Goto, TypeOK
  <2>2. CASE value[t] # 0
    BY <2>2, InvFacts DEF CondWaitDowns, Goto, TypeOK
  <2>3. QED
    BY <2>1, <2>2
<1>2. pc[t] = "down" /\ holder' = holder /\ waiters' = waiters /\ NoDuplicates(waiters)
  BY DEF CondWaitDowns, Inv
<1>3. SignalPending'
  BY <1>1, <1>2, InvFacts DEF SignalPending
<1>4. \A u \in Threads : (holder' = u) <=> pc'[u] \in {"in", "queued", "sorted", "loop"}
  BY <1>1, <1>2, InvFacts DEF Inside
<1>5. \A u \in ToSet(waiters') : pc'[u] \in {"queued", "down", "asleep"}
  BY <1>1, <1>2, InvFacts
<1>6. \A u \in Threads : /\ pc'[u] = "queued" => u \in ToSet(waiters')
                         /\ pc'[u] = "sorted" => waiters' # <<>>
  BY <1>1, <1>2, InvFacts
<1>7. QED
  BY <1>2, <1>3, <1>4, <1>5, <1>6 DEF Inv

\* What a signal does: the popped thread u had slept or was about to.
LEMMA CondPopUpFacts ==
    ASSUME TypeOK, Inv, NEW t \in Threads, CondPopUp(t)
    PROVE  \E u \in ToSet(waiters), to \in {"in", "loop"} :
              /\ u # t /\ pc[u] \in {"down", "asleep"} /\ value[u] = 0
              /\ holder = t /\ holder' = t
              /\ ToSet(waiters') = ToSet(waiters) \ {u} /\ NoDuplicates(waiters')
              /\ \A v \in Threads :
                    /\ pc'[v] = IF v = t THEN to ELSE IF v = u THEN "down" ELSE pc[v]
                    /\ value'[v] = IF v = u THEN 1 ELSE value[v]
<1> DEFINE u == Head(waiters)
<1>1. pc[t] = "sorted" /\ waiters # <<>> /\ holder = t /\ holder' = t
  BY InvFacts DEF CondPopUp, Inside
<1>2. /\ u \in ToSet(waiters)
      /\ ToSet(waiters') = ToSet(waiters) \ {u} /\ NoDuplicates(waiters')
  BY <1>1, PopFrontElements DEF CondPopUp, TypeOK, Inv
<1>3. u \in Threads /\ u # t /\ pc[u] \in {"down", "asleep"} /\ value[u] = 0
  BY <1>1, <1>2, InvFacts DEF Inside
<1>4. PICK to \in {"in", "loop"} :
        \A v \in Threads :
            pc'[v] = IF v = t THEN to ELSE IF v = u THEN "down" ELSE pc[v]
  <2>1. PlaceAfterSignal(t) \in {"in", "loop"} /\ PlaceAfterUp(u) = "down"
    BY <1>3 DEF PlaceAfterSignal, PlaceAfterUp
  <2>2. pc' = [pc EXCEPT ![u] = PlaceAfterUp(u), ![t] = PlaceAfterSignal(t)]
    BY DEF CondPopUp
  <2>3. QED
    BY <1>3, <2>1, <2>2 DEF TypeOK
<1>5. \A v \in Threads : value'[v] = IF v = u THEN 1 ELSE value[v]
  BY <1>3 DEF CondPopUp, SemaUp, TypeOK
<1>6. QED
  BY <1>1, <1>2, <1>3, <1>4, <1>5

LEMMA CondPopUpInv ==
    ASSUME TypeOK, Inv, NEW t \in Threads, CondPopUp(t)
    PROVE  Inv'
<1>1. PICK u \in ToSet(waiters), to \in {"in", "loop"} :
              /\ u # t /\ pc[u] \in {"down", "asleep"} /\ value[u] = 0
              /\ holder = t /\ holder' = t
              /\ ToSet(waiters') = ToSet(waiters) \ {u} /\ NoDuplicates(waiters')
              /\ \A v \in Threads :
                    /\ pc'[v] = IF v = t THEN to ELSE IF v = u THEN "down" ELSE pc[v]
                    /\ value'[v] = IF v = u THEN 1 ELSE value[v]
  BY CondPopUpFacts
<1>2. SignalPending'
  BY <1>1, InvFacts DEF SignalPending
<1>3. \A v \in Threads : (holder' = v) <=> pc'[v] \in {"in", "queued", "sorted", "loop"}
  BY <1>1, InvFacts DEF Inside
<1>4. \A v \in ToSet(waiters') : pc'[v] \in {"queued", "down", "asleep"}
  <2>1. t \notin ToSet(waiters)
    BY InvFacts DEF CondPopUp
  <2>2. QED
    BY <1>1, <2>1, InvFacts
<1>5. \A v \in Threads : /\ pc'[v] = "queued" => v \in ToSet(waiters')
                         /\ pc'[v] # "sorted"
  <2>1. \A v \in Threads : pc[v] = "sorted" => v = t
    BY <1>1, InvFacts DEF Inside
  <2>2. QED
    BY <1>1, <2>1, InvFacts
<1>6. QED
  BY <1>1, <1>2, <1>3, <1>4, <1>5 DEF Inv

LEMMA NextInv == TypeOK /\ Inv /\ [Next]_vars => Inv'
<1> SUFFICES ASSUME TypeOK, Inv, [Next]_vars PROVE Inv'
  OBVIOUS
<1>1. CASE UNCHANGED vars \/ \E t \in Threads : PriorityChanges(t)
  <2>1. UNCHANGED <<holder, waiters, value, pc>>
    BY <1>1 DEF vars, PriorityChanges
  <2>2. QED
    BY <2>1 DEF Inv, SignalPending
<1>2. ASSUME NEW t \in Threads, CallLockAcquire(t) PROVE Inv'
  BY <1>2, MoveKeepsInv, InvFacts DEF CallLockAcquire, Goto, Inside
<1>3. ASSUME NEW t \in Threads, LockAcquire(t) PROVE Inv'
  BY <1>3, MoveKeepsInv DEF LockAcquire, Goto, Inside, Requesters
<1>4. ASSUME NEW t \in Threads, CallLockRelease(t) PROVE Inv'
  BY <1>4, MoveKeepsInv, InvFacts DEF CallLockRelease, Goto, Inside
<1>5. ASSUME NEW t \in Threads, CondWaitReleases(t) PROVE Inv'
  BY <1>5, MoveKeepsInv, InvFacts DEF CondWaitReleases, Goto, Inside
<1>6. ASSUME NEW t \in Threads, CallCondSignal(t) PROVE Inv'
  BY <1>6, SortKeepsInv DEF CallCondSignal
<1>7. ASSUME NEW t \in Threads, CallCondBroadcast(t) PROVE Inv'
  BY <1>7, MoveKeepsInv, InvFacts DEF CallCondBroadcast, Goto, Inside
<1>8. ASSUME NEW t \in Threads, CondBroadcastLoops(t) PROVE Inv'
  <2>1. CASE waiters = <<>>
    BY <1>8, <2>1, MoveKeepsInv, InvFacts DEF CondBroadcastLoops, Goto, Inside
  <2>2. CASE waiters # <<>>
    BY <1>8, <2>2, SortKeepsInv DEF CondBroadcastLoops
  <2>3. QED
    BY <2>1, <2>2
<1>9. QED
  BY <1>1, <1>2, <1>3, <1>4, <1>5, <1>6, <1>7, <1>8,
     CallCondWaitInv, CondWaitDownsInv, CondPopUpInv DEF Next, Step

LEMMA InvInvariant == Spec => [](TypeOK /\ Inv)
<1>1. QED
  BY InitInv, NextTypeOK, NextInv, PTL DEF Spec

\* synch.c:334-416: the places of threads, the list, the lock and the semaphores
\* keep their ranges.
THEOREM TypeCorrect == Spec => []TypeOK
<1>1. QED
  BY InvInvariant, PTL

\* A signal to a thread of cond_wait is kept until its sema_down, and a thread
\* without one waits: SignalPending, for any number of threads.
THEOREM NoSignalLost == Spec => []SignalPending
<1>1. Inv => SignalPending
  BY DEF Inv
<1>2. QED
  BY <1>1, InvInvariant, PTL

-----------------------------------------------------------------------------
(* The refinement.                                                         *)

\* A thread is where the monitor thinks it is, by its place and the list.
LEMMA MappingFacts ==
    ASSUME TypeOK, Inv
    PROVE  /\ \A u : u \in Waiting <=> u \in ToSet(waiters) /\ pc[u] # "queued"
           /\ \A u : u \in Signalled <=>
                 /\ u \in Threads /\ u \notin ToSet(waiters)
                 /\ pc[u] \in {"down", "asleep", "reacquire"}
BY DEF Waiting, Signalled

\* A step that leaves the list alone and moves one thread between places that
\* the mapping does not tell apart.
LEMMA SameMapping ==
    ASSUME TypeOK, Inv, NEW t \in Threads, NEW to \in PCs,
           \A u \in Threads : pc'[u] = IF u = t THEN to ELSE pc[u],
           ToSet(waiters') = ToSet(waiters),
           \/ pc[t] \notin {"down", "asleep", "reacquire", "queued"}
                 /\ to \notin {"down", "asleep", "reacquire", "queued"}
           \/ pc[t] = "down" /\ to \in {"asleep", "reacquire"}
    PROVE  Waiting' = Waiting /\ Signalled' = Signalled
<1>1. \A u \in ToSet(waiters) : u \in Threads
  BY InvFacts
<1>2. Waiting' = Waiting
  BY <1>1 DEF Waiting
<1>3. Signalled' = Signalled
  BY DEF Signalled
<1>4. QED
  BY <1>2, <1>3

LEMMA LockAcquireAbstract ==
    ASSUME TypeOK, Inv, NEW t \in Threads, LockAcquire(t)
    PROVE  Abstract!Next
<1>1. /\ pc[t] \in {"acquire", "reacquire"} /\ t \notin ToSet(waiters)
      /\ holder = NULL /\ holder' = t /\ waiters' = waiters
      /\ \A u \in Threads : pc'[u] = IF u = t THEN "in" ELSE pc[u]
  BY InvFacts DEF LockAcquire, Requesters, Goto, TypeOK
<1>2. \A u \in ToSet(waiters) : u \in Threads
  BY InvFacts
<1>3. Waiting' = Waiting
  BY <1>1, <1>2 DEF Waiting
<1>4. CASE pc[t] = "acquire"
  <2>1. Signalled' = Signalled
    BY <1>1, <1>4 DEF Signalled
  <2>2. t \notin Waiting \cup Signalled
    BY <1>1, <1>4, MappingFacts
  <2>3. Abstract!Acquire(t)
    BY <1>1, <1>3, <2>1, <2>2 DEF Abstract!Acquire
  <2>4. QED
    BY <2>3 DEF Abstract!Next
<1>5. CASE pc[t] = "reacquire"
  <2>1. t \in Signalled /\ Signalled' = Signalled \ {t}
    BY <1>1, <1>5 DEF Signalled
  <2>2. Abstract!Reacquire(t)
    BY <1>1, <1>3, <2>1 DEF Abstract!Reacquire
  <2>3. QED
    BY <2>2 DEF Abstract!Next
<1>6. QED
  BY <1>1, <1>4, <1>5

LEMMA CondWaitReleasesAbstract ==
    ASSUME TypeOK, Inv, NEW t \in Threads, CondWaitReleases(t)
    PROVE  Abstract!Next
<1>1. /\ pc[t] = "queued" /\ t \in ToSet(waiters)
      /\ holder = t /\ holder' = NULL /\ waiters' = waiters
      /\ \A u \in Threads : pc'[u] = IF u = t THEN "down" ELSE pc[u]
  BY InvFacts DEF CondWaitReleases, Goto, TypeOK, Inside
<1>2. \A u \in ToSet(waiters) : u \in Threads
  BY InvFacts
<1>3. Waiting' = Waiting \cup {t}
  BY <1>1, <1>2 DEF Waiting
<1>4. Signalled' = Signalled
  BY <1>1 DEF Signalled
<1>5. Abstract!Wait(t)
  BY <1>1, <1>3, <1>4 DEF Abstract!Wait
<1>6. QED
  BY <1>5 DEF Abstract!Next

LEMMA CondPopUpAbstract ==
    ASSUME TypeOK, Inv, NEW t \in Threads, CondPopUp(t)
    PROVE  Abstract!Next
<1>1. PICK u \in ToSet(waiters), to \in {"in", "loop"} :
              /\ u # t /\ pc[u] \in {"down", "asleep"} /\ value[u] = 0
              /\ holder = t /\ holder' = t
              /\ ToSet(waiters') = ToSet(waiters) \ {u} /\ NoDuplicates(waiters')
              /\ \A v \in Threads :
                    /\ pc'[v] = IF v = t THEN to ELSE IF v = u THEN "down" ELSE pc[v]
                    /\ value'[v] = IF v = u THEN 1 ELSE value[v]
  BY CondPopUpFacts
<1>2. /\ \A v \in ToSet(waiters) : v \in Threads
      /\ t \notin ToSet(waiters) /\ pc[t] = "sorted"
  BY InvFacts DEF CondPopUp
<1>3. u \in Waiting /\ Waiting' = Waiting \ {u}
  BY <1>1, <1>2 DEF Waiting
<1>4. Signalled' = Signalled \cup {u}
  BY <1>1, <1>2 DEF Signalled
<1>5. Abstract!Signal(t, u) /\ u \in Threads
  BY <1>1, <1>2, <1>3, <1>4 DEF Abstract!Signal
<1>6. QED
  BY <1>5 DEF Abstract!Next

LEMMA NextAbstract ==
    TypeOK /\ Inv /\ [Next]_vars => [Abstract!Next]_<<holder, Waiting, Signalled>>
<1> DEFINE Stutter == UNCHANGED <<holder, Waiting, Signalled>>
<1> SUFFICES ASSUME TypeOK, Inv, [Next]_vars PROVE Abstract!Next \/ Stutter
  OBVIOUS
<1>1. CASE UNCHANGED vars \/ \E t \in Threads : PriorityChanges(t)
  <2>1. UNCHANGED <<holder, waiters, value, pc>>
    BY <1>1 DEF vars, PriorityChanges
  <2>2. QED
    BY <2>1 DEF Waiting, Signalled
<1>2. ASSUME NEW t \in Threads, CallLockAcquire(t) PROVE Stutter
  BY <1>2, SameMapping DEF CallLockAcquire, Goto, TypeOK, PCs
<1>3. ASSUME NEW t \in Threads, CallLockRelease(t) PROVE Abstract!Next
  <2>1. Waiting' = Waiting /\ Signalled' = Signalled
    BY <1>3, SameMapping DEF CallLockRelease, Goto, TypeOK, PCs
  <2>2. holder = t /\ holder' = NULL
    BY <1>3, InvFacts DEF CallLockRelease, Inside
  <2>3. Abstract!Release(t)
    BY <2>1, <2>2 DEF Abstract!Release
  <2>4. QED
    BY <2>3 DEF Abstract!Next
<1>4. ASSUME NEW t \in Threads, CallCondWait(t) PROVE Stutter
  <2>1. /\ pc[t] = "in" /\ holder' = holder /\ t \notin ToSet(waiters)
        /\ \A u \in Threads : pc'[u] = IF u = t THEN "queued" ELSE pc[u]
        /\ \A u \in ToSet(waiters) : u \in Threads
    BY <1>4, InvFacts DEF CallCondWait, Goto, TypeOK
  <2>2. ToSet(waiters') = ToSet(waiters) \cup {t}
    BY <1>4, PushBackElements DEF CallCondWait, TypeOK
  <2>3. Waiting' = Waiting
    BY <2>1, <2>2 DEF Waiting
  <2>4. Signalled' = Signalled
    BY <2>1, <2>2 DEF Signalled
  <2>5. QED
    BY <2>1, <2>3, <2>4
<1>5. ASSUME NEW t \in Threads, CondWaitDowns(t) PROVE Stutter
  <2>1. PICK to \in {"asleep", "reacquire"} :
           \A u \in Threads : pc'[u] = IF u = t THEN to ELSE pc[u]
    BY <1>5 DEF CondWaitDowns, Goto, TypeOK
  <2>2. QED
    BY <1>5, <2>1, SameMapping DEF CondWaitDowns, PCs
<1>6. ASSUME NEW t \in Threads, pc[t] \in {"in", "loop"}, CondSort(t), holder' = holder
      PROVE  Stutter
  <2>1. ToSet(waiters') = ToSet(waiters)
    BY <1>6, CondSortElements
  <2>2. \A u \in Threads : pc'[u] = IF u = t THEN "sorted" ELSE pc[u]
    BY <1>6 DEF CondSort, Goto, TypeOK
  <2>3. QED
    BY <1>6, <2>1, <2>2, SameMapping DEF PCs
<1>7. ASSUME NEW t \in Threads, CallCondSignal(t) PROVE Stutter
  BY <1>6, <1>7 DEF CallCondSignal
<1>8. ASSUME NEW t \in Threads, CallCondBroadcast(t) PROVE Stutter
  BY <1>8, SameMapping DEF CallCondBroadcast, Goto, TypeOK, PCs
<1>9. ASSUME NEW t \in Threads, CondBroadcastLoops(t) PROVE Stutter
  <2>1. CASE waiters = <<>>
    BY <1>9, <2>1, SameMapping DEF CondBroadcastLoops, Goto, TypeOK, PCs
  <2>2. CASE waiters # <<>>
    BY <1>6, <1>9, <2>2 DEF CondBroadcastLoops
  <2>3. QED
    BY <2>1, <2>2
<1>10. QED
  BY <1>1, <1>2, <1>3, <1>4, <1>5, <1>7, <1>8, <1>9, LockAcquireAbstract,
     CondWaitReleasesAbstract, CondPopUpAbstract DEF Next, Step

LEMMA InitAbstract == Init => Abstract!Init
<1>1. ASSUME Init PROVE Waiting = {} /\ Signalled = {}
  BY <1>1 DEF Init, Waiting, Signalled, ToSet
<1>2. QED
  BY <1>1 DEF Init, Abstract!Init

\* cond_wait, cond_signal and cond_broadcast implement a Mesa monitor.
THEOREM MonitorImplemented == Spec => ImplementsMonitor
<1>1. QED
  BY InvInvariant, InitAbstract, NextAbstract, PTL
     DEF Spec, ImplementsMonitor, Abstract!Spec, Abstract!vars

-----------------------------------------------------------------------------
(* The order of the list.                                                  *)

\* A thread comes to pop the list only right after it sorted it.
LEMMA SortedByCall ==
    ASSUME TypeOK, Inv, Next, NEW t \in Threads, pc[t] # "sorted", pc'[t] = "sorted"
    PROVE  CondSort(t)
<1>1. PICK u \in Threads :
         \/ CallLockAcquire(u) \/ LockAcquire(u) \/ CallLockRelease(u) \/ CallCondWait(u)
         \/ CallCondSignal(u) \/ CallCondBroadcast(u) \/ PriorityChanges(u) \/ Step(u)
  BY DEF Next
<1>2. CASE CallLockAcquire(u) \/ LockAcquire(u) \/ CallLockRelease(u) \/ CallCondWait(u)
  BY <1>2 DEF CallLockAcquire, LockAcquire, CallLockRelease, CallCondWait, Goto, TypeOK
<1>3. CASE CallCondBroadcast(u) \/ PriorityChanges(u) \/ CondWaitReleases(u) \/ CondWaitDowns(u)
  BY <1>3 DEF CallCondBroadcast, PriorityChanges, CondWaitReleases, CondWaitDowns, Goto, TypeOK
<1>4. CASE CondPopUp(u)
  <2>1. PICK v \in ToSet(waiters), to \in {"in", "loop"} :
           \A w \in Threads : pc'[w] = IF w = u THEN to ELSE IF w = v THEN "down" ELSE pc[w]
    BY <1>4, CondPopUpFacts
  <2> QED BY <2>1
<1>5. ASSUME CondSort(u) PROVE CondSort(t)
  <2>1. pc' = [pc EXCEPT ![u] = "sorted"]
    BY <1>5 DEF CondSort, Goto
  <2>2. t = u
    BY <2>1 DEF TypeOK
  <2> QED BY <1>5, <2>2
<1>6. CASE CallCondSignal(u)
  BY <1>5, <1>6 DEF CallCondSignal
<1>7. CASE CondBroadcastLoops(u)
  <2>1. waiters = <<>> => pc' = [pc EXCEPT ![u] = "in"]
    BY <1>7 DEF CondBroadcastLoops, Goto
  <2>2. waiters # <<>>
    BY <2>1 DEF TypeOK
  <2> QED BY <1>5, <1>7, <2>2 DEF CondBroadcastLoops
<1> QED BY <1>1, <1>2, <1>3, <1>4, <1>6, <1>7 DEF Step

\* cond_signal and cond_broadcast sort a waiter of highest present priority to
\* the front if all of them sleep by then, for any number of waiters and
\* whatever became of the priorities (synch.c:393-395, 426-441).
THEOREM SleepersSorted == Spec => SleepersByPriority
<1> DEFINE Sorting ==
        \A t \in Threads :
          /\ pc[t] # "sorted" /\ pc'[t] = "sorted"
          /\ \A u \in ToSet(waiters) : pc[u] = "asleep"
          => \A u \in ToSet(waiters) : priority[Head(waiters')] >= priority[u]
<1>1. ASSUME TypeOK, Inv, Next PROVE Sorting
  <2> SUFFICES ASSUME NEW t \in Threads, pc[t] # "sorted", pc'[t] = "sorted",
                      \A u \in ToSet(waiters) : pc[u] = "asleep",
                      NEW u \in ToSet(waiters)
               PROVE  priority[Head(waiters')] >= priority[u]
    OBVIOUS
  <2>1. CondSort(t)
    BY <1>1, SortedByCall
  <2>2. PICK key \in SortKeys : waiters' = list_sort(waiters, key)
    BY <2>1 DEF CondSort
  <2>3. key \in [Threads -> Priorities \cup StackWords]
        /\ \A v \in Threads : pc[v] = "asleep" => key[v] = priority[v]
    BY <2>2 DEF SortKeys
  <2>4. \A v \in Threads : key[v] \in Int
    BY <2>3, CondVarAssumption
  <2>5. waiters \in Seq(Threads)
    BY <1>1 DEF TypeOK
  <2>6. /\ waiters' \in Seq(Threads) /\ ToSet(waiters') = ToSet(waiters)
        /\ IsSortedBy(waiters', key)
    BY <2>2, <2>4, <2>5, ListSortElements
  <2>7. waiters' # <<>>
    BY <1>1, <2>1, CondSortElements
  <2>8. /\ Head(waiters') \in ToSet(waiters')
        /\ \A v \in ToSet(waiters') : key[Head(waiters')] >= key[v]
    BY <2>4, <2>6, <2>7, PopFrontElements, PopFrontSorted
  <2>9. \A v \in ToSet(waiters) : key[v] = priority[v]
    BY <1>1, <2>3, InvFacts
  <2> QED BY <2>6, <2>8, <2>9
<1>2. TypeOK /\ Inv /\ [Next]_vars => [Sorting]_vars
  BY <1>1
<1> QED BY <1>2, InvInvariant, PTL DEF Spec, SleepersByPriority
=============================================================================
