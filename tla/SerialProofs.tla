---------------------------- MODULE SerialProofs ----------------------------
(***************************************************************************)
(* The interrupts of the UART match the queues, and both queues implement  *)
(* Fifo, for any threads, bytes and size of the buffers.                   *)
(***************************************************************************)
EXTENDS Serial, SequenceTheorems, TLAPS

IntqType == [buf : [Slots -> Bytes \cup {NULL}], head : Slots, tail : Slots,
             lock : Threads \cup {NULL}, waiter : Threads \cup {NULL}]

-----------------------------------------------------------------------------
(* The ring, without %: the position after one, the number of bytes from   *)
(* tail to head, and the position of the k-th.                             *)

After(pos)       == IF pos + 1 < INTQ_BUFSIZE THEN pos + 1 ELSE 0
Size(head, tail) == IF tail <= head THEN head - tail ELSE head - tail + INTQ_BUFSIZE
Place(tail, k)   == IF tail + k - 1 < INTQ_BUFSIZE THEN tail + k - 1
                    ELSE tail + k - 1 - INTQ_BUFSIZE

\* What next and the remainders of the ring are.
LEMMA RingModulo ==
    /\ \A pos \in Slots : next(pos) = After(pos) /\ After(pos) \in Slots
    /\ \A head, tail \in Slots : (head - tail) % INTQ_BUFSIZE = Size(head, tail)
    /\ \A tail \in Slots, k \in 1..INTQ_BUFSIZE - 1 :
          (tail + k - 1) % INTQ_BUFSIZE = Place(tail, k)
<1>0. INTQ_BUFSIZE \in Nat /\ INTQ_BUFSIZE > 1
  BY SerialAssumption
<1>1. \A pos \in Slots : next(pos) = After(pos) /\ After(pos) \in Slots
  BY <1>0 DEF next, Slots, After
<1>2. \A head, tail \in Slots : (head - tail) % INTQ_BUFSIZE = Size(head, tail)
  BY <1>0 DEF Slots, Size
<1>3. \A n \in Nat : n < 2 * INTQ_BUFSIZE =>
         n % INTQ_BUFSIZE = IF n < INTQ_BUFSIZE THEN n ELSE n - INTQ_BUFSIZE
  BY <1>0
<1>4. \A tail \in Slots, k \in 1..INTQ_BUFSIZE - 1 :
         tail + k - 1 \in Nat /\ tail + k - 1 < 2 * INTQ_BUFSIZE
  BY <1>0 DEF Slots
<1>5. ASSUME NEW tail \in Slots, NEW k \in 1..INTQ_BUFSIZE - 1
      PROVE  (tail + k - 1) % INTQ_BUFSIZE = Place(tail, k)
  <2> DEFINE n == tail + k - 1
  <2>1. n \in Nat /\ n < 2 * INTQ_BUFSIZE
    BY <1>4
  <2>2. Place(tail, k) = IF n < INTQ_BUFSIZE THEN n ELSE n - INTQ_BUFSIZE
    BY <1>0, <2>1 DEF Place, Slots
  <2> HIDE DEF n
  <2>3. n % INTQ_BUFSIZE = Place(tail, k)
    BY <1>3, <2>1, <2>2
  <2> QED BY <2>3 DEF n
<1> QED BY <1>1, <1>2, <1>5

\* A byte put in at the head is the last, and the one at the tail the first.
LEMMA RingPlaces ==
    ASSUME NEW head \in Slots, NEW tail \in Slots
    PROVE  /\ Size(head, tail) \in 0..INTQ_BUFSIZE - 1
           /\ Size(head, tail) = 0 <=> head = tail
           /\ Size(head, tail) < INTQ_BUFSIZE - 1 <=> After(head) # tail
           /\ \A k \in 1..Size(head, tail) : /\ k \in 1..INTQ_BUFSIZE - 1
                                             /\ Place(tail, k) \in Slots \ {head}
           /\ Place(tail, Size(head, tail) + 1) = head
           /\ After(head) # tail => Size(After(head), tail) = Size(head, tail) + 1
           /\ head # tail =>
                 /\ Size(head, tail) = Size(head, After(tail)) + 1
                 /\ \A k \in 1..Size(head, After(tail)) :
                       Place(After(tail), k) = Place(tail, k + 1) /\ Place(tail, k + 1) # tail
<1> DEFINE n == INTQ_BUFSIZE
<1>0. n \in Nat /\ n > 1 /\ head \in 0..n - 1 /\ tail \in 0..n - 1
  BY SerialAssumption DEF Slots
<1>1. /\ Size(head, tail) \in 0..n - 1
      /\ Size(head, tail) = 0 <=> head = tail
      /\ Size(head, tail) < n - 1 <=> After(head) # tail
  BY <1>0 DEF Size, After
<1>2. ASSUME NEW k \in 1..Size(head, tail)
      PROVE  k \in 1..n - 1 /\ Place(tail, k) \in Slots \ {head}
  BY <1>0 DEF Size, Place, Slots
<1>3. Place(tail, Size(head, tail) + 1) = head
  BY <1>0 DEF Size, Place
<1>4. ASSUME After(head) # tail PROVE Size(After(head), tail) = Size(head, tail) + 1
  BY <1>0, <1>4 DEF Size, After
<1>5. ASSUME head # tail PROVE Size(head, tail) = Size(head, After(tail)) + 1
  BY <1>0, <1>5 DEF Size, After
<1>6. ASSUME head # tail, NEW k \in 1..Size(head, After(tail))
      PROVE  Place(After(tail), k) = Place(tail, k + 1) /\ Place(tail, k + 1) # tail
  BY <1>0, <1>6 DEF Size, After, Place
<1> QED BY <1>1, <1>2, <1>3, <1>4, <1>5, <1>6

\* The content of a queue as a sequence.
LEMMA ContentsSeq ==
    ASSUME NEW q \in IntqType
    PROVE  /\ Contents(q) \in Seq(Bytes \cup {NULL})
           /\ Len(Contents(q)) = Size(q.head, q.tail)
           /\ \A k \in 1..Size(q.head, q.tail) : Contents(q)[k] = q.buf[Place(q.tail, k)]
           /\ Contents(q) = <<>> <=> intq_empty(q)
           /\ Len(Contents(q)) < INTQ_BUFSIZE - 1 <=> ~intq_full(q)
<1> DEFINE size == Size(q.head, q.tail)
<1>0. /\ q.head \in Slots /\ q.tail \in Slots /\ q.buf \in [Slots -> Bytes \cup {NULL}]
      /\ INTQ_BUFSIZE \in Nat
  BY SerialAssumption DEF IntqType
<1>1. size \in 0..INTQ_BUFSIZE - 1 /\ size \in Nat
  BY <1>0, RingPlaces
<1>2. (q.head - q.tail) % INTQ_BUFSIZE = size
  BY <1>0, RingModulo
<1>3. \A k \in 1..size : /\ (q.tail + k - 1) % INTQ_BUFSIZE = Place(q.tail, k)
                         /\ Place(q.tail, k) \in Slots
  BY <1>0, RingModulo, RingPlaces
<1> HIDE DEF size
<1>4. Contents(q) = [k \in 1..size |-> q.buf[(q.tail + k - 1) % INTQ_BUFSIZE]]
  BY <1>2 DEF Contents
<1>5. \A k \in 1..size : Contents(q)[k] = q.buf[Place(q.tail, k)]
  BY <1>3, <1>4
<1>6. Contents(q) \in Seq(Bytes \cup {NULL}) /\ Len(Contents(q)) = size
  <2>1. \A k \in 1..size : q.buf[(q.tail + k - 1) % INTQ_BUFSIZE] \in Bytes \cup {NULL}
    BY <1>0, <1>3
  <2>2. Contents(q) \in [1..size -> Bytes \cup {NULL}]
    BY <1>4, <2>1
  <2> QED BY <1>1, <2>2
<1>7. Contents(q) = <<>> <=> size = 0
  BY <1>1, <1>6, EmptySeq
<1>8. /\ size = 0 <=> intq_empty(q)
      /\ size < INTQ_BUFSIZE - 1 <=> ~intq_full(q)
  BY <1>0, RingPlaces, RingModulo DEF size, intq_empty, intq_full
<1> QED BY <1>5, <1>6, <1>7, <1>8 DEF size

\* intq_putc appends.
LEMMA PutAppends ==
    ASSUME NEW q \in IntqType, NEW b \in Bytes, ~intq_full(q)
    PROVE  /\ Put(q, b) \in IntqType
           /\ Contents(Put(q, b)) = Append(Contents(q), b)
           /\ ~intq_empty(Put(q, b))
<1> DEFINE r == Put(q, b)
           size == Size(q.head, q.tail)
<1>0. /\ q.head \in Slots /\ q.tail \in Slots /\ q.buf \in [Slots -> Bytes \cup {NULL}]
      /\ next(q.head) = After(q.head) /\ After(q.head) \in Slots
  BY RingModulo DEF IntqType
<1>1. r \in IntqType
  BY <1>0 DEF Put, IntqType
<1>2. /\ r.head = After(q.head) /\ r.tail = q.tail
      /\ r.buf = [q.buf EXCEPT ![q.head] = b]
  BY <1>0 DEF Put, IntqType
<1> HIDE DEF r
<1>3. /\ Size(r.head, r.tail) = size + 1 /\ size \in Nat
      /\ Place(q.tail, size + 1) = q.head
      /\ \A k \in 1..size : Place(q.tail, k) \in Slots \ {q.head}
  BY <1>0, <1>2, RingPlaces DEF intq_full
<1>4. Contents(r) \in Seq(Bytes \cup {NULL}) /\ Len(Contents(r)) = size + 1
  BY <1>1, <1>3, ContentsSeq
<1>5. \A k \in 1..size + 1 : Contents(r)[k] = r.buf[Place(q.tail, k)]
  BY <1>1, <1>2, <1>3, ContentsSeq
<1>6. /\ Contents(q) \in Seq(Bytes \cup {NULL}) /\ Len(Contents(q)) = size
      /\ \A k \in 1..size : Contents(q)[k] = q.buf[Place(q.tail, k)]
  BY ContentsSeq
<1> HIDE DEF size
<1>7. /\ \A k \in 1..size : Contents(r)[k] = Contents(q)[k]
      /\ Contents(r)[size + 1] = b
  BY <1>0, <1>2, <1>3, <1>5, <1>6
<1>8. Contents(r) = Append(Contents(q), b)
  BY <1>3, <1>4, <1>6, <1>7
<1>9. ~intq_empty(r)
  BY <1>1, <1>3, <1>4, ContentsSeq, EmptySeq
<1> QED BY <1>1, <1>8, <1>9 DEF r

\* intq_getc takes the first byte.
LEMMA GetTakesFirst ==
    ASSUME NEW q \in IntqType, ~intq_empty(q)
    PROVE  /\ Get(q) \in IntqType
           /\ Contents(q) # <<>>
           /\ Contents(Get(q)) = Tail(Contents(q))
           /\ ~intq_full(Get(q))
<1> DEFINE r == Get(q)
           size == Size(q.head, After(q.tail))
<1>0. /\ q.head \in Slots /\ q.tail \in Slots /\ q.buf \in [Slots -> Bytes \cup {NULL}]
      /\ next(q.tail) = After(q.tail) /\ After(q.tail) \in Slots
  BY RingModulo DEF IntqType
<1>1. r \in IntqType
  BY <1>0 DEF Get, IntqType
<1>2. /\ r.head = q.head /\ r.tail = After(q.tail)
      /\ r.buf = [q.buf EXCEPT ![q.tail] = NULL]
  BY <1>0 DEF Get, IntqType
<1> HIDE DEF r
<1>3. /\ Size(q.head, q.tail) = size + 1 /\ size \in Nat /\ size + 1 \in 0..INTQ_BUFSIZE - 1
      /\ \A k \in 1..size : /\ Place(r.tail, k) = Place(q.tail, k + 1)
                            /\ Place(r.tail, k) # q.tail /\ Place(r.tail, k) \in Slots
  BY <1>0, <1>2, RingPlaces DEF intq_empty
<1>4. /\ Contents(r) \in Seq(Bytes \cup {NULL}) /\ Len(Contents(r)) = size
      /\ \A k \in 1..size : Contents(r)[k] = r.buf[Place(r.tail, k)]
  BY <1>1, <1>2, ContentsSeq
<1>5. Contents(q) \in Seq(Bytes \cup {NULL}) /\ Len(Contents(q)) = size + 1
  BY <1>3, ContentsSeq
<1>6. \A k \in 1..size + 1 : Contents(q)[k] = q.buf[Place(q.tail, k)]
  BY <1>3, ContentsSeq
<1> HIDE DEF size
<1>7. \A k \in 1..size : Contents(r)[k] = Contents(q)[k + 1]
  BY <1>0, <1>2, <1>3, <1>4, <1>6
<1>8. Contents(r) = Tail(Contents(q)) /\ Contents(q) # <<>>
  BY <1>3, <1>4, <1>5, <1>7
<1>9. ~intq_full(r)
  BY <1>1, <1>3, <1>4, ContentsSeq, SerialAssumption
<1> QED BY <1>1, <1>8, <1>9 DEF r

\* Only buf, head and tail matter for what a queue holds: signal and the lock
\* leave its content alone.
LEMMA ContentsOnly ==
    ASSUME NEW q \in IntqType, NEW r \in IntqType,
           r.buf = q.buf, r.head = q.head, r.tail = q.tail
    PROVE  /\ Contents(r) = Contents(q)
           /\ intq_empty(r) <=> intq_empty(q)
           /\ intq_full(r) <=> intq_full(q)
BY DEF Contents, intq_empty, intq_full

\* A buffer has room for one byte at least.
LEMMA FullNotEmpty ==
    ASSUME NEW q \in IntqType, intq_full(q)
    PROVE  ~intq_empty(q)
<1>1. /\ INTQ_BUFSIZE \in Nat /\ INTQ_BUFSIZE > 1 /\ Len(Contents(q)) \in Nat
      /\ ~(Len(Contents(q)) < INTQ_BUFSIZE - 1)
  BY ContentsSeq, SerialAssumption
<1>2. Contents(q) # <<>>
  BY <1>1
<1> QED BY <1>2, ContentsSeq

-----------------------------------------------------------------------------
(* What one step of any thread or device does to one queue.                *)

Same(q, r)   == r.buf = q.buf /\ r.head = q.head /\ r.tail = q.tail
IsPut(q, r)  == ~intq_full(q) /\ \E b \in Bytes : Same(Put(q, b), r)
IsGet(q, r)  == ~intq_empty(q) /\ Same(Get(q), r)
IsBoth(q, r) == intq_full(q) /\ \E b \in Bytes : Same(Put(Get(q), b), r)

Moves(name, q, r) ==
    \/ Same(q, r) \/ IsPut(q, r) \/ IsGet(q, r) \/ IsBoth(q, r)
    \/ name = "tx" /\ intq_empty(r)

\* Such a step is one of Fifo's, or changes nothing of the content.
LEMMA MovesImplement ==
    ASSUME NEW name, NEW q \in IntqType, NEW r \in IntqType, Moves(name, q, r)
    PROVE  \/ Contents(r) = Contents(q)
           \/ /\ Len(Contents(q)) < INTQ_BUFSIZE - 1
              /\ Contents(r) \in {Append(Contents(q), b) : b \in Bytes}
           \/ Contents(q) # <<>> /\ Contents(r) = Tail(Contents(q))
           \/ /\ Contents(q) # <<>>
              /\ Contents(r) \in {Append(Tail(Contents(q)), b) : b \in Bytes}
           \/ name = "tx" /\ Contents(r) = <<>>
<1>1. CASE Same(q, r)
  BY <1>1, ContentsOnly DEF Same
<1>2. CASE IsPut(q, r)
  <2>1. PICK b \in Bytes : Same(Put(q, b), r) /\ ~intq_full(q)
    BY <1>2 DEF IsPut
  <2>2. Contents(r) = Contents(Put(q, b)) /\ Contents(Put(q, b)) = Append(Contents(q), b)
    BY <2>1, PutAppends, ContentsOnly DEF Same
  <2> QED BY <2>1, <2>2, ContentsSeq
<1>3. CASE IsGet(q, r)
  BY <1>3, GetTakesFirst, ContentsOnly DEF IsGet, Same
<1>4. CASE IsBoth(q, r)
  <2>1. PICK b \in Bytes : Same(Put(Get(q), b), r) /\ intq_full(q)
    BY <1>4 DEF IsBoth
  <2>2. ~intq_empty(q)
    BY <2>1, FullNotEmpty
  <2>3. /\ Get(q) \in IntqType /\ ~intq_full(Get(q))
        /\ Contents(q) # <<>> /\ Contents(Get(q)) = Tail(Contents(q))
    BY <2>2, GetTakesFirst
  <2>4. /\ Contents(r) = Contents(Put(Get(q), b))
        /\ Contents(Put(Get(q), b)) = Append(Contents(Get(q)), b)
    BY <2>1, <2>3, PutAppends, ContentsOnly DEF Same
  <2> QED BY <2>3, <2>4
<1>5. CASE name = "tx" /\ intq_empty(r)
  BY <1>5, ContentsSeq
<1> QED BY <1>1, <1>2, <1>3, <1>4, <1>5 DEF Moves

Places == {"user", "console", "check", "lock", "waiting", "woken"}

\* signal changes no content, and wakes threads only.
LEMMA Signals ==
    /\ \A q \in IntqType : Signal(q) \in IntqType /\ Same(q, Signal(q))
    /\ \A qs \in SUBSET Queues : pc \in [Threads -> Places] => Wakes(qs) \in [Threads -> Places]
BY DEF Signal, IntqType, Same, Wakes, Places

\* A step keeps the types and moves each queue, at most.  The interrupts are
\* chosen anew, or the queues are the same, or the one to transmit is flushed.
LEMMA Steps ==
    ASSUME TypeOK, Next
    PROVE  /\ TypeOK'
           /\ \A q \in Queues : Moves(q, intq[q], intq'[q])
           /\ \/ WriteIer
              \/ /\ ier' = ier /\ Same(intq["rx"], intq'["rx"])
                 /\ Same(intq["tx"], intq'["tx"]) \/ intq_empty(intq'["tx"])
<1> USE SerialAssumption DEF Goto, Places
<1>0. /\ intq \in [Queues -> IntqType] /\ pc \in [Threads -> Places]
      /\ console_lock \in Writers \cup {NULL} /\ ier \subseteq {"xmit", "recv"}
      /\ rbr \in Bytes \cup {NULL} /\ thre \in BOOLEAN /\ panic \in BOOLEAN
      /\ intq["tx"] \in IntqType /\ intq["rx"] \in IntqType
  BY DEF TypeOK, IntqType, Queues
<1>1. \A q \in IntqType : Same(q, q)
  BY DEF Same
<1>2. \A t \in Threads : Queue(t) \in Queues
  BY DEF Queue, Queues
<1>3. IerFor(intq'["tx"], intq'["rx"]) \subseteq {"xmit", "recv"}
  BY DEF IerFor
<1>4. ASSUME intq' \in [Queues -> IntqType], pc' \in [Threads -> Places],
             console_lock' \in Writers \cup {NULL}, WriteIer \/ ier' = ier,
             rbr' \in Bytes \cup {NULL}, thre' \in BOOLEAN, panic' \in BOOLEAN
      PROVE  TypeOK'
  BY <1>0, <1>3, <1>4 DEF TypeOK, IntqType, WriteIer
<1>5. ASSUME UNCHANGED intq PROVE \A q \in Queues : Same(intq[q], intq'[q])
  BY <1>0, <1>1, <1>5
<1>6. CASE \/ \E t \in Writers : AcquiresConsole(t) \/ ReleasesConsole(t)
           \/ \E t \in Readers : Reads(t)
           \/ Arrives \/ Transmitted
  <2>1. UNCHANGED <<intq, ier, panic>>
    BY <1>6 DEF AcquiresConsole, ReleasesConsole, Reads, Arrives, Transmitted
  <2>2. /\ pc' \in [Threads -> Places] /\ console_lock' \in Writers \cup {NULL}
        /\ rbr' \in Bytes \cup {NULL} /\ thre' \in BOOLEAN
    BY <1>0, <1>6 DEF AcquiresConsole, ReleasesConsole, Reads, Arrives, Transmitted
  <2>3. TypeOK'
    BY <1>0, <1>4, <2>1, <2>2
  <2> QED BY <1>5, <2>1, <2>3 DEF Moves, Queues
<1>7. ASSUME NEW t \in Threads, MustWaitFor(t) \/ LockGets(t) \/ LockReleases(t)
      PROVE  /\ TypeOK' /\ ier' = ier
             /\ \A q \in Queues : Same(intq[q], intq'[q])
  <2>1. UNCHANGED <<console_lock, ier, rbr, thre>> /\ pc' \in [Threads -> Places]
        /\ panic' \in BOOLEAN
    BY <1>0, <1>7 DEF MustWaitFor, LockGets, LockReleases, WaitsFor
  <2>2. \/ UNCHANGED intq
        \/ intq' = [intq EXCEPT ![Queue(t)].lock = t, ![Queue(t)].waiter = t]
        \/ intq' = [intq EXCEPT ![Queue(t)].lock = NULL]
    BY <1>7 DEF MustWaitFor, LockGets, LockReleases, WaitsFor
  <2>3. intq' \in [Queues -> IntqType] /\ \A q \in Queues : Same(intq[q], intq'[q])
    <3>1. CASE UNCHANGED intq
      BY <1>0, <1>5, <3>1
    <3> DEFINE q == Queue(t)
               holding == [intq[q] EXCEPT !.lock = t, !.waiter = t]
               free == [intq[q] EXCEPT !.lock = NULL]
    <3>2. /\ q \in Queues /\ holding \in IntqType /\ free \in IntqType
          /\ Same(intq[q], holding) /\ Same(intq[q], free)
      BY <1>0, <1>2 DEF IntqType, Same
    <3>3. \/ UNCHANGED intq
          \/ intq' = [intq EXCEPT ![q] = holding] \/ intq' = [intq EXCEPT ![q] = free]
      BY <1>0, <1>2, <2>2
    <3> HIDE DEF q, holding, free
    <3> QED BY <1>0, <1>1, <3>1, <3>2, <3>3
  <2> QED BY <1>0, <1>4, <2>1, <2>3
<1>8. ASSUME NEW t \in Writers, Puts(t)
      PROVE  WriteIer /\ TypeOK' /\ \A q \in Queues : Moves(q, intq[q], intq'[q])
  <2>1. PICK b \in Bytes : intq' = [intq EXCEPT !["tx"] = Put(@, b)]
    BY <1>8 DEF Puts
  <2>2. ~intq_full(intq["tx"]) /\ Put(intq["tx"], b) \in IntqType
    BY <1>0, <1>8, PutAppends DEF Puts, MustWait
  <2>3. intq' \in [Queues -> IntqType] /\ intq'["rx"] = intq["rx"]
        /\ intq'["tx"] = Put(intq["tx"], b)
    BY <1>0, <2>1, <2>2 DEF Queues
  <2>4. IsPut(intq["tx"], intq'["tx"]) /\ Same(intq["rx"], intq'["rx"])
    BY <1>0, <2>2, <2>3 DEF IsPut, Same
  <2>5. UNCHANGED <<console_lock, rbr, thre, panic>> /\ WriteIer /\ pc' \in [Threads -> Places]
    BY <1>0, <1>8 DEF Puts
  <2> QED BY <1>0, <1>4, <2>3, <2>4, <2>5 DEF Moves, Queues
<1>9. ASSUME NEW t \in Readers, Gets(t)
      PROVE  WriteIer /\ TypeOK' /\ \A q \in Queues : Moves(q, intq[q], intq'[q])
  <2>1. ~intq_empty(intq["rx"]) /\ Get(intq["rx"]) \in IntqType
    BY <1>0, <1>9, GetTakesFirst DEF Gets, MustWait
  <2>2. /\ intq' \in [Queues -> IntqType] /\ intq'["tx"] = intq["tx"]
        /\ intq'["rx"] = Get(intq["rx"])
    BY <1>0, <1>9, <2>1 DEF Queues, Gets
  <2>3. IsGet(intq["rx"], intq'["rx"]) /\ Same(intq["tx"], intq'["tx"])
    BY <1>0, <2>1, <2>2 DEF IsGet, Same
  <2>4. UNCHANGED <<console_lock, rbr, thre, panic>> /\ WriteIer /\ pc' \in [Threads -> Places]
    BY <1>0, <1>9 DEF Gets
  <2> QED BY <1>0, <1>4, <2>2, <2>3, <2>4 DEF Moves, Queues
<1>10. CASE PrintsUninterrupted
  <2>0. UNCHANGED <<console_lock, rbr, panic>> /\ WriteIer
    BY <1>10 DEF PrintsUninterrupted
  <2>1. CASE intq_full(intq["tx"])
    <3>1. PICK b \in Bytes : /\ intq' = [intq EXCEPT !["tx"] = Put(Signal(Get(@)), b)]
                             /\ pc' = Wakes({"tx"}) /\ thre' = FALSE
      BY <1>10, <2>1 DEF PrintsUninterrupted
    <3>2. ~intq_empty(intq["tx"])
      BY <1>0, <2>1, FullNotEmpty
    <3> DEFINE g == Get(intq["tx"])
    <3>3. g \in IntqType /\ ~intq_full(g)
      BY <1>0, <3>2, GetTakesFirst
    <3> HIDE DEF g
    <3>4. Signal(g) \in IntqType /\ Same(g, Signal(g)) /\ ~intq_full(Signal(g))
      BY <3>3, Signals, ContentsOnly DEF Same
    <3>5. Put(Signal(g), b) \in IntqType /\ Same(Put(g, b), Put(Signal(g), b))
      BY <3>3, <3>4, PutAppends DEF Same, Put, IntqType
    <3>6. /\ intq' \in [Queues -> IntqType] /\ intq'["rx"] = intq["rx"]
          /\ intq'["tx"] = Put(Signal(g), b)
      BY <1>0, <3>1, <3>5 DEF Queues, g
    <3>7. IsBoth(intq["tx"], intq'["tx"]) /\ Same(intq["rx"], intq'["rx"])
      BY <1>0, <1>1, <2>1, <3>5, <3>6 DEF IsBoth, g
    <3>8. pc' \in [Threads -> Places]
      BY <1>0, <3>1, Signals DEF Queues
    <3> QED BY <1>0, <1>4, <2>0, <3>1, <3>6, <3>7, <3>8 DEF Moves, Queues
  <2>2. CASE ~intq_full(intq["tx"])
    <3>1. PICK b \in Bytes : /\ intq' = [intq EXCEPT !["tx"] = Put(@, b)]
                             /\ UNCHANGED <<thre, pc>>
      BY <1>10, <2>2 DEF PrintsUninterrupted
    <3>2. Put(intq["tx"], b) \in IntqType
      BY <1>0, <2>2, PutAppends
    <3>3. /\ intq' \in [Queues -> IntqType] /\ intq'["rx"] = intq["rx"]
          /\ intq'["tx"] = Put(intq["tx"], b)
      BY <1>0, <3>1, <3>2 DEF Queues
    <3>4. IsPut(intq["tx"], intq'["tx"]) /\ Same(intq["rx"], intq'["rx"])
      BY <1>0, <1>1, <2>2, <3>2, <3>3 DEF IsPut
    <3> QED BY <1>0, <1>4, <2>0, <3>1, <3>3, <3>4 DEF Moves, Queues
  <2> QED BY <2>0, <2>1, <2>2
<1>11. CASE Flushes
  <2> DEFINE r == [Signal(intq["tx"]) EXCEPT !.buf = [s \in Slots |-> NULL],
                                             !.tail = intq["tx"].head]
  <2>1. r \in IntqType /\ intq_empty(r)
    BY <1>0 DEF IntqType, Signal, intq_empty
  <2>2. intq' = [intq EXCEPT !["tx"] = r]
    BY <1>11 DEF Flushes
  <2> HIDE DEF r
  <2>3. /\ intq' \in [Queues -> IntqType] /\ intq'["rx"] = intq["rx"]
        /\ intq_empty(intq'["tx"])
    BY <1>0, <2>1, <2>2 DEF Queues
  <2>4. UNCHANGED <<console_lock, ier, rbr, thre, panic>> /\ pc' \in [Threads -> Places]
    BY <1>0, <1>11, Signals DEF Flushes, Queues
  <2> QED BY <1>0, <1>1, <1>4, <2>3, <2>4 DEF Moves, Queues
<1>12. CASE SerialInterrupt
  <2> DEFINE in  == rbr # NULL /\ ~intq_full(intq["rx"])
             out == thre /\ ~intq_empty(intq["tx"])
             rx  == IF in THEN Put(Signal(intq["rx"]), rbr) ELSE intq["rx"]
             tx  == IF out THEN Signal(Get(intq["tx"])) ELSE intq["tx"]
  <2>1. /\ intq' = [intq EXCEPT !["rx"] = rx, !["tx"] = tx]
        /\ pc' = Wakes((IF in THEN {"rx"} ELSE {}) \cup (IF out THEN {"tx"} ELSE {}))
        /\ rbr' = IF in THEN NULL ELSE rbr
        /\ thre' \in BOOLEAN /\ WriteIer /\ UNCHANGED <<console_lock, panic>>
    BY <1>12 DEF SerialInterrupt
  <2>2. rx \in IntqType /\ (Same(intq["rx"], rx) \/ IsPut(intq["rx"], rx))
    <3>1. CASE in
      <4>1. rbr \in Bytes /\ ~intq_full(intq["rx"]) /\ rx = Put(Signal(intq["rx"]), rbr)
        BY <1>0, <3>1
      <4>2. /\ Signal(intq["rx"]) \in IntqType /\ Same(intq["rx"], Signal(intq["rx"]))
            /\ ~intq_full(Signal(intq["rx"]))
        BY <1>0, <4>1, Signals, ContentsOnly DEF Same
      <4>3. rx \in IntqType
        BY <4>1, <4>2, PutAppends
      <4>4. Same(Put(intq["rx"], rbr), rx)
        BY <1>0, <4>1, <4>2 DEF Same, Put, IntqType
      <4> QED BY <4>1, <4>3, <4>4 DEF IsPut
    <3>2. CASE ~in
      BY <1>0, <1>1, <3>2
    <3> QED BY <3>1, <3>2
  <2>3. tx \in IntqType /\ (Same(intq["tx"], tx) \/ IsGet(intq["tx"], tx))
    <3>1. CASE out
      <4>1. ~intq_empty(intq["tx"]) /\ Get(intq["tx"]) \in IntqType
        BY <1>0, <3>1, GetTakesFirst
      <4> QED BY <3>1, <4>1, Signals DEF IsGet
    <3>2. CASE ~out
      BY <1>0, <1>1, <3>2
    <3> QED BY <3>1, <3>2
  <2>4. pc' \in [Threads -> Places] /\ rbr' \in Bytes \cup {NULL}
    BY <1>0, <2>1, Signals DEF Queues
  <2> HIDE DEF rx, tx
  <2>5. intq' \in [Queues -> IntqType] /\ intq'["rx"] = rx /\ intq'["tx"] = tx
    BY <1>0, <2>1, <2>2, <2>3 DEF Queues
  <2> HIDE DEF in, out
  <2> QED BY <1>0, <1>4, <2>1, <2>2, <2>3, <2>4, <2>5 DEF Moves, Queues
<1>13. CASE KeyPressed
  <2>1. PICK b \in Bytes : intq' = [intq EXCEPT !["rx"] = Put(Signal(@), b)]
    BY <1>13 DEF KeyPressed
  <2>2. /\ ~intq_full(intq["rx"]) /\ WriteIer
        /\ UNCHANGED <<console_lock, rbr, thre, panic>>
    BY <1>13 DEF KeyPressed, WriteIerAfterKey, WriteIer
  <2>3. /\ Signal(intq["rx"]) \in IntqType /\ Same(intq["rx"], Signal(intq["rx"]))
        /\ ~intq_full(Signal(intq["rx"]))
    BY <1>0, <2>2, Signals, ContentsOnly DEF Same
  <2>4. /\ Put(Signal(intq["rx"]), b) \in IntqType
        /\ Same(Put(intq["rx"], b), Put(Signal(intq["rx"]), b))
    BY <1>0, <2>3, PutAppends DEF Same, Put, IntqType
  <2>5. /\ intq' \in [Queues -> IntqType] /\ intq'["tx"] = intq["tx"]
        /\ intq'["rx"] = Put(Signal(intq["rx"]), b)
    BY <1>0, <2>1, <2>4 DEF Queues
  <2>6. IsPut(intq["rx"], intq'["rx"]) /\ Same(intq["tx"], intq'["tx"])
    BY <1>0, <1>1, <2>2, <2>4, <2>5 DEF IsPut
  <2>7. pc' \in [Threads -> Places]
    BY <1>0, <1>13, Signals DEF KeyPressed, Queues
  <2> QED BY <1>0, <1>4, <2>2, <2>5, <2>6, <2>7 DEF Moves, Queues
<1> QED BY <1>6, <1>7, <1>8, <1>9, <1>10, <1>11, <1>12, <1>13
        DEF Next, ThreadSteps, Moves, Queues

-----------------------------------------------------------------------------
(* The invariant, and the refinement.                                      *)

Inv == TypeOK /\ InterruptsMatchQueues

\* After serial_init_queue both queues are empty and reception is enabled.
LEMMA InitInv == Init => Inv /\ Sent!Init /\ Received!Init
<1> SUFFICES ASSUME Init PROVE Inv /\ Sent!Init /\ Received!Init
  OBVIOUS
<1>0. INTQ_BUFSIZE \in Nat /\ INTQ_BUFSIZE > 1 /\ 0 \in Slots
  BY SerialAssumption DEF Slots
<1>1. TypeOK
  BY <1>0 DEF Init, TypeOK
<1>2. /\ intq["tx"] \in IntqType /\ intq["rx"] \in IntqType
      /\ intq_empty(intq["tx"]) /\ intq_empty(intq["rx"])
  BY <1>0 DEF Init, IntqType, Queues, intq_empty
<1>3. ~intq_full(intq["rx"])
  BY <1>0, RingModulo DEF Init, Queues, intq_full, After
<1>4. InterruptsMatchQueues
  BY <1>2, <1>3 DEF Init, InterruptsMatchQueues
<1>5. Contents(intq["tx"]) = <<>> /\ Contents(intq["rx"]) = <<>>
  BY <1>2, ContentsSeq
<1> QED BY <1>1, <1>4, <1>5 DEF Inv, Sent!Init, Received!Init

\* write_ier is called wherever the answer may have changed.
LEMMA NextInv == Inv /\ [Next]_vars => Inv'
<1> SUFFICES ASSUME Inv, [Next]_vars PROVE Inv'
  OBVIOUS
<1>1. CASE UNCHANGED vars
  BY <1>1 DEF Inv, TypeOK, InterruptsMatchQueues, intq_empty, intq_full, vars
<1>2. CASE Next
  <2>1. /\ TypeOK /\ TypeOK'
        /\ \/ WriteIer
           \/ /\ ier' = ier /\ Same(intq["rx"], intq'["rx"])
              /\ Same(intq["tx"], intq'["tx"]) \/ intq_empty(intq'["tx"])
    BY <1>2, Steps DEF Inv
  <2>2. CASE WriteIer
    BY <2>1, <2>2 DEF Inv, InterruptsMatchQueues, WriteIer, IerFor
  <2>3. CASE ~WriteIer
    BY <2>1, <2>3 DEF Inv, InterruptsMatchQueues, Same, intq_empty, intq_full
  <2> QED BY <2>2, <2>3
<1> QED BY <1>1, <1>2

\* Every step moves both queues as Fifo allows.
LEMMA NextFifo ==
    TypeOK /\ [Next]_vars => /\ [Sent!Next]_(Contents(intq["tx"]))
                             /\ [Received!Next]_(Contents(intq["rx"]))
<1> SUFFICES ASSUME TypeOK, [Next]_vars
             PROVE  /\ [Sent!Next]_(Contents(intq["tx"]))
                    /\ [Received!Next]_(Contents(intq["rx"]))
  OBVIOUS
<1>1. CASE UNCHANGED vars
  BY <1>1 DEF vars
<1>2. CASE Next
  <2>1. /\ \A q \in Queues : Moves(q, intq[q], intq'[q])
        /\ \A q \in Queues : intq[q] \in IntqType /\ intq'[q] \in IntqType
    <3>1. TypeOK' /\ \A q \in Queues : Moves(q, intq[q], intq'[q])
      BY <1>2, Steps
    <3> QED BY <3>1 DEF TypeOK, IntqType
  <2>2. \A q \in Queues :
           LET c == Contents(intq[q])
               d == Contents(intq'[q])
           IN  \/ d = c
               \/ Len(c) < INTQ_BUFSIZE - 1 /\ d \in {Append(c, b) : b \in Bytes}
               \/ c # <<>> /\ d = Tail(c)
               \/ c # <<>> /\ d \in {Append(Tail(c), b) : b \in Bytes}
               \/ q = "tx" /\ d = <<>>
    BY <2>1, MovesImplement
  <2>3. /\ "tx" \in Queues /\ Contents(intq["tx"])' = Contents(intq'["tx"])
        /\ "rx" \in Queues /\ Contents(intq["rx"])' = Contents(intq'["rx"])
    BY DEF Queues
  <2>4. [Sent!Next]_(Contents(intq["tx"]))
    BY <2>2, <2>3 DEF Sent!Next, Sent!Put
  <2>5. [Received!Next]_(Contents(intq["rx"]))
    BY <2>2, <2>3 DEF Received!Next, Received!Put
  <2> QED BY <2>4, <2>5
<1> QED BY <1>1, <1>2

\* The positions of both queues stay in their buffers (intq.c), and every other
\* variable keeps its type.
THEOREM TypeCorrect == Spec => []TypeOK
<1>1. Inv => TypeOK
  BY DEF Inv
<1> QED BY <1>1, InitInv, NextInv, PTL DEF Spec

\* The enabled interrupts match the queues, whoever changed them last
\* (write_ier).
THEOREM AlwaysMatch == Spec => []InterruptsMatchQueues
<1>1. Inv => InterruptsMatchQueues
  BY DEF Inv
<1> QED BY <1>1, InitInv, NextInv, PTL DEF Spec

\* txq and the input buffer are bounded first-in first-out queues for all who
\* use them: serial_putc, serial_interrupt, serial_flush, input_putc and
\* input_getc.
THEOREM QueuesImplementFifo == Spec => QueuesKeepOrder
<1>1. Inv => TypeOK
  BY DEF Inv
<1> QED BY <1>1, InitInv, NextInv, NextFifo, PTL
        DEF Spec, QueuesKeepOrder, Sent!Spec, Received!Spec
=============================================================================
