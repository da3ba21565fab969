------------------------------- MODULE Serial -------------------------------
(***************************************************************************)
(* Console output and keyboard input of lab 1: the interrupt queues of     *)
(* devices/intq.c, with the serial port that empties one and fills the     *)
(* other (devices/serial.c), the keyboard (devices/kbd.c), the input       *)
(* buffer (devices/input.c) and the console lock (lib/kernel/console.c).   *)
(*                                                                         *)
(* intq["tx"] is serial.c's txq, intq["rx"] input.c's buffer.  Threads     *)
(* only put into the first and get from the second, so each needs only one *)
(* of not_full and not_empty: waiter.  Code with interrupts off is one     *)
(* step up to the place where it lets another thread run.                  *)
(***************************************************************************)
EXTENDS Integers, Sequences

CONSTANTS
    Writers,        \* threads that print
    Readers,        \* threads that call input_getc
    Bytes,
    INTQ_BUFSIZE,
    NULL

Threads == Writers \cup Readers
Queues  == {"tx", "rx"}
Slots   == 0..INTQ_BUFSIZE - 1

ASSUME SerialAssumption ==
    /\ Writers \cap Readers = {} /\ NULL \notin Threads \cup Bytes
    /\ Bytes # {} /\ INTQ_BUFSIZE \in Nat /\ INTQ_BUFSIZE > 1

VARIABLES
    intq,           \* of each queue: buf, head, tail, lock and waiter
    console_lock,   \* its holder
    pc,             \* where each thread is
    ier,            \* the enabled interrupts of the UART
    rbr, thre,      \* its receive register, and whether it takes a byte
    panic           \* an assertion has failed

vars == <<intq, console_lock, pc, ier, rbr, thre, panic>>

TypeOK ==
    /\ intq \in [Queues -> [buf : [Slots -> Bytes \cup {NULL}], head : Slots, tail : Slots,
                            lock : Threads \cup {NULL}, waiter : Threads \cup {NULL}]]
    /\ console_lock \in Writers \cup {NULL}
    /\ pc \in [Threads -> {"user", "console", "check", "lock", "waiting", "woken"}]
    /\ ier \subseteq {"xmit", "recv"}
    /\ rbr \in Bytes \cup {NULL} /\ thre \in BOOLEAN /\ panic \in BOOLEAN

\* After intq_init, input_init and serial_init_queue.
Init ==
    /\ intq = [q \in Queues |-> [buf |-> [s \in Slots |-> NULL], head |-> 0, tail |-> 0,
                                  lock |-> NULL, waiter |-> NULL]]
    /\ console_lock = NULL
    /\ pc = [t \in Threads |-> "user"]
    /\ ier = {"recv"} /\ rbr = NULL /\ thre = TRUE
    /\ panic = FALSE

-----------------------------------------------------------------------------
(* intq.c                                                                  *)

\* Mutant: one place further than the last.
next_Past(pos) == (pos + 1) % (INTQ_BUFSIZE + 1)

next(pos) == (pos + 1) % INTQ_BUFSIZE

intq_empty(q) == q.head = q.tail
intq_full(q)  == next(q.head) = q.tail

\* Mutant: the byte goes to the place after the head.
Put_After(q, byte) == [q EXCEPT !.buf[next(q.head)] = byte, !.head = next(@)]

Put(q, byte) == [q EXCEPT !.buf[q.head] = byte, !.head = next(@)]

\* The byte that stays behind is never looked at again.
Get(q) == [q EXCEPT !.buf[q.tail] = NULL, !.tail = next(@)]

\* Mutant: the waiting thread is forgotten and not unblocked.
Waiter_Never(q) == NULL

Waiter(q) == q.waiter

\* signal: both ends of every operation.
Signal(q) == [q EXCEPT !.waiter = NULL]
Wakes(qs) == [t \in Threads |-> IF \E q \in qs : Waiter(intq[q]) = t THEN "woken" ELSE pc[t]]

-----------------------------------------------------------------------------
(* serial.c and input.c.                                                   *)

\* write_ier, with the queues as they are then.
IerFor(tx, rx) == (IF intq_empty(tx) THEN {} ELSE {"xmit"})
                  \cup (IF intq_full(rx) THEN {} ELSE {"recv"})

\* Mutant: input_putc does not notify the serial port.
WriteIerAfterKey_Skipped == ier

WriteIerAfterKey == IerFor(intq'["tx"], intq'["rx"])

WriteIer == ier' = IerFor(intq'["tx"], intq'["rx"])

-----------------------------------------------------------------------------
(* Threads.                                                                *)

Queue(t) == IF t \in Writers THEN "tx" ELSE "rx"
MustWait(q) == IF q = "tx" THEN intq_full(intq[q]) ELSE intq_empty(intq[q])

Goto(t, place) == pc' = [pc EXCEPT ![t] = place]

\* printf, puts, putbuf or putchar: acquire_console.
AcquiresConsole(t) ==
    /\ pc[t] = "user" /\ console_lock = NULL
    /\ console_lock' = t
    /\ Goto(t, "console")
    /\ UNCHANGED <<intq, ier, rbr, thre, panic>>

\* release_console, after some bytes.
ReleasesConsole(t) ==
    /\ pc[t] = "console"
    /\ console_lock' = NULL
    /\ Goto(t, "user")
    /\ UNCHANGED <<intq, ier, rbr, thre, panic>>

\* input_getc
Reads(t) ==
    /\ pc[t] = "user"
    /\ Goto(t, "check")
    /\ UNCHANGED <<intq, console_lock, ier, rbr, thre, panic>>

\* wait, with q->lock acquired: the condition may have changed since it was
\* tested if the lock was not free.
WaitsFor(t, q) ==
    /\ intq[q].lock = NULL
    /\ panic' = ~MustWait(q)
    /\ intq' = [intq EXCEPT ![q].lock = t, ![q].waiter = t]
    /\ Goto(t, "waiting")
    /\ UNCHANGED <<console_lock, ier, rbr, thre>>

MustWaitFor(t) ==
    /\ pc[t] \in {"console", "check"} /\ MustWait(Queue(t))
    /\ IF intq[Queue(t)].lock = NULL THEN WaitsFor(t, Queue(t))
       ELSE Goto(t, "lock") /\ UNCHANGED <<intq, console_lock, ier, rbr, thre, panic>>

LockGets(t) == pc[t] = "lock" /\ WaitsFor(t, Queue(t))

\* lock_release, which lets others run before the condition is tested again.
LockReleases(t) ==
    /\ pc[t] = "woken"
    /\ intq' = [intq EXCEPT ![Queue(t)].lock = NULL]
    /\ Goto(t, "check")
    /\ UNCHANGED <<console_lock, ier, rbr, thre, panic>>

\* The end of serial_putc, with interrupts on before; more bytes may follow.
Puts(t) ==
    /\ pc[t] \in {"console", "check"} /\ t \in Writers /\ ~MustWait("tx")
    /\ \E b \in Bytes : intq' = [intq EXCEPT !["tx"] = Put(@, b)]
    /\ WriteIer
    /\ Goto(t, "console")
    /\ UNCHANGED <<console_lock, rbr, thre, panic>>

\* The end of input_getc.
Gets(t) ==
    /\ pc[t] = "check" /\ t \in Readers /\ ~MustWait("rx")
    /\ intq' = [intq EXCEPT !["rx"] = Get(@)]
    /\ Goto(t, "user")
    /\ WriteIer
    /\ UNCHANGED <<console_lock, rbr, thre, panic>>

\* Code with interrupts off prints a byte, without the console lock in a
\* handler: if the queue is full, a byte is polled out first.
PrintsUninterrupted ==
    /\ \E b \in Bytes :
          IF intq_full(intq["tx"])
          THEN /\ thre /\ thre' = FALSE
               /\ intq' = [intq EXCEPT !["tx"] = Put(Signal(Get(@)), b)]
               /\ pc' = Wakes({"tx"})
          ELSE intq' = [intq EXCEPT !["tx"] = Put(@, b)] /\ UNCHANGED <<thre, pc>>
    /\ WriteIer
    /\ UNCHANGED <<console_lock, rbr, panic>>

\* serial_flush
Flushes ==
    /\ ~intq_empty(intq["tx"])
    /\ intq' = [intq EXCEPT !["tx"] = [Signal(@) EXCEPT !.buf = [s \in Slots |-> NULL],
                                                        !.tail = intq["tx"].head]]
    /\ pc' = Wakes({"tx"})
    /\ UNCHANGED <<console_lock, ier, rbr, thre, panic>>

-----------------------------------------------------------------------------
(* The devices and their handlers.                                         *)

\* A byte arrives on the line; one that has not been read is overrun.
Arrives ==
    /\ \E b \in Bytes : rbr' = b
    /\ UNCHANGED <<intq, console_lock, pc, ier, thre, panic>>

Transmitted ==
    /\ ~thre /\ thre' = TRUE
    /\ UNCHANGED <<intq, console_lock, pc, ier, rbr, panic>>

\* serial_interrupt: a byte in if there is one and room for it, a byte out if
\* there is one and the port takes it.
SerialInterrupt ==
    LET in  == rbr # NULL /\ ~intq_full(intq["rx"])
        out == thre /\ ~intq_empty(intq["tx"])
    IN  /\ \/ "recv" \in ier /\ rbr # NULL
           \/ "xmit" \in ier /\ thre
        /\ intq' = [intq EXCEPT !["rx"] = IF in THEN Put(Signal(@), rbr) ELSE @,
                                !["tx"] = IF out THEN Signal(Get(@)) ELSE @]
        /\ pc' = Wakes((IF in THEN {"rx"} ELSE {}) \cup (IF out THEN {"tx"} ELSE {}))
        /\ rbr' = IF in THEN NULL ELSE rbr
        /\ thre' = (thre /\ ~out)
        /\ WriteIer
        /\ UNCHANGED <<console_lock, panic>>

\* keyboard_interrupt for a key that stands for a character.
KeyPressed ==
    /\ ~intq_full(intq["rx"])
    /\ \E b \in Bytes : intq' = [intq EXCEPT !["rx"] = Put(Signal(@), b)]
    /\ pc' = Wakes({"rx"})
    /\ ier' = WriteIerAfterKey
    /\ UNCHANGED <<console_lock, rbr, thre, panic>>

-----------------------------------------------------------------------------
ThreadSteps ==
    \/ \E t \in Writers : AcquiresConsole(t) \/ ReleasesConsole(t) \/ Puts(t)
    \/ \E t \in Readers : Reads(t) \/ Gets(t)
    \/ \E t \in Threads : MustWaitFor(t) \/ LockGets(t) \/ LockReleases(t)

Next ==
    /\ ~panic
    /\ \/ ThreadSteps \/ PrintsUninterrupted \/ Flushes
       \/ Arrives \/ Transmitted \/ SerialInterrupt \/ KeyPressed

Spec == Init /\ [][Next]_vars

\* The port transmits what it has been given and its interrupt is served.
FairSpec == Spec /\ WF_vars(Transmitted) /\ WF_vars(SerialInterrupt)

-----------------------------------------------------------------------------
\* The port never stays silent with bytes to transmit, nor deaf with room to
\* receive, and does not interrupt for a byte that has no place, whoever
\* changed the queues last (serial.c:176-194, input.c:25 and 38).
InterruptsMatchQueues ==
    /\ ~intq_empty(intq["tx"]) => "xmit" \in ier
    /\ "recv" \in ier <=> ~intq_full(intq["rx"])

\* The bytes in queue q, the oldest first.
Contents(q) ==
    [k \in 1..(q.head - q.tail) % INTQ_BUFSIZE |-> q.buf[(q.tail + k - 1) % INTQ_BUFSIZE]]

Sent     == INSTANCE Fifo WITH queue <- Contents(intq["tx"]), Flushable <- TRUE,
                               Capacity <- INTQ_BUFSIZE - 1
Received == INSTANCE Fifo WITH queue <- Contents(intq["rx"]), Flushable <- FALSE,
                               Capacity <- INTQ_BUFSIZE - 1

\* Both queues keep the order of their bytes and lose none, whether they are
\* emptied by interrupts, by polling or by a thread (intq.c:37-75,
\* serial.c:99-130); only serial_flush empties the one to transmit at once.
QueuesKeepOrder == Sent!Spec /\ Received!Spec

\* A thread that waits is woken when the port makes room or has a byte
\* (intq.c:87-114): the waiter is not forgotten and the interrupt not disabled.
WaiterWoken ==
    \A t \in Threads :
        (pc[t] = "waiting" /\ (t \in Writers \/ rbr # NULL)) ~> (pc[t] = "woken" \/ panic)
=============================================================================
