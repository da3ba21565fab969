-------------------------------- MODULE Fifo --------------------------------
(***************************************************************************)
(* What an interrupt queue promises: bytes leave it in the order in which  *)
(* they entered it, each once, and no more than Capacity are inside.  A    *)
(* Flushable queue may lose them all at once.                              *)
(***************************************************************************)
EXTENDS Naturals, Sequences

CONSTANTS Bytes, Capacity, Flushable

VARIABLE queue

Init == queue = <<>>

Put(q) == {Append(q, b) : b \in Bytes}

Next ==
    \/ Len(queue) < Capacity /\ queue' \in Put(queue)
    \/ queue # <<>> /\ queue' = Tail(queue)
    \/ queue # <<>> /\ queue' \in Put(Tail(queue))     \* makes room first
    \/ Flushable /\ queue' = <<>>

Spec == Init /\ [][Next]_queue
=============================================================================
