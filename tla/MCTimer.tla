------------------------------ MODULE MCTimer ------------------------------
(* Three threads; under -mlfqs t2 always has something to compute. *)
EXTENDS Timer

CONSTANTS t1, t2, t3

All3 == <<t1, t2, t3>>
WhoSleeps == [mlfqs \in BOOLEAN |-> IF mlfqs THEN {t1, t3} ELSE {t1, t2, t3}]
=============================================================================
