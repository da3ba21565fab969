------------------------------ MODULE MCSerial ------------------------------
(* A small instance of Serial: a thread that prints, two that read. *)
EXTENDS Serial

CONSTANTS w1, r1, r2
=============================================================================
