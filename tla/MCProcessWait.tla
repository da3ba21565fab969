--------------------------- MODULE MCProcessWait ---------------------------
(***************************************************************************)
(* The initial thread and a few processes, each of which may start, await  *)
(* and forget the others.                                                  *)
(***************************************************************************)
EXTENDS ProcessWait

CONSTANTS main, p1, p2, p3, ok, killed, garbage
=============================================================================
