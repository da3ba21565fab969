----------------------------- MODULE MCCondVar -----------------------------
(***************************************************************************)
(* Small instances of CondVar.  A word of a stack reads as a number below  *)
(* every priority (a kernel address) or above every one: between the       *)
(* priorities only the order matters.                                      *)
(***************************************************************************)
EXTENDS CondVar

CONSTANTS t1, t2, t3

Words == {-1, 9}
=============================================================================
