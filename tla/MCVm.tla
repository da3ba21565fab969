-------------------------------- MODULE MCVm --------------------------------
(***************************************************************************)
(* Two processes with a stack page each.  The second may have one more     *)
(* page, for a segment of its executable or for mapped files.              *)
(***************************************************************************)
EXTENDS Vm

CONSTANTS p1, p2, s1, s2, x2

PageOwner == [q \in Pages |-> IF q = s1 THEN p1 ELSE p2]
=============================================================================
