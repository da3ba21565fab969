------------------------------ MODULE MCFiles ------------------------------
(***************************************************************************)
(* Two processes that run one program or two, and a second file.           *)
(***************************************************************************)
EXTENDS Files, TLC

CONSTANTS p1, p2, prog, doc

Directory == prog :> 1 @@ doc :> 3
Data      == 1 :> 2 @@ 3 :> 4
=============================================================================
