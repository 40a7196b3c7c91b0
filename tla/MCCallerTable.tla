--------------------------- MODULE MCCallerTable ---------------------------
(***************************************************************************)
(* Three callers of which two start their search at the same slot, three   *)
(* slots and two probes: collisions, full windows and wrap-around occur.   *)
(***************************************************************************)
EXTENDS CallerTable, TLC

CONSTANTS k1, k2, k3

MCHome == k1 :> 1 @@ k2 :> 1 @@ k3 :> 2
=============================================================================
