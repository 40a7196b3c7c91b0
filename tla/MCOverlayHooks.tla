--------------------------- MODULE MCOverlayHooks ---------------------------
(***************************************************************************)
(* Two threads, each with a Direct3D 11 chain, and one of them with a      *)
(* Direct3D 12 chain as well.                                              *)
(***************************************************************************)
EXTENDS OverlayHooks, TLC

CONSTANTS t1, t2, a1, a2, b1

Owners == a1 :> t1 @@ a2 :> t2 @@ b1 :> t2
Apis == a1 :> "d3d11" @@ a2 :> "d3d11" @@ b1 :> "d3d12"
=============================================================================
