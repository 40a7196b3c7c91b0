----------------------------- MODULE MCVkLayer ------------------------------
(***************************************************************************)
(* Two swapchain handles of two formats.                                   *)
(***************************************************************************)
EXTENDS VkLayer, TLC

CONSTANTS s1, s2, f1, f2

Fmts == s1 :> f1 @@ s2 :> f2
=============================================================================
