--------------------------- MODULE MCHookThrottle ---------------------------
(***************************************************************************)
(* Pauses of three and four ticks.                                         *)
(***************************************************************************)
EXTENDS HookThrottle

MCPauses == <<3, 4>>
=============================================================================
