---------------------------- MODULE MCHookEngine ----------------------------
(***************************************************************************)
(* The functions the constructor hooks with IL2CPP; with Mono it is the    *)
(* first alone.                                                            *)
(***************************************************************************)
EXTENDS HookEngine

CONSTANTS a, b

Il2cppNatives == <<a, b>>
=============================================================================
