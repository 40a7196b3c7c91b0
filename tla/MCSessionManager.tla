-------------------------- MODULE MCSessionManager --------------------------
(* Instances of the session manager for model checking. *)
EXTENDS SessionManager, TLC

CONSTANTS k1, k2, p1

(* two processes of one plugin *)
SamePlugin == k1 :> p1 @@ k2 :> p1
=============================================================================
