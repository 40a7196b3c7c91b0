-------------------------- MODULE SessionLifecycle --------------------------
(***************************************************************************)
(* What libat-injector promises its host about the sessions it keeps, one  *)
(* per "plugin|process" key: a key is served by at most one worker at a    *)
(* time; a start given while the old worker is still shutting down is      *)
(* remembered, the last one wins, and it is carried out as soon as the old *)
(* worker is gone, unless a stop or a wait-stopped cancels it first.       *)
(* SessionManager.tla is shown to implement this specification.            *)
(***************************************************************************)
CONSTANTS Keys, Args, None

VARIABLES
    phase,      \* per key: no worker, a serving worker, a worker shutting down
    serving,    \* the arguments of the serving worker
    wanted      \* the start to carry out once the shutdown ends

vars == <<phase, serving, wanted>>

Init ==
    /\ phase = [k \in Keys |-> "absent"]
    /\ serving = [k \in Keys |-> None]
    /\ wanted = [k \in Keys |-> None]

Open(k, a) ==
    /\ phase[k] = "absent"
    /\ phase' = [phase EXCEPT ![k] = "active"]
    /\ serving' = [serving EXCEPT ![k] = a]
    /\ UNCHANGED wanted

Request(k, a) ==
    /\ phase[k] = "closing"
    /\ wanted' = [wanted EXCEPT ![k] = a]
    /\ UNCHANGED <<phase, serving>>

(* Stopping a set of keys: the serving ones begin to close, and whatever    *)
(* was to follow a shutdown is forgotten.                                   *)
Close(S) ==
    /\ phase' = [k \in Keys |-> IF k \in S /\ phase[k] = "active"
                                THEN "closing" ELSE phase[k]]
    /\ serving' = [k \in Keys |-> IF k \in S THEN None ELSE serving[k]]
    /\ wanted' = [k \in Keys |-> IF k \in S THEN None ELSE wanted[k]]

Forget ==
    /\ wanted' = [k \in Keys |-> None]
    /\ UNCHANGED <<phase, serving>>

Closed(k) ==
    /\ phase[k] = "closing"
    /\ phase' = [phase EXCEPT ![k] = IF wanted[k] = None THEN "absent" ELSE "active"]
    /\ serving' = [serving EXCEPT ![k] = wanted[k]]
    /\ wanted' = [wanted EXCEPT ![k] = None]

Next ==
    \/ \E k \in Keys, a \in Args : Open(k, a) \/ Request(k, a)
    \/ \E S \in SUBSET Keys : Close(S)
    \/ Forget
    \/ \E k \in Keys : Closed(k)

Spec == Init /\ [][Next]_vars
=============================================================================
