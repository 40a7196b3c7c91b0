---------------------------- MODULE CallerTable ----------------------------
(***************************************************************************)
(* The table of callers of the Unity plugin: an open-addressing hash table *)
(* that hooked game threads fill and read without a lock, one slot for     *)
(* each (hook, caller) pair, named by the thread that makes it.            *)
(*                                                                         *)
(* A key stands for the 64-bit hash of the pair: pairs whose hashes        *)
(* collide share a key, as they share a slot in the code.  The text of a   *)
(* name is abstracted to the key it was composed for.                      *)
(***************************************************************************)
EXTENDS Naturals, FiniteSets

CONSTANTS
    Keys,     \* non-zero caller keys
    None,     \* key 0: the slot is free
    Size,     \* kCallerSlots
    Probes,   \* kCallerProbes
    Home,     \* the slot where the search for a key starts
    Threads   \* game threads inside hooked functions

ASSUME TableAssumption ==
    /\ None \notin Keys
    /\ Size \in Nat \ {0}
    /\ Probes \in 1 .. Size
    /\ Home \in [Keys -> 0 .. Size - 1]

VARIABLES
    key,      \* CallerSlot::key
    source,   \* CallerSlot::source: the key it was composed for, None before
    ready,    \* CallerSlot::ready
    caller    \* per thread: the call of caller_slot it is in

vars == <<key, source, ready, caller>>

Slots == 0 .. Size - 1
Steps == {"out", "load", "claim", "name", "publish", "slot", "plain"}
Idle == [at |-> "out", key |-> None, probe |-> 0]

(* The slot of probe p for key k. *)
Slot(k, p) == (Home[k] + p) % Size

Here(t) == Slot(caller[t].key, caller[t].probe)

Init ==
    /\ key = [s \in Slots |-> None]
    /\ source = [s \in Slots |-> None]
    /\ ready = [s \in Slots |-> FALSE]
    /\ caller = [t \in Threads |-> Idle]

-----------------------------------------------------------------------------
Goes(t, step) == caller' = [caller EXCEPT ![t].at = step]

Call(t, k) ==
    /\ caller[t].at = "out"
    /\ caller' = [caller EXCEPT ![t] = [at |-> "load", key |-> k, probe |-> 0]]
    /\ UNCHANGED <<key, source, ready>>

(* The search ends at a slot of the caller's own key, with the slot if it   *)
(* has its name already.                                                    *)
Found(t) ==
    /\ key[Here(t)] = caller[t].key
    /\ Goes(t, IF ready[Here(t)] THEN "slot" ELSE "plain")

(* It passes over a slot of another key, and gives up after the last probe. *)
PassesOver(t) ==
    /\ key[Here(t)] \notin {None, caller[t].key}
    /\ IF caller[t].probe + 1 < Probes
       THEN caller' = [caller EXCEPT ![t].at = "load", ![t].probe = @ + 1]
       ELSE Goes(t, "plain")

(* slot.key.load() *)
Load(t) ==
    /\ caller[t].at = "load"
    /\ \/ key[Here(t)] = None /\ Goes(t, "claim")
       \/ Found(t)
       \/ PassesOver(t)
    /\ UNCHANGED <<key, source, ready>>

(* Mutated: the key is stored without the compare. *)
Claim_Stores(t) ==
    /\ caller[t].at = "claim"
    /\ key' = [key EXCEPT ![Here(t)] = caller[t].key]
    /\ Goes(t, "name")
    /\ UNCHANGED <<source, ready>>

(* Mutated: a thread that loses the race goes on to the next probe without  *)
(* a look at the key that won.                                              *)
Claim_SkipsWinner(t) ==
    /\ caller[t].at = "claim"
    /\ \/ /\ key[Here(t)] = None
          /\ key' = [key EXCEPT ![Here(t)] = caller[t].key]
          /\ Goes(t, "name")
       \/ /\ key[Here(t)] # None
          /\ IF caller[t].probe + 1 < Probes
             THEN caller' = [caller EXCEPT ![t].at = "load", ![t].probe = @ + 1]
             ELSE Goes(t, "plain")
          /\ UNCHANGED key
    /\ UNCHANGED <<source, ready>>

(* slot.key.compare_exchange_strong(): a thread that loses the race looks   *)
(* at the key that won.                                                     *)
Claim(t) ==
    /\ caller[t].at = "claim"
    /\ \/ /\ key[Here(t)] = None
          /\ key' = [key EXCEPT ![Here(t)] = caller[t].key]
          /\ Goes(t, "name")
       \/ (Found(t) \/ PassesOver(t)) /\ UNCHANGED key
    /\ UNCHANGED <<source, ready>>

(* compose_caller_source() *)
Name(t) ==
    /\ caller[t].at = "name"
    /\ source' = [source EXCEPT ![Here(t)] = caller[t].key]
    /\ Goes(t, "publish")
    /\ UNCHANGED <<key, ready>>

(* slot.ready.store(1) *)
Publish(t) ==
    /\ caller[t].at = "publish"
    /\ ready' = [ready EXCEPT ![Here(t)] = TRUE]
    /\ Goes(t, "slot")
    /\ UNCHANGED <<key, source>>

(* The text is reported, under the slot's source or the plain one. *)
Return(t) ==
    /\ caller[t].at \in {"slot", "plain"}
    /\ caller' = [caller EXCEPT ![t] = Idle]
    /\ UNCHANGED <<key, source, ready>>

Step(t) == Load(t) \/ Claim(t) \/ Name(t) \/ Publish(t) \/ Return(t)

Next == \E t \in Threads : Step(t) \/ \E k \in Keys : Call(t, k)

Spec == Init /\ [][Next]_vars

-----------------------------------------------------------------------------
(* The members have their types. *)
TypeOK ==
    /\ key \in [Slots -> Keys \cup {None}]
    /\ source \in [Slots -> Keys \cup {None}]
    /\ ready \in [Slots -> BOOLEAN]
    /\ caller \in [Threads -> [at : Steps, key : Keys \cup {None}, probe : 0 .. Probes - 1]]
    /\ \A t \in Threads : caller[t].at # "out" => caller[t].key \in Keys

(* A caller has one slot at most, whichever threads race to make it: its    *)
(* texts are never split over two sources (and two repeat filters).         *)
OneSlotPerCaller ==
    \A s1, s2 \in Slots : key[s1] = key[s2] /\ key[s1] # None => s1 = s2

(* A slot's source, once a thread reports under it, is its own caller's,    *)
(* completely written.                                                      *)
SourceIsOwn ==
    \A t \in Threads : caller[t].at = "slot" => source[Here(t)] = caller[t].key

(* A text is reported under the plain source only when its caller's slot    *)
(* was claimed by another thread, or when every slot it may be in belongs   *)
(* to another caller (comment above caller_slot, text_sink.cpp).            *)
PlainIsExcused ==
    \A t \in Threads : caller[t].at = "plain" =>
        \/ \E p \in 0 .. Probes - 1 : key[Slot(caller[t].key, p)] = caller[t].key
        \/ \A p \in 0 .. Probes - 1 : key[Slot(caller[t].key, p)] # None

(* Every text goes out under the right source, however the threads that     *)
(* claim, name and publish slots interleave.                                *)
TextIsAttributed == SourceIsOwn /\ PlainIsExcused

=============================================================================
