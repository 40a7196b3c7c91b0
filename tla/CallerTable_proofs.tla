------------------------- MODULE CallerTable_proofs -------------------------
(***************************************************************************)
(* Proofs about the parts of the Unity plugin that the game's threads run  *)
(* without a lock: CallerTable, HookThrottle and RepeatFilter, in turn.    *)
(*                                                                         *)
(* CallerTable: for tables of any size, any hash, any callers and any      *)
(* number of threads, no caller has two slots, a slot keeps its key, and a *)
(* text has the label of its caller or the plain one.                      *)
(*                                                                         *)
(* OneSlotPerCaller is not inductive: that a key is nowhere else follows   *)
(* from where it may be.  The invariant says that a key lies in its probe  *)
(* window, behind slots of other keys only, and that a thread that looks   *)
(* at probe p of its key has passed over slots of other keys; slots are    *)
(* never freed, so both stay true.                                         *)
(*                                                                         *)
(* HookThrottle: for any number of hooks and threads, any window, pauses   *)
(* and width of the clock, no two sweeps are at the end of a window, and   *)
(* until two threads sweep at once a strike is never lost and a pause is   *)
(* kept.  The invariant relates the times that a call has read to how long *)
(* it may last: the two halves of a call, a sweep and a muting of the same *)
(* hook then exclude each other.                                           *)
(*                                                                         *)
(* RepeatFilter: for a ring of any size, any threads, window and clock,    *)
(* nothing is dropped that was not sent; and for no more texts than the    *)
(* ring holds, while the clock wraps around once at most, a text is sent   *)
(* once per window and again after it.  The invariant orders the texts     *)
(* sent last by their places before the entry that is written next: the    *)
(* next insertion then overwrites none of them.                            *)
(***************************************************************************)
EXTENDS CallerTable, HookThrottle, RepeatFilter, FiniteSetTheorems, TLAPS

(* The slots of the probes of k before p belong to other keys. *)
Passed(k, p) == \A q \in 0 .. p - 1 : key[Slot(k, q)] \notin {None, k}

(* Every key is where the search for it finds it. *)
Placed ==
    \A s \in Slots : key[s] # None =>
        \E p \in 0 .. Probes - 1 : Slot(key[s], p) = s /\ Passed(key[s], p)

Searching ==
    \A t \in Threads : caller[t].at \in {"load", "claim"} =>
        Passed(caller[t].key, caller[t].probe)

IInv == TypeOK /\ Placed /\ Searching

(* Only a claim changes a key, and only of a free slot. *)
KeysStay == \A s \in Slots : key[s] # None => key'[s] = key[s]

-----------------------------------------------------------------------------
(* A probe is a slot. *)
LEMMA SlotIsSlot ==
    ASSUME NEW k \in Keys, NEW p \in Nat
    PROVE  Slot(k, p) \in Slots
<1>1. Size \in Nat /\ Size > 0 /\ Home[k] \in Nat
  BY TableAssumption
<1>2. (Home[k] + p) % Size \in 0 .. Size - 1
  BY <1>1
<1>. QED
  BY <1>2 DEF Slot, Slots

(* What was passed stays passed, and a placed key stays placed. *)
LEMMA PassedStays ==
    ASSUME TypeOK, KeysStay, NEW k \in Keys, NEW p \in 0 .. Probes - 1, Passed(k, p)
    PROVE  Passed(k, p)'
<1>1. SUFFICES ASSUME NEW q \in 0 .. p - 1
               PROVE  key'[Slot(k, q)] \notin {None, k}
  BY DEF Passed, Slot
<1>2. key[Slot(k, q)] \notin {None, k}
  BY DEF Passed
<1>3. Slot(k, q) \in Slots
  BY SlotIsSlot
<1>. QED
  BY <1>2, <1>3 DEF KeysStay

(* The slot a thread looks at exists. *)
LEMMA HereIsSlot ==
    ASSUME TypeOK, NEW t \in Threads, caller[t].at # "out"
    PROVE  Here(t) \in Slots /\ caller[t].key \in Keys /\ caller[t].probe \in 0 .. Probes - 1
<1>1. caller[t].key \in Keys /\ caller[t].probe \in 0 .. Probes - 1
  BY DEF TypeOK
<1>. QED
  BY <1>1, SlotIsSlot DEF Here

(* The two ways a search goes on keep the types and what was passed. *)
LEMMA SearchGoesOn ==
    ASSUME IInv, NEW t \in Threads, caller[t].at \in {"load", "claim"},
           Found(t) \/ PassesOver(t), UNCHANGED <<key, source, ready>>
    PROVE  IInv'
<1>1. Here(t) \in Slots /\ caller[t].key \in Keys /\ caller[t].probe \in 0 .. Probes - 1
  BY HereIsSlot DEF IInv
<1>2. TypeOK'
  <2>1. Probes \in Nat
    BY TableAssumption
  <2>2. CASE Found(t)
    BY <2>2, <1>1 DEF IInv, TypeOK, Found, Goes, Steps
  <2>3. CASE PassesOver(t)
    BY <2>3, <2>1, <1>1 DEF IInv, TypeOK, PassesOver, Goes, Steps
  <2>. QED
    BY <2>2, <2>3
<1>3. Placed'
  BY DEF IInv, Placed, Passed, Slot
<1>4. Searching'
  <2>1. SUFFICES ASSUME NEW u \in Threads, caller'[u].at \in {"load", "claim"}
                 PROVE  Passed(caller[u].key, caller[u].probe)'
    BY DEF Searching
  <2>2. CASE u # t
    <3>1. caller'[u] = caller[u]
      BY <2>2 DEF IInv, TypeOK, Found, PassesOver, Goes
    <3>2. Passed(caller[u].key, caller[u].probe)
      BY <3>1, <2>1 DEF IInv, Searching
    <3>. QED
      BY <3>1, <3>2 DEF Passed, Slot
  <2>3. CASE u = t
    <3>1. /\ key[Here(t)] \notin {None, caller[t].key}
          /\ caller'[t].key = caller[t].key
          /\ caller'[t].probe = caller[t].probe + 1
      BY <2>3, <2>1 DEF IInv, TypeOK, Found, PassesOver, Goes
    <3>2. Passed(caller[t].key, caller[t].probe)
      BY DEF IInv, Searching
    <3>3. Passed(caller[t].key, caller[t].probe + 1)
      BY <3>1, <3>2, <1>1 DEF Passed, Here
    <3>. QED
      BY <2>3, <3>1, <3>3 DEF Passed, Slot
  <2>. QED
    BY <2>2, <2>3
<1>. QED
  BY <1>2, <1>3, <1>4 DEF IInv

(* A thread claims the free slot its search came to. *)
LEMMA ClaimKeeps ==
    ASSUME IInv, NEW t \in Threads, caller[t].at = "claim", key[Here(t)] = None,
           key' = [key EXCEPT ![Here(t)] = caller[t].key], Goes(t, "name"),
           UNCHANGED <<source, ready>>
    PROVE  IInv'
<1>1. Here(t) \in Slots /\ caller[t].key \in Keys /\ caller[t].probe \in 0 .. Probes - 1
  BY HereIsSlot DEF IInv
<1>2. TypeOK'
  BY <1>1 DEF IInv, TypeOK, Goes, Steps
<1>3. KeysStay
  BY <1>1 DEF KeysStay, IInv, TypeOK
<1>4. /\ key'[Here(t)] = caller[t].key
      /\ \A s \in Slots : s # Here(t) => key'[s] = key[s]
  BY <1>1 DEF IInv, TypeOK
<1>5. Placed'
  <2>1. SUFFICES ASSUME NEW s \in Slots, key'[s] # None
                 PROVE  \E p \in 0 .. Probes - 1 :
                          Slot(key'[s], p) = s /\ Passed(key[s], p)'
    BY DEF Placed, Slot
  <2>2. CASE s = Here(t)
    <3>1. Passed(caller[t].key, caller[t].probe)
      BY DEF IInv, Searching
    <3>2. Passed(caller[t].key, caller[t].probe)'
      <4>1. ASSUME NEW q \in 0 .. caller[t].probe - 1
            PROVE  key'[Slot(caller[t].key, q)] \notin {None, caller[t].key}
        <5>1. key[Slot(caller[t].key, q)] \notin {None, caller[t].key}
          BY <3>1 DEF Passed
        <5>2. Slot(caller[t].key, q) \in Slots
          BY <1>1, SlotIsSlot
        <5>. QED
          BY <5>1, <5>2, <1>3 DEF KeysStay
      <4>. QED
        BY <4>1, <1>4 DEF Passed, Slot, Goes, IInv, TypeOK
    <3>3. caller'[t].key = caller[t].key /\ caller'[t].probe = caller[t].probe
      BY DEF IInv, TypeOK, Goes
    <3>4. key'[s] = caller[t].key
      BY <2>2, <1>4
    <3>5. Passed(key[s], caller[t].probe)'
      BY <3>2, <3>3, <3>4 DEF Passed, Slot
    <3>6. Slot(key'[s], caller[t].probe) = s
      BY <2>2, <3>4 DEF Here
    <3>. QED
      BY <3>3, <3>5, <3>6, <1>1
  <2>3. CASE s # Here(t)
    <3>1. key'[s] = key[s] /\ key[s] # None
      BY <2>3, <2>1, <1>4
    <3>2. PICK p \in 0 .. Probes - 1 : Slot(key[s], p) = s /\ Passed(key[s], p)
      BY <3>1 DEF IInv, Placed
    <3>3. key[s] \in Keys
      BY <3>1 DEF IInv, TypeOK
    <3>4. \A q \in 0 .. p - 1 : key'[Slot(key[s], q)] \notin {None, key[s]}
      <4>1. ASSUME NEW q \in 0 .. p - 1
            PROVE  key'[Slot(key[s], q)] \notin {None, key[s]}
        <5>1. key[Slot(key[s], q)] \notin {None, key[s]}
          BY <3>2 DEF Passed
        <5>2. Slot(key[s], q) \in Slots
          BY <3>3, SlotIsSlot
        <5>. QED
          BY <5>1, <5>2, <1>3 DEF KeysStay
      <4>. QED
        BY <4>1
    <3>5. Passed(key[s], p)'
      BY <3>1, <3>4 DEF Passed, Slot
    <3>. QED
      BY <3>1, <3>2, <3>5
  <2>. QED
    BY <2>2, <2>3
<1>6. Searching'
  <2>1. SUFFICES ASSUME NEW u \in Threads, caller'[u].at \in {"load", "claim"}
                 PROVE  Passed(caller[u].key, caller[u].probe)'
    BY DEF Searching
  <2>2. u # t /\ caller'[u] = caller[u]
    BY <2>1 DEF IInv, TypeOK, Goes
  <2>3. Passed(caller[u].key, caller[u].probe)
    BY <2>1, <2>2 DEF IInv, Searching
  <2>4. caller[u].key \in Keys /\ caller[u].probe \in 0 .. Probes - 1
    BY <2>1, <2>2, HereIsSlot DEF IInv
  <2>5. \A q \in 0 .. caller[u].probe - 1 : key'[Slot(caller[u].key, q)] \notin {None, caller[u].key}
    <3>1. ASSUME NEW q \in 0 .. caller[u].probe - 1
          PROVE  key'[Slot(caller[u].key, q)] \notin {None, caller[u].key}
      <4>1. key[Slot(caller[u].key, q)] \notin {None, caller[u].key}
        BY <2>3 DEF Passed
      <4>2. Slot(caller[u].key, q) \in Slots
        BY <2>4, SlotIsSlot
      <4>. QED
        BY <4>1, <4>2, <1>3 DEF KeysStay
    <3>. QED
      BY <3>1
  <2>. QED
    BY <2>2, <2>5 DEF Passed, Slot
<1>. QED
  BY <1>2, <1>5, <1>6 DEF IInv

(* The other steps touch neither the keys nor a search. *)
LEMMA OthersKeep ==
    ASSUME IInv, NEW t \in Threads,
           \/ \E k \in Keys : Call(t, k)
           \/ caller[t].at = "load" /\ key[Here(t)] = None /\ Goes(t, "claim")
                /\ UNCHANGED <<key, source, ready>>
           \/ Name(t) \/ Publish(t) \/ Return(t)
    PROVE  IInv'
<1>1. UNCHANGED key
  BY DEF Call, Name, Publish, Return
<1>2. TypeOK'
  <2>1. 0 \in 0 .. Probes - 1
    BY TableAssumption
  <2>2. ASSUME NEW k \in Keys, Call(t, k) PROVE TypeOK'
    BY <2>1, <2>2 DEF IInv, TypeOK, Call, Steps
  <2>3. CASE caller[t].at = "load" /\ key[Here(t)] = None /\ Goes(t, "claim")
               /\ UNCHANGED <<key, source, ready>>
    BY <2>3 DEF IInv, TypeOK, Goes, Steps
  <2>4. CASE Name(t)
    BY <2>4, HereIsSlot DEF IInv, TypeOK, Name, Goes, Steps
  <2>5. CASE Publish(t)
    BY <2>5, HereIsSlot DEF IInv, TypeOK, Publish, Goes, Steps
  <2>6. CASE Return(t)
    BY <2>6, <2>1 DEF IInv, TypeOK, Return, Idle, Steps
  <2>. QED
    BY <2>2, <2>3, <2>4, <2>5, <2>6
<1>3. Placed'
  BY <1>1 DEF IInv, Placed, Passed, Slot
<1>4. Searching'
  <2>1. SUFFICES ASSUME NEW u \in Threads, caller'[u].at \in {"load", "claim"}
                 PROVE  Passed(caller[u].key, caller[u].probe)'
    BY DEF Searching
  <2>2. \/ caller'[u].probe = 0
        \/ /\ caller[u].at \in {"load", "claim"}
           /\ caller'[u].key = caller[u].key
           /\ caller'[u].probe = caller[u].probe
    BY <2>1 DEF IInv, TypeOK, Call, Goes, Name, Publish, Return, Idle
  <2>. QED
    BY <2>2, <1>1 DEF IInv, Searching, Passed, Slot
<1>. QED
  BY <1>2, <1>3, <1>4 DEF IInv

LEMMA NextKeeps == IInv /\ [Next]_vars => IInv'
<1>1. ASSUME IInv, NEW t \in Threads, Step(t) PROVE IInv'
  <2>1. CASE Load(t)
    BY <2>1, <1>1, SearchGoesOn, OthersKeep DEF Load
  <2>2. CASE Claim(t)
    <3>1. caller[t].at = "claim" /\ UNCHANGED <<source, ready>>
      BY <2>2 DEF Claim
    <3>2. CASE (Found(t) \/ PassesOver(t)) /\ UNCHANGED key
      BY <3>1, <3>2, <1>1, SearchGoesOn
    <3>3. CASE key[Here(t)] = None /\ key' = [key EXCEPT ![Here(t)] = caller[t].key]
                 /\ Goes(t, "name")
      BY <3>1, <3>3, <1>1, ClaimKeeps
    <3>. QED
      BY <2>2, <3>2, <3>3 DEF Claim
  <2>3. CASE Name(t) \/ Publish(t) \/ Return(t)
    BY <2>3, <1>1, OthersKeep
  <2>. QED
    BY <1>1, <2>1, <2>2, <2>3 DEF Step
<1>2. ASSUME IInv, NEW t \in Threads, NEW k \in Keys, Call(t, k) PROVE IInv'
  BY <1>2, OthersKeep
<1>3. ASSUME IInv, UNCHANGED vars PROVE IInv'
  BY <1>3 DEF vars, IInv, TypeOK, Placed, Searching, Passed, Slot
<1>. QED
  BY <1>1, <1>2, <1>3 DEF Next

LEMMA InitHolds == Init => IInv
<1>. SUFFICES ASSUME Init PROVE IInv
  OBVIOUS
<1>2. 0 \in 0 .. Probes - 1
  BY TableAssumption
<1>3. Idle \in [at : Steps, key : Keys \cup {None}, probe : 0 .. Probes - 1]
  BY <1>2 DEF Idle, Steps
<1>4. /\ key \in [Slots -> Keys \cup {None}]
      /\ source \in [Slots -> Keys \cup {None}]
      /\ ready \in [Slots -> BOOLEAN]
  BY DEF Init
<1>5. \A t \in Threads : caller[t] = Idle /\ caller[t].at = "out"
  BY DEF Init, Idle
<1>6. caller \in [Threads -> [at : Steps, key : Keys \cup {None}, probe : 0 .. Probes - 1]]
  BY <1>3 DEF Init
<1>7. TypeOK
  BY <1>4, <1>5, <1>6 DEF TypeOK
<1>8. Placed
  BY DEF Init, Placed
<1>9. Searching
  BY <1>5 DEF Searching
<1>. QED
  BY <1>7, <1>8, <1>9 DEF IInv

(* The invariant leaves a key one place: of two slots with it, the probe of *)
(* one comes first, and the other is behind it.                             *)
LEMMA OneSlot == IInv => OneSlotPerCaller
<1>1. SUFFICES ASSUME IInv, NEW s1 \in Slots, NEW s2 \in Slots,
                      key[s1] = key[s2], key[s1] # None, s1 # s2
               PROVE  FALSE
  BY DEF OneSlotPerCaller
<1>2. PICK p1 \in 0 .. Probes - 1 : Slot(key[s1], p1) = s1 /\ Passed(key[s1], p1)
  BY <1>1 DEF IInv, Placed
<1>3. PICK p2 \in 0 .. Probes - 1 : Slot(key[s1], p2) = s2 /\ Passed(key[s1], p2)
  BY <1>1 DEF IInv, Placed
<1>4. Probes \in Nat
  BY TableAssumption
<1>5. p1 < p2 \/ p2 < p1
  BY <1>1, <1>2, <1>3, <1>4
<1>6. CASE p1 < p2
  BY <1>6, <1>2, <1>3, <1>4 DEF Passed
<1>7. CASE p2 < p1
  <2>1. key[Slot(key[s1], p2)] # key[s1]
    BY <1>7, <1>2, <1>3, <1>4 DEF Passed
  <2>. QED
    BY <2>1, <1>1, <1>3
<1>. QED
  BY <1>5, <1>6, <1>7

-----------------------------------------------------------------------------
(* The invariant holds in every reachable state. *)
THEOREM Invariance == Spec => []IInv
  BY InitHolds, NextKeeps, PTL DEF Spec

(* No caller ever has two slots, however many threads race to make one      *)
(* (caller_slot's compare-exchange and its look at the winner).             *)
THEOREM OneSlotEach == Spec => []OneSlotPerCaller
  BY Invariance, OneSlot, PTL

(* The table's types are kept. *)
THEOREM TableTypes == Spec => []TypeOK
<1>1. IInv => TypeOK
  BY DEF IInv
<1>. QED
  BY <1>1, Invariance, PTL
-----------------------------------------------------------------------------
(***************************************************************************)
(* Attribution.  A name belongs to the key of its slot, a slot is ready    *)
(* only with a name, and a thread that names, publishes or reports under a *)
(* slot is at a slot of its own key.  The plain source is explained by     *)
(* Searching: the search that gave up had passed every slot.               *)
(***************************************************************************)
Named ==
    /\ \A s \in Slots : source[s] # None => source[s] = key[s]
    /\ \A s \in Slots : ready[s] => source[s] # None
    /\ \A t \in Threads : caller[t].at \in {"name", "publish", "slot"} =>
           key[Here(t)] = caller[t].key
    /\ \A t \in Threads : caller[t].at \in {"publish", "slot"} => source[Here(t)] # None

AInv == IInv /\ Named /\ PlainIsExcused

(* No step frees a slot or gives it another key. *)
LEMMA StepKeepsKeys == TypeOK /\ [Next]_vars => KeysStay
<1>1. ASSUME TypeOK, NEW t \in Threads, Claim(t) PROVE KeysStay
  BY <1>1, HereIsSlot DEF Claim, KeysStay, TypeOK
<1>. QED
  BY <1>1 DEF Next, vars, Step, Call, Load, Name, Publish, Return, KeysStay

(* A thread that stays in the table, or enters it, is at a slot of a key;   *)
(* the others are not disturbed by a step that writes neither their slot's  *)
(* key nor a name.                                                          *)
LEMMA OthersNamed ==
    ASSUME AInv, KeysStay, NEW t \in Threads, NEW u \in Threads, u # t,
           caller'[u] = caller[u],
           \A s \in Slots : source[s] # None => source'[s] # None
    PROVE  /\ caller'[u].at \in {"name", "publish", "slot"} => key'[Here(u)'] = caller'[u].key
           /\ caller'[u].at \in {"publish", "slot"} => source'[Here(u)'] # None
<1>1. Here(u)' = Here(u)
  BY DEF Here, Slot
<1>2. CASE caller[u].at \in {"name", "publish", "slot"}
  <2>1. Here(u) \in Slots /\ caller[u].key \in Keys
    BY <1>2, HereIsSlot DEF AInv, IInv
  <2>2. caller[u].key # None
    BY <2>1, TableAssumption
  <2>. QED
    BY <1>1, <1>2, <2>1, <2>2 DEF AInv, Named, KeysStay
<1>. QED
  BY <1>2

(* A plain report stays excused: slots are never freed. *)
LEMMA ExcuseStays ==
    ASSUME TypeOK, KeysStay, NEW t \in Threads, caller'[t] = caller[t],
           caller[t].at = "plain",
           \/ \E p \in 0 .. Probes - 1 : key[Slot(caller[t].key, p)] = caller[t].key
           \/ \A p \in 0 .. Probes - 1 : key[Slot(caller[t].key, p)] # None
    PROVE  \/ \E p \in 0 .. Probes - 1 : key'[Slot(caller'[t].key, p)] = caller'[t].key
           \/ \A p \in 0 .. Probes - 1 : key'[Slot(caller'[t].key, p)] # None
<1>1. caller[t].key \in Keys /\ caller[t].key # None
  BY HereIsSlot, TableAssumption
<1>2. Probes \in Nat
  BY TableAssumption
<1>3. \A p \in 0 .. Probes - 1 : Slot(caller[t].key, p) \in Slots
  BY <1>1, <1>2, SlotIsSlot
<1>. QED
  BY <1>1, <1>3 DEF KeysStay

(* A search that ends at a slot of its own key, or after the last probe,    *)
(* keeps the attribution.                                                   *)
LEMMA SearchAttributes ==
    ASSUME AInv, KeysStay, NEW t \in Threads, caller[t].at \in {"load", "claim"},
           Found(t) \/ PassesOver(t), UNCHANGED <<key, source, ready>>
    PROVE  Named' /\ PlainIsExcused'
<1>1. Here(t) \in Slots /\ caller[t].key \in Keys /\ caller[t].probe \in 0 .. Probes - 1
  BY HereIsSlot DEF AInv, IInv
<1>2. \A u \in Threads : u # t => caller'[u] = caller[u]
  BY DEF AInv, IInv, TypeOK, Found, PassesOver, Goes
<1>3. caller'[t].key = caller[t].key
  BY DEF AInv, IInv, TypeOK, Found, PassesOver, Goes
<1>4. CASE Found(t)
  <2>1. /\ key[Here(t)] = caller[t].key
        /\ caller'[t].at = IF ready[Here(t)] THEN "slot" ELSE "plain"
        /\ caller'[t].probe = caller[t].probe
    BY <1>4 DEF AInv, IInv, TypeOK, Found, Goes
  <2>2. Here(t)' = Here(t)
    BY <2>1, <1>3 DEF Here, Slot
  <2>3. Named'
    BY <1>1, <1>2, <1>3, <2>1, <2>2, OthersNamed DEF AInv, Named
  <2>4. PlainIsExcused'
    <3>1. SUFFICES ASSUME NEW u \in Threads, caller'[u].at = "plain"
                   PROVE  \/ \E p \in 0 .. Probes - 1 : key'[Slot(caller'[u].key, p)] = caller'[u].key
                          \/ \A p \in 0 .. Probes - 1 : key'[Slot(caller'[u].key, p)] # None
      BY DEF PlainIsExcused, Slot
    <3>2. CASE u = t
      BY <3>2, <1>1, <1>3, <2>1 DEF Here
    <3>3. CASE u # t
      BY <3>1, <3>3, <1>2, ExcuseStays DEF AInv, IInv, PlainIsExcused
    <3>. QED
      BY <3>2, <3>3
  <2>. QED
    BY <2>3, <2>4
<1>5. CASE PassesOver(t)
  <2>1. /\ key[Here(t)] \notin {None, caller[t].key}
        /\ \/ caller'[t].at = "load"
           \/ caller'[t].at = "plain" /\ ~(caller[t].probe + 1 < Probes)
    BY <1>5 DEF AInv, IInv, TypeOK, PassesOver, Goes
  <2>2. Named'
    BY <1>1, <1>2, <2>1, OthersNamed DEF AInv, Named
  <2>3. PlainIsExcused'
    <3>1. SUFFICES ASSUME NEW u \in Threads, caller'[u].at = "plain"
                   PROVE  \/ \E p \in 0 .. Probes - 1 : key'[Slot(caller'[u].key, p)] = caller'[u].key
                          \/ \A p \in 0 .. Probes - 1 : key'[Slot(caller'[u].key, p)] # None
      BY DEF PlainIsExcused, Slot
    <3>2. CASE u = t
      <4>1. caller[t].probe = Probes - 1
        BY <3>1, <3>2, <2>1, <1>1, TableAssumption
      <4>2. Passed(caller[t].key, Probes - 1)
        BY <4>1 DEF AInv, IInv, Searching
      <4>3. \A p \in 0 .. Probes - 1 : key[Slot(caller[t].key, p)] # None
        <5>1. ASSUME NEW p \in 0 .. Probes - 1 PROVE key[Slot(caller[t].key, p)] # None
          <6>1. CASE p = Probes - 1
            BY <6>1, <4>1, <2>1 DEF Here
          <6>2. CASE p # Probes - 1
            <7>1. p \in 0 .. (Probes - 1) - 1
              BY <6>2, TableAssumption
            <7>. QED
              BY <7>1, <4>2 DEF Passed
          <6>. QED
            BY <6>1, <6>2
        <5>. QED
          BY <5>1
      <4>. QED
        BY <3>2, <4>3, <1>3
    <3>3. CASE u # t
      BY <3>1, <3>3, <1>2, ExcuseStays DEF AInv, IInv, PlainIsExcused
    <3>. QED
      BY <3>2, <3>3
  <2>. QED
    BY <2>2, <2>3
<1>. QED
  BY <1>4, <1>5

(* So does the claim of a free slot: nothing was named there. *)
LEMMA ClaimAttributes ==
    ASSUME AInv, KeysStay, NEW t \in Threads, caller[t].at = "claim", key[Here(t)] = None,
           key' = [key EXCEPT ![Here(t)] = caller[t].key], Goes(t, "name"),
           UNCHANGED <<source, ready>>
    PROVE  Named' /\ PlainIsExcused'
<1>1. Here(t) \in Slots
  BY HereIsSlot DEF AInv, IInv
<1>2. /\ \A u \in Threads : u # t => caller'[u] = caller[u]
      /\ caller'[t].at = "name" /\ caller'[t].key = caller[t].key
      /\ caller'[t].probe = caller[t].probe
  BY DEF AInv, IInv, TypeOK, Goes
<1>3. Here(t)' = Here(t)
  BY <1>2 DEF Here, Slot
<1>4. /\ key'[Here(t)] = caller[t].key
      /\ \A s \in Slots : s # Here(t) => key'[s] = key[s]
  BY <1>1 DEF AInv, IInv, TypeOK
<1>5. source[Here(t)] = None
  BY <1>1 DEF AInv, Named
<1>6. Named'
  BY <1>2, <1>3, <1>4, <1>5, OthersNamed DEF AInv, Named
<1>7. PlainIsExcused'
  <2>1. SUFFICES ASSUME NEW u \in Threads, caller'[u].at = "plain"
                 PROVE  \/ \E p \in 0 .. Probes - 1 : key'[Slot(caller'[u].key, p)] = caller'[u].key
                        \/ \A p \in 0 .. Probes - 1 : key'[Slot(caller'[u].key, p)] # None
    BY DEF PlainIsExcused, Slot
  <2>. QED
    BY <2>1, <1>2, ExcuseStays DEF AInv, IInv, PlainIsExcused
<1>. QED
  BY <1>6, <1>7

(* The claimer names its slot for its own key. *)
LEMMA NameAttributes ==
    ASSUME AInv, KeysStay, NEW t \in Threads, Name(t)
    PROVE  Named' /\ PlainIsExcused'
<1>1. Here(t) \in Slots /\ caller[t].key # None
  BY HereIsSlot, TableAssumption DEF AInv, IInv, Name
<1>2. /\ \A u \in Threads : u # t => caller'[u] = caller[u]
      /\ caller'[t].at = "publish" /\ caller'[t].key = caller[t].key
      /\ caller'[t].probe = caller[t].probe
  BY DEF AInv, IInv, TypeOK, Goes, Name
<1>3. Here(t)' = Here(t)
  BY <1>2 DEF Here, Slot
<1>4. /\ source'[Here(t)] = caller[t].key
      /\ \A s \in Slots : s # Here(t) => source'[s] = source[s]
      /\ UNCHANGED <<key, ready>>
  BY <1>1 DEF AInv, IInv, TypeOK, Name
<1>5. key[Here(t)] = caller[t].key
  BY DEF AInv, Named, Name
<1>6. \A s \in Slots : source[s] # None => source'[s] # None
  BY <1>1, <1>4
<1>7. Named'
  BY <1>1, <1>2, <1>3, <1>4, <1>5, <1>6, OthersNamed DEF AInv, Named
<1>8. PlainIsExcused'
  BY <1>2, <1>4 DEF AInv, PlainIsExcused, Slot
<1>. QED
  BY <1>7, <1>8

(* It publishes the slot it has named. *)
LEMMA PublishAttributes ==
    ASSUME AInv, KeysStay, NEW t \in Threads, Publish(t)
    PROVE  Named' /\ PlainIsExcused'
<1>1. Here(t) \in Slots
  BY HereIsSlot DEF AInv, IInv, Publish
<1>2. /\ \A u \in Threads : u # t => caller'[u] = caller[u]
      /\ caller'[t].at = "slot" /\ caller'[t].key = caller[t].key
      /\ caller'[t].probe = caller[t].probe
  BY DEF AInv, IInv, TypeOK, Goes, Publish
<1>3. Here(t)' = Here(t)
  BY <1>2 DEF Here, Slot
<1>4. /\ \A s \in Slots : s # Here(t) => ready'[s] = ready[s]
      /\ UNCHANGED <<key, source>>
  BY <1>1 DEF AInv, IInv, TypeOK, Publish
<1>5. key[Here(t)] = caller[t].key /\ source[Here(t)] # None
  BY DEF AInv, Named, Publish
<1>6. Named'
  BY <1>1, <1>2, <1>3, <1>4, <1>5, OthersNamed DEF AInv, Named
<1>7. PlainIsExcused'
  BY <1>2, <1>4 DEF AInv, PlainIsExcused, Slot
<1>. QED
  BY <1>6, <1>7

(* A call, a report and a look at a free slot leave the table alone. *)
LEMMA QuietAttributes ==
    ASSUME AInv, KeysStay, NEW t \in Threads, UNCHANGED <<key, source, ready>>,
           \A u \in Threads : u # t => caller'[u] = caller[u],
           caller'[t].at \in {"out", "load", "claim"}
    PROVE  Named' /\ PlainIsExcused'
<1>1. Named'
  BY OthersNamed DEF AInv, Named
<1>2. PlainIsExcused'
  BY DEF AInv, PlainIsExcused, Slot
<1>. QED
  BY <1>1, <1>2

LEMMA NextAttributes == AInv /\ [Next]_vars => AInv'
<1>. SUFFICES ASSUME AInv, [Next]_vars PROVE AInv'
  OBVIOUS
<1>1. IInv' /\ KeysStay
  BY NextKeeps, StepKeepsKeys DEF AInv, IInv
<1>2. ASSUME NEW t \in Threads, Step(t) PROVE Named' /\ PlainIsExcused'
  <2>1. CASE Load(t)
    <3>1. CASE Found(t) \/ PassesOver(t)
      BY <3>1, <2>1, <1>1, SearchAttributes DEF Load
    <3>2. CASE Goes(t, "claim")
      BY <3>2, <2>1, <1>1, QuietAttributes DEF Load, Goes, AInv, IInv, TypeOK
    <3>. QED
      BY <2>1, <3>1, <3>2 DEF Load
  <2>2. CASE Claim(t)
    BY <2>2, <1>1, SearchAttributes, ClaimAttributes DEF Claim
  <2>3. CASE Name(t)
    BY <2>3, <1>1, NameAttributes
  <2>4. CASE Publish(t)
    BY <2>4, <1>1, PublishAttributes
  <2>5. CASE Return(t)
    BY <2>5, <1>1, QuietAttributes DEF Return, Idle, AInv, IInv, TypeOK
  <2>. QED
    BY <1>2, <2>1, <2>2, <2>3, <2>4, <2>5 DEF Step
<1>3. ASSUME NEW t \in Threads, NEW k \in Keys, Call(t, k) PROVE Named' /\ PlainIsExcused'
  BY <1>3, <1>1, QuietAttributes DEF Call, AInv, IInv, TypeOK
<1>4. CASE UNCHANGED vars
  BY <1>1, <1>4 DEF vars, AInv, Named, PlainIsExcused, Here, Slot
<1>. QED
  BY <1>1, <1>2, <1>3, <1>4 DEF Next, AInv

LEMMA InitAttributes == Init => AInv
<1>1. Init => Named /\ PlainIsExcused
  BY DEF Init, Idle, Named, PlainIsExcused
<1>. QED
  BY <1>1, InitHolds DEF AInv

(* Every text goes out under the right source, however the threads that     *)
(* claim, name and publish the slots of one table interleave (caller_slot,  *)
(* compose_caller_source).                                                  *)
THEOREM Attribution == Spec => []TextIsAttributed
<1>1. Spec => []AInv
  BY InitAttributes, NextAttributes, PTL DEF Spec
<1>2. AInv => TextIsAttributed
  <2>1. SUFFICES ASSUME AInv, NEW t \in Threads, caller[t].at = "slot"
                 PROVE  source[Here(t)] = caller[t].key
    BY DEF TextIsAttributed, SourceIsOwn, AInv
  <2>2. Here(t) \in Slots
    BY <2>1, HereIsSlot DEF AInv, IInv
  <2>. QED
    BY <2>1, <2>2 DEF AInv, Named
<1>. QED
  BY <1>1, <1>2, PTL

(* A slot, once claimed, is its caller's for as long as the plugin runs:    *)
(* the source a thread holds a pointer to never becomes another's.          *)
THEOREM SlotsAreKept == Spec => [][KeysStay]_vars
<1>1. TypeOK /\ [Next]_vars => [KeysStay]_vars
  BY StepKeepsKeys
<1>. QED
  BY <1>1, TableTypes, PTL DEF Spec

-----------------------------------------------------------------------------
(* HookThrottle.                                                           *)
Places == {"out", "count", "check", "recheck", "call", "report", "fuse", "exchange", "mute",
           "strike", "switch", "budget", "window", "first", "claim", "sweep", "lift", "trim"}

SinkCalls == [at : Places, sink : Sinks, since : Nat, now : Nat, start : Nat,
              next : {"out", "recheck", "trim"}, hot : Sinks, n : Nat, sum : Int, id : Sinks]

ThrottleTyped ==
    /\ clock \in Nat /\ total \in Nat /\ wstart \in Nat /\ crowded \in BOOLEAN
    /\ on \in [Sinks -> BOOLEAN]
    /\ calls \in [Sinks -> Nat] /\ fuse \in [Sinks -> Nat] /\ until \in [Sinks -> Nat]
    /\ strikes \in [Sinks -> Nat] /\ count \in [Sinks -> Int] /\ seen \in [Sinks -> Nat]
    /\ th \in [Callers -> SinkCalls]
    /\ offs \in [Sinks -> Nat] /\ offFor \in [Sinks -> 0 .. Pauses[2]]

Muting == {"mute", "strike", "switch"}

(* Whose mute a thread is in, and for which sink. *)
Courses ==
    \A t \in Callers :
        /\ th[t].next = "recheck" => th[t].at \in Muting /\ th[t].hot = th[t].sink
        /\ th[t].next = "trim" => th[t].at \in Muting \cup {"trim"}
        /\ th[t].at \in Muting => th[t].next # "out"
        /\ th[t].at \in {"strike", "switch"} => th[t].n > 0

(* A call lasts no longer than Stall, and the time it has read is of it.    *)
HasRead(t) ==
    th[t].at \in Muting \cup {"exchange", "window", "first", "claim", "sweep", "lift", "trim"}

InTime ==
    \A t \in Callers :
        /\ th[t].at # "out" => th[t].since <= clock /\ clock <= th[t].since + Stall
        /\ HasRead(t) => \E r \in 0 .. clock : th[t].since <= r /\ th[t].now = r % Wrap

(* The window is of the call that sweeps, or of one that won it since.      *)
WindowIsKnown ==
    \A t \in Callers :
        /\ th[t].at = "claim" \/ Sweeping(t) => ~(Elapsed(th[t].now, th[t].start) < Window)
        /\ Sweeping(t) => \E q \in 0 .. clock : th[t].since <= q + Stall /\ wstart = NonZero(q % Wrap)

Alone ==
    ~crowded => \A t, u \in Callers : t # u => ~(Sweeping(t) /\ Sweeping(u))

Off(s) == ~on[s] \/ until[s] # 0

(* A pause ends that long after the time that was read by the call that     *)
(* began it.                                                                *)
PausesAreRight ==
    \A s \in Sinks : on[s] /\ until[s] # 0 =>
        \E r \in 0 .. clock, n \in 1 .. 2 :
            /\ until[s] = Deadline(r % Wrap, n)
            /\ \/ offFor[s] = Pauses[2]
               \/ r + offFor[s] <= clock /\ clock <= r + offFor[s] + Stall

(* A call that has seen its hook on, and mutes it, or may: if it is off now *)
(* then by another call, since.                                             *)
PastCheck(t) == th[t].at \in {"call", "fuse", "exchange"} \/ th[t].next = "recheck"

MutedSince ==
    \A t \in Callers : PastCheck(t) /\ on[th[t].sink] /\ until[th[t].sink] # 0
        => th[t].since + offFor[th[t].sink] <= clock

(* A pause that a sweep has found to be over. *)
LiftIsDue ==
    ~crowded => \A t \in Callers :
        th[t].at = "lift" /\ on[th[t].id]
            => until[th[t].id] # 0 /\ offFor[th[t].id] + Stall >= Pauses[1]

(* Every switching off is counted; and by a call that is about to store its  *)
(* strike, or to switch its hook off, there will be one for that, unless    *)
(* the hook is off already.                                                 *)
HookStrikes(s) ==
    offs[s] <= strikes[s] /\ offs[s] <= MaxStrikes /\ (on[s] => offs[s] < MaxStrikes)

CallStrikes(t) ==
    LET s == th[t].hot IN
    /\ th[t].at \in {"strike", "switch"} => offs[s] <= th[t].n /\ (offs[s] < th[t].n \/ Off(s))
    /\ th[t].at = "switch" => offs[s] < strikes[s] \/ Off(s)

Striking ==
    ~crowded => (\A s \in Sinks : HookStrikes(s)) /\ (\A t \in Callers : CallStrikes(t))

-----------------------------------------------------------------------------
(* Times, counted modulo Wrap.                                              *)
LEMMA Division ==
  ASSUME NEW a \in Nat, NEW w \in Nat \ {0}
  PROVE  a = w * (a \div w) + (a % w) /\ a \div w \in Int /\ a % w \in 0 .. w - 1
OBVIOUS

LEMMA Remainder ==
  ASSUME NEW w \in Nat \ {0}, NEW x \in 0 .. w - 1, NEW y \in 0 .. w - 1,
         NEW k \in Int, NEW l \in Int, w * k + x = w * l + y
  PROVE  x = y
OBVIOUS

LEMMA TimePasses ==
  ASSUME NEW a \in Nat, NEW w \in Nat \ {0}, NEW d \in 0 .. w - 1
  PROVE  /\ (a % w) + d < w => (a + d) % w = (a % w) + d
         /\ ~((a % w) + d < w) => (a + d) % w = (a % w) + d - w
<1> DEFINE q == a \div w
           p == (a + d) \div w
           x == a % w
           y == (a + d) % w
<1>1. a = w * q + x /\ q \in Int /\ x \in 0 .. w - 1
  BY Division
<1>2. a + d = w * p + y /\ p \in Int /\ y \in 0 .. w - 1
  BY Division
<1> HIDE DEF q, p, x, y
<1>3. ASSUME x + d < w PROVE y = x + d
  <2>1. w * p + y = w * q + (x + d) /\ x + d \in 0 .. w - 1
    BY <1>1, <1>2, <1>3
  <2> QED
    BY <1>1, <1>2, <2>1, Remainder
<1>4. ASSUME ~(x + d < w) PROVE y = x + d - w
  <2>1. w * p + y = w * (q + 1) + (x + d - w) /\ x + d - w \in 0 .. w - 1 /\ q + 1 \in Int
    BY <1>1, <1>2, <1>4
  <2> QED
    BY <1>1, <1>2, <2>1, Remainder
<1> QED
  BY <1>3, <1>4 DEF x, y

(* The constants, in numbers.                                               *)
LEMMA Numbers ==
  /\ Wrap \in Nat \ {0} /\ Stall \in Nat /\ Window \in Nat /\ SpecCount \in Nat \ {0}
  /\ Pauses[1] \in Nat /\ Pauses[2] \in Nat /\ Pauses[1] <= Pauses[2]
  /\ 2 * Stall < Window /\ 2 * Stall < Pauses[1]
  /\ Wrap \div 2 \in Nat /\ 2 * (Wrap \div 2) <= Wrap /\ Pauses[2] + Stall < Wrap \div 2
<1>1. Wrap \div 2 \in Nat /\ 2 * (Wrap \div 2) <= Wrap
  BY ThrottleAssumption
<1> QED
  BY <1>1, ThrottleAssumption

LEMMA OneWrap ==
  ASSUME NEW w \in Nat \ {0}, NEW f \in Nat
  PROVE  /\ f < w => f % w = f
         /\ w <= f /\ f < w + w => f % w = f - w
<1>1. f = w * (f \div w) + (f % w) /\ f \div w \in Int /\ f % w \in 0 .. w - 1
  BY Division
<1> DEFINE r == f % w
           q == f \div w
<1> HIDE DEF r, q
<1>2. ASSUME f < w PROVE r = f
  <2>1. w * q + r = w * 0 + f /\ f \in 0 .. w - 1
    BY <1>1, <1>2 DEF r, q
  <2> QED
    BY <1>1, <2>1, Remainder DEF r, q
<1>3. ASSUME w <= f, f < w + w PROVE r = f - w
  <2>1. w * q + r = w * 1 + (f - w) /\ f - w \in 0 .. w - 1
    BY <1>1, <1>3 DEF r, q
  <2> QED
    BY <1>1, <2>1, Remainder DEF r, q
<1> QED
  BY <1>2, <1>3 DEF r

(* A time that is taken from an earlier one gives a huge difference.        *)
LEMMA EarlierIsNotOver ==
  ASSUME NEW a \in Nat, NEW b \in Nat, a < b, b - a < Wrap \div 2
  PROVE  ~Over(a % Wrap, NonZero(b % Wrap))
<1> DEFINE half == Wrap \div 2
           x == a % Wrap
           y == b % Wrap
<1>1. Wrap \in Nat \ {0} /\ half \in Nat /\ 2 * half <= Wrap
  BY Numbers
<1>2. PICK d \in 0 .. Wrap - 1 : d = b - a /\ d > 0 /\ d < half /\ b = a + d
  <2>1. b - a < half
    OBVIOUS
  <2> HIDE DEF half
  <2> QED
    BY <1>1, <2>1
<1>3. x \in 0 .. Wrap - 1 /\ y \in 0 .. Wrap - 1
  BY <1>1, Division
<1>4. /\ x + d < Wrap => y = x + d
      /\ ~(x + d < Wrap) => y = x + d - Wrap
  <2>1. /\ x + d < Wrap => (a + d) % Wrap = x + d
        /\ ~(x + d < Wrap) => (a + d) % Wrap = x + d - Wrap
    BY <1>1, TimePasses
  <2>2. (a + d) % Wrap = y
    BY <1>2
  <2> HIDE DEF x, y
  <2> QED
    BY <2>1, <2>2
<1> HIDE DEF half, x, y
<1> DEFINE e == Wrap + x - NonZero(y)
<1>5. \/ e \in 0 .. Wrap - 1 /\ e >= half
      \/ e \in Wrap .. Wrap + Wrap - 1 /\ e - Wrap >= half
  BY <1>1, <1>2, <1>3, <1>4 DEF NonZero
<1>6. e % Wrap >= half /\ e % Wrap \in Int
  <2> HIDE DEF e
  <2>1. e \in Nat /\ (e < Wrap \/ (Wrap <= e /\ e < Wrap + Wrap))
    BY <1>1, <1>5
  <2>2. /\ e < Wrap => e % Wrap = e
        /\ Wrap <= e /\ e < Wrap + Wrap => e % Wrap = e - Wrap
    BY <1>1, <2>1, OneWrap
  <2> QED
    BY <1>1, <1>5, <2>1, <2>2
<1>7. Elapsed(x, NonZero(y)) = e % Wrap
  BY DEF Elapsed
<1>8. ~(Elapsed(x, NonZero(y)) < half)
  <2> HIDE DEF e
  <2> QED
    BY <1>1, <1>6, <1>7
<1> QED
  BY <1>8 DEF Over, half, x, y

(* The time since an earlier one, where it is less than Wrap; but for the   *)
(* tick that nonzero() stores for another.                                  *)
LEMMA LaterIsElapsed ==
  ASSUME NEW a \in Nat, NEW b \in Nat, b <= a, a - b < Wrap,
         Elapsed(a % Wrap, NonZero(b % Wrap)) > a - b
  PROVE  ~Over(a % Wrap, NonZero(b % Wrap))
<1> DEFINE half == Wrap \div 2
           x == a % Wrap
           y == b % Wrap
           e == Wrap + x - NonZero(y)
<1>1. Wrap \in Nat \ {0} /\ half \in Nat /\ 2 * half <= Wrap /\ half > 0
  BY Numbers
<1>2. PICK d \in 0 .. Wrap - 1 : d = a - b /\ a = b + d
  BY <1>1
<1>3. x \in 0 .. Wrap - 1 /\ y \in 0 .. Wrap - 1
  BY <1>1, Division
<1>4. /\ y + d < Wrap => x = y + d
      /\ ~(y + d < Wrap) => x = y + d - Wrap
  <2>1. /\ y + d < Wrap => (b + d) % Wrap = y + d
        /\ ~(y + d < Wrap) => (b + d) % Wrap = y + d - Wrap
    BY <1>1, TimePasses
  <2>2. (b + d) % Wrap = x
    BY <1>2
  <2> HIDE DEF x, y
  <2> QED
    BY <2>1, <2>2
<1>5. Elapsed(x, NonZero(y)) = e % Wrap /\ e % Wrap > d
  BY <1>2 DEF Elapsed
<1> HIDE DEF half, x, y
<1>6. \/ e \in {Wrap + d, Wrap + d - 1} /\ e >= Wrap
      \/ e \in {d, d - 1} /\ e >= 0
      \/ e = Wrap - 1
  BY <1>1, <1>2, <1>3, <1>4 DEF NonZero
<1> HIDE DEF e
<1>7. e \in Nat /\ (e < Wrap \/ (Wrap <= e /\ e < Wrap + Wrap))
  BY <1>1, <1>2, <1>6
<1>8. /\ e < Wrap => e % Wrap = e
      /\ Wrap <= e /\ e < Wrap + Wrap => e % Wrap = e - Wrap
  BY <1>1, <1>7, OneWrap
<1>9. e % Wrap = Wrap - 1
  BY <1>1, <1>2, <1>5, <1>6, <1>7, <1>8
<1>10. ~(Elapsed(x, NonZero(y)) < half)
  BY <1>1, <1>5, <1>9
<1> QED
  BY <1>10 DEF Over, half, x, y

(* Two calls that read the time about when a window was started: the one    *)
(* that takes the window to be over has read it before.                     *)
LEMMA NoWindowIsOver ==
  ASSUME NEW a \in Nat, NEW b \in Nat, a <= b + 2 * Stall, b <= a + 2 * Stall,
         ~(Elapsed(a % Wrap, NonZero(b % Wrap)) < Window)
  PROVE  ~Over(a % Wrap, NonZero(b % Wrap))
<1> DEFINE half == Wrap \div 2
           e == Elapsed(a % Wrap, NonZero(b % Wrap))
<1>1. /\ Wrap \in Nat /\ half \in Nat /\ 2 * half <= Wrap /\ 2 * Stall < half
      /\ Stall \in Nat /\ Window \in Nat /\ 2 * Stall < Window
  BY Numbers
<1>2. e \in Int
  BY Numbers, Division DEF Elapsed, NonZero
<1>3. CASE a < b
  <2>1. b - a < half
    <3> HIDE DEF half
    <3> QED
      BY <1>1
  <2> QED
    BY <1>3, <2>1, EarlierIsNotOver
<1>4. CASE b <= a
  <2>1. a - b < Wrap /\ e > a - b
    <3> HIDE DEF half, e
    <3>1. ~(e < Window)
      BY DEF e
    <3> QED
      BY <1>1, <1>2, <1>4, <3>1
  <2> QED
    BY <1>4, <2>1, LaterIsElapsed
<1> QED
  BY <1>3, <1>4

(* A pause is not over before its end.                                      *)
LEMMA PauseLasts ==
  ASSUME NEW r \in Nat, NEW q \in Nat, NEW n \in 1 .. 2, r <= q + Stall,
         Over(q % Wrap, Deadline(r % Wrap, n))
  PROVE  r + Pauses[1] <= q
<1> DEFINE p == Pause(n)
           x == r % Wrap
           half == Wrap \div 2
<1>1. /\ Wrap \in Nat \ {0} /\ Stall \in Nat /\ half \in Nat /\ 2 * half <= Wrap
      /\ Pauses[1] \in Nat /\ p \in Nat /\ Pauses[1] <= p /\ p + Stall < half
  <2>1. p = Pauses[1] \/ p = Pauses[2]
    BY DEF Pause
  <2> HIDE DEF p
  <2> QED
    BY <2>1, Numbers
<1> HIDE DEF half
<1>2. p \in 0 .. Wrap - 1
  <2> HIDE DEF p
  <2> QED
    BY <1>1
<1>3. x \in 0 .. Wrap - 1
  BY <1>1, Division
<1>4. (x + p) % Wrap = (r + p) % Wrap
  <2>1. /\ x + p < Wrap => (r + p) % Wrap = x + p
        /\ ~(x + p < Wrap) => (r + p) % Wrap = x + p - Wrap
    BY <1>1, <1>2, TimePasses
  <2>2. x + p \in Nat /\ x + p < Wrap + Wrap
    <3> HIDE DEF x, p
    <3> QED
      BY <1>1, <1>2, <1>3
  <2> PICK y \in Nat : y = x + p
    BY <2>2
  <2>3. /\ y < Wrap => y % Wrap = y
        /\ Wrap <= y /\ y < Wrap + Wrap => y % Wrap = y - Wrap
    BY <1>1, OneWrap
  <2> HIDE DEF x, p
  <2> QED
    BY <1>1, <1>2, <1>3, <2>1, <2>2, <2>3
<1>5. Deadline(x, n) = NonZero((r + p) % Wrap)
  BY <1>4 DEF Deadline
<1>6. PICK b \in Nat : b = r + p
  <2> HIDE DEF p
  <2> QED
    BY <1>1
<1>7. ~(q < b /\ b - q < half)
  <2>1. Over(q % Wrap, NonZero(b % Wrap))
    BY <1>5, <1>6
  <2> QED
    BY <2>1, EarlierIsNotOver DEF half
<1> DEFINE f == Pauses[1]
<1>8. f \in Nat /\ f <= p
  BY <1>1
<1> HIDE DEF p, x, f
<1>9. r + f <= q
  BY <1>1, <1>6, <1>7, <1>8
<1> QED
  BY <1>9 DEF f

-----------------------------------------------------------------------------
(* What the steps do to the call of their thread.                           *)
Elsewhere(t) == th' \in [Callers -> SinkCalls] /\ \A u \in Callers : u # t => th'[u] = th[u]
SameCall(t) == th'[t].sink = th[t].sink /\ th'[t].since = th[t].since
SameTimes(t) == th'[t].now = th[t].now /\ th'[t].start = th[t].start
SameMute(t) == th'[t].hot = th[t].hot /\ th'[t].next = th[t].next

LEMMA CallIsTyped ==
  ASSUME ThrottleTyped, NEW t \in Callers
  PROVE  /\ th[t] \in SinkCalls /\ th[t].at \in Places /\ th[t].sink \in Sinks
         /\ th[t].since \in Nat /\ th[t].now \in Nat /\ th[t].start \in Nat
         /\ th[t].next \in {"out", "recheck", "trim"} /\ th[t].hot \in Sinks /\ th[t].n \in Nat
         /\ th[t].sum \in Int /\ th[t].id \in Sinks
<1>1. th[t] \in SinkCalls
  BY DEF ThrottleTyped
<1> QED
  BY <1>1 DEF SinkCalls

LEMMA NoCall ==
  /\ Out \in SinkCalls /\ Out.at = "out" /\ Out.next = "out"
<1>1. 0 \in Sinks
  BY ThrottleAssumption DEF Sinks
<1> QED
  BY <1>1 DEF Out, SinkCalls, Places

LEMMA Changes ==
  ASSUME ThrottleTyped, NEW t \in Callers, NEW c \in SinkCalls, th' = [th EXCEPT ![t] = c]
  PROVE  Elsewhere(t) /\ th'[t] = c
<1>1. th \in [Callers -> SinkCalls]
  BY DEF ThrottleTyped
<1> QED
  BY <1>1 DEF Elsewhere

LEMMA LeavesTheCall ==
  ASSUME ThrottleTyped, NEW t \in Callers, Leaves(t)
  PROVE  Elsewhere(t) /\ th'[t].at = "out" /\ th'[t].next = "out"
<1>1. Elsewhere(t) /\ th'[t] = Out
  BY NoCall, Changes DEF Leaves
<1> QED
  BY <1>1, NoCall

LEMMA ResumesTheCall ==
  ASSUME ThrottleTyped, NEW t \in Callers, NEW x \in Places, Resumes(t, x)
  PROVE  Elsewhere(t) /\ SameCall(t) /\ th'[t].at = x /\ th'[t].next = "out"
<1> DEFINE c == [Out EXCEPT !.at = x, !.sink = th[t].sink, !.since = th[t].since]
<1>1. c \in SinkCalls /\ c.at = x /\ c.sink = th[t].sink /\ c.since = th[t].since /\ c.next = "out"
  BY CallIsTyped, NoCall DEF Out, SinkCalls
<1>2. th' = [th EXCEPT ![t] = c]
  BY DEF Resumes
<1> HIDE DEF c
<1> QED
  BY <1>1, <1>2, Changes DEF SameCall

LEMMA GoesOnInTheCall ==
  ASSUME ThrottleTyped, NEW t \in Callers, NEW x \in Places, GoesOn(t, x)
  PROVE  /\ Elsewhere(t) /\ SameCall(t) /\ SameTimes(t) /\ SameMute(t)
         /\ th'[t].at = x /\ th'[t].n = th[t].n /\ th'[t].id = th[t].id
<1> DEFINE c == [th[t] EXCEPT !.at = x]
<1>1. c \in SinkCalls /\ th' = [th EXCEPT ![t] = c]
  BY CallIsTyped DEF SinkCalls, GoesOn
<1>2. /\ c.at = x /\ c.sink = th[t].sink /\ c.since = th[t].since /\ c.now = th[t].now
      /\ c.start = th[t].start /\ c.hot = th[t].hot /\ c.next = th[t].next /\ c.n = th[t].n
      /\ c.id = th[t].id
  BY CallIsTyped DEF SinkCalls
<1> HIDE DEF c
<1> QED
  BY <1>1, <1>2, Changes DEF SameCall, SameTimes, SameMute

LEMMA EnterMoves ==
  ASSUME ThrottleTyped, NEW t \in Callers, NEW s \in Sinks, Enter(t, s)
  PROVE  /\ Elsewhere(t) /\ th'[t].at = "count" /\ th'[t].next = "out"
         /\ th'[t].sink = s /\ th'[t].since = clock
<1> DEFINE c == [Out EXCEPT !.at = "count", !.sink = s, !.since = clock]
<1>1. c \in SinkCalls /\ c.at = "count" /\ c.next = "out" /\ c.sink = s /\ c.since = clock
  BY NoCall DEF Out, SinkCalls, Places, ThrottleTyped
<1>2. th' = [th EXCEPT ![t] = c]
  BY DEF Enter
<1> HIDE DEF c
<1> QED
  BY <1>1, <1>2, Changes

(* A thread that reads the time. *)
LEMMA ReadingMoves ==
  ASSUME ThrottleTyped, NEW t \in Callers, Fuse(t) \/ Budget(t)
  PROVE  /\ Elsewhere(t) /\ SameCall(t) /\ SameMute(t) /\ th'[t].now = Now
         /\ Fuse(t) => th[t].at = "fuse" /\ th'[t].at = "exchange"
         /\ Budget(t) => th[t].at = "budget" /\ th'[t].at = "window"
<1> DEFINE c(x) == [th[t] EXCEPT !.at = x, !.now = Now]
<1>0. Now \in Nat
  BY Numbers, Division DEF Now, ThrottleTyped
<1>1. ASSUME NEW x \in Places
      PROVE  /\ c(x) \in SinkCalls /\ c(x).at = x /\ c(x).sink = th[t].sink
             /\ c(x).since = th[t].since /\ c(x).now = Now /\ c(x).hot = th[t].hot
             /\ c(x).next = th[t].next
  BY <1>0, CallIsTyped DEF SinkCalls
<1>2. PICK x \in {"exchange", "window"} :
          /\ th' = [th EXCEPT ![t] = c(x)]
          /\ Fuse(t) => th[t].at = "fuse" /\ x = "exchange"
          /\ Budget(t) => th[t].at = "budget" /\ x = "window"
  <2>1. CASE Fuse(t)
    BY <2>1 DEF Fuse, Budget
  <2>2. CASE Budget(t)
    BY <2>2 DEF Fuse, Budget
  <2> QED
    BY <2>1, <2>2
<1>3. x \in Places
  BY DEF Places
<1>4. /\ c(x) \in SinkCalls /\ c(x).at = x /\ c(x).sink = th[t].sink
      /\ c(x).since = th[t].since /\ c(x).now = Now /\ c(x).hot = th[t].hot
      /\ c(x).next = th[t].next
  BY <1>1, <1>3
<1> HIDE DEF c
<1>5. Elsewhere(t) /\ th'[t] = c(x)
  BY <1>2, <1>4, Changes
<1>6. SameCall(t) /\ SameMute(t) /\ th'[t].now = Now /\ th'[t].at = x
  BY <1>4, <1>5 DEF SameCall, SameMute
<1> QED
  BY <1>2, <1>5, <1>6

LEMMA ExchangeMoves ==
  ASSUME ThrottleTyped, NEW t \in Callers, Exchange(t)
  PROVE  /\ th[t].at = "exchange" /\ Elsewhere(t) /\ SameCall(t)
         /\ \/ th'[t].at = "recheck" /\ th'[t].next = "out"
            \/ th'[t].at = "mute" /\ th'[t].next = "recheck" /\ th'[t].hot = th[t].sink
                  /\ th'[t].now = th[t].now
<1> DEFINE c == [th[t] EXCEPT !.at = "mute", !.hot = th[t].sink, !.next = "recheck"]
<1>1. c \in SinkCalls /\ c.at = "mute" /\ c.next = "recheck" /\ c.hot = th[t].sink
      /\ c.now = th[t].now /\ c.sink = th[t].sink /\ c.since = th[t].since
  BY CallIsTyped DEF SinkCalls, Places
<1>2. th[t].at = "exchange" /\ (th' = [th EXCEPT ![t] = c] \/ Resumes(t, "recheck"))
  BY DEF Exchange
<1>3. "recheck" \in Places
  BY DEF Places
<1> HIDE DEF c
<1> QED
  BY <1>1, <1>2, <1>3, Changes, ResumesTheCall DEF SameCall

LEMMA LoadMoves ==
  ASSUME ThrottleTyped, NEW t \in Callers, LoadStrikes(t)
  PROVE  /\ th[t].at = "mute" /\ Elsewhere(t) /\ SameCall(t) /\ SameTimes(t) /\ SameMute(t)
         /\ th'[t].at = "strike" /\ th'[t].n = strikes[th[t].hot] + 1
<1> DEFINE k == strikes[th[t].hot] + 1
           c == [th[t] EXCEPT !.at = "strike", !.n = k]
<1>0. k \in Nat
  BY CallIsTyped DEF ThrottleTyped
<1>1. th[t].at = "mute" /\ th' = [th EXCEPT ![t] = c]
  BY DEF LoadStrikes
<1> HIDE DEF k
<1>2. /\ c \in SinkCalls /\ c.at = "strike" /\ c.next = th[t].next /\ c.hot = th[t].hot
      /\ c.now = th[t].now /\ c.sink = th[t].sink /\ c.since = th[t].since
      /\ c.start = th[t].start /\ c.n = k
  BY <1>0, CallIsTyped DEF SinkCalls, Places
<1> HIDE DEF c
<1> QED
  BY <1>1, <1>2, Changes DEF SameCall, SameTimes, SameMute, k

LEMMA SwitchMoves ==
  ASSUME ThrottleTyped, NEW t \in Callers, Switch(t)
  PROVE  /\ th[t].at = "switch" /\ Elsewhere(t) /\ SameCall(t)
         /\ \/ th'[t].at = "recheck" /\ th'[t].next = "out"
            \/ th[t].next = "trim" /\ th'[t].at = "trim" /\ th'[t].next = "trim" /\ SameTimes(t)
<1>1. "recheck" \in Places /\ "trim" \in Places
  BY DEF Places
<1>2. th[t].at = "switch" /\ ((th[t].next = "trim" /\ GoesOn(t, "trim")) \/ Resumes(t, "recheck"))
  BY DEF Switch
<1>3. CASE Resumes(t, "recheck")
  BY <1>1, <1>2, <1>3, ResumesTheCall
<1>4. CASE th[t].next = "trim" /\ GoesOn(t, "trim")
  BY <1>1, <1>2, <1>4, GoesOnInTheCall DEF SameMute
<1> QED
  BY <1>2, <1>3, <1>4

LEMMA LookMoves ==
  ASSUME ThrottleTyped, NEW t \in Callers, LookAtWindow(t)
  PROVE  /\ th[t].at = "window" /\ Elsewhere(t) /\ SameCall(t)
         /\ \/ th'[t].at = "first" /\ th'[t].now = th[t].now /\ th'[t].next = th[t].next
            \/ th'[t].at = "check" /\ th'[t].next = "out"
            \/ /\ th'[t].at = "claim" /\ th'[t].now = th[t].now /\ th'[t].start = wstart
               /\ ~(Elapsed(th[t].now, wstart) < Window) /\ th'[t].next = th[t].next
<1> DEFINE c == [th[t] EXCEPT !.at = "claim", !.start = wstart]
<1>0. wstart \in Nat /\ "claim" \in Places
  BY DEF ThrottleTyped, Places
<1>1. /\ c \in SinkCalls /\ c.at = "claim" /\ c.next = th[t].next /\ c.now = th[t].now
      /\ c.sink = th[t].sink /\ c.since = th[t].since /\ c.start = wstart
  BY <1>0, CallIsTyped DEF SinkCalls
<1>2. /\ th[t].at = "window"
      /\ \/ GoesOn(t, "first")
         \/ Resumes(t, "check")
         \/ th' = [th EXCEPT ![t] = c] /\ ~(Elapsed(th[t].now, wstart) < Window)
  BY DEF LookAtWindow
<1>3. "first" \in Places /\ "check" \in Places
  BY DEF Places
<1> HIDE DEF c
<1> QED
  BY <1>1, <1>2, <1>3, Changes, ResumesTheCall, GoesOnInTheCall DEF SameCall, SameTimes, SameMute

LEMMA WinMoves ==
  ASSUME ThrottleTyped, NEW t \in Callers, Wins(t)
  PROVE  Elsewhere(t) /\ SameCall(t) /\ SameTimes(t) /\ SameMute(t) /\ th'[t].at = "sweep"
<1> DEFINE c == [th[t] EXCEPT !.at = "sweep", !.id = 0]
<1>0. 0 \in Sinks
  BY Numbers DEF Sinks
<1>1. /\ c \in SinkCalls /\ c.at = "sweep" /\ c.next = th[t].next /\ c.now = th[t].now
      /\ c.sink = th[t].sink /\ c.since = th[t].since /\ c.start = th[t].start
      /\ c.hot = th[t].hot
  BY <1>0, CallIsTyped DEF SinkCalls, Places
<1>2. th' = [th EXCEPT ![t] = c]
  BY DEF Wins
<1> HIDE DEF c
<1> QED
  BY <1>1, <1>2, Changes DEF SameCall, SameTimes, SameMute

LEMMA CountsMoves ==
  ASSUME ThrottleTyped, NEW t \in Callers, NEW s \in Sinks, Counts(t, s)
  PROVE  /\ Elsewhere(t) /\ SameCall(t) /\ SameTimes(t) /\ SameMute(t)
         /\ th'[t].at \in {"sweep", "trim"}
         /\ count' \in [Sinks -> Int] /\ seen' \in [Sinks -> Nat]
<1> DEFINE i == IF s + 1 < SpecCount THEN s + 1 ELSE 0
           x == IF s + 1 < SpecCount THEN "sweep" ELSE "trim"
           made == calls[s] - seen[s]
           y == th[t].sum + made
           c == [th[t] EXCEPT !.id = i, !.sum = y, !.at = x]
<1>0. i \in Sinks
  BY Numbers DEF Sinks
<1>1. made \in Int /\ x \in {"sweep", "trim"} /\ calls[s] \in Nat
  BY DEF ThrottleTyped
<1>y. y \in Int
  <2> HIDE DEF made
  <2> QED
    BY <1>1, CallIsTyped
<1>2. th' = [th EXCEPT ![t] = c]
  BY DEF Counts
<1>3. count' \in [Sinks -> Int] /\ seen' \in [Sinks -> Nat]
  <2> HIDE DEF made
  <2>1. count' = [count EXCEPT ![s] = made] /\ seen' = [seen EXCEPT ![s] = calls[s]]
    BY DEF Counts, made
  <2> QED
    BY <1>1, <2>1 DEF ThrottleTyped
<1> HIDE DEF i, x, made, y
<1>4. /\ c \in SinkCalls /\ c.at = x /\ c.next = th[t].next /\ c.now = th[t].now
      /\ c.sink = th[t].sink /\ c.since = th[t].since /\ c.start = th[t].start
      /\ c.hot = th[t].hot
  BY <1>0, <1>1, <1>y, CallIsTyped DEF SinkCalls, Places
<1> HIDE DEF c
<1> QED
  BY <1>1, <1>2, <1>3, <1>4, Changes DEF SameCall, SameTimes, SameMute

LEMMA SweepMoves ==
  ASSUME ThrottleTyped, NEW t \in Callers, Sweep(t)
  PROVE  /\ th[t].at = "sweep" /\ Elsewhere(t) /\ SameCall(t) /\ SameTimes(t) /\ SameMute(t)
         /\ count' \in [Sinks -> Int] /\ seen' \in [Sinks -> Nat]
         /\ \/ th'[t].at \in {"sweep", "trim"}
            \/ /\ th'[t].at = "lift" /\ th'[t].id = th[t].id
               /\ until[th[t].id] # 0 /\ Over(th[t].now, until[th[t].id])
<1>1. /\ th[t].at = "sweep"
      /\ \/ /\ Muted(th[t].id) /\ Over(th[t].now, until[th[t].id])
            /\ GoesOn(t, "lift") /\ UNCHANGED <<count, seen>>
         \/ Counts(t, th[t].id)
  BY DEF Sweep
<1>2. "lift" \in Places /\ th[t].id \in Sinks
  BY CallIsTyped DEF Places
<1> QED
  BY <1>1, <1>2, GoesOnInTheCall, CountsMoves DEF Muted, ThrottleTyped

LEMMA TrimMoves ==
  ASSUME ThrottleTyped, NEW t \in Callers, Trim(t)
  PROVE  /\ th[t].at = "trim" /\ Elsewhere(t) /\ SameCall(t) /\ count' \in [Sinks -> Int]
         /\ \/ th'[t].at = "check" /\ th'[t].next = "out"
            \/ th'[t].at = "mute" /\ th'[t].next = "trim" /\ SameTimes(t)
<1>1. CASE Resumes(t, "check") /\ UNCHANGED count
  <2>1. "check" \in Places
    BY DEF Places
  <2> QED
    BY <1>1, <2>1, ResumesTheCall DEF Trim, ThrottleTyped
<1>2. ASSUME NEW s \in Sinks,
             th' = [th EXCEPT ![t].at = "mute", ![t].hot = s, ![t].next = "trim",
                              ![t].sum = @ - count[s]],
             count' = [count EXCEPT ![s] = 0]
      PROVE  /\ Elsewhere(t) /\ SameCall(t) /\ count' \in [Sinks -> Int]
             /\ th'[t].at = "mute" /\ th'[t].next = "trim" /\ SameTimes(t)
  <2> DEFINE y == th[t].sum - count[s]
             c == [th[t] EXCEPT !.at = "mute", !.hot = s, !.next = "trim", !.sum = y]
  <2>1. y \in Int
    BY CallIsTyped DEF ThrottleTyped
  <2>3. th' = [th EXCEPT ![t] = c]
    BY <1>2
  <2> HIDE DEF y
  <2>2. /\ c \in SinkCalls /\ c.at = "mute" /\ c.next = "trim" /\ c.now = th[t].now
        /\ c.sink = th[t].sink /\ c.since = th[t].since /\ c.start = th[t].start
    BY <2>1, CallIsTyped DEF SinkCalls, Places
  <2>4. count' \in [Sinks -> Int]
    BY <1>2 DEF ThrottleTyped
  <2> HIDE DEF c
  <2> QED
    BY <2>2, <2>3, <2>4, Changes DEF SameCall, SameTimes
<1> QED
  BY <1>1, <1>2 DEF Trim

LEMMA CountMoves ==
  ASSUME ThrottleTyped, NEW t \in Callers, Count(t)
  PROVE  /\ th[t].at = "count" /\ Elsewhere(t) /\ SameCall(t) /\ SameMute(t)
         /\ th'[t].at \in {"budget", "check"}
<1>1. PICK x \in {"budget", "check"} : GoesOn(t, x)
  BY DEF Count
<1>2. x \in Places /\ th[t].at = "count"
  BY DEF Places, Count
<1> QED
  BY <1>1, <1>2, GoesOnInTheCall

LEMMA CheckMoves ==
  ASSUME ThrottleTyped, NEW t \in Callers, Check(t)
  PROVE  /\ th[t].at \in {"check", "recheck"} /\ Elsewhere(t)
         /\ \/ th'[t].at = "out" /\ th'[t].next = "out"
            \/ /\ SameCall(t) /\ SameMute(t)
               /\ th'[t].at = "report" \/ (th'[t].at = "call" /\ until[th[t].sink] = 0)
<1>1. \/ Leaves(t)
      \/ GoesOn(t, "report")
      \/ GoesOn(t, "call") /\ until[th[t].sink] = 0
  BY DEF Check, Muted
<1>2. {"report", "call"} \subseteq Places /\ th[t].at \in {"check", "recheck"}
  BY DEF Places, Check
<1> QED
  BY <1>1, <1>2, GoesOnInTheCall, LeavesTheCall

LEMMA CountCallMoves ==
  ASSUME ThrottleTyped, NEW t \in Callers, CountCall(t)
  PROVE  /\ th[t].at = "call" /\ Elsewhere(t) /\ SameCall(t) /\ SameMute(t)
         /\ th'[t].at \in {"fuse", "report"}
<1>1. PICK x \in {"fuse", "report"} : GoesOn(t, x)
  BY DEF CountCall
<1>2. x \in Places /\ th[t].at = "call"
  BY DEF Places, CountCall
<1> QED
  BY <1>1, <1>2, GoesOnInTheCall

LEMMA StoreMoves ==
  ASSUME ThrottleTyped, NEW t \in Callers, StoreStrikes(t)
  PROVE  /\ th[t].at = "strike" /\ Elsewhere(t) /\ SameCall(t) /\ SameTimes(t) /\ SameMute(t)
         /\ th'[t].at = "switch" /\ th'[t].n = th[t].n
<1>1. "switch" \in Places
  BY DEF Places
<1> QED
  BY <1>1, GoesOnInTheCall DEF StoreStrikes

LEMMA FirstMoves ==
  ASSUME ThrottleTyped, NEW t \in Callers, FirstWindow(t)
  PROVE  /\ th[t].at = "first" /\ Elsewhere(t) /\ SameCall(t)
         /\ th'[t].at = "check" /\ th'[t].next = "out"
<1>1. "check" \in Places
  BY DEF Places
<1> QED
  BY <1>1, ResumesTheCall DEF FirstWindow

LEMMA ClaimMoves ==
  ASSUME ThrottleTyped, NEW t \in Callers, ClaimWindow(t)
  PROVE  /\ th[t].at = "claim" /\ Elsewhere(t) /\ SameCall(t)
         /\ \/ /\ th'[t].at = "check" /\ th'[t].next = "out" /\ wstart' = wstart
               /\ crowded' = crowded
            \/ /\ th'[t].at = "sweep" /\ SameTimes(t) /\ SameMute(t)
               /\ wstart = th[t].start /\ wstart' = NonZero(th[t].now)
               /\ crowded' = (crowded \/ \E u \in Callers : Sweeping(u))
<1>1. "check" \in Places
  BY DEF Places
<1>2. \/ wstart = th[t].start /\ Wins(t)
      \/ Resumes(t, "check") /\ UNCHANGED <<wstart, crowded>>
  BY DEF ClaimWindow
<1>3. th[t].at = "claim"
  BY DEF ClaimWindow
<1> QED
  BY <1>1, <1>2, <1>3, ResumesTheCall, WinMoves DEF Wins

LEMMA LiftMoves ==
  ASSUME ThrottleTyped, NEW t \in Callers, Lift(t)
  PROVE  /\ th[t].at = "lift" /\ Elsewhere(t) /\ SameCall(t) /\ SameTimes(t) /\ SameMute(t)
         /\ th'[t].at \in {"sweep", "trim"}
         /\ count' \in [Sinks -> Int] /\ seen' \in [Sinks -> Nat]
<1>1. th[t].id \in Sinks
  BY CallIsTyped
<1> QED
  BY <1>1, CountsMoves DEF Lift

LEMMA ReportMoves ==
  ASSUME ThrottleTyped, NEW t \in Callers, Report(t)
  PROVE  th[t].at = "report" /\ Elsewhere(t) /\ th'[t].at = "out" /\ th'[t].next = "out"
BY LeavesTheCall DEF Report

(* Whatever the step, it is of one thread, in no time, and the call stays   *)
(* the same; a time that it has read it has read before, or now.            *)
LEMMA StepMoves ==
  ASSUME ThrottleTyped, NEW t \in Callers, ThrottleStep(t)
  PROVE  /\ clock' = clock /\ Elsewhere(t) /\ th[t].at # "out"
         /\ (th'[t].at = "out" /\ th'[t].next = "out") \/ SameCall(t)
         /\ HasRead(t)' => th'[t].now = Now \/ (HasRead(t) /\ th'[t].now = th[t].now)
<1> USE DEF HasRead, Muting, SameTimes
<1>0. clock' = clock
  BY DEF ThrottleStep, Count, Check, CountCall, Report, Fuse, Exchange, LoadStrikes, StoreStrikes,
     Switch, Budget, LookAtWindow, FirstWindow, ClaimWindow, Sweep, Lift, Trim
<1>1. CASE Count(t) \/ Check(t) \/ CountCall(t) \/ Report(t)
  BY <1>0, <1>1, CountMoves, CheckMoves, CountCallMoves, ReportMoves
<1>2. CASE Fuse(t) \/ Budget(t) \/ Exchange(t) \/ LoadStrikes(t) \/ StoreStrikes(t) \/ Switch(t)
  BY <1>0, <1>2, ReadingMoves, ExchangeMoves, LoadMoves, StoreMoves, SwitchMoves
<1>3. CASE LookAtWindow(t) \/ FirstWindow(t) \/ ClaimWindow(t)
  BY <1>0, <1>3, LookMoves, FirstMoves, ClaimMoves
<1>4. CASE Sweep(t) \/ Lift(t) \/ Trim(t)
  BY <1>0, <1>4, SweepMoves, LiftMoves, TrimMoves
<1> QED
  BY <1>1, <1>2, <1>3, <1>4 DEF ThrottleStep

-----------------------------------------------------------------------------
(* The parts of the invariant, kept by every step.                          *)
LEMMA ThrottleTypedKept == ThrottleTyped /\ [ThrottleNext]_throttleVars => ThrottleTyped'
<1> SUFFICES ASSUME ThrottleTyped, [ThrottleNext]_throttleVars PROVE ThrottleTyped'
  OBVIOUS
<1>a. ASSUME NEW t \in Callers, ThrottleStep(t) PROVE th' \in [Callers -> SinkCalls]
  BY <1>a, StepMoves DEF Elsewhere
<1>b. \A x \in Nat : NonZero(x) \in Nat
  BY DEF NonZero
<1>1. CASE Tick
  BY <1>1, Numbers DEF Tick, ThrottleTyped, spec, budget
<1>2. ASSUME NEW t \in Callers, NEW s \in Sinks, Enter(t, s) PROVE ThrottleTyped'
  <2>1. th' \in [Callers -> SinkCalls]
    BY <1>2, EnterMoves DEF Elsewhere
  <2> QED
    BY <1>2, <2>1 DEF Enter, ThrottleTyped, spec, budget, switches
<1>3. ASSUME NEW t \in Callers, Count(t) PROVE ThrottleTyped'
  BY <1>3, <1>a DEF ThrottleStep, Count, ThrottleTyped, spec, switches
<1>4. ASSUME NEW t \in Callers,
             \/ Check(t) \/ Report(t) \/ Fuse(t) \/ LoadStrikes(t) \/ Budget(t) \/ LookAtWindow(t)
      PROVE  ThrottleTyped'
  BY <1>4, <1>a DEF ThrottleStep, Check, Report, Fuse, LoadStrikes, Budget, LookAtWindow,
     ThrottleTyped, spec, budget, switches
<1>5. ASSUME NEW t \in Callers, CountCall(t) PROVE ThrottleTyped'
  <2> DEFINE s == th[t].sink
  <2>1. s \in Sinks /\ calls' = [calls EXCEPT ![s] = calls[s] + 1] /\ th' \in [Callers -> SinkCalls]
    BY <1>5, <1>a, CallIsTyped DEF CountCall, ThrottleStep
  <2> HIDE DEF s
  <2>2. calls' \in [Sinks -> Nat]
    BY <2>1 DEF ThrottleTyped
  <2> QED
    BY <1>5, <2>1, <2>2 DEF CountCall, ThrottleTyped, budget, switches
<1>6. ASSUME NEW t \in Callers, Exchange(t) PROVE ThrottleTyped'
  <2>1. fuse' = [fuse EXCEPT ![th[t].sink] = NonZero(th[t].now)] /\ NonZero(th[t].now) \in Nat
    BY <1>6, <1>b, CallIsTyped DEF Exchange
  <2> QED
    BY <1>6, <1>a, <2>1 DEF ThrottleStep, Exchange, ThrottleTyped, budget, switches
<1>7. ASSUME NEW t \in Callers, StoreStrikes(t) PROVE ThrottleTyped'
  BY <1>7, <1>a, CallIsTyped DEF ThrottleStep, StoreStrikes, ThrottleTyped, budget, switches
<1>8. ASSUME NEW t \in Callers, Switch(t) PROVE ThrottleTyped'
  <2> DEFINE s == th[t].hot
  <2>1. s \in Sinks /\ th[t].now \in Nat
    BY CallIsTyped
  <2>2. ASSUME NEW n PROVE Deadline(th[t].now, n) \in Nat
    <3>1. Pause(n) \in Nat /\ Wrap \in Nat \ {0}
      BY Numbers DEF Pause
    <3>2. th[t].now + Pause(n) \in Nat
      BY <2>1, <3>1
    <3> PICK a \in Nat : a = th[t].now + Pause(n)
      BY <3>2
    <3>3. (th[t].now + Pause(n)) % Wrap \in Nat
      <4>1. a % Wrap \in 0 .. Wrap - 1
        BY <3>1, Division
      <4> QED
        BY <3>1, <4>1
    <3> QED
      BY <1>b, <3>3 DEF Deadline
  <2>3. \/ on' = [on EXCEPT ![s] = FALSE] /\ UNCHANGED until
        \/ (\E n : until' = [until EXCEPT ![s] = Deadline(th[t].now, n)]) /\ UNCHANGED on
    BY <1>8 DEF Switch
  <2>4. on' \in [Sinks -> BOOLEAN] /\ until' \in [Sinks -> Nat]
    <3>1. CASE on' = [on EXCEPT ![s] = FALSE] /\ UNCHANGED until
      BY <3>1 DEF ThrottleTyped
    <3>2. ASSUME NEW n, until' = [until EXCEPT ![s] = Deadline(th[t].now, n)], UNCHANGED on
          PROVE  on' \in [Sinks -> BOOLEAN] /\ until' \in [Sinks -> Nat]
      <4> HIDE DEF s
      <4> QED
        BY <2>2, <3>2 DEF ThrottleTyped
    <3> QED
      BY <2>3, <3>1, <3>2
  <2>5. offs' \in [Sinks -> Nat] /\ offFor' \in [Sinks -> 0 .. Pauses[2]]
    <3>1. /\ offs' = [offs EXCEPT ![s] = offs[s] + 1] \/ offs' = [offs EXCEPT ![s] = offs[s]]
          /\ offFor' = [offFor EXCEPT ![s] = 0]
      BY <1>8 DEF Switch
    <3> HIDE DEF s
    <3> QED
      BY <2>1, <3>1, Numbers DEF ThrottleTyped
  <2> QED
    BY <1>8, <1>a, <2>4, <2>5 DEF ThrottleStep, Switch, ThrottleTyped, budget
<1>9. ASSUME NEW t \in Callers, FirstWindow(t) PROVE ThrottleTyped'
  <2>1. wstart' \in Nat
    BY <1>9, <1>b, CallIsTyped DEF FirstWindow, ThrottleTyped
  <2> QED
    BY <1>9, <1>a, <2>1 DEF ThrottleStep, FirstWindow, ThrottleTyped, spec, switches
<1>10. ASSUME NEW t \in Callers, ClaimWindow(t) PROVE ThrottleTyped'
  <2>1. wstart' \in Nat /\ crowded' \in BOOLEAN
    BY <1>10, <1>b, CallIsTyped, ClaimMoves DEF ThrottleTyped
  <2> QED
    BY <1>10, <1>a, <2>1 DEF ThrottleStep, ClaimWindow, ThrottleTyped, spec, switches
<1>11. ASSUME NEW t \in Callers, Sweep(t) PROVE ThrottleTyped'
  BY <1>11, <1>a, SweepMoves DEF ThrottleStep, Sweep, ThrottleTyped, spec, switches
<1>12. ASSUME NEW t \in Callers, Lift(t) PROVE ThrottleTyped'
  BY <1>12, <1>a, LiftMoves DEF ThrottleStep, Lift, ThrottleTyped, switches
<1>13. ASSUME NEW t \in Callers, Trim(t) PROVE ThrottleTyped'
  BY <1>13, <1>a, TrimMoves DEF ThrottleStep, Trim, ThrottleTyped, spec, switches
<1>14. CASE UNCHANGED throttleVars
  BY <1>14 DEF throttleVars, ThrottleTyped, spec, budget, switches
<1> QED
  BY <1>1, <1>2, <1>3, <1>4, <1>5, <1>6, <1>7, <1>8, <1>9, <1>10, <1>11, <1>12, <1>13, <1>14
     DEF ThrottleNext, ThrottleStep

LEMMA CoursesKept == ThrottleTyped /\ Courses /\ [ThrottleNext]_throttleVars => Courses'
<1> SUFFICES ASSUME ThrottleTyped, Courses, [ThrottleNext]_throttleVars, NEW u \in Callers
             PROVE  /\ th'[u].next = "recheck" => th'[u].at \in Muting /\ th'[u].hot = th'[u].sink
                    /\ th'[u].next = "trim" => th'[u].at \in Muting \cup {"trim"}
                    /\ th'[u].at \in Muting => th'[u].next # "out"
                    /\ th'[u].at \in {"strike", "switch"} => th'[u].n > 0
  BY DEF Courses
<1> USE DEF Courses, Muting, SameCall, SameMute
<1>1. CASE Tick \/ UNCHANGED throttleVars
  BY <1>1 DEF Tick, throttleVars
<1>2. ASSUME NEW t \in Callers, NEW s \in Sinks, Enter(t, s) PROVE Courses'
  BY <1>2, EnterMoves DEF Elsewhere
<1>3. ASSUME NEW t \in Callers, ThrottleStep(t) PROVE Courses'
  <2>e. Elsewhere(t)
    BY <1>3, StepMoves
  <2>1. CASE Count(t) \/ Check(t) \/ CountCall(t) \/ Report(t)
    BY <2>e, <2>1, CountMoves, CheckMoves, CountCallMoves, ReportMoves DEF Elsewhere
  <2>2. CASE Fuse(t) \/ Budget(t) \/ Exchange(t)
    BY <2>e, <2>2, ReadingMoves, ExchangeMoves DEF Elsewhere
  <2>3. CASE LoadStrikes(t) \/ StoreStrikes(t) \/ Switch(t)
    <3>1. strikes[th[t].hot] \in Nat
      BY CallIsTyped DEF ThrottleTyped
    <3> QED
      BY <2>e, <2>3, <3>1, LoadMoves, StoreMoves, SwitchMoves DEF Elsewhere
  <2>4. CASE LookAtWindow(t) \/ FirstWindow(t) \/ ClaimWindow(t)
    BY <2>e, <2>4, LookMoves, FirstMoves, ClaimMoves DEF Elsewhere
  <2>5. CASE Sweep(t) \/ Lift(t) \/ Trim(t)
    BY <2>e, <2>5, SweepMoves, LiftMoves, TrimMoves DEF Elsewhere
  <2> QED
    BY <1>3, <2>1, <2>2, <2>3, <2>4, <2>5 DEF ThrottleStep
<1> QED
  BY <1>1, <1>2, <1>3 DEF ThrottleNext

LEMMA InTimeKept == ThrottleTyped /\ InTime /\ [ThrottleNext]_throttleVars => InTime'
<1> SUFFICES ASSUME ThrottleTyped, InTime, [ThrottleNext]_throttleVars, NEW u \in Callers
             PROVE  /\ th'[u].at # "out" => th'[u].since <= clock' /\ clock' <= th'[u].since + Stall
                    /\ HasRead(u)' => \E r \in 0 .. clock' : th'[u].since <= r /\ th'[u].now = r % Wrap
  BY DEF InTime
<1>0. clock \in Nat /\ Stall \in Nat /\ th[u].since \in Nat
  BY Numbers, CallIsTyped DEF ThrottleTyped
<1>1. CASE Tick
  <2>1. clock' = clock + 1 /\ th' = th /\ (th[u].at # "out" => clock - th[u].since < Stall)
    BY <1>1 DEF Tick
  <2>2. HasRead(u)' <=> HasRead(u)
    BY <2>1 DEF HasRead
  <2> QED
    BY <1>0, <2>1, <2>2 DEF InTime
<1>2. CASE UNCHANGED throttleVars
  BY <1>2 DEF throttleVars, HasRead, InTime
<1>3. ASSUME NEW t \in Callers, NEW s \in Sinks, Enter(t, s) PROVE InTime'
  <2>1. /\ clock' = clock /\ Elsewhere(t) /\ th'[t].at = "count" /\ th'[t].next = "out"
        /\ th'[t].since = clock
    BY <1>3, EnterMoves DEF Enter
  <2> QED
    BY <1>0, <2>1 DEF InTime, HasRead, Elsewhere, Muting
<1>4. ASSUME NEW t \in Callers, ThrottleStep(t) PROVE InTime'
  <2>1. /\ clock' = clock /\ Elsewhere(t) /\ th[t].at # "out"
        /\ (th'[t].at = "out" /\ th'[t].next = "out") \/ SameCall(t)
        /\ HasRead(t)' => th'[t].now = Now \/ (HasRead(t) /\ th'[t].now = th[t].now)
    BY <1>4, StepMoves
  <2>2. /\ th'[t].at # "out" => th'[t].since <= clock' /\ clock' <= th'[t].since + Stall
        /\ HasRead(t)' => th'[t].at # "out"
    BY <2>1 DEF InTime, SameCall, HasRead, Muting
  <2>3. ASSUME HasRead(t)' PROVE \E r \in 0 .. clock' : th'[t].since <= r /\ th'[t].now = r % Wrap
    <3>1. th'[t].since = th[t].since /\ th[t].since <= clock
      BY <2>1, <2>2, <2>3 DEF SameCall, InTime
    <3>2. CASE th'[t].now = Now
      BY <1>0, <2>1, <3>1, <3>2 DEF Now
    <3>3. CASE HasRead(t) /\ th'[t].now = th[t].now
      BY <2>1, <3>1, <3>3 DEF InTime
    <3> QED
      BY <2>1, <2>3, <3>2, <3>3
  <2>4. ASSUME NEW v \in Callers, v # t
        PROVE  /\ th'[v].at # "out" => th'[v].since <= clock' /\ clock' <= th'[v].since + Stall
               /\ HasRead(v)' => \E r \in 0 .. clock' : th'[v].since <= r /\ th'[v].now = r % Wrap
    BY <2>1, <2>4 DEF InTime, Elsewhere, HasRead
  <2> QED
    BY <2>2, <2>3, <2>4 DEF InTime
<1> QED
  BY <1>1, <1>2, <1>3, <1>4 DEF ThrottleNext, InTime

(* Only who wins the window begins to sweep, and it is then the sweeper's.  *)
WinsWindow(t) ==
    /\ th[t].at = "claim" /\ wstart = th[t].start /\ wstart' = NonZero(th[t].now)
    /\ crowded' = (crowded \/ \E u \in Callers : Sweeping(u))

LEMMA SweepersMove ==
  ASSUME ThrottleTyped, Courses, NEW t \in Callers, ThrottleStep(t)
  PROVE  /\ Sweeping(t)' => SameCall(t) /\ SameTimes(t)
         /\ Sweeping(t)' => Sweeping(t) \/ WinsWindow(t)
         /\ th'[t].at = "claim" => ~(Elapsed(th'[t].now, th'[t].start) < Window)
         /\ wstart' = wstart \/ wstart = 0 \/ WinsWindow(t)
         /\ crowded' = crowded \/ WinsWindow(t)
<1> USE DEF Sweeping, SameMute, Courses, Muting
<1>0. \/ wstart' = wstart /\ crowded' = crowded
      \/ FirstWindow(t) /\ crowded' = crowded
      \/ ClaimWindow(t)
  BY DEF ThrottleStep, Count, Check, CountCall, Report, Fuse, Exchange, LoadStrikes, StoreStrikes,
     Switch, Budget, LookAtWindow, FirstWindow, Sweep, Lift, Trim, budget
<1>1. CASE Count(t) \/ Check(t) \/ CountCall(t) \/ Report(t)
  <2>1. wstart' = wstart /\ crowded' = crowded
    BY <1>1 DEF Count, Check, CountCall, Report, budget
  <2> QED
    BY <1>1, <2>1, CountMoves, CheckMoves, CountCallMoves, ReportMoves
<1>2. CASE Fuse(t) \/ Budget(t) \/ Exchange(t)
  <2>1. wstart' = wstart /\ crowded' = crowded
    BY <1>2 DEF Fuse, Budget, Exchange, budget
  <2> QED
    BY <1>2, <2>1, ReadingMoves, ExchangeMoves
<1>3. CASE LoadStrikes(t) \/ StoreStrikes(t) \/ Switch(t)
  <2>1. wstart' = wstart /\ crowded' = crowded
    BY <1>3 DEF LoadStrikes, StoreStrikes, Switch, budget
  <2> QED
    BY <1>3, <2>1, LoadMoves, StoreMoves, SwitchMoves
<1>4. CASE LookAtWindow(t)
  <2>1. wstart' = wstart /\ crowded' = crowded
    BY <1>4 DEF LookAtWindow, budget
  <2> QED
    BY <1>4, <2>1, LookMoves
<1>5. CASE FirstWindow(t)
  <2>1. (wstart' = wstart \/ wstart = 0) /\ crowded' = crowded
    BY <1>5 DEF FirstWindow
  <2> QED
    BY <1>5, <2>1, FirstMoves
<1>6. CASE ClaimWindow(t)
  BY <1>6, ClaimMoves DEF WinsWindow
<1>7. CASE Sweep(t) \/ Lift(t) \/ Trim(t)
  <2>1. wstart' = wstart /\ crowded' = crowded
    BY <1>7 DEF Sweep, Lift, Trim
  <2> QED
    BY <1>7, <2>1, SweepMoves, LiftMoves, TrimMoves
<1> QED
  BY <1>1, <1>2, <1>3, <1>4, <1>5, <1>6, <1>7 DEF ThrottleStep

LEMMA WindowIsKnownKept ==
  /\ ThrottleTyped /\ Courses /\ InTime /\ WindowIsKnown
  /\ [ThrottleNext]_throttleVars
  => WindowIsKnown'
<1> SUFFICES ASSUME ThrottleTyped, Courses, InTime, WindowIsKnown, [ThrottleNext]_throttleVars
             PROVE  WindowIsKnown'
  OBVIOUS
<1>0. clock \in Nat /\ Stall \in Nat /\ \A u \in Callers : th[u].since \in Nat
  BY Numbers, CallIsTyped DEF ThrottleTyped
<1>1. CASE Tick \/ UNCHANGED throttleVars
  <2>1. /\ th' = th /\ wstart' = wstart /\ (clock' = clock + 1 \/ clock' = clock)
        /\ \A u \in Callers : Sweeping(u)' <=> Sweeping(u)
    BY <1>1 DEF Tick, throttleVars, budget, Sweeping
  <2>2. 0 .. clock \subseteq 0 .. clock'
    BY <1>0, <2>1
  <2> QED
    BY <2>1, <2>2 DEF WindowIsKnown
<1>2. ASSUME NEW t \in Callers, NEW s \in Sinks, Enter(t, s) PROVE WindowIsKnown'
  <2>1. clock' = clock /\ wstart' = wstart
    BY <1>2 DEF Enter, budget
  <2> QED
    BY <1>2, <2>1, EnterMoves DEF WindowIsKnown, Sweeping, Elsewhere
<1>3. ASSUME NEW t \in Callers, ThrottleStep(t) PROVE WindowIsKnown'
  <2>1. clock' = clock /\ Elsewhere(t)
    BY <1>3, StepMoves
  <2>2. /\ Sweeping(t)' => SameCall(t) /\ SameTimes(t)
        /\ Sweeping(t)' => Sweeping(t) \/ WinsWindow(t)
        /\ th'[t].at = "claim" => ~(Elapsed(th'[t].now, th'[t].start) < Window)
        /\ wstart' = wstart \/ wstart = 0 \/ WinsWindow(t)
    BY <1>3, SweepersMove
  <2>3. ASSUME NEW u \in Callers, th'[u].at = "claim" \/ Sweeping(u)'
        PROVE  ~(Elapsed(th'[u].now, th'[u].start) < Window)
    <3>1. CASE u = t
      BY <2>2, <2>3, <3>1 DEF WindowIsKnown, SameTimes, WinsWindow
    <3>2. CASE u # t
      BY <2>1, <2>3, <3>2 DEF WindowIsKnown, Elsewhere, Sweeping
    <3> QED
      BY <3>1, <3>2
  <2>4. ASSUME NEW u \in Callers, Sweeping(u)'
        PROVE  \E q \in 0 .. clock' : th'[u].since <= q + Stall /\ wstart' = NonZero(q % Wrap)
    <3>1. th'[u].since = th[u].since /\ (Sweeping(u) \/ (u = t /\ WinsWindow(t)))
      BY <2>1, <2>2, <2>4 DEF SameCall, Elsewhere, Sweeping
    <3>2. CASE WinsWindow(t)
      <4>1. PICK r \in 0 .. clock : th[t].since <= r /\ th[t].now = r % Wrap
        BY <3>2 DEF WinsWindow, InTime, HasRead
      <4>2. clock <= th[t].since + Stall /\ th[u].since <= clock
        BY <3>1, <3>2 DEF WinsWindow, InTime, Sweeping, Courses, Muting
      <4>3. th[u].since <= r + Stall
        BY <1>0, <4>1, <4>2
      <4> QED
        BY <2>1, <3>1, <3>2, <4>1, <4>3 DEF WinsWindow
    <3>3. CASE ~WinsWindow(t)
      <4>1. PICK q \in 0 .. clock : th[u].since <= q + Stall /\ wstart = NonZero(q % Wrap)
        BY <3>1, <3>3 DEF WindowIsKnown
      <4>2. wstart # 0
        BY <4>1, Division, Numbers DEF NonZero
      <4> QED
        BY <2>1, <2>2, <3>1, <3>3, <4>1, <4>2
    <3> QED
      BY <3>2, <3>3
  <2> QED
    BY <2>3, <2>4 DEF WindowIsKnown
<1> QED
  BY <1>1, <1>2, <1>3 DEF ThrottleNext

(* Who wins the window while another thread sweeps has not seen its end.    *)
LEMMA LateWinner ==
  ASSUME ThrottleTyped, Courses, InTime, WindowIsKnown, NEW t \in Callers, NEW u \in Callers,
         WinsWindow(t), Sweeping(u)
  PROVE  ~SeesEnd(t)
<1>0. clock \in Nat /\ Stall \in Nat /\ th[u].since \in Nat /\ th[t].since \in Nat
  BY Numbers, CallIsTyped DEF ThrottleTyped
<1>1. PICK q \in 0 .. clock : th[u].since <= q + Stall /\ wstart = NonZero(q % Wrap)
  BY DEF WindowIsKnown
<1>2. PICK r \in 0 .. clock : th[t].since <= r /\ th[t].now = r % Wrap
  BY DEF WinsWindow, InTime, HasRead
<1>3. clock <= th[t].since + Stall /\ clock <= th[u].since + Stall
  BY DEF WinsWindow, InTime, Sweeping, Courses, Muting
<1>4. ~(Elapsed(th[t].now, th[t].start) < Window) /\ th[t].start = NonZero(q % Wrap)
  BY <1>1 DEF WinsWindow, WindowIsKnown
<1>5. q \in Nat /\ r \in Nat /\ r <= q + 2 * Stall /\ q <= r + 2 * Stall
  BY <1>0, <1>1, <1>2, <1>3
<1> QED
  BY <1>2, <1>4, <1>5, NoWindowIsOver DEF SeesEnd

LEMMA OneSweeperKept ==
  /\ ThrottleTyped /\ Courses /\ InTime /\ WindowIsKnown /\ OneSweeper
  /\ [ThrottleNext]_throttleVars
  => OneSweeper'
<1> SUFFICES ASSUME ThrottleTyped, Courses, InTime, WindowIsKnown, OneSweeper,
                    [ThrottleNext]_throttleVars
             PROVE  OneSweeper'
  OBVIOUS
<1>1. CASE Tick \/ UNCHANGED throttleVars
  BY <1>1 DEF Tick, throttleVars, OneSweeper, Sweeping, SeesEnd
<1>2. ASSUME NEW t \in Callers, NEW s \in Sinks, Enter(t, s) PROVE OneSweeper'
  <2>1. ~Sweeping(t)'
    BY <1>2, EnterMoves DEF Sweeping
  <2>2. \A u \in Callers : u # t => (Sweeping(u)' <=> Sweeping(u)) /\ (SeesEnd(u)' <=> SeesEnd(u))
    BY <1>2, EnterMoves DEF Elsewhere, Sweeping, SeesEnd
  <2> QED
    BY <2>1, <2>2 DEF OneSweeper
<1>3. ASSUME NEW t \in Callers, ThrottleStep(t) PROVE OneSweeper'
  <2>1. \A u \in Callers : u # t => (Sweeping(u)' <=> Sweeping(u)) /\ (SeesEnd(u)' <=> SeesEnd(u))
    BY <1>3, StepMoves DEF Elsewhere, Sweeping, SeesEnd
  <2>2. Sweeping(t)' => (SeesEnd(t)' <=> SeesEnd(t)) /\ (Sweeping(t) \/ WinsWindow(t))
    BY <1>3, SweepersMove DEF SameTimes, SeesEnd
  <2>3. \A u \in Callers : Sweeping(u) /\ WinsWindow(t) => ~SeesEnd(t)
    BY LateWinner
  <2> QED
    BY <2>1, <2>2, <2>3 DEF OneSweeper
<1> QED
  BY <1>1, <1>2, <1>3 DEF ThrottleNext

LEMMA AloneKept ==
  ThrottleTyped /\ Courses /\ Alone /\ [ThrottleNext]_throttleVars => Alone'
<1> SUFFICES ASSUME ThrottleTyped, Courses, Alone, [ThrottleNext]_throttleVars, ~crowded'
             PROVE  \A v, u \in Callers : v # u => ~(Sweeping(v)' /\ Sweeping(u)')
  BY DEF Alone
<1>1. CASE Tick \/ UNCHANGED throttleVars
  BY <1>1 DEF Tick, throttleVars, Alone, Sweeping
<1>2. ASSUME NEW t \in Callers, NEW s \in Sinks, Enter(t, s)
      PROVE  \A v, u \in Callers : v # u => ~(Sweeping(v)' /\ Sweeping(u)')
  <2>1. ~Sweeping(t)' /\ crowded' = crowded
    BY <1>2, EnterMoves DEF Sweeping, Enter
  <2>2. \A u \in Callers : u # t => (Sweeping(u)' <=> Sweeping(u))
    BY <1>2, EnterMoves DEF Elsewhere, Sweeping
  <2> QED
    BY <2>1, <2>2 DEF Alone
<1>3. ASSUME NEW t \in Callers, ThrottleStep(t)
      PROVE  \A v, u \in Callers : v # u => ~(Sweeping(v)' /\ Sweeping(u)')
  <2>1. \A u \in Callers : u # t => (Sweeping(u)' <=> Sweeping(u))
    BY <1>3, StepMoves DEF Elsewhere, Sweeping
  <2>2. Sweeping(t)' => Sweeping(t) \/ WinsWindow(t)
    BY <1>3, SweepersMove
  <2>3. ~crowded /\ (WinsWindow(t) => \A u \in Callers : ~Sweeping(u))
    BY <1>3, SweepersMove DEF WinsWindow
  <2> QED
    BY <2>1, <2>2, <2>3 DEF Alone
<1> QED
  BY <1>1, <1>2, <1>3 DEF ThrottleNext

(* What a step does to a hook. *)
HookSame(s) ==
    on'[s] = on[s] /\ until'[s] = until[s] /\ offs'[s] = offs[s] /\ offFor'[s] = offFor[s]

SwitchesOff(t, s) ==
    /\ th[t].at = "switch" /\ th[t].hot = s /\ offFor'[s] = 0
    /\ offs'[s] = IF on[s] /\ until[s] = 0 THEN offs[s] + 1 ELSE offs[s]
    /\ \/ th[t].n >= MaxStrikes /\ on'[s] = FALSE /\ until'[s] = until[s]
       \/ /\ th[t].n < MaxStrikes /\ on'[s] = on[s]
          /\ \E n \in 1 .. 2 : until'[s] = Deadline(th[t].now, n)

Lifts(t, s) ==
    /\ th[t].at = "lift" /\ th[t].id = s /\ until'[s] = 0
    /\ on'[s] = on[s] /\ offs'[s] = offs[s] /\ offFor'[s] = offFor[s]

LEMMA HooksChange ==
  ASSUME ThrottleTyped, NEW t \in Callers, ThrottleStep(t), NEW s \in Sinks
  PROVE  /\ HookSame(s) \/ SwitchesOff(t, s) \/ Lifts(t, s)
         /\ \/ strikes'[s] = strikes[s]
            \/ StoreStrikes(t) /\ th[t].hot = s /\ strikes'[s] = th[t].n
         /\ SwitchesOff(t, s) \/ Lifts(t, s) => strikes'[s] = strikes[s]
<1> USE DEF HookSame
<1>1. CASE Switch(t)
  <2>1. strikes' = strikes /\ th[t].at = "switch" /\ th[t].hot \in Sinks /\ th[t].n \in Nat
    BY <1>1, CallIsTyped DEF Switch
  <2>2. CASE th[t].hot # s
    BY <1>1, <2>1, <2>2 DEF Switch, ThrottleTyped
  <2>3. CASE th[t].hot = s
    <3>1. /\ offs'[s] = IF on[s] /\ until[s] = 0 THEN offs[s] + 1 ELSE offs[s]
          /\ offFor'[s] = 0
      BY <1>1, <2>3 DEF Switch, ThrottleTyped
    <3>2. CASE th[t].n >= MaxStrikes
      BY <1>1, <2>1, <2>3, <3>1, <3>2 DEF Switch, SwitchesOff, ThrottleTyped
    <3>3. CASE ~(th[t].n >= MaxStrikes)
      <4>1. on' = on /\ \E n : until' = [until EXCEPT ![s] = Deadline(th[t].now, n)]
        BY <1>1, <2>3, <3>3 DEF Switch
      <4>2. PICK n : until'[s] = Deadline(th[t].now, n)
        BY <4>1 DEF ThrottleTyped
      <4>3. \E m \in 1 .. 2 : until'[s] = Deadline(th[t].now, m)
        <5>1. n = 1 \/ Deadline(th[t].now, n) = Deadline(th[t].now, 2)
          BY DEF Deadline, Pause
        <5> QED
          BY <4>2, <5>1
      <4>4. th[t].n < MaxStrikes
        BY <2>1, <3>3 DEF MaxStrikes
      <4> QED
        BY <2>1, <2>3, <3>1, <4>1, <4>3, <4>4 DEF SwitchesOff
    <3> QED
      BY <3>2, <3>3
  <2> QED
    BY <2>2, <2>3
<1>2. CASE Lift(t)
  <2>1. on' = on /\ strikes' = strikes /\ offs' = offs /\ offFor' = offFor /\ th[t].at = "lift"
    BY <1>2 DEF Lift, switches
  <2>2. until' = [until EXCEPT ![th[t].id] = 0]
    BY <1>2 DEF Lift
  <2>3. until'[s] = until[s] \/ (th[t].id = s /\ until'[s] = 0)
    BY <2>2 DEF ThrottleTyped
  <2> QED
    BY <2>1, <2>3 DEF Lifts
<1>3. CASE StoreStrikes(t)
  <2>1. on' = on /\ until' = until /\ offs' = offs /\ offFor' = offFor /\ th[t].at = "strike"
    BY <1>3 DEF StoreStrikes, switches
  <2>2. strikes'[s] = strikes[s] \/ (th[t].hot = s /\ strikes'[s] = th[t].n)
    BY <1>3 DEF StoreStrikes, ThrottleTyped
  <2> QED
    BY <1>3, <2>1, <2>2 DEF SwitchesOff, Lifts
<1>4. CASE Count(t) \/ Check(t) \/ CountCall(t) \/ Report(t) \/ Fuse(t) \/ Exchange(t) \/ LoadStrikes(t)
  BY <1>4 DEF Count, Check, CountCall, Report, Fuse, Exchange, LoadStrikes, spec, switches
<1>5. CASE Budget(t) \/ LookAtWindow(t) \/ FirstWindow(t) \/ ClaimWindow(t) \/ Sweep(t) \/ Trim(t)
  BY <1>5 DEF Budget, LookAtWindow, FirstWindow, ClaimWindow, Sweep, Trim, spec, switches
<1> QED
  BY <1>1, <1>2, <1>3, <1>4, <1>5 DEF ThrottleStep

(* The other steps leave the hooks alone, but for their ages. *)
LEMMA HooksAge ==
  ASSUME ThrottleTyped, NEW s \in Sinks,
         Tick \/ UNCHANGED throttleVars \/ \E t \in Callers, r \in Sinks : Enter(t, r)
  PROVE  /\ on' = on /\ until' = until /\ offs' = offs /\ strikes' = strikes /\ crowded' = crowded
         /\ \/ clock' = clock /\ offFor' = offFor
            \/ /\ clock' = clock + 1 /\ th' = th
               /\ \/ offFor[s] < Pauses[2] /\ offFor'[s] = offFor[s] + 1
                  \/ offFor'[s] = Pauses[2] /\ offFor[s] = Pauses[2]
<1>1. CASE Tick
  <2>1. offFor[s] \in 0 .. Pauses[2] /\ Pauses[2] \in Nat
    BY Numbers DEF ThrottleTyped
  <2>2. offFor'[s] = IF offFor[s] < Pauses[2] THEN offFor[s] + 1 ELSE Pauses[2]
    BY <1>1 DEF Tick
  <2> QED
    BY <1>1, <2>1, <2>2 DEF Tick, spec
<1>2. CASE UNCHANGED throttleVars \/ \E t \in Callers, r \in Sinks : Enter(t, r)
  BY <1>2 DEF throttleVars, Enter, spec, switches
<1> QED
  BY <1>1, <1>2

LEMMA Hooks ==
  ASSUME ThrottleTyped, NEW s \in Sinks
  PROVE  /\ on[s] \in BOOLEAN /\ until[s] \in Nat /\ strikes[s] \in Nat /\ offs[s] \in Nat
         /\ offFor[s] \in 0 .. Pauses[2] /\ offFor[s] \in Nat
  BY Numbers DEF ThrottleTyped

(* A deadline is never 0, which would be no pause. *)
LEMMA DeadlineIsNone == \A now, n : Deadline(now, n) # 0
BY DEF Deadline, NonZero

LEMMA PausesAreRightKept ==
  ThrottleTyped /\ Courses /\ InTime /\ PausesAreRight /\ [ThrottleNext]_throttleVars => PausesAreRight'
<1> SUFFICES ASSUME ThrottleTyped, Courses, InTime, PausesAreRight, [ThrottleNext]_throttleVars,
                    NEW s \in Sinks, on'[s], until'[s] # 0
             PROVE  \E r \in 0 .. clock', n \in 1 .. 2 :
                       /\ until'[s] = Deadline(r % Wrap, n)
                       /\ \/ offFor'[s] = Pauses[2]
                          \/ r + offFor'[s] <= clock' /\ clock' <= r + offFor'[s] + Stall
  BY DEF PausesAreRight
<1>0. clock \in Nat /\ Stall \in Nat /\ Pauses[2] \in Nat /\ offFor[s] \in Nat
  BY Numbers, Hooks DEF ThrottleTyped
<1>1. CASE Tick \/ UNCHANGED throttleVars \/ \E t \in Callers, r \in Sinks : Enter(t, r)
  <2>1. on' = on /\ until' = until
    BY <1>1, HooksAge
  <2>2. \/ clock' = clock /\ offFor'[s] = offFor[s]
        \/ /\ clock' = clock + 1
           /\ \/ offFor'[s] = offFor[s] + 1 \/ (offFor'[s] = Pauses[2] /\ offFor[s] = Pauses[2])
    BY <1>1, HooksAge
  <2>3. PICK r \in 0 .. clock, n \in 1 .. 2 :
           /\ until[s] = Deadline(r % Wrap, n)
           /\ \/ offFor[s] = Pauses[2]
              \/ r + offFor[s] <= clock /\ clock <= r + offFor[s] + Stall
    BY <2>1 DEF PausesAreRight
  <2>4. r \in 0 .. clock' /\ until'[s] = Deadline(r % Wrap, n)
    BY <1>0, <2>1, <2>2, <2>3
  <2>5. \/ offFor'[s] = Pauses[2]
        \/ r + offFor'[s] <= clock' /\ clock' <= r + offFor'[s] + Stall
    <3>1. r \in Nat
      BY <1>0, <2>3
    <3>2. CASE clock' = clock + 1 /\ offFor'[s] = offFor[s] + 1 /\ offFor[s] = Pauses[2]
      <4>1. offFor[s] < Pauses[2] \/ offFor'[s] = Pauses[2]
        BY <1>0, <1>1, <3>2, HooksAge
      <4> QED
        BY <1>0, <3>2, <4>1
    <3>3. CASE ~(clock' = clock + 1 /\ offFor'[s] = offFor[s] + 1 /\ offFor[s] = Pauses[2])
      BY <1>0, <2>2, <2>3, <3>1, <3>3
    <3> QED
      BY <3>2, <3>3
  <2> QED
    BY <2>4, <2>5
<1>2. ASSUME NEW t \in Callers, ThrottleStep(t)
      PROVE  \E r \in 0 .. clock', n \in 1 .. 2 :
                       /\ until'[s] = Deadline(r % Wrap, n)
                       /\ \/ offFor'[s] = Pauses[2]
                          \/ r + offFor'[s] <= clock' /\ clock' <= r + offFor'[s] + Stall
  <2>0. clock' = clock
    BY <1>2, StepMoves
  <2>1. CASE HookSame(s)
    BY <2>0, <2>1 DEF HookSame, PausesAreRight
  <2>2. CASE SwitchesOff(t, s)
    <3>1. PICK n \in 1 .. 2 : until'[s] = Deadline(th[t].now, n)
      BY <2>2 DEF SwitchesOff
    <3>2. PICK r \in 0 .. clock : th[t].since <= r /\ th[t].now = r % Wrap
      BY <2>2 DEF SwitchesOff, InTime, HasRead, Muting
    <3>3. clock <= th[t].since + Stall /\ th[t].since \in Nat /\ offFor'[s] = 0
      BY <2>2, CallIsTyped DEF SwitchesOff, InTime
    <3>4. r + 0 <= clock /\ clock <= r + 0 + Stall
      BY <1>0, <3>2, <3>3
    <3> QED
      BY <2>0, <3>1, <3>2, <3>3, <3>4
  <2>3. CASE Lifts(t, s)
    BY <2>3 DEF Lifts
  <2> QED
    BY <1>2, <2>1, <2>2, <2>3, HooksChange
<1> QED
  BY <1>1, <1>2 DEF ThrottleNext

LEMMA PastCheckMoves ==
  ASSUME ThrottleTyped, Courses, NEW t \in Callers, ThrottleStep(t), PastCheck(t)'
  PROVE  SameCall(t) /\ (PastCheck(t) \/ until'[th[t].sink] = 0)
<1> USE DEF PastCheck, Courses, Muting, SameMute
<1>1. CASE Check(t)
  <2>1. until' = until
    BY <1>1 DEF Check, spec
  <2> QED
    BY <1>1, <2>1, CheckMoves
<1>2. CASE Count(t) \/ CountCall(t) \/ Report(t)
  BY <1>2, CountMoves, CountCallMoves, ReportMoves
<1>3. CASE Fuse(t) \/ Budget(t) \/ Exchange(t)
  BY <1>3, ReadingMoves, ExchangeMoves
<1>4. CASE LoadStrikes(t) \/ StoreStrikes(t) \/ Switch(t)
  BY <1>4, LoadMoves, StoreMoves, SwitchMoves
<1>5. CASE LookAtWindow(t) \/ FirstWindow(t) \/ ClaimWindow(t)
  BY <1>5, LookMoves, FirstMoves, ClaimMoves
<1>6. CASE Sweep(t) \/ Lift(t) \/ Trim(t)
  BY <1>6, SweepMoves, LiftMoves, TrimMoves
<1> QED
  BY <1>1, <1>2, <1>3, <1>4, <1>5, <1>6 DEF ThrottleStep

LEMMA MutedSinceKept ==
  ThrottleTyped /\ Courses /\ InTime /\ MutedSince /\ [ThrottleNext]_throttleVars => MutedSince'
<1> SUFFICES ASSUME ThrottleTyped, Courses, InTime, MutedSince, [ThrottleNext]_throttleVars,
                    NEW u \in Callers, PastCheck(u)', on'[th'[u].sink], until'[th'[u].sink] # 0
             PROVE  th'[u].since + offFor'[th'[u].sink] <= clock'
  BY DEF MutedSince
<1> DEFINE s == th[u].sink
<1>0. clock \in Nat /\ Stall \in Nat /\ s \in Sinks /\ th[u].since \in Nat /\ offFor[s] \in Nat
  <2>1. s \in Sinks /\ th[u].since \in Nat
    BY CallIsTyped
  <2> QED
    BY <2>1, Numbers, Hooks DEF ThrottleTyped
<1>1. CASE Tick \/ UNCHANGED throttleVars
  <2>1. th' = th /\ on' = on /\ until' = until
    BY <1>1, HooksAge DEF Tick, throttleVars, spec
  <2>2. \/ clock' = clock /\ offFor'[s] = offFor[s]
        \/ clock' = clock + 1 /\ (offFor'[s] = offFor[s] + 1 \/ offFor'[s] = offFor[s])
    BY <1>0, <1>1, HooksAge
  <2>3. th[u].since + offFor[s] <= clock
    BY <2>1 DEF MutedSince, PastCheck
  <2> QED
    BY <1>0, <2>1, <2>2, <2>3
<1>2. ASSUME NEW t \in Callers, NEW r \in Sinks, Enter(t, r)
      PROVE  th'[u].since + offFor'[th'[u].sink] <= clock'
  <2>1. u # t
    BY <1>2, EnterMoves DEF PastCheck
  <2>2. th'[u] = th[u] /\ on' = on /\ until' = until /\ offFor' = offFor /\ clock' = clock
    BY <1>2, <2>1, EnterMoves DEF Enter, Elsewhere, spec, switches
  <2> QED
    BY <2>2 DEF MutedSince, PastCheck
<1>3. ASSUME NEW t \in Callers, ThrottleStep(t)
      PROVE  th'[u].since + offFor'[th'[u].sink] <= clock'
  <2>1. clock' = clock /\ Elsewhere(t)
    BY <1>3, StepMoves
  <2>2. th'[u].since = th[u].since /\ th'[u].sink = s /\ PastCheck(u)
    <3>1. CASE u = t
      BY <1>3, <3>1, PastCheckMoves DEF SameCall
    <3>2. CASE u # t
      BY <2>1, <3>2 DEF Elsewhere, PastCheck
    <3> QED
      BY <3>1, <3>2
  <2>3. th[u].since <= clock
    BY <2>2 DEF PastCheck, InTime, Courses, Muting
  <2>4. CASE HookSame(s)
    BY <2>1, <2>2, <2>4 DEF HookSame, MutedSince
  <2>5. CASE SwitchesOff(t, s)
    BY <1>0, <2>1, <2>2, <2>3, <2>5 DEF SwitchesOff
  <2>6. CASE Lifts(t, s)
    BY <2>2, <2>6 DEF Lifts
  <2> QED
    BY <1>0, <1>3, <2>4, <2>5, <2>6, HooksChange
<1> QED
  BY <1>1, <1>2, <1>3 DEF ThrottleNext


(* The steps after which a call is about to lift a pause, or to switch off. *)
LEMMA IsAboutTo ==
  ASSUME ThrottleTyped, NEW t \in Callers, ThrottleStep(t)
  PROVE  /\ th'[t].at = "lift" => Sweep(t)
         /\ th'[t].at = "strike" => LoadStrikes(t)
         /\ th'[t].at = "switch" => StoreStrikes(t)
<1>1. CASE Count(t) \/ Check(t) \/ CountCall(t) \/ Report(t)
  BY <1>1, CountMoves, CheckMoves, CountCallMoves, ReportMoves
<1>2. CASE Fuse(t) \/ Budget(t) \/ Exchange(t)
  BY <1>2, ReadingMoves, ExchangeMoves
<1>3. CASE LoadStrikes(t) \/ StoreStrikes(t) \/ Switch(t)
  BY <1>3, LoadMoves, StoreMoves, SwitchMoves
<1>4. CASE LookAtWindow(t) \/ FirstWindow(t) \/ ClaimWindow(t)
  BY <1>4, LookMoves, FirstMoves, ClaimMoves
<1>5. CASE Sweep(t) \/ Lift(t) \/ Trim(t)
  BY <1>5, SweepMoves, LiftMoves, TrimMoves
<1> QED
  BY <1>1, <1>2, <1>3, <1>4, <1>5 DEF ThrottleStep

(* While a sweep is about to switch a hook on again, nobody mutes it.       *)
LEMMA NobodyMutes ==
  ASSUME ThrottleTyped, Courses, InTime, Alone, MutedSince, LiftIsDue, ~crowded,
         NEW u \in Callers, NEW t \in Callers, th[u].at = "lift", th[t].at \in Muting,
         NEW s \in Sinks, th[u].id = s, th[t].hot = s, on[s]
  PROVE  FALSE
<1>1. until[s] # 0 /\ offFor[s] + Stall >= Pauses[1]
  BY DEF LiftIsDue
<1>2. t # u /\ Sweeping(u)
  BY DEF Muting, Sweeping
<1>3. CASE th[t].next = "trim"
  BY <1>2, <1>3 DEF Alone, Sweeping
<1>4. CASE th[t].next = "recheck"
  <2>1. th[t].sink = s
    BY <1>4 DEF Courses
  <2>2. th[t].since + offFor[s] <= clock
    BY <1>1, <1>4, <2>1 DEF MutedSince, PastCheck
  <2>3. clock <= th[t].since + Stall
    BY DEF InTime, Muting
  <2>4. /\ clock \in Nat /\ Stall \in Nat /\ th[t].since \in Nat /\ offFor[s] \in Nat
        /\ Pauses[1] \in Nat /\ 2 * Stall < Pauses[1]
    BY Numbers, Hooks, CallIsTyped DEF ThrottleTyped
  <2> QED
    BY <1>1, <2>2, <2>3, <2>4
<1> QED
  BY <1>3, <1>4, CallIsTyped DEF Courses

LEMMA LiftIsDueKept ==
  /\ ThrottleTyped /\ Courses /\ InTime /\ WindowIsKnown /\ Alone /\ PausesAreRight
  /\ MutedSince /\ LiftIsDue
  /\ [ThrottleNext]_throttleVars
  => LiftIsDue'
<1> SUFFICES ASSUME ThrottleTyped, Courses, InTime, WindowIsKnown, Alone, PausesAreRight,
                    MutedSince, LiftIsDue, [ThrottleNext]_throttleVars,
                    ~crowded', NEW u \in Callers, th'[u].at = "lift", on'[th'[u].id]
             PROVE  until'[th'[u].id] # 0 /\ offFor'[th'[u].id] + Stall >= Pauses[1]
  BY DEF LiftIsDue
<1> DEFINE h == th[u].id
<1>0. h \in Sinks /\ Stall \in Nat /\ clock \in Nat /\ Pauses[1] \in Nat /\ Pauses[2] \in Nat
      /\ Pauses[1] <= Pauses[2] /\ offFor[h] \in Nat
  <2>1. h \in Sinks
    BY CallIsTyped
  <2> QED
    BY <2>1, Numbers, Hooks DEF ThrottleTyped
<1>1. CASE Tick \/ UNCHANGED throttleVars
  <2>1. th' = th /\ on' = on /\ until' = until /\ crowded' = crowded
    BY <1>0, <1>1, HooksAge DEF Tick, throttleVars
  <2>2. offFor'[h] = offFor[h] \/ offFor'[h] = offFor[h] + 1
    BY <1>0, <1>1, HooksAge
  <2>3. until[h] # 0 /\ offFor[h] + Stall >= Pauses[1]
    BY <2>1 DEF LiftIsDue
  <2> QED
    BY <1>0, <2>1, <2>2, <2>3
<1>2. ASSUME NEW t \in Callers, NEW r \in Sinks, Enter(t, r)
      PROVE  until'[th'[u].id] # 0 /\ offFor'[th'[u].id] + Stall >= Pauses[1]
  <2>1. u # t
    BY <1>2, EnterMoves
  <2>2. /\ th'[u] = th[u] /\ on' = on /\ until' = until /\ offFor' = offFor
        /\ crowded' = crowded
    BY <1>2, <2>1, EnterMoves DEF Enter, Elsewhere, spec, switches
  <2> QED
    BY <2>2 DEF LiftIsDue
<1>3. ASSUME NEW t \in Callers, ThrottleStep(t)
      PROVE  until'[th'[u].id] # 0 /\ offFor'[th'[u].id] + Stall >= Pauses[1]
  <2>0. ~crowded /\ Elsewhere(t)
    BY <1>3, SweepersMove, StepMoves DEF WinsWindow
  <2>1. CASE u = t
    <3>1. Sweep(t)
      BY <1>3, <2>1, IsAboutTo
    <3>2. /\ th'[t].id = h /\ until[h] # 0 /\ Over(th[t].now, until[h])
          /\ on' = on /\ until' = until /\ offFor' = offFor
      BY <2>1, <3>1, SweepMoves DEF Sweep, spec, switches
    <3>3. th[t].at = "sweep" /\ Sweeping(t) /\ HasRead(t)
      BY <3>1, SweepMoves DEF Sweeping, HasRead
    <3>4. PICK q \in 0 .. clock : th[t].since <= q /\ th[t].now = q % Wrap
      BY <3>3 DEF InTime
    <3>5. PICK r \in 0 .. clock, n \in 1 .. 2 :
             /\ until[h] = Deadline(r % Wrap, n)
             /\ \/ offFor[h] = Pauses[2]
                \/ r + offFor[h] <= clock /\ clock <= r + offFor[h] + Stall
      BY <1>0, <2>1, <3>2 DEF PausesAreRight
    <3>6. r \in Nat /\ q \in Nat /\ r <= clock /\ q <= clock /\ r <= q + Stall
      <4>1. clock <= th[t].since + Stall /\ th[t].since \in Nat
        BY <3>3, CallIsTyped DEF InTime
      <4> QED
        BY <1>0, <3>4, <4>1
    <3>7. r + Pauses[1] <= q
      BY <3>2, <3>4, <3>5, <3>6, PauseLasts
    <3>8. offFor[h] + Stall >= Pauses[1]
      BY <1>0, <3>5, <3>6, <3>7
    <3> QED
      BY <2>1, <3>2, <3>8
  <2>2. CASE u # t
    <3>1. th'[u] = th[u]
      BY <2>0, <2>2 DEF Elsewhere
    <3>2. CASE HookSame(h)
      BY <2>0, <3>1, <3>2 DEF HookSame, LiftIsDue
    <3>3. CASE SwitchesOff(t, h)
      <4>1. on[h] /\ th[t].at \in Muting /\ th[t].hot = h
        BY <3>1, <3>3 DEF SwitchesOff, Muting
      <4> QED
        BY <1>0, <2>0, <3>1, <4>1, NobodyMutes
    <3>4. CASE Lifts(t, h)
      BY <2>0, <2>2, <3>1, <3>4 DEF Lifts, Alone, Sweeping
    <3> QED
      BY <1>0, <1>3, <3>2, <3>3, <3>4, HooksChange
  <2> QED
    BY <2>1, <2>2
<1> QED
  BY <1>1, <1>2, <1>3 DEF ThrottleNext

LEMMA HookStrikesKept ==
  ASSUME ThrottleTyped, NEW s \in Sinks, NEW t \in Callers, ThrottleStep(t),
         HookStrikes(s), CallStrikes(t)
  PROVE  HookStrikes(s)'
<1>0. /\ offs[s] \in Nat /\ strikes[s] \in Nat /\ th[t].n \in Nat /\ th[t].hot \in Sinks
      /\ offs[s] <= strikes[s] /\ offs[s] <= 3 /\ (on[s] => offs[s] < 3)
  BY Hooks, CallIsTyped DEF HookStrikes, MaxStrikes
<1>1. CASE StoreStrikes(t) /\ th[t].hot = s /\ strikes'[s] = th[t].n /\ HookSame(s)
  <2>1. offs[s] <= th[t].n
    BY <1>1, StoreMoves DEF CallStrikes
  <2> QED
    BY <1>0, <1>1, <2>1 DEF HookSame, HookStrikes, MaxStrikes
<1>2. CASE strikes'[s] = strikes[s] /\ (HookSame(s) \/ Lifts(t, s))
  BY <1>0, <1>2 DEF HookSame, Lifts, HookStrikes, MaxStrikes
<1>3. CASE strikes'[s] = strikes[s] /\ SwitchesOff(t, s)
  <2>1. /\ offs[s] <= th[t].n
        /\ on[s] /\ until[s] = 0 => offs[s] < th[t].n /\ offs[s] < strikes[s]
    BY <1>3 DEF SwitchesOff, CallStrikes, Off
  <2>2. /\ offs'[s] = IF on[s] /\ until[s] = 0 THEN offs[s] + 1 ELSE offs[s]
        /\ on'[s] => on[s] /\ th[t].n < 3
    BY <1>3 DEF SwitchesOff, MaxStrikes
  <2>3. offs'[s] <= strikes[s] /\ offs'[s] <= 3 /\ (on'[s] => offs'[s] < 3)
    <3>1. CASE on[s] /\ until[s] = 0
      BY <1>0, <2>1, <2>2, <3>1
    <3>2. CASE ~(on[s] /\ until[s] = 0)
      BY <1>0, <2>2, <3>2
    <3> QED
      BY <3>1, <3>2
  <2> QED
    BY <1>3, <2>3 DEF HookStrikes, MaxStrikes
<1> QED
  BY <1>1, <1>2, <1>3, HooksChange

(* A call that is about to strike, while another one takes a step.          *)
LEMMA CallStrikesKept ==
  ASSUME ThrottleTyped, Courses, InTime, Alone, MutedSince, LiftIsDue, ~crowded,
         NEW t \in Callers, ThrottleStep(t), NEW u \in Callers, u # t,
         CallStrikes(t), CallStrikes(u)
  PROVE  CallStrikes(u)'
<1> PICK s \in Sinks : s = th[u].hot
  BY CallIsTyped
<1>0. /\ offs[s] \in Nat /\ strikes[s] \in Nat /\ th[t].n \in Nat /\ th[u].n \in Nat
  BY Hooks, CallIsTyped
<1>1. th'[u] = th[u]
  BY StepMoves DEF Elsewhere
<1> SUFFICES ASSUME th[u].at \in {"strike", "switch"}
             PROVE  /\ offs'[s] <= th[u].n /\ (offs'[s] < th[u].n \/ Off(s)')
                    /\ th[u].at = "switch" => offs'[s] < strikes'[s] \/ Off(s)'
  BY <1>1 DEF CallStrikes, Off
<1>2. /\ offs[s] <= th[u].n /\ (offs[s] < th[u].n \/ Off(s))
      /\ th[u].at = "switch" => offs[s] < strikes[s] \/ Off(s)
  BY DEF CallStrikes
<1>3. CASE HookSame(s)
  <2>1. (Off(s)' <=> Off(s)) /\ offs'[s] = offs[s]
    BY <1>3 DEF HookSame, Off
  <2>2. CASE strikes'[s] = strikes[s]
    BY <1>2, <2>1, <2>2
  <2>3. CASE StoreStrikes(t) /\ th[t].hot = s /\ strikes'[s] = th[t].n
    <3>1. offs[s] < th[t].n \/ Off(s)
      BY <2>3, StoreMoves DEF CallStrikes
    <3> QED
      BY <1>2, <2>1, <2>3, <3>1
  <2> QED
    BY <2>2, <2>3, HooksChange
<1>4. CASE SwitchesOff(t, s)
  <2>1. Off(s)'
    BY <1>4, DeadlineIsNone DEF SwitchesOff, Off
  <2>2. offs'[s] = IF on[s] /\ until[s] = 0 THEN offs[s] + 1 ELSE offs[s]
    BY <1>4 DEF SwitchesOff
  <2>3. on[s] /\ until[s] = 0 => offs[s] < th[u].n
    BY <1>2 DEF Off
  <2>4. offs'[s] <= th[u].n
    BY <1>0, <1>2, <2>2, <2>3
  <2> QED
    BY <2>1, <2>4
<1>5. CASE Lifts(t, s)
  <2>1. ~on[s]
    BY <1>5, NobodyMutes DEF Lifts, Muting
  <2> QED
    BY <1>2, <1>5, <2>1 DEF Lifts, Off
<1> QED
  BY <1>3, <1>4, <1>5, HooksChange

LEMMA OwnStrikesKept ==
  ASSUME ThrottleTyped, NEW t \in Callers, ThrottleStep(t), CallStrikes(t),
         \A s \in Sinks : HookStrikes(s)
  PROVE  CallStrikes(t)'
<1> PICK s \in Sinks : s = th[t].hot
  BY CallIsTyped
<1>0. offs[s] \in Nat /\ strikes[s] \in Nat /\ offs[s] <= strikes[s]
  BY Hooks DEF HookStrikes
<1>1. CASE LoadStrikes(t)
  <2>1. th'[t].at = "strike" /\ th'[t].hot = s /\ th'[t].n = strikes[s] + 1 /\ th[t].at = "mute"
    BY <1>1, LoadMoves DEF SameMute
  <2>2. offs'[s] = offs[s]
    BY <2>1, HooksChange DEF HookSame, SwitchesOff, Lifts
  <2>3. offs'[s] <= th'[t].n /\ offs'[s] < th'[t].n
    BY <1>0, <2>1, <2>2
  <2> QED
    BY <2>1, <2>3 DEF CallStrikes
<1>2. CASE StoreStrikes(t)
  <2>1. /\ th'[t].at = "switch" /\ th'[t].hot = s /\ th'[t].n = th[t].n /\ th[t].at = "strike"
    BY <1>2, StoreMoves DEF SameMute
  <2>2. HookSame(s)
    BY <2>1, HooksChange DEF SwitchesOff, Lifts
  <2>3. strikes'[s] = th[t].n
    BY <1>2 DEF StoreStrikes, ThrottleTyped
  <2>4. offs[s] <= th[t].n /\ (offs[s] < th[t].n \/ Off(s))
    BY <2>1 DEF CallStrikes
  <2>5. (Off(s)' <=> Off(s)) /\ offs'[s] = offs[s]
    BY <2>2 DEF HookSame, Off
  <2>6. offs'[s] <= th'[t].n /\ (offs'[s] < th'[t].n \/ Off(s)') /\ (offs'[s] < strikes'[s] \/ Off(s)')
    BY <2>1, <2>3, <2>4, <2>5
  <2> QED
    BY <2>1, <2>6 DEF CallStrikes, Off
<1>3. CASE ~LoadStrikes(t) /\ ~StoreStrikes(t)
  BY <1>3, IsAboutTo DEF CallStrikes
<1> QED
  BY <1>1, <1>2, <1>3

LEMMA StrikingKept ==
  /\ ThrottleTyped /\ Courses /\ InTime /\ Alone /\ MutedSince /\ LiftIsDue /\ Striking
  /\ [ThrottleNext]_throttleVars
  => Striking'
<1> SUFFICES ASSUME ThrottleTyped, Courses, InTime, Alone, MutedSince, LiftIsDue, Striking,
                    [ThrottleNext]_throttleVars, ~crowded'
             PROVE  /\ \A s \in Sinks : HookStrikes(s)'
                    /\ \A u \in Callers : CallStrikes(u)'
  BY DEF Striking
<1>1. CASE Tick \/ UNCHANGED throttleVars
  <2>1. th' = th
    BY <1>1 DEF Tick, throttleVars
  <2>2. on' = on /\ until' = until /\ offs' = offs /\ strikes' = strikes /\ crowded' = crowded
    BY <1>1 DEF Tick, throttleVars, spec, switches
  <2> QED
    BY <2>1, <2>2 DEF Striking, HookStrikes, CallStrikes, Off
<1>2. ASSUME NEW t \in Callers, NEW r \in Sinks, Enter(t, r)
      PROVE  /\ \A s \in Sinks : HookStrikes(s)'
             /\ \A u \in Callers : CallStrikes(u)'
  <2>1. on' = on /\ until' = until /\ offs' = offs /\ strikes' = strikes /\ crowded' = crowded
    BY <1>2 DEF Enter, spec, switches
  <2>2. CallStrikes(t)'
    BY <1>2, EnterMoves DEF CallStrikes
  <2>3. \A u \in Callers : u # t => th'[u] = th[u]
    BY <1>2, EnterMoves DEF Elsewhere
  <2>4. \A u \in Callers : u # t => CallStrikes(u)'
    BY <2>1, <2>3 DEF Striking, CallStrikes, Off
  <2> QED
    BY <2>1, <2>2, <2>4 DEF Striking, HookStrikes
<1>3. ASSUME NEW t \in Callers, ThrottleStep(t)
      PROVE  /\ \A s \in Sinks : HookStrikes(s)'
             /\ \A u \in Callers : CallStrikes(u)'
  <2>0. ~crowded
    BY <1>3, SweepersMove DEF WinsWindow
  <2>1. (\A s \in Sinks : HookStrikes(s)) /\ (\A u \in Callers : CallStrikes(u))
    BY <2>0 DEF Striking
  <2>2. \A s \in Sinks : HookStrikes(s)'
    BY <1>3, <2>1, HookStrikesKept
  <2>3. CallStrikes(t)'
    BY <1>3, <2>1, OwnStrikesKept
  <2>4. \A u \in Callers : u # t => CallStrikes(u)'
    BY <1>3, <2>0, <2>1, CallStrikesKept
  <2> QED
    BY <2>2, <2>3, <2>4
<1> QED
  BY <1>1, <1>2, <1>3 DEF ThrottleNext

ThrottleInv ==
    /\ ThrottleTyped /\ Courses /\ InTime /\ WindowIsKnown /\ OneSweeper /\ Alone
    /\ PausesAreRight /\ MutedSince /\ LiftIsDue /\ Striking

LEMMA ThrottleBegins == ThrottleInit => ThrottleInv
<1> SUFFICES ASSUME ThrottleInit PROVE ThrottleInv
  OBVIOUS
<1>1. \A t \in Callers : th[t].at = "out" /\ th[t].next = "out"
  BY NoCall DEF ThrottleInit
<1>2. \A s \in Sinks : on[s] = TRUE /\ until[s] = 0 /\ offs[s] = 0 /\ strikes[s] = 0
  BY DEF ThrottleInit
<1>3. ThrottleTyped
  <2>1. Pauses[2] \in 0 .. Pauses[2] /\ Start \in Nat
    BY Numbers, ThrottleAssumption
  <2>2. /\ clock \in Nat /\ total \in Nat /\ wstart \in Nat /\ crowded \in BOOLEAN
        /\ on \in [Sinks -> BOOLEAN] /\ th \in [Callers -> SinkCalls]
    BY <2>1, NoCall DEF ThrottleInit
  <2>3. \A x \in {calls, fuse, until, strikes, seen, offs} : x \in [Sinks -> Nat]
    BY DEF ThrottleInit
  <2>4. count \in [Sinks -> Int] /\ offFor \in [Sinks -> 0 .. Pauses[2]]
    BY <2>1 DEF ThrottleInit
  <2> QED
    BY <2>2, <2>3, <2>4 DEF ThrottleTyped
<1>4. Courses /\ InTime /\ WindowIsKnown /\ OneSweeper /\ Alone
  BY <1>1 DEF Courses, Muting, InTime, HasRead, WindowIsKnown, OneSweeper, Alone, Sweeping
<1>5. PausesAreRight /\ MutedSince /\ LiftIsDue
  BY <1>1, <1>2 DEF PausesAreRight, MutedSince, PastCheck, LiftIsDue
<1>6. Striking
  BY <1>1, <1>2 DEF Striking, HookStrikes, CallStrikes, MaxStrikes
<1> QED
  BY <1>3, <1>4, <1>5, <1>6 DEF ThrottleInv

(* The throttle's invariant: how long a call has lasted, which window a     *)
(* sweep is for, when a pause began, and what strikes are under way.        *)
THEOREM ThrottleHolds == ThrottleSpec => []ThrottleInv
<1>1. ThrottleInv /\ [ThrottleNext]_throttleVars => ThrottleInv'
  <2> SUFFICES ASSUME ThrottleInv, [ThrottleNext]_throttleVars PROVE ThrottleInv'
    OBVIOUS
  <2>1. ThrottleTyped' /\ Courses' /\ InTime' /\ WindowIsKnown'
    BY ThrottleTypedKept, CoursesKept, InTimeKept, WindowIsKnownKept DEF ThrottleInv
  <2>2. OneSweeper' /\ Alone' /\ PausesAreRight' /\ MutedSince'
    BY OneSweeperKept, AloneKept, PausesAreRightKept, MutedSinceKept DEF ThrottleInv
  <2>3. LiftIsDue' /\ Striking'
    BY LiftIsDueKept, StrikingKept DEF ThrottleInv
  <2> QED
    BY <2>1, <2>2, <2>3 DEF ThrottleInv
<1> QED
  BY <1>1, ThrottleBegins, PTL DEF ThrottleSpec

(* Of two sweeps at once, one at most is at the end of a window: the        *)
(* exchange of the window's start keeps the other threads out.              *)
THEOREM OneSweeperAlways == ThrottleSpec => []OneSweeper
<1>1. ThrottleInv => OneSweeper
  BY DEF ThrottleInv
<1> QED
  BY <1>1, ThrottleHolds, PTL

(* No race of mute's ++strikes loses a strike, or gives a hook a fourth     *)
(* try, as long as no two threads have swept at once.                       *)
THEOREM StrikesAreCounted == ThrottleSpec => []StrikePerSwitchOff
<1>1. ThrottleInv => StrikePerSwitchOff
  BY DEF ThrottleInv, Striking, HookStrikes, StrikePerSwitchOff
<1> QED
  BY <1>1, ThrottleHolds, PTL

(* A hook stays off for the first pause at least, whatever the clock, but   *)
(* for what two sweeps at once do.                                          *)
THEOREM PauseIsAlwaysKept == ThrottleSpec => PauseIsKept
<1>1. ASSUME ThrottleInv, [ThrottleNext]_throttleVars,
             NEW s \in Sinks, on[s], until[s] # 0, until'[s] = 0, ~crowded
      PROVE  offFor[s] + Stall >= Pauses[1]
  <2>1. PICK t \in Callers : ThrottleStep(t)
    BY <1>1, HooksAge DEF ThrottleNext, ThrottleInv
  <2>2. Lifts(t, s)
    BY <1>1, <2>1, HooksChange, DeadlineIsNone DEF ThrottleInv, HookSame, SwitchesOff
  <2> QED
    BY <1>1, <2>2 DEF ThrottleInv, LiftIsDue, Lifts
<1>2. ThrottleInv /\ [ThrottleNext]_throttleVars =>
        [\A s \in Sinks : on[s] /\ until[s] # 0 /\ until'[s] = 0
           => crowded \/ offFor[s] + Stall >= Pauses[1]]_throttleVars
  BY <1>1
<1> QED
  BY <1>2, ThrottleHolds, PTL DEF ThrottleSpec, PauseIsKept

-----------------------------------------------------------------------------
(* RepeatFilter.                                                           *)
-----------------------------------------------------------------------------
Reports == [st : {"out", "scan", "age", "touch", "insert", "putHash", "putAt", "dropped", "sent"},
            text : Texts \cup {NoText}, now : Nat, i : Entries, quiet : 0 .. Never, gap : 0 .. Never]

Reporting(t) == call[t].st # "out"

FilterTyped ==
    /\ time \in Nat /\ FirstUse <= time /\ (time <= LastTick \/ time = FirstUse)
    /\ next \in Entries /\ raced \in BOOLEAN
    /\ hash \in [Entries -> Texts \cup {NoText}] /\ at \in [Entries -> Nat]
    /\ call \in [Reporters -> Reports]
    /\ \A t \in Reporters : Reporting(t) => call[t].text \in Texts
    /\ shown \in [Texts -> 0 .. Never] /\ sent \in [Texts -> 0 .. Never]

(* When a call has read the time. *)
Began(t) == time - Lasts(t)

ReportsInTime ==
    \A t \in Reporters : Reporting(t) =>
        /\ Began(t) \in FirstUse .. time
        /\ call[t].now = Began(t) % TickWrap
        /\ Lasts(t) \in 0 .. Delay
        /\ shown[call[t].text] <= Lasts(t) /\ shown[call[t].text] <= RepeatWindow

Since(r, age, t) == r + RepeatWindow <= t \/ r + age <= t

(* An entry is as old as some text that was shown, at least. *)
EntriesAreShown ==
    \A i \in Entries : hash[i] # NoText =>
        \/ \E u \in Reporters : call[u].st = "putAt" /\ call[u].i = i
        \/ \E r \in FirstUse .. time :
              at[i] = r % TickWrap /\ \E y \in Texts : r + shown[y] <= time

SentWasShown == \A x \in Texts : shown[x] <= sent[x]

SentOrAbout(x) ==
    sent[x] # Never \/ \E u \in Reporters : call[u].text = x /\ call[u].st = "putAt"

EntriesWereSent ==
    /\ \A i \in Entries : hash[i] # NoText => SentOrAbout(hash[i])
    /\ \A t \in Reporters : call[t].st \in {"age", "touch", "dropped"} => SentOrAbout(call[t].text)

OneReport == ~raced => \A t, u \in Reporters : t # u => ~(Reporting(t) /\ Reporting(u))

(* Until two calls overlap, an entry's time is of a call of its text.       *)
EntriesAreOwn ==
    ~raced =>
        /\ \A i \in Entries : hash[i] # NoText =>
              \/ \E u \in Reporters : call[u].st = "putAt" /\ call[u].i = i
              \/ \E r \in FirstUse .. time :
                    at[i] = r % TickWrap /\ Since(r, shown[hash[i]], time)
        /\ \A t \in Reporters :
              call[t].st \in {"age", "touch", "putAt"} => hash[call[t].i] = call[t].text

(* What a call finds, and what that says of the text when it began.         *)
Finds(t) ==
    /\ \A i \in Entries : hash[i] = call[t].text =>
          \E r \in FirstUse .. Began(t) :
             at[i] = r % TickWrap /\ Since(r, call[t].quiet, Began(t))
    /\ call[t].gap < RepeatWindow =>
          \E j \in call[t].i .. Ring - 1 :
             /\ hash[j] = call[t].text
             /\ \E r \in FirstUse .. Began(t) : at[j] = r % TickWrap /\ Began(t) <= r + call[t].gap

ReportsAreRight ==
    ~raced => \A t \in Reporters :
        /\ call[t].st \in {"scan", "age"} => Finds(t)
        /\ call[t].st \in {"touch", "dropped"} => call[t].quiet < RepeatWindow
        /\ call[t].st \in {"insert", "putHash", "putAt", "sent"} => call[t].gap >= RepeatWindow
        /\ call[t].st \in {"scan", "age", "insert", "putHash", "putAt"}
              => call[t].gap <= sent[call[t].text]
        /\ Reporting(t) => \A y \in Texts : Lasts(t) <= sent[y] \/ RepeatWindow <= sent[y]

(* The entry d before p. *)
Back(p, d) == (p + Ring - 1 - d) % Ring

Inserts(t) == call[t].st \in {"putHash", "putAt"}

(* The entry that is being written, or will be next. *)
IsTop(p) ==
    \/ \E t \in Reporters : Inserts(t) /\ p = call[t].i /\ next = (p + 1) % Ring
    \/ (\A t \in Reporters : ~Inserts(t)) /\ p = next

(* Text y, sent within the window, is in the entry d before p ... *)
IsAt(y, p, d) ==
    /\ hash[Back(p, d)] = y
    /\ \E r \in FirstUse .. time : at[Back(p, d)] = r % TickWrap /\ time <= r + sent[y]

(* ... and the texts in the entries after it were sent later.               *)
InOrderFrom(p, f) ==
    \A y \in Texts : sent[y] < RepeatWindow =>
        /\ IsAt(y, p, f[y])
        /\ \A e \in 0 .. f[y] - 1 : \E z \in Texts : f[z] = e /\ sent[z] <= sent[y]

LastSentAreThere ==
    ~raced => \E p \in Entries, f \in [Texts -> Entries] : IsTop(p) /\ InOrderFrom(p, f)

-----------------------------------------------------------------------------
LEMMA FilterNumbers ==
  /\ Ring \in Nat \ {0} /\ TickWrap \in Nat \ {0} /\ RepeatWindow \in Nat \ {0}
  /\ RepeatWindow < TickWrap /\ FirstUse \in Nat /\ Delay \in Nat /\ Delay < TickWrap
  /\ NoText \notin Texts /\ LastTick \in Nat
BY FilterAssumption

(* The difference of two times is right while it is less than one round.    *)
LEMMA Difference ==
  ASSUME NEW w \in Nat \ {0}, NEW r \in Nat, NEW q \in Nat, r <= q, q - r < w
  PROVE  (w + (q % w) - (r % w)) % w = q - r
<1> PICK d \in 0 .. w - 1 : d = q - r
  OBVIOUS
<1> DEFINE x == r % w
           y == q % w
<1>1. x \in 0 .. w - 1 /\ y \in 0 .. w - 1
  BY Division
<1>2. /\ x + d < w => y = x + d
      /\ ~(x + d < w) => y = x + d - w
  <2>1. /\ x + d < w => (r + d) % w = x + d
        /\ ~(x + d < w) => (r + d) % w = x + d - w
    BY TimePasses
  <2>2. (r + d) % w = y
    OBVIOUS
  <2> HIDE DEF x, y
  <2> QED
    BY <2>1, <2>2
<1> HIDE DEF x, y
<1>3. w + y - x = w + d \/ w + y - x = d
  BY <1>1, <1>2
<1>4. /\ d % w = d
      /\ (w + d) % w = d
  <2> PICK f \in Nat : f = w + d
    OBVIOUS
  <2>1. d < w /\ w <= f /\ f < w + w /\ f - w = d
    OBVIOUS
  <2>2. f % w = f - w
    BY <2>1, OneWrap
  <2> QED
    BY <2>1, <2>2, OneWrap
<1>5. (w + y - x) % w = d
  BY <1>3, <1>4
<1> QED
  BY <1>5 DEF x, y

LEMMA LastsIs ==
  ASSUME FilterTyped, NEW t \in Reporters, NEW r \in Nat, r <= time, time - r < TickWrap,
         call[t].now = r % TickWrap
  PROVE  Lasts(t) = time - r
<1>1. time \in Nat /\ TickWrap \in Nat \ {0}
  BY FilterNumbers DEF FilterTyped
<1> QED
  BY <1>1, Difference DEF Lasts

LEMMA ReportIsTyped ==
  ASSUME FilterTyped, NEW t \in Reporters
  PROVE  /\ call[t] \in Reports /\ call[t].i \in Entries /\ call[t].now \in Nat
         /\ call[t].quiet \in 0 .. Never /\ call[t].gap \in 0 .. Never
         /\ Reporting(t) => call[t].text \in Texts /\ call[t].text # NoText
<1>1. call[t] \in Reports
  BY DEF FilterTyped
<1> QED
  BY <1>1, FilterNumbers DEF Reports, FilterTyped

(* The places before an entry of the ring.                                  *)
LEMMA RingIsRound ==
  ASSUME NEW p \in Entries, NEW d \in Entries
  PROVE  /\ Back(p, d) = IF p > d THEN p - 1 - d ELSE p + Ring - 1 - d
         /\ (p + 1) % Ring = IF p + 1 < Ring THEN p + 1 ELSE 0
<1>1. Ring \in Nat \ {0} /\ p \in 0 .. Ring - 1 /\ d \in 0 .. Ring - 1
  BY FilterNumbers DEF Entries
<1>2. PICK f \in Nat : f = p + Ring - 1 - d
  BY <1>1
<1>3. PICK g \in Nat : g = p + 1
  BY <1>1
<1>4. /\ f < Ring => f % Ring = f
      /\ Ring <= f /\ f < Ring + Ring => f % Ring = f - Ring
      /\ g < Ring => g % Ring = g
      /\ Ring <= g /\ g < Ring + Ring => g % Ring = g - Ring
  BY <1>1, OneWrap
<1>5. f % Ring = IF p > d THEN p - 1 - d ELSE p + Ring - 1 - d
  BY <1>1, <1>2, <1>4
<1>6. g % Ring = IF p + 1 < Ring THEN p + 1 ELSE 0
  BY <1>1, <1>3, <1>4
<1> QED
  BY <1>2, <1>3, <1>5, <1>6 DEF Back

LEMMA RingPlaces ==
  ASSUME NEW p \in Entries
  PROVE  /\ (p + 1) % Ring \in Entries
         /\ \A d \in Entries : Back(p, d) \in Entries
         /\ \A d \in Entries : Back(p, d) = p => d = Ring - 1
         /\ Back((p + 1) % Ring, 0) = p
         /\ \A d \in Entries : d # Ring - 1 =>
               d + 1 \in Entries /\ Back((p + 1) % Ring, d + 1) = Back(p, d)
<1>1. Ring \in Nat \ {0} /\ p \in 0 .. Ring - 1 /\ 0 \in Entries
  BY FilterNumbers DEF Entries
<1>2. PICK k \in Nat : k = (p + 1) % Ring /\ k = IF p + 1 < Ring THEN p + 1 ELSE 0
  BY <1>1, RingIsRound
<1>3. k \in Entries
  BY <1>1, <1>2 DEF Entries
<1>4. \A d \in Entries : Back(p, d) = IF p > d THEN p - 1 - d ELSE p + Ring - 1 - d
  BY RingIsRound
<1>5. \A d \in Entries : Back(k, d) = IF k > d THEN k - 1 - d ELSE k + Ring - 1 - d
  BY <1>3, RingIsRound
<1>6. \A d \in Entries : Back(p, d) \in Entries /\ (Back(p, d) = p => d = Ring - 1)
  BY <1>1, <1>4 DEF Entries
<1>7. Back(k, 0) = p
  BY <1>1, <1>2, <1>5
<1>8. ASSUME NEW d \in Entries, d # Ring - 1
      PROVE  d + 1 \in Entries /\ Back(k, d + 1) = Back(p, d)
  <2>1. d + 1 \in Entries /\ d \in Nat /\ d + 1 < Ring
    BY <1>1, <1>8 DEF Entries
  <2>2. /\ Back(k, d + 1) = IF k > d + 1 THEN k - 1 - (d + 1) ELSE k + Ring - 1 - (d + 1)
        /\ Back(p, d) = IF p > d THEN p - 1 - d ELSE p + Ring - 1 - d
    BY <1>4, <1>5, <2>1
  <2> HIDE DEF Back
  <2> QED
    BY <1>1, <1>2, <2>1, <2>2
<1> QED
  BY <1>2, <1>3, <1>6, <1>7, <1>8

-----------------------------------------------------------------------------
(* What the steps do to the call of their thread.                           *)
OthersReport(t) == call' \in [Reporters -> Reports] /\ \A u \in Reporters : u # t => call'[u] = call[u]

SameText(t) ==
    /\ call'[t].text = call[t].text /\ call'[t].now = call[t].now
    /\ call'[t].quiet = call[t].quiet /\ call'[t].gap = call[t].gap

MovesTo(t, step) ==
    OthersReport(t) /\ SameText(t) /\ call'[t].st = step /\ call'[t].i = call[t].i

MovesOn(t) ==
    /\ OthersReport(t) /\ SameText(t)
    /\ \/ call'[t].st = "scan" /\ call'[t].i = call[t].i + 1 /\ call[t].i + 1 < Ring
       \/ call'[t].st = "insert" /\ ~(call[t].i + 1 < Ring)

LEMMA CallChanges ==
  ASSUME FilterTyped, NEW t \in Reporters, NEW c \in Reports, call' = [call EXCEPT ![t] = c]
  PROVE  OthersReport(t) /\ call'[t] = c
BY DEF FilterTyped, OthersReport

LEMMA ProceedsMoves ==
  ASSUME FilterTyped, NEW t \in Reporters,
         NEW x \in {"age", "touch", "insert", "putAt", "dropped", "sent"}, Proceeds(t, x)
  PROVE  MovesTo(t, x)
<1> DEFINE c == [call[t] EXCEPT !.st = x]
<1>1. call' = [call EXCEPT ![t] = c]
  BY DEF Proceeds
<1>2. /\ c \in Reports /\ c.st = x /\ c.text = call[t].text /\ c.now = call[t].now
      /\ c.i = call[t].i /\ c.quiet = call[t].quiet /\ c.gap = call[t].gap
  BY ReportIsTyped DEF Reports
<1> HIDE DEF c
<1> QED
  BY <1>1, <1>2, CallChanges DEF MovesTo, SameText

LEMMA NextEntryMoves ==
  ASSUME FilterTyped, NEW t \in Reporters, NextEntry(t)
  PROVE  MovesOn(t)
<1>1. CASE call[t].i + 1 < Ring
  <2> DEFINE k == call[t].i + 1
             c == [call[t] EXCEPT !.st = "scan", !.i = k]
  <2>0. k \in Entries
    BY <1>1, ReportIsTyped, FilterNumbers DEF Entries
  <2>1. call' = [call EXCEPT ![t] = c]
    BY <1>1 DEF NextEntry
  <2> HIDE DEF k
  <2>2. /\ c \in Reports /\ c.st = "scan" /\ c.text = call[t].text /\ c.now = call[t].now
        /\ c.i = k /\ c.quiet = call[t].quiet /\ c.gap = call[t].gap
    BY <2>0, ReportIsTyped DEF Reports
  <2> HIDE DEF c
  <2>3. OthersReport(t) /\ SameText(t) /\ call'[t].st = "scan" /\ call'[t].i = k
    BY <2>1, <2>2, CallChanges DEF SameText
  <2> QED
    BY <1>1, <2>3 DEF MovesOn, k
<1>2. CASE ~(call[t].i + 1 < Ring)
  BY <1>2, ProceedsMoves DEF NextEntry, MovesTo, MovesOn
<1> QED
  BY <1>1, <1>2

LEMMA InsertMoves ==
  ASSUME FilterTyped, NEW t \in Reporters, Insert(t)
  PROVE  OthersReport(t) /\ SameText(t) /\ call'[t].st = "putHash" /\ call'[t].i = next
<1> DEFINE c == [call[t] EXCEPT !.st = "putHash", !.i = next]
<1>1. call' = [call EXCEPT ![t] = c] /\ next \in Entries
  BY DEF Insert, FilterTyped
<1>2. /\ c \in Reports /\ c.st = "putHash" /\ c.text = call[t].text /\ c.now = call[t].now
      /\ c.i = next /\ c.quiet = call[t].quiet /\ c.gap = call[t].gap
  BY <1>1, ReportIsTyped DEF Reports
<1> HIDE DEF c
<1> QED
  BY <1>1, <1>2, CallChanges DEF SameText

LEMMA NoReportIsOut == NoReport \in Reports /\ NoReport.st = "out"
<1>1. 0 \in Entries /\ Never \in 0 .. Never
  BY FilterNumbers DEF Entries, Never
<1> QED
  BY <1>1 DEF NoReport, Reports

LEMMA AnswerMoves ==
  ASSUME FilterTyped, NEW t \in Reporters, Answer(t)
  PROVE  OthersReport(t) /\ call'[t].st = "out"
<1>1. OthersReport(t) /\ call'[t] = NoReport
  BY NoReportIsOut, CallChanges DEF Answer
<1> QED
  BY <1>1, NoReportIsOut

(* Whatever the step, it is of one report, which keeps its text and times.  *)
LEMMA RepeatStepMoves ==
  ASSUME FilterTyped, NEW t \in Reporters, RepeatStep(t)
  PROVE  /\ OthersReport(t) /\ Reporting(t)
         /\ time' = time /\ shown' = shown /\ raced' = raced
         /\ call'[t].st = "out" \/ SameText(t)
<1> USE DEF MovesTo, MovesOn, ring, history, Reporting
<1>1. CASE Scan(t)
  BY <1>1, ProceedsMoves, NextEntryMoves DEF Scan
<1>2. CASE Age(t)
  BY <1>2, ProceedsMoves, NextEntryMoves DEF Age
<1>3. CASE Touch(t)
  BY <1>3, ProceedsMoves DEF Touch
<1>4. CASE Insert(t)
  BY <1>4, InsertMoves DEF Insert
<1>5. CASE PutHash(t) \/ PutAt(t)
  BY <1>5, ProceedsMoves DEF PutHash, PutAt
<1>6. CASE Answer(t)
  BY <1>6, AnswerMoves DEF Answer
<1> QED
  BY <1>1, <1>2, <1>3, <1>4, <1>5, <1>6 DEF RepeatStep

(* A report that begins. *)
LEMMA IsRepeatMoves ==
  ASSUME FilterTyped, NEW t \in Reporters, NEW x \in Texts, IsRepeat(t, x)
  PROVE  /\ call' \in [Reporters -> Reports]
         /\ call'[t].st = "scan" /\ call'[t].text = x /\ call'[t].now = time % TickWrap
         /\ call'[t].i = 0 /\ call'[t].quiet = shown[x] /\ call'[t].gap = sent[x]
         /\ \A u \in Reporters : u # t =>
               /\ call'[u].st = call[u].st /\ call'[u].text = call[u].text
               /\ call'[u].now = call[u].now /\ call'[u].i = call[u].i
<1> DEFINE c == [st |-> "scan", text |-> x, now |-> time % TickWrap, i |-> 0,
                 quiet |-> shown[x], gap |-> sent[x]]
           d(u) == [call[u] EXCEPT !.quiet = 0]
           e(u) == IF u = t THEN c ELSE IF call[u].text = x THEN d(u) ELSE call[u]
<1>1. call' = [u \in Reporters |-> e(u)]
  BY DEF IsRepeat
<1>2. /\ c \in Reports /\ c.st = "scan" /\ c.text = x /\ c.now = time % TickWrap
      /\ c.i = 0 /\ c.quiet = shown[x] /\ c.gap = sent[x]
  <2>1. time % TickWrap \in Nat
    BY FilterNumbers, Division DEF FilterTyped
  <2>2. 0 \in Entries /\ shown[x] \in 0 .. Never /\ sent[x] \in 0 .. Never
    BY FilterNumbers DEF Entries, FilterTyped
  <2> QED
    BY <2>1, <2>2 DEF Reports
<1>3. \A u \in Reporters :
        /\ d(u) \in Reports /\ d(u).st = call[u].st /\ d(u).text = call[u].text
        /\ d(u).now = call[u].now /\ d(u).i = call[u].i
  <2>1. 0 \in 0 .. Never
    BY FilterNumbers DEF Never
  <2> QED
    BY <2>1, ReportIsTyped DEF Reports
<1>4. \A u \in Reporters : call[u] \in Reports
  BY ReportIsTyped
<1> HIDE DEF c, d
<1>5. \A u \in Reporters : e(u) \in Reports
  BY <1>2, <1>3, <1>4
<1>6. /\ e(t) = c
      /\ \A u \in Reporters : u # t => e(u) = d(u) \/ e(u) = call[u]
  OBVIOUS
<1> HIDE DEF e
<1>7. call' \in [Reporters -> Reports] /\ \A u \in Reporters : call'[u] = e(u)
  BY <1>1, <1>5
<1> QED
  BY <1>2, <1>3, <1>6, <1>7

-----------------------------------------------------------------------------
(* The types, and how long a call has lasted.                               *)
LEMMA LastsNext ==
  ASSUME NEW t \in Reporters, time' \in Nat, NEW r \in Nat, r <= time', time' - r < TickWrap,
         call'[t].now = r % TickWrap
  PROVE  Lasts(t)' = time' - r
<1>1. TickWrap \in Nat \ {0}
  BY FilterNumbers
<1>2. (TickWrap + (time' % TickWrap) - (r % TickWrap)) % TickWrap = time' - r
  BY <1>1, Difference
<1> QED
  BY <1>2 DEF Lasts

LEMMA SameLasts ==
  ASSUME NEW t \in Reporters, time' = time, call'[t].now = call[t].now
  PROVE  Lasts(t)' = Lasts(t) /\ Began(t)' = Began(t)
BY DEF Lasts, Began

LEMMA AgesOn ==
  ASSUME NEW a \in 0 .. Never
  PROVE  /\ Older(a) \in 0 .. Never /\ a <= Older(a) /\ Older(a) <= a + 1
         /\ a < RepeatWindow => Older(a) = a + 1
         /\ Older(a) < RepeatWindow => a < RepeatWindow /\ Older(a) = a + 1
         /\ a # Never => Older(a) # Never
         /\ a <= RepeatWindow => Older(a) <= RepeatWindow
BY FilterNumbers DEF Older, Never

LEMMA Ages ==
  ASSUME FilterTyped, NEW x \in Texts
  PROVE  shown[x] \in 0 .. Never /\ sent[x] \in 0 .. Never
BY DEF FilterTyped

LEMMA CallTyped ==
  ASSUME FilterTyped, NEW t \in Reporters, RepeatStep(t)
  PROVE  /\ call' \in [Reporters -> Reports]
         /\ \A u \in Reporters : Reporting(u)' => Reporting(u) /\ call'[u].text = call[u].text
                                                 /\ call'[u].now = call[u].now
         /\ \A u \in Reporters : Reporting(u)' => call'[u].text \in Texts
<1>1. /\ OthersReport(t) /\ Reporting(t)
      /\ call'[t].st = "out" \/ SameText(t)
  BY RepeatStepMoves
<1>2. \A u \in Reporters : Reporting(u) => call[u].text \in Texts
  BY ReportIsTyped
<1> QED
  BY <1>1, <1>2 DEF OthersReport, SameText, Reporting

LEMMA FilterTypedKept ==
  ASSUME FilterTyped, ReportsInTime, [RepeatNext]_repeatVars
  PROVE  FilterTyped'
<1> USE DEF ring, history
<1>1. CASE RepeatTick
  <2>1. time' \in Nat /\ FirstUse <= time' /\ time' <= LastTick
    BY <1>1, FilterNumbers DEF RepeatTick, FilterTyped
  <2>2. /\ next' \in Entries /\ raced' \in BOOLEAN
        /\ hash' \in [Entries -> Texts \cup {NoText}] /\ at' \in [Entries -> Nat]
        /\ call' \in [Reporters -> Reports]
        /\ \A t \in Reporters : Reporting(t)' => call'[t].text \in Texts
    BY <1>1 DEF RepeatTick, FilterTyped, Reporting
  <2>3. shown' \in [Texts -> 0 .. Never] /\ sent' \in [Texts -> 0 .. Never]
    <3>1. \A x \in Texts : Older(shown[x]) \in 0 .. Never /\ Older(sent[x]) \in 0 .. Never
      BY Ages, AgesOn
    <3> QED
      BY <1>1, <3>1 DEF RepeatTick
  <2> QED
    BY <2>1, <2>2, <2>3 DEF FilterTyped
<1>2. ASSUME NEW t \in Reporters, NEW x \in Texts, IsRepeat(t, x)
      PROVE  FilterTyped'
  <2>1. call' \in [Reporters -> Reports]
    BY <1>2, IsRepeatMoves
  <2>2. \A u \in Reporters : Reporting(u)' => call'[u].text \in Texts
    <3>1. /\ call'[t].text = x
          /\ \A u \in Reporters : u # t => call'[u].st = call[u].st /\ call'[u].text = call[u].text
      BY <1>2, IsRepeatMoves
    <3> QED
      BY <3>1, ReportIsTyped DEF Reporting
  <2>3. shown' \in [Texts -> 0 .. Never]
    <3>1. 0 \in 0 .. Never
      BY FilterNumbers DEF Never
    <3> QED
      BY <1>2, <3>1 DEF IsRepeat, FilterTyped
  <2>4. raced' \in BOOLEAN
    BY <1>2 DEF IsRepeat, FilterTyped
  <2>5. time' = time /\ hash' = hash /\ at' = at /\ next' = next /\ sent' = sent
    BY <1>2 DEF IsRepeat
  <2> QED
    BY <2>1, <2>2, <2>3, <2>4, <2>5 DEF FilterTyped
<1>3. ASSUME NEW t \in Reporters, RepeatStep(t)
      PROVE  FilterTyped'
  <2>1. /\ call' \in [Reporters -> Reports]
        /\ \A u \in Reporters : Reporting(u)' => call'[u].text \in Texts
    BY <1>3, CallTyped
  <2>2. time' = time /\ shown' = shown /\ raced' = raced
    BY <1>3, RepeatStepMoves
  <2>3. /\ Reporting(t) /\ call[t].text \in Texts /\ call[t].i \in Entries /\ call[t].now \in Nat
    BY <1>3, RepeatStepMoves, ReportIsTyped
  <2>4. next' \in Entries
    <3>1. next \in Entries /\ (next + 1) % Ring \in Entries
      BY RingPlaces DEF FilterTyped
    <3> QED
      BY <1>3, <3>1 DEF RepeatStep, Scan, Age, Touch, Insert, PutHash, PutAt, Answer
  <2>5. hash' \in [Entries -> Texts \cup {NoText}]
    BY <1>3, <2>3 DEF RepeatStep, Scan, Age, Touch, Insert, PutHash, PutAt, Answer, FilterTyped
  <2>6. at' \in [Entries -> Nat]
    BY <1>3, <2>3 DEF RepeatStep, Scan, Age, Touch, Insert, PutHash, PutAt, Answer, FilterTyped
  <2>7. sent' \in [Texts -> 0 .. Never]
    <3> DEFINE a == IF Lasts(t) < RepeatWindow THEN Lasts(t) ELSE RepeatWindow
    <3>1. a \in 0 .. Never
      <4>1. Lasts(t) \in 0 .. Delay
        BY <2>3 DEF ReportsInTime
      <4> QED
        BY <4>1, FilterNumbers DEF Never
    <3>2. sent' = sent \/ sent' = [sent EXCEPT ![call[t].text] = a]
      BY <1>3 DEF RepeatStep, Scan, Age, Touch, Insert, PutHash, PutAt, Answer
    <3> HIDE DEF a
    <3> QED
      BY <3>1, <3>2 DEF FilterTyped
  <2> QED
    BY <2>1, <2>2, <2>4, <2>5, <2>6, <2>7 DEF FilterTyped
<1>4. CASE UNCHANGED repeatVars
  BY <1>4 DEF repeatVars, FilterTyped, Reporting
<1> QED
  BY <1>1, <1>2, <1>3, <1>4 DEF RepeatNext

LEMMA BeganIs ==
  ASSUME FilterTyped, ReportsInTime, NEW t \in Reporters, Reporting(t)
  PROVE  /\ Began(t) \in Nat /\ FirstUse <= Began(t) /\ Began(t) <= time
         /\ Lasts(t) \in Nat /\ Lasts(t) <= Delay /\ time = Began(t) + Lasts(t)
         /\ call[t].now = Began(t) % TickWrap
         /\ shown[call[t].text] <= Lasts(t) /\ shown[call[t].text] <= RepeatWindow
<1>1. Lasts(t) \in 0 .. Delay /\ time \in Nat /\ Delay \in Nat /\ FirstUse \in Nat
  BY FilterNumbers DEF ReportsInTime, FilterTyped
<1>2. Began(t) = time - Lasts(t)
  BY DEF Began
<1>3. Began(t) \in FirstUse .. time
  BY DEF ReportsInTime
<1>4. /\ call[t].now = Began(t) % TickWrap
      /\ shown[call[t].text] <= Lasts(t) /\ shown[call[t].text] <= RepeatWindow
  BY DEF ReportsInTime
<1> HIDE DEF Began, Lasts
<1> QED
  BY <1>1, <1>2, <1>3, <1>4

LEMMA TickLasts ==
  ASSUME FilterTyped, ReportsInTime, RepeatTick, NEW t \in Reporters, Reporting(t)
  PROVE  Lasts(t)' = Lasts(t) + 1 /\ Began(t)' = Began(t) /\ Lasts(t) < Delay /\ Reporting(t)'
<1>1. /\ Began(t) \in Nat /\ Lasts(t) \in Nat /\ time = Began(t) + Lasts(t)
      /\ call[t].now = Began(t) % TickWrap
  BY BeganIs
<1>2. Lasts(t) < Delay /\ Delay < TickWrap /\ TickWrap \in Nat /\ Delay \in Nat
  BY FilterNumbers DEF RepeatTick, Reporting
<1>3. time' = time + 1 /\ call' = call
  BY DEF RepeatTick
<1> DEFINE r == Began(t)
           l == Lasts(t)
<1> HIDE DEF r, l
<1>4. r \in Nat /\ l \in Nat /\ time = r + l /\ l < Delay
  BY <1>1, <1>2 DEF r, l
<1>5. time' \in Nat /\ r <= time' /\ time' - r = l + 1 /\ l + 1 < TickWrap
  BY <1>2, <1>3, <1>4
<1>6. call'[t].now = r % TickWrap
  BY <1>1, <1>3 DEF r
<1>7. Lasts(t)' = l + 1
  BY <1>4, <1>5, <1>6, LastsNext
<1>8. Began(t)' = r
  <2>1. Began(t)' = time' - Lasts(t)'
    BY DEF Began
  <2> HIDE DEF Lasts, Began
  <2> QED
    BY <1>3, <1>4, <1>7, <2>1
<1> QED
  BY <1>2, <1>3, <1>7, <1>8 DEF r, l, Reporting

LEMMA BeginLasts ==
  ASSUME FilterTyped, NEW t \in Reporters, NEW x \in Texts, IsRepeat(t, x)
  PROVE  Lasts(t)' = 0 /\ Began(t)' = time /\ time' = time
<1>1. time \in Nat /\ time' = time /\ TickWrap \in Nat \ {0}
  BY FilterNumbers DEF IsRepeat, FilterTyped
<1>2. call'[t].now = time % TickWrap
  BY IsRepeatMoves
<1>3. Lasts(t)' = time' - time
  BY <1>1, <1>2, LastsNext
<1>4. Began(t)' = time' - Lasts(t)'
  BY DEF Began
<1> HIDE DEF Lasts, Began
<1> QED
  BY <1>1, <1>3, <1>4

LEMMA ReportsInTimeKept ==
  ASSUME FilterTyped, ReportsInTime, [RepeatNext]_repeatVars
  PROVE  ReportsInTime'
<1> USE DEF ring, history
<1> DEFINE Right(t) ==
             /\ Began(t) \in FirstUse .. time
             /\ call[t].now = Began(t) % TickWrap
             /\ Lasts(t) \in 0 .. Delay
             /\ shown[call[t].text] <= Lasts(t) /\ shown[call[t].text] <= RepeatWindow
<1>1. ASSUME RepeatTick, NEW t \in Reporters, Reporting(t)'
      PROVE  Right(t)'
  <2>1. call' = call /\ time' = time + 1 /\ Reporting(t)
    BY <1>1 DEF RepeatTick, Reporting
  <2>2. /\ Lasts(t)' = Lasts(t) + 1 /\ Began(t)' = Began(t) /\ Lasts(t) < Delay
    BY <1>1, <2>1, TickLasts
  <2>3. /\ Began(t) \in Nat /\ FirstUse <= Began(t) /\ Began(t) <= time
        /\ Lasts(t) \in Nat /\ call[t].now = Began(t) % TickWrap
        /\ shown[call[t].text] <= Lasts(t) /\ shown[call[t].text] <= RepeatWindow
    BY <2>1, BeganIs
  <2>4. call[t].text \in Texts
    BY <2>1, ReportIsTyped
  <2>5. shown'[call[t].text] = Older(shown[call[t].text])
    BY <1>1, <2>4 DEF RepeatTick
  <2>6. PICK a \in 0 .. Never : a = shown[call[t].text]
    BY <2>4, Ages
  <2>7. Older(a) \in 0 .. Never /\ Older(a) <= a + 1 /\ (a <= RepeatWindow => Older(a) <= RepeatWindow)
    BY AgesOn
  <2>8. shown'[call'[t].text] = Older(a) /\ a <= Lasts(t) /\ a <= RepeatWindow
    BY <2>1, <2>3, <2>5, <2>6
  <2>9. time \in Nat /\ FirstUse \in Nat /\ Delay \in Nat /\ RepeatWindow \in Nat
    BY FilterNumbers DEF FilterTyped
  <2> HIDE DEF Lasts, Began, Older
  <2>10. Began(t)' \in FirstUse .. time' /\ Lasts(t)' \in 0 .. Delay
    BY <2>1, <2>2, <2>3, <2>9
  <2>11. shown'[call'[t].text] <= Lasts(t)' /\ shown'[call'[t].text] <= RepeatWindow
    BY <2>2, <2>3, <2>6, <2>7, <2>8, <2>9
  <2>12. call'[t].now = Began(t)' % TickWrap
    BY <2>1, <2>2, <2>3
  <2> QED
    BY <2>10, <2>11, <2>12
<1>2. ASSUME NEW t \in Reporters, NEW x \in Texts, IsRepeat(t, x), NEW u \in Reporters, Reporting(u)'
      PROVE  Right(u)'
  <2>1. time' = time /\ time \in Nat /\ FirstUse <= time /\ FirstUse \in Nat /\ Delay \in Nat /\ RepeatWindow \in Nat
    BY <1>2, FilterNumbers DEF IsRepeat, FilterTyped
  <2>2. \A y \in Texts : shown'[y] = IF y = x THEN 0 ELSE shown[y]
    BY <1>2 DEF IsRepeat, FilterTyped
  <2>3. CASE u = t
    <3>1. Lasts(t)' = 0 /\ Began(t)' = time
      BY <1>2, BeginLasts
    <3>2. call'[t].now = time % TickWrap /\ call'[t].text = x
      BY <1>2, IsRepeatMoves
    <3> HIDE DEF Lasts, Began
    <3> QED
      BY <2>1, <2>2, <2>3, <3>1, <3>2
  <2>4. CASE u # t
    <3>1. call'[u].st = call[u].st /\ call'[u].text = call[u].text /\ call'[u].now = call[u].now
      BY <1>2, <2>4, IsRepeatMoves
    <3>2. Reporting(u) /\ Lasts(u)' = Lasts(u) /\ Began(u)' = Began(u)
      BY <1>2, <2>1, <3>1, SameLasts DEF Reporting
    <3>3. Right(u) /\ call[u].text \in Texts
      BY <3>2, ReportIsTyped DEF ReportsInTime
    <3>4. shown[call[u].text] \in Nat
      BY <3>3, Ages
    <3> HIDE DEF Lasts, Began
    <3> QED
      BY <2>1, <2>2, <3>1, <3>2, <3>3, <3>4
  <2> QED
    BY <2>3, <2>4
<1>3. ASSUME NEW t \in Reporters, RepeatStep(t), NEW u \in Reporters, Reporting(u)'
      PROVE  Right(u)'
  <2>1. time' = time /\ shown' = shown
    BY <1>3, RepeatStepMoves
  <2>2. Reporting(u) /\ call'[u].text = call[u].text /\ call'[u].now = call[u].now
    BY <1>3, CallTyped
  <2>3. Lasts(u)' = Lasts(u) /\ Began(u)' = Began(u)
    BY <2>1, <2>2, SameLasts
  <2> HIDE DEF Lasts, Began
  <2> QED
    BY <2>1, <2>2, <2>3 DEF ReportsInTime
<1>4. ASSUME UNCHANGED repeatVars, NEW u \in Reporters, Reporting(u)'
      PROVE  Right(u)'
  BY <1>4 DEF repeatVars, Reporting, ReportsInTime, Began, Lasts
<1> HIDE DEF Right
<1>5. \A u \in Reporters : Reporting(u)' => Right(u)'
  BY <1>1, <1>2, <1>3, <1>4 DEF RepeatNext
<1> QED
  BY <1>5 DEF ReportsInTime, Right

-----------------------------------------------------------------------------
(* What a step does to the ring.                                            *)
LEMMA StepOnRing ==
  ASSUME FilterTyped, NEW t \in Reporters, RepeatStep(t)
  PROVE  /\ OthersReport(t) /\ time' = time /\ shown' = shown /\ raced' = raced
         /\ \/ Scan(t) /\ hash' = hash /\ at' = at /\ next' = next /\ sent' = sent
            \/ Age(t) /\ hash' = hash /\ at' = at /\ next' = next /\ sent' = sent
            \/ Touch(t) /\ hash' = hash /\ next' = next /\ sent' = sent
                 /\ call[t].st = "touch" /\ at' = [at EXCEPT ![call[t].i] = call[t].now]
            \/ Insert(t) /\ hash' = hash /\ at' = at /\ sent' = sent
                 /\ call[t].st = "insert" /\ next' = (next + 1) % Ring
            \/ PutHash(t) /\ at' = at /\ next' = next /\ sent' = sent
                 /\ call[t].st = "putHash" /\ hash' = [hash EXCEPT ![call[t].i] = call[t].text]
            \/ PutAt(t) /\ hash' = hash /\ next' = next
                 /\ call[t].st = "putAt" /\ at' = [at EXCEPT ![call[t].i] = call[t].now]
            \/ Answer(t) /\ hash' = hash /\ at' = at /\ next' = next /\ sent' = sent
<1>1. OthersReport(t) /\ time' = time /\ shown' = shown /\ raced' = raced
  BY RepeatStepMoves
<1> QED
  BY <1>1 DEF RepeatStep, Scan, Age, Touch, Insert, PutHash, PutAt, Answer, ring, history

(* What a step does to the call it is of.                                   *)
LEMMA StepOnCall ==
  ASSUME FilterTyped, NEW t \in Reporters, RepeatStep(t)
  PROVE  /\ Scan(t) => /\ call[t].st = "scan"
                       /\ IF hash[call[t].i] = call[t].text THEN MovesTo(t, "age") ELSE MovesOn(t)
         /\ Age(t) => /\ call[t].st = "age"
                      /\ IF Recently(call[t].now, at[call[t].i]) THEN MovesTo(t, "touch")
                                                                 ELSE MovesOn(t)
         /\ Touch(t) => call[t].st = "touch" /\ MovesTo(t, "dropped")
         /\ Insert(t) => /\ call[t].st = "insert" /\ SameText(t)
                         /\ call'[t].st = "putHash" /\ call'[t].i = next
         /\ PutHash(t) => call[t].st = "putHash" /\ MovesTo(t, "putAt")
         /\ PutAt(t) => call[t].st = "putAt" /\ MovesTo(t, "sent")
         /\ Answer(t) => call[t].st \in {"dropped", "sent"} /\ call'[t].st = "out"
<1>1. Scan(t) => /\ call[t].st = "scan"
                 /\ IF hash[call[t].i] = call[t].text THEN MovesTo(t, "age") ELSE MovesOn(t)
  BY ProceedsMoves, NextEntryMoves DEF Scan
<1>2. Age(t) => /\ call[t].st = "age"
                /\ IF Recently(call[t].now, at[call[t].i]) THEN MovesTo(t, "touch") ELSE MovesOn(t)
  BY ProceedsMoves, NextEntryMoves DEF Age
<1>3. Touch(t) => call[t].st = "touch" /\ MovesTo(t, "dropped")
  BY ProceedsMoves DEF Touch
<1>4. Insert(t) => call[t].st = "insert" /\ SameText(t) /\ call'[t].st = "putHash" /\ call'[t].i = next
  BY InsertMoves DEF Insert
<1>5. PutHash(t) => call[t].st = "putHash" /\ MovesTo(t, "putAt")
  BY ProceedsMoves DEF PutHash
<1>6. PutAt(t) => call[t].st = "putAt" /\ MovesTo(t, "sent")
  BY ProceedsMoves DEF PutAt
<1>7. Answer(t) => call[t].st \in {"dropped", "sent"} /\ call'[t].st = "out"
  BY AnswerMoves DEF Answer
<1> QED
  BY <1>1, <1>2, <1>3, <1>4, <1>5, <1>6, <1>7

LEMMA SentIs ==
  ASSUME FilterTyped, ReportsInTime, NEW t \in Reporters, PutAt(t)
  PROVE  \E a \in 0 .. RepeatWindow :
            /\ (Lasts(t) < RepeatWindow => a = Lasts(t)) /\ (~(Lasts(t) < RepeatWindow) => a = RepeatWindow)
            /\ shown[call[t].text] <= a
            /\ \A x \in Texts : sent'[x] = IF x = call[t].text THEN a ELSE sent[x]
<1> DEFINE a == IF Lasts(t) < RepeatWindow THEN Lasts(t) ELSE RepeatWindow
<1>1. Reporting(t)
  BY DEF PutAt, Reporting
<1>2. Lasts(t) \in Nat /\ RepeatWindow \in Nat /\ shown[call[t].text] <= Lasts(t)
      /\ shown[call[t].text] <= RepeatWindow
  BY <1>1, BeganIs, FilterNumbers
<1>3. sent' = [sent EXCEPT ![call[t].text] = a]
  BY DEF PutAt
<1>4. a \in 0 .. RepeatWindow /\ shown[call[t].text] <= a
  BY <1>2
<1>5. /\ Lasts(t) < RepeatWindow => a = Lasts(t)
      /\ ~(Lasts(t) < RepeatWindow) => a = RepeatWindow
  OBVIOUS
<1> HIDE DEF a
<1>6. \A x \in Texts : sent'[x] = IF x = call[t].text THEN a ELSE sent[x]
  BY <1>3 DEF FilterTyped
<1> QED
  BY <1>4, <1>5, <1>6

LEMMA SentWasShownKept ==
  ASSUME FilterTyped, ReportsInTime, SentWasShown, [RepeatNext]_repeatVars
  PROVE  SentWasShown'
<1> USE DEF ring, history
<1>0. \A x \in Texts : shown[x] \in 0 .. Never /\ sent[x] \in 0 .. Never /\ shown[x] <= sent[x]
  BY Ages DEF SentWasShown
<1>1. CASE RepeatTick
  <2>1. \A x \in Texts : shown'[x] = Older(shown[x]) /\ sent'[x] = Older(sent[x])
    BY <1>1 DEF RepeatTick
  <2>2. ASSUME NEW a \in 0 .. Never, NEW b \in 0 .. Never, a <= b
        PROVE  Older(a) <= Older(b)
    BY <2>2, FilterNumbers DEF Older, Never
  <2> QED
    BY <1>0, <2>1, <2>2 DEF SentWasShown
<1>2. ASSUME NEW t \in Reporters, NEW x \in Texts, IsRepeat(t, x)
      PROVE  SentWasShown'
  <2>1. \A y \in Texts : shown'[y] = IF y = x THEN 0 ELSE shown[y]
    BY <1>2 DEF IsRepeat, FilterTyped
  <2>2. sent' = sent
    BY <1>2 DEF IsRepeat
  <2> QED
    BY <1>0, <2>1, <2>2 DEF SentWasShown
<1>3. ASSUME NEW t \in Reporters, RepeatStep(t)
      PROVE  SentWasShown'
  <2>1. shown' = shown /\ (sent' = sent \/ PutAt(t))
    BY <1>3, StepOnRing
  <2>2. CASE PutAt(t)
    BY <1>0, <2>1, <2>2, SentIs DEF SentWasShown
  <2> QED
    BY <2>1, <2>2 DEF SentWasShown
<1>4. CASE UNCHANGED repeatVars
  BY <1>4 DEF repeatVars, SentWasShown
<1> QED
  BY <1>1, <1>2, <1>3, <1>4 DEF RepeatNext

LEMMA SentOrAboutStays ==
  ASSUME FilterTyped, ReportsInTime, [RepeatNext]_repeatVars, NEW x \in Texts, SentOrAbout(x)
  PROVE  SentOrAbout(x)'
<1> USE DEF ring, history
<1>1. CASE RepeatTick
  <2>1. call' = call /\ sent'[x] = Older(sent[x])
    BY <1>1 DEF RepeatTick
  <2>2. sent[x] # Never => Older(sent[x]) # Never
    BY Ages, AgesOn
  <2> QED
    BY <2>1, <2>2 DEF SentOrAbout
<1>2. ASSUME NEW t \in Reporters, NEW y \in Texts, IsRepeat(t, y)
      PROVE  SentOrAbout(x)'
  <2>1. sent' = sent /\ call[t].st = "out"
    BY <1>2 DEF IsRepeat
  <2>2. \A u \in Reporters : u # t => call'[u].st = call[u].st /\ call'[u].text = call[u].text
    BY <1>2, IsRepeatMoves
  <2> QED
    BY <2>1, <2>2 DEF SentOrAbout
<1>3. ASSUME NEW t \in Reporters, RepeatStep(t)
      PROVE  SentOrAbout(x)'
  <2>1. OthersReport(t) /\ (sent' = sent \/ PutAt(t))
    BY <1>3, StepOnRing
  <2>2. CASE PutAt(t)
    <3>1. PICK a \in 0 .. RepeatWindow :
             \A y \in Texts : sent'[y] = IF y = call[t].text THEN a ELSE sent[y]
      BY <2>2, SentIs
    <3>2. a # Never
      BY FilterNumbers DEF Never
    <3> QED
      BY <2>1, <3>1, <3>2 DEF SentOrAbout, OthersReport
  <2>3. CASE ~PutAt(t)
    <3>1. call[t].st # "putAt"
      BY <1>3, <2>3, StepOnCall DEF RepeatStep
    <3> QED
      BY <2>1, <2>3, <3>1 DEF SentOrAbout, OthersReport
  <2> QED
    BY <2>2, <2>3
<1>4. CASE UNCHANGED repeatVars
  BY <1>4 DEF repeatVars, SentOrAbout
<1> QED
  BY <1>1, <1>2, <1>3, <1>4 DEF RepeatNext

LEMMA EntriesWereSentKept ==
  ASSUME FilterTyped, ReportsInTime, EntriesWereSent, [RepeatNext]_repeatVars
  PROVE  EntriesWereSent'
<1> USE DEF ring, history
<1> DEFINE Acts == {"age", "touch", "dropped"}
           Told(x) == sent'[x] # Never \/ \E u \in Reporters : call'[u].text = x /\ call'[u].st = "putAt"
<1>0. /\ \A x \in Texts : SentOrAbout(x) => Told(x)
      /\ \A i \in Entries : hash[i] # NoText => hash[i] \in Texts /\ SentOrAbout(hash[i])
      /\ \A u \in Reporters : call[u].st \in Acts => call[u].text \in Texts /\ SentOrAbout(call[u].text)
  <2>1. \A x \in Texts : SentOrAbout(x) => Told(x)
    <3>1. \A x \in Texts : SentOrAbout(x) => SentOrAbout(x)'
      BY SentOrAboutStays
    <3> QED
      BY <3>1 DEF SentOrAbout
  <2>2. \A i \in Entries : hash[i] # NoText => hash[i] \in Texts /\ SentOrAbout(hash[i])
    BY DEF EntriesWereSent, FilterTyped
  <2>3. \A u \in Reporters : call[u].st \in Acts => call[u].text \in Texts /\ SentOrAbout(call[u].text)
    BY ReportIsTyped DEF EntriesWereSent, Reporting
  <2> QED
    BY <2>1, <2>2, <2>3
<1>1. ASSUME \A i \in Entries : hash'[i] # NoText =>
                hash'[i] = hash[i] \/ (hash'[i] \in Texts /\ Told(hash'[i])),
             \A u \in Reporters : call'[u].st \in Acts =>
                \/ call[u].st \in Acts /\ call'[u].text = call[u].text
                \/ call'[u].text \in Texts /\ Told(call'[u].text)
      PROVE  EntriesWereSent'
  <2> HIDE DEF Told
  <2>1. \A i \in Entries : hash'[i] # NoText => Told(hash'[i])
    BY <1>0, <1>1
  <2>2. \A u \in Reporters : call'[u].st \in Acts => Told(call'[u].text)
    BY <1>0, <1>1
  <2> QED
    BY <2>1, <2>2 DEF EntriesWereSent, SentOrAbout, Told
<1>2. CASE RepeatTick
  BY <1>1, <1>2 DEF RepeatTick
<1>3. ASSUME NEW t \in Reporters, NEW y \in Texts, IsRepeat(t, y)
      PROVE  EntriesWereSent'
  <2>1. hash' = hash
    BY <1>3 DEF IsRepeat
  <2>2. /\ call'[t].st = "scan"
        /\ \A u \in Reporters : u # t => call'[u].st = call[u].st /\ call'[u].text = call[u].text
    BY <1>3, IsRepeatMoves
  <2> QED
    BY <1>1, <2>1, <2>2
<1>4. ASSUME NEW t \in Reporters, RepeatStep(t)
      PROVE  EntriesWereSent'
  <2>1. OthersReport(t) /\ Reporting(t) /\ call[t].text \in Texts /\ call[t].i \in Entries
    BY <1>4, StepOnRing, RepeatStepMoves, ReportIsTyped
  <2>2. \A u \in Reporters : u # t => call'[u] = call[u]
    BY <2>1 DEF OthersReport
  <2>3. ASSUME call'[t].st \in Acts
        PROVE  \/ call[t].st \in Acts /\ call'[t].text = call[t].text
               \/ call'[t].text \in Texts /\ Told(call'[t].text)
    <3>1. CASE Scan(t)
      <4>1. hash[call[t].i] = call[t].text /\ call'[t].text = call[t].text
        BY <1>4, <2>3, <3>1, StepOnCall DEF MovesTo, MovesOn, SameText
      <4> QED
        BY <1>0, <2>1, <4>1, FilterNumbers
    <3>2. CASE ~Scan(t)
      BY <1>4, <2>3, <3>2, StepOnCall DEF RepeatStep, MovesTo, MovesOn, SameText
    <3> QED
      BY <3>1, <3>2
  <2>4. ASSUME NEW i \in Entries, hash'[i] # NoText
        PROVE  hash'[i] = hash[i] \/ (hash'[i] \in Texts /\ Told(hash'[i]))
    <3>1. CASE PutHash(t)
      <4>1. call'[t].st = "putAt" /\ call'[t].text = call[t].text
        BY <1>4, <3>1, StepOnCall DEF MovesTo, SameText
      <4>2. hash'[i] = hash[i] \/ hash'[i] = call[t].text
        BY <3>1, <2>1 DEF PutHash, FilterTyped
      <4> QED
        BY <2>1, <4>1, <4>2
    <3>2. CASE ~PutHash(t)
      BY <1>4, <3>2, StepOnRing
    <3> QED
      BY <3>1, <3>2
  <2> QED
    BY <1>1, <2>2, <2>3, <2>4
<1>5. CASE UNCHANGED repeatVars
  BY <1>1, <1>5 DEF repeatVars
<1> QED
  BY <1>2, <1>3, <1>4, <1>5 DEF RepeatNext

LEMMA OneReportKept ==
  ASSUME FilterTyped, OneReport, [RepeatNext]_repeatVars
  PROVE  OneReport'
<1> USE DEF ring, history
<1>1. CASE RepeatTick \/ UNCHANGED repeatVars
  BY <1>1 DEF RepeatTick, repeatVars, OneReport, Reporting
<1>2. ASSUME NEW t \in Reporters, NEW x \in Texts, IsRepeat(t, x)
      PROVE  OneReport'
  <2>1. ~raced' => \A u \in Reporters : call[u].st = "out"
    BY <1>2 DEF IsRepeat
  <2>2. \A u \in Reporters : u # t => call'[u].st = call[u].st
    BY <1>2, IsRepeatMoves
  <2> QED
    BY <2>1, <2>2 DEF OneReport, Reporting
<1>3. ASSUME NEW t \in Reporters, RepeatStep(t)
      PROVE  OneReport'
  <2>1. raced' = raced /\ \A u \in Reporters : Reporting(u)' => Reporting(u)
    BY <1>3, RepeatStepMoves, CallTyped
  <2> QED
    BY <2>1 DEF OneReport, Reporting
<1> QED
  BY <1>1, <1>2, <1>3 DEF RepeatNext

LEMMA OthersAreOut ==
  ASSUME OneReport, ~raced, NEW t \in Reporters, Reporting(t), NEW u \in Reporters, u # t
  PROVE  call[u].st = "out"
BY DEF OneReport, Reporting

-----------------------------------------------------------------------------
(* The ages of the entries.                                                 *)
LEMMA StampIs ==
  ASSUME FilterTyped, ReportsInTime, NEW t \in Reporters, RepeatStep(t), Touch(t) \/ PutAt(t)
  PROVE  /\ Reporting(t) /\ call[t].text \in Texts /\ call[t].i \in Entries
         /\ at'[call[t].i] = Began(t) % TickWrap
         /\ \A i \in Entries : i # call[t].i => at'[i] = at[i]
         /\ Began(t) \in FirstUse .. time /\ Lasts(t) \in Nat /\ time = Began(t) + Lasts(t)
         /\ shown[call[t].text] \in Nat /\ Began(t) + shown[call[t].text] <= time
<1>1. Reporting(t) /\ call[t].text \in Texts /\ call[t].i \in Entries
  BY RepeatStepMoves, ReportIsTyped
<1>2. at' = [at EXCEPT ![call[t].i] = call[t].now]
  BY DEF Touch, PutAt
<1>3. /\ Began(t) \in Nat /\ FirstUse <= Began(t) /\ Began(t) <= time
      /\ Lasts(t) \in Nat /\ time = Began(t) + Lasts(t)
      /\ call[t].now = Began(t) % TickWrap /\ shown[call[t].text] <= Lasts(t)
  BY <1>1, BeganIs
<1>4. at'[call[t].i] = Began(t) % TickWrap /\ \A i \in Entries : i # call[t].i => at'[i] = at[i]
  BY <1>1, <1>2, <1>3 DEF FilterTyped
<1>5. shown[call[t].text] \in Nat /\ time \in Nat /\ FirstUse \in Nat
  BY <1>1, Ages, FilterNumbers DEF FilterTyped
<1> HIDE DEF Began, Lasts
<1>6. Began(t) \in FirstUse .. time /\ Began(t) + shown[call[t].text] <= time
  BY <1>3, <1>5
<1> QED
  BY <1>1, <1>3, <1>4, <1>5, <1>6

Written(i) == \E u \in Reporters : call[u].st = "putAt" /\ call[u].i = i

LEMMA WrittenStays ==
  ASSUME FilterTyped, NEW t \in Reporters, RepeatStep(t), NEW i \in Entries, Written(i),
         ~(PutAt(t) /\ call[t].i = i)
  PROVE  Written(i)'
<1>1. OthersReport(t) /\ (PutAt(t) \/ call[t].st # "putAt")
  BY StepOnRing, StepOnCall DEF RepeatStep
<1> QED
  BY <1>1 DEF Written, OthersReport

LEMMA HashedIsWritten ==
  ASSUME FilterTyped, NEW t \in Reporters, RepeatStep(t), PutHash(t), NEW i \in Entries, i = call[t].i
  PROVE  Written(i)'
<1>1. call'[t].st = "putAt" /\ call'[t].i = i
  BY StepOnCall DEF MovesTo
<1> QED
  BY <1>1 DEF Written

LEMMA EntriesAreShownKept ==
  ASSUME FilterTyped, ReportsInTime, EntriesAreShown, [RepeatNext]_repeatVars
  PROVE  EntriesAreShown'
<1> USE DEF ring, history
<1> DEFINE Old(i) == \E r \in FirstUse .. time :
                        at[i] = r % TickWrap /\ \E y \in Texts : r + shown[y] <= time
<1>0. /\ \A i \in Entries : hash[i] # NoText => Written(i) \/ Old(i)
      /\ time \in Nat /\ FirstUse \in Nat /\ \A y \in Texts : shown[y] \in 0 .. Never
  BY FilterNumbers DEF EntriesAreShown, FilterTyped, Written
<1>1. ASSUME \A i \in Entries : hash'[i] # NoText => Written(i)' \/ Old(i)'
      PROVE  EntriesAreShown'
  BY <1>1 DEF EntriesAreShown, Written
<1>2. CASE RepeatTick
  <2>1. /\ time' = time + 1 /\ hash' = hash /\ at' = at /\ call' = call
        /\ \A y \in Texts : shown'[y] = Older(shown[y])
    BY <1>2 DEF RepeatTick
  <2>2. \A y \in Texts : Older(shown[y]) \in 0 .. Never /\ Older(shown[y]) <= shown[y] + 1
    BY <1>0, AgesOn
  <2>3. \A i \in Entries : Old(i) => Old(i)'
    <3> SUFFICES ASSUME NEW i \in Entries, Old(i) PROVE Old(i)'
      OBVIOUS
    <3>1. PICK r \in FirstUse .. time, y \in Texts : at[i] = r % TickWrap /\ r + shown[y] <= time
      OBVIOUS
    <3>2. r \in FirstUse .. time' /\ at'[i] = r % TickWrap /\ r + shown'[y] <= time'
      <4>1. shown[y] \in Nat /\ shown'[y] \in Nat /\ shown'[y] <= shown[y] + 1
        BY <1>0, <2>1, <2>2
      <4> HIDE DEF Older
      <4> QED
        BY <1>0, <2>1, <3>1, <4>1
    <3> QED
      BY <3>2
  <2> HIDE DEF Old
  <2>4. \A i \in Entries : Written(i) => Written(i)'
    BY <2>1 DEF Written
  <2> QED
    BY <1>0, <1>1, <2>1, <2>3, <2>4
<1>3. ASSUME NEW t \in Reporters, NEW x \in Texts, IsRepeat(t, x)
      PROVE  EntriesAreShown'
  <2>1. /\ time' = time /\ hash' = hash /\ at' = at /\ call[t].st = "out"
        /\ \A y \in Texts : shown'[y] = IF y = x THEN 0 ELSE shown[y]
    BY <1>3 DEF IsRepeat, FilterTyped
  <2>2. \A i \in Entries : Written(i) => Written(i)'
    <3>1. \A u \in Reporters : u # t => call'[u].st = call[u].st /\ call'[u].i = call[u].i
      BY <1>3, IsRepeatMoves
    <3> QED
      BY <2>1, <3>1 DEF Written
  <2>3. \A i \in Entries : Old(i) => Old(i)'
    <3> SUFFICES ASSUME NEW i \in Entries, Old(i) PROVE Old(i)'
      OBVIOUS
    <3>1. PICK r \in FirstUse .. time, y \in Texts : at[i] = r % TickWrap /\ r + shown[y] <= time
      OBVIOUS
    <3>2. r \in FirstUse .. time' /\ at'[i] = r % TickWrap /\ r + shown'[y] <= time'
      BY <1>0, <2>1, <3>1
    <3> QED
      BY <3>2
  <2> HIDE DEF Old
  <2> QED
    BY <1>0, <1>1, <2>1, <2>2, <2>3
<1>4. ASSUME NEW t \in Reporters, RepeatStep(t)
      PROVE  EntriesAreShown'
  <2>1. time' = time /\ shown' = shown
    BY <1>4, RepeatStepMoves
  <2>2. CASE Touch(t) \/ PutAt(t)
    <3>1. /\ call[t].text \in Texts /\ call[t].i \in Entries
          /\ at'[call[t].i] = Began(t) % TickWrap
          /\ \A i \in Entries : i # call[t].i => at'[i] = at[i]
          /\ Began(t) \in FirstUse .. time /\ Began(t) + shown[call[t].text] <= time
      BY <1>4, <2>2, StampIs
    <3>2. ASSUME NEW i \in Entries, i = call[t].i PROVE Old(i)'
      <4> HIDE DEF Began
      <4> QED
        BY <2>1, <3>1, <3>2
    <3>3. ASSUME NEW i \in Entries, i # call[t].i PROVE Old(i) => Old(i)'
      BY <2>1, <3>1, <3>3
    <3>4. hash' = hash
      BY <2>2 DEF Touch, PutAt
    <3>5. ASSUME NEW i \in Entries, i # call[t].i PROVE Written(i) => Written(i)'
      BY <1>4, <3>5, WrittenStays
    <3> HIDE DEF Old
    <3> QED
      BY <1>0, <1>1, <3>2, <3>3, <3>4, <3>5
  <2>3. CASE ~(Touch(t) \/ PutAt(t))
    <3>1. at' = at
      BY <1>4, <2>3, StepOnRing
    <3>2. \A i \in Entries : (Old(i) => Old(i)') /\ (Written(i) => Written(i)')
      <4>1. \A i \in Entries : Old(i) => Old(i)'
        BY <2>1, <3>1
      <4>2. \A i \in Entries : Written(i) => Written(i)'
        BY <1>4, <2>3, WrittenStays
      <4> HIDE DEF Old
      <4> QED
        BY <4>1, <4>2
    <3>3. \A i \in Entries : hash'[i] = hash[i] \/ Written(i)'
      <4>1. CASE PutHash(t)
        <5>1. \A i \in Entries : i # call[t].i => hash'[i] = hash[i]
          BY <4>1 DEF PutHash, FilterTyped
        <5> QED
          BY <1>4, <4>1, <5>1, HashedIsWritten
      <4>2. CASE ~PutHash(t)
        BY <1>4, <4>2, StepOnRing
      <4> QED
        BY <4>1, <4>2
    <3> HIDE DEF Old
    <3> QED
      BY <1>0, <1>1, <3>2, <3>3
  <2> QED
    BY <2>2, <2>3
<1>5. CASE UNCHANGED repeatVars
  BY <1>5 DEF repeatVars, EntriesAreShown
<1> QED
  BY <1>2, <1>3, <1>4, <1>5 DEF RepeatNext

Aged(i, age) == \E r \in FirstUse .. time : at[i] = r % TickWrap /\ Since(r, age, time)

(* A report that begins without a race finds each entry as old as its text. *)
LEMMA OwnAtStart ==
  ASSUME FilterTyped, EntriesAreShown, EntriesAreOwn,
         NEW t \in Reporters, NEW x \in Texts, IsRepeat(t, x), ~raced'
  PROVE  /\ \A u \in Reporters : call[u].st = "out"
         /\ ~raced \/ \A y \in Texts : ~(shown[y] < RepeatWindow)
         /\ \A i \in Entries : hash[i] # NoText => Aged(i, shown[hash[i]])
<1>1. /\ \A u \in Reporters : call[u].st = "out"
      /\ ~raced \/ \A y \in Texts : ~(shown[y] < RepeatWindow)
  BY DEF IsRepeat
<1>2. CASE ~raced
  BY <1>1, <1>2 DEF EntriesAreOwn, Aged
<1>3. CASE \A y \in Texts : ~(shown[y] < RepeatWindow)
  <2> SUFFICES ASSUME NEW i \in Entries, hash[i] # NoText PROVE Aged(i, shown[hash[i]])
    BY <1>1
  <2>1. PICK r \in FirstUse .. time, y \in Texts : at[i] = r % TickWrap /\ r + shown[y] <= time
    BY <1>1 DEF EntriesAreShown
  <2>2. time \in Nat /\ FirstUse \in Nat /\ shown[y] \in Nat /\ RepeatWindow \in Nat
    BY FilterNumbers, Ages DEF FilterTyped
  <2>3. r + RepeatWindow <= time
    BY <1>3, <2>1, <2>2
  <2> QED
    BY <2>1, <2>3 DEF Aged, Since
<1> QED
  BY <1>1, <1>2, <1>3

LEMMA EntriesAreOwnKept ==
  ASSUME FilterTyped, ReportsInTime, EntriesAreShown, OneReport, EntriesAreOwn,
         [RepeatNext]_repeatVars
  PROVE  EntriesAreOwn'
<1> USE DEF ring, history
<1> DEFINE Held == {"age", "touch", "putAt"}
           Fresh(i) == \E r \in FirstUse .. time' : at'[i] = r % TickWrap /\ Since(r, shown'[hash'[i]], time')
<1> SUFFICES ASSUME ~raced' PROVE EntriesAreOwn'
  BY DEF EntriesAreOwn
<1>0. time \in Nat /\ FirstUse \in Nat /\ RepeatWindow \in Nat
  BY FilterNumbers DEF FilterTyped
<1>1. ASSUME \A i \in Entries : hash'[i] # NoText => Written(i)' \/ Fresh(i),
             \A u \in Reporters : call'[u].st \in Held => hash'[call'[u].i] = call'[u].text
      PROVE  EntriesAreOwn'
  BY <1>1 DEF EntriesAreOwn, Written
<1>2. ASSUME ~raced
      PROVE  /\ \A i \in Entries : hash[i] # NoText => Written(i) \/ Aged(i, shown[hash[i]])
             /\ \A u \in Reporters : call[u].st \in Held => hash[call[u].i] = call[u].text
  BY <1>2 DEF EntriesAreOwn, Written, Aged
<1>3. CASE RepeatTick
  <2>1. /\ time' = time + 1 /\ hash' = hash /\ at' = at /\ call' = call /\ ~raced
        /\ \A y \in Texts : shown'[y] = Older(shown[y])
    BY <1>3 DEF RepeatTick
  <2>2. ASSUME NEW i \in Entries, hash[i] # NoText, Aged(i, shown[hash[i]])
        PROVE  Fresh(i)
    <3>1. PICK r \in FirstUse .. time : at[i] = r % TickWrap /\ Since(r, shown[hash[i]], time)
      BY <2>2 DEF Aged
    <3>2. hash[i] \in Texts
      BY <2>2 DEF FilterTyped
    <3>3. PICK a \in 0 .. Never : a = shown[hash[i]]
      BY <3>2, Ages
    <3>4. Older(a) \in 0 .. Never /\ Older(a) <= a + 1 /\ shown'[hash'[i]] = Older(a)
      BY <2>1, <3>2, <3>3, AgesOn
    <3>5. Since(r, Older(a), time')
      <4>1. r \in Nat /\ (r + RepeatWindow <= time \/ r + a <= time)
        BY <1>0, <3>1, <3>3 DEF Since
      <4> HIDE DEF Older
      <4> QED
        BY <1>0, <2>1, <3>4, <4>1 DEF Since
    <3>6. r \in FirstUse .. time'
      BY <1>0, <2>1
    <3> QED
      BY <2>1, <3>1, <3>4, <3>5, <3>6
  <2> HIDE DEF Fresh
  <2>3. \A i \in Entries : Written(i) => Written(i)'
    BY <2>1 DEF Written
  <2> QED
    BY <1>1, <1>2, <2>1, <2>2, <2>3
<1>4. ASSUME NEW t \in Reporters, NEW x \in Texts, IsRepeat(t, x)
      PROVE  EntriesAreOwn'
  <2>1. /\ time' = time /\ hash' = hash /\ at' = at
        /\ \A y \in Texts : shown'[y] = IF y = x THEN 0 ELSE shown[y]
    BY <1>4 DEF IsRepeat, FilterTyped
  <2>2. /\ \A u \in Reporters : call[u].st = "out"
        /\ \A i \in Entries : hash[i] # NoText => Aged(i, shown[hash[i]])
    BY <1>4, OwnAtStart
  <2>3. \A u \in Reporters : call'[u].st \in {"out", "scan"}
    BY <1>4, <2>2, IsRepeatMoves
  <2>4. ASSUME NEW i \in Entries, hash[i] # NoText PROVE Fresh(i)
    <3>1. PICK r \in FirstUse .. time : at[i] = r % TickWrap /\ Since(r, shown[hash[i]], time)
      BY <2>2, <2>4 DEF Aged
    <3>2. hash[i] \in Texts
      BY <2>4 DEF FilterTyped
    <3>3. shown'[hash[i]] = shown[hash[i]] \/ shown'[hash[i]] = 0
      BY <2>1, <3>2
    <3>4. Since(r, shown'[hash[i]], time)
      BY <1>0, <3>1, <3>3 DEF Since
    <3> QED
      BY <2>1, <3>1, <3>4
  <2> HIDE DEF Fresh
  <2> QED
    BY <1>1, <2>1, <2>3, <2>4
<1>5. ASSUME NEW t \in Reporters, RepeatStep(t)
      PROVE  EntriesAreOwn'
  <2>1. OthersReport(t) /\ time' = time /\ shown' = shown /\ ~raced
    BY <1>5, StepOnRing
  <2>2. /\ Reporting(t) /\ call[t].text \in Texts /\ call[t].i \in Entries
        /\ \A u \in Reporters : u # t => call[u].st = "out" /\ call'[u] = call[u]
    BY <1>5, <2>1, RepeatStepMoves, ReportIsTyped, OthersAreOut DEF OthersReport
  <2>3. \A i \in Entries : at'[i] = at[i] /\ hash'[i] = hash[i] /\ Aged(i, shown[hash[i]]) => Fresh(i)
    BY <2>1 DEF Aged
  <2>4. CASE Touch(t) \/ PutAt(t)
    <3>1. /\ at'[call[t].i] = Began(t) % TickWrap
          /\ \A i \in Entries : i # call[t].i => at'[i] = at[i]
          /\ Began(t) \in FirstUse .. time /\ Began(t) + shown[call[t].text] <= time
      BY <1>5, <2>4, StampIs
    <3>2. hash' = hash /\ hash[call[t].i] = call[t].text
      BY <1>2, <2>1, <2>4 DEF Touch, PutAt
    <3>3. Fresh(call[t].i)
      <4>1. Since(Began(t), shown'[hash'[call[t].i]], time')
        BY <2>1, <3>1, <3>2 DEF Since
      <4> HIDE DEF Began
      <4> QED
        BY <2>1, <3>1, <4>1
    <3>4. \A i \in Entries : i # call[t].i => (Written(i) => Written(i)')
      BY <1>5, WrittenStays
    <3>5. call'[t].st \notin Held
      BY <1>5, <2>4, StepOnCall DEF MovesTo
    <3> HIDE DEF Fresh
    <3> QED
      BY <1>1, <1>2, <2>1, <2>2, <2>3, <3>1, <3>2, <3>3, <3>4, <3>5
  <2>5. CASE PutHash(t)
    <3>1. /\ call'[t].st = "putAt" /\ call'[t].i = call[t].i /\ call'[t].text = call[t].text
      BY <1>5, <2>5, StepOnCall DEF MovesTo, SameText
    <3>2. /\ hash'[call[t].i] = call[t].text /\ \A i \in Entries : i # call[t].i => hash'[i] = hash[i]
          /\ at' = at
      BY <2>2, <2>5 DEF PutHash, FilterTyped
    <3>3. \A i \in Entries : i = call[t].i => Written(i)'
      BY <1>5, <2>5, HashedIsWritten
    <3>4. \A i \in Entries : ~Written(i)
      BY <2>2, <2>5 DEF Written, PutHash
    <3> HIDE DEF Fresh
    <3> QED
      BY <1>1, <1>2, <2>1, <2>2, <2>3, <3>1, <3>2, <3>3, <3>4
  <2>6. CASE Scan(t) \/ Age(t) \/ Insert(t) \/ Answer(t)
    <3>1. hash' = hash /\ at' = at
      BY <2>6 DEF Scan, Age, Insert, Answer
    <3>2. call'[t].st \in Held => hash[call'[t].i] = call'[t].text
      <4>1. CASE Scan(t)
        BY <1>5, <4>1, StepOnCall DEF MovesTo, MovesOn, SameText
      <4>2. CASE Age(t)
        <5>1. call[t].st = "age" /\ (MovesTo(t, "touch") \/ MovesOn(t))
          BY <1>5, <4>2, StepOnCall
        <5> QED
          BY <1>2, <2>1, <5>1 DEF MovesTo, MovesOn, SameText
      <4>3. CASE Insert(t) \/ Answer(t)
        BY <1>5, <4>3, StepOnCall
      <4> QED
        BY <2>6, <4>1, <4>2, <4>3
    <3>3. \A i \in Entries : ~Written(i)
      BY <2>2, <2>6 DEF Written, Scan, Age, Insert, Answer
    <3> HIDE DEF Fresh
    <3> QED
      BY <1>1, <1>2, <2>1, <2>2, <2>3, <3>1, <3>2, <3>3
  <2> QED
    BY <1>5, <2>4, <2>5, <2>6 DEF RepeatStep
<1>6. CASE UNCHANGED repeatVars
  BY <1>6 DEF repeatVars, EntriesAreOwn
<1> QED
  BY <1>3, <1>4, <1>5, <1>6 DEF RepeatNext

-----------------------------------------------------------------------------
(* What a report finds.  The clock wraps around at most once meanwhile.     *)
OneRound == LastTick < FirstUse + TickWrap

LEMMA AgeIsRight ==
  ASSUME FilterTyped, ReportsInTime, OneRound, NEW t \in Reporters, Reporting(t),
         NEW r \in FirstUse .. Began(t), NEW i \in Entries, at[i] = r % TickWrap
  PROVE  Recently(call[t].now, at[i]) <=> Began(t) - r < RepeatWindow
<1>1. /\ Began(t) \in Nat /\ FirstUse <= Began(t) /\ Began(t) <= time
      /\ call[t].now = Began(t) % TickWrap
  BY BeganIs
<1>2. /\ FirstUse \in Nat /\ TickWrap \in Nat \ {0} /\ LastTick \in Nat /\ time \in Nat
      /\ time <= LastTick \/ time = FirstUse
  BY FilterNumbers DEF FilterTyped
<1>3. PICK b \in Nat : b = Began(t)
  BY <1>1
<1>4. r \in Nat /\ r <= b /\ b - r < TickWrap
  <2> HIDE DEF Began
  <2> QED
    BY <1>1, <1>2, <1>3 DEF OneRound
<1>5. (TickWrap + (b % TickWrap) - (r % TickWrap)) % TickWrap = b - r
  BY <1>2, <1>4, Difference
<1>6. Recently(call[t].now, at[i]) <=> b - r < RepeatWindow
  BY <1>1, <1>3, <1>5 DEF Recently
<1> QED
  BY <1>3, <1>6

ReportIsRight(t) ==
    /\ call[t].st \in {"scan", "age"} => Finds(t)
    /\ call[t].st \in {"touch", "dropped"} => call[t].quiet < RepeatWindow
    /\ call[t].st \in {"insert", "putHash", "putAt", "sent"} => call[t].gap >= RepeatWindow
    /\ call[t].st \in {"scan", "age", "insert", "putHash", "putAt"}
          => call[t].gap <= sent[call[t].text]
    /\ Reporting(t) => \A y \in Texts : Lasts(t) <= sent[y] \/ RepeatWindow <= sent[y]

(* A search that finds nothing at this entry looks in those after it.       *)
LEMMA NotHere ==
  ASSUME FilterTyped, ReportsInTime, NEW t \in Reporters, RepeatStep(t),
         Reporting(t), Finds(t), MovesOn(t), hash' = hash, at' = at, time' = time,
         \A r \in FirstUse .. Began(t) :
            call[t].gap < RepeatWindow /\ hash[call[t].i] = call[t].text
              /\ at[call[t].i] = r % TickWrap => ~(Began(t) <= r + call[t].gap)
  PROVE  /\ call'[t].st \in {"scan", "insert"}
         /\ call'[t].st = "scan" => Finds(t)'
         /\ call'[t].st = "insert" => call[t].gap >= RepeatWindow
<1>1. /\ SameText(t)
      /\ \/ call'[t].st = "scan" /\ call'[t].i = call[t].i + 1 /\ call[t].i + 1 < Ring
         \/ call'[t].st = "insert" /\ ~(call[t].i + 1 < Ring)
  BY DEF MovesOn
<1>2. Began(t)' = Began(t)
  BY <1>1, SameLasts DEF SameText
<1>3. /\ call[t].i \in 0 .. Ring - 1 /\ Ring \in Nat /\ RepeatWindow \in Nat /\ call[t].gap \in Nat
  BY ReportIsTyped, FilterNumbers DEF Entries
<1>4. ASSUME call[t].gap < RepeatWindow
      PROVE  \E j \in call[t].i + 1 .. Ring - 1 :
                /\ hash[j] = call[t].text
                /\ \E r \in FirstUse .. Began(t) : at[j] = r % TickWrap /\ Began(t) <= r + call[t].gap
  <2>1. PICK j \in call[t].i .. Ring - 1 :
                /\ hash[j] = call[t].text
                /\ \E r \in FirstUse .. Began(t) : at[j] = r % TickWrap /\ Began(t) <= r + call[t].gap
    BY <1>4 DEF Finds
  <2>2. j # call[t].i
    BY <1>4, <2>1
  <2>3. j \in call[t].i + 1 .. Ring - 1
    BY <1>3, <2>1, <2>2
  <2> QED
    BY <2>1, <2>3
<1>5. CASE call'[t].st = "scan" /\ call'[t].i = call[t].i + 1 /\ call[t].i + 1 < Ring
  <2>1. \A i \in Entries : hash[i] = call[t].text =>
          \E r \in FirstUse .. Began(t) : at[i] = r % TickWrap /\ Since(r, call[t].quiet, Began(t))
    BY DEF Finds
  <2>2. Finds(t)'
    BY <1>1, <1>2, <1>4, <1>5, <2>1 DEF Finds, SameText, Since
  <2> QED
    BY <1>5, <2>2
<1>6. CASE call'[t].st = "insert" /\ ~(call[t].i + 1 < Ring)
  <2>1. ~(call[t].gap < RepeatWindow)
    BY <1>3, <1>4, <1>6
  <2> QED
    BY <1>3, <1>6, <2>1
<1> QED
  BY <1>1, <1>5, <1>6

LEMMA SentStays ==
  ASSUME FilterTyped, ReportsInTime, NEW t \in Reporters, RepeatStep(t), ~PutAt(t), ReportIsRight(t),
         SameText(t)
  PROVE  Reporting(t)' => \A y \in Texts : Lasts(t)' <= sent'[y] \/ RepeatWindow <= sent'[y]
<1>1. sent' = sent /\ time' = time
  BY StepOnRing
<1>2. Lasts(t)' = Lasts(t) /\ Reporting(t)
  BY <1>1, SameLasts, RepeatStepMoves DEF SameText
<1> QED
  BY <1>1, <1>2 DEF ReportIsRight

LEMMA ReportIsRightKept ==
  ASSUME FilterTyped, ReportsInTime, OneRound, OneReport, EntriesAreOwn, ~raced,
         NEW t \in Reporters, RepeatStep(t), ReportIsRight(t)
  PROVE  ReportIsRight(t)'
<1>1. /\ Reporting(t) /\ call[t].text \in Texts /\ call[t].i \in Entries
      /\ time' = time /\ shown' = shown
      /\ call[t].gap \in Nat /\ call[t].quiet \in Nat /\ RepeatWindow \in Nat
  BY RepeatStepMoves, ReportIsTyped, FilterNumbers
<1>2. CASE Scan(t)
  <2>1. /\ call[t].st = "scan" /\ hash' = hash /\ at' = at /\ sent' = sent
        /\ IF hash[call[t].i] = call[t].text THEN MovesTo(t, "age") ELSE MovesOn(t)
    BY <1>2, StepOnCall, StepOnRing DEF Scan
  <2>2. Finds(t) /\ call[t].gap <= sent[call[t].text]
    BY <2>1 DEF ReportIsRight
  <2>3. SameText(t)
    BY <2>1 DEF MovesTo, MovesOn
  <2>4. Reporting(t)' => \A y \in Texts : Lasts(t)' <= sent'[y] \/ RepeatWindow <= sent'[y]
    BY <1>2, <2>1, <2>3, SentStays DEF Scan, PutAt
  <2>5. CASE MovesTo(t, "age") /\ hash[call[t].i] = call[t].text
    <3>1. call'[t].st = "age" /\ call'[t].i = call[t].i
      BY <2>5 DEF MovesTo
    <3>2. Began(t)' = Began(t)
      BY <1>1, <2>3, SameLasts DEF SameText
    <3>3. Finds(t)'
      BY <2>1, <2>2, <2>3, <3>1, <3>2 DEF Finds, SameText, Since
    <3> QED
      BY <2>1, <2>2, <2>3, <2>4, <3>1, <3>3 DEF ReportIsRight, SameText
  <2>6. CASE MovesOn(t) /\ hash[call[t].i] # call[t].text
    <3>1. /\ call'[t].st \in {"scan", "insert"}
          /\ call'[t].st = "scan" => Finds(t)'
          /\ call'[t].st = "insert" => call[t].gap >= RepeatWindow
      BY <1>1, <2>1, <2>2, <2>6, NotHere
    <3> QED
      BY <2>1, <2>2, <2>3, <2>4, <3>1 DEF ReportIsRight, SameText
  <2> QED
    BY <2>1, <2>5, <2>6
<1>3. CASE Age(t)
  <2>1. /\ call[t].st = "age" /\ hash' = hash /\ at' = at /\ sent' = sent
        /\ IF Recently(call[t].now, at[call[t].i]) THEN MovesTo(t, "touch") ELSE MovesOn(t)
    BY <1>3, StepOnCall, StepOnRing DEF Age
  <2>2. Finds(t) /\ call[t].gap <= sent[call[t].text]
    BY <2>1 DEF ReportIsRight
  <2>3. SameText(t)
    BY <2>1 DEF MovesTo, MovesOn
  <2>4. Reporting(t)' => \A y \in Texts : Lasts(t)' <= sent'[y] \/ RepeatWindow <= sent'[y]
    BY <1>3, <2>1, <2>3, SentStays DEF Age, PutAt
  <2>5. hash[call[t].i] = call[t].text
    BY <2>1 DEF EntriesAreOwn
  <2>6. CASE MovesTo(t, "touch") /\ Recently(call[t].now, at[call[t].i])
    <3>1. PICK r \in FirstUse .. Began(t) :
             at[call[t].i] = r % TickWrap /\ Since(r, call[t].quiet, Began(t))
      BY <1>1, <2>2, <2>5 DEF Finds
    <3>2. Began(t) - r < RepeatWindow
      BY <1>1, <2>6, <3>1, AgeIsRight
    <3>3. call[t].quiet < RepeatWindow
      <4>1. Began(t) \in Nat /\ FirstUse \in Nat
        BY <1>1, BeganIs, FilterNumbers
      <4> HIDE DEF Began
      <4> QED
        BY <1>1, <3>1, <3>2, <4>1 DEF Since
    <3>4. call'[t].st = "touch"
      BY <2>6 DEF MovesTo
    <3> QED
      BY <2>3, <2>4, <3>3, <3>4 DEF ReportIsRight, SameText
  <2>7. CASE MovesOn(t) /\ ~Recently(call[t].now, at[call[t].i])
    <3>1. ASSUME NEW r \in FirstUse .. Began(t), call[t].gap < RepeatWindow,
                 at[call[t].i] = r % TickWrap
          PROVE  ~(Began(t) <= r + call[t].gap)
      <4>1. ~(Began(t) - r < RepeatWindow)
        BY <1>1, <2>7, <3>1, AgeIsRight
      <4>2. Began(t) \in Nat /\ FirstUse \in Nat
        BY <1>1, BeganIs, FilterNumbers
      <4> HIDE DEF Began
      <4> QED
        BY <1>1, <3>1, <4>1, <4>2
    <3>2. /\ call'[t].st \in {"scan", "insert"}
          /\ call'[t].st = "scan" => Finds(t)'
          /\ call'[t].st = "insert" => call[t].gap >= RepeatWindow
      BY <1>1, <2>1, <2>2, <2>7, <3>1, NotHere
    <3> QED
      BY <2>1, <2>2, <2>3, <2>4, <3>2 DEF ReportIsRight, SameText
  <2> QED
    BY <2>1, <2>6, <2>7
<1>4. CASE Touch(t) \/ Insert(t) \/ PutHash(t)
  <2>1. /\ \/ call[t].st = "touch" /\ call'[t].st = "dropped"
           \/ call[t].st = "insert" /\ call'[t].st = "putHash"
           \/ call[t].st = "putHash" /\ call'[t].st = "putAt"
        /\ SameText(t) /\ sent' = sent
    BY <1>4, StepOnCall, StepOnRing DEF MovesTo, Touch, Insert, PutHash
  <2>2. Reporting(t)' => \A y \in Texts : Lasts(t)' <= sent'[y] \/ RepeatWindow <= sent'[y]
    BY <1>4, <2>1, SentStays DEF PutAt
  <2> QED
    BY <2>1, <2>2 DEF ReportIsRight, SameText
<1>5. CASE PutAt(t)
  <2>1. call[t].st = "putAt" /\ call'[t].st = "sent" /\ SameText(t)
    BY <1>5, StepOnCall DEF MovesTo
  <2>2. PICK a \in 0 .. RepeatWindow :
            /\ (Lasts(t) < RepeatWindow => a = Lasts(t)) /\ (~(Lasts(t) < RepeatWindow) => a = RepeatWindow)
            /\ \A x \in Texts : sent'[x] = IF x = call[t].text THEN a ELSE sent[x]
    BY <1>5, SentIs
  <2>3. Lasts(t)' = Lasts(t) /\ Lasts(t) \in Nat
    BY <1>1, <2>1, SameLasts, BeganIs DEF SameText
  <2>4. \A y \in Texts : Lasts(t) <= sent[y] \/ RepeatWindow <= sent[y]
    BY <1>1 DEF ReportIsRight
  <2>5. \A y \in Texts : Lasts(t)' <= sent'[y] \/ RepeatWindow <= sent'[y]
    <3>1. Lasts(t) <= a \/ RepeatWindow <= a
      BY <1>1, <2>2, <2>3
    <3> HIDE DEF Lasts
    <3> QED
      BY <2>2, <2>3, <2>4, <3>1
  <2> QED
    BY <2>1, <2>5 DEF ReportIsRight, SameText
<1>6. CASE Answer(t)
  BY <1>6, StepOnCall DEF ReportIsRight, Reporting
<1> QED
  BY <1>2, <1>3, <1>4, <1>5, <1>6 DEF RepeatStep

LEMMA ReportsAreRightKept ==
  ASSUME FilterTyped, ReportsInTime, OneRound, EntriesAreShown, SentWasShown, OneReport,
         EntriesAreOwn, ReportsAreRight, LastSentAreThere, [RepeatNext]_repeatVars
  PROVE  ReportsAreRight'
<1> USE DEF ring, history
<1> SUFFICES ASSUME ~raced' PROVE \A u \in Reporters : ReportIsRight(u)'
  BY DEF ReportsAreRight, ReportIsRight
<1>1. ASSUME ~raced PROVE \A u \in Reporters : ReportIsRight(u)
  BY <1>1 DEF ReportsAreRight, ReportIsRight
<1>2. ASSUME RepeatTick, NEW u \in Reporters
      PROVE  ReportIsRight(u)'
  <2>1. /\ time' = time + 1 /\ hash' = hash /\ at' = at /\ call' = call /\ ~raced
        /\ \A y \in Texts : sent'[y] = Older(sent[y])
    BY <1>2 DEF RepeatTick
  <2>2. CASE ~Reporting(u)
    BY <2>1, <2>2 DEF ReportIsRight, Reporting
  <2>3. CASE Reporting(u)
    <3>1. Lasts(u)' = Lasts(u) + 1 /\ Began(u)' = Began(u) /\ Lasts(u) \in Nat
      BY <1>2, <2>3, TickLasts, BeganIs
    <3>2. /\ RepeatWindow \in Nat /\ call[u].text \in Texts /\ call[u].gap \in Nat
          /\ ReportIsRight(u)
      BY <1>1, <2>1, <2>3, ReportIsTyped, FilterNumbers
    <3>3. Finds(u) => Finds(u)'
      BY <2>1, <3>1 DEF Finds, Since
    <3>4. \A y \in Texts : /\ sent[y] \in Nat /\ sent'[y] \in Nat /\ sent[y] <= sent'[y]
                           /\ sent[y] < RepeatWindow => sent'[y] = sent[y] + 1
      BY <2>1, Ages, AgesOn
    <3>5. \A y \in Texts : Lasts(u)' <= sent'[y] \/ RepeatWindow <= sent'[y]
      <4> HIDE DEF Lasts
      <4>1. \A y \in Texts : Lasts(u) <= sent[y] \/ RepeatWindow <= sent[y]
        BY <2>3, <3>2 DEF ReportIsRight
      <4> QED
        BY <3>1, <3>2, <3>4, <4>1
    <3>6. call[u].gap <= sent[call[u].text] => call[u].gap <= sent'[call[u].text]
      BY <3>2, <3>4
    <3> QED
      BY <2>1, <3>2, <3>3, <3>5, <3>6 DEF ReportIsRight
  <2> QED
    BY <2>2, <2>3
<1>3. ASSUME NEW t \in Reporters, NEW x \in Texts, IsRepeat(t, x), NEW u \in Reporters
      PROVE  ReportIsRight(u)'
  <2>1. /\ \A v \in Reporters : call[v].st = "out"
        /\ ~raced \/ \A y \in Texts : ~(shown[y] < RepeatWindow)
        /\ \A i \in Entries : hash[i] # NoText => Aged(i, shown[hash[i]])
    BY <1>3, OwnAtStart
  <2>2. /\ call'[t].st = "scan" /\ call'[t].text = x
        /\ call'[t].i = 0 /\ call'[t].quiet = shown[x] /\ call'[t].gap = sent[x]
        /\ \A v \in Reporters : v # t => call'[v].st = "out"
    BY <1>3, <2>1, IsRepeatMoves
  <2>3. CASE u # t
    BY <2>2, <2>3 DEF ReportIsRight, Reporting
  <2>4. CASE u = t
    <3>1. Lasts(t)' = 0 /\ Began(t)' = time /\ hash' = hash /\ at' = at /\ sent' = sent
      BY <1>3, BeginLasts DEF IsRepeat
    <3>2. \A i \in Entries : hash[i] = x =>
            \E r \in FirstUse .. time : at[i] = r % TickWrap /\ Since(r, shown[x], time)
      BY <2>1, FilterNumbers DEF Aged
    <3>3. ASSUME sent[x] < RepeatWindow
          PROVE  \E j \in 0 .. Ring - 1 :
                    /\ hash[j] = x
                    /\ \E r \in FirstUse .. time : at[j] = r % TickWrap /\ time <= r + sent[x]
      <4>1. ~raced
        <5>1. shown[x] <= sent[x] /\ shown[x] \in Nat /\ sent[x] \in Nat /\ RepeatWindow \in Nat
          BY Ages, FilterNumbers DEF SentWasShown
        <5> QED
          BY <2>1, <3>3, <5>1
      <4>2. PICK p \in Entries, f \in [Texts -> Entries] : InOrderFrom(p, f)
        BY <4>1 DEF LastSentAreThere
      <4>3. IsAt(x, p, f[x])
        BY <3>3, <4>2 DEF InOrderFrom
      <4>4. Back(p, f[x]) \in Entries
        BY RingPlaces
      <4> QED
        BY <4>3, <4>4 DEF IsAt, Entries
    <3>4. Finds(t)'
      BY <2>2, <3>1, <3>2, <3>3 DEF Finds, Since
    <3>5. \A y \in Texts : 0 <= sent[y]
      BY Ages
    <3>6. sent[x] <= sent[x]
      BY Ages
    <3> HIDE DEF Finds, Lasts
    <3> QED
      BY <2>2, <2>4, <3>1, <3>4, <3>5, <3>6 DEF ReportIsRight
  <2> QED
    BY <2>3, <2>4
<1>4. ASSUME NEW t \in Reporters, RepeatStep(t), NEW u \in Reporters
      PROVE  ReportIsRight(u)'
  <2>1. OthersReport(t) /\ ~raced /\ Reporting(t)
    BY <1>4, RepeatStepMoves
  <2>2. CASE u = t
    BY <1>1, <1>4, <2>1, <2>2, ReportIsRightKept
  <2>3. CASE u # t
    <3>1. call'[u].st = "out"
      BY <2>1, <2>3, OthersAreOut DEF OthersReport
    <3> QED
      BY <3>1 DEF ReportIsRight, Reporting
  <2> QED
    BY <2>2, <2>3
<1>5. ASSUME UNCHANGED repeatVars, NEW u \in Reporters
      PROVE  ReportIsRight(u)'
  BY <1>1, <1>5 DEF repeatVars, ReportIsRight, Finds, Since, Began, Lasts, Reporting
<1> QED
  BY <1>2, <1>3, <1>4, <1>5 DEF RepeatNext

-----------------------------------------------------------------------------
(* The texts sent last are in the ring: there are no more of them than      *)
(* entries.                                                                 *)
FewTexts == IsFiniteSet(Texts) /\ Cardinality(Texts) <= Ring

LEMMA RingIsFinite == IsFiniteSet(Entries) /\ Cardinality(Entries) = Ring
<1>1. Ring \in Nat \ {0} /\ 0 \in Int /\ Ring - 1 \in Int
  BY FilterNumbers
<1>2. IsFiniteSet(0 .. Ring - 1) /\ Cardinality(0 .. Ring - 1) = IF 0 > Ring - 1 THEN 0 ELSE Ring - 1 - 0 + 1
  BY <1>1, FS_Interval
<1> QED
  BY <1>1, <1>2 DEF Entries

(* While some text is not among those sent last, no text is in the entry    *)
(* that is overwritten next.                                                *)
LEMMA NotLast ==
  ASSUME FewTexts, FilterTyped, NEW p \in Entries, NEW f \in [Texts -> Entries], InOrderFrom(p, f),
         NEW x \in Texts, ~(sent[x] < RepeatWindow), NEW y \in Texts, sent[y] < RepeatWindow
  PROVE  f[y] # Ring - 1
<1> SUFFICES ASSUME f[y] = Ring - 1 PROVE FALSE
  OBVIOUS
<1> DEFINE Rest == Texts \ {x}
           g == [z \in Rest |-> f[z]]
<1>1. ASSUME NEW e \in Entries PROVE \E z \in Rest : f[z] = e
  <2>1. CASE e = Ring - 1
    BY <2>1
  <2>2. CASE e # Ring - 1
    <3>1. e \in 0 .. f[y] - 1
      BY <1>1, <2>2, FilterNumbers DEF Entries
    <3>2. PICK z \in Texts : f[z] = e /\ sent[z] <= sent[y]
      BY <3>1 DEF InOrderFrom
    <3>3. sent[z] < RepeatWindow
      BY <3>2, Ages, FilterNumbers
    <3> QED
      BY <3>2, <3>3
  <2> QED
    BY <2>1, <2>2
<1>2. g \in Surjection(Rest, Entries)
  BY <1>1 DEF Surjection
<1>3. IsFiniteSet(Rest) /\ Cardinality(Rest) = Cardinality(Texts) - 1
  BY FS_RemoveElement DEF FewTexts
<1>4. Cardinality(Entries) <= Cardinality(Rest)
  BY <1>2, <1>3, FS_Surjection
<1>5. Cardinality(Texts) \in Nat
  BY FS_CardinalityType DEF FewTexts
<1> HIDE DEF Rest
<1> QED
  BY <1>3, <1>4, <1>5, RingIsFinite, FilterNumbers DEF FewTexts

(* A step that writes no entry and does not insert changes nothing here.    *)
LEMMA TopStays ==
  ASSUME FilterTyped, NEW t \in Reporters, OthersReport(t), next' = next,
         Inserts(t)' <=> Inserts(t), Inserts(t) => call'[t].i = call[t].i,
         NEW p \in Entries, IsTop(p)
  PROVE  IsTop(p)'
BY DEF IsTop, Inserts, OthersReport

LEMMA OrderStays ==
  ASSUME hash' = hash, at' = at, time' = time, sent' = sent,
         NEW p \in Entries, NEW f \in [Texts -> Entries], InOrderFrom(p, f)
  PROVE  InOrderFrom(p, f)'
BY DEF InOrderFrom, IsAt, Back

LEMMA LastSentAtPutHash ==
  ASSUME FilterTyped, FewTexts, ReportsInTime, OneReport, ~raced, NEW t \in Reporters, RepeatStep(t), PutHash(t),
         ReportIsRight(t), NEW p \in Entries, NEW f \in [Texts -> Entries],
         IsTop(p), InOrderFrom(p, f)
  PROVE  IsTop(p)' /\ InOrderFrom(p, f)'
<1>1. /\ call[t].st = "putHash" /\ OthersReport(t) /\ Reporting(t) /\ call[t].text \in Texts
      /\ call[t].i \in Entries /\ next' = next /\ at' = at /\ sent' = sent /\ time' = time
      /\ call'[t].st = "putAt" /\ call'[t].i = call[t].i
  BY RepeatStepMoves, StepOnRing, StepOnCall, ReportIsTyped DEF PutHash, MovesTo
<1>2. IsTop(p)'
  BY <1>1, TopStays DEF Inserts
<1>3. p = call[t].i
  <2>1. \A u \in Reporters : u # t => ~Inserts(u)
    BY <1>1, OthersAreOut DEF Inserts
  <2> QED
    BY <1>1, <2>1 DEF IsTop, Inserts
<1>4. ~(sent[call[t].text] < RepeatWindow)
  <2>1. call[t].gap >= RepeatWindow /\ call[t].gap <= sent[call[t].text]
    BY <1>1 DEF ReportIsRight
  <2> QED
    BY <1>1, <2>1, ReportIsTyped, Ages, FilterNumbers
<1>5. \A j \in Entries : j # p => hash'[j] = hash[j]
  BY <1>3 DEF PutHash, FilterTyped
<1>6. ASSUME NEW y \in Texts, sent[y] < RepeatWindow
      PROVE  Back(p, f[y]) \in Entries /\ Back(p, f[y]) # p
  <2>1. f[y] # Ring - 1 /\ f[y] \in Entries
    BY <1>1, <1>4, <1>6, NotLast
  <2> QED
    BY <2>1, RingPlaces
<1>7. \A y \in Texts : sent[y] < RepeatWindow /\ IsAt(y, p, f[y]) => IsAt(y, p, f[y])'
  BY <1>1, <1>5, <1>6 DEF IsAt, Back
<1>8. InOrderFrom(p, f)'
  BY <1>1, <1>7 DEF InOrderFrom
<1> QED
  BY <1>2, <1>8

LEMMA LastSentAtTouch ==
  ASSUME FilterTyped, ReportsInTime, NEW t \in Reporters, RepeatStep(t), Touch(t),
         ReportIsRight(t), NEW p \in Entries, NEW f \in [Texts -> Entries],
         IsTop(p), InOrderFrom(p, f)
  PROVE  IsTop(p)' /\ InOrderFrom(p, f)'
<1>1. /\ call[t].st = "touch" /\ OthersReport(t) /\ Reporting(t)
      /\ next' = next /\ hash' = hash /\ sent' = sent /\ time' = time /\ call'[t].st = "dropped"
  BY RepeatStepMoves, StepOnRing, StepOnCall DEF Touch, MovesTo
<1>2. IsTop(p)'
  BY <1>1, TopStays DEF Inserts
<1>3. /\ call[t].i \in Entries /\ at'[call[t].i] = Began(t) % TickWrap
      /\ \A i \in Entries : i # call[t].i => at'[i] = at[i]
      /\ Began(t) \in FirstUse .. time /\ Lasts(t) \in Nat /\ time = Began(t) + Lasts(t)
  BY StampIs
<1>4. ASSUME NEW y \in Texts, sent[y] < RepeatWindow, IsAt(y, p, f[y])
      PROVE  IsAt(y, p, f[y])'
  <2>1. Back(p, f[y]) \in Entries
    BY RingPlaces
  <2>2. CASE Back(p, f[y]) = call[t].i
    <3>1. Lasts(t) <= sent[y]
      <4>1. Lasts(t) <= sent[y] \/ RepeatWindow <= sent[y]
        BY <1>1 DEF ReportIsRight
      <4> QED
        BY <1>4, <4>1, Ages, FilterNumbers
    <3>2. time <= Began(t) + sent[y]
      <4>1. time \in Nat /\ sent[y] \in Nat /\ FirstUse \in Nat
        BY Ages, FilterNumbers DEF FilterTyped
      <4> HIDE DEF Began, Lasts
      <4> QED
        BY <1>3, <3>1, <4>1
    <3>3. hash'[Back(p, f[y])] = y
      BY <1>1, <1>4 DEF IsAt
    <3> HIDE DEF Began
    <3>4. at'[Back(p, f[y])] = Began(t) % TickWrap /\ Began(t) \in FirstUse .. time' /\ time' <= Began(t) + sent'[y]
      BY <1>1, <1>3, <2>2, <3>2
    <3> QED
      BY <3>3, <3>4 DEF IsAt, Back
  <2>3. CASE Back(p, f[y]) # call[t].i
    BY <1>1, <1>3, <1>4, <2>1, <2>3 DEF IsAt, Back
  <2> QED
    BY <2>2, <2>3
<1>5. InOrderFrom(p, f)'
  BY <1>1, <1>4 DEF InOrderFrom
<1> QED
  BY <1>2, <1>5

LEMMA LastSentAtPutAt ==
  ASSUME FilterTyped, FewTexts, ReportsInTime, OneReport, EntriesAreOwn, ~raced,
         NEW t \in Reporters, RepeatStep(t), PutAt(t), ReportIsRight(t),
         NEW p \in Entries, NEW f \in [Texts -> Entries], IsTop(p), InOrderFrom(p, f)
  PROVE  \E q \in Entries, g \in [Texts -> Entries] : IsTop(q)' /\ InOrderFrom(q, g)'
<1> DEFINE x == call[t].text
<1>1. /\ call[t].st = "putAt" /\ OthersReport(t) /\ Reporting(t) /\ x \in Texts
      /\ call[t].i \in Entries /\ next' = next /\ hash' = hash /\ time' = time
      /\ call'[t].st = "sent" /\ hash[call[t].i] = x
  BY RepeatStepMoves, StepOnRing, StepOnCall, ReportIsTyped DEF PutAt, MovesTo, EntriesAreOwn
<1>2. \A u \in Reporters : u # t => call[u].st = "out" /\ call'[u] = call[u]
  BY <1>1, OthersAreOut DEF OthersReport
<1>3. p = call[t].i /\ next = (p + 1) % Ring
  BY <1>1, <1>2 DEF IsTop, Inserts
<1>4. PICK a \in 0 .. RepeatWindow :
          /\ (Lasts(t) < RepeatWindow => a = Lasts(t)) /\ (~(Lasts(t) < RepeatWindow) => a = RepeatWindow)
          /\ \A y \in Texts : sent'[y] = IF y = x THEN a ELSE sent[y]
  BY SentIs
<1>5. /\ at'[p] = Began(t) % TickWrap
      /\ \A i \in Entries : i # p => at'[i] = at[i]
      /\ Began(t) \in FirstUse .. time /\ Lasts(t) \in Nat /\ time = Began(t) + Lasts(t)
  BY <1>3, StampIs
<1>6. /\ RepeatWindow \in Nat /\ Ring \in Nat \ {0} /\ next \in Entries
      /\ \A y \in Texts : sent[y] \in Nat
  BY Ages, FilterNumbers DEF FilterTyped
<1>7. \A y \in Texts : Lasts(t) <= sent[y] \/ RepeatWindow <= sent[y]
  BY <1>1 DEF ReportIsRight
<1>8. ~(sent[x] < RepeatWindow)
  <2>1. call[t].gap >= RepeatWindow /\ call[t].gap <= sent[x]
    BY <1>1 DEF ReportIsRight
  <2> QED
    BY <1>1, <1>6, <2>1, ReportIsTyped
<1>9. IsTop(next)'
  <2>1. \A u \in Reporters : ~Inserts(u)'
    BY <1>1, <1>2 DEF Inserts
  <2> QED
    BY <1>1, <2>1 DEF IsTop
<1>10. PICK q \in Entries : q = next
  BY <1>6
<1>11. IsTop(q)'
  BY <1>1, <1>9, <1>10
<1> HIDE DEF x
<1>12. CASE ~(Lasts(t) < RepeatWindow)
  <2>1. \A y \in Texts : ~(sent'[y] < RepeatWindow)
    BY <1>4, <1>5, <1>6, <1>7, <1>12
  <2>2. InOrderFrom(q, f)'
    BY <2>1 DEF InOrderFrom
  <2> QED
    BY <1>11, <2>2
<1>13. CASE Lasts(t) < RepeatWindow
  <2>1. \A y \in Texts : y # x /\ sent[y] < RepeatWindow => f[y] # Ring - 1
    BY <1>1, <1>8, NotLast
  <2>2. PICK g \in [Texts -> Entries] :
           /\ g[x] = 0
           /\ \A y \in Texts : y # x /\ sent[y] < RepeatWindow => g[y] = f[y] + 1
    <3> DEFINE g0 == [y \in Texts |-> IF y # x /\ f[y] # Ring - 1 THEN f[y] + 1 ELSE 0]
    <3>1. 0 \in Entries /\ \A d \in Entries : d # Ring - 1 => d + 1 \in Entries
      BY <1>6 DEF Entries
    <3>2. g0 \in [Texts -> Entries]
      BY <3>1
    <3>3. /\ g0[x] = 0
          /\ \A y \in Texts : y # x /\ sent[y] < RepeatWindow => g0[y] = f[y] + 1
      BY <1>1, <2>1
    <3> HIDE DEF g0
    <3> QED
      BY <3>2, <3>3
  <2>3. /\ Back(q, 0) = p
        /\ \A d \in Entries : d # Ring - 1 => Back(q, d + 1) = Back(p, d)
        /\ \A d \in Entries : Back(p, d) \in Entries /\ (Back(p, d) = p => d = Ring - 1)
    BY <1>3, <1>10, RingPlaces
  <2>4. sent'[x] = Lasts(t)
    BY <1>1, <1>4, <1>13
  <2>5. ASSUME NEW y \in Texts, sent'[y] < RepeatWindow
        PROVE  /\ hash'[Back(q, g[y])] = y
               /\ \E r \in FirstUse .. time' : at'[Back(q, g[y])] = r % TickWrap /\ time' <= r + sent'[y]
    <3>1. CASE y = x
      <4> HIDE DEF Began, Lasts
      <4>1. time' <= Began(t) + sent'[x]
        BY <1>1, <1>5, <2>4
      <4> QED
        BY <1>1, <1>3, <1>5, <2>2, <2>3, <3>1, <4>1
    <3>2. CASE y # x
      <4>1. sent'[y] = sent[y] /\ sent[y] < RepeatWindow
        BY <1>4, <2>5, <3>2
      <4>2. g[y] = f[y] + 1 /\ f[y] # Ring - 1 /\ f[y] \in Entries
        BY <2>1, <2>2, <3>2, <4>1
      <4>3. Back(q, g[y]) = Back(p, f[y]) /\ Back(p, f[y]) \in Entries /\ Back(p, f[y]) # p
        BY <2>3, <4>2
      <4>4. IsAt(y, p, f[y])
        BY <4>1 DEF InOrderFrom
      <4> QED
        BY <1>1, <1>5, <4>1, <4>3, <4>4 DEF IsAt
    <3> QED
      BY <3>1, <3>2
  <2>6. ASSUME NEW y \in Texts, sent'[y] < RepeatWindow, NEW e \in 0 .. g[y] - 1
        PROVE  \E z \in Texts : g[z] = e /\ sent'[z] <= sent'[y]
    <3>1. y # x
      BY <2>2
    <3>2. sent'[y] = sent[y] /\ sent[y] < RepeatWindow
      BY <1>4, <2>6, <3>1
    <3>3. g[y] = f[y] + 1 /\ f[y] \in Nat
      BY <1>6, <2>2, <3>1, <3>2 DEF Entries
    <3>4. CASE e = 0
      <4>1. Lasts(t) <= sent[y]
        BY <1>5, <1>6, <1>7, <3>2
      <4> QED
        BY <1>1, <2>2, <2>4, <3>2, <3>4, <4>1
    <3>5. CASE e # 0
      <4>1. e - 1 \in 0 .. f[y] - 1
        BY <3>3, <3>5
      <4>2. PICK z \in Texts : f[z] = e - 1 /\ sent[z] <= sent[y]
        BY <3>2, <4>1 DEF InOrderFrom
      <4>3. sent[z] < RepeatWindow /\ z # x
        BY <1>6, <1>8, <3>2, <4>2
      <4>4. g[z] = e /\ sent'[z] = sent[z]
        BY <1>4, <2>2, <4>2, <4>3
      <4> QED
        BY <3>2, <4>2, <4>4
    <3> QED
      BY <3>4, <3>5
  <2>7. InOrderFrom(q, g)'
    BY <2>5, <2>6 DEF InOrderFrom, IsAt, Back
  <2> QED
    BY <1>11, <2>7
<1> QED
  BY <1>12, <1>13

LEMMA LastSentAreThereKept ==
  ASSUME FilterTyped, FewTexts, ReportsInTime, SentWasShown, OneReport, EntriesAreOwn,
         ReportsAreRight, LastSentAreThere, [RepeatNext]_repeatVars
  PROVE  LastSentAreThere'
<1> USE DEF ring, history
<1> SUFFICES ASSUME ~raced' PROVE \E p \in Entries, f \in [Texts -> Entries] : IsTop(p)' /\ InOrderFrom(p, f)'
  BY DEF LastSentAreThere
<1>1. CASE RepeatTick
  <2>1. /\ time' = time + 1 /\ hash' = hash /\ at' = at /\ call' = call /\ next' = next /\ ~raced
        /\ \A y \in Texts : sent'[y] = Older(sent[y])
    BY <1>1 DEF RepeatTick
  <2>2. PICK p \in Entries, f \in [Texts -> Entries] : IsTop(p) /\ InOrderFrom(p, f)
    BY <2>1 DEF LastSentAreThere
  <2>3. IsTop(p)'
    BY <2>1, <2>2 DEF IsTop, Inserts
  <2>4. \A y \in Texts : /\ sent[y] \in Nat
                         /\ sent[y] < RepeatWindow => sent'[y] = sent[y] + 1
                         /\ sent'[y] < RepeatWindow => sent[y] < RepeatWindow
    BY <2>1, Ages, AgesOn
  <2>5. time \in Nat /\ FirstUse \in Nat /\ RepeatWindow \in Nat
    BY FilterNumbers DEF FilterTyped
  <2>6. ASSUME NEW y \in Texts, sent'[y] < RepeatWindow
        PROVE  /\ IsAt(y, p, f[y])'
               /\ \A e \in 0 .. f[y] - 1 : \E z \in Texts : f[z] = e /\ sent'[z] <= sent'[y]
    <3>1. sent[y] < RepeatWindow /\ sent'[y] = sent[y] + 1
      BY <2>4, <2>6
    <3>2. IsAt(y, p, f[y])'
      <4>1. PICK r \in FirstUse .. time : at[Back(p, f[y])] = r % TickWrap /\ time <= r + sent[y]
        BY <2>2, <3>1 DEF InOrderFrom, IsAt
      <4>2. r \in FirstUse .. time' /\ time' <= r + sent'[y]
        BY <2>1, <2>4, <2>5, <3>1, <4>1
      <4>3. hash[Back(p, f[y])] = y
        BY <2>2, <3>1 DEF InOrderFrom, IsAt
      <4> QED
        BY <2>1, <4>1, <4>2, <4>3 DEF IsAt, Back
    <3>3. ASSUME NEW e \in 0 .. f[y] - 1
          PROVE  \E z \in Texts : f[z] = e /\ sent'[z] <= sent'[y]
      <4>1. PICK z \in Texts : f[z] = e /\ sent[z] <= sent[y]
        BY <2>2, <3>1 DEF InOrderFrom
      <4> QED
        BY <2>4, <2>5, <3>1, <4>1
    <3> QED
      BY <3>2, <3>3
  <2>7. InOrderFrom(p, f)'
    BY <2>6 DEF InOrderFrom
  <2> QED
    BY <2>3, <2>7
<1>2. ASSUME NEW t \in Reporters, NEW x \in Texts, IsRepeat(t, x)
      PROVE  \E p \in Entries, f \in [Texts -> Entries] : IsTop(p)' /\ InOrderFrom(p, f)'
  <2>1. /\ \A u \in Reporters : call[u].st = "out"
        /\ ~raced \/ \A y \in Texts : ~(shown[y] < RepeatWindow)
    BY <1>2 DEF IsRepeat
  <2>2. \A u \in Reporters : ~Inserts(u) /\ ~Inserts(u)'
    BY <1>2, <2>1, IsRepeatMoves DEF Inserts
  <2>3. hash' = hash /\ at' = at /\ time' = time /\ sent' = sent /\ next' = next
    BY <1>2 DEF IsRepeat
  <2>4. CASE ~raced
    <3>1. PICK p \in Entries, f \in [Texts -> Entries] : IsTop(p) /\ InOrderFrom(p, f)
      BY <2>4 DEF LastSentAreThere
    <3>2. IsTop(p)'
      BY <2>2, <2>3, <3>1 DEF IsTop
    <3> QED
      BY <2>3, <3>1, <3>2, OrderStays
  <2>5. CASE \A y \in Texts : ~(shown[y] < RepeatWindow)
    <3>1. \A y \in Texts : ~(sent'[y] < RepeatWindow)
      BY <2>3, <2>5, Ages, FilterNumbers DEF SentWasShown
    <3> DEFINE f == [y \in Texts |-> 0]
    <3>2. f \in [Texts -> Entries]
      BY FilterNumbers DEF Entries
    <3>3. InOrderFrom(next, f)'
      BY <3>1 DEF InOrderFrom
    <3>4. PICK p \in Entries : p = next
      BY DEF FilterTyped
    <3>5. IsTop(p)'
      BY <2>2, <2>3, <3>4 DEF IsTop
    <3>6. InOrderFrom(p, f)'
      BY <3>1 DEF InOrderFrom
    <3> HIDE DEF f
    <3> QED
      BY <3>2, <3>5, <3>6
  <2> QED
    BY <2>1, <2>4, <2>5
<1>3. ASSUME NEW t \in Reporters, RepeatStep(t)
      PROVE  \E p \in Entries, f \in [Texts -> Entries] : IsTop(p)' /\ InOrderFrom(p, f)'
  <2>1. OthersReport(t) /\ time' = time /\ ~raced
    BY <1>3, StepOnRing
  <2>2. PICK p \in Entries, f \in [Texts -> Entries] : IsTop(p) /\ InOrderFrom(p, f)
    BY <2>1 DEF LastSentAreThere
  <2>3. ReportIsRight(t)
    BY <2>1 DEF ReportsAreRight, ReportIsRight
  <2>4. CASE PutAt(t)
    BY <1>3, <2>1, <2>2, <2>3, <2>4, LastSentAtPutAt
  <2>5. CASE PutHash(t)
    BY <1>3, <2>1, <2>2, <2>3, <2>5, LastSentAtPutHash
  <2>6. CASE Touch(t)
    BY <1>3, <2>1, <2>2, <2>3, <2>6, LastSentAtTouch
  <2>7. CASE Insert(t)
    <3>1. /\ call[t].st = "insert" /\ Reporting(t) /\ call'[t].st = "putHash" /\ call'[t].i = next
          /\ next' = (next + 1) % Ring /\ hash' = hash /\ at' = at /\ sent' = sent
      BY <1>3, <2>7, StepOnRing, StepOnCall, RepeatStepMoves DEF Insert
    <3>2. \A u \in Reporters : ~Inserts(u)
      BY <2>1, <3>1, OthersAreOut DEF Inserts
    <3>3. p = next
      BY <2>2, <3>2 DEF IsTop
    <3>4. IsTop(p)'
      BY <3>1, <3>3 DEF IsTop, Inserts
    <3> QED
      BY <2>1, <2>2, <3>1, <3>4, OrderStays
  <2>8. CASE Scan(t) \/ Age(t) \/ Answer(t)
    <3>1. /\ hash' = hash /\ at' = at /\ sent' = sent /\ next' = next
      BY <2>8 DEF Scan, Age, Answer
    <3>2. ~Inserts(t) /\ ~Inserts(t)'
      BY <1>3, <2>8, StepOnCall DEF Inserts, MovesTo, MovesOn
    <3>3. IsTop(p)'
      BY <2>1, <2>2, <3>1, <3>2, TopStays
    <3> QED
      BY <2>1, <2>2, <3>1, <3>3, OrderStays
  <2> QED
    BY <1>3, <2>4, <2>5, <2>6, <2>7, <2>8 DEF RepeatStep
<1>4. CASE UNCHANGED repeatVars
  BY <1>4 DEF repeatVars, LastSentAreThere, IsTop, Inserts, InOrderFrom, IsAt, Back
<1> QED
  BY <1>1, <1>2, <1>3, <1>4 DEF RepeatNext

-----------------------------------------------------------------------------
FilterInv ==
    /\ FilterTyped /\ ReportsInTime /\ EntriesAreShown /\ SentWasShown /\ EntriesWereSent
    /\ OneReport /\ EntriesAreOwn

LEMMA FilterInvHolds == RepeatSpec => []FilterInv
<1>1. RepeatInit => FilterInv
  <2> SUFFICES ASSUME RepeatInit PROVE FilterInv
    OBVIOUS
  <2>1. /\ \A t \in Reporters : call[t] = NoReport
        /\ \A i \in Entries : hash[i] = NoText
        /\ time = FirstUse /\ raced \in BOOLEAN
    BY DEF RepeatInit
  <2>2. \A t \in Reporters : call[t].st = "out"
    BY <2>1, NoReportIsOut
  <2>3. FilterTyped
    <3>1. /\ FirstUse \in Nat /\ LastTick \in Nat /\ Never \in 0 .. Never /\ 0 \in Entries
          /\ NoReport \in Reports
      BY FilterNumbers, NoReportIsOut DEF Never, Entries
    <3>2. call \in [Reporters -> Reports] /\ hash \in [Entries -> Texts \cup {NoText}]
          /\ at \in [Entries -> Nat]
          /\ shown \in [Texts -> 0 .. Never] /\ sent \in [Texts -> 0 .. Never] /\ next = 0
      BY <3>1 DEF RepeatInit
    <3> QED
      BY <2>1, <2>2, <3>1, <3>2 DEF FilterTyped, Reporting
  <2>4. SentWasShown
    <3>1. \A x \in Texts : shown[x] = Never /\ sent[x] = Never
      BY DEF RepeatInit
    <3>2. Never <= Never
      BY FilterNumbers DEF Never
    <3> QED
      BY <3>1, <3>2 DEF SentWasShown
  <2> QED
    BY <2>1, <2>2, <2>3, <2>4 DEF FilterInv, ReportsInTime, EntriesAreShown, EntriesWereSent,
       OneReport, EntriesAreOwn, Reporting
<1>2. FilterInv /\ [RepeatNext]_repeatVars => FilterInv'
  BY FilterTypedKept, ReportsInTimeKept, EntriesAreShownKept, SentWasShownKept, EntriesWereSentKept,
     OneReportKept, EntriesAreOwnKept DEF FilterInv
<1> QED
  BY <1>1, <1>2, PTL DEF RepeatSpec

(* A text is never dropped for nothing, whatever the threads do: a call of  *)
(* is_repeat for it has sent it, or is about to.                            *)
THEOREM DroppedWasAlwaysSent == RepeatSpec => []DroppedWasSent
<1>1. FilterInv => DroppedWasSent
  BY DEF FilterInv, EntriesWereSent, SentOrAbout, DroppedWasSent
<1> QED
  BY <1>1, FilterInvHolds, PTL

(* Each text is sent once in its window, and sent when it comes back after  *)
(* it, for a ring of any size and any threads, clock and window: until two  *)
(* calls overlap, and again after a silent window, for no more texts than   *)
(* the ring holds, while the clock wraps around once at most.               *)
THEOREM RepeatsAreAlwaysRight ==
  ASSUME FewTexts, OneRound
  PROVE  RepeatSpec => []RepeatsAreRight
<1> DEFINE Inv == FilterInv /\ ReportsAreRight /\ LastSentAreThere
<1>1. RepeatInit => ReportsAreRight /\ LastSentAreThere
  <2> SUFFICES ASSUME RepeatInit PROVE ReportsAreRight /\ LastSentAreThere
    OBVIOUS
  <2>1. /\ \A t \in Reporters : call[t].st = "out"
        /\ \A x \in Texts : sent[x] = Never
        /\ next = 0
    BY NoReportIsOut DEF RepeatInit
  <2>2. ReportsAreRight
    BY <2>1 DEF ReportsAreRight, Reporting
  <2> DEFINE f == [y \in Texts |-> 0]
  <2>3. 0 \in Entries /\ f \in [Texts -> Entries]
    BY FilterNumbers DEF Entries
  <2>4. IsTop(0)
    BY <2>1 DEF IsTop, Inserts
  <2>5. InOrderFrom(0, f)
    BY <2>1, FilterNumbers DEF InOrderFrom, Never
  <2> HIDE DEF f
  <2>6. LastSentAreThere
    BY <2>3, <2>4, <2>5 DEF LastSentAreThere
  <2> QED
    BY <2>2, <2>6
<1>2. FilterInv /\ ReportsAreRight /\ LastSentAreThere /\ [RepeatNext]_repeatVars
        => ReportsAreRight' /\ LastSentAreThere'
  BY ReportsAreRightKept, LastSentAreThereKept DEF FilterInv
<1>3. FilterInv /\ ReportsAreRight => RepeatsAreRight
  <2> SUFFICES ASSUME FilterInv, ReportsAreRight PROVE RepeatsAreRight
    OBVIOUS
  <2>1. DroppedWasSent
    BY DEF FilterInv, EntriesWereSent, SentOrAbout, DroppedWasSent
  <2>2. OncePerWindow
    BY DEF ReportsAreRight, OncePerWindow, NewEventIsSent
  <2> QED
    BY <2>1, <2>2 DEF RepeatsAreRight
<1> QED
  BY <1>1, <1>2, <1>3, FilterInvHolds, PTL DEF RepeatSpec

=============================================================================
