------------------------------ MODULE ExecPool ------------------------------
(***************************************************************************)
(* The executable memory the hooks live in: alloc_exec_near and            *)
(* create_trampoline_with_prolog take blocks out of pools that are mapped  *)
(* near the hooked function, so that a jump of 32 bits reaches them.       *)
(*                                                                         *)
(* A trampoline reserves the most it may need, is built in place, and then *)
(* commits what it needed.  Addresses are numbers; what is written into a  *)
(* block is not modelled.  Where a pool is mapped is any free place in     *)
(* range: both systems' searches are covered.                              *)
(***************************************************************************)
EXTENDS Naturals

CONSTANTS
    Threads,
    None,
    Targets,      \* addresses of functions to hook
    Sizes,        \* what is asked for, and what is needed of it
    Regions,      \* places where a pool may be mapped
    PoolSize,     \* kPoolSize
    NearRange,    \* kNearRange
    MaxPools,     \* kMaxPools
    MaxCalls      \* bound: calls of one thread

ASSUME PoolAssumption ==
    /\ None \notin Threads
    /\ Targets \subseteq Nat
    /\ Sizes \subseteq Nat \ {0}
    /\ Regions \subseteq Nat
    /\ PoolSize \in Nat /\ PoolSize % 16 = 0
    /\ \A a, b \in Regions : a < b => a + PoolSize <= b
    /\ NearRange \in Nat
    /\ MaxPools \in Nat
    /\ MaxCalls \in Nat

VARIABLES
    base, used,    \* g_pools
    count,         \* g_pool_count
    lock,          \* who has g_pool_lock
    call,          \* per thread: where it is and what it holds
    blocks         \* history: the blocks handed out

vars == <<base, used, count, lock, call, blocks>>

Index == 1 .. MaxPools
Pools == 1 .. count

Distance(a, b) == IF a > b THEN a - b ELSE b - a

(* Blocks are multiples of 16 bytes. *)
Round(size) == ((size + 15) \div 16) * 16

Init ==
    /\ base = [i \in Index |-> 0] /\ used = [i \in Index |-> 0]
    /\ count = 0
    /\ lock = None
    /\ call = [t \in Threads |-> [at |-> "out", no |-> 0, exact |-> TRUE,
                                  target |-> 0, size |-> 0, pool |-> 0]]
    /\ blocks = {}

-----------------------------------------------------------------------------
At(t, step) == call[t].at = step
Goes(t, step) == call' = [call EXCEPT ![t].at = step]

(* A block of that size, or a trampoline of at most that size. *)
Start(t) ==
    /\ At(t, "out")
    /\ call[t].no < MaxCalls
    /\ \E target \in Targets, size \in Sizes, exact \in BOOLEAN :
          call' = [call EXCEPT ![t] = [at |-> "lock", no |-> @.no + 1, exact |-> exact,
                                       target |-> target, size |-> size, pool |-> 0]]
    /\ UNCHANGED <<base, used, count, lock, blocks>>

(* Mutated: the lock is not taken. *)
Lock_Not(t) ==
    /\ At(t, "lock")
    /\ Goes(t, "reserve")
    /\ UNCHANGED <<base, used, count, lock, blocks>>

Lock(t) ==
    /\ At(t, "lock")
    /\ lock = None
    /\ lock' = t
    /\ Goes(t, "reserve")
    /\ UNCHANGED <<base, used, count, blocks>>

HasRoom(t, i) == PoolSize - used[i] >= call[t].size

(* Mutated: the distance is not looked at. *)
IsNear_Any(t, i) == call[t].target \in Targets /\ i \in Pools

IsNear(t, i) == Distance(base[i], call[t].target) < NearRange

Suits(t, i) == HasRoom(t, i) /\ IsNear(t, i)

Reserved(t, i) == call' = [call EXCEPT ![t].at = "build", ![t].pool = i]

(* The first pool that has room and is near. *)
ReserveOld(t) ==
    /\ At(t, "reserve")
    /\ call[t].size <= PoolSize
    /\ \E i \in Pools :
          /\ Suits(t, i)
          /\ \A j \in 1 .. i - 1 : ~Suits(t, j)
          /\ Reserved(t, i)
    /\ UNCHANGED <<base, used, count, lock, blocks>>

(* map_pool_near *)
ReserveNew(t) ==
    /\ At(t, "reserve")
    /\ call[t].size <= PoolSize
    /\ \A i \in Pools : ~Suits(t, i)
    /\ count < MaxPools
    /\ \E r \in Regions :
          /\ \A i \in Pools : base[i] # r
          /\ Distance(r, call[t].target) <= NearRange
          /\ base' = [base EXCEPT ![count + 1] = r]
    /\ used' = [used EXCEPT ![count + 1] = 0]
    /\ count' = count + 1
    /\ Reserved(t, count + 1)
    /\ UNCHANGED <<lock, blocks>>

(* The block is too large, there are too many pools, or nothing near is     *)
(* free or can be mapped.                                                   *)
ReserveFails(t) ==
    /\ At(t, "reserve")
    /\ call[t].size > PoolSize \/ \A i \in Pools : ~Suits(t, i)
    /\ Goes(t, "unlock")
    /\ UNCHANGED <<base, used, count, lock, blocks>>

(* build_trampoline: it gives up, or needs some of what was reserved. *)
Build(t) ==
    /\ At(t, "build")
    /\ \/ call[t].exact /\ Goes(t, "commit")
       \/ ~call[t].exact /\ Goes(t, "unlock")
       \/ /\ ~call[t].exact
          /\ \E length \in {n \in Sizes : n <= call[t].size} :
                call' = [call EXCEPT ![t].at = "commit", ![t].size = length]
    /\ UNCHANGED <<base, used, count, lock, blocks>>

Block(t) ==
    LET i == call[t].pool IN
    [by |-> t, no |-> call[t].no, target |-> call[t].target, pool |-> i,
     from |-> base[i] + used[i], to |-> base[i] + used[i] + call[t].size]

Commit(t) ==
    /\ At(t, "commit")
    /\ used' = [used EXCEPT ![call[t].pool] = @ + Round(call[t].size)]
    /\ blocks' = blocks \cup {Block(t)}
    /\ Goes(t, "unlock")
    /\ UNCHANGED <<base, count, lock>>

Unlock(t) ==
    /\ At(t, "unlock")
    /\ lock' = None
    /\ Goes(t, "out")
    /\ UNCHANGED <<base, used, count, blocks>>

-----------------------------------------------------------------------------
Next ==
    \E t \in Threads :
        \/ Start(t) \/ Lock(t)
        \/ ReserveOld(t) \/ ReserveNew(t) \/ ReserveFails(t)
        \/ Build(t) \/ Commit(t) \/ Unlock(t)

Spec == Init /\ [][Next]_vars

-----------------------------------------------------------------------------
Calls ==
    [at : {"out", "lock", "reserve", "build", "commit", "unlock"}, no : Nat, exact : BOOLEAN,
     target : Nat, size : Nat, pool : Nat]

(* The members have their types; a pool is never overdrawn, and its blocks *)
(* are aligned.                                                            *)
TypeOK ==
    /\ base \in [Index -> Nat] /\ used \in [Index -> 0 .. PoolSize]
    /\ \A i \in Index : used[i] % 16 = 0
    /\ count \in 0 .. MaxPools
    /\ lock \in Threads \cup {None}
    /\ call \in [Threads -> Calls]
    /\ blocks \subseteq [by : Threads, no : Nat, target : Nat, pool : Index,
                         from : Nat, to : Nat]

Apart(b, c) == b.to <= c.from \/ c.to <= b.from

(* No two blocks share a byte, and a trampoline that is still being built   *)
(* is written over no other block: blocks are never given back, so a byte   *)
(* used twice would be code overwritten while it may run.                   *)
BlocksApart ==
    /\ \A b, c \in blocks : b # c => Apart(b, c)
    /\ \A t \in Threads : call[t].at \in {"build", "commit"} =>
          \A b \in blocks : Apart(b, Block(t))

(* A jump of 32 bits at the function reaches its block, wherever in its     *)
(* pool the block lies: NearRange leaves room for one pool.                 *)
InReach ==
    \A b \in blocks : /\ b.from + NearRange >= b.target
                      /\ b.to <= b.target + NearRange + PoolSize

=============================================================================
