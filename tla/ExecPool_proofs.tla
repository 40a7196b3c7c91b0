-------------------------- MODULE ExecPool_proofs --------------------------
(***************************************************************************)
(* Proofs about ExecPool: for any threads, functions, sizes and places of  *)
(* the pools, no pool is overdrawn, no two blocks share a byte, and every  *)
(* block is within the reach of its function.                              *)
(*                                                                         *)
(* That two blocks are apart is not inductive: a block is compared with    *)
(* all the earlier ones.  The invariant says where they are: below the     *)
(* mark of their pool, and pools are apart; what is reserved begins at the *)
(* mark, fits above it, and its thread holds the lock, so that the mark    *)
(* does not move meanwhile.                                                *)
(***************************************************************************)
EXTENDS ExecPool, TLAPS

Holding(t) == call[t].at \in {"reserve", "build", "commit", "unlock"}

LockIsHeld == \A t \in Threads : Holding(t) => lock = t

PoolsApart ==
    /\ \A i \in Pools : base[i] \in Regions
    /\ \A i, j \in Pools : i # j => base[i] # base[j]

BelowMark ==
    \A b \in blocks : /\ b.pool \in Pools
                      /\ base[b.pool] <= b.from
                      /\ b.to <= base[b.pool] + used[b.pool]

(* What a thread has reserved fits, in a pool that its function reaches. *)
FitsAndReaches ==
    \A t \in Threads : call[t].at \in {"build", "commit"} =>
        /\ call[t].pool \in Pools
        /\ call[t].size > 0
        /\ used[call[t].pool] + call[t].size <= PoolSize
        /\ Distance(base[call[t].pool], call[t].target) <= NearRange

AsksForSomething ==
    \A t \in Threads : call[t].at # "out" => call[t].size \in Sizes

IInv ==
    /\ TypeOK /\ BlocksApart /\ InReach
    /\ LockIsHeld /\ PoolsApart /\ BelowMark /\ FitsAndReaches /\ AsksForSomething

-----------------------------------------------------------------------------
(* A committed size is a multiple of 16 that is no smaller, and does not    *)
(* overdraw a pool in which the size itself fits.                           *)
LEMMA RoundFits ==
    ASSUME NEW size \in Nat, NEW u \in Nat, u % 16 = 0, u + size <= PoolSize
    PROVE  /\ Round(size) \in Nat
           /\ Round(size) >= size
           /\ (u + Round(size)) % 16 = 0
           /\ u + Round(size) <= PoolSize
<1>1. PoolSize \in Nat /\ PoolSize % 16 = 0
  BY PoolAssumption
<1>. QED
  BY <1>1 DEF Round

(* Two pools are apart. *)
LEMMA PoolsAreApart ==
    ASSUME TypeOK, PoolsApart, NEW i \in Pools, NEW j \in Pools, i # j
    PROVE  base[i] + PoolSize <= base[j] \/ base[j] + PoolSize <= base[i]
<1>1. base[i] \in Regions /\ base[j] \in Regions /\ base[i] # base[j]
  BY DEF PoolsApart
<1>2. base[i] \in Nat /\ base[j] \in Nat
  BY <1>1, PoolAssumption
<1>3. base[i] < base[j] \/ base[j] < base[i]
  BY <1>1, <1>2
<1>. QED
  BY <1>1, <1>3, PoolAssumption

(* What is reserved is apart from every block. *)
LEMMA ReservedIsApart ==
    ASSUME TypeOK, PoolsApart, BelowMark, NEW b \in blocks, NEW i \in Pools,
           NEW size \in Nat, used[i] + size <= PoolSize
    PROVE  \/ b.to <= base[i] + used[i]
           \/ base[i] + used[i] + size <= b.from
<1>1. /\ b.pool \in Pools
      /\ base[b.pool] <= b.from
      /\ b.to <= base[b.pool] + used[b.pool]
  BY DEF BelowMark
<1>2. /\ Pools \subseteq Index
      /\ PoolSize \in Nat
      /\ base[i] \in Nat /\ base[b.pool] \in Nat
      /\ used[i] \in 0 .. PoolSize /\ used[b.pool] \in 0 .. PoolSize
      /\ b.from \in Nat /\ b.to \in Nat
  BY <1>1, PoolAssumption DEF TypeOK, Pools, Index
<1>3. CASE b.pool = i
  BY <1>1, <1>2, <1>3
<1>4. CASE b.pool # i
  BY <1>1, <1>2, <1>4, PoolsAreApart
<1>. QED
  BY <1>3, <1>4

-----------------------------------------------------------------------------
LEMMA InitHolds == Init => IInv
<1>. SUFFICES ASSUME Init PROVE IInv
  OBVIOUS
<1>1. TypeOK
  BY PoolAssumption DEF Init, TypeOK, Calls, Index
<1>. QED
  BY <1>1 DEF Init, IInv, BlocksApart, InReach, LockIsHeld, Holding, PoolsApart, Pools,
              BelowMark, FitsAndReaches, AsksForSomething

(* A step that touches no pool and no block, and takes no thread to where   *)
(* it holds a reservation, keeps what is said of pools and blocks.          *)
LEMMA OnlyCallsMove ==
    ASSUME IInv, UNCHANGED <<base, used, count, blocks>>, TypeOK',
           \A t \in Threads : call'[t].at \in {"build", "commit"} => call'[t] = call[t]
    PROVE  BlocksApart' /\ InReach' /\ PoolsApart' /\ BelowMark' /\ FitsAndReaches'
<1>1. BlocksApart'
  BY DEF IInv, BlocksApart, Block, Apart
<1>2. InReach' /\ PoolsApart' /\ BelowMark'
  BY DEF IInv, InReach, PoolsApart, BelowMark, Pools
<1>3. FitsAndReaches'
  BY DEF IInv, FitsAndReaches, Pools, Distance
<1>. QED
  BY <1>1, <1>2, <1>3

LEMMA StartHolds == ASSUME IInv, NEW t \in Threads, Start(t) PROVE IInv'
<1>1. TypeOK'
  BY PoolAssumption DEF IInv, TypeOK, Start, At, Calls
<1>2. \A u \in Threads : call'[u].at \in {"build", "commit"} => call'[u] = call[u]
  BY DEF IInv, TypeOK, Start, At, Calls
<1>3. LockIsHeld' /\ AsksForSomething'
  BY DEF IInv, TypeOK, Start, At, Calls, LockIsHeld, Holding, AsksForSomething
<1>4. UNCHANGED <<base, used, count, blocks>>
  BY DEF Start
<1>. QED
  BY <1>1, <1>2, <1>3, <1>4, OnlyCallsMove DEF IInv

LEMMA LockHolds == ASSUME IInv, NEW t \in Threads, Lock(t) PROVE IInv'
<1>1. TypeOK'
  BY DEF IInv, TypeOK, Lock, At, Goes, Calls
<1>2. \A u \in Threads : call'[u].at \in {"build", "commit"} => call'[u] = call[u]
  BY DEF IInv, TypeOK, Lock, At, Goes, Calls
<1>3. AsksForSomething'
  BY DEF IInv, TypeOK, Lock, At, Goes, Calls, AsksForSomething
<1>4. LockIsHeld'
  BY PoolAssumption DEF IInv, TypeOK, Lock, At, Goes, Calls, LockIsHeld, Holding
<1>5. UNCHANGED <<base, used, count, blocks>>
  BY DEF Lock
<1>. QED
  BY <1>1, <1>2, <1>3, <1>4, <1>5, OnlyCallsMove DEF IInv

LEMMA UnlockHolds == ASSUME IInv, NEW t \in Threads, Unlock(t) PROVE IInv'
<1>1. TypeOK'
  BY DEF IInv, TypeOK, Unlock, At, Goes, Calls
<1>2. \A u \in Threads : call'[u].at \in {"build", "commit"} => call'[u] = call[u]
  BY DEF IInv, TypeOK, Unlock, At, Goes, Calls
<1>3. AsksForSomething'
  BY DEF IInv, TypeOK, Unlock, At, Goes, Calls, AsksForSomething
<1>4. LockIsHeld'
  BY DEF IInv, TypeOK, Unlock, At, Goes, Calls, LockIsHeld, Holding
<1>5. UNCHANGED <<base, used, count, blocks>>
  BY DEF Unlock
<1>. QED
  BY <1>1, <1>2, <1>3, <1>4, <1>5, OnlyCallsMove DEF IInv

LEMMA ReserveFailsHolds == ASSUME IInv, NEW t \in Threads, ReserveFails(t) PROVE IInv'
<1>1. TypeOK'
  BY DEF IInv, TypeOK, ReserveFails, At, Goes, Calls
<1>2. \A u \in Threads : call'[u].at \in {"build", "commit"} => call'[u] = call[u]
  BY DEF IInv, TypeOK, ReserveFails, At, Goes, Calls
<1>3. AsksForSomething'
  BY DEF IInv, TypeOK, ReserveFails, At, Goes, Calls, AsksForSomething
<1>4. LockIsHeld'
  BY DEF IInv, TypeOK, ReserveFails, At, Goes, Calls, LockIsHeld, Holding
<1>5. UNCHANGED <<base, used, count, blocks>>
  BY DEF ReserveFails
<1>. QED
  BY <1>1, <1>2, <1>3, <1>4, <1>5, OnlyCallsMove DEF IInv

-----------------------------------------------------------------------------
(* Two reservations of the same place in the pools. *)
LEMMA SameReservation ==
    ASSUME IInv, UNCHANGED <<base, used, count, blocks>>, TypeOK', FitsAndReaches'
    PROVE  BlocksApart' /\ InReach' /\ PoolsApart' /\ BelowMark'
<1>1. InReach' /\ PoolsApart' /\ BelowMark'
  BY DEF IInv, InReach, PoolsApart, BelowMark, Pools
<1>2. ASSUME NEW t \in Threads, call'[t].at \in {"build", "commit"}, NEW b \in blocks
      PROVE  Apart(b, Block(t)')
  <2>1. /\ call'[t].pool \in Pools /\ call'[t].size \in Nat
        /\ used[call'[t].pool] + call'[t].size <= PoolSize
    BY <1>2 DEF FitsAndReaches, Pools, TypeOK, Calls
  <2>2. \/ b.to <= base[call'[t].pool] + used[call'[t].pool]
        \/ base[call'[t].pool] + used[call'[t].pool] + call'[t].size <= b.from
    BY <2>1, ReservedIsApart DEF IInv
  <2>. QED
    BY <2>2 DEF Apart, Block
<1>3. BlocksApart'
  BY <1>2 DEF IInv, BlocksApart, Apart, Block
<1>. QED
  BY <1>1, <1>3

LEMMA ReserveOldHolds == ASSUME IInv, NEW t \in Threads, ReserveOld(t) PROVE IInv'
<1>1. PICK i \in Pools : Suits(t, i) /\ Reserved(t, i)
  BY DEF ReserveOld
<1>2. UNCHANGED <<base, used, count, lock, blocks>> /\ call[t].at = "reserve"
  BY DEF ReserveOld, At
<1>3. call \in [Threads -> Calls] /\ i \in Index /\ i \in Nat /\ NearRange \in Nat /\ PoolSize \in Nat
  BY PoolAssumption DEF IInv, TypeOK, Pools, Index
<1>4. TypeOK'
  BY ZenonT(60), <1>1, <1>2, <1>3 DEF IInv, TypeOK, Reserved, Calls
<1>5. LockIsHeld' /\ AsksForSomething'
  BY <1>1, <1>2, <1>3 DEF IInv, Reserved, LockIsHeld, Holding, AsksForSomething, Calls
<1>6. call[t].size \in Nat /\ call[t].size > 0 /\ call[t].target \in Nat
  BY <1>2, <1>3, PoolAssumption DEF IInv, AsksForSomething, Calls
<1>7. base[i] \in Nat /\ used[i] \in Nat
  BY <1>3 DEF IInv, TypeOK
<1>8. used[i] + call[t].size <= PoolSize /\ Distance(base[i], call[t].target) <= NearRange
  BY <1>1, <1>3, <1>6, <1>7 DEF Suits, HasRoom, IsNear, Distance
<1>9. FitsAndReaches'
  <2>. SUFFICES ASSUME NEW u \in Threads, call'[u].at \in {"build", "commit"}
                PROVE  /\ call'[u].pool \in Pools
                       /\ call'[u].size > 0
                       /\ used[call'[u].pool] + call'[u].size <= PoolSize
                       /\ Distance(base[call'[u].pool], call'[u].target) <= NearRange
    BY <1>2 DEF FitsAndReaches, Pools, Distance
  <2>1. CASE u = t
    BY <2>1, <1>1, <1>3, <1>6, <1>8 DEF Reserved, Calls
  <2>2. CASE u # t
    <3>1. call'[u] = call[u]
      BY <2>2, <1>1, <1>3 DEF Reserved
    <3>. QED
      BY <3>1 DEF IInv, FitsAndReaches
  <2>. QED
    BY <2>1, <2>2
<1>. QED
  BY <1>2, <1>4, <1>5, <1>9, SameReservation DEF IInv

(* While a thread holds the lock no other thread has a reservation. *)
LEMMA OthersHoldNothing ==
    ASSUME IInv, NEW t \in Threads, Holding(t), NEW u \in Threads, u # t
    PROVE  ~Holding(u)
BY DEF IInv, LockIsHeld

LEMMA ReserveNewHolds == ASSUME IInv, NEW t \in Threads, ReserveNew(t) PROVE IInv'
<1>. DEFINE i == count + 1
<1>1. PICK r \in Regions : /\ \A j \in Pools : base[j] # r
                           /\ Distance(r, call[t].target) <= NearRange
                           /\ base' = [base EXCEPT ![i] = r]
  BY DEF ReserveNew
<1>2. /\ At(t, "reserve") /\ call[t].size <= PoolSize /\ count < MaxPools
      /\ used' = [used EXCEPT ![i] = 0] /\ count' = i /\ Reserved(t, i)
      /\ UNCHANGED <<lock, blocks>>
  BY DEF ReserveNew
<1>3. /\ call \in [Threads -> Calls] /\ base \in [Index -> Nat] /\ used \in [Index -> 0 .. PoolSize]
      /\ count \in Nat /\ MaxPools \in Nat /\ PoolSize \in Nat /\ r \in Nat /\ NearRange \in Nat
  BY PoolAssumption DEF IInv, TypeOK
<1>4. /\ i \in Index /\ i \notin Pools /\ Pools \subseteq Index /\ Pools' = Pools \cup {i}
      /\ base'[i] = r /\ used'[i] = 0
      /\ \A j \in Pools : base'[j] = base[j] /\ used'[j] = used[j]
  BY <1>1, <1>2, <1>3 DEF Pools, Index
<1>5. call[t].size \in Nat /\ call[t].size > 0 /\ call[t].target \in Nat
  BY <1>2, <1>3, PoolAssumption DEF IInv, AsksForSomething, At, Calls
<1>6. \A u \in Threads \ {t} : call'[u] = call[u]
  BY <1>2, <1>3 DEF Reserved
<1>7. /\ call'[t].at = "build" /\ call'[t].pool = i /\ call'[t].size = call[t].size
      /\ call'[t].target = call[t].target /\ call'[t] \in Calls
  <2>1. i \in Nat
    BY <1>3
  <2>. QED
    BY <2>1, <1>2, <1>3 DEF Reserved, Calls
<1>8. \A u \in Threads \ {t} : call[u].at \notin {"build", "commit"}
  BY <1>2, OthersHoldNothing DEF Holding, At
<1>9. TypeOK'
  <2>1. call' \in [Threads -> Calls]
    BY <1>2, <1>3, <1>6, <1>7 DEF Reserved
  <2>2. base' \in [Index -> Nat] /\ used' \in [Index -> 0 .. PoolSize] /\ count' \in 0 .. MaxPools
    BY <1>1, <1>2, <1>3, <1>4
  <2>3. \A j \in Index : used'[j] % 16 = 0
    BY <1>2, <1>3, <1>4 DEF IInv, TypeOK
  <2>. QED
    BY <2>1, <2>2, <2>3, <1>2 DEF IInv, TypeOK
<1>10. LockIsHeld' /\ AsksForSomething'
  BY <1>2, <1>6, <1>7 DEF IInv, LockIsHeld, Holding, AsksForSomething, At
<1>11. PoolsApart'
  BY <1>1, <1>4 DEF IInv, PoolsApart
<1>12. BelowMark' /\ InReach'
  BY <1>2, <1>4 DEF IInv, BelowMark, InReach
<1>13. FitsAndReaches'
  <2>. SUFFICES ASSUME NEW u \in Threads, call'[u].at \in {"build", "commit"}
                PROVE  /\ call'[u].pool \in Pools'
                       /\ call'[u].size > 0
                       /\ used'[call'[u].pool] + call'[u].size <= PoolSize
                       /\ Distance(base'[call'[u].pool], call'[u].target) <= NearRange
    BY DEF FitsAndReaches, Distance
  <2>1. u = t
    BY <1>6, <1>8
  <2>. QED
    BY <2>1, <1>1, <1>2, <1>3, <1>4, <1>5, <1>7
<1>14. BlocksApart'
  <2>1. ASSUME NEW b \in blocks
        PROVE  b.to <= r \/ r + call[t].size <= b.from
    <3>1. /\ b.pool \in Pools /\ base[b.pool] <= b.from
          /\ b.to <= base[b.pool] + used[b.pool]
          /\ b.from \in Nat /\ b.to \in Nat
      BY DEF IInv, BelowMark, TypeOK
    <3>2. /\ base[b.pool] \in Regions /\ base[b.pool] # r
          /\ base[b.pool] \in Nat /\ used[b.pool] \in 0 .. PoolSize
      BY <3>1, <1>1, <1>3, <1>4 DEF IInv, PoolsApart
    <3>3. base[b.pool] + PoolSize <= r \/ r + PoolSize <= base[b.pool]
      <4>1. base[b.pool] < r \/ r < base[b.pool]
        BY <3>2, <1>3
      <4>. QED
        BY <4>1, <3>2, PoolAssumption
    <3>. QED
      BY <3>1, <3>2, <3>3, <1>2, <1>3, <1>5
  <2>2. Block(t)'.from = r /\ Block(t)'.to = r + call[t].size
    BY <1>3, <1>4, <1>5, <1>7 DEF Block
  <2>3. \A b \in blocks : Apart(b, Block(t)')
    BY <2>1, <2>2 DEF Apart
  <2>. QED
    BY <2>3, <1>2, <1>6, <1>8 DEF IInv, BlocksApart, Apart, Block
<1>. QED
  BY <1>9, <1>10, <1>11, <1>12, <1>13, <1>14 DEF IInv

LEMMA BuildHolds == ASSUME IInv, NEW t \in Threads, Build(t) PROVE IInv'
<1>1. /\ UNCHANGED <<base, used, count, lock, blocks>> /\ call[t].at = "build"
      /\ call \in [Threads -> Calls]
  BY DEF Build, At, IInv, TypeOK
<1>2. /\ call[t].pool \in Pools /\ call[t].size \in Sizes /\ call[t].size \in Nat
      /\ used[call[t].pool] \in Nat /\ PoolSize \in Nat
      /\ used[call[t].pool] + call[t].size <= PoolSize
  <2>1. call[t].pool \in Index
    BY <1>1, PoolAssumption DEF IInv, FitsAndReaches, Pools, Index, TypeOK
  <2>2. used[call[t].pool] \in Nat
    BY <2>1, <1>1, PoolAssumption DEF IInv, TypeOK
  <2>3. call[t].size \in Sizes
    BY <1>1 DEF IInv, AsksForSomething
  <2>. QED
    BY <2>2, <2>3, <1>1, PoolAssumption DEF IInv, FitsAndReaches
<1>3. CASE Goes(t, "commit") \/ Goes(t, "unlock")
  <2>1. TypeOK'
    BY SMTT(30), <1>1, <1>3 DEF IInv, TypeOK, Goes, Calls
  <2>2. LockIsHeld' /\ AsksForSomething' /\ FitsAndReaches'
    BY <1>1, <1>3 DEF IInv, Goes, Calls, LockIsHeld, Holding, AsksForSomething,
                      FitsAndReaches, Pools, Distance
  <2>. QED
    BY <2>1, <2>2, <1>1, SameReservation DEF IInv
<1>4. CASE \E length \in {n \in Sizes : n <= call[t].size} :
              call' = [call EXCEPT ![t].at = "commit", ![t].size = length]
  <2>1. PICK length \in Sizes :
            /\ length <= call[t].size
            /\ call' = [call EXCEPT ![t].at = "commit", ![t].size = length]
    BY <1>4
  <2>2. length \in Nat /\ length > 0
    BY PoolAssumption
  <2>3. TypeOK'
    BY ZenonT(60), <2>1, <2>2, <1>1 DEF IInv, TypeOK, Calls
  <2>4. LockIsHeld' /\ AsksForSomething'
    BY <2>1, <1>1 DEF IInv, Calls, LockIsHeld, Holding, AsksForSomething
  <2>5. FitsAndReaches'
    BY <2>1, <2>2, <1>1, <1>2 DEF IInv, Calls, FitsAndReaches, Pools, Distance
  <2>. QED
    BY <2>3, <2>4, <2>5, <1>1, SameReservation DEF IInv
<1>. QED
  BY <1>3, <1>4 DEF Build

LEMMA CommitHolds == ASSUME IInv, NEW t \in Threads, Commit(t) PROVE IInv'
<1>. DEFINE i == call[t].pool
            size == call[t].size
<1>1. /\ At(t, "commit") /\ Goes(t, "unlock") /\ UNCHANGED <<base, count, lock>>
      /\ used' = [used EXCEPT ![i] = @ + Round(size)]
      /\ blocks' = blocks \cup {Block(t)}
  BY DEF Commit
<1>2. /\ call \in [Threads -> Calls] /\ base \in [Index -> Nat] /\ used \in [Index -> 0 .. PoolSize]
      /\ \A j \in Index : used[j] % 16 = 0
      /\ PoolSize \in Nat /\ NearRange \in Nat /\ count \in 0 .. MaxPools /\ MaxPools \in Nat
  BY PoolAssumption DEF IInv, TypeOK
<1>3. /\ i \in Pools /\ i \in Index /\ Pools \subseteq Index
      /\ size \in Nat /\ size > 0 /\ call[t].target \in Nat /\ call[t].no \in Nat
      /\ used[i] + size <= PoolSize /\ Distance(base[i], call[t].target) <= NearRange
  <2>1. /\ i \in Pools /\ size > 0 /\ used[i] + size <= PoolSize
        /\ Distance(base[i], call[t].target) <= NearRange
    BY <1>1 DEF IInv, FitsAndReaches, At
  <2>2. Pools \subseteq Index
    BY <1>2 DEF Pools, Index
  <2>3. size \in Nat /\ call[t].target \in Nat /\ call[t].no \in Nat
    BY <1>2 DEF Calls
  <2>. QED
    BY <2>1, <2>2, <2>3
<1>4. /\ Round(size) \in Nat /\ Round(size) >= size
      /\ (used[i] + Round(size)) % 16 = 0 /\ used[i] + Round(size) <= PoolSize
  <2>. HIDE DEF i, size
  <2>1. used[i] \in Nat /\ used[i] % 16 = 0
    BY <1>2, <1>3
  <2>. QED
    BY <2>1, <1>3, RoundFits
<1>5. /\ \A u \in Threads \ {t} : call'[u] = call[u]
      /\ call'[t] = [call[t] EXCEPT !.at = "unlock"]
      /\ call'[t].at = "unlock" /\ call'[t].size = size /\ call'[t] \in Calls
  BY <1>1, <1>2 DEF Goes, Calls
<1>6. \A u \in Threads : call'[u].at \notin {"build", "commit"}
  <2>1. \A u \in Threads \ {t} : call[u].at \notin {"build", "commit"}
    BY <1>1, OthersHoldNothing DEF Holding, At
  <2>. QED
    BY <2>1, <1>5
<1>7. /\ Block(t).pool = i /\ Block(t).target = call[t].target
      /\ Block(t).from = base[i] + used[i] /\ Block(t).to = base[i] + used[i] + size
      /\ Block(t) \in [by : Threads, no : Nat, target : Nat, pool : Index, from : Nat, to : Nat]
  <2>1. base[i] \in Nat /\ used[i] \in Nat
    BY <1>2, <1>3
  <2>. QED
    BY <2>1, <1>3 DEF Block
<1>8. TypeOK'
  <2>1. used' \in [Index -> 0 .. PoolSize] /\ \A j \in Index : used'[j] % 16 = 0
    BY <1>1, <1>2, <1>3, <1>4
  <2>2. call' \in [Threads -> Calls]
    BY <1>1, <1>2, <1>5 DEF Goes
  <2>3. blocks' \subseteq [by : Threads, no : Nat, target : Nat, pool : Index, from : Nat, to : Nat]
    BY <1>1, <1>7 DEF IInv, TypeOK
  <2>. QED
    BY <2>1, <2>2, <2>3, <1>1 DEF IInv, TypeOK
<1>9. LockIsHeld' /\ AsksForSomething'
  BY <1>1, <1>5 DEF IInv, LockIsHeld, Holding, AsksForSomething, At
<1>10. PoolsApart' /\ FitsAndReaches'
  BY <1>1, <1>6 DEF IInv, PoolsApart, Pools, FitsAndReaches
<1>11. BlocksApart'
  <2>1. \A b \in blocks : Apart(b, Block(t))
    BY <1>1 DEF IInv, BlocksApart, At
  <2>2. \A b, c \in blocks : b # c => Apart(b, c)
    BY DEF IInv, BlocksApart
  <2>. QED
    BY <2>1, <2>2, <1>1, <1>6 DEF BlocksApart, Apart
<1>12. InReach'
  <2>1. base[i] \in Nat /\ used[i] \in Nat
    BY <1>2, <1>3
  <2>2. /\ Block(t).from + NearRange >= Block(t).target
        /\ Block(t).to <= Block(t).target + NearRange + PoolSize
    BY <2>1, <1>2, <1>3, <1>7 DEF Distance
  <2>. QED
    BY <2>2, <1>1 DEF IInv, InReach
<1>13. BelowMark'
  <2>. SUFFICES ASSUME NEW b \in blocks'
                PROVE  /\ b.pool \in Pools
                       /\ base[b.pool] <= b.from
                       /\ b.to <= base[b.pool] + used'[b.pool]
    BY <1>1 DEF BelowMark, Pools
  <2>1. base[i] \in Nat /\ used[i] \in Nat /\ used'[i] = used[i] + Round(size)
    BY <1>1, <1>2, <1>3
  <2>2. CASE b = Block(t)
    BY <2>1, <2>2, <1>3, <1>4, <1>7
  <2>3. CASE b \in blocks
    <3>1. /\ b.pool \in Pools /\ base[b.pool] <= b.from
          /\ b.to <= base[b.pool] + used[b.pool] /\ b.to \in Nat
      BY <2>3 DEF IInv, BelowMark, TypeOK
    <3>2. base[b.pool] \in Nat /\ used[b.pool] \in Nat /\ used'[b.pool] \in Nat
      BY <3>1, <1>1, <1>2, <1>3, <1>4
    <3>3. used'[b.pool] >= used[b.pool]
      BY <2>1, <3>1, <3>2, <1>1, <1>2, <1>3, <1>4
    <3>. QED
      BY <3>1, <3>2, <3>3
  <2>. QED
    BY <2>2, <2>3, <1>1
<1>. QED
  BY <1>8, <1>9, <1>10, <1>11, <1>12, <1>13 DEF IInv

-----------------------------------------------------------------------------
LEMMA StutterHolds == ASSUME IInv, UNCHANGED vars PROVE IInv'
BY DEF IInv, vars, TypeOK, BlocksApart, Apart, Block, InReach, LockIsHeld, Holding, PoolsApart,
       Pools, BelowMark, FitsAndReaches, Distance, AsksForSomething

(* The invariant is inductive. *)
LEMMA Inductive == IInv /\ [Next]_vars => IInv'
<1>. SUFFICES ASSUME IInv, [Next]_vars PROVE IInv'
  OBVIOUS
<1>1. ASSUME NEW t \in Threads,
             \/ Start(t) \/ Lock(t) \/ ReserveOld(t) \/ ReserveNew(t) \/ ReserveFails(t)
             \/ Build(t) \/ Commit(t) \/ Unlock(t)
      PROVE  IInv'
  BY <1>1, StartHolds, LockHolds, ReserveOldHolds, ReserveNewHolds, ReserveFailsHolds,
     BuildHolds, CommitHolds, UnlockHolds
<1>2. CASE UNCHANGED vars
  BY <1>2, StutterHolds
<1>. QED
  BY <1>1, <1>2 DEF Next

LEMMA Invariance == Spec => []IInv
<1>1. Init => IInv
  BY InitHolds
<1>2. IInv /\ [Next]_vars => IInv'
  BY Inductive
<1>. QED
  BY <1>1, <1>2, PTL DEF Spec

(* The members keep their types and no pool is overdrawn: what is reserved  *)
(* fits, also after its size is rounded up to a multiple of 16.             *)
THEOREM TypeCorrect == Spec => []TypeOK
<1>1. IInv => TypeOK
  BY DEF IInv
<1>. QED
  BY <1>1, Invariance, PTL

(* Whatever threads ask for, no two blocks share a byte, and no trampoline  *)
(* is built over another thread's block.                                    *)
THEOREM NoByteTwice == Spec => []BlocksApart
<1>1. IInv => BlocksApart
  BY DEF IInv
<1>. QED
  BY <1>1, Invariance, PTL

(* Every block is within kNearRange and one pool of its function, a pool    *)
(* that was mapped for another function too.                                *)
THEOREM AlwaysInReach == Spec => []InReach
<1>1. IInv => InReach
  BY DEF IInv
<1>. QED
  BY <1>1, Invariance, PTL
=============================================================================
