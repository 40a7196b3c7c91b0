------------------------- MODULE HookEngine_proofs -------------------------
(***************************************************************************)
(* Proofs about HookEngine: for any game, any number of its threads and    *)
(* any table of hooks, a thread inside the plugin's handler has the        *)
(* library and the pipe under it until the shutdown gives up waiting, and  *)
(* nobody runs code that is half-written.                                  *)
(*                                                                         *)
(* The argument is the one the stub is written for.  A thread counts       *)
(* itself before it looks whether the engine is disabled, so the counter   *)
(* is never less than the number of threads between the two countings; the *)
(* shutdown disables first and waits for the counter then.  Once it has    *)
(* seen zero nobody is inside, and nobody who counts later gets past the   *)
(* look.  What follows the wait (the pipe, the unmapping) adds nothing but *)
(* the order of the shutdown's steps.                                      *)
(*                                                                         *)
(* The code.  An installer keeps to the function it has reserved, one      *)
(* thread at most scans for functions, and the two-byte loop is written    *)
(* over by the jump or the saved bytes in the same call.  As long as       *)
(* installations did not meet, a function has its own code, is in the      *)
(* table with it, or is the one being patched.                             *)
(***************************************************************************)
EXTENDS HookEngine, FiniteSetTheorems, TLAPS

Positions ==
    {"out", "entry", "inner", "stub", "counted", "handler", "sending", "scan", "leave", "crashed"}
Phases ==
    {"init", "up", "restore", "drain", "drop", "close", "unmap", "gone", "crashed"}

Types ==
    /\ th \in [Threads -> [at : Positions, func : Funcs \cup {None}]]
    /\ lib \in [at : Phases, i : Nat]
    /\ inflight \in Nat

(* The threads between lock inc and lock dec. *)
CountedAt == {"counted", "handler", "sending", "scan", "leave"}
Counted == {t \in Threads : th[t].at \in CountedAt}

NobodyInside == \A t \in Threads : ~InHandler(t)

(* The shutdown tells the stubs before anything else, and deletes the pipe  *)
(* last. *)
ShutdownOrder ==
    /\ lib.at \in {"restore", "drain", "drop", "close", "unmap", "gone"} => disabled
    /\ pipe = "deleted" => lib.at \in {"unmap", "gone", "crashed"} /\ ~gaveUp
    /\ ~mapped => lib.at \in {"gone", "crashed"}

(* After the wait, unless it was given up, nobody is inside. *)
Drained == lib.at \in {"drop", "close", "unmap", "gone"} \/ ~mapped \/ pipe = "deleted"

IInv ==
    /\ Types
    /\ Cardinality(Counted) <= inflight
    /\ ShutdownOrder
    /\ Drained /\ ~gaveUp => disabled /\ NobodyInside

-----------------------------------------------------------------------------
LEMMA CountedIsFinite == IsFiniteSet(Counted) /\ Cardinality(Counted) \in Nat
<1>1. IsFiniteSet(Threads) /\ Counted \subseteq Threads
  BY EngineAssumption DEF Counted
<1>. QED
  BY <1>1, FS_Subset, FS_CardinalityType
(* The counter is not zero while somebody is counted. *)
LEMMA SomeoneCounted ==
    ASSUME IInv, NEW t \in Counted
    PROVE  inflight >= 1
<1>1. Cardinality(Counted) # 0
  BY CountedIsFinite, FS_EmptySet
<1>. QED
  BY <1>1, CountedIsFinite DEF IInv, Types

(* What a step of one thread does to the number of those inside. *)
LEMMA CountOfStep ==
    ASSUME NEW t \in Threads, \A u \in Threads \ {t} : th'[u] = th[u]
    PROVE  Cardinality(Counted') = IF t \in Counted' \ Counted THEN Cardinality(Counted) + 1
                                   ELSE IF t \in Counted \ Counted' THEN Cardinality(Counted) - 1
                                   ELSE Cardinality(Counted)
<1>1. CASE t \in Counted' \ Counted
  <2>1. Counted' = Counted \cup {t}
    BY <1>1 DEF Counted
  <2>. QED
    BY <1>1, <2>1, CountedIsFinite, FS_AddElement
<1>2. CASE t \in Counted \ Counted'
  <2>1. Counted' = Counted \ {t}
    BY <1>2 DEF Counted
  <2>. QED
    BY <1>2, <2>1, CountedIsFinite, FS_RemoveElement
<1>3. CASE t \notin Counted' \ Counted /\ t \notin Counted \ Counted'
  <2>1. Counted' = Counted
    BY <1>3 DEF Counted
  <2>. QED
    BY <1>3, <2>1
<1>. QED
  BY <1>1, <1>2, <1>3

(* A thread that moves keeps the invariant if it does not get in uncounted, *)
(* nor into the handler of a disabled engine.                               *)
LEMMA ThreadMoves ==
    ASSUME IInv, NEW t \in Threads, NEW step \in Positions,
           \/ th' = [th EXCEPT ![t].at = step]
           \/ step = "out" /\ th' = [th EXCEPT ![t] = Out]
           \/ step = "entry" /\ \E f \in Funcs : th' = [th EXCEPT ![t] = [at |-> "entry", func |-> f]],
           \/ inflight' = inflight + 1
           \/ inflight' = inflight /\ (step \in CountedAt => t \in Counted)
           \/ inflight' = inflight - 1 /\ t \in Counted /\ step \notin CountedAt,
           step \in {"handler", "sending", "scan"} => InHandler(t) \/ ~disabled,
           UNCHANGED <<lib, disabled, pipe, mapped, gaveUp>>
    PROVE  IInv'
<1>1. th'[t].at = step /\ \A u \in Threads \ {t} : th'[u] = th[u]
  BY DEF IInv, Types, Out
<1>2. Types'
  <2>1. th' \in [Threads -> [at : Positions, func : Funcs \cup {None}]]
    BY DEF IInv, Types, Positions, Out
  <2>2. t \in Counted => inflight - 1 \in Nat
    BY SomeoneCounted DEF IInv, Types
  <2>. QED
    BY <2>1, <2>2 DEF IInv, Types
<1>3. Cardinality(Counted') <= inflight'
  <2>1. t \in Counted' <=> step \in CountedAt
    BY <1>1 DEF Counted
  <2>2. Cardinality(Counted) \in Nat /\ inflight \in Nat /\ Cardinality(Counted) <= inflight
    BY CountedIsFinite DEF IInv, Types
  <2>3. Cardinality(Counted') = IF t \in Counted' \ Counted THEN Cardinality(Counted) + 1
                                ELSE IF t \in Counted \ Counted' THEN Cardinality(Counted) - 1
                                ELSE Cardinality(Counted)
    BY <1>1, CountOfStep
  <2>. QED
    BY <2>1, <2>2, <2>3
<1>4. ShutdownOrder'
  BY DEF IInv, ShutdownOrder
<1>5. (Drained /\ ~gaveUp => disabled /\ NobodyInside)'
  BY <1>1 DEF IInv, Drained, NobodyInside, InHandler
<1>. QED
  BY <1>2, <1>3, <1>4, <1>5 DEF IInv

(* A call into a function. *)
LEMMA CallKeeps ==
    ASSUME IInv, NEW t \in Threads, NEW f \in Funcs, Call(t, f)
    PROVE  IInv'
<1>1. inflight \in Nat /\ t \notin Counted
  BY DEF IInv, Types, Call, Counted, CountedAt
<1>. QED
  BY <1>1, ThreadMoves DEF Call, state, plugin, Positions, CountedAt

(* The code of a function, its own or the jump's: before the counting. *)
LEMMA FetchKeeps ==
    ASSUME IInv, NEW t \in Threads, Fetch(t) \/ FetchInner(t)
    PROVE  IInv'
<1>1. inflight \in Nat /\ t \notin Counted
  BY DEF IInv, Types, Fetch, FetchInner, Counted, CountedAt
<1>2. UNCHANGED <<lib, inflight, disabled, pipe, mapped, gaveUp>>
  BY DEF Fetch, FetchInner, state, plugin
<1>3. \/ \E step \in {"stub", "crashed", "inner"} : th' = [th EXCEPT ![t].at = step]
      \/ th' = [th EXCEPT ![t] = Out]
  BY DEF Fetch, FetchInner, Goes
<1>. QED
  BY <1>1, <1>2, <1>3, ThreadMoves DEF Positions, CountedAt

(* The stub counts first and looks then. *)
LEMMA EnterKeeps ==
    ASSUME IInv, NEW t \in Threads, Enter(t)
    PROVE  IInv'
<1>1. inflight \in Nat
  BY DEF IInv, Types
<1>2. CASE th[t].at = "stub"
  <2>1. t \notin Counted
    BY <1>2 DEF Counted, CountedAt
  <2>2. inflight' = inflight + 1 /\ th' = [th EXCEPT ![t].at = "counted"]
    BY <1>2 DEF Enter, Goes
  <2>. QED
    BY <1>1, <2>1, <2>2, ThreadMoves DEF Enter, plugin, Positions, CountedAt
<1>3. CASE th[t].at = "counted"
  <2>1. t \in Counted
    BY <1>3 DEF Counted, CountedAt
  <2>2. /\ inflight' = inflight
        /\ \/ disabled /\ th' = [th EXCEPT ![t].at = "leave"]
           \/ ~disabled /\ th' = [th EXCEPT ![t].at = "handler"]
    BY <1>3 DEF Enter, Goes, Leaves
  <2>. QED
    BY <1>1, <2>1, <2>2, ThreadMoves DEF Enter, plugin, Positions, CountedAt
<1>. QED
  BY <1>2, <1>3 DEF Enter

(* The handler: a thread in it stays counted until it leaves. *)
LEMMA HandlerKeeps ==
    ASSUME IInv, NEW t \in Threads, Handle(t) \/ Sent(t) \/ Trigger(t) \/ Scan(t) \/ Faults(t)
    PROVE  IInv'
<1>1. inflight \in Nat
  BY DEF IInv, Types
<1>2. InHandler(t) /\ t \in Counted
  BY DEF Handle, Sent, Trigger, Scan, Faults, InHandler, Counted, CountedAt
<1>3. UNCHANGED <<lib, inflight, disabled, pipe, mapped, gaveUp>>
  BY DEF Handle, Sent, Trigger, Scan, Faults, state, plugin
<1>4. \/ \E step \in {"leave", "sending", "scan", "crashed"} : th' = [th EXCEPT ![t].at = step]
      \/ UNCHANGED th
  BY DEF Handle, Sent, Trigger, Scan, Faults, Goes, Leaves
<1>5. CASE UNCHANGED th
  BY <1>3, <1>5 DEF IInv, Types, Counted, ShutdownOrder, Drained, NobodyInside, InHandler
<1>. QED
  BY <1>1, <1>2, <1>3, <1>4, <1>5, ThreadMoves DEF Positions, CountedAt

(* It counts itself out. *)
LEMMA LeaveKeeps ==
    ASSUME IInv, NEW t \in Threads, Leave(t)
    PROVE  IInv'
<1>1. t \in Counted
  BY DEF Leave, Counted, CountedAt
<1>. QED
  BY <1>1, ThreadMoves DEF Leave, plugin, Positions, CountedAt

(* Installing touches nothing the invariant is about. *)
LEMMA InstallKeeps ==
    ASSUME IInv, NEW p, Install(p)
    PROVE  IInv'
<1>1. UNCHANGED <<state, plugin, lib, th, gaveUp>>
  BY DEF Install, Check, Record, Save, Patch, LoadCount, StoreCount
<1>. QED
  BY <1>1 DEF IInv, Types, Counted, ShutdownOrder, Drained, NobodyInside, InHandler, state, plugin

(* The library's thread. *)
LEMMA LibKeeps ==
    ASSUME IInv, InstallNext \/ Disable \/ Unload
    PROVE  IInv'
<1>1. UNCHANGED <<th, inflight>> /\ Counted' = Counted
  BY DEF InstallNext, Disable, Unload, RestoreNext, WriteNowhere, Drain, Drop, Close, Unmap,
         state, Counted
<1>2. Types'
  BY <1>1 DEF IInv, Types, Phases, InstallNext, Disable, Unload, RestoreNext, WriteNowhere,
              Drain, Drop, Close, Unmap
<1>3. ShutdownOrder'
  BY DEF IInv, Types, ShutdownOrder, InstallNext, Disable, Unload, RestoreNext, WriteNowhere,
         Drain, Drop, Close, Unmap, state, plugin
<1>4. (Drained /\ ~gaveUp => disabled /\ NobodyInside)'
  <2>1. CASE Drain /\ inflight = 0
    <3>1. Cardinality(Counted) = 0
      BY <2>1, CountedIsFinite DEF IInv
    <3>2. Counted = {}
      BY <3>1, CountedIsFinite, FS_EmptySet
    <3>3. NobodyInside
      BY <3>2 DEF NobodyInside, InHandler, Counted, CountedAt
    <3>. QED
      BY <1>1, <2>1, <3>3 DEF IInv, ShutdownOrder, Drain, NobodyInside, InHandler
  <2>2. CASE Drain /\ inflight # 0
    BY <2>2 DEF Drain
  <2>3. CASE ~Drain
    <3>1. /\ Drained' => Drained
          /\ gaveUp' = gaveUp
          /\ disabled => disabled'
      BY <2>3 DEF IInv, Types, Drained, InstallNext, Disable, Unload, RestoreNext, WriteNowhere,
                  Drop, Close, Unmap, state, plugin
    <3>. QED
      BY <1>1, <3>1 DEF IInv, NobodyInside, InHandler
  <2>. QED
    BY <2>1, <2>2, <2>3
<1>. QED
  BY <1>1, <1>2, <1>3, <1>4 DEF IInv

LEMMA NextKeeps == IInv /\ [Next]_vars => IInv'
<1>1. ASSUME IInv, NEW t \in Threads, Runs(t) PROVE IInv'
  BY <1>1, FetchKeeps, EnterKeeps, HandlerKeeps, InstallKeeps, LeaveKeeps DEF Runs
<1>2. ASSUME IInv, NEW t \in Threads, NEW f \in Funcs, Call(t, f) PROVE IInv'
  BY <1>2, CallKeeps
<1>3. ASSUME IInv, Install(Lib) \/ InstallNext \/ Disable \/ Unload PROVE IInv'
  BY <1>3, InstallKeeps, LibKeeps
<1>4. ASSUME IInv, UNCHANGED vars PROVE IInv'
  BY <1>4 DEF vars, state, plugin, IInv, Types, Counted, ShutdownOrder, Drained, NobodyInside, InHandler
<1>. QED
  BY <1>1, <1>2, <1>3, <1>4 DEF Next

LEMMA InitHolds == Init => IInv
<1>. SUFFICES ASSUME Init PROVE IInv
  OBVIOUS
<1>1. Types
  BY DEF Init, Types, Positions, Phases, Out
<1>2. Counted = {}
  BY DEF Init, Counted, CountedAt, Out
<1>3. Cardinality(Counted) <= inflight
  BY <1>2, FS_EmptySet DEF Init
<1>4. ShutdownOrder /\ ~Drained
  BY DEF Init, ShutdownOrder, Drained
<1>. QED
  BY <1>1, <1>3, <1>4 DEF IInv

-----------------------------------------------------------------------------
(* The counting of the stub holds whatever the threads and the shutdown do: *)
(* the shutdown never takes a thread that is inside for one that is out.    *)
THEOREM CountingHolds == Spec => []IInv
  BY InitHolds, NextKeeps, PTL DEF Spec

(* A game thread in the library's handler has the library under it, unless  *)
(* the shutdown gave up waiting, and one that sends has its pipe, even then *)
(* (the stub's lock inc and compare, hook_engine_shutdown, cleanup).        *)
THEOREM InsideIsSafeEverywhere == Spec => []InsideIsSafe
<1>1. IInv => InsideIsSafe
  BY DEF IInv, ShutdownOrder, Drained, NobodyInside, InsideIsSafe, HandlerHasLibrary,
         SenderHasPipe, InHandler
<1>. QED
  BY <1>1, CountingHolds, PTL
-----------------------------------------------------------------------------
(* What the code of the functions is, whoever patches it.                   *)
(*                                                                          *)
(* Who installs what: at most one game thread looks for methods at a time,  *)
(* and each method is tried once; the library's thread has the natives,     *)
(* and later what it finds in the table.                                    *)

NativeSet == {Natives[i] : i \in DOMAIN Natives}
Hooked == {None} \cup NativeSet \cup tried
Codes == Funcs \cup {None, "jmp", "spin"}
Steps ==
    {"idle", "check", "record", "orig", "spin", "tail", "head", "load", "store", "restored"}
Actors == Threads \cup {Lib}

Typed ==
    /\ head \in [Funcs -> Codes] /\ tail \in [Funcs -> Codes]
    /\ hooks \in [Records -> [target : Funcs \cup {None}, orig : Codes \X Codes]]
    /\ count \in Nat /\ tried \subseteq Methods
    /\ ins \in [Actors -> [at : Steps, func : Funcs \cup {None}, bytes : Codes \X Codes,
                           idx : Nat, n : Nat]]

Roles ==
    /\ \A t, u \in Threads : th[t].at = "scan" /\ th[u].at = "scan" => t = u
    /\ \A t \in Threads : th[t].at = "scan" => busy
    /\ \A t \in Threads : ins[t].at # "idle" =>
          /\ th[t].at = "scan" /\ ins[t].at # "restored"
          /\ ins[t].func \in tried /\ ins[t].bytes = Jmp
    /\ ins[Lib].at # "idle" =>
          \/ /\ lib.at = "init" /\ ins[Lib].at # "restored"
             /\ ins[Lib].func \in NativeSet /\ ins[Lib].bytes = Jmp
          \/ lib.at = "restore" /\ ins[Lib].at \in {"spin", "tail", "head", "restored"}
    /\ ins[Lib].func \in Hooked /\ (ins[Lib].at = "idle" => ins[Lib].func = None)
    /\ \A i \in Records : hooks[i].target \in Hooked
    /\ gaveUp => lib.at \in {"drop", "close", "unmap", "gone"}
    /\ lib.at = "init" => lib.i >= 1

(* It has found room and not counted its record yet; the library's thread   *)
(* that takes hooks out is no installer.                                    *)
Installs(p) == Recording(p) /\ (p = Lib => lib.at = "init")

(* Two installers can fill the table by one record too many, and no more.   *)
Counts ==
    /\ count <= MaxHooks + 1
    /\ \A p \in Actors : Installs(p) => count <= MaxHooks
    /\ \A p \in Actors : Installs(p) /\ ins[p].at = "store" =>
          /\ ins[p].n <= MaxHooks + 1
          /\ ins[p].n = MaxHooks + 1 => lib.at # "init" \/ count >= MaxHooks
    /\ \A p, q \in Actors : p # q /\ Installs(p) /\ Installs(q) =>
          /\ count < MaxHooks
          /\ ins[p].at = "store" => ins[p].n <= MaxHooks

Ground == Typed /\ Roles /\ Counts

(* A method is in the table where its installer has put it, and the loop is *)
(* never saved as somebody's own code where it would be restored from.      *)
Recorded == {"orig", "spin", "tail", "head", "load", "store"}

Entered ==
    /\ \A t \in Threads : ins[t].at \in {"check", "record"} =>
          /\ ins[Lib].func # ins[t].func
          /\ \A i \in Records : hooks[i].target # ins[t].func
    /\ \A t \in Threads : ins[t].at \in Recorded =>
          /\ \A i \in Records : hooks[i].target = ins[t].func => i = ins[t].idx
          /\ lib.at = "restore" /\ ins[Lib].func = ins[t].func => ins[t].idx < lib.i

LoopIsNotSaved ==
    /\ \A p \in Actors : ins[p].at # "idle" => ins[p].bytes[1] # "spin"
    /\ \A i \in Records : hooks[i].orig[1] = "spin" =>
          lib.at \notin {"init", "up"} /\ (lib.at = "restore" => i < lib.i)

LoopIsLeft ==
    \A f \in Funcs : head[f] = "spin" =>
       \/ \E p \in Actors : ins[p].func = f /\ ins[p].at \in {"tail", "head"}
       \/ gaveUp

Loops == Entered /\ LoopIsNotSaved /\ LoopIsLeft

(* As long as installations do not meet, every function has its own code,   *)
(* or is in the table with it, or is the one being patched.                 *)
Own(f) == head[f] = f /\ tail[f] = f
InTable(f, i) == \E j \in Records : i <= j /\ j < count /\ hooks[j].target = f

Placed(p) ==
    LET f == ins[p].func IN
    /\ ~InTable(f, 0)
    /\ ins[p].at # "record" => ins[p].idx = count /\ hooks[count].target = f
    /\ ins[p].at \in {"spin", "tail", "head", "load", "store"} => hooks[count].orig = <<f, f>>
    /\ ins[p].at \in {"tail", "head"} => head[f] = "spin"
    /\ ins[p].at = "head" => tail[f] = "jmp"
    /\ ins[p].at = "store" => ins[p].n = count + 1

Building ==
    /\ \A p, q \in Actors : Recording(p) /\ Recording(q) => p = q
    /\ \A p \in Actors : Recording(p) => Placed(p)
    /\ \A f \in Funcs :
          \/ Own(f) \/ InTable(f, 0)
          \/ \E p \in Actors : ins[p].func = f /\ ins[p].at \in {"tail", "head", "load", "store"}

Restoring ==
    LET f == ins[Lib].func IN
    /\ ins[Lib].at \in {"spin", "tail", "head"} => f \in Funcs /\ ins[Lib].bytes = <<f, f>>
    /\ ins[Lib].at \in {"tail", "head"} => head[f] = "spin"
    /\ ins[Lib].at = "head" => tail[f] = f
    /\ \A g \in Funcs :
          Own(g) \/ InTable(g, lib.i) \/ (g = f /\ ins[Lib].at \in {"spin", "tail", "head"})

TableIsWhole ==
    \A i \in Records : i < count =>
       hooks[i].target \in Funcs /\ hooks[i].orig = <<hooks[i].target, hooks[i].target>>

(* What a thread that runs into a function meets. *)
Legible == \A f \in Funcs : head[f] = "spin" \/ Own(f) \/ (head[f] = "jmp" /\ tail[f] = "jmp")

Unraced ==
    /\ lib.at # "crashed"
    /\ lib.at \in {"init", "up"} => Building
    /\ lib.at \notin {"init", "up"} => \A t \in Threads : ins[t].at \in {"idle", "check", "record"}
    /\ lib.at \in {"init", "up", "restore"} => TableIsWhole
    /\ lib.at = "restore" => Restoring
    /\ lib.at \in {"drain", "drop", "close", "unmap", "gone"} => \A f \in Funcs : Own(f)
    /\ Legible

Crashes ==
    /\ \A t \in Threads : th[t].at = "entry" => th[t].func \in Funcs
    /\ \A t \in Threads : th[t].at = "inner" => th[t].func \in Inner
    /\ ~raced => \A t \in Threads : th[t].at = "crashed" => gaveUp \/ th[t].func \in Inner

Whole == (~raced => Unraced) /\ Crashes
-----------------------------------------------------------------------------
(* What the steps of an installation do.                                    *)

LEMMA Names ==
    /\ Lib \in Actors /\ Lib \notin Threads /\ Threads \subseteq Actors
    /\ Actors \ {Lib} = Threads
    /\ None \notin Funcs /\ None \notin {"jmp", "spin"}
    /\ "jmp" \notin Funcs /\ "spin" \notin Funcs
    /\ NativeSet \subseteq Funcs /\ Methods = Funcs \ NativeSet
    /\ MaxHooks \in Nat /\ MaxHooks >= 1
<1>1. \A i \in DOMAIN Natives : Natives[i] \in Funcs
  BY EngineAssumption
<1>. QED
  BY <1>1, EngineAssumption DEF Actors, NativeSet, Methods

LEMMA IdleIsTyped ==
    /\ Idle \in [at : Steps, func : Funcs \cup {None}, bytes : Codes \X Codes, idx : Nat, n : Nat]
    /\ Idle.at = "idle" /\ Idle.func = None /\ Idle.bytes = Jmp
    /\ Jmp \in Codes \X Codes /\ Jmp[1] = "jmp" /\ Jmp[2] = "jmp"
BY DEF Idle, Jmp, Codes, Steps

Same(p, q) == q.func = p.func /\ q.bytes = p.bytes
Alike(p, q) == Same(p, q) /\ q.idx = p.idx /\ q.n = p.n

LEMMA CheckDoes ==
    ASSUME Typed, NEW p \in Actors, Check(p)
    PROVE  /\ ins[p].at = "check"
           /\ \A q \in Actors \ {p} : ins'[q] = ins[q]
           /\ \/ /\ ready /\ count < MaxHooks
                 /\ \A i \in 0 .. count - 1 : hooks[i].target # ins[p].func
                 /\ ins'[p] = [ins[p] EXCEPT !.at = "record"]
                 /\ ins'[p].at = "record" /\ Alike(ins[p], ins'[p])
                 /\ raced' = (raced \/ \E q \in Actors \ {p} : Recording(q))
              \/ ins'[p] = Idle /\ raced' = raced
           /\ UNCHANGED <<head, tail, hooks, count, busy, tried, mapped, lib, th, gaveUp>>
<1>1. DOMAIN ins = Actors
  BY DEF Typed
<1>. QED
  BY <1>1 DEF Typed, Check, Installing, code, table, state, plugin, Alike, Same

LEMMA RecordDoes ==
    ASSUME Typed, NEW p \in Actors, Record(p)
    PROVE  /\ ins[p].at = "record"
           /\ \A q \in Actors \ {p} : ins'[q] = ins[q]
           /\ ins'[p] = [ins[p] EXCEPT !.at = "orig", !.idx = count]
           /\ ins'[p].at = "orig" /\ Same(ins[p], ins'[p]) /\ ins'[p].idx = count /\ ins'[p].n = ins[p].n
           /\ hooks' = [hooks EXCEPT ![count].target = ins[p].func]
           /\ raced' = (raced \/ lib.at \notin {"init", "up"})
           /\ UNCHANGED <<head, tail, count, busy, tried, mapped, lib, th, gaveUp>>
<1>1. ins' = [ins EXCEPT ![p] = [ins[p] EXCEPT !.at = "orig", !.idx = count]]
  BY DEF Typed, Record
<1>. QED
  BY <1>1 DEF Typed, Record, code, state, plugin, Same

LEMMA SaveDoes ==
    ASSUME Typed, NEW p \in Actors, Save(p)
    PROVE  /\ ins[p].at = "orig"
           /\ \A q \in Actors \ {p} : ins'[q] = ins[q]
           /\ ins'[p] = [ins[p] EXCEPT !.at = "spin"]
           /\ ins'[p].at = "spin" /\ Alike(ins[p], ins'[p])
           /\ hooks' = [hooks EXCEPT ![ins[p].idx].orig = <<head[ins[p].func], tail[ins[p].func]>>]
           /\ UNCHANGED <<head, tail, count, busy, tried, mapped, lib, th, gaveUp, raced>>
BY DEF Typed, Save, Installing, code, state, plugin, Alike, Same

LEMMA PatchDoes ==
    ASSUME Typed, NEW p \in Actors, Patch(p)
    PROVE  /\ \A q \in Actors \ {p} : ins'[q] = ins[q]
           /\ \/ /\ ins[p].at = "spin" /\ ins[p].func \in Funcs
                 /\ head' = [head EXCEPT ![ins[p].func] = ins[p].bytes[1]]
                 /\ tail' = [tail EXCEPT ![ins[p].func] = ins[p].bytes[2]]
                 /\ ins'[p].at = Written(p)
              \/ /\ ins[p].at = "spin" /\ ins[p].func \in Funcs
                 /\ head' = [head EXCEPT ![ins[p].func] = "spin"]
                 /\ tail' = tail
                 /\ ins'[p].at = "tail"
              \/ /\ ins[p].at = "tail" /\ head' = head
                 /\ tail' = [tail EXCEPT ![ins[p].func] = ins[p].bytes[2]]
                 /\ ins'[p].at = "head"
              \/ /\ ins[p].at = "head" /\ tail' = tail
                 /\ head' = [head EXCEPT ![ins[p].func] = ins[p].bytes[1]]
                 /\ ins'[p].at = Written(p)
           /\ Alike(ins[p], ins'[p])
           /\ UNCHANGED <<hooks, count, busy, tried, mapped, lib, th, gaveUp, raced>>
<1>1. UNCHANGED <<hooks, count, busy, tried, mapped, lib, th, gaveUp, raced>>
  BY DEF Patch, table, state, plugin
<1>2. OneWord \subseteq Funcs
  BY EngineAssumption
<1>3. \E s \in {"tail", "head", Written(p)} : ins' = [ins EXCEPT ![p].at = s]
  BY DEF Patch, Installing
<1>4. (\A q \in Actors \ {p} : ins'[q] = ins[q]) /\ Alike(ins[p], ins'[p])
  BY <1>3 DEF Typed, Alike, Same
<1>. QED
  BY <1>1, <1>2, <1>4 DEF Typed, Patch, Installing

LEMMA LoadCountDoes ==
    ASSUME Typed, NEW p \in Actors, LoadCount(p)
    PROVE  /\ ins[p].at = "load"
           /\ \A q \in Actors \ {p} : ins'[q] = ins[q]
           /\ ins'[p] = [ins[p] EXCEPT !.at = "store", !.n = count + 1]
           /\ ins'[p].at = "store" /\ Same(ins[p], ins'[p]) /\ ins'[p].idx = ins[p].idx
           /\ ins'[p].n = count + 1
           /\ UNCHANGED <<head, tail, hooks, count, busy, tried, mapped, lib, th, gaveUp, raced>>
<1>1. ins' = [ins EXCEPT ![p] = [ins[p] EXCEPT !.at = "store", !.n = count + 1]]
  BY DEF Typed, LoadCount
<1>. QED
  BY <1>1 DEF Typed, LoadCount, code, table, state, plugin, Same

LEMMA StoreCountDoes ==
    ASSUME Typed, NEW p \in Actors, StoreCount(p)
    PROVE  /\ ins[p].at = "store"
           /\ \A q \in Actors \ {p} : ins'[q] = ins[q]
           /\ ins'[p] = Idle
           /\ count' = ins[p].n
           /\ UNCHANGED <<head, tail, hooks, busy, tried, mapped, lib, th, gaveUp, raced>>
BY DEF Typed, StoreCount, code, state, plugin
LEMMA InstallTyped ==
    ASSUME Typed, Roles, NEW p \in Actors, Install(p)
    PROVE  Typed'
<1>. DEFINE R == [at : Steps, func : Funcs \cup {None}, bytes : Codes \X Codes, idx : Nat, n : Nat]
<1>1. ins \in [Actors -> R] /\ ins[p] \in R /\ Idle \in R
  BY IdleIsTyped DEF Typed
<1>2. tried' = tried
  BY DEF Install, Check, Record, Save, Patch, LoadCount, StoreCount, plugin
<1>8. \A s \in Steps : [ins[p] EXCEPT !.at = s] \in R
  BY <1>1
<1>9. \A n \in Nat : /\ [ins[p] EXCEPT !.at = "orig", !.idx = n] \in R
                     /\ [ins[p] EXCEPT !.at = "store", !.n = n] \in R
  <2>1. "orig" \in Steps /\ "store" \in Steps
    BY DEF Steps
  <2>. QED
    BY <1>1, <2>1
<1>3. \E r \in R : ins' = [ins EXCEPT ![p] = r]
  <2>. HIDE DEF R
  <2>1. \A s \in Steps : [ins[p] EXCEPT !.at = s] \in R
    BY <1>8
  <2>2. \A s \in Steps : [ins EXCEPT ![p].at = s] = [ins EXCEPT ![p] = [ins[p] EXCEPT !.at = s]]
    BY <1>1
  <2>3. CASE Check(p)
    BY <1>1, <2>1, <2>2, <2>3 DEF Check, Installing, Steps
  <2>4. CASE Record(p)
    <3>1. [ins[p] EXCEPT !.at = "orig", !.idx = count] \in R
      BY <1>9 DEF Typed
    <3>2. ins' = [ins EXCEPT ![p] = [ins[p] EXCEPT !.at = "orig", !.idx = count]]
      BY <1>1, <2>4 DEF Record
    <3>. QED
      BY <3>1, <3>2
  <2>5. CASE Save(p)
    BY <1>1, <2>1, <2>2, <2>5 DEF Save, Installing, Steps
  <2>6. CASE Patch(p)
    <3>1. \E s \in {"tail", "head", Written(p)} : ins' = [ins EXCEPT ![p].at = s]
      BY <2>6 DEF Patch, Installing
    <3>2. Written(p) \in Steps
      BY DEF Written, Steps
    <3>. QED
      BY <2>1, <2>2, <3>1, <3>2 DEF Steps
  <2>7. CASE LoadCount(p)
    <3>0. count + 1 \in Nat
      BY DEF Typed
    <3>1. [ins[p] EXCEPT !.at = "store", !.n = count + 1] \in R
      BY <1>9, <3>0
    <3>2. ins' = [ins EXCEPT ![p] = [ins[p] EXCEPT !.at = "store", !.n = count + 1]]
      BY <1>1, <2>7 DEF LoadCount
    <3>. QED
      BY <3>1, <3>2
  <2>8. CASE StoreCount(p)
    BY <1>1, <2>8 DEF StoreCount
  <2>. QED
    BY <2>3, <2>4, <2>5, <2>6, <2>7, <2>8 DEF Install
<1>4. ins' \in [Actors -> R]
  BY <1>1, <1>3
<1>5. count' \in Nat
  BY <1>1 DEF Typed, Install, Check, Record, Save, Patch, LoadCount, StoreCount, table
<1>6. hooks' \in [Records -> [target : Funcs \cup {None}, orig : Codes \X Codes]]
  <2>1. CASE Record(p)
    BY ZenonT(60), <1>1, <2>1 DEF Typed, Record
  <2>2. CASE Save(p)
    <3>1. ins[p].func \in Funcs
      BY <2>2, Names DEF Typed, Roles, Save, Actors
    <3>2. <<head[ins[p].func], tail[ins[p].func]>> \in Codes \X Codes
      BY <3>1 DEF Typed
    <3>. QED
      BY ZenonT(60), <1>1, <2>2, <3>2 DEF Typed, Save
  <2>3. CASE UNCHANGED hooks
    BY <2>3 DEF Typed
  <2>. QED
    BY <2>1, <2>2, <2>3 DEF Install, Check, Patch, LoadCount, StoreCount, table
<1>7. head' \in [Funcs -> Codes] /\ tail' \in [Funcs -> Codes]
  <2>1. ins[p].bytes[1] \in Codes /\ ins[p].bytes[2] \in Codes /\ "spin" \in Codes
    BY <1>1 DEF Codes
  <2>2. CASE Patch(p)
    BY <2>1, <2>2 DEF Typed, Patch
  <2>. QED
    BY <2>2 DEF Typed, Install, Check, Record, Save, LoadCount, StoreCount, code
<1>. QED
  BY <1>2, <1>4, <1>5, <1>6, <1>7 DEF Typed
LEMMA RecordWrites ==
    ASSUME Typed, NEW p \in Actors, Record(p), NEW i \in Records
    PROVE  /\ hooks'[i].orig = hooks[i].orig
           /\ hooks'[i].target = IF i = count THEN ins[p].func ELSE hooks[i].target
<1>1. hooks' = [hooks EXCEPT ![count].target = ins[p].func]
  BY RecordDoes
<1>. QED
  BY <1>1 DEF Typed

LEMMA SaveWrites ==
    ASSUME Typed, NEW p \in Actors, Save(p), NEW i \in Records
    PROVE  /\ hooks'[i].target = hooks[i].target
           /\ hooks'[i].orig = IF i = ins[p].idx THEN <<head[ins[p].func], tail[ins[p].func]>>
                               ELSE hooks[i].orig
<1>1. hooks' = [hooks EXCEPT ![ins[p].idx].orig = <<head[ins[p].func], tail[ins[p].func]>>]
  BY SaveDoes
<1>. QED
  BY <1>1 DEF Typed

(* What an installation's step is for the others: the installer keeps its   *)
(* function, or is done.                                                    *)
LEMMA InstallShape ==
    ASSUME Typed, NEW p \in Actors, Install(p)
    PROVE  /\ \A q \in Actors \ {p} : ins'[q] = ins[q]
           /\ ins[p].at \notin {"idle", "restored"}
           /\ \/ ins'[p] = Idle /\ ins[p].at \in {"check", "store"}
              \/ /\ Same(ins[p], ins'[p]) /\ ins'[p].at \notin {"idle", "check"}
                 /\ ins'[p].at = "record" => ins[p].at = "check"
                 /\ ins'[p].at = "restored" => p = Lib /\ lib.at = "restore"
                 /\ p = Lib /\ lib.at = "restore" /\ ins[p].at \in {"spin", "tail", "head"} =>
                       ins'[p].at \in {"tail", "head", "restored"}
           /\ \A i \in Records : hooks'[i].target \in {hooks[i].target, ins[p].func}
           /\ UNCHANGED <<busy, tried, mapped, lib, th, gaveUp>>
<1>1. ins[p] = [at |-> ins[p].at, func |-> ins[p].func, bytes |-> ins[p].bytes,
                idx |-> ins[p].idx, n |-> ins[p].n]
  BY DEF Typed
<1>2. Written(p) \in {"restored", "load"} /\ (Written(p) = "restored" <=> p = Lib /\ lib.at = "restore")
  BY DEF Written
<1>3. CASE Check(p)
  BY <1>1, <1>3, CheckDoes DEF Same
<1>4. CASE Record(p)
  BY <1>1, <1>4, RecordDoes, RecordWrites DEF Same
<1>5. CASE Save(p)
  BY <1>1, <1>5, SaveDoes, SaveWrites DEF Same
<1>6. CASE Patch(p)
  BY <1>1, <1>2, <1>6, PatchDoes DEF Same, Alike
<1>7. CASE LoadCount(p)
  BY <1>1, <1>7, LoadCountDoes DEF Same
<1>8. CASE StoreCount(p)
  BY <1>1, <1>8, StoreCountDoes DEF Same
<1>. QED
  BY <1>3, <1>4, <1>5, <1>6, <1>7, <1>8 DEF Install

LEMMA InstallRoles ==
    ASSUME Typed, Roles, NEW p \in Actors, Install(p)
    PROVE  Roles'
<1>1. UNCHANGED <<busy, tried, lib, th, gaveUp>> /\ NativeSet' = NativeSet
  BY InstallShape DEF NativeSet
<1>2. ASSUME NEW t \in Threads, ins'[t].at # "idle"
      PROVE  /\ th'[t].at = "scan" /\ ins'[t].at # "restored"
             /\ ins'[t].func \in tried' /\ ins'[t].bytes = Jmp
  BY <1>1, <1>2, InstallShape, Names, IdleIsTyped DEF Roles, Same
<1>3. ASSUME ins'[Lib].at # "idle"
      PROVE  \/ /\ lib'.at = "init" /\ ins'[Lib].at # "restored"
                /\ ins'[Lib].func \in NativeSet /\ ins'[Lib].bytes = Jmp
             \/ lib'.at = "restore" /\ ins'[Lib].at \in {"spin", "tail", "head", "restored"}
  BY <1>1, <1>3, InstallShape, Names, IdleIsTyped DEF Roles, Same
<1>4. ins[p].func \in Hooked /\ Hooked' = Hooked /\ None \in Hooked
  BY <1>1, InstallShape, Names DEF Roles, Hooked
<1>5. ins'[Lib].func \in Hooked' /\ (ins'[Lib].at = "idle" => ins'[Lib].func = None)
  BY <1>4, InstallShape, Names, IdleIsTyped DEF Roles, Same
<1>6. \A i \in Records : hooks'[i].target \in Hooked'
  BY <1>4, InstallShape DEF Roles
<1>. QED
  BY <1>1, <1>2, <1>3, <1>5, <1>6 DEF Roles
(* Of two installers one is the library's thread. *)
LEMMA OneIsLib ==
    ASSUME Roles, NEW p \in Actors, NEW q \in Actors, p # q,
           ins[p].at # "idle", ins[q].at # "idle"
    PROVE  Lib \in {p, q}
BY Names DEF Roles

LEMMA InstallCounts ==
    ASSUME Ground, NEW p \in Actors, Install(p)
    PROVE  Counts'
<1>. USE DEF Ground
<1>0. MaxHooks \in Nat /\ count \in Nat /\ (\A q \in Actors : ins[q].n \in Nat) /\ lib' = lib
  BY Names, InstallShape DEF Typed
<1>1. \A q \in Actors \ {p} : ins'[q] = ins[q] /\ (Installs(q)' <=> Installs(q))
  BY <1>0, InstallShape DEF Installs, Recording
<1>2. ASSUME ins[p].at \in {"check", "record", "orig", "load", "store"}, p = Lib PROVE lib.at = "init"
  BY <1>2 DEF Roles
<1>3. CASE StoreCount(p)
  <2>1. Installs(p) /\ ins[p].at = "store" /\ count' = ins[p].n /\ ~Installs(p)'
    BY <1>0, <1>2, <1>3, StoreCountDoes, IdleIsTyped DEF Installs, Recording
  <2>2. ASSUME NEW q \in Actors, NEW r \in Actors, q # r, Installs(q)', Installs(r)' PROVE FALSE
    <3>1. q # p /\ r # p /\ Installs(q) /\ Installs(r)
      BY <1>1, <2>1, <2>2
    <3>2. ins[p].at # "idle" /\ ins[q].at # "idle" /\ ins[r].at # "idle"
      BY <2>1, <3>1 DEF Installs, Recording
    <3>. QED
      BY <2>2, <3>1, <3>2, OneIsLib
  <2>. QED
    BY <1>0, <1>1, <2>1, <2>2 DEF Counts
<1>4. CASE LoadCount(p)
  <2>0. ins[p].at = "load" /\ count' = count /\ ins'[p] = [ins[p] EXCEPT !.at = "store", !.n = count + 1]
    BY <1>4, LoadCountDoes
  <2>1. Installs(p) /\ Installs(p)' /\ count' = count /\ ins'[p].n = count + 1
    BY <1>0, <1>2, <2>0 DEF Installs, Recording, Typed
  <2>. QED
    BY <1>0, <1>1, <2>1 DEF Counts
<1>5. CASE Check(p) /\ ins'[p] # Idle
  <2>1. count' = count /\ count < MaxHooks /\ ins'[p].at = "record"
    BY <1>5, CheckDoes DEF Typed
  <2>2. ASSUME NEW q \in Actors \ {p}, Installs(q) PROVE lib.at = "init"
    <3>1. ins[p].at = "check" /\ ins[q].at # "idle"
      BY <1>5, <2>2, CheckDoes DEF Installs, Recording
    <3>. QED
      BY <1>2, <2>2, <3>1, OneIsLib DEF Installs
  <2>. QED
    BY <1>0, <1>1, <2>1, <2>2 DEF Counts
<1>6. CASE ~StoreCount(p) /\ ~LoadCount(p) /\ (Check(p) => ins'[p] = Idle)
  <2>1. count' = count /\ ins'[p].at # "store" /\ (Installs(p)' => Installs(p))
    <3>1. CASE Check(p)
      BY <1>0, <1>6, <3>1, CheckDoes, IdleIsTyped DEF Installs, Recording
    <3>2. CASE Record(p)
      BY <1>0, <3>2, RecordDoes DEF Installs, Recording, Typed
    <3>3. CASE Save(p)
      BY <1>0, <3>3, SaveDoes DEF Installs, Recording, Typed
    <3>4. CASE Patch(p)
      BY <1>0, <3>4, PatchDoes DEF Installs, Recording, Typed, Written
    <3>. QED
      BY <1>6, <3>1, <3>2, <3>3, <3>4 DEF Install
  <2>. QED
    BY <1>0, <1>1, <2>1 DEF Counts
<1>. QED
  BY <1>3, <1>4, <1>5, <1>6

(* Where an installer writes its record: the table has one place more than  *)
(* it lets in.                                                              *)
LEMMA RoomForRecord ==
    ASSUME Ground, NEW p \in Actors, Installs(p)
    PROVE  count \in Records
BY Names DEF Ground, Typed, Counts, Records

(* The other steps of a game thread: it leaves code and table alone.        *)
Elsewhere(t) ==
    \/ \E f \in Funcs : Call(t, f)
    \/ Fetch(t) \/ FetchInner(t) \/ Enter(t) \/ Handle(t) \/ Sent(t) \/ Trigger(t) \/ Leave(t)

LEMMA ElsewhereDoes ==
    ASSUME Types, NEW t \in Threads, Elsewhere(t)
    PROVE  /\ UNCHANGED <<head, tail, hooks, count, tried, mapped, lib, ins, gaveUp, raced>>
           /\ \A u \in Threads \ {t} : th'[u] = th[u]
           /\ th[t].at # "scan"
           /\ th'[t].at = "scan" => ~busy /\ busy'
           /\ busy => busy'
<1>1. UNCHANGED <<head, tail, hooks, count, tried, mapped, lib, ins, gaveUp, raced>>
  BY DEF Elsewhere, Call, Fetch, FetchInner, Enter, Handle, Sent, Trigger, Leave, code, table, state, plugin
<1>2. \A u \in Threads \ {t} : th'[u] = th[u]
  BY DEF Types, Elsewhere, Call, Fetch, FetchInner, Enter, Handle, Sent, Trigger, Leave, Goes, Leaves
<1>3. th[t].at # "scan"
  BY DEF Elsewhere, Call, Fetch, FetchInner, Enter, Handle, Sent, Trigger, Leave
<1>4. (th'[t].at = "scan" => ~busy /\ busy') /\ (busy => busy')
  BY DEF Types, Elsewhere, Call, Fetch, FetchInner, Enter, Handle, Sent, Trigger, Leave, Goes,
         Leaves, Out, plugin
<1>. QED
  BY <1>1, <1>2, <1>3, <1>4

LEMMA ElsewhereGround ==
    ASSUME Types, Ground, NEW t \in Threads, Elsewhere(t)
    PROVE  Ground'
<1>1. Typed' /\ Counts'
  BY ElsewhereDoes DEF Ground, Typed, Counts, Installs, Recording
<1>2. Roles'
  BY ElsewhereDoes DEF Ground, Roles, Hooked, NativeSet
<1>. QED
  BY <1>1, <1>2 DEF Ground
(* A thread that looks for methods begins an installation, or has none. *)
LEMMA ScanDoes ==
    ASSUME Types, Typed, NEW t \in Threads, Scan(t)
    PROVE  /\ th[t].at = "scan" /\ ins[t].at = "idle"
           /\ \A p \in Actors \ {t} : ins'[p] = ins[p]
           /\ \A u \in Threads \ {t} : th'[u] = th[u]
           /\ \/ /\ \E f \in Methods \ tried :
                       /\ ins' = [ins EXCEPT ![t] = [Idle EXCEPT !.at = "check", !.func = f]]
                       /\ ins'[t] = [Idle EXCEPT !.at = "check", !.func = f]
                       /\ tried' = tried \cup {f}
                 /\ UNCHANGED <<busy, th>>
              \/ busy' = FALSE /\ th'[t].at = "leave" /\ UNCHANGED <<tried, ins>>
           /\ UNCHANGED <<head, tail, hooks, count, lib, gaveUp, raced, mapped>>
<1>1. t \in Actors /\ DOMAIN ins = Actors /\ DOMAIN th = Threads
  BY Names DEF Types, Typed
<1>2. UNCHANGED <<head, tail, hooks, count, lib, gaveUp, raced, mapped>>
  BY DEF Scan, code, table, state
<1>3. CASE \E f \in Methods \ tried :
             StartInstall(t, f) /\ tried' = tried \cup {f} /\ UNCHANGED <<busy, th>>
  <2>1. PICK f \in Methods \ tried :
             StartInstall(t, f) /\ tried' = tried \cup {f} /\ UNCHANGED <<busy, th>>
    BY <1>3
  <2>2. ins' = [ins EXCEPT ![t] = [Idle EXCEPT !.at = "check", !.func = f]]
    BY <2>1 DEF StartInstall
  <2>. QED
    BY <1>1, <1>2, <2>1, <2>2 DEF Scan
<1>4. CASE busy' = FALSE /\ Leaves(t) /\ UNCHANGED <<tried, ins>>
  <2>1. th'[t].at = "leave" /\ \A u \in Threads \ {t} : th'[u] = th[u]
    BY <1>4 DEF Types, Leaves, Goes
  <2>. QED
    BY <1>2, <1>4, <2>1 DEF Scan
<1>. QED
  BY <1>3, <1>4 DEF Scan

(* A thread under which the library is unmapped is lost, with what it was   *)
(* installing.                                                              *)
LEMMA FaultsDoes ==
    ASSUME Types, Typed, NEW t \in Threads, Faults(t)
    PROVE  /\ InHandler(t) /\ ~mapped
           /\ ins'[t] = Idle /\ \A p \in Actors \ {t} : ins'[p] = ins[p]
           /\ th'[t] = [th[t] EXCEPT !.at = "crashed"]
           /\ \A u \in Threads \ {t} : th'[u] = th[u]
           /\ UNCHANGED <<head, tail, hooks, count, busy, tried, lib, gaveUp, raced, mapped>>
BY Names DEF Types, Typed, Faults, Goes, code, table, state, plugin

LEMMA StartedIsTyped ==
    ASSUME NEW f \in Funcs \cup {None}, NEW b \in Codes \X Codes
    PROVE  /\ [Idle EXCEPT !.at = "check", !.func = f] \in
                 [at : Steps, func : Funcs \cup {None}, bytes : Codes \X Codes, idx : Nat, n : Nat]
           /\ [Idle EXCEPT !.at = "spin", !.func = f, !.bytes = b] \in
                 [at : Steps, func : Funcs \cup {None}, bytes : Codes \X Codes, idx : Nat, n : Nat]
<1>1. Jmp \in Codes \X Codes /\ "check" \in Steps /\ "spin" \in Steps
  BY IdleIsTyped DEF Steps
<1>. QED
  BY <1>1 DEF Idle

LEMMA ScanGround ==
    ASSUME Types, Ground, NEW t \in Threads, Scan(t)
    PROVE  Ground'
<1>0. t \in Actors /\ t # Lib /\ Types /\ Typed /\ Roles /\ Counts
  BY Names DEF Ground
<1>1. /\ th[t].at = "scan" /\ ins[t].at = "idle"
      /\ \A p \in Actors \ {t} : ins'[p] = ins[p]
      /\ \A u \in Threads \ {t} : th'[u] = th[u]
      /\ UNCHANGED <<head, tail, hooks, count, lib, gaveUp>>
  BY <1>0, ScanDoes
<1>2. CASE busy' = FALSE /\ th'[t].at = "leave" /\ UNCHANGED <<tried, ins>>
  <2>1. Typed' /\ Counts'
    BY <1>0, <1>1, <1>2 DEF Typed, Counts, Installs, Recording
  <2>2. Roles'
    BY <1>0, <1>1, <1>2 DEF Roles, Hooked, NativeSet
  <2>. QED
    BY <2>1, <2>2 DEF Ground
<1>3. CASE \E f \in Methods \ tried :
               /\ ins' = [ins EXCEPT ![t] = [Idle EXCEPT !.at = "check", !.func = f]]
               /\ ins'[t] = [Idle EXCEPT !.at = "check", !.func = f] /\ tried' = tried \cup {f}
               /\ UNCHANGED <<busy, th>>
  <2>1. PICK f \in Methods \ tried :
               /\ ins' = [ins EXCEPT ![t] = [Idle EXCEPT !.at = "check", !.func = f]]
               /\ ins'[t] = [Idle EXCEPT !.at = "check", !.func = f] /\ tried' = tried \cup {f}
               /\ UNCHANGED <<busy, th>>
    BY <1>3
  <2>2. ins'[t].at = "check" /\ ins'[t].func = f /\ ins'[t].bytes = Jmp
    BY <2>1 DEF Idle
  <2>3. [Idle EXCEPT !.at = "check", !.func = f] \in
            [at : Steps, func : Funcs \cup {None}, bytes : Codes \X Codes, idx : Nat, n : Nat]
    BY Names, IdleIsTyped, StartedIsTyped
  <2>4. ins' \in [Actors -> [at : Steps, func : Funcs \cup {None}, bytes : Codes \X Codes,
                             idx : Nat, n : Nat]]
    <3>. DEFINE R == [at : Steps, func : Funcs \cup {None}, bytes : Codes \X Codes, idx : Nat, n : Nat]
    <3>1. ins \in [Actors -> R] /\ [Idle EXCEPT !.at = "check", !.func = f] \in R
      BY <1>0, <2>3 DEF Typed
    <3>. HIDE DEF R
    <3>2. ins' \in [Actors -> R]
      BY <2>1, <3>1
    <3>. QED
      BY <3>2 DEF R
  <2>5. Typed'
    <3>1. tried' \subseteq Methods
      BY <1>0, <2>1 DEF Typed
    <3>. QED
      BY <1>0, <1>1, <2>4, <3>1 DEF Typed
  <2>6. \A p \in Actors : (Installs(p)' <=> Installs(p)) /\ (Installs(p) => ins'[p] = ins[p])
    BY <1>0, <1>1, <2>2 DEF Installs, Recording
  <2>7. Counts'
    BY <1>0, <1>1, <2>6 DEF Counts
  <2>8. Hooked \subseteq Hooked' /\ NativeSet' = NativeSet /\ f \in tried' /\ tried \subseteq tried'
    BY <2>1 DEF Hooked, NativeSet
  <2>9. Roles'
    <3>1. ASSUME NEW u \in Threads, ins'[u].at # "idle"
          PROVE  /\ th'[u].at = "scan" /\ ins'[u].at # "restored"
                 /\ ins'[u].func \in tried' /\ ins'[u].bytes = Jmp
      BY <1>0, <1>1, <2>1, <2>2, <2>8, <3>1, Names DEF Roles
    <3>2. ins'[Lib] = ins[Lib]
      BY <1>0, <1>1, Names
    <3>3. \A i \in Records : hooks'[i].target \in Hooked'
      BY <1>0, <1>1, <2>8 DEF Roles
    <3>. QED
      BY <1>0, <1>1, <2>1, <2>8, <3>1, <3>2, <3>3 DEF Roles
  <2>. QED
    BY <2>5, <2>7, <2>9 DEF Ground
<1>. QED
  BY <1>0, <1>2, <1>3, ScanDoes

LEMMA FaultsGround ==
    ASSUME Types, Ground, NEW t \in Threads, Faults(t)
    PROVE  Ground'
<1>0. t \in Actors /\ t # Lib /\ Types /\ Typed /\ Roles /\ Counts
  BY Names DEF Ground
<1>1. /\ ins'[t] = Idle /\ ins'[t].at = "idle"
      /\ \A p \in Actors \ {t} : ins'[p] = ins[p]
      /\ th'[t] = [th[t] EXCEPT !.at = "crashed"]
      /\ \A u \in Threads \ {t} : th'[u] = th[u]
      /\ UNCHANGED <<head, tail, hooks, count, busy, tried, lib, gaveUp>>
  BY <1>0, FaultsDoes, IdleIsTyped
<1>2. th'[t].at = "crashed"
  BY <1>0, <1>1 DEF Types
<1>3. Typed'
  BY <1>0, <1>1, IdleIsTyped DEF Typed, Faults
<1>4. Counts'
  BY <1>0, <1>1 DEF Counts, Installs, Recording
<1>5. Roles'
  <2>1. ASSUME NEW u \in Threads, ins'[u].at # "idle"
        PROVE  /\ th'[u].at = "scan" /\ ins'[u].at # "restored"
               /\ ins'[u].func \in tried' /\ ins'[u].bytes = Jmp
    BY <1>0, <1>1, <2>1, Names DEF Roles
  <2>2. ins'[Lib] = ins[Lib] /\ Hooked' = Hooked /\ NativeSet' = NativeSet
    BY <1>0, <1>1, Names DEF Hooked, NativeSet
  <2>3. \A u \in Threads : th'[u].at = "scan" => th[u].at = "scan"
    BY <1>1, <1>2
  <2>. QED
    BY <1>0, <1>1, <2>1, <2>2, <2>3 DEF Roles
<1>. QED
  BY <1>3, <1>4, <1>5 DEF Ground
(* The library's thread. *)
Ending == Drain \/ Drop \/ Close \/ Unmap

LEMMA InstallNextDoes ==
    ASSUME Typed, InstallNext
    PROVE  /\ lib.at = "init" /\ ins[Lib].at = "idle"
           /\ \/ /\ lib.i <= Len(Natives)
                 /\ ins' = [ins EXCEPT ![Lib] = [Idle EXCEPT !.at = "check", !.func = Natives[lib.i]]]
                 /\ ins'[Lib] = [Idle EXCEPT !.at = "check", !.func = Natives[lib.i]]
                 /\ lib' = [lib EXCEPT !.i = @ + 1]
              \/ lib' = [at |-> "up", i |-> 0] /\ UNCHANGED ins
           /\ \A p \in Threads : ins'[p] = ins[p]
           /\ UNCHANGED <<head, tail, hooks, count, busy, tried, mapped, th, gaveUp, raced>>
BY Names DEF Typed, InstallNext, StartInstall, code, table, state, plugin

LEMMA DisableDoes ==
    ASSUME Disable
    PROVE  /\ lib.at = "up" /\ lib' = [at |-> "restore", i |-> 0]
           /\ raced' = (raced \/ \E t \in Threads : Recording(t))
           /\ UNCHANGED <<head, tail, hooks, count, busy, tried, mapped, th, ins, gaveUp>>
BY DEF Disable, code, table, plugin

LEMMA RestoreNextDoes ==
    ASSUME Typed, RestoreNext
    PROVE  /\ lib.at = "restore" /\ ins[Lib].at \in {"idle", "restored"}
           /\ \/ /\ lib.i < count /\ count' = count
                 /\ ins' = [ins EXCEPT ![Lib] = [Idle EXCEPT !.at = "spin", !.func = hooks[lib.i].target,
                                                            !.bytes = hooks[lib.i].orig]]
                 /\ ins'[Lib] = [Idle EXCEPT !.at = "spin", !.func = hooks[lib.i].target,
                                            !.bytes = hooks[lib.i].orig]
                 /\ lib' = [lib EXCEPT !.i = @ + 1]
              \/ /\ ~(lib.i < count) /\ count' = 0
                 /\ ins' = [ins EXCEPT ![Lib] = Idle] /\ ins'[Lib] = Idle
                 /\ lib' = [at |-> "drain", i |-> 0]
           /\ \A p \in Threads : ins'[p] = ins[p]
           /\ UNCHANGED <<head, tail, hooks, busy, tried, mapped, th, gaveUp, raced>>
BY Names DEF Typed, RestoreNext, code, state, plugin

LEMMA WriteNowhereDoes ==
    ASSUME Typed, WriteNowhere
    PROVE  /\ ins[Lib].at = "spin" /\ ins[Lib].func = None
           /\ lib' = [lib EXCEPT !.at = "crashed"]
           /\ ins' = [ins EXCEPT ![Lib] = Idle] /\ ins'[Lib] = Idle
           /\ \A p \in Threads : ins'[p] = ins[p]
           /\ UNCHANGED <<head, tail, hooks, count, busy, tried, mapped, th, gaveUp, raced>>
BY Names DEF Typed, WriteNowhere, code, table, state, plugin

LEMMA EndingDoes ==
    ASSUME Types, Ending
    PROVE  /\ lib.at \in {"drain", "drop", "close", "unmap"}
           /\ lib'.at \in {"drop", "close", "unmap", "gone"}
           /\ gaveUp => gaveUp'
           /\ UNCHANGED <<head, tail, hooks, count, busy, tried, th, ins, raced>>
<1>1. UNCHANGED <<head, tail, hooks, count, busy, tried, th, ins, raced>>
  BY DEF Ending, Drain, Drop, Close, Unmap, code, table, state, plugin
<1>2. /\ lib.at \in {"drain", "drop", "close", "unmap"}
      /\ lib'.at \in {"drop", "close", "unmap", "gone"}
  BY DEF Types, Ending, Drain, Drop, Close, Unmap
<1>3. gaveUp => gaveUp'
  BY DEF Ending, Drain, Drop, Close, Unmap
<1>. QED
  BY <1>1, <1>2, <1>3

LEMMA InstallNextGround ==
    ASSUME Types, Ground, InstallNext
    PROVE  Ground'
<1>0. Types /\ Typed /\ Roles /\ Counts
  BY DEF Ground
<1>1. /\ lib.at = "init" /\ ins[Lib].at = "idle"
      /\ \A p \in Threads : ins'[p] = ins[p]
      /\ UNCHANGED <<head, tail, hooks, count, busy, tried, mapped, th, gaveUp, raced>>
  BY <1>0, InstallNextDoes
<1>2. Hooked' = Hooked /\ NativeSet' = NativeSet /\ NativeSet \subseteq Hooked
  BY <1>1 DEF Hooked, NativeSet
<1>3. CASE lib' = [at |-> "up", i |-> 0] /\ UNCHANGED ins
  <2>0. lib'.at = "up"
    BY <1>3
  <2>1. Typed'
    BY <1>0, <1>1, <1>3 DEF Typed
  <2>2. Roles'
    BY <1>0, <1>1, <1>2, <1>3, <2>0 DEF Roles
  <2>3. Counts'
    BY <1>0, <1>1, <1>3, <2>0 DEF Counts, Installs, Recording
  <2>. QED
    BY <2>1, <2>2, <2>3 DEF Ground
<1>4. CASE /\ lib.i <= Len(Natives)
           /\ ins' = [ins EXCEPT ![Lib] = [Idle EXCEPT !.at = "check", !.func = Natives[lib.i]]]
           /\ ins'[Lib] = [Idle EXCEPT !.at = "check", !.func = Natives[lib.i]]
           /\ lib' = [lib EXCEPT !.i = @ + 1]
  <2>1. lib.i \in DOMAIN Natives /\ lib'.at = "init" /\ lib'.i = lib.i + 1 /\ lib'.i >= 1
    BY <1>0, <1>1, <1>4, EngineAssumption DEF Types, Roles
  <2>2. Natives[lib.i] \in NativeSet /\ Natives[lib.i] \in Funcs
    BY <2>1, Names DEF NativeSet
  <2>3. ins'[Lib].at = "check" /\ ins'[Lib].func = Natives[lib.i] /\ ins'[Lib].bytes = Jmp
    BY ZenonT(60), <1>4 DEF Idle
  <2>4. ins' \in [Actors -> [at : Steps, func : Funcs \cup {None}, bytes : Codes \X Codes,
                             idx : Nat, n : Nat]]
    <3>. DEFINE R == [at : Steps, func : Funcs \cup {None}, bytes : Codes \X Codes, idx : Nat, n : Nat]
    <3>1. ins \in [Actors -> R] /\ [Idle EXCEPT !.at = "check", !.func = Natives[lib.i]] \in R
      BY <1>0, <2>2, StartedIsTyped, IdleIsTyped DEF Typed
    <3>. HIDE DEF R
    <3>2. ins' \in [Actors -> R]
      BY <1>4, <3>1
    <3>. QED
      BY <3>2 DEF R
  <2>5. Typed'
    BY <1>0, <1>1, <2>4 DEF Typed
  <2>6. Roles'
    BY <1>0, <1>1, <1>2, <2>1, <2>2, <2>3 DEF Roles
  <2>7. \A p \in Actors : (Installs(p)' <=> Installs(p)) /\ (Installs(p) => ins'[p] = ins[p])
    BY <1>1, <2>1, <2>3, Names DEF Installs, Recording
  <2>8. Counts'
    BY <1>0, <1>1, <2>1, <2>7 DEF Counts
  <2>. QED
    BY <2>5, <2>6, <2>8 DEF Ground
<1>. QED
  BY <1>0, <1>3, <1>4, InstallNextDoes
LEMMA DisableGround ==
    ASSUME Types, Ground, Disable
    PROVE  Ground'
<1>0. Types /\ Typed /\ Roles /\ Counts
  BY DEF Ground
<1>1. /\ lib.at = "up" /\ lib'.at = "restore" /\ ins[Lib].at = "idle"
      /\ UNCHANGED <<head, tail, hooks, count, busy, tried, th, ins, gaveUp>>
  BY <1>0, DisableDoes DEF Roles
<1>2. Hooked' = Hooked /\ NativeSet' = NativeSet
  BY <1>1 DEF Hooked, NativeSet
<1>3. Typed'
  BY <1>0, <1>1 DEF Typed
<1>4. Roles'
  BY <1>0, <1>1, <1>2 DEF Roles
<1>5. Counts'
  BY <1>0, <1>1 DEF Counts, Installs, Recording
<1>. QED
  BY <1>3, <1>4, <1>5 DEF Ground

(* What is read of the table lies in it. *)
LEMMA PlaceIsRecord ==
    ASSUME Types, Ground, lib.i < count
    PROVE  lib.i \in Records /\ hooks[lib.i].target \in Funcs \cup {None}
           /\ hooks[lib.i].orig \in Codes \X Codes
<1>1. lib.i \in Records
  BY Names DEF Ground, Typed, Types, Counts, Records
<1>. QED
  BY <1>1 DEF Ground, Typed

LEMMA RestoreNextGround ==
    ASSUME Types, Ground, RestoreNext
    PROVE  Ground'
<1>0. Types /\ Typed /\ Roles /\ Counts
  BY DEF Ground
<1>1. /\ lib.at = "restore" /\ ins[Lib].at \in {"idle", "restored"}
      /\ \A p \in Threads : ins'[p] = ins[p]
      /\ UNCHANGED <<head, tail, hooks, busy, tried, mapped, th, gaveUp, raced>>
  BY <1>0, RestoreNextDoes
<1>2. Hooked' = Hooked /\ NativeSet' = NativeSet /\ None \in Hooked
  BY <1>1 DEF Hooked, NativeSet
<1>3. CASE /\ lib.i < count /\ count' = count
           /\ ins' = [ins EXCEPT ![Lib] = [Idle EXCEPT !.at = "spin", !.func = hooks[lib.i].target,
                                                      !.bytes = hooks[lib.i].orig]]
           /\ ins'[Lib] = [Idle EXCEPT !.at = "spin", !.func = hooks[lib.i].target,
                                      !.bytes = hooks[lib.i].orig]
           /\ lib' = [lib EXCEPT !.i = @ + 1]
  <2>1. lib'.at = "restore" /\ lib.i \in Records /\ hooks[lib.i].target \in Funcs \cup {None}
        /\ hooks[lib.i].orig \in Codes \X Codes
    BY <1>0, <1>1, <1>3, PlaceIsRecord DEF Types
  <2>2. ins'[Lib].at = "spin" /\ ins'[Lib].func = hooks[lib.i].target
    BY ZenonT(60), <1>3 DEF Idle
  <2>3. ins' \in [Actors -> [at : Steps, func : Funcs \cup {None}, bytes : Codes \X Codes,
                             idx : Nat, n : Nat]]
    <3>. DEFINE R == [at : Steps, func : Funcs \cup {None}, bytes : Codes \X Codes, idx : Nat, n : Nat]
    <3>1. ins \in [Actors -> R]
          /\ [Idle EXCEPT !.at = "spin", !.func = hooks[lib.i].target, !.bytes = hooks[lib.i].orig] \in R
      BY <1>0, <2>1, StartedIsTyped DEF Typed
    <3>. HIDE DEF R
    <3>2. ins' \in [Actors -> R]
      BY <1>3, <3>1
    <3>. QED
      BY <3>2 DEF R
  <2>4. Typed'
    BY <1>0, <1>1, <1>3, <2>3 DEF Typed
  <2>5. Roles'
    <3>1. hooks[lib.i].target \in Hooked
      BY <1>0, <2>1 DEF Roles
    <3>. QED
      BY <1>0, <1>1, <1>2, <2>1, <2>2, <3>1 DEF Roles
  <2>6. \A p \in Actors : (Installs(p)' <=> Installs(p)) /\ (Installs(p) => ins'[p] = ins[p])
    BY <1>1, <2>1, <2>2, Names DEF Installs, Recording
  <2>7. Counts'
    BY <1>0, <1>1, <1>3, <2>1, <2>6 DEF Counts
  <2>. QED
    BY <2>4, <2>5, <2>7 DEF Ground
<1>4. CASE /\ count' = 0
           /\ ins' = [ins EXCEPT ![Lib] = Idle] /\ ins'[Lib] = Idle
           /\ lib' = [at |-> "drain", i |-> 0]
  <2>1. lib'.at = "drain" /\ ins'[Lib].at = "idle" /\ ins'[Lib].func = None
    BY <1>4, IdleIsTyped
  <2>2. Typed'
    BY <1>0, <1>1, <1>4, IdleIsTyped DEF Typed
  <2>3. Roles'
    BY <1>0, <1>1, <1>2, <2>1 DEF Roles
  <2>4. \A p \in Actors : (Installs(p)' => Installs(p) /\ p \in Threads) /\ (Installs(p) => ins'[p] = ins[p])
    BY <1>1, <2>1, Names DEF Installs, Recording
  <2>5. \A p, q \in Actors : Installs(p)' /\ Installs(q)' => p = q
    BY <1>0, <2>4 DEF Roles, Installs, Recording
  <2>6. Counts'
    <3>1. MaxHooks \in Nat /\ MaxHooks >= 1
      BY Names
    <3>. QED
      BY <1>0, <1>1, <1>4, <2>1, <2>4, <2>5, <3>1 DEF Counts
  <2>. QED
    BY <2>2, <2>3, <2>6 DEF Ground
<1>. QED
  BY <1>0, <1>3, <1>4, RestoreNextDoes

LEMMA WriteNowhereGround ==
    ASSUME Types, Ground, WriteNowhere
    PROVE  Ground'
<1>0. Types /\ Typed /\ Roles /\ Counts
  BY DEF Ground
<1>1. /\ ins[Lib].at = "spin" /\ lib' = [lib EXCEPT !.at = "crashed"]
      /\ ins'[Lib] = Idle /\ ins' = [ins EXCEPT ![Lib] = Idle]
      /\ ins'[Lib].at = "idle" /\ ins'[Lib].func = None
      /\ \A p \in Threads : ins'[p] = ins[p]
      /\ UNCHANGED <<head, tail, hooks, count, busy, tried, mapped, th, gaveUp, raced>>
  BY <1>0, WriteNowhereDoes, IdleIsTyped
<1>2. Hooked' = Hooked /\ NativeSet' = NativeSet /\ None \in Hooked
  BY <1>1 DEF Hooked, NativeSet
<1>3. lib'.at = "crashed" /\ ~gaveUp
  BY <1>0, <1>1 DEF Types, Roles
<1>4. Typed'
  BY <1>0, <1>1, IdleIsTyped DEF Typed
<1>5. Roles'
  BY <1>0, <1>1, <1>2, <1>3 DEF Roles
<1>6. \A p \in Actors : (Installs(p)' => Installs(p)) /\ (Installs(p)' => ins'[p] = ins[p])
  BY <1>1, Names DEF Installs, Recording
<1>7. Counts'
  BY <1>0, <1>1, <1>3, <1>6 DEF Counts
<1>. QED
  BY <1>4, <1>5, <1>7 DEF Ground

LEMMA EndingGround ==
    ASSUME Types, Ground, Ending
    PROVE  Ground'
<1>0. Types /\ Typed /\ Roles /\ Counts
  BY DEF Ground
<1>1. /\ lib.at \in {"drain", "drop", "close", "unmap"}
      /\ lib'.at \in {"drop", "close", "unmap", "gone"}
      /\ UNCHANGED <<head, tail, hooks, count, busy, tried, th, ins, raced>>
  BY <1>0, EndingDoes
<1>2. Hooked' = Hooked /\ NativeSet' = NativeSet
  BY <1>1 DEF Hooked, NativeSet
<1>3. Typed'
  BY <1>0, <1>1 DEF Typed
<1>4. Roles'
  BY <1>0, <1>1, <1>2 DEF Roles
<1>5. Counts'
  BY <1>0, <1>1 DEF Counts, Installs, Recording
<1>. QED
  BY <1>3, <1>4, <1>5 DEF Ground

LEMMA GroundKept == IInv /\ Ground /\ [Next]_vars => Ground'
<1>0. IInv => Types
  BY DEF IInv
<1>1. ASSUME Types, Ground, NEW p \in Actors, Install(p) PROVE Ground'
  BY <1>1, InstallTyped, InstallRoles, InstallCounts DEF Ground
<1>2. ASSUME Types, Ground, NEW t \in Threads, Runs(t) \/ \E f \in Funcs : Call(t, f) PROVE Ground'
  <2>1. t \in Actors
    BY Names
  <2>. QED
    BY <1>1, <1>2, <2>1, ElsewhereGround, ScanGround, FaultsGround DEF Runs, Elsewhere
<1>3. ASSUME Types, Ground, Install(Lib) \/ InstallNext \/ Disable \/ Unload PROVE Ground'
  <2>1. Lib \in Actors
    BY Names
  <2>. QED
    BY <1>1, <1>3, <2>1, InstallNextGround, DisableGround, RestoreNextGround, WriteNowhereGround,
       EndingGround DEF Unload, Ending
<1>4. ASSUME Ground, UNCHANGED vars PROVE Ground'
  <2>1. UNCHANGED <<head, tail, hooks, count, busy, tried, lib, th, ins, gaveUp>>
    BY <1>4 DEF vars, code, table, state, plugin
  <2>2. Typed' /\ Counts'
    BY <1>4, <2>1 DEF Ground, Typed, Counts, Installs, Recording
  <2>3. Roles'
    BY <1>4, <2>1 DEF Ground, Roles, Hooked, NativeSet
  <2>. QED
    BY <2>2, <2>3 DEF Ground
<1>. QED
  BY <1>0, <1>2, <1>3, <1>4 DEF Next

LEMMA GroundInit == Init => Ground
<1>. SUFFICES ASSUME Init PROVE Ground
  OBVIOUS
<1>1. /\ \A p \in Actors : ins[p] = Idle /\ ins[p].at = "idle" /\ ins[p].func = None
      /\ lib.at = "init" /\ lib.i = 1 /\ ~gaveUp /\ count = 0
      /\ \A t \in Threads : th[t].at = "out"
      /\ \A i \in Records : hooks[i].target = None
  BY IdleIsTyped DEF Init, Actors, Out, NoHook
<1>2. Typed
  <2>1. head \in [Funcs -> Codes] /\ tail \in [Funcs -> Codes]
    BY DEF Init, Codes
  <2>2. ins \in [Actors -> [at : Steps, func : Funcs \cup {None}, bytes : Codes \X Codes,
                           idx : Nat, n : Nat]]
    BY IdleIsTyped DEF Init, Actors
  <2>3. hooks \in [Records -> [target : Funcs \cup {None}, orig : Codes \X Codes]]
    BY DEF Init, NoHook, Codes
  <2>. QED
    BY <1>1, <2>1, <2>2, <2>3 DEF Init, Typed
<1>3. Roles
  BY <1>1, Names DEF Roles, Hooked
<1>4. Counts
  BY <1>1, Names DEF Counts, Installs, Recording
<1>. QED
  BY <1>2, <1>3, <1>4 DEF Ground

(* The installers keep to their own functions, and the table is never       *)
(* overrun, however installations overlap and meet the shutdown.            *)
LEMMA GroundHolds == Spec => [](IInv /\ Ground)
<1>1. Init => IInv /\ Ground
  BY InitHolds, GroundInit
<1>2. IInv /\ Ground /\ [Next]_vars => IInv' /\ Ground'
  BY NextKeeps, GroundKept
<1>. QED
  BY <1>1, <1>2, PTL DEF Spec
-----------------------------------------------------------------------------
(* The loop of a function being patched.                                    *)

LEMMA MethodIsNoNative ==
    ASSUME Ground, NEW t \in Threads, ins[t].at # "idle"
    PROVE  /\ ins[t].func \in Funcs /\ ins[t].func \notin NativeSet /\ ins[t].func # None
           /\ \A p \in Actors \ {t} : ins[p].at # "idle" => p = Lib
           /\ ins[Lib].at # "idle" /\ lib.at = "init" => ins[Lib].func # ins[t].func
BY Names DEF Ground, Typed, Roles

(* Somebody else's installation puts no method into the table. *)
LEMMA OthersEnterNatives ==
    ASSUME Ground, NEW p \in Actors, Install(p), NEW t \in Threads, ins[t].at # "idle",
           NEW i \in Records, t # p, hooks'[i].target = ins[t].func
    PROVE  hooks[i].target = ins[t].func
<1>0. Typed /\ Roles
  BY DEF Ground
<1>1. CASE Record(p)
  <2>1. hooks'[i].target = IF i = count THEN ins[p].func ELSE hooks[i].target
    BY <1>0, <1>1, RecordWrites
  <2>2. ins[p].at = "record"
    BY <1>0, <1>1, RecordDoes
  <2>3. p = Lib
    BY <2>2, MethodIsNoNative
  <2>4. ins[p].func \in NativeSet
    BY <1>0, <2>2, <2>3 DEF Roles
  <2>. QED
    BY <2>1, <2>4, MethodIsNoNative
<1>2. CASE ~Record(p)
  BY <1>0, <1>2, SaveWrites, CheckDoes, PatchDoes, LoadCountDoes, StoreCountDoes DEF Install
<1>. QED
  BY <1>1, <1>2

LEMMA InstallEntered ==
    ASSUME Ground, Entered, NEW p \in Actors, Install(p)
    PROVE  Entered'
<1>0. /\ Typed /\ Roles /\ lib' = lib /\ \A q \in Actors \ {p} : ins'[q] = ins[q]
      /\ ins'[Lib].func \in {ins[Lib].func, None}
      /\ Threads \subseteq Actors
  BY InstallShape, IdleIsTyped, Names DEF Ground, Same
<1>1. ASSUME NEW t \in Threads, ins'[t].at \in {"check", "record"}
      PROVE  /\ ins'[Lib].func # ins'[t].func
             /\ \A i \in Records : hooks'[i].target # ins'[t].func
  <2>1. ins[t].at \in {"check", "record"} /\ ins'[t].func = ins[t].func
    BY <1>0, <1>1, InstallShape, IdleIsTyped DEF Same
  <2>2. /\ ins[t].func # None /\ ins[Lib].func # ins[t].func
        /\ \A i \in Records : hooks[i].target # ins[t].func
    BY <2>1, MethodIsNoNative DEF Entered
  <2>3. CASE t = p
    <3>1. Check(p)
      BY <1>0, <1>1, <2>1, <2>3, RecordDoes, StoreCountDoes, SaveDoes, PatchDoes, LoadCountDoes,
         IdleIsTyped DEF Install
    <3>2. hooks' = hooks
      BY <1>0, <3>1, CheckDoes
    <3>. QED
      BY <1>0, <2>1, <2>2, <3>2
  <2>4. CASE t # p
    BY <1>0, <2>1, <2>2, <2>4, OthersEnterNatives
  <2>. QED
    BY <2>3, <2>4
<1>2. ASSUME NEW t \in Threads, ins'[t].at \in Recorded
      PROVE  /\ \A i \in Records : hooks'[i].target = ins'[t].func => i = ins'[t].idx
             /\ lib'.at = "restore" /\ ins'[Lib].func = ins'[t].func => ins'[t].idx < lib'.i
  <2>1. CASE t # p
    <3>1. ins'[t] = ins[t] /\ ins[t].at # "idle" /\ ins[t].func # None
      BY <1>0, <1>2, <2>1, MethodIsNoNative DEF Recorded
    <3>. QED
      BY <1>0, <1>2, <2>1, <3>1, OthersEnterNatives DEF Entered
  <2>2. CASE t = p /\ Record(p)
    <3>1. ins[t].at = "record" /\ ins'[t].func = ins[t].func /\ ins'[t].idx = count
      BY <1>0, <2>2, RecordDoes DEF Same
    <3>2. \A i \in Records : hooks'[i].target = IF i = count THEN ins[p].func ELSE hooks[i].target
      BY <1>0, <2>2, RecordWrites
    <3>3. ins[Lib].func # ins[t].func /\ ins[t].func # None
      BY <3>1, MethodIsNoNative DEF Entered
    <3>. QED
      BY <1>0, <2>2, <3>1, <3>2, <3>3 DEF Entered
  <2>3. CASE t = p /\ ~Record(p)
    <3>1. ~Check(p) /\ ~StoreCount(p)
      BY <1>0, <1>2, <2>3, CheckDoes, StoreCountDoes, IdleIsTyped DEF Recorded
    <3>2. /\ ins[t].at \in Recorded /\ ins'[t].func = ins[t].func /\ ins'[t].idx = ins[t].idx
          /\ \A i \in Records : hooks'[i].target = hooks[i].target
      <4>1. CASE Save(p)
        BY <1>0, <2>3, <4>1, SaveDoes, SaveWrites DEF Recorded, Alike, Same
      <4>2. CASE Patch(p)
        BY <1>0, <2>3, <4>2, PatchDoes DEF Recorded, Alike, Same
      <4>3. CASE LoadCount(p)
        BY <1>0, <2>3, <4>3, LoadCountDoes DEF Recorded, Same
      <4>. QED
        BY <2>3, <3>1, <4>1, <4>2, <4>3 DEF Install
    <3>3. ins[t].func # None
      BY <3>2, MethodIsNoNative DEF Recorded
    <3>. QED
      BY <1>0, <3>2, <3>3 DEF Entered
  <2>. QED
    BY <2>1, <2>2, <2>3
<1>. QED
  BY <1>1, <1>2 DEF Entered

(* Nobody saves the loop that another one's patching has put there, but     *)
(* where it will not be restored from.                                      *)
LEMMA SavedInTime ==
    ASSUME Ground, Loops, NEW p \in Actors, ins[p].at = "orig", head[ins[p].func] = "spin"
    PROVE  lib.at \notin {"init", "up"} /\ (lib.at = "restore" => ins[p].idx < lib.i)
<1>0. Roles /\ ins[p].func \in Funcs
  BY Names DEF Ground, Roles, Typed, Actors
<1>1. CASE gaveUp
  BY <1>0, <1>1 DEF Roles
<1>2. CASE ~gaveUp
  <2>1. PICK q \in Actors : ins[q].func = ins[p].func /\ ins[q].at \in {"tail", "head"}
    BY <1>0, <1>2 DEF Loops, LoopIsLeft
  <2>2. Lib \in {p, q} /\ p # q
    BY <1>0, <2>1, OneIsLib
  <2>3. CASE p = Lib
    <3>1. q \in Threads /\ lib.at = "init"
      BY <1>0, <2>2, <2>3, Names DEF Roles
    <3>. QED
      BY <2>1, <2>3, <3>1, MethodIsNoNative
  <2>4. CASE q = Lib
    <3>1. p \in Threads /\ ins[p].at \in Recorded
      BY <2>2, <2>4, Names DEF Recorded
    <3>2. lib.at = "restore"
      BY <1>0, <2>1, <2>4, <3>1, MethodIsNoNative DEF Roles, Recorded
    <3>. QED
      BY <2>1, <2>4, <3>1, <3>2 DEF Loops, Entered
  <2>. QED
    BY <2>2, <2>3, <2>4
<1>. QED
  BY <1>1, <1>2

LEMMA InstallLoops ==
    ASSUME Ground, Loops, NEW p \in Actors, Install(p)
    PROVE  Loops'
<1>0. /\ Typed /\ Roles /\ lib' = lib /\ gaveUp' = gaveUp /\ \A q \in Actors \ {p} : ins'[q] = ins[q]
      /\ LoopIsNotSaved /\ LoopIsLeft
  BY InstallShape DEF Ground, Loops
<1>1. Entered'
  BY InstallEntered DEF Loops
<1>2. LoopIsNotSaved'
  <2>1. \A q \in Actors : ins'[q].at # "idle" => ins'[q].bytes[1] # "spin"
    BY <1>0, InstallShape, IdleIsTyped DEF LoopIsNotSaved, Same
  <2>2. ASSUME NEW i \in Records, hooks'[i].orig[1] = "spin"
        PROVE  lib.at \notin {"init", "up"} /\ (lib.at = "restore" => i < lib.i)
    <3>1. CASE hooks'[i].orig = hooks[i].orig
      BY <1>0, <2>2, <3>1 DEF LoopIsNotSaved
    <3>2. CASE Save(p)
      <4>1. ins[p].at = "orig" /\ hooks'[i].orig \in {<<head[ins[p].func], tail[ins[p].func]>>, hooks[i].orig}
            /\ (i # ins[p].idx => hooks'[i].orig = hooks[i].orig)
        BY <1>0, <3>2, SaveDoes, SaveWrites
      <4>2. CASE i = ins[p].idx /\ hooks'[i].orig = <<head[ins[p].func], tail[ins[p].func]>>
        <5>1. head[ins[p].func] = "spin"
          BY <2>2, <4>2
        <5>. QED
          BY <4>1, <4>2, <5>1, SavedInTime
      <4>. QED
        BY <3>1, <4>1, <4>2
    <3>3. CASE ~Save(p)
      <4>1. hooks'[i].orig = hooks[i].orig
        BY <1>0, <3>3, RecordWrites, CheckDoes, PatchDoes, LoadCountDoes, StoreCountDoes DEF Install
      <4>. QED
        BY <3>1, <4>1
    <3>. QED
      BY <3>2, <3>3
  <2>. QED
    BY <1>0, <2>1, <2>2 DEF LoopIsNotSaved
<1>3. LoopIsLeft'
  <2>1. CASE ~Patch(p)
    <3>1. head' = head
      BY <1>0, <2>1, CheckDoes, RecordDoes, SaveDoes, LoadCountDoes, StoreCountDoes DEF Install
    <3>2. ins[p].at \notin {"tail", "head"}
      BY <1>0, <2>1, CheckDoes, RecordDoes, SaveDoes, LoadCountDoes, StoreCountDoes DEF Install
    <3>. QED
      BY <1>0, <3>1, <3>2 DEF LoopIsLeft
  <2>2. CASE Patch(p)
    <3>1. ins[p].bytes[1] # "spin"
      BY <1>0, <2>2, PatchDoes DEF LoopIsNotSaved
    <3>2. ins'[p].func = ins[p].func
      BY <1>0, <2>2, PatchDoes DEF Alike, Same
    <3>3. CASE ins[p].at = "tail"
      <4>1. head' = head /\ ins'[p].at = "head"
        BY <1>0, <2>2, <3>3, PatchDoes
      <4>. QED
        BY <1>0, <3>2, <4>1 DEF LoopIsLeft
    <3>4. CASE ins[p].at \in {"spin", "head"} /\ head' = [head EXCEPT ![ins[p].func] = ins[p].bytes[1]]
      <4>1. \A f \in Funcs : head'[f] = "spin" => head[f] = "spin" /\ ins[p].func # f
        BY <1>0, <3>1, <3>4 DEF Typed
      <4>. QED
        BY <1>0, <4>1 DEF LoopIsLeft
    <3>5. CASE ins[p].at = "spin" /\ head' = [head EXCEPT ![ins[p].func] = "spin"] /\ ins'[p].at = "tail"
      <4>1. \A f \in Funcs : head'[f] = "spin" => head[f] = "spin" \/ ins[p].func = f
        BY <1>0, <3>5 DEF Typed
      <4>. QED
        BY <1>0, <3>2, <3>5, <4>1 DEF LoopIsLeft
    <3>. QED
      BY <1>0, <2>2, <3>3, <3>4, <3>5, PatchDoes
  <2>. QED
    BY <2>1, <2>2
<1>. QED
  BY <1>1, <1>2, <1>3 DEF Loops
LEMMA ScanLoops ==
    ASSUME Types, Ground, Loops, NEW t \in Threads, Scan(t)
    PROVE  Loops'
<1>0. /\ Types /\ Typed /\ Roles /\ Entered /\ LoopIsNotSaved /\ LoopIsLeft
      /\ t \in Actors /\ t # Lib /\ Lib \in Actors
  BY Names DEF Ground, Loops
<1>1. /\ ins[t].at = "idle"
      /\ \A p \in Actors \ {t} : ins'[p] = ins[p]
      /\ UNCHANGED <<head, tail, hooks, count, lib, gaveUp>>
  BY <1>0, ScanDoes
<1>2. ASSUME UNCHANGED ins PROVE Loops'
  BY <1>0, <1>1, <1>2 DEF Loops, Entered, LoopIsNotSaved, LoopIsLeft
<1>3. ASSUME NEW f \in Methods \ tried, ins'[t] = [Idle EXCEPT !.at = "check", !.func = f]
      PROVE  Loops'
  <2>1. ins'[t].at = "check" /\ ins'[t].func = f /\ ins'[t].bytes = Jmp
    BY <1>3 DEF Idle
  <2>2. f \notin Hooked
    BY <1>3, Names DEF Hooked
  <2>3. ins'[Lib].func # f /\ \A i \in Records : hooks'[i].target # f
    BY <1>0, <1>1, <2>2 DEF Roles
  <2>4. Entered'
    BY <1>0, <1>1, <2>1, <2>3, Names DEF Entered, Recorded
  <2>5. LoopIsNotSaved'
    BY <1>0, <1>1, <2>1, IdleIsTyped DEF LoopIsNotSaved
  <2>6. LoopIsLeft'
    BY <1>0, <1>1, <2>1 DEF LoopIsLeft
  <2>. QED
    BY <2>4, <2>5, <2>6 DEF Loops
<1>. QED
  BY <1>0, <1>2, <1>3, ScanDoes

(* A thread that dies in the middle of a patch: only in a library that was  *)
(* unmapped under it.                                                       *)
LEMMA FaultsLoops ==
    ASSUME IInv, Ground, Loops, NEW t \in Threads, Faults(t)
    PROVE  Loops'
<1>0. /\ Types /\ Typed /\ Roles /\ Entered /\ LoopIsNotSaved /\ LoopIsLeft
      /\ t \in Actors /\ t # Lib /\ Lib \in Actors
  BY Names DEF IInv, Ground, Loops
<1>1. /\ ins'[t] = Idle /\ ins'[t].at = "idle" /\ InHandler(t) /\ ~mapped
      /\ \A p \in Actors \ {t} : ins'[p] = ins[p]
      /\ UNCHANGED <<head, tail, hooks, count, lib, gaveUp>>
  BY <1>0, FaultsDoes, IdleIsTyped
<1>2. gaveUp'
  BY <1>1 DEF IInv, Drained, NobodyInside
<1>3. Entered'
  BY <1>0, <1>1, Names DEF Entered, Recorded
<1>4. LoopIsNotSaved' /\ LoopIsLeft'
  BY <1>0, <1>1, <1>2 DEF LoopIsNotSaved, LoopIsLeft
<1>. QED
  BY <1>3, <1>4 DEF Loops

LEMMA InstallNextLoops ==
    ASSUME Types, Ground, Loops, InstallNext
    PROVE  Loops'
<1>0. /\ Types /\ Typed /\ Roles /\ Entered /\ LoopIsNotSaved /\ LoopIsLeft /\ Lib \in Actors
      /\ Actors \ {Lib} = Threads
  BY Names DEF Ground, Loops
<1>1. /\ lib.at = "init" /\ ins[Lib].at = "idle" /\ lib'.at \in {"init", "up"}
      /\ \A p \in Threads : ins'[p] = ins[p]
      /\ UNCHANGED <<head, tail, hooks, count, gaveUp>>
  BY <1>0, InstallNextDoes DEF Types
<1>2. ASSUME UNCHANGED ins PROVE Loops'
  BY <1>0, <1>1, <1>2 DEF Loops, Entered, LoopIsNotSaved, LoopIsLeft
<1>3. ASSUME lib.i <= Len(Natives), ins'[Lib] = [Idle EXCEPT !.at = "check", !.func = Natives[lib.i]]
      PROVE  Loops'
  <2>1. lib.i \in DOMAIN Natives
    BY <1>0, <1>1, <1>3, EngineAssumption DEF Types, Roles
  <2>2. ins'[Lib].at = "check" /\ ins'[Lib].func \in NativeSet /\ ins'[Lib].bytes = Jmp
    BY <1>3, <2>1 DEF Idle, NativeSet
  <2>3. \A t \in Threads : ins[t].at # "idle" => ins[t].func \notin NativeSet
    BY MethodIsNoNative
  <2>4. Entered'
    BY <1>0, <1>1, <2>2, <2>3 DEF Entered, Recorded
  <2>5. LoopIsNotSaved'
    BY <1>0, <1>1, <2>2, IdleIsTyped DEF LoopIsNotSaved
  <2>6. LoopIsLeft'
    BY <1>0, <1>1, <2>2 DEF LoopIsLeft
  <2>. QED
    BY <2>4, <2>5, <2>6 DEF Loops
<1>. QED
  BY <1>0, <1>2, <1>3, InstallNextDoes

LEMMA DisableLoops ==
    ASSUME Types, Ground, Loops, Disable
    PROVE  Loops'
<1>0. /\ Roles /\ Entered /\ LoopIsNotSaved /\ LoopIsLeft
  BY DEF Ground, Loops
<1>1. /\ lib.at = "up" /\ lib'.at = "restore" /\ ins[Lib].at = "idle"
      /\ UNCHANGED <<head, tail, hooks, count, ins, gaveUp>>
  BY <1>0, DisableDoes DEF Roles
<1>2. \A t \in Threads : ins[t].at # "idle" => ins[Lib].func # ins[t].func
  BY <1>0, <1>1, MethodIsNoNative DEF Roles
<1>3. Entered'
  BY <1>0, <1>1, <1>2 DEF Entered, Recorded
<1>4. LoopIsNotSaved' /\ LoopIsLeft'
  BY <1>0, <1>1 DEF LoopIsNotSaved, LoopIsLeft
<1>. QED
  BY <1>3, <1>4 DEF Loops

LEMMA RestoreNextLoops ==
    ASSUME Types, Ground, Loops, RestoreNext
    PROVE  Loops'
<1>0. /\ Types /\ Typed /\ Roles /\ Entered /\ LoopIsNotSaved /\ LoopIsLeft /\ Lib \in Actors
      /\ Actors \ {Lib} = Threads /\ lib.i \in Nat
  BY Names DEF Ground, Loops, Types
<1>1. /\ lib.at = "restore" /\ ins[Lib].at \in {"idle", "restored"}
      /\ \A p \in Threads : ins'[p] = ins[p]
      /\ UNCHANGED <<head, tail, hooks, gaveUp>>
  BY <1>0, RestoreNextDoes
<1>2. ASSUME lib.i < count, lib' = [lib EXCEPT !.i = @ + 1],
             ins'[Lib] = [Idle EXCEPT !.at = "spin", !.func = hooks[lib.i].target,
                                     !.bytes = hooks[lib.i].orig]
      PROVE  Loops'
  <2>1. lib'.at = "restore" /\ lib'.i = lib.i + 1 /\ lib.i \in Records
    BY <1>0, <1>1, <1>2, PlaceIsRecord DEF Types
  <2>2. ins'[Lib].at = "spin" /\ ins'[Lib].func = hooks[lib.i].target
        /\ ins'[Lib].bytes = hooks[lib.i].orig
    BY <1>2 DEF Idle
  <2>3. hooks[lib.i].orig[1] # "spin"
    BY <1>0, <1>1, <2>1 DEF LoopIsNotSaved
  <2>4. ASSUME NEW t \in Threads, ins'[t].at \in {"check", "record"}
        PROVE  /\ ins'[Lib].func # ins'[t].func
               /\ \A i \in Records : hooks'[i].target # ins'[t].func
    BY <1>0, <1>1, <2>1, <2>2, <2>4 DEF Entered
  <2>5. ASSUME NEW t \in Threads, ins'[t].at \in Recorded
        PROVE  /\ \A i \in Records : hooks'[i].target = ins'[t].func => i = ins'[t].idx
               /\ ins'[Lib].func = ins'[t].func => ins'[t].idx < lib'.i
    <3>1. \A i \in Records : hooks[i].target = ins[t].func => i = ins[t].idx
      BY <1>0, <1>1, <2>5 DEF Entered
    <3>2. hooks[lib.i].target = ins[t].func => lib.i = ins[t].idx
      BY <2>1, <3>1
    <3>. QED
      BY <1>0, <1>1, <2>1, <2>2, <3>1, <3>2
  <2>6. Entered'
    BY <2>4, <2>5 DEF Entered
  <2>7. LoopIsNotSaved'
    <3>1. \A p \in Actors : ins'[p].at # "idle" => ins'[p].bytes[1] # "spin"
      BY <1>0, <1>1, <2>2, <2>3 DEF LoopIsNotSaved
    <3>2. \A i \in Records : hooks[i].orig[1] = "spin" => i < lib.i + 1
      BY <1>0, <1>1 DEF LoopIsNotSaved, Records
    <3>. QED
      BY <1>1, <2>1, <3>1, <3>2 DEF LoopIsNotSaved
  <2>8. LoopIsLeft'
    BY <1>0, <1>1, <2>2 DEF LoopIsLeft
  <2>. QED
    BY <2>6, <2>7, <2>8 DEF Loops
<1>3. ASSUME ins'[Lib] = Idle, lib' = [at |-> "drain", i |-> 0]
      PROVE  Loops'
  <2>1. lib'.at = "drain" /\ ins'[Lib].at = "idle" /\ ins'[Lib].func = None
    BY <1>3, IdleIsTyped
  <2>2. \A t \in Threads : ins[t].at # "idle" => ins[t].func # None
    BY MethodIsNoNative
  <2>3. Entered'
    BY <1>0, <1>1, <2>1, <2>2 DEF Entered, Recorded
  <2>4. LoopIsNotSaved' /\ LoopIsLeft'
    BY <1>0, <1>1, <2>1 DEF LoopIsNotSaved, LoopIsLeft
  <2>. QED
    BY <2>3, <2>4 DEF Loops
<1>. QED
  BY <1>0, <1>2, <1>3, RestoreNextDoes

LEMMA WriteNowhereLoops ==
    ASSUME Types, Ground, Loops, WriteNowhere
    PROVE  Loops'
<1>0. /\ Types /\ Typed /\ Entered /\ LoopIsNotSaved /\ LoopIsLeft /\ Lib \in Actors
      /\ Actors \ {Lib} = Threads
  BY Names DEF Ground, Loops
<1>1. /\ ins[Lib].at = "spin" /\ lib' = [lib EXCEPT !.at = "crashed"]
      /\ ins'[Lib].at = "idle" /\ ins'[Lib].func = None
      /\ \A p \in Threads : ins'[p] = ins[p]
      /\ UNCHANGED <<head, tail, hooks, count, gaveUp>>
  BY <1>0, WriteNowhereDoes, IdleIsTyped
<1>2. lib'.at = "crashed"
  BY <1>0, <1>1 DEF Types
<1>3. \A t \in Threads : ins[t].at # "idle" => ins[t].func # None
  BY MethodIsNoNative
<1>4. Entered'
  BY <1>0, <1>1, <1>2, <1>3 DEF Entered, Recorded
<1>5. LoopIsNotSaved' /\ LoopIsLeft'
  BY <1>0, <1>1, <1>2 DEF LoopIsNotSaved, LoopIsLeft
<1>. QED
  BY <1>4, <1>5 DEF Loops

LEMMA LoopsKept == IInv /\ Ground /\ Loops /\ [Next]_vars => Loops'
<1>0. IInv => Types
  BY DEF IInv
<1>1. ASSUME Types, Ground, Loops, NEW t \in Threads, Elsewhere(t) PROVE Loops'
  <2>1. UNCHANGED <<head, tail, hooks, lib, ins, gaveUp>>
    BY <1>1, ElsewhereDoes
  <2>. QED
    BY <1>1, <2>1 DEF Loops, Entered, LoopIsNotSaved, LoopIsLeft
<1>2. ASSUME Types, Ground, Loops, Ending PROVE Loops'
  <2>1. /\ lib.at \in {"drain", "drop", "close", "unmap"} /\ (gaveUp => gaveUp')
        /\ lib'.at \in {"drop", "close", "unmap", "gone"} /\ UNCHANGED <<head, tail, hooks, ins>>
    BY <1>2, EndingDoes
  <2>. QED
    BY <1>2, <2>1 DEF Loops, Entered, LoopIsNotSaved, LoopIsLeft
<1>3. ASSUME IInv, Ground, Loops, NEW t \in Threads, Runs(t) \/ \E f \in Funcs : Call(t, f)
      PROVE  Loops'
  <2>1. t \in Actors
    BY Names
  <2>. QED
    BY <1>0, <1>1, <1>3, <2>1, InstallLoops, ScanLoops, FaultsLoops DEF Runs, Elsewhere
<1>4. ASSUME Types, Ground, Loops, Install(Lib) \/ InstallNext \/ Disable \/ Unload PROVE Loops'
  <2>1. Lib \in Actors
    BY Names
  <2>. QED
    BY <1>2, <1>4, <2>1, InstallLoops, InstallNextLoops, DisableLoops, RestoreNextLoops,
       WriteNowhereLoops DEF Unload, Ending
<1>5. ASSUME Loops, UNCHANGED vars PROVE Loops'
  <2>1. UNCHANGED <<head, tail, hooks, lib, ins, gaveUp>>
    BY <1>5 DEF vars, code, table
  <2>. QED
    BY <1>5, <2>1 DEF Loops, Entered, LoopIsNotSaved, LoopIsLeft
<1>. QED
  BY <1>0, <1>3, <1>4, <1>5 DEF Next
-----------------------------------------------------------------------------
(* One installation after the other: the steps of an installation while     *)
(* nothing is taken out yet.                                                *)

BuildingUp == Building /\ TableIsWhole /\ Legible

(* The installer is the only one. *)
LEMMA TheInstaller ==
    ASSUME Ground, BuildingUp, lib.at \in {"init", "up"}, NEW p \in Actors, Recording(p)
    PROVE  /\ Placed(p) /\ count \in Records /\ ins[p].func \in Funcs /\ ins[p].bytes = Jmp
           /\ Installs(p) /\ Written(p) = "load"
           /\ \A q \in Actors \ {p} : ~Recording(q)
<1>1. Placed(p) /\ \A q \in Actors \ {p} : ~Recording(q)
  BY DEF BuildingUp, Building
<1>2. ins[p].at # "idle" /\ ins[p].at # "restored"
  BY DEF Recording
<1>3. (p = Lib => lib.at = "init") /\ ins[p].func \in Funcs /\ ins[p].bytes = Jmp
  BY <1>2, Names DEF Ground, Roles, Typed, Actors
<1>4. Installs(p) /\ Written(p) = "load"
  BY <1>3 DEF Installs, Written
<1>. QED
  BY <1>1, <1>3, <1>4, RoomForRecord

LEMMA CheckBuilds ==
    ASSUME Ground, BuildingUp, lib.at \in {"init", "up"}, NEW p \in Actors, Check(p), ~raced'
    PROVE  BuildingUp'
<1>0. Typed /\ count \in Nat
  BY DEF Ground, Typed
<1>1. /\ ins[p].at = "check" /\ \A q \in Actors \ {p} : ins'[q] = ins[q]
      /\ UNCHANGED <<head, tail, hooks, count>>
  BY <1>0, CheckDoes
<1>2. TableIsWhole' /\ Legible' /\ \A f, i : InTable(f, i)' <=> InTable(f, i)
  BY <1>1 DEF BuildingUp, TableIsWhole, Legible, Own, InTable
<1>3. ASSUME ins'[p].at \notin Recorded
      PROVE  \A f \in Funcs :
                \/ Own(f)' \/ InTable(f, 0)'
                \/ \E q \in Actors : ins'[q].func = f /\ ins'[q].at \in {"tail", "head", "load", "store"}
  BY <1>1, <1>2 DEF BuildingUp, Building, Own
<1>4. CASE ins'[p] = Idle
  <2>1. ins'[p].at = "idle" /\ ~Recording(p)'
    BY <1>4, IdleIsTyped DEF Recording
  <2>2. \A q \in Actors \ {p} : (Recording(q)' <=> Recording(q)) /\ (Placed(q)' <=> Placed(q))
    BY <1>1, <1>2 DEF Recording, Placed
  <2>3. Building'
    BY <1>1, <1>2, <1>3, <2>1, <2>2 DEF BuildingUp, Building, Recorded
  <2>. QED
    BY <1>2, <2>3 DEF BuildingUp
<1>5. CASE /\ ins'[p].at = "record" /\ Same(ins[p], ins'[p])
           /\ \A i \in 0 .. count - 1 : hooks[i].target # ins[p].func
           /\ \A q \in Actors \ {p} : ~Recording(q)
  <2>1. \A q \in Actors \ {p} : ~Recording(q)'
    BY <1>1, <1>5 DEF Recording
  <2>2. Placed(p)'
    <3>1. ~InTable(ins[p].func, 0)
      BY <1>0, <1>5, Names DEF InTable, Records
    <3>. QED
      BY <1>2, <1>5, <3>1 DEF Placed, Same
  <2>3. Building'
    BY <1>3, <1>5, <2>1, <2>2 DEF Building, Recorded
  <2>. QED
    BY <1>2, <2>3 DEF BuildingUp
<1>. QED
  BY <1>0, <1>4, <1>5, CheckDoes DEF Alike

LEMMA RecordBuilds ==
    ASSUME Ground, BuildingUp, lib.at \in {"init", "up"}, NEW p \in Actors, Record(p)
    PROVE  BuildingUp'
<1>0. Typed /\ count \in Nat /\ Recording(p)
  BY RecordDoes DEF Ground, Typed, Recording
<1>1. /\ ins[p].at = "record" /\ \A q \in Actors \ {p} : ins'[q] = ins[q]
      /\ ins'[p].at = "orig" /\ ins'[p].func = ins[p].func /\ ins'[p].idx = count
      /\ UNCHANGED <<head, tail, count>>
  BY <1>0, RecordDoes DEF Same
<1>2. \A i \in Records : /\ hooks'[i].orig = hooks[i].orig
                         /\ hooks'[i].target = IF i = count THEN ins[p].func ELSE hooks[i].target
  BY <1>0, RecordWrites
<1>3. Placed(p) /\ count \in Records /\ \A q \in Actors \ {p} : ~Recording(q)
  BY <1>0, TheInstaller
<1>4. Legible' /\ TableIsWhole'
  BY <1>0, <1>1, <1>2 DEF BuildingUp, TableIsWhole, Legible, Own
<1>5. \A f, i : InTable(f, i)' <=> InTable(f, i)
  BY <1>0, <1>1, <1>2 DEF InTable
<1>6. Placed(p)'
  BY <1>1, <1>2, <1>3, <1>5 DEF Placed
<1>7. \A q \in Actors \ {p} : ~Recording(q)'
  BY <1>1, <1>3 DEF Recording
<1>8. ASSUME NEW f \in Funcs
      PROVE  \/ Own(f)' \/ InTable(f, 0)'
             \/ \E q \in Actors : ins'[q].func = f /\ ins'[q].at \in {"tail", "head", "load", "store"}
  BY <1>1, <1>5 DEF BuildingUp, Building, Own
<1>. QED
  BY <1>4, <1>6, <1>7, <1>8 DEF BuildingUp, Building

LEMMA SaveBuilds ==
    ASSUME Ground, BuildingUp, lib.at \in {"init", "up"}, NEW p \in Actors, Save(p)
    PROVE  BuildingUp'
<1>0. Typed /\ count \in Nat /\ Recording(p)
  BY SaveDoes DEF Ground, Typed, Recording
<1>1. /\ ins[p].at = "orig" /\ \A q \in Actors \ {p} : ins'[q] = ins[q]
      /\ ins'[p].at = "spin" /\ ins'[p].func = ins[p].func /\ ins'[p].idx = ins[p].idx
      /\ UNCHANGED <<head, tail, count>>
  BY <1>0, SaveDoes DEF Alike, Same
<1>2. /\ Placed(p) /\ count \in Records /\ ins[p].func \in Funcs
      /\ \A q \in Actors \ {p} : ~Recording(q)
  BY <1>0, TheInstaller
<1>3. ins[p].idx = count
  BY <1>1, <1>2 DEF Placed
<1>4. \A i \in Records :
         /\ hooks'[i].target = hooks[i].target
         /\ hooks'[i].orig = IF i = count THEN <<head[ins[p].func], tail[ins[p].func]>> ELSE hooks[i].orig
  BY <1>0, <1>3, SaveWrites
<1>5. Own(ins[p].func)
  BY <1>1, <1>2 DEF BuildingUp, Building, Placed, Recording
<1>6. Legible' /\ TableIsWhole'
  BY <1>0, <1>1, <1>4 DEF BuildingUp, TableIsWhole, Legible, Own
<1>7. \A f, i : InTable(f, i)' <=> InTable(f, i)
  BY <1>0, <1>1, <1>4 DEF InTable
<1>8. Placed(p)'
  BY <1>1, <1>2, <1>4, <1>5, <1>7 DEF Placed, Own
<1>9. \A q \in Actors \ {p} : ~Recording(q)'
  BY <1>1, <1>2 DEF Recording
<1>10. ASSUME NEW f \in Funcs
      PROVE  \/ Own(f)' \/ InTable(f, 0)'
             \/ \E q \in Actors : ins'[q].func = f /\ ins'[q].at \in {"tail", "head", "load", "store"}
  BY <1>1, <1>7 DEF BuildingUp, Building, Own
<1>. QED
  BY <1>6, <1>8, <1>9, <1>10 DEF BuildingUp, Building

LEMMA PatchBuilds ==
    ASSUME Ground, BuildingUp, lib.at \in {"init", "up"}, NEW p \in Actors, Patch(p)
    PROVE  BuildingUp'
<1>. DEFINE f == ins[p].func
<1>0. Typed /\ count \in Nat /\ Recording(p)
  BY PatchDoes DEF Ground, Typed, Recording
<1>1. /\ \A q \in Actors \ {p} : ins'[q] = ins[q]
      /\ ins'[p].func = f /\ ins'[p].idx = ins[p].idx
      /\ UNCHANGED <<hooks, count>>
  BY <1>0, PatchDoes DEF Alike, Same
<1>2. /\ Placed(p) /\ f \in Funcs /\ \A q \in Actors \ {p} : ~Recording(q)
      /\ ins[p].bytes[1] = "jmp" /\ ins[p].bytes[2] = "jmp" /\ Written(p) = "load"
  BY <1>0, TheInstaller, IdleIsTyped
<1>3. TableIsWhole' /\ \A g, i : InTable(g, i)' <=> InTable(g, i)
  BY <1>1 DEF BuildingUp, TableIsWhole, InTable
<1>4. \A g \in Funcs \ {f} : head'[g] = head[g] /\ tail'[g] = tail[g]
  BY <1>0, PatchDoes DEF Typed, Patch
<1>5. /\ ins[p].at \in {"spin", "tail", "head"} /\ ins'[p].at \in {"tail", "head", "load"}
      /\ ins'[p].at \in {"tail", "head"} => head'[f] = "spin"
      /\ ins'[p].at \in {"head", "load"} => tail'[f] = "jmp"
      /\ ins'[p].at = "load" => head'[f] = "jmp"
  <2>1. head \in [Funcs -> Codes] /\ tail \in [Funcs -> Codes]
    BY <1>0 DEF Typed
  <2>. QED
    BY <1>0, <1>2, <2>1, PatchDoes DEF Placed
<1>6. Legible'
  BY <1>2, <1>4, <1>5 DEF BuildingUp, Legible, Own
<1>7. Placed(p)'
  BY <1>1, <1>2, <1>3, <1>5 DEF Placed
<1>8. \A q \in Actors \ {p} : ~Recording(q)'
  BY <1>1, <1>2 DEF Recording
<1>9. ASSUME NEW g \in Funcs
      PROVE  \/ Own(g)' \/ InTable(g, 0)'
             \/ \E q \in Actors : ins'[q].func = g /\ ins'[q].at \in {"tail", "head", "load", "store"}
  <2>1. CASE g = f
    BY <1>1, <1>5, <2>1
  <2>2. CASE g # f
    BY <1>1, <1>3, <1>4, <2>2 DEF BuildingUp, Building, Own
  <2>. QED
    BY <2>1, <2>2
<1>. QED
  BY <1>3, <1>6, <1>7, <1>8, <1>9 DEF BuildingUp, Building

LEMMA CountBuilds ==
    ASSUME Ground, BuildingUp, lib.at \in {"init", "up"}, NEW p \in Actors, LoadCount(p) \/ StoreCount(p)
    PROVE  BuildingUp'
<1>f. PICK f : f = ins[p].func
  OBVIOUS
<1>0. Typed /\ count \in Nat /\ Recording(p)
  BY LoadCountDoes, StoreCountDoes DEF Ground, Typed, Recording
<1>1. /\ \A q \in Actors \ {p} : ins'[q] = ins[q]
      /\ UNCHANGED <<head, tail, hooks>>
  BY <1>0, LoadCountDoes, StoreCountDoes
<1>2. /\ Placed(p) /\ f \in Funcs /\ count \in Records /\ \A q \in Actors \ {p} : ~Recording(q)
  BY <1>f, <1>0, TheInstaller
<1>3. Legible' /\ \A q \in Actors \ {p} : ~Recording(q)'
  BY <1>1, <1>2 DEF BuildingUp, Legible, Own, Recording
<1>4. CASE LoadCount(p)
  <2>1. /\ ins[p].at = "load" /\ ins'[p].at = "store" /\ ins'[p].func = f /\ ins'[p].idx = ins[p].idx
        /\ ins'[p].n = count + 1 /\ count' = count
    BY <1>f, <1>0, <1>4, LoadCountDoes DEF Same
  <2>2. TableIsWhole' /\ \A g, i : InTable(g, i)' <=> InTable(g, i)
    BY <1>1, <2>1 DEF BuildingUp, TableIsWhole, InTable
  <2>3. Placed(p)'
    BY <1>f, <1>1, <1>2, <2>1, <2>2 DEF Placed
  <2>4. ASSUME NEW g \in Funcs
        PROVE  \/ Own(g)' \/ InTable(g, 0)'
               \/ \E q \in Actors : ins'[q].func = g /\ ins'[q].at \in {"tail", "head", "load", "store"}
    BY <1>f, <1>1, <2>1, <2>2 DEF BuildingUp, Building, Own
  <2>. QED
    BY <1>3, <2>2, <2>3, <2>4 DEF BuildingUp, Building
<1>5. CASE StoreCount(p)
  <2>1. ins[p].at = "store" /\ ins'[p].at = "idle" /\ count' = count + 1
    BY <1>0, <1>2, <1>5, StoreCountDoes, IdleIsTyped DEF Placed
  <2>2. hooks[count].target = f /\ hooks[count].orig = <<f, f>>
    BY <1>f, <1>2, <2>1 DEF Placed
  <2>3. TableIsWhole'
    BY <1>0, <1>1, <1>2, <2>1, <2>2 DEF BuildingUp, TableIsWhole, Records
  <2>4. (\A g : InTable(g, 0) => InTable(g, 0)') /\ InTable(f, 0)'
    BY <1>0, <1>1, <1>2, <2>1, <2>2 DEF InTable, Records
  <2>5. ~Recording(p)'
    BY <2>1 DEF Recording
  <2>6. ASSUME NEW g \in Funcs
        PROVE  \/ Own(g)' \/ InTable(g, 0)'
               \/ \E q \in Actors : ins'[q].func = g /\ ins'[q].at \in {"tail", "head", "load", "store"}
    <3>1. CASE Own(g) \/ InTable(g, 0)
      BY <1>1, <2>4, <3>1 DEF Own
    <3>2. CASE \E q \in Actors : ins[q].func = g /\ ins[q].at \in {"tail", "head", "load", "store"}
      BY <1>f, <1>1, <1>2, <2>4, <3>2 DEF Recording
    <3>. QED
      BY <3>1, <3>2 DEF BuildingUp, Building
  <2>. QED
    BY <1>3, <2>3, <2>5, <2>6 DEF BuildingUp, Building
<1>. QED
  BY <1>4, <1>5
(* The shutdown takes the hooks out while nobody installs any. *)
LEMMA LibRestores ==
    ASSUME Ground, ~raced, Unraced, lib.at = "restore", Install(Lib)
    PROVE  Unraced' /\ ~raced'
<1>. DEFINE f == ins[Lib].func
<1>0. Typed /\ Roles /\ Restoring /\ TableIsWhole /\ Legible /\ Lib \in Actors
  BY Names DEF Ground, Unraced
<1>1. Patch(Lib)
  <2>1. ins[Lib].at \in {"idle", "spin", "tail", "head", "restored"}
    BY <1>0 DEF Roles
  <2>. QED
    BY <1>0, <2>1, CheckDoes, RecordDoes, SaveDoes, LoadCountDoes, StoreCountDoes DEF Install
<1>2. /\ \A q \in Actors \ {Lib} : ins'[q] = ins[q]
      /\ ins'[Lib].func = f /\ ins'[Lib].bytes = ins[Lib].bytes
      /\ UNCHANGED <<hooks, count, lib, raced>>
  BY <1>0, <1>1, PatchDoes DEF Alike, Same
<1>3. /\ f \in Funcs /\ ins[Lib].bytes = <<f, f>> /\ Written(Lib) = "restored"
      /\ ins[Lib].at \in {"spin", "tail", "head"}
  BY <1>0, <1>1, PatchDoes DEF Restoring, Written
<1>4. \A g \in Funcs \ {f} : head'[g] = head[g] /\ tail'[g] = tail[g]
  BY <1>0, <1>1, PatchDoes DEF Typed, Patch
<1>5. /\ ins'[Lib].at \in {"tail", "head", "restored"}
      /\ ins'[Lib].at \in {"tail", "head"} => head'[f] = "spin"
      /\ ins'[Lib].at \in {"head", "restored"} => tail'[f] = f
      /\ ins'[Lib].at = "restored" => head'[f] = f
  <2>1. head \in [Funcs -> Codes] /\ tail \in [Funcs -> Codes]
    BY <1>0 DEF Typed
  <2>. QED
    BY <1>0, <1>1, <1>3, <2>1, PatchDoes DEF Restoring
<1>6. TableIsWhole' /\ \A g, i : InTable(g, i)' <=> InTable(g, i)
  BY <1>0, <1>2 DEF TableIsWhole, InTable
<1>7. Legible'
  BY <1>0, <1>3, <1>4, <1>5 DEF Legible, Own
<1>8. Restoring'
  <2>1. ASSUME NEW g \in Funcs
        PROVE  Own(g)' \/ InTable(g, lib.i)' \/ (g = f /\ ins'[Lib].at \in {"spin", "tail", "head"})
    <3>1. CASE g = f
      BY <1>3, <1>5, <3>1 DEF Own
    <3>2. CASE g # f
      BY <1>0, <1>2, <1>4, <1>6, <3>2 DEF Restoring, Own
    <3>. QED
      BY <3>1, <3>2
  <2>2. ins'[Lib].at \in {"tail", "head"} => head'[f] = "spin"
    BY <1>5
  <2>. QED
    BY <1>2, <1>3, <1>5, <2>1 DEF Restoring
<1>9. \A t \in Threads : ins'[t].at \in {"idle", "check", "record"}
  BY <1>2, Names DEF Unraced
<1>. QED
  BY <1>2, <1>6, <1>7, <1>8, <1>9 DEF Unraced

(* A game thread that has found room gets no further without being noticed. *)
LEMMA ThreadFindsRoom ==
    ASSUME Ground, Unraced, ~raced', lib.at \notin {"init", "up"}, NEW t \in Threads, Install(t)
    PROVE  Unraced'
<1>0. Typed /\ t \in Actors /\ t # Lib /\ ins[t].at \in {"idle", "check", "record"}
  BY Names DEF Ground, Unraced
<1>1. Check(t)
  BY <1>0, CheckDoes, RecordDoes, SaveDoes, PatchDoes, LoadCountDoes, StoreCountDoes DEF Install
<1>2. /\ \A q \in Actors \ {t} : ins'[q] = ins[q]
      /\ ins'[t].at \in {"idle", "record"}
      /\ UNCHANGED <<head, tail, hooks, count, lib>>
  BY <1>0, <1>1, CheckDoes, IdleIsTyped
<1>3. ins'[Lib] = ins[Lib] /\ \A u \in Threads : ins'[u].at \in {"idle", "check", "record"}
  BY <1>0, <1>2, Names DEF Unraced
<1>. QED
  BY <1>2, <1>3 DEF Unraced, Restoring, TableIsWhole, Legible, Own, InTable

LEMMA InstallWhole ==
    ASSUME Ground, ~raced => Unraced, NEW p \in Actors, Install(p), ~raced'
    PROVE  Unraced'
<1>0. Typed /\ Roles /\ ~raced /\ Unraced /\ lib' = lib
  <2>1. Typed
    BY DEF Ground
  <2>2. ~raced
    BY <2>1, CheckDoes, RecordDoes, SaveDoes, PatchDoes, LoadCountDoes, StoreCountDoes DEF Install
  <2>. QED
    BY <2>1, <2>2, InstallShape DEF Ground
<1>1. CASE lib.at \in {"init", "up"}
  <2>1. BuildingUp
    BY <1>0, <1>1 DEF Unraced, BuildingUp
  <2>2. BuildingUp'
    BY <1>1, <2>1, CheckBuilds, RecordBuilds, SaveBuilds, PatchBuilds, CountBuilds DEF Install
  <2>. QED
    BY <1>0, <1>1, <2>2 DEF Unraced, BuildingUp
<1>2. CASE lib.at \notin {"init", "up"} /\ p \in Threads
  BY <1>0, <1>2, ThreadFindsRoom
<1>3. CASE lib.at \notin {"init", "up"} /\ p = Lib
  <2>1. lib.at = "restore"
    BY <1>0, <1>3, InstallShape DEF Roles
  <2>. QED
    BY <1>0, <1>3, <2>1, LibRestores
<1>. QED
  BY <1>1, <1>2, <1>3, Names

LEMMA ScanWhole ==
    ASSUME Types, Ground, Unraced, NEW t \in Threads, Scan(t) \/ (Faults(t) /\ gaveUp)
    PROVE  Unraced'
<1>0. Types /\ Typed /\ Roles /\ t \in Actors /\ t # Lib /\ Actors \ {Lib} = Threads
  BY Names DEF Ground
<1>1. /\ \A p \in Actors \ {t} : ins'[p] = ins[p]
      /\ UNCHANGED <<head, tail, hooks, count, lib>>
  BY <1>0, ScanDoes, FaultsDoes
<1>2. ins'[t].at \in {"idle", "check"}
  <2>1. \A f : [Idle EXCEPT !.at = "check", !.func = f].at = "check"
    BY DEF Idle
  <2>. QED
    BY ZenonT(60), <1>0, <2>1, ScanDoes, FaultsDoes, IdleIsTyped
<1>3. lib.at \in {"init", "up"} => ins[t].at = "idle"
  BY <1>0, ScanDoes DEF Roles
<1>4. TableIsWhole' = TableIsWhole /\ Legible' = Legible /\ (Restoring' <=> Restoring)
      /\ (\A f : Own(f)' <=> Own(f)) /\ (\A f, i : InTable(f, i)' <=> InTable(f, i))
  BY <1>0, <1>1, Names DEF TableIsWhole, Legible, Restoring, Own, InTable
<1>5. lib.at \in {"init", "up"} /\ Building => Building'
  <2>. SUFFICES ASSUME lib.at \in {"init", "up"}, Building PROVE Building'
    OBVIOUS
  <2>1. \A p \in Actors : (Recording(p)' <=> Recording(p)) /\ (Recording(p)' => ins'[p] = ins[p])
    BY <1>1, <1>2, <1>3 DEF Recording
  <2>2. \A p \in Actors : Recording(p)' => Placed(p)'
    BY <1>1, <1>4, <2>1 DEF Building, Placed
  <2>3. ASSUME NEW f \in Funcs
        PROVE  \/ Own(f)' \/ InTable(f, 0)'
               \/ \E q \in Actors : ins'[q].func = f /\ ins'[q].at \in {"tail", "head", "load", "store"}
    BY <1>1, <1>3, <1>4 DEF Building
  <2>. QED
    BY <2>1, <2>2, <2>3 DEF Building
<1>6. lib.at \notin {"init", "up"} => \A u \in Threads : ins'[u].at \in {"idle", "check", "record"}
  BY <1>0, <1>1, <1>2 DEF Unraced
<1>. QED
  BY <1>1, <1>4, <1>5, <1>6 DEF Unraced

LEMMA InstallNextWhole ==
    ASSUME Types, Ground, Unraced, InstallNext
    PROVE  Unraced'
<1>0. Types /\ Typed /\ Lib \in Actors /\ Actors \ {Lib} = Threads
  BY Names DEF Ground
<1>1. /\ lib.at = "init" /\ ins[Lib].at = "idle" /\ lib'.at \in {"init", "up"}
      /\ \A p \in Threads : ins'[p] = ins[p]
      /\ UNCHANGED <<head, tail, hooks, count>>
  BY <1>0, InstallNextDoes DEF Types
<1>2. ins'[Lib].at \in {"idle", "check"}
  <2>1. \A f : [Idle EXCEPT !.at = "check", !.func = f].at = "check"
    BY DEF Idle
  <2>. QED
    BY <1>0, <1>1, <2>1, InstallNextDoes
<1>3. Building /\ TableIsWhole /\ Legible
  BY <1>1 DEF Unraced
<1>4. TableIsWhole' /\ Legible' /\ (\A f : Own(f)' <=> Own(f)) /\ (\A f, i : InTable(f, i)' <=> InTable(f, i))
  BY <1>1, <1>3 DEF TableIsWhole, Legible, Own, InTable
<1>5. Building'
  <2>1. \A p \in Actors : (Recording(p)' <=> Recording(p)) /\ (Recording(p)' => ins'[p] = ins[p])
    BY <1>0, <1>1, <1>2 DEF Recording
  <2>2. \A p \in Actors : Recording(p)' => Placed(p)'
    BY <1>1, <1>3, <1>4, <2>1 DEF Building, Placed
  <2>3. ASSUME NEW f \in Funcs
        PROVE  \/ Own(f)' \/ InTable(f, 0)'
               \/ \E q \in Actors : ins'[q].func = f /\ ins'[q].at \in {"tail", "head", "load", "store"}
    BY <1>0, <1>1, <1>3, <1>4 DEF Building
  <2>. QED
    BY <1>3, <2>1, <2>2, <2>3 DEF Building
<1>. QED
  BY <1>1, <1>4, <1>5 DEF Unraced
LEMMA DisableWhole ==
    ASSUME Types, Ground, Unraced, Disable, ~raced'
    PROVE  Unraced'
<1>0. Roles /\ Typed
  BY DEF Ground
<1>1. /\ lib.at = "up" /\ lib'.at = "restore" /\ lib'.i = 0 /\ ins[Lib].at = "idle"
      /\ \A t \in Threads : ~Recording(t)
      /\ UNCHANGED <<head, tail, hooks, count, ins>>
  <2>1. raced' = (raced \/ \E t \in Threads : Recording(t))
    BY DisableDoes
  <2>2. \A t \in Threads : ~Recording(t)
    BY <2>1
  <2>3. lib.at = "up" /\ lib'.at = "restore" /\ lib'.i = 0 /\ UNCHANGED <<head, tail, hooks, count, ins>>
    BY DisableDoes
  <2>4. ins[Lib].at = "idle"
    BY <1>0, <2>3 DEF Roles
  <2>. QED
    BY <2>2, <2>3, <2>4
<1>2. Building /\ TableIsWhole /\ Legible
  BY <1>1 DEF Unraced
<1>3. TableIsWhole' /\ Legible' /\ (\A f : Own(f)' <=> Own(f)) /\ (\A f, i : InTable(f, i)' <=> InTable(f, i))
  BY <1>1, <1>2 DEF TableIsWhole, Legible, Own, InTable
<1>4. \A t \in Threads : ins'[t].at \in {"idle", "check", "record"}
  <2>1. \A t \in Threads : ins[t].at \in Steps /\ ins[t].at # "restored"
    BY <1>0, Names DEF Typed, Roles
  <2>. QED
    BY <1>1, <2>1 DEF Steps, Recording
<1>5. \A p \in Actors : ins[p].at \notin {"tail", "head", "load", "store"}
  BY <1>1 DEF Recording, Actors
<1>6. \A g \in Funcs : Own(g) \/ InTable(g, 0)
  BY <1>2, <1>5 DEF Building
<1>7. Restoring'
  BY <1>1, <1>3, <1>6 DEF Restoring
<1>. QED
  BY <1>1, <1>3, <1>4, <1>7 DEF Unraced

LEMMA RestoreNextWhole ==
    ASSUME Types, Ground, Unraced, RestoreNext
    PROVE  Unraced'
<1>0. Types /\ Typed /\ Lib \in Actors /\ Actors \ {Lib} = Threads /\ lib.i \in Nat /\ count \in Nat
  BY Names DEF Ground, Types, Typed
<1>1. /\ lib.at = "restore" /\ ins[Lib].at \in {"idle", "restored"}
      /\ \A p \in Threads : ins'[p] = ins[p]
      /\ UNCHANGED <<head, tail, hooks>>
  BY <1>0, RestoreNextDoes
<1>2. /\ Restoring /\ TableIsWhole /\ Legible
      /\ \A t \in Threads : ins'[t].at \in {"idle", "check", "record"}
  BY <1>1 DEF Unraced
<1>3. Legible' /\ \A f : Own(f)' <=> Own(f)
  BY <1>1, <1>2 DEF Legible, Own
<1>4. \A g \in Funcs : Own(g) \/ InTable(g, lib.i)
  BY <1>1, <1>2 DEF Restoring
<1>5. ASSUME lib.i < count, count' = count, lib' = [lib EXCEPT !.i = @ + 1],
             ins'[Lib] = [Idle EXCEPT !.at = "spin", !.func = hooks[lib.i].target,
                                     !.bytes = hooks[lib.i].orig]
      PROVE  Unraced'
  <2>1. lib'.at = "restore" /\ lib'.i = lib.i + 1 /\ lib.i \in Records
    BY <1>0, <1>1, <1>5, PlaceIsRecord DEF Types
  <2>2. ins'[Lib].at = "spin" /\ ins'[Lib].func = hooks[lib.i].target
        /\ ins'[Lib].bytes = hooks[lib.i].orig
    BY <1>5 DEF Idle
  <2>3. hooks[lib.i].target \in Funcs /\ hooks[lib.i].orig = <<hooks[lib.i].target, hooks[lib.i].target>>
    BY <1>2, <1>5, <2>1 DEF TableIsWhole
  <2>4. \A g \in Funcs : InTable(g, lib.i) => g = hooks[lib.i].target \/ InTable(g, lib.i)'
    BY <1>0, <1>1, <1>5, <2>1 DEF InTable, Records
  <2>5. TableIsWhole'
    BY <1>1, <1>2, <1>5 DEF TableIsWhole
  <2>6. Restoring'
    BY <1>3, <1>4, <2>2, <2>3, <2>4 DEF Restoring
  <2>. QED
    BY <1>2, <1>3, <2>1, <2>5, <2>6 DEF Unraced
<1>6. ASSUME ~(lib.i < count), lib' = [at |-> "drain", i |-> 0]
      PROVE  Unraced'
  <2>1. \A g \in Funcs : ~InTable(g, lib.i)
    BY <1>0, <1>6, Names DEF InTable, Records
  <2>. QED
    BY <1>2, <1>3, <1>4, <1>6, <2>1 DEF Unraced
<1>. QED
  BY <1>0, <1>5, <1>6, RestoreNextDoes

(* Only a table in disorder has an empty record to restore. *)
LEMMA NothingWrittenNowhere ==
    ASSUME Ground, Unraced, WriteNowhere
    PROVE  FALSE
<1>1. Typed /\ Roles
  BY DEF Ground
<1>2. ins[Lib].at = "spin" /\ ins[Lib].func = None
  BY <1>1, WriteNowhereDoes
<1>. QED
  BY <1>1, <1>2, Names DEF Roles, Unraced, Restoring

LEMMA EndingWhole ==
    ASSUME Types, Ground, Unraced, Ending
    PROVE  Unraced'
<1>1. /\ lib.at \in {"drain", "drop", "close", "unmap"}
      /\ lib'.at \in {"drop", "close", "unmap", "gone"}
      /\ UNCHANGED <<head, tail, hooks, count, ins>>
  BY EndingDoes
<1>. QED
  BY <1>1 DEF Unraced, Legible, Own

(* Nothing but an overlapping of installations ends the order. *)
LEMMA UnracedKept == IInv /\ Ground /\ (~raced => Unraced) /\ [Next]_vars => (~raced => Unraced)'
<1>0. IInv => Types
  BY DEF IInv
<1>1. ASSUME Types, Ground, NEW t \in Threads, Unraced, Elsewhere(t) PROVE Unraced'
  <2>1. UNCHANGED <<head, tail, hooks, count, lib, ins>>
    BY <1>1, ElsewhereDoes
  <2>. QED
    BY <1>1, <2>1 DEF Unraced, Building, Restoring, TableIsWhole, Legible, Own, InTable, Placed, Recording
<1>2. ASSUME IInv, Ground, ~raced => Unraced, NEW t \in Threads,
             Runs(t) \/ \E f \in Funcs : Call(t, f), ~raced'
      PROVE  Unraced'
  <2>1. CASE Install(t)
    BY <1>2, <2>1, InstallWhole, Names
  <2>2. CASE ~Install(t)
    <3>1. Elsewhere(t) \/ Scan(t) \/ Faults(t)
      BY <1>2, <2>2 DEF Runs, Elsewhere
    <3>2. Types /\ Typed
      BY <1>2 DEF IInv, Ground
    <3>3. ~raced
      BY <1>2, <3>1, <3>2, ElsewhereDoes, ScanDoes, FaultsDoes
    <3>4. Faults(t) => gaveUp
      BY <1>2, <3>2, FaultsDoes DEF IInv, Drained, NobodyInside
    <3>. QED
      BY <1>1, <1>2, <3>1, <3>2, <3>3, <3>4, ScanWhole
  <2>. QED
    BY <2>1, <2>2
<1>3. ASSUME Types, Ground, ~raced => Unraced, Install(Lib) \/ InstallNext \/ Disable \/ Unload, ~raced'
      PROVE  Unraced'
  <2>1. CASE Install(Lib)
    BY <1>3, <2>1, InstallWhole, Names
  <2>2. CASE ~Install(Lib)
    <3>1. InstallNext \/ Disable \/ RestoreNext \/ WriteNowhere \/ Ending
      BY <1>3, <2>2 DEF Unload, Ending
    <3>2. Types /\ Typed
      BY <1>3 DEF Ground
    <3>3. ~raced
      BY <1>3, <3>1, <3>2, InstallNextDoes, DisableDoes, RestoreNextDoes, WriteNowhereDoes, EndingDoes
    <3>. QED
      BY <1>3, <3>1, <3>3, InstallNextWhole, DisableWhole, RestoreNextWhole, NothingWrittenNowhere, EndingWhole
  <2>. QED
    BY <2>1, <2>2
<1>4. ASSUME Unraced, UNCHANGED vars PROVE Unraced'
  <2>1. UNCHANGED <<head, tail, hooks, count, lib, ins>>
    BY <1>4 DEF vars, code, table
  <2>. QED
    BY <1>4, <2>1 DEF Unraced, Building, Restoring, TableIsWhole, Legible, Own, InTable, Placed, Recording
<1>5. UNCHANGED vars => raced' = raced
  BY DEF vars
<1>. QED
  BY <1>0, <1>2, <1>3, <1>4, <1>5 DEF Next

(* Who dies in patched code. *)
LEMMA CrashesKept == IInv /\ Ground /\ (~raced => Unraced) /\ Crashes /\ [Next]_vars => Crashes'
<1>0. IInv => Types
  BY DEF IInv
<1>1. ASSUME Crashes, UNCHANGED th, raced => raced', gaveUp => gaveUp' PROVE Crashes'
  BY <1>1 DEF Crashes
<1>2. ASSUME Types, Crashes, NEW t \in Threads, \A u \in Threads \ {t} : th'[u] = th[u],
             raced => raced', gaveUp => gaveUp',
             th'[t].at = "entry" => th'[t].func \in Funcs,
             th'[t].at = "inner" => th'[t].func \in Inner,
             th'[t].at = "crashed" => raced \/ gaveUp \/ th'[t].func \in Inner
      PROVE  Crashes'
  BY <1>2 DEF Crashes
<1>3. ASSUME Types, Ground, ~raced => Unraced, Crashes, NEW t \in Threads, Elsewhere(t) PROVE Crashes'
  <2>1. UNCHANGED <<raced, gaveUp>> /\ \A u \in Threads \ {t} : th'[u] = th[u]
    BY <1>3, ElsewhereDoes
  <2>2. CASE \E f \in Funcs : Call(t, f)
    <3>1. PICK f \in Funcs : th'[t] = [at |-> "entry", func |-> f]
      BY <1>3, <2>2 DEF Call, Types
    <3>2. th'[t].at = "entry" /\ th'[t].func = f
      BY <3>1
    <3>. QED
      BY <1>2, <1>3, <2>1, <3>2
  <2>3. CASE Fetch(t)
    <3>1. th[t].func \in Funcs /\ head[th[t].func] # "spin"
      BY <1>3, <2>3 DEF Crashes, Fetch
    <3>2. ~raced => Own(th[t].func) \/ <<head[th[t].func], tail[th[t].func]>> = Jmp
      BY <1>3, <3>1 DEF Unraced, Legible, Jmp
    <3>3. \/ th' = [th EXCEPT ![t].at = "stub"] \/ th' = [th EXCEPT ![t] = Out]
          \/ raced /\ th' = [th EXCEPT ![t].at = "crashed"]
          \/ th[t].func \in Inner /\ th' = [th EXCEPT ![t].at = "inner"]
      BY <2>3, <3>2 DEF Fetch, Goes, Own
    <3>4. th'[t].at \in {"stub", "out"} \/ (raced /\ th'[t].at = "crashed")
             \/ (th'[t].at = "inner" /\ th'[t].func \in Inner)
      BY <1>3, <3>3 DEF Types, Out
    <3>. QED
      BY <1>2, <1>3, <2>1, <3>4
  <2>4. CASE FetchInner(t)
    <3>1. th[t].func \in Inner
      BY <1>3, <2>4 DEF Crashes, FetchInner
    <3>2. th' = [th EXCEPT ![t] = Out] \/ th' = [th EXCEPT ![t].at = "crashed"]
      BY <2>4 DEF FetchInner, Goes
    <3>3. th'[t].at = "out" \/ (th'[t].at = "crashed" /\ th'[t].func \in Inner)
      BY <1>3, <3>1, <3>2 DEF Types, Out
    <3>. QED
      BY <1>2, <1>3, <2>1, <3>3
  <2>5. CASE Enter(t) \/ Handle(t) \/ Sent(t) \/ Trigger(t) \/ Leave(t)
    <3>1. \/ \E step \in {"counted", "leave", "handler", "sending", "scan"} : th' = [th EXCEPT ![t].at = step]
          \/ th' = [th EXCEPT ![t] = Out]
      BY <2>5 DEF Enter, Handle, Sent, Trigger, Leave, Goes, Leaves
    <3>2. th'[t].at \in {"counted", "leave", "handler", "sending", "scan", "out"}
      BY <1>3, <3>1 DEF Types, Out
    <3>. QED
      BY <1>2, <1>3, <2>1, <3>2
  <2>. QED
    BY <1>3, <2>2, <2>3, <2>4, <2>5 DEF Elsewhere
<1>4. ASSUME IInv, Ground, ~raced => Unraced, Crashes, NEW t \in Threads,
             Runs(t) \/ \E f \in Funcs : Call(t, f)
      PROVE  Crashes'
  <2>0. Types /\ Typed
    BY <1>4 DEF IInv, Ground
  <2>1. CASE Install(t)
    <3>1. UNCHANGED <<th, gaveUp>> /\ (raced => raced')
      BY <2>0, <2>1, Names, InstallShape, CheckDoes, RecordDoes, SaveDoes, PatchDoes, LoadCountDoes,
         StoreCountDoes DEF Install
    <3>. QED
      BY <1>1, <1>4, <3>1
  <2>2. CASE Elsewhere(t)
    BY <1>3, <1>4, <2>0, <2>2
  <2>3. CASE Scan(t)
    <3>1. /\ \A u \in Threads \ {t} : th'[u] = th[u]
          /\ th' = th \/ th'[t].at = "leave"
          /\ UNCHANGED <<raced, gaveUp>>
      BY <2>0, <2>3, ScanDoes
    <3>. QED
      BY <1>1, <1>2, <1>4, <2>0, <3>1
  <2>4. CASE Faults(t)
    <3>1. /\ \A u \in Threads \ {t} : th'[u] = th[u]
          /\ th'[t] = [th[t] EXCEPT !.at = "crashed"]
          /\ UNCHANGED <<raced, gaveUp>> /\ gaveUp
      BY <1>4, <2>0, <2>4, FaultsDoes DEF IInv, Drained, NobodyInside
    <3>2. th'[t].at = "crashed"
      BY <2>0, <3>1 DEF Types
    <3>. QED
      BY <1>2, <1>4, <2>0, <3>1, <3>2
  <2>. QED
    BY <1>4, <2>1, <2>2, <2>3, <2>4 DEF Runs, Elsewhere
<1>5. ASSUME Types, Ground, Crashes, Install(Lib) \/ InstallNext \/ Disable \/ Unload PROVE Crashes'
  <2>0. Typed /\ Lib \in Actors
    BY <1>5, Names DEF Ground
  <2>1. UNCHANGED th /\ (raced => raced') /\ (gaveUp => gaveUp')
    <3>1. CASE Install(Lib)
      BY <2>0, <3>1, InstallShape, CheckDoes, RecordDoes, SaveDoes, PatchDoes, LoadCountDoes,
         StoreCountDoes DEF Install
    <3>2. CASE InstallNext \/ RestoreNext \/ WriteNowhere
      BY <2>0, <3>2, InstallNextDoes, RestoreNextDoes, WriteNowhereDoes
    <3>3. CASE Disable
      BY <3>3 DEF Disable
    <3>4. CASE Ending
      BY <1>5, <3>4, EndingDoes
    <3>. QED
      BY <1>5, <3>1, <3>2, <3>3, <3>4 DEF Unload, Ending
  <2>. QED
    BY <1>1, <1>5, <2>1
<1>6. ASSUME Crashes, UNCHANGED vars PROVE Crashes'
  BY <1>1, <1>6 DEF vars
<1>. QED
  BY <1>0, <1>4, <1>5, <1>6 DEF Next

LEMMA WholeInit == Init => Loops /\ Unraced /\ Crashes
<1>. SUFFICES ASSUME Init PROVE Loops /\ Unraced /\ Crashes
  OBVIOUS
<1>1. /\ \A p \in Actors : ins[p].at = "idle"
      /\ lib.at = "init" /\ ~gaveUp /\ count = 0
      /\ \A t \in Threads : th[t].at = "out"
      /\ \A f \in Funcs : head[f] = f /\ tail[f] = f
      /\ \A i \in Records : hooks[i].orig[1] = None
  BY IdleIsTyped DEF Init, Actors, Out, NoHook
<1>2. Loops
  BY <1>1, Names DEF Loops, Entered, LoopIsNotSaved, LoopIsLeft, Recorded, Actors
<1>3. Unraced
  <2>1. Building
    BY <1>1 DEF Building, Recording, Own
  <2>2. TableIsWhole /\ Legible
    BY <1>1, Names DEF TableIsWhole, Legible, Own, Records
  <2>. QED
    BY <1>1, <2>1, <2>2 DEF Unraced
<1>4. Crashes
  BY <1>1 DEF Crashes
<1>. QED
  BY <1>2, <1>3, <1>4

(* However the patching of functions is interleaved with the threads that   *)
(* run through them, nobody runs half-written code or waits in a loop that  *)
(* is not taken away, and the shutdown restores every function, but for the *)
(* cases CodeIsWhole names (write_code, hook_engine_install,                *)
(* hook_engine_shutdown).                                                   *)
THEOREM CodeStaysWhole == Spec => []CodeIsWhole
<1>1. Init => Loops /\ Whole
  BY WholeInit DEF Whole
<1>2. IInv /\ Ground /\ Loops /\ Whole /\ [Next]_vars => Loops' /\ Whole'
  BY LoopsKept, UnracedKept, CrashesKept DEF Whole
<1>3. IInv /\ Ground /\ Loops /\ Whole => CodeIsWhole
  <2>1. ASSUME Typed, Loops PROVE \A f \in Funcs : head[f] = "spin" =>
           (\E p \in DOMAIN ins : ins[p].func = f /\ ins[p].at \in {"tail", "head"}) \/ gaveUp
    BY <2>1 DEF Typed, Loops, LoopIsLeft
  <2>2. Whole => EverythingRestored
    BY DEF Whole, Unraced, EverythingRestored, Own
  <2>3. Whole => (~raced => \A t \in Threads : th[t].at = "crashed" => gaveUp \/ th[t].func \in Inner)
    BY DEF Whole, Crashes
  <2>. QED
    BY <2>1, <2>2, <2>3 DEF Ground, CodeIsWhole, RunsWholeCode
<1>. QED
  BY <1>1, <1>2, <1>3, GroundHolds, PTL DEF Spec
=============================================================================
