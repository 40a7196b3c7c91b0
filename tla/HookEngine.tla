----------------------------- MODULE HookEngine -----------------------------
(***************************************************************************)
(* The hook engine of the Unity plugin from its loading into the game to   *)
(* its unloading: the constructor installs hooks, a game thread that runs  *)
(* into the bootstrap hook installs more, game threads run through the     *)
(* patched functions all the time, and the destructor takes the hooks out  *)
(* and frees what the hooks use before the library is unmapped.            *)
(*                                                                         *)
(* The five patched bytes of a function are its head (2 bytes, replaced    *)
(* atomically) and its tail (3 bytes).  Their content is the jump to the   *)
(* stub, the loop "jmp $", or the original bytes of a function.            *)
(***************************************************************************)
EXTENDS Naturals, Sequences, FiniteSets

CONSTANTS
    Funcs,       \* functions of the game
    None,        \* no function
    Natives,     \* those the constructor hooks, in order
    Triggers,    \* the bootstrap hooks among them
    OneWord,     \* functions whose patch lies within an aligned word
    Inner,       \* functions with an instruction that begins in the tail
    Threads,     \* game threads
    Lib,         \* the thread that loads and unloads the library
    MaxHooks     \* kMaxHooks

ASSUME EngineAssumption ==
    /\ None \notin Funcs
    /\ (Funcs \cup {None}) \cap {"jmp", "spin"} = {}
    /\ Natives \in Seq(Funcs)
    /\ Triggers \cup OneWord \cup Inner \subseteq Funcs
    /\ IsFiniteSet(Threads) /\ Lib \notin Threads
    /\ MaxHooks \in Nat \ {0}

Methods == Funcs \ {Natives[i] : i \in DOMAIN Natives}

VARIABLES
    head, tail,  \* the patched bytes of the functions
    hooks,       \* g_hooks
    count,       \* g_count
    ready,       \* g_state is not null
    disabled,    \* EngineState::disabled
    inflight,    \* EngineState::inflight
    busy,        \* g_busy of managed_hooks.cpp
    tried,       \* methods that were hooked, or could not be
    gpipe,       \* g_pipe is not null
    pipe,        \* what became of the pipe
    mapped,      \* the library's code is in the process
    lib,         \* where the library's thread is
    th,          \* per game thread: where it is and in which function
    ins,         \* per thread: the hook it installs or takes out
    gaveUp,      \* history: the threads were not waited for
    raced        \* history: installations overlapped, or met the shutdown

code == <<head, tail>>
table == <<hooks, count>>
state == <<ready, disabled, inflight>>
plugin == <<busy, tried, gpipe, pipe, mapped>>
vars == <<code, table, state, plugin, lib, th, ins, gaveUp, raced>>

Jmp == <<"jmp", "jmp">>
Idle == [at |-> "idle", func |-> None, bytes |-> Jmp, idx |-> 0, n |-> 0]
Out == [at |-> "out", func |-> None]
(* Two installers can fill the table by one record too many. *)
Records == 0 .. MaxHooks
NoHook == [target |-> None, orig |-> <<None, None>>]

Init ==
    /\ head = [f \in Funcs |-> f]
    /\ tail = [f \in Funcs |-> f]
    /\ hooks = [i \in Records |-> NoHook]
    /\ count = 0
    /\ ready = TRUE /\ disabled = FALSE /\ inflight = 0
    /\ busy = FALSE /\ tried = {} /\ gpipe = TRUE /\ pipe = "open" /\ mapped = TRUE
    /\ lib = [at |-> "init", i |-> 1]
    /\ th = [t \in Threads |-> Out]
    /\ ins = [p \in Threads \cup {Lib} |-> Idle]
    /\ gaveUp = FALSE /\ raced = FALSE

-----------------------------------------------------------------------------
(* hook_engine_install and write_code, step by step.                        *)

Installing(p, step) == ins' = [ins EXCEPT ![p].at = step]

(* p has found room in the table and has not counted its record yet. *)
Recording(p) == ins[p].at \in {"record", "orig", "spin", "tail", "head", "load", "store"}

(* The engine is there, the table has room and the function is not in it:   *)
(* the trampoline and the stub are made.  Otherwise, or if the prologue     *)
(* cannot be moved, nothing happens.                                        *)
Check(p) ==
    /\ ins[p].at = "check"
    /\ \/ /\ ready
          /\ count < MaxHooks
          /\ \A i \in 0 .. count - 1 : hooks[i].target # ins[p].func
          /\ Installing(p, "record")
          /\ raced' = (raced \/ \E q \in DOMAIN ins \ {p} : Recording(q))
       \/ ins' = [ins EXCEPT ![p] = Idle] /\ UNCHANGED raced
    /\ UNCHANGED <<code, table, state, plugin, lib, th, gaveUp>>

(* HookRecord& rec = g_hooks[g_count]; rec.target = addr *)
Record(p) ==
    /\ ins[p].at = "record"
    /\ hooks' = [hooks EXCEPT ![count].target = ins[p].func]
    /\ ins' = [ins EXCEPT ![p].at = "orig", ![p].idx = count]
    /\ raced' = (raced \/ lib.at \notin {"init", "up"})
    /\ UNCHANGED <<code, count, state, plugin, lib, th, gaveUp>>

(* memcpy(rec.orig, target, kJmpSize) *)
Save(p) ==
    LET f == ins[p].func IN
    /\ ins[p].at = "orig"
    /\ hooks' = [hooks EXCEPT ![ins[p].idx].orig = <<head[f], tail[f]>>]
    /\ Installing(p, "spin")
    /\ UNCHANGED <<code, count, state, plugin, lib, th, gaveUp, raced>>

Written(p) == IF p = Lib /\ lib.at = "restore" THEN "restored" ELSE "load"

(* Mutated: the bytes are written from the first to the last. *)
Patch_Copied(p) ==
    LET f == ins[p].func IN
    /\ \/ /\ ins[p].at = "spin"
          /\ head' = [head EXCEPT ![f] = ins[p].bytes[1]]
          /\ Installing(p, "tail")
          /\ UNCHANGED tail
       \/ /\ ins[p].at = "tail"
          /\ tail' = [tail EXCEPT ![f] = ins[p].bytes[2]]
          /\ Installing(p, Written(p))
          /\ UNCHANGED head
    /\ UNCHANGED <<table, state, plugin, lib, th, gaveUp, raced>>

(* write_code: at once within a word; otherwise the head is made a loop,    *)
(* then the tail is written, then the head.                                 *)
Patch(p) ==
    LET f == ins[p].func IN
    /\ \/ /\ ins[p].at = "spin" /\ f \in OneWord
          /\ head' = [head EXCEPT ![f] = ins[p].bytes[1]]
          /\ tail' = [tail EXCEPT ![f] = ins[p].bytes[2]]
          /\ Installing(p, Written(p))
       \/ /\ ins[p].at = "spin" /\ f \in Funcs \ OneWord
          /\ head' = [head EXCEPT ![f] = "spin"]
          /\ Installing(p, "tail")
          /\ UNCHANGED tail
       \/ /\ ins[p].at = "tail"
          /\ tail' = [tail EXCEPT ![f] = ins[p].bytes[2]]
          /\ Installing(p, "head")
          /\ UNCHANGED head
       \/ /\ ins[p].at = "head"
          /\ head' = [head EXCEPT ![f] = ins[p].bytes[1]]
          /\ Installing(p, Written(p))
          /\ UNCHANGED tail
    /\ UNCHANGED <<table, state, plugin, lib, th, gaveUp, raced>>

(* ++g_count, which is not atomic *)
LoadCount(p) ==
    /\ ins[p].at = "load"
    /\ ins' = [ins EXCEPT ![p].at = "store", ![p].n = count + 1]
    /\ UNCHANGED <<code, table, state, plugin, lib, th, gaveUp, raced>>

StoreCount(p) ==
    /\ ins[p].at = "store"
    /\ count' = ins[p].n
    /\ ins' = [ins EXCEPT ![p] = Idle]
    /\ UNCHANGED <<code, hooks, state, plugin, lib, th, gaveUp, raced>>

Install(p) == Check(p) \/ Record(p) \/ Save(p) \/ Patch(p) \/ LoadCount(p) \/ StoreCount(p)

StartInstall(p, f) == ins' = [ins EXCEPT ![p] = [Idle EXCEPT !.at = "check", !.func = f]]

-----------------------------------------------------------------------------
(* A game thread.                                                           *)

Goes(t, step) == th' = [th EXCEPT ![t].at = step]
Leaves(t) == Goes(t, "leave")

Call(t, f) ==
    /\ th[t].at = "out"
    /\ th' = [th EXCEPT ![t] = [at |-> "entry", func |-> f]]
    /\ UNCHANGED <<code, table, state, plugin, lib, ins, gaveUp, raced>>

(* It executes the head: its own code, the jump or the loop. *)
Fetch(t) ==
    LET f == th[t].func IN
    /\ th[t].at = "entry"
    /\ head[f] # "spin"
    /\ IF <<head[f], tail[f]>> = Jmp THEN Goes(t, "stub")
       ELSE IF <<head[f], tail[f]>> # <<f, f>> THEN Goes(t, "crashed")
       ELSE IF f \in Inner THEN Goes(t, "inner")
       ELSE th' = [th EXCEPT ![t] = Out]
    /\ UNCHANGED <<code, table, state, plugin, lib, ins, gaveUp, raced>>

(* It executes the instruction that begins in the tail. *)
FetchInner(t) ==
    /\ th[t].at = "inner"
    /\ IF tail[th[t].func] = th[t].func THEN th' = [th EXCEPT ![t] = Out] ELSE Goes(t, "crashed")
    /\ UNCHANGED <<code, table, state, plugin, lib, ins, gaveUp, raced>>

(* Mutated: the stub looks whether the engine is disabled, then counts. *)
Enter_LooksFirst(t) ==
    /\ \/ /\ th[t].at = "stub"
          /\ IF disabled THEN th' = [th EXCEPT ![t] = Out] ELSE Goes(t, "counted")
          /\ UNCHANGED inflight
       \/ /\ th[t].at = "counted"
          /\ inflight' = inflight + 1
          /\ Goes(t, "handler")
    /\ UNCHANGED <<code, table, ready, disabled, plugin, lib, ins, gaveUp, raced>>

(* The stub: lock inc inflight, then cmp disabled. *)
Enter(t) ==
    /\ \/ /\ th[t].at = "stub"
          /\ inflight' = inflight + 1
          /\ Goes(t, "counted")
       \/ /\ th[t].at = "counted"
          /\ IF disabled THEN Leaves(t) ELSE Goes(t, "handler")
          /\ UNCHANGED inflight
    /\ UNCHANGED <<code, table, ready, disabled, plugin, lib, ins, gaveUp, raced>>

(* sink_handler of a text hook: the text may be dropped, and is sent if     *)
(* there is a pipe.                                                         *)
Handle(t) ==
    /\ th[t].at = "handler"
    /\ mapped
    /\ th[t].func \notin Triggers
    /\ Leaves(t) \/ (gpipe /\ Goes(t, "sending"))
    /\ UNCHANGED <<code, table, state, plugin, lib, ins, gaveUp, raced>>

Sent(t) ==
    /\ th[t].at = "sending"
    /\ mapped
    /\ Leaves(t)
    /\ UNCHANGED <<code, table, state, plugin, lib, ins, gaveUp, raced>>

(* managed_trigger: if it is time to look for new classes, and no other     *)
(* thread does.                                                             *)
Trigger(t) ==
    /\ th[t].at = "handler"
    /\ mapped
    /\ th[t].func \in Triggers
    /\ \/ Leaves(t) /\ UNCHANGED busy
       \/ ~busy /\ busy' = TRUE /\ Goes(t, "scan")
    /\ UNCHANGED <<code, table, state, tried, gpipe, pipe, mapped, lib, ins, gaveUp, raced>>

(* scan: the methods of the classes that are loaded by now. *)
Scan(t) ==
    /\ th[t].at = "scan"
    /\ mapped
    /\ ins[t].at = "idle"
    /\ \/ \E f \in Methods \ tried :
             StartInstall(t, f) /\ tried' = tried \cup {f} /\ UNCHANGED <<busy, th>>
       \/ busy' = FALSE /\ Leaves(t) /\ UNCHANGED <<tried, ins>>
    /\ UNCHANGED <<code, table, state, gpipe, pipe, mapped, lib, gaveUp, raced>>

(* lock dec inflight, and on through the trampoline *)
Leave(t) ==
    /\ th[t].at = "leave"
    /\ inflight' = inflight - 1
    /\ th' = [th EXCEPT ![t] = Out]
    /\ UNCHANGED <<code, table, ready, disabled, plugin, lib, ins, gaveUp, raced>>

InHandler(t) == th[t].at \in {"handler", "sending", "scan"}

(* It executes code that is not there any more. *)
Faults(t) ==
    /\ InHandler(t)
    /\ ~mapped
    /\ Goes(t, "crashed")
    /\ ins' = [ins EXCEPT ![t] = Idle]
    /\ UNCHANGED <<code, table, state, plugin, lib, gaveUp, raced>>

Runs(t) ==
    \/ Fetch(t) \/ FetchInner(t) \/ Enter(t)
    \/ Handle(t) \/ Sent(t) \/ Trigger(t) \/ Scan(t)
    \/ (mapped /\ Install(t))
    \/ Leave(t) \/ Faults(t)

-----------------------------------------------------------------------------
(* The library's thread.                                                    *)

(* The constructor: mono_backend_init or il2cpp_backend_init. *)
InstallNext ==
    /\ lib.at = "init"
    /\ ins[Lib].at = "idle"
    /\ IF lib.i <= Len(Natives)
       THEN StartInstall(Lib, Natives[lib.i]) /\ lib' = [lib EXCEPT !.i = @ + 1]
       ELSE lib' = [at |-> "up", i |-> 0] /\ UNCHANGED ins
    /\ UNCHANGED <<code, table, state, plugin, th, gaveUp, raced>>

(* hook_engine_shutdown: the stubs are told first ... *)
Disable ==
    /\ lib.at = "up"
    /\ disabled' = TRUE
    /\ lib' = [at |-> "restore", i |-> 0]
    /\ raced' = (raced \/ \E t \in Threads : Recording(t))
    /\ UNCHANGED <<code, table, ready, inflight, plugin, th, ins, gaveUp>>

(* ... then every hook in the table is taken out, a record that was never   *)
(* filled included ...                                                      *)
RestoreNext ==
    /\ lib.at = "restore"
    /\ ins[Lib].at \in {"idle", "restored"}
    /\ IF lib.i < count
       THEN /\ ins' = [ins EXCEPT ![Lib] = [Idle EXCEPT !.at = "spin", !.func = hooks[lib.i].target,
                                                        !.bytes = hooks[lib.i].orig]]
            /\ lib' = [lib EXCEPT !.i = @ + 1]
            /\ UNCHANGED count
       ELSE /\ count' = 0
            /\ ins' = [ins EXCEPT ![Lib] = Idle]
            /\ lib' = [at |-> "drain", i |-> 0]
    /\ UNCHANGED <<code, hooks, state, plugin, th, gaveUp, raced>>

(* (the bytes of an empty record are written to address 0) *)
WriteNowhere ==
    /\ ins[Lib].at = "spin"
    /\ ins[Lib].func = None
    /\ lib' = [lib EXCEPT !.at = "crashed"]
    /\ ins' = [ins EXCEPT ![Lib] = Idle]
    /\ UNCHANGED <<code, table, state, plugin, th, gaveUp, raced>>

(* Mutated: the wait has no end. *)
Drain_Forever ==
    /\ lib.at = "drain"
    /\ inflight = 0
    /\ ready' = FALSE
    /\ lib' = [lib EXCEPT !.at = "drop"]
    /\ UNCHANGED <<code, table, disabled, inflight, plugin, th, ins, gaveUp, raced>>

(* ... and the threads inside the stubs are waited for, half a second at    *)
(* most ...                                                                 *)
Drain ==
    /\ lib.at = "drain"
    /\ \/ inflight = 0 /\ UNCHANGED gaveUp
       \/ inflight # 0 /\ gaveUp' = TRUE
    /\ ready' = FALSE
    /\ lib' = [lib EXCEPT !.at = "drop"]
    /\ UNCHANGED <<code, table, disabled, inflight, plugin, th, ins, raced>>

(* cleanup: g_pipe is cleared ... *)
Drop ==
    /\ lib.at = "drop"
    /\ gpipe' = FALSE
    /\ lib' = [lib EXCEPT !.at = "close"]
    /\ UNCHANGED <<code, table, state, busy, tried, pipe, mapped, th, ins, gaveUp, raced>>

(* ... the pipe is closed, and deleted if nobody can be using it ... *)
Close ==
    /\ lib.at = "close"
    /\ pipe' = IF gaveUp THEN "closed" ELSE "deleted"
    /\ lib' = [lib EXCEPT !.at = "unmap"]
    /\ UNCHANGED <<code, table, state, busy, tried, gpipe, mapped, th, ins, gaveUp, raced>>

(* ... and the loader unmaps the library. *)
Unmap ==
    /\ lib.at = "unmap"
    /\ mapped' = FALSE
    /\ lib' = [lib EXCEPT !.at = "gone"]
    /\ UNCHANGED <<code, table, state, busy, tried, gpipe, pipe, th, ins, gaveUp, raced>>

Unload == RestoreNext \/ WriteNowhere \/ Drain \/ Drop \/ Close \/ Unmap

Next ==
    \/ \E t \in Threads : Runs(t) \/ \E f \in Funcs : Call(t, f)
    \/ Install(Lib) \/ InstallNext \/ Disable \/ Unload

Fairness ==
    /\ \A t \in Threads : WF_vars(Runs(t))
    /\ WF_vars(Install(Lib) \/ InstallNext \/ Unload)

Spec == Init /\ [][Next]_vars /\ Fairness

-----------------------------------------------------------------------------
(* No game thread is inside the library's handler when the library is       *)
(* unmapped, unless the shutdown gave up waiting: whatever order the        *)
(* counting in the stub, the disabling and the waiting happen in.           *)
HandlerHasLibrary ==
    \A t \in Threads : InHandler(t) => mapped \/ gaveUp

(* A game thread that got hold of the pipe never finds it deleted, even if  *)
(* the shutdown gave up waiting for it.                                     *)
SenderHasPipe ==
    \A t \in Threads : th[t].at = "sending" => pipe # "deleted"

(* What a game thread is in the middle of outlives it.                      *)
InsideIsSafe == HandlerHasLibrary /\ SenderHasPipe

(* No game thread runs into half-written code while hooks are installed and *)
(* taken out under it, nor stays in the loop of a function being patched:   *)
(* as long as the loop is there somebody is about to overwrite it, unless   *)
(* that thread has died with its library.  Further exceptions: a thread     *)
(* that was inside the prologue, at an instruction that begins in the tail; *)
(* and a library that was unmapped under a thread.  (With a race of two     *)
(* installations even whole functions are overwritten.)                     *)
RunsWholeCode ==
    /\ ~raced => \A t \in Threads : th[t].at = "crashed" => gaveUp \/ th[t].func \in Inner
    /\ \A f \in Funcs : head[f] = "spin" =>
          \/ \E p \in DOMAIN ins : ins[p].func = f /\ ins[p].at \in {"tail", "head"}
          \/ gaveUp

(* After the unloading every function has its own bytes back, unless two    *)
(* installations overlapped or one was under way when the shutdown began.   *)
EverythingRestored ==
    lib.at \in {"drop", "close", "unmap", "gone"} /\ ~raced =>
        \A f \in Funcs : head[f] = f /\ tail[f] = f

(* Whatever is patched and restored under them, game threads run whole      *)
(* functions, and at the end their own ones.                                *)
CodeIsWhole == RunsWholeCode /\ EverythingRestored

(* An unloading that has begun comes to its end. *)
UnloadEnds == []<>(~disabled \/ lib.at \in {"gone", "crashed"})

=============================================================================
