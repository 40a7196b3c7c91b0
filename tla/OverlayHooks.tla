---------------------------- MODULE OverlayHooks ----------------------------
(***************************************************************************)
(* The overlay's Direct3D hooks under a rendering game on Windows:         *)
(* installing them (hook_dxgi_install), the presents and resizes of the    *)
(* game's threads that run through them, and the unloading of the library  *)
(* (hook_dxgi_uninstall).  Each backend keeps one set of targets; the      *)
(* capture's flag is one for all.                                          *)
(*                                                                         *)
(* The game uses a swapchain on one thread, its swapchains have one size   *)
(* and format, and the library is unloaded once it is installed.           *)
(***************************************************************************)
EXTENDS Naturals, FiniteSets

CONSTANTS
    Threads,    \* the game's threads
    Chains,     \* IDXGISwapChain addresses, used again after a release
    Owner,      \* the thread of a chain
    Resized, Replaced,  \* the chains the game resizes, releases and makes anew
    Api,        \* the backend of a chain: "d3d11" or "d3d12"
    None,       \* no chain
    Limit       \* kSwapMismatchLimit

Backends == {"d3d11", "d3d12"}

ASSUME HooksAssumption ==
    /\ Limit \in Nat \ {0}
    /\ IsFiniteSet(Threads) /\ Threads \cap {"unready", "free"} = {}
    /\ Owner \in [Chains -> Threads] /\ Api \in [Chains -> Backends]
    /\ None \notin Chains /\ Resized \cup Replaced \subseteq Chains

VARIABLES
    inst,       \* where hook_dxgi_install is
    un,         \* where hook_dxgi_uninstall is
    refs,       \* g_hookRefCount
    unloading,  \* g_hookUnloading
    hooked,     \* Present and ResizeBuffers are detoured, real_... is set
    locks,      \* g_lock of a backend: "unready", "free" or its thread
    ov,         \* g_ov of a backend; on: its targets are of a back buffer
                \*   that exists ("now"), existed ("old") or there are none,
                \*   torn: some of them are missing, gone: its chain was
                \*   released, staging: g_ov.staging (cap_buf) is "none" or
                \*   a buffer, "used" since its capture began or "left", as
                \*   history, by a capture that somebody else stopped
    mismatch,   \* g_swap_mismatch
    capturing,  \* the channel's flag
    buffers,    \* staging buffers of a backend that exist in the driver, but
                \*   for those that were left and then written over
    call,       \* the hooked call a thread is in; loose: it is in a backend
                \*   with one that came before the backend's lock was made
    late        \* history: the wait for the hooks to be idle timed out

setup == <<inst, un, unloading, hooked>>
staged == <<capturing, buffers>>
vars == <<setup, refs, locks, ov, mismatch, staged, call, late>>

NoOverlay == [swap |-> None, on |-> "none", torn |-> FALSE, gone |-> FALSE, staging |-> "none"]
Idle == [at |-> "idle", op |-> "present", s |-> None, in |-> FALSE, loose |-> FALSE]

Init ==
    /\ inst = "attach" /\ un = "no" /\ refs = 0 /\ unloading = FALSE /\ hooked = FALSE
    /\ locks = [b \in Backends |-> "unready"]
    /\ ov = [b \in Backends |-> NoOverlay] /\ mismatch = 0
    /\ capturing = FALSE /\ buffers = [b \in Backends |-> 0]
    /\ call = [t \in Threads |-> Idle]
    /\ late = FALSE

-----------------------------------------------------------------------------
Goes(t, step) == call' = [call EXCEPT ![t].at = step]
ToReal(t) == call' = [call EXCEPT ![t] = [Idle EXCEPT !.at = "real", !.in = call[t].in]]

(* capture_stop, called by a backend ("own") or by none: the flag is one    *)
(* for all, and the buffers of the others stay where they are.  What the    *)
(* caller does about its own buffer is up to the caller.                    *)
CaptureStop(own, o) ==
    /\ capturing' = FALSE
    /\ ov' = [b \in Backends |->
                IF b \notin own /\ o[b].staging = "used"
                THEN [o[b] EXCEPT !.staging = "left"] ELSE o[b]]

(* Mutated: the capture is stopped, and the buffer not released. *)
Ends_KeepsBuffer(b, o) ==
    /\ CaptureStop({b}, [ov EXCEPT ![b] = [o EXCEPT !.staging = ov[b].staging]])
    /\ UNCHANGED buffers

(* A backend releases the buffer it has and stops the capture; o: what it   *)
(* has afterwards.                                                          *)
Ends(b, o) ==
    /\ buffers' = [buffers EXCEPT ![b] = IF ov[b].staging = "none" THEN @ ELSE @ - 1]
    /\ CaptureStop({b}, [ov EXCEPT ![b] = [o EXCEPT !.staging = "none"]])

(* release_targets: a backend's targets and buffer go.                      *)
Bare(o) == [o EXCEPT !.on = "none", !.torn = FALSE]
Releases(b, o) == Ends(b, Bare(o))

(* What is lost, and known to be, when the pointer is written over. *)
Forgets(b) == IF ov[b].staging = "left" THEN 1 ELSE 0

(* A capture begins with a buffer in place of whatever stands there ...     *)
Begins(b) ==
    /\ capturing' = TRUE
    /\ ov' = [ov EXCEPT ![b].staging = "used"]
    /\ buffers' = [buffers EXCEPT ![b] = @ + 1 - Forgets(b)]

(* ... or does not, and the pointer is as it was or null.                   *)
BeginFails(b) ==
    \/ CaptureStop({b}, ov) /\ UNCHANGED buffers
    \/ /\ CaptureStop({b}, [ov EXCEPT ![b].staging = "none"])
       /\ buffers' = [buffers EXCEPT ![b] = @ - Forgets(b)]

(* The lock of a backend that is not ready is no lock. *)
Enters(t, b) ==
    \/ locks[b] = "unready" /\ UNCHANGED locks
    \/ locks[b] = "free" /\ locks' = [locks EXCEPT ![b] = t]
Leaves(t, b) == locks' = [locks EXCEPT ![b] = IF @ = t THEN "free" ELSE @]

-----------------------------------------------------------------------------
(* hook_dxgi_install: the lock is made, Present and ResizeBuffers are       *)
(* detoured ...                                                             *)
Attach ==
    /\ inst = "attach" /\ inst' = "queue"
    /\ hooked' = TRUE /\ locks' = [locks EXCEPT !["d3d11"] = "free"]
    /\ UNCHANGED <<un, refs, unloading, ov, mismatch, staged, call, late>>

(* ... d3d12_hook_queue makes the other lock ... *)
HookQueue ==
    /\ inst = "queue" /\ inst' = "init"
    /\ locks' = [locks EXCEPT !["d3d12"] = "free"]
    /\ UNCHANGED <<un, refs, unloading, hooked, ov, mismatch, staged, call, late>>

(* ... and capture_init resets the channel, connected or not.               *)
CaptureInit ==
    /\ inst = "init" /\ inst' = "done"
    /\ CaptureStop({}, ov)
    /\ UNCHANGED <<un, refs, unloading, hooked, locks, mismatch, buffers, call, late>>

(* The back buffer of a chain is gone, with or without the overlay's        *)
(* targets.                                                                 *)
Ages(s, gone) ==
    ov' = [b \in Backends |->
              IF ov[b].swap # s THEN ov[b]
              ELSE [ov[b] EXCEPT !.on = IF @ = "now" THEN "old" ELSE @, !.gone = @ \/ gone]]

(* The game releases a swapchain, of which the overlay is not told, and     *)
(* makes one at the same address.                                           *)
ReplaceChain(s) ==
    /\ s \in Replaced /\ call[Owner[s]].at = "idle"
    /\ Ages(s, TRUE)
    /\ UNCHANGED <<setup, refs, locks, mismatch, staged, call, late>>

(* The game's thread runs into a hook, which counts it in ... *)
Enter(t, op, s) ==
    /\ hooked /\ call[t].at = "idle" /\ Owner[s] = t
    /\ op = "resize" => s \in Resized
    /\ refs' = refs + 1
    /\ call' = [call EXCEPT ![t] = [Idle EXCEPT !.at = "guard", !.op = op, !.s = s]]
    /\ UNCHANGED <<setup, locks, ov, mismatch, staged, late>>

(* Mutated: whoever is counted in goes in. *)
Guard_Blind(t) ==
    /\ call[t].at = "guard"
    /\ call' = [call EXCEPT ![t].in = TRUE,
               ![t].at = IF call[t].op = "present" THEN "route" ELSE "release"]
    /\ UNCHANGED <<setup, refs, locks, ov, mismatch, staged, late>>

(* ... and out again when the library is being unloaded. *)
Guard(t) ==
    /\ call[t].at = "guard"
    /\ IF unloading
       THEN /\ refs' = refs - 1
            /\ IF call[t].op = "present" THEN ToReal(t) ELSE Goes(t, "others")
       ELSE /\ call' = [call EXCEPT ![t].in = TRUE,
                       ![t].at = IF call[t].op = "present" THEN "route" ELSE "release"]
            /\ UNCHANGED refs
    /\ UNCHANGED <<setup, locks, ov, mismatch, staged, late>>

-----------------------------------------------------------------------------
InBody(t, b) == call[t].at \in {"fit", "draw"} /\ Api[call[t].s] = b

(* on_present goes to the chain's backend and takes its lock.               *)
Route(t) ==
    LET b == Api[call[t].s]
        bare == locks[b] = "unready" \/ \E u \in Threads : InBody(u, b) /\ call[u].loose
    IN
    /\ call[t].at = "route" /\ Enters(t, b)
    /\ call' = [call EXCEPT ![t].at = "fit", ![t].loose = bare]
    /\ UNCHANGED <<setup, refs, ov, mismatch, staged, late>>

(* The present leaves the backend. *)
LeavesBody(t) ==
    /\ Leaves(t, Api[call[t].s])
    /\ ToReal(t)

Stays(s) == Api[s] = "d3d11" /\ ov["d3d11"].swap \notin {None, s} /\ mismatch + 1 < Limit

(* Mutated: the presents in between are not counted. *)
Mismatch_Uncounted(t) ==
    /\ call[t].at = "fit" /\ Stays(call[t].s)
    /\ LeavesBody(t)
    /\ UNCHANGED <<setup, refs, ov, mismatch, staged, late>>

(* Mutated: the early return keeps the lock. *)
Mismatch_KeepsLock(t) ==
    /\ call[t].at = "fit" /\ Stays(call[t].s)
    /\ mismatch' = mismatch + 1
    /\ ToReal(t)
    /\ UNCHANGED <<setup, refs, locks, ov, staged, late>>

(* The Direct3D 11 overlay stays on its chain until another one has been    *)
(* presented Limit times in a row.                                          *)
Mismatch(t) ==
    /\ call[t].at = "fit" /\ Stays(call[t].s)
    /\ mismatch' = mismatch + 1
    /\ LeavesBody(t)
    /\ UNCHANGED <<setup, refs, ov, staged, late>>

(* ensure_device and ensure_targets find what they need ...                 *)
Fits(t) ==
    LET s == call[t].s
        b == Api[s]
    IN
    /\ call[t].at = "fit" /\ ~Stays(s)
    /\ ov[b].swap = s /\ ov[b].on # "none"
    /\ mismatch' = IF b = "d3d11" THEN 0 ELSE mismatch
    /\ Goes(t, "draw")
    /\ UNCHANGED <<setup, refs, locks, ov, staged, late>>

(* ... or shut down what is of another chain and make what is missing.      *)
Placed(s) ==
    LET o == ov[Api[s]]
    IN  IF o.swap = s THEN o ELSE [NoOverlay EXCEPT !.swap = s]

Fit(t) ==
    LET s == call[t].s
        b == Api[s]
    IN
    /\ call[t].at = "fit" /\ ~Stays(s)
    /\ ov[b].swap # s \/ ov[b].on = "none"
    /\ mismatch' = IF b = "d3d11" THEN 0 ELSE mismatch
    /\ Ends(b, [Bare(Placed(s)) EXCEPT !.on = "now"])
    /\ Goes(t, "draw")
    /\ UNCHANGED <<setup, refs, locks, late>>

(* A call to the driver fails: GetDesc; GetDevice, with the overlay shut    *)
(* down; the making of the targets.  Those that Direct3D 12 has made in     *)
(* part it takes for whole from the next present on.                        *)
FitFails(t) ==
    LET s == call[t].s
        b == Api[s]
    IN
    /\ call[t].at = "fit" /\ ~Stays(s)
    /\ mismatch' = IF b = "d3d11" THEN 0 ELSE mismatch
    /\ \/ ov[b].swap = s /\ UNCHANGED <<ov, staged>>
       \/ ov[b].swap # s /\ Ends(b, NoOverlay)
       \/ /\ ov[b].swap # s \/ ov[b].on = "none"
          /\ \/ Releases(b, Placed(s))
             \/ /\ b = "d3d12"
                /\ Ends(b, [Bare(Placed(s)) EXCEPT !.on = "now", !.torn = TRUE])
    /\ LeavesBody(t)
    /\ UNCHANGED <<setup, refs, late>>

(* The channel is asked: a capture ends and its buffer goes, or one begins  *)
(* or fails to; then it draws.                                              *)
Draw(t) ==
    LET b == Api[call[t].s]
    IN
    /\ call[t].at = "draw"
    /\ \/ capturing /\ Ends(b, ov[b])
       \/ ~capturing /\ (Begins(b) \/ BeginFails(b))
       \/ UNCHANGED <<ov, staged>>
    /\ IF ov[b].torn THEN Goes(t, "crash") /\ UNCHANGED locks ELSE LeavesBody(t)
    /\ UNCHANGED <<setup, refs, mismatch, late>>

-----------------------------------------------------------------------------
(* release_targets of one backend, under its lock. *)
Frees(b) ==
    /\ locks[b] \in {"free", "unready"}
    /\ Releases(b, ov[b])

(* hook_ResizeBuffers lets go of what the overlay has of back buffers, of   *)
(* whatever chain: first Direct3D 11's ...                                  *)
Release(t) ==
    /\ call[t].at = "release" /\ Frees("d3d11")
    /\ Goes(t, "others")
    /\ UNCHANGED <<setup, refs, locks, mismatch, late>>

(* Mutated: the other backends are not told. *)
Others_Untold(t) ==
    /\ call[t].at = "others"
    /\ Goes(t, "real")
    /\ UNCHANGED <<setup, refs, locks, ov, mismatch, staged, late>>

(* ... then the other backends', guarded or not.                            *)
Others(t) ==
    /\ call[t].at = "others"
    /\ IF ov["d3d12"].on = "none"
       THEN locks["d3d12"] \in {"free", "unready"} /\ UNCHANGED <<ov, staged>>
       ELSE Frees("d3d12")
    /\ Goes(t, "real")
    /\ UNCHANGED <<setup, refs, locks, mismatch, late>>

(* The original function is called, through a pointer that may be gone ...  *)
Real(t) ==
    /\ call[t].at = "real"
    /\ call' = [call EXCEPT ![t] =
                   [Idle EXCEPT !.at = IF hooked THEN "return" ELSE "crash", !.in = call[t].in]]
    /\ IF call[t].op = "resize" /\ hooked THEN Ages(call[t].s, FALSE) ELSE UNCHANGED ov
    /\ UNCHANGED <<setup, refs, locks, mismatch, staged, late>>

(* ... and returns into the hook, into a library that may be gone.          *)
Return(t) ==
    /\ call[t].at = "return"
    /\ IF un = "gone"
       THEN Goes(t, "crash") /\ UNCHANGED refs
       ELSE /\ call' = [call EXCEPT ![t] = Idle]
            /\ refs' = IF call[t].in THEN refs - 1 ELSE refs
    /\ UNCHANGED <<setup, locks, ov, mismatch, staged, late>>

-----------------------------------------------------------------------------
(* hook_dxgi_uninstall: no new call gets in ... *)
Unload ==
    /\ un = "no" /\ inst = "done"
    /\ unloading' = TRUE /\ un' = "wait"
    /\ UNCHANGED <<inst, refs, hooked, locks, ov, mismatch, staged, call, late>>

(* ... the others are waited for, two seconds at most ... *)
Waited ==
    /\ un = "wait" /\ un' = "d3d12"
    /\ late' = (late \/ refs > 0)
    /\ UNCHANGED <<inst, refs, unloading, hooked, locks, ov, mismatch, staged, call>>

(* ... each backend is shut down under its lock, which then goes: Direct3D  *)
(* 12 before the detours are taken off, Direct3D 11 after it ...            *)
ShutDown(b) ==
    /\ locks[b] = "free"
    /\ locks' = [locks EXCEPT ![b] = "unready"]
    /\ Ends(b, NoOverlay)

ShutOthers ==
    /\ un = "d3d12" /\ un' = "detach" /\ ShutDown("d3d12")
    /\ UNCHANGED <<inst, refs, unloading, hooked, mismatch, call, late>>

Detach ==
    /\ un = "detach" /\ un' = "d3d11" /\ hooked' = FALSE
    /\ UNCHANGED <<inst, refs, unloading, locks, ov, mismatch, staged, call, late>>

ShutOwn ==
    /\ un = "d3d11" /\ un' = "capture" /\ ShutDown("d3d11") /\ mismatch' = 0
    /\ UNCHANGED <<inst, refs, unloading, hooked, call, late>>

(* ... the channel is closed, and the library is unmapped.                  *)
Unmap ==
    /\ un = "capture" /\ un' = "gone"
    /\ UNCHANGED <<inst, refs, unloading, hooked, locks, ov, mismatch, staged,
                   call, late>>

-----------------------------------------------------------------------------
Hook(t) ==
    \/ Guard(t) \/ Route(t) \/ Mismatch(t) \/ Fits(t) \/ Fit(t) \/ FitFails(t)
    \/ Draw(t) \/ Release(t) \/ Others(t) \/ Real(t) \/ Return(t)

FitsTo(s) == call[Owner[s]].s = s /\ (Fits(Owner[s]) \/ Fit(Owner[s]))
Installs == Attach \/ HookQueue \/ CaptureInit
Uninstalls == Waited \/ ShutOthers \/ Detach \/ ShutOwn \/ Unmap

Game(s) ==
    \/ ReplaceChain(s)
    \/ \E op \in {"present", "resize"} : Enter(Owner[s], op, s)

Crashed == \E t \in Threads : call[t].at = "crash"

Next ==
    /\ ~Crashed
    /\ \/ Installs \/ Unload \/ Uninstalls
       \/ \E t \in Threads : Hook(t)
       \/ \E s \in Chains : Game(s)

(* The threads run, and Direct3D 11 calls that are tried again and again     *)
(* work in the end; the game need not render, nor the library be unloaded.       *)
Spec ==
    /\ Init /\ [][Next]_vars
    /\ WF_vars(Installs) /\ WF_vars(Uninstalls)
    /\ \A t \in Threads : WF_vars(Hook(t))
    /\ \A s \in Chains : Api[s] = "d3d11" => SF_vars(FitsTo(s))

-----------------------------------------------------------------------------
(* A backend's objects are used by one thread at a time, whenever they are  *)
(* shut down; a thread that was let in finds the original function and the  *)
(* library when it leaves.  The exceptions: threads that came before their  *)
(* backend's lock was made, and one that is still inside when the wait of   *)
(* two seconds ends; one that was turned away is not waited for.            *)
InsideIsSafe ==
    /\ \A t, u \in Threads : \A b \in Backends :
           t # u /\ InBody(t, b) /\ InBody(u, b) => call[t].loose /\ call[u].loose
    /\ late \/ \A t \in Threads : call[t].in => un \in {"no", "wait"}

(* What the overlay draws into is the back buffer of the chain that is      *)
(* presented, and no back buffer is held when ResizeBuffers replaces it,    *)
(* also while the library is being unloaded.  The exceptions: a chain at    *)
(* the address of one that was released while the overlay was on it, a      *)
(* thread that came before its backend's lock was made, and a resize of     *)
(* Direct3D 11 that was turned away.                                        *)
TargetsFit ==
    \A t \in Threads :
        LET s == call[t].s
            o == ov[Api[s]]
        IN
        call[t].in /\ ~call[t].loose =>
            /\ call[t].at = "draw" => o.swap = s /\ (o.on = "now" \/ o.gone)
            /\ call[t].at = "real" /\ call[t].op = "resize" /\ o.swap = s => o.on # "now"

(* No path that stops a capture leaves the backend that takes it with its   *)
(* buffer, and of the buffers that exist in the driver each backend knows   *)
(* its own: none is lost, and none released twice.  The exception: a        *)
(* buffer that stayed when another backend, or capture_init, cleared the    *)
(* flag that is one for all, and which the next capture wrote over.         *)
StagingAccounted ==
    \A b \in Backends :
        /\ ov[b].staging = "used" => capturing
        /\ buffers[b] = IF ov[b].staging = "none" THEN 0 ELSE 1

(* As long as Direct3D 11 chains are presented, in turn or one after the    *)
(* other, one of them gets the overlay again and again; and one that goes   *)
(* on being presented gets it when no other is presented any more, unless   *)
(* the library goes or the game has crashed.                                *)
Own == {s \in Chains : Api[s] = "d3d11"}
Presented(s) == call[Owner[s]].at = "fit" /\ call[Owner[s]].s = s
Drawn(s) == call[Owner[s]].at = "draw" /\ call[Owner[s]].s = s
Over == unloading \/ Crashed
OverlayFollows ==
    /\ []<>(\E s \in Own : Presented(s)) => []<>(Over \/ \E s \in Own : Drawn(s))
    /\ \A s \in Own : []<>Presented(s) /\ <>[](\A r \in Own \ {s} : ~Presented(r))
                           => []<>(Over \/ Drawn(s))

(* The unloading comes to an end, unless the game has crashed.              *)
UnloadEnds == []<>(un \in {"no", "gone"} \/ Crashed)

=============================================================================
