------------------------------ MODULE VkLayer ------------------------------
(***************************************************************************)
(* The overlay's Vulkan layers inside a game: what the game's calls        *)
(* (devices, swapchains, presents) make of the capture's staging areas, of *)
(* the overlay's framebuffers, frames in flight and semaphores.  The       *)
(* capture is vklayer.c on Linux and vk_capture_win.cpp on Windows         *)
(* ("build"); both draw with overlay_vk.cpp.                               *)
(*                                                                         *)
(* The game makes the calls of one device on one thread, waits on one      *)
(* semaphore per present, destroys swapchains before their device, and all *)
(* its swapchains have one size.  The GPU works on its own.                *)
(***************************************************************************)
EXTENDS Naturals, FiniteSets

CONSTANTS
    Devices,      \* VkDevice handles, each with the thread that uses it
    Swaps,        \* VkSwapchainKHR handles, used again after destruction
    Graphics,     \* the devices with a graphics queue
    FormatOf,     \* the format of a handle's swapchains
    None,         \* no swapchain, device or format
    InFlight,     \* kFramesInFlight
    MaxMade,      \* bound: devices and swapchains created in all
    MaxPresents,  \* bound: presents in all
    MaxFaults     \* bound: driver calls that fail, and waits of a second
                  \*   that time out

ASSUME VkAssumption ==
    /\ {InFlight, MaxMade, MaxPresents, MaxFaults} \subseteq Nat
    /\ InFlight > 0
    /\ IsFiniteSet(Swaps)
    /\ Graphics \subseteq Devices
    /\ DOMAIN FormatOf = Swaps
    /\ None \notin Devices \cup Swaps \cup {FormatOf[s] : s \in Swaps}

VARIABLES
    build,        \* "linux" or "windows"
    granted,      \* connected to the host, which allows capturing
    capturing,    \* the channel's flag, one for all devices
    dev,          \* vk_data, and the command kit of vk_cpu_capture
    chain,        \* the game's swapchains; known: the layer recorded it
    stage,        \* staging_image / SwapCap; busy says that the GPU copies,
                  \*   pend is fence_pending as long as that matters
    ctx,          \* OverlayCtx
    frame,        \* OverlayCtx::frames, submitted until the GPU is through,
                  \*   and the GPU's work on them
    lock,         \* g_mtx of overlay_vk.cpp
    call,         \* the call a device's thread is in
    sems,         \* semaphores signalled or to be signalled by submitted work
    areas,        \* staging areas that exist in the driver
    made, presents, failures, timeouts,
    apart         \* history: capture was stopped while an area stayed

shared == <<granted, capturing>>
capture == <<stage, areas, apart>>
overlay == <<ctx, frame, lock>>
limits == <<made, presents, failures, timeouts>>
vars == <<build, shared, capture, overlay, limits, dev, chain, call, sems>>

Idle == [at |-> "idle", s |-> None, wait |-> "game"]
NoDevice == [live |-> FALSE, valid |-> FALSE, cur |-> None, kit |-> "none"]
NoChain == [on |-> None, gen |-> 0, fmt |-> None, known |-> FALSE]
NoStage == [live |-> FALSE, pend |-> FALSE, busy |-> FALSE, entry |-> FALSE]
NoCtx == [made |-> FALSE, fmt |-> None, pass |-> None, ui |-> None,
          swap |-> None, view |-> 0, idx |-> 0, torn |-> FALSE]
NoFrame == [submitted |-> FALSE, work |-> "none", view |-> 0]
Slots == 0 .. InFlight - 1

Init ==
    /\ build \in {"linux", "windows"}
    /\ granted = FALSE /\ capturing = FALSE
    /\ dev = [d \in Devices |-> NoDevice]
    /\ chain = [s \in Swaps |-> NoChain]
    /\ stage = [s \in Swaps |-> NoStage]
    /\ ctx = [d \in Devices |-> NoCtx]
    /\ frame = [d \in Devices |-> [k \in Slots |-> NoFrame]]
    /\ lock = None
    /\ call = [d \in Devices |-> Idle]
    /\ sems = [d \in Devices |-> {}]
    /\ areas = [d \in Devices |-> 0]
    /\ made = 0 /\ presents = 0 /\ failures = 0 /\ timeouts = 0
    /\ apart = FALSE

-----------------------------------------------------------------------------
Goes(d, step) == call' = [call EXCEPT ![d].at = step]

(* Bound: faults happen as long as there is one device at most. *)
MayFail == failures + timeouts < MaxFaults /\ Cardinality({d \in Devices : dev[d].live}) <= 1

(* A driver call succeeds or, within the bound, fails. *)
Outcome(ok) ==
    /\ ok \/ MayFail
    /\ failures' = IF ok THEN failures ELSE failures + 1

OnDevice(d) == {s \in Swaps : chain[s].on = d}
Staged == {s \in Swaps : stage[s].live}
GpuIdle(d) ==
    /\ \A k \in Slots : frame[d][k].work \notin {"running", "stuck"}
    /\ \A s \in OnDevice(d) : ~stage[s].busy

ShouldStop == capturing /\ ~granted
ShouldInit == ~capturing /\ granted

(* capture_stop; "kept" are areas nobody has freed. *)
CaptureStop(kept) ==
    /\ capturing' = FALSE
    /\ apart' = (apart \/ kept # {})

(* Bound: areas are counted up to one more than there are handles. *)
Allocates(d) ==
    areas' = [areas EXCEPT ![d] = IF @ <= Cardinality(Swaps) THEN @ + 1 ELSE @]

(* vk_cpu_free: what the recorded swapchains of the device have staged. *)
FreeAll(d) ==
    LET freed == Staged \cap OnDevice(d) IN
    /\ stage' = [s \in Swaps |-> IF s \in freed THEN NoStage ELSE stage[s]]
    /\ areas' = [areas EXCEPT ![d] = @ - Cardinality(freed)]
    /\ CaptureStop(Staged \ OnDevice(d))

-----------------------------------------------------------------------------
(* A device the layer cannot use (a function is missing) is left alone on   *)
(* Linux and not captured from on Windows.                                  *)
CreateDevice(d) ==
    /\ ~dev[d].live /\ made < MaxMade
    /\ failures + timeouts > 0 => \A e \in Devices : ~dev[e].live
    /\ \E ok \in BOOLEAN :
          /\ Outcome(ok)
          /\ dev' = [dev EXCEPT ![d] = [NoDevice EXCEPT !.live = TRUE, !.valid = ok]]
    /\ made' = made + 1
    /\ UNCHANGED <<build, shared, capture, overlay, presents, timeouts, chain, call, sems>>

(* On Linux a swapchain is not recorded when it had to be created without   *)
(* the usage the capture needs.                                             *)
CreateSwapchain(d, s) ==
    /\ dev[d].live /\ call[d].at = "idle" /\ chain[s].on = None /\ made < MaxMade
    /\ \E ok \in BOOLEAN :
          /\ Outcome(ok)
          /\ build = "windows" => ok
          /\ chain' = [chain EXCEPT ![s] = [on |-> d, gen |-> made + 1, fmt |-> FormatOf[s],
                           known |-> ok /\ (build = "linux" => dev[d].valid)]]
    /\ made' = made + 1
    /\ UNCHANGED <<build, shared, capture, overlay, presents, timeouts, dev, call, sems>>

(* vkDestroySwapchainKHR is called ... *)
DestroySwapchain(d, s) ==
    /\ call[d].at = "idle" /\ chain[s].on = d
    /\ call' = [call EXCEPT ![d] = [Idle EXCEPT !.s = s,
                   !.at = IF build = "windows" \/ dev[d].valid THEN "forget" ELSE "drop"]]
    /\ UNCHANGED <<build, shared, capture, overlay, limits, dev, chain, sems>>

(* Mutated: the framebuffers go without a wait for the GPU. *)
Forget_NoWait(d) ==
    /\ call[d].at = "forget" /\ lock = None
    /\ IF ctx[d].swap = call[d].s
       THEN ctx' = [ctx EXCEPT ![d].view = 0, ![d].swap = None]
       ELSE UNCHANGED ctx
    /\ Goes(d, "drop")
    /\ UNCHANGED <<build, shared, capture, frame, lock, limits, dev, chain, sems>>

(* ... the overlay gives its framebuffers up ... *)
Forget(d) ==
    /\ call[d].at = "forget" /\ lock = None
    /\ IF ctx[d].swap = call[d].s
       THEN GpuIdle(d) /\ ctx' = [ctx EXCEPT ![d].view = 0, ![d].swap = None]
       ELSE UNCHANGED ctx
    /\ Goes(d, "drop")
    /\ UNCHANGED <<build, shared, capture, frame, lock, limits, dev, chain, sems>>

(* The mutex of vk_capture_win.cpp: one device at a time is between two     *)
(* steps of vk_capture_present.                                             *)
CaptureFree == \A d \in Devices : call[d].at # "take"

(* The wait for fence_pending in swap_release and vk_capture_present ends   *)
(* because the GPU is through or after a second.                            *)
WaitedFor(s, through) ==
    /\ through = (~stage[s].pend \/ ~stage[s].busy)
    /\ through \/ MayFail
    /\ timeouts' = IF through THEN timeouts ELSE timeouts + 1

(* swap_release, of an entry that stays or goes. *)
Releases(d, s, stays) ==
    /\ stage' = [stage EXCEPT ![s] = [NoStage EXCEPT !.busy = stage[s].busy, !.entry = stays]]
    /\ areas' = [areas EXCEPT ![d] = IF stage[s].live THEN @ - 1 ELSE @]

(* Mutated: on Linux the current swapchain is forgotten like any other. *)
Drop_Forgets(d) ==
    LET s == call[d].s IN
    /\ call[d].at = "drop"
    /\ IF build = "linux"
       THEN /\ stage' = [stage EXCEPT ![s] = NoStage]
            /\ UNCHANGED <<capturing, areas, apart, dev, timeouts>>
       ELSE /\ IF stage[s].entry
               THEN /\ \E through \in BOOLEAN : WaitedFor(s, through)
                    /\ Releases(d, s, FALSE) /\ CaptureStop(Staged \ {s})
               ELSE UNCHANGED <<capturing, capture, timeouts>>
            /\ CaptureFree /\ UNCHANGED dev
    /\ chain' = [chain EXCEPT ![s] = NoChain]
    /\ call' = [call EXCEPT ![d] = Idle]
    /\ UNCHANGED <<build, granted, overlay, made, presents, failures, sems>>

(* ... and the capture what it has staged; on Linux a swapchain that is not *)
(* the current one is forgotten as it is.                                   *)
Drop(d) ==
    LET s == call[d].s IN
    /\ call[d].at = "drop"
    /\ IF build = "linux"
       THEN /\ IF dev[d].cur = s
               THEN FreeAll(d) /\ dev' = [dev EXCEPT ![d].cur = None]
               ELSE /\ stage' = [stage EXCEPT ![s] = NoStage]
                    /\ UNCHANGED <<capturing, areas, apart, dev>>
            /\ UNCHANGED timeouts
       ELSE /\ IF stage[s].entry
               THEN /\ \E through \in BOOLEAN : WaitedFor(s, through)
                    /\ Releases(d, s, FALSE) /\ CaptureStop(Staged \ {s})
               ELSE UNCHANGED <<capturing, capture, timeouts>>
            /\ CaptureFree /\ UNCHANGED dev
    /\ chain' = [chain EXCEPT ![s] = NoChain]
    /\ call' = [call EXCEPT ![d] = Idle]
    /\ UNCHANGED <<build, granted, overlay, made, presents, failures, sems>>

(* vkDestroyDevice, once its swapchains are gone. *)
DestroyDevice(d) ==
    /\ dev[d].live /\ call[d].at = "idle" /\ OnDevice(d) = {}
    /\ lock = None /\ (ctx[d].made => GpuIdle(d))
    /\ ctx' = [ctx EXCEPT ![d] = NoCtx]
    /\ frame' = [frame EXCEPT ![d] = [k \in Slots |-> NoFrame]]
    /\ IF build = "linux" /\ dev[d].valid
       THEN CaptureStop(Staged)
       ELSE UNCHANGED <<capturing, apart>>
    /\ areas' = [areas EXCEPT ![d] = 0]
    /\ dev' = [dev EXCEPT ![d] = NoDevice]
    /\ UNCHANGED <<build, granted, stage, lock, limits, chain, call, sems>>

-----------------------------------------------------------------------------
(* vkQueuePresentKHR is called, once the game's own frame is submitted, and *)
(* the channel asked what the host wants.  A device that is not valid on    *)
(* Linux, and on Windows a game that is not the overlay's target, is left   *)
(* alone, in the latter case after disconnecting.                           *)
Present(d, s) ==
    /\ call[d].at = "idle" /\ chain[s].on = d /\ presents < MaxPresents
    /\ presents' = presents + 1
    /\ sems' = [sems EXCEPT ![d] = {"game"}]
    /\ \E step \in {"stop", "capture", "queue"} :
          /\ step = "stop" <=> build = "linux" /\ dev[d].valid
          /\ step = "capture" => build = "windows"
          /\ call' = [call EXCEPT ![d] = [Idle EXCEPT !.s = s, !.at = step]]
          /\ IF step # "queue" THEN granted' \in BOOLEAN
             ELSE granted' = (granted /\ build = "linux")
    /\ UNCHANGED <<build, capturing, capture, overlay, made, failures, timeouts, dev, chain>>

(* vk_capture: a capture that is no longer wanted ends ... *)
Stop(d) ==
    /\ call[d].at = "stop"
    /\ IF ShouldStop
       THEN FreeAll(d) /\ dev' = [dev EXCEPT ![d].cur = None]
       ELSE UNCHANGED <<capturing, capture, dev>>
    /\ Goes(d, "init")
    /\ UNCHANGED <<build, granted, overlay, limits, chain, sems>>

(* ... a wanted one begins; valid_rect reads a swapchain that may not be    *)
(* recorded ...                                                             *)
InitCapture(d) ==
    LET s == call[d].s IN
    /\ call[d].at = "init"
    /\ IF ~ShouldInit
       THEN Goes(d, "ready") /\ UNCHANGED <<capturing, capture, dev, failures>>
       ELSE IF ~chain[s].known
       THEN Goes(d, "crash") /\ UNCHANGED <<capturing, capture, dev, failures>>
       ELSE /\ Goes(d, "ready")
            /\ \E ok \in BOOLEAN :
                  /\ Outcome(ok)
                  /\ IF ok
                     THEN /\ stage' = [stage EXCEPT ![s].live = TRUE]
                          /\ Allocates(d)
                          /\ dev' = [dev EXCEPT ![d].cur = s]
                          /\ capturing' = TRUE /\ UNCHANGED apart
                     ELSE FreeAll(d) /\ dev' = [dev EXCEPT ![d].cur = None, ![d].valid = FALSE]
    /\ UNCHANGED <<build, granted, overlay, made, presents, timeouts, chain, sems>>

(* ... and a running one ends when another swapchain is presented (without  *)
(* drawing), or goes on, with or without a frame the host asked for.        *)
Ready(d) ==
    /\ call[d].at = "ready"
    /\ IF capturing /\ dev[d].cur # call[d].s
       THEN /\ FreeAll(d) /\ dev' = [dev EXCEPT ![d].cur = None]
            /\ Goes(d, "queue")
       ELSE Goes(d, "draw") /\ UNCHANGED <<capturing, capture, dev>>
    /\ UNCHANGED <<build, granted, overlay, limits, chain, sems>>

Requested(d) == call[d].at = "ready" /\ capturing /\ dev[d].cur = call[d].s

(* The copy takes the present's place as the one that waits for the game,   *)
(* and the present waits for the copy.                                      *)
Submits(d, what) ==
    /\ sems' = [sems EXCEPT ![d] = (@ \ {call[d].wait}) \cup {what}]
    /\ call' = [call EXCEPT ![d].wait = what, ![d].at = IF what = "copy" THEN "draw" ELSE "queue"]

(* Mutated: the present still waits for what the copy has waited for. *)
Copy_NoRedirect(d) ==
    /\ Requested(d)
    /\ sems' = [sems EXCEPT ![d] = {"copy"}]
    /\ Goes(d, "draw")
    /\ UNCHANGED <<build, shared, capture, overlay, limits, dev, chain>>

(* vk_cpu_capture: the command kit is made once, the wait redirected, the   *)
(* copy submitted and waited for.  A kit that was made in part is used as   *)
(* if it were whole; a submit that fails leaves the redirected wait.        *)
Copy(d) ==
    /\ Requested(d)
    /\ \/ /\ dev[d].kit = "part" /\ Goes(d, "crash")
          /\ UNCHANGED <<dev, failures, sems>>
       \/ /\ dev[d].kit # "part"
          /\ dev' = [dev EXCEPT ![d].kit = "whole"]
          /\ Outcome(TRUE) /\ Submits(d, "copy")
       \/ /\ dev[d].kit = "none" /\ Outcome(FALSE)
          /\ \E kit \in {"none", "part"} : dev' = [dev EXCEPT ![d].kit = kit]
          /\ Goes(d, "draw") /\ UNCHANGED sems
       \/ /\ dev[d].kit # "part" /\ Outcome(FALSE)
          /\ dev' = [dev EXCEPT ![d].kit = "whole"]
          /\ call' = [call EXCEPT ![d].wait = "copy", ![d].at = "draw"]
          /\ UNCHANGED sems
    /\ UNCHANGED <<build, shared, capture, overlay, made, presents, timeouts, chain>>

-----------------------------------------------------------------------------
(* vk_capture_present (Windows), under its mutex: a device that cannot be   *)
(* captured from, or nothing to do; else ...                                *)
Skip(d) ==
    /\ call[d].at = "capture" /\ CaptureFree
    /\ ~dev[d].valid \/ ~(capturing \/ granted)
    /\ Goes(d, "draw")
    /\ UNCHANGED <<build, shared, capture, overlay, limits, dev, chain, sems>>

Enters(d) == call[d].at = "capture" /\ CaptureFree /\ dev[d].valid

(* ... a capture that is no longer wanted ends, for this swapchain ...      *)
StopCapture(d) ==
    LET s == call[d].s IN
    /\ Enters(d) /\ ShouldStop
    /\ \E through \in BOOLEAN : WaitedFor(s, through)
    /\ Releases(d, s, TRUE)
    /\ CaptureStop(Staged \ {s})
    /\ Goes(d, "draw")
    /\ UNCHANGED <<build, granted, overlay, made, presents, failures, dev, chain, sems>>

(* ... a wanted one begins, or goes on with a swapchain that has no area    *)
(* yet; what stands in the entry is written over ...                        *)
Build(d) ==
    LET s == call[d].s IN
    /\ Enters(d) /\ granted /\ (capturing => ~stage[s].live)
    /\ \E ok \in BOOLEAN :
          /\ Outcome(ok)
          /\ IF ok
             THEN /\ stage' = [stage EXCEPT ![s].live = TRUE, ![s].busy = FALSE, ![s].entry = TRUE]
                  /\ Allocates(d)
                  /\ capturing' = TRUE /\ UNCHANGED apart
                  /\ Goes(d, "take")
             ELSE /\ stage' = [stage EXCEPT ![s] = [NoStage EXCEPT !.entry = TRUE]]
                  /\ UNCHANGED areas
                  /\ CaptureStop(Staged \ {s})
                  /\ Goes(d, "draw")
    /\ UNCHANGED <<build, granted, overlay, made, presents, timeouts, dev, chain, sems>>

(* ... and the frame is taken if the host asked for it: an earlier copy     *)
(* that is still pending is waited for, the new one submitted in the        *)
(* present's place and waited for, each for a second.                       *)
Take(d) ==
    LET s == call[d].s
        late(n) == /\ n = 0 \/ (MayFail /\ failures' + timeouts + n <= MaxFaults)
                   /\ timeouts' = timeouts + n
        before == IF stage[s].pend /\ stage[s].busy THEN 1 ELSE 0
    IN
    /\ \/ call[d].at = "take"
       \/ Enters(d) /\ capturing /\ granted /\ stage[s].live
    /\ \/ Goes(d, "draw") /\ UNCHANGED <<stage, timeouts, failures, sems>>
       \/ /\ Outcome(FALSE) /\ late(before)
          /\ stage' = [stage EXCEPT ![s].pend = FALSE]
          /\ Goes(d, "draw") /\ UNCHANGED sems
       \/ /\ Outcome(TRUE) /\ Submits(d, "copy")
          /\ \E after \in {0, 1} :
                /\ late(before + after)
                /\ stage' = [stage EXCEPT ![s].pend = (after = 1), ![s].busy = (after = 1)]
    /\ UNCHANGED <<build, shared, areas, apart, overlay, made, presents, dev, chain>>

-----------------------------------------------------------------------------
(* at_overlay_vk_draw, under g_mtx: nothing is drawn without a graphics     *)
(* queue or into a swapchain that is not recorded; the device's context is  *)
(* made at its first frame; one that cannot be made is tried again at the   *)
(* next.                                                                    *)
Draw(d) ==
    LET c == chain[call[d].s] IN
    /\ call[d].at = "draw"
    /\ IF d \notin Graphics \/ ~c.known
       THEN Goes(d, "queue") /\ UNCHANGED <<ctx, lock, failures>>
       ELSE /\ lock = None
            /\ \E ok \in BOOLEAN :
                  /\ Outcome(ok) /\ (ctx[d].made => ok)
                  /\ IF ok
                     THEN /\ ctx' = [ctx EXCEPT ![d] = IF @.made THEN @
                                  ELSE [NoCtx EXCEPT !.made = TRUE, !.fmt = c.fmt, !.pass = c.fmt]]
                          /\ lock' = d /\ Goes(d, "fit")
                     ELSE Goes(d, "queue") /\ UNCHANGED <<ctx, lock>>
    /\ UNCHANGED <<build, shared, capture, frame, made, presents, timeouts, dev, chain, sems>>

Leaves(d) == lock' = None /\ Goes(d, "queue")

(* Mutated: a new format keeps the render pass and what is built on it.     *)
Reformatted_Keep(c, f, ok) == [c EXCEPT !.view = 0, !.fmt = f, !.torn = @ \/ ~ok]

(* A new format takes ImGui and the render pass with it.                    *)
Reformatted(c, f, ok) ==
    IF c.fmt = f THEN [c EXCEPT !.view = 0]
    ELSE [c EXCEPT !.view = 0, !.fmt = f, !.ui = None,
                   !.pass = IF ok THEN f ELSE None, !.torn = @ \/ ~ok]

(* Another swapchain than before: the framebuffers are made for it, when    *)
(* the GPU is idle.  One that fails in between leaves those it has made,    *)
(* under the name of the old swapchain.                                     *)
Fit(d) ==
    LET c == chain[call[d].s]
        o == ctx[d]
    IN
    /\ call[d].at = "fit" /\ (o.fmt # c.fmt \/ o.swap # call[d].s)
    /\ GpuIdle(d)
    /\ \/ /\ Outcome(TRUE)
          /\ ctx' = [ctx EXCEPT ![d] =
                 [Reformatted(o, c.fmt, TRUE) EXCEPT !.view = c.gen, !.swap = call[d].s]]
          /\ Goes(d, "record") /\ UNCHANGED lock
       \/ /\ Outcome(FALSE) /\ Leaves(d)
          /\ \/ /\ o.fmt # c.fmt
                /\ ctx' = [ctx EXCEPT ![d] = Reformatted(o, c.fmt, FALSE)]
             \/ ctx' = [ctx EXCEPT ![d] =
                    [Reformatted(o, c.fmt, TRUE) EXCEPT !.view = c.gen, !.torn = TRUE]]
    /\ UNCHANGED <<build, shared, capture, frame, made, presents, timeouts, dev, chain, sems>>

Fits(d) == call[d].at = "fit" /\ ctx[d].fmt = chain[call[d].s].fmt /\ ctx[d].swap = call[d].s

(* Nothing is drawn without framebuffers, or when ImGui cannot be set up.   *)
DrawsNothing(d) ==
    /\ call[d].at = "record" \/ Fits(d)
    /\ \/ ctx[d].ui = None /\ Outcome(FALSE)
       \/ (ctx[d].view = 0 \/ ctx[d].pass = None) /\ Outcome(TRUE)
    /\ Leaves(d)
    /\ UNCHANGED <<build, shared, capture, ctx, frame, made, presents, timeouts, dev, chain, sems>>

(* Mutated: a frame whose submit failed still counts as submitted. *)
Record_StaysSubmitted(d) ==
    LET k == ctx[d].idx IN
    /\ (call[d].at = "record" \/ Fits(d)) /\ ctx[d].view # 0 /\ ctx[d].pass # None
    /\ ~frame[d][k].submitted
    /\ \E ok \in BOOLEAN :
          /\ Outcome(ok)
          /\ frame' = [frame EXCEPT ![d][k] =
                 IF ~ok THEN [NoFrame EXCEPT !.submitted = TRUE]
                 ELSE [submitted |-> TRUE, view |-> ctx[d].view,
                       work |-> IF call[d].wait \in sems[d] THEN "running" ELSE "stuck"]]
          /\ IF ok THEN Submits(d, "drawn") ELSE Goes(d, "queue") /\ UNCHANGED sems
    /\ ctx' = [ctx EXCEPT ![d].idx = (@ + 1) % InFlight,
                          ![d].ui = IF @ = None THEN ctx[d].pass ELSE @]
    /\ lock' = None
    /\ UNCHANGED <<build, shared, capture, made, presents, timeouts, dev, chain>>

(* ImGui is set up for the render pass if it is not yet.  A frame's         *)
(* commands are recorded once the GPU is through with its last use, however *)
(* long that takes, and submitted in the present's place.                   *)
Record(d) ==
    LET k == ctx[d].idx IN
    /\ (call[d].at = "record" \/ Fits(d)) /\ ctx[d].view # 0 /\ ctx[d].pass # None
    /\ ~frame[d][k].submitted
    /\ \E ok \in BOOLEAN :
          /\ Outcome(ok)
          /\ frame' = [frame EXCEPT ![d][k] =
                 IF ~ok THEN NoFrame
                 ELSE [submitted |-> TRUE, view |-> ctx[d].view,
                       work |-> IF call[d].wait \in sems[d] THEN "running" ELSE "stuck"]]
          /\ IF ok THEN Submits(d, "drawn") ELSE Goes(d, "queue") /\ UNCHANGED sems
    /\ ctx' = [ctx EXCEPT ![d].idx = (@ + 1) % InFlight,
                          ![d].ui = IF @ = None THEN ctx[d].pass ELSE @]
    /\ lock' = None
    /\ UNCHANGED <<build, shared, capture, made, presents, timeouts, dev, chain>>

(* The present goes on to the driver. *)
Queue(d) ==
    /\ call[d].at = "queue"
    /\ sems' = [sems EXCEPT ![d] = @ \ {call[d].wait}]
    /\ call' = [call EXCEPT ![d] = Idle]
    /\ UNCHANGED <<build, shared, capture, overlay, limits, dev, chain>>

(* The GPU is through with a frame, or with a copy. *)
FinishFrame(d, k) ==
    /\ frame[d][k].work = "running"
    /\ frame' = [frame EXCEPT ![d][k] = NoFrame]
    /\ UNCHANGED <<build, shared, capture, ctx, lock, limits, dev, chain, call, sems>>

FinishCopy(s) ==
    /\ stage[s].busy
    /\ stage' = [stage EXCEPT ![s].busy = FALSE, ![s].pend = FALSE]
    /\ UNCHANGED <<build, shared, areas, apart, overlay, limits, dev, chain, call, sems>>

-----------------------------------------------------------------------------
Step(d) ==
    \/ Forget(d) \/ Drop(d) \/ Stop(d) \/ InitCapture(d) \/ Ready(d) \/ Copy(d)
    \/ Skip(d) \/ StopCapture(d) \/ Build(d) \/ Take(d)
    \/ Draw(d) \/ Fit(d) \/ DrawsNothing(d) \/ Record(d) \/ Queue(d)

Gpu == (\E d \in Devices, k \in Slots : FinishFrame(d, k)) \/ (\E s \in Swaps : FinishCopy(s))

Game(d) ==
    \/ CreateDevice(d) \/ DestroyDevice(d)
    \/ \E s \in Swaps : CreateSwapchain(d, s) \/ DestroySwapchain(d, s) \/ Present(d, s)

Next == Gpu \/ \E d \in Devices : Step(d) \/ Game(d)

(* The threads run, and the GPU gets through what can run. *)
Spec ==
    /\ Init /\ [][Next]_vars
    /\ WF_vars(Gpu)
    /\ \A d \in Devices : WF_vars(Step(d))

-----------------------------------------------------------------------------
TypeOK ==
    /\ \A d \in Devices : areas[d] \in 0 .. Cardinality(Swaps) + 1 /\ ctx[d].idx \in Slots
    /\ lock \in Devices \cup {None}

(* A semaphore is waited for once, and only when work that signals it was   *)
(* submitted before: a present waits for the last of game, copy and overlay *)
(* and leaves nothing signalled.  The exception is a copy whose submit      *)
(* fails: vk_cpu_capture on Linux redirects the present's wait first.       *)
Redirected(d) == "game" \in sems[d] /\ call[d].wait # "game" /\ failures > 0
SemaphoresPaired ==
    \A d \in Devices :
        IF call[d].at \in {"idle", "forget", "drop"} THEN failures = 0 => sems[d] = {}
        ELSE sems[d] = {call[d].wait} \/ Redirected(d)

(* The overlay draws into framebuffers of the swapchain that is presented,  *)
(* of its format, with an ImGui set up for that format; and it has none of  *)
(* a swapchain that is gone, whose handle may be in use again.  The         *)
(* exceptions are a device on which making them has failed (torn) and, on   *)
(* Linux, one that was given up when a capture could not begin.             *)
FramebuffersFit ==
    \A d \in Devices :
        LET o == ctx[d]
            c == chain[call[d].s]
        IN  \/ o.torn \/ (build = "linux" /\ ~dev[d].valid)
            \/ /\ call[d].at = "record" \/ Fits(d) =>
                     o.view = c.gen /\ o.pass = c.fmt /\ o.ui \in {None, c.fmt}
               /\ o.view # 0 => \E s \in OnDevice(d) : chain[s].gen = o.view /\ o.swap = s

(* What the GPU works with is not taken from it: framebuffers are not       *)
(* destroyed while a frame is drawn, and a copy that outlasted the wait of  *)
(* a second is known to be pending, its buffer kept and its fence not       *)
(* reset.  The second wait that times out is not noticed.                   *)
BusyIsLeftAlone ==
    /\ \A d \in Devices, k \in Slots :
           frame[d][k].work = "running" => frame[d][k].view = ctx[d].view
    /\ timeouts < 2 => \A s \in Swaps : stage[s].busy => stage[s].live /\ stage[s].pend

(* Every staging area in the driver is in the layer's records, to be freed  *)
(* with its swapchain or device.  The exception: capture_stop, whose flag   *)
(* is one for all, was called while another swapchain or device kept its    *)
(* area: then there is more than the "one ... per swapchain" of             *)
(* vklayer.c:427.                                                           *)
StagingAccounted ==
    \A d \in Devices :
        apart \/ areas[d] = Cardinality({s \in OnDevice(d) : stage[s].live})

(* Every vkQueuePresentKHR and vkDestroySwapchainKHR returns, although the  *)
(* overlay waits for the GPU without a limit: what it waits for has been    *)
(* submitted and can run.  The exceptions: a present that begins a capture  *)
(* of a swapchain that was not recorded, a command kit made in part, and    *)
(* the copy of SemaphoresPaired.                                            *)
Wedged ==
    \/ \E d \in Devices, k \in Slots : frame[d][k].work = "stuck" /\ failures > 0
    \/ \E d \in Devices : call[d].at = "crash" /\ failures > 0
CallsReturn ==
    \A d \in Devices : []<>(call[d].at = "idle" \/ Wedged)

=============================================================================
