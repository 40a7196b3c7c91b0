---------------------------- MODULE VkLayer_proofs ----------------------------
(***************************************************************************)
(* Proofs about VkLayer: for any number of devices, swapchains and frames  *)
(* in flight, on both systems and whatever fails, every semaphore that is  *)
(* waited for will be signalled, the overlay draws into the swapchain that *)
(* is presented, nothing the GPU works with is taken from it, and no       *)
(* staging area is lost, but for the exceptions the invariants name.       *)
(*                                                                         *)
(* The calls of a device are made on one thread, so a device's own records *)
(* change by its own steps only; what devices share are the capture's flag *)
(* and the table of swapchains.  A swapchain in use by a call stays until  *)
(* the call returns, and the overlay has given it up before it goes.       *)
(***************************************************************************)
EXTENDS VkLayer, FiniteSetTheorems, TLAPS

Places == {"idle", "forget", "drop", "stop", "init", "ready", "capture", "take",
           "draw", "fit", "record", "queue", "crash"}
Signals == {"game", "copy", "drawn"}
Formats == {FormatOf[s] : s \in Swaps} \cup {None}

CallRecords == [at : Places, s : Swaps \cup {None}, wait : Signals]
DeviceRecords == [live : BOOLEAN, valid : BOOLEAN, cur : Swaps \cup {None},
                  kit : {"none", "part", "whole"}]
ChainRecords == [on : Devices \cup {None}, gen : Nat, fmt : Formats, known : BOOLEAN]
StageRecords == [live : BOOLEAN, pend : BOOLEAN, busy : BOOLEAN, entry : BOOLEAN]
CtxRecords == [made : BOOLEAN, fmt : Formats, pass : Formats, ui : Formats,
               swap : Swaps \cup {None}, view : Nat, idx : Slots, torn : BOOLEAN]
FrameRecords == [submitted : BOOLEAN, work : {"none", "running", "stuck"}, view : Nat]

Types ==
    /\ build \in {"linux", "windows"}
    /\ {granted, capturing, apart} \subseteq BOOLEAN
    /\ {made, failures, timeouts} \subseteq Nat
    /\ dev \in [Devices -> DeviceRecords]
    /\ chain \in [Swaps -> ChainRecords]
    /\ stage \in [Swaps -> StageRecords]
    /\ ctx \in [Devices -> CtxRecords]
    /\ frame \in [Devices -> [Slots -> FrameRecords]]
    /\ call \in [Devices -> CallRecords]
    /\ sems \in [Devices -> SUBSET Signals]
    /\ areas \in [Devices -> Int]

GivenUp(d) == build = "linux" /\ ~dev[d].valid

(* A call is about a swapchain of its device, and a swapchain has a device. *)
(* A present begins to wait for the game's semaphore.                       *)
Owned ==
    /\ \A s \in Swaps : chain[s].on # None => dev[chain[s].on].live /\ chain[s].gen # 0
    /\ \A d \in Devices :
          /\ call[d].at # "idle" => call[d].s \in Swaps /\ chain[call[d].s].on = d
          /\ call[d].at \in {"stop", "init", "ready"} => build = "linux"
          /\ call[d].at \in {"capture", "take"} => build = "windows"
          /\ call[d].at = "take" => stage[call[d].s].live
          /\ call[d].at \in {"stop", "init", "ready", "capture", "take"} => call[d].wait = "game"

(* The staging areas: while no capture was stopped beside an area, there    *)
(* are areas only while capturing, on Linux only the current swapchain's.   *)
OfChain(d) == {s \in OnDevice(d) : stage[s].live}

Recorded ==
    /\ \A s \in Staged :
          /\ chain[s].on # None
          /\ build = "windows" => stage[s].entry
          /\ build = "linux" /\ ~apart => dev[chain[s].on].cur = s
    /\ ~apart /\ ~capturing => Staged = {}

(* A copy that is still under way has outlasted a wait. *)
Outlasted == \A s \in Swaps : stage[s].busy => timeouts > 0

(* The overlay's context is that of a living swapchain, or of none. *)
Fitting ==
    \A d \in Devices :
        LET o == ctx[d] IN
        /\ ~o.made \/ ~dev[d].live => o.view = 0 /\ o.swap = None
        /\ o.torn \/ (o.pass = o.fmt /\ o.ui \in {None, o.fmt})
        /\ call[d].at \in {"fit", "record"} => o.made
        /\ call[d].at = "drop" => GivenUp(d) \/ o.swap # call[d].s
        /\ \/ o.torn \/ GivenUp(d)
           \/ /\ \/ o.view = 0 /\ o.swap = None
                 \/ /\ o.swap \in Swaps /\ chain[o.swap].on = d /\ chain[o.swap].gen = o.view
              /\ call[d].at = "record" => o.swap = call[d].s /\ o.fmt = chain[call[d].s].fmt

IInv ==
    /\ Types /\ Owned /\ Recorded /\ Outlasted /\ Fitting
    /\ SemaphoresPaired /\ BusyIsLeftAlone /\ StagingAccounted
-----------------------------------------------------------------------------
(* What the steps do to the call of a device. *)

LEMMA Going ==
    ASSUME Types, NEW d \in Devices, NEW step \in Places, Goes(d, step)
    PROVE  /\ call' \in [Devices -> CallRecords]
           /\ call'[d].at = step /\ call'[d].s = call[d].s /\ call'[d].wait = call[d].wait
           /\ \A e \in Devices \ {d} : call'[e] = call[e]
<1>1. call[d] \in CallRecords /\ call'[d] = [call[d] EXCEPT !.at = step]
  BY DEF Types, Goes
<1>2. [call[d] EXCEPT !.at = step] \in CallRecords
  BY <1>1 DEF CallRecords
<1>3. call' \in [Devices -> CallRecords] /\ \A e \in Devices \ {d} : call'[e] = call[e]
  BY <1>2 DEF Types, Goes
<1>. QED
  BY <1>1, <1>3 DEF CallRecords

LEMMA Submitting ==
    ASSUME Types, NEW d \in Devices, NEW what \in {"copy", "drawn"}, Submits(d, what)
    PROVE  /\ call' \in [Devices -> CallRecords]
           /\ call'[d].at = (IF what = "copy" THEN "draw" ELSE "queue")
           /\ call'[d].s = call[d].s /\ call'[d].wait = what
           /\ \A e \in Devices \ {d} : call'[e] = call[e] /\ sems'[e] = sems[e]
           /\ sems' \in [Devices -> SUBSET Signals]
           /\ sems'[d] = (sems[d] \ {call[d].wait}) \cup {what}
<1> DEFINE step == IF what = "copy" THEN "draw" ELSE "queue"
<1>1. call[d] \in CallRecords /\ call'[d] = [call[d] EXCEPT !.wait = what, !.at = step]
  BY DEF Types, Submits
<1>2. [call[d] EXCEPT !.wait = what, !.at = step] \in CallRecords
  BY <1>1 DEF CallRecords, Places, Signals
<1>3. call' \in [Devices -> CallRecords] /\ \A e \in Devices \ {d} : call'[e] = call[e]
  BY <1>2 DEF Types, Submits
<1>4. /\ sems'[d] = (sems[d] \ {call[d].wait}) \cup {what} /\ sems[d] \subseteq Signals
      /\ \A e \in Devices \ {d} : sems'[e] = sems[e]
  BY DEF Types, Submits
<1>5. sems' \in [Devices -> SUBSET Signals]
  BY <1>4 DEF Types, Submits, Signals
<1>. QED
  BY <1>1, <1>3, <1>4, <1>5 DEF CallRecords

(* The part of SemaphoresPaired that is about one device. *)
Paired(d) ==
    IF call[d].at \in {"idle", "forget", "drop"} THEN failures = 0 => sems[d] = {}
    ELSE sems[d] = {call[d].wait} \/ Redirected(d)

(* What a step of a device does to the calls, the semaphores and the counts. *)
OneCall(d) ==
    /\ call' \in [Devices -> CallRecords] /\ sems' \in [Devices -> SUBSET Signals]
    /\ \A e \in Devices \ {d} : call'[e] = call[e] /\ sems'[e] = sems[e]
    /\ failures' \in Nat /\ failures' >= failures
    /\ timeouts' \in Nat /\ timeouts' >= timeouts
    /\ Paired(d)'

Counting == failures' \in Nat /\ failures' >= failures /\ timeouts' \in Nat /\ timeouts' >= timeouts

LEMMA CountsGoOn ==
    ASSUME Types, Next
    PROVE  Counting
<1> DEFINE Fails == failures' = failures \/ failures' = failures + 1
           Lates == timeouts' = timeouts \/ timeouts' = timeouts + 1 \/ timeouts' = timeouts + 2
<1>1. ASSUME Gpu PROVE Fails /\ Lates
  BY <1>1 DEF Gpu, FinishFrame, FinishCopy, limits
<1>2. ASSUME NEW d \in Devices, Step(d) PROVE Fails /\ Lates
  <2>1. CASE Forget(d) \/ Stop(d) \/ Ready(d) \/ Skip(d) \/ Queue(d)
    BY <2>1 DEF Forget, Stop, Ready, Skip, Queue, limits
  <2>2. CASE Drop(d)
    BY <2>2 DEF Drop, WaitedFor, capture
  <2>3. CASE StopCapture(d)
    BY <2>3 DEF StopCapture, WaitedFor
  <2>4. CASE InitCapture(d)
    BY <2>4 DEF InitCapture, Outcome
  <2>5. CASE Copy(d)
    BY <2>5 DEF Copy, Outcome
  <2>6. CASE Build(d)
    BY <2>6 DEF Build, Outcome
  <2>7. CASE Draw(d)
    BY <2>7 DEF Draw, Outcome
  <2>8. CASE Fit(d) \/ DrawsNothing(d)
    BY <2>8 DEF Fit, DrawsNothing, Outcome
  <2>9. CASE Record(d)
    BY <2>9 DEF Record, Outcome
  <2>10. CASE Take(d)
    <3>1. Fails
      BY <2>10 DEF Take, Outcome
    <3>2. timeouts' = timeouts \/ \E n, m \in {0, 1} : timeouts' = timeouts + n \/ timeouts' = timeouts + (n + m)
      BY <2>10 DEF Take
    <3>. QED
      BY <3>1, <3>2 DEF Types
  <2>. QED
    BY <1>2, <2>1, <2>2, <2>3, <2>4, <2>5, <2>6, <2>7, <2>8, <2>9, <2>10 DEF Step
<1>3. ASSUME NEW d \in Devices, Game(d) PROVE Fails /\ Lates
  <2>1. CASE CreateDevice(d) \/ DestroyDevice(d)
    BY <2>1 DEF CreateDevice, DestroyDevice, Outcome, limits
  <2>2. ASSUME NEW s \in Swaps, CreateSwapchain(d, s) PROVE Fails /\ Lates
    BY <2>2 DEF CreateSwapchain, Outcome
  <2>3. ASSUME NEW s \in Swaps, DestroySwapchain(d, s) \/ Present(d, s) PROVE Fails /\ Lates
    BY <2>3 DEF DestroySwapchain, Present, limits
  <2>. QED
    BY <1>3, <2>1, <2>2, <2>3 DEF Game
<1>4. Fails /\ Lates
  BY <1>1, <1>2, <1>3 DEF Next, Gpu, FinishFrame, FinishCopy, limits
<1>. QED
  BY <1>4 DEF Types, Counting

(* A step that leaves the semaphores alone and stays in the present. *)
LEMMA PairedOn ==
    ASSUME Types, NEW d \in Devices, Paired(d), UNCHANGED sems, Counting,
           NEW step \in Places, Goes(d, step),
           \/ call[d].at \notin {"idle", "forget", "drop"} /\ step \notin {"idle", "forget", "drop"}
           \/ call[d].at = "forget" /\ step = "drop"
    PROVE  OneCall(d)
  BY Going DEF OneCall, Paired, Redirected, Counting, Types

(* The one that waits for the present waits for the new work, which waits   *)
(* for what the present has waited for.                                     *)
LEMMA PairedSubmit ==
    ASSUME Types, NEW d \in Devices, Paired(d), Counting,
           call[d].at \notin {"idle", "forget", "drop"},
           NEW what \in {"copy", "drawn"}, Submits(d, what)
    PROVE  OneCall(d)
  BY Submitting DEF OneCall, Paired, Redirected, Counting, Types-----------------------------------------------------------------------------
(* The types. *)

LEMMA RecordTypes ==
    ASSUME VkAssumption
    PROVE  /\ Idle \in CallRecords /\ NoDevice \in DeviceRecords /\ NoChain \in ChainRecords
           /\ NoStage \in StageRecords /\ NoCtx \in CtxRecords /\ NoFrame \in FrameRecords
           /\ None \in Formats /\ 0 \in Slots /\ \A s \in Swaps : FormatOf[s] \in Formats
  BY DEF Idle, NoDevice, NoChain, NoStage, NoCtx, NoFrame, VkAssumption, Slots, Formats,
         CallRecords, DeviceRecords, ChainRecords, StageRecords, CtxRecords, FrameRecords,
         Places, Signals

(* The call a device is in is about a swapchain. *)
LEMMA Called ==
    ASSUME VkAssumption, Types, Owned, NEW d \in Devices, call[d].at # "idle"
    PROVE  /\ call[d].s \in Swaps /\ chain[call[d].s].on = d
           /\ chain[call[d].s] \in ChainRecords /\ stage[call[d].s] \in StageRecords
           /\ chain[call[d].s].gen # 0
<1>1. call[d].s \in Swaps /\ chain[call[d].s].on = d
  BY DEF Owned
<1>2. chain[call[d].s].gen # 0
  BY <1>1 DEF Owned, VkAssumption
<1>. QED
  BY <1>1, <1>2 DEF Types

LEMMA StageTypes ==
    ASSUME Types, VkAssumption, Owned, NEW d \in Devices, NEW s \in Swaps
    PROVE  /\ FreeAll(d) => stage' \in [Swaps -> StageRecords] /\ capturing' = FALSE /\ apart' \in BOOLEAN
           /\ \A stays \in BOOLEAN : Releases(d, s, stays) => stage' \in [Swaps -> StageRecords]
<1>1. /\ stage \in [Swaps -> StageRecords] /\ NoStage \in StageRecords /\ apart \in BOOLEAN
  BY RecordTypes DEF Types
<1>2. ASSUME FreeAll(d) PROVE stage' \in [Swaps -> StageRecords] /\ capturing' = FALSE /\ apart' \in BOOLEAN
  BY <1>1, <1>2 DEF FreeAll, CaptureStop
<1>3. ASSUME NEW stays \in BOOLEAN, Releases(d, s, stays) PROVE stage' \in [Swaps -> StageRecords]
  <2>1. [NoStage EXCEPT !.busy = stage[s].busy, !.entry = stays] \in StageRecords
    BY <1>1 DEF StageRecords
  <2>. QED
    BY <1>1, <1>3, <2>1 DEF Releases
<1>. QED
  BY <1>2, <1>3
LEMMA ReformattedTypes ==
    ASSUME Types, VkAssumption, NEW c \in CtxRecords, NEW f \in Formats, NEW ok \in BOOLEAN
    PROVE  /\ Reformatted(c, f, ok) \in CtxRecords
           /\ Reformatted(c, f, ok).view = 0 /\ Reformatted(c, f, ok).swap = c.swap
           /\ Reformatted(c, f, ok).fmt = f /\ Reformatted(c, f, ok).made = c.made
           /\ Reformatted(c, f, ok).torn = (c.torn \/ (c.fmt # f /\ ~ok))
           /\ Reformatted(c, f, ok).pass = IF c.fmt = f THEN c.pass ELSE IF ok THEN f ELSE None
           /\ Reformatted(c, f, ok).ui = IF c.fmt = f THEN c.ui ELSE None
<1>1. None \in Formats
  BY DEF Formats
<1>2. CASE c.fmt = f
  <2>1. Reformatted(c, f, ok) = [c EXCEPT !.view = 0]
    BY <1>2 DEF Reformatted
  <2>2. c.torn \in BOOLEAN
    BY DEF CtxRecords
  <2>. QED
    BY <1>2, <2>1, <2>2 DEF CtxRecords
<1>3. CASE c.fmt # f
  <2>1. Reformatted(c, f, ok) = [c EXCEPT !.view = 0, !.fmt = f, !.ui = None,
                   !.pass = IF ok THEN f ELSE None, !.torn = @ \/ ~ok]
    BY <1>3 DEF Reformatted
  <2>2. (c.torn \/ ~ok) \in BOOLEAN /\ (IF ok THEN f ELSE None) \in Formats
    BY <1>1
  <2>3. Reformatted(c, f, ok) \in CtxRecords
    <3>1. ASSUME NEW t \in BOOLEAN, NEW p \in Formats
          PROVE  [c EXCEPT !.view = 0, !.fmt = f, !.ui = None, !.pass = p, !.torn = t] \in CtxRecords
      BY <1>1 DEF CtxRecords
    <3>. QED
      BY ZenonT(60), <2>1, <2>2, <3>1
  <2>4. Reformatted(c, f, ok).torn = (c.torn \/ ~ok)
    BY <2>1 DEF CtxRecords
  <2>5. /\ Reformatted(c, f, ok).view = 0 /\ Reformatted(c, f, ok).swap = c.swap
        /\ Reformatted(c, f, ok).fmt = f /\ Reformatted(c, f, ok).made = c.made
        /\ Reformatted(c, f, ok).pass = IF ok THEN f ELSE None
        /\ Reformatted(c, f, ok).ui = None
    BY <2>1 DEF CtxRecords
  <2>. QED
    BY <1>3, <2>3, <2>4, <2>5
<1>. QED
  BY <1>2, <1>3

LEMMA AreasTypes ==
    ASSUME Types, NEW d \in Devices, NEW s
    PROVE  /\ Allocates(d) => areas' \in [Devices -> Int]
           /\ \A stays \in BOOLEAN : Releases(d, s, stays) => areas' \in [Devices -> Int]
<1>1. areas \in [Devices -> Int]
  BY DEF Types
<1>2. ASSUME Allocates(d) PROVE areas' \in [Devices -> Int]
  BY <1>1, <1>2 DEF Allocates
<1>3. ASSUME NEW stays \in BOOLEAN, Releases(d, s, stays) PROVE areas' \in [Devices -> Int]
  BY <1>1, <1>3 DEF Releases
<1>. QED
  BY <1>2, <1>3
LEMMA TypesOfGame ==
    ASSUME Types, Owned, VkAssumption, NEW d \in Devices, Game(d)
    PROVE  Types'
<1>. Counting
  BY CountsGoOn DEF Next
<1>0. made \in Nat /\ made' \in Nat
  <2>1. CreateDevice(d) => made' = made + 1
    BY DEF CreateDevice
  <2>2. DestroyDevice(d) => made' = made
    BY DEF DestroyDevice, limits
  <2>3. \A s \in Swaps : CreateSwapchain(d, s) => made' = made + 1
    BY DEF CreateSwapchain
  <2>4. \A s \in Swaps : DestroySwapchain(d, s) \/ Present(d, s) => made' = made
    BY DEF DestroySwapchain, Present, limits
  <2>. QED
    BY <2>1, <2>2, <2>3, <2>4 DEF Types, Game
<1>1. CASE CreateDevice(d)
  <2>1. \A ok \in BOOLEAN : [NoDevice EXCEPT !.live = TRUE, !.valid = ok] \in DeviceRecords
    BY DEF NoDevice, DeviceRecords
  <2>2. dev' \in [Devices -> DeviceRecords]
    BY <1>1, <2>1 DEF CreateDevice, Types
  <2>. QED
    BY <1>0, <1>1, <2>2 DEF CreateDevice, Types, Counting, shared, capture, overlay
<1>2. CASE DestroyDevice(d)
  <2>1. /\ dev' \in [Devices -> DeviceRecords] /\ ctx' \in [Devices -> CtxRecords]
        /\ frame' \in [Devices -> [Slots -> FrameRecords]] /\ areas' \in [Devices -> Int]
    BY <1>2, RecordTypes DEF DestroyDevice, Types
  <2>2. capturing' \in BOOLEAN /\ apart' \in BOOLEAN
    BY <1>2 DEF DestroyDevice, CaptureStop, Types
  <2>. QED
    BY <1>0, <1>2, <2>1, <2>2 DEF DestroyDevice, Types, Counting
<1>3. ASSUME NEW s \in Swaps, CreateSwapchain(d, s) PROVE Types'
  <2>1. PICK ok \in BOOLEAN : chain' = [chain EXCEPT ![s] = [on |-> d, gen |-> made + 1, fmt |-> FormatOf[s],
                           known |-> ok /\ (build = "linux" => dev[d].valid)]]
    BY <1>3 DEF CreateSwapchain
  <2>2. \A b \in BOOLEAN : [on |-> d, gen |-> made + 1, fmt |-> FormatOf[s], known |-> b] \in ChainRecords
    BY <1>0, RecordTypes DEF ChainRecords
  <2>3. (ok /\ (build = "linux" => dev[d].valid)) \in BOOLEAN
    OBVIOUS
  <2>4. chain' \in [Swaps -> ChainRecords]
    BY <2>1, <2>2, <2>3 DEF Types
  <2>. QED
    BY <1>0, <1>3, <2>4 DEF CreateSwapchain, Types, Counting, shared, capture, overlay
<1>4. ASSUME NEW s \in Swaps, DestroySwapchain(d, s) PROVE Types'
  <2>1. \A p \in {"forget", "drop"} : [Idle EXCEPT !.s = s, !.at = p] \in CallRecords
    BY DEF Idle, CallRecords, Places, Signals
  <2>2. call' \in [Devices -> CallRecords]
    BY <1>4, <2>1 DEF DestroySwapchain, Types
  <2>. QED
    BY <1>4, <2>2 DEF DestroySwapchain, Types, shared, capture, overlay, limits
<1>5. ASSUME NEW s \in Swaps, Present(d, s) PROVE Types'
  <2>1. \A p \in {"stop", "capture", "queue"} : [Idle EXCEPT !.s = s, !.at = p] \in CallRecords
    BY DEF Idle, CallRecords, Places, Signals
  <2>2. call' \in [Devices -> CallRecords]
    <3>1. PICK p \in {"stop", "capture", "queue"} : call' = [call EXCEPT ![d] = [Idle EXCEPT !.s = s, !.at = p]]
      BY <1>5 DEF Present
    <3>. QED
      BY <2>1, <3>1 DEF Types
  <2>3. granted' \in BOOLEAN
    BY <1>5 DEF Present, Types
  <2>4. sems' \in [Devices -> SUBSET Signals]
    BY <1>5 DEF Present, Types, Signals
  <2>. QED
    BY <1>0, <1>5, <2>2, <2>3, <2>4 DEF Present, Types, Counting, capture, overlay
<1>. QED
  BY <1>1, <1>2, <1>3, <1>4, <1>5 DEF Game

LEMMA TypesOfGpu ==
    ASSUME Types, VkAssumption, Gpu
    PROVE  Types'
<1>1. ASSUME NEW d \in Devices, NEW k \in Slots, FinishFrame(d, k) PROVE Types'
  <2>1. frame' \in [Devices -> [Slots -> FrameRecords]]
    BY <1>1, RecordTypes DEF FinishFrame, Types
  <2>. QED
    BY <1>1, <2>1 DEF FinishFrame, Types, shared, capture, limits
<1>2. ASSUME NEW s \in Swaps, FinishCopy(s) PROVE Types'
  <2>1. [stage[s] EXCEPT !.busy = FALSE, !.pend = FALSE] \in StageRecords
    <3>. stage[s] \in StageRecords
      BY DEF Types
    <3>. QED
      BY DEF StageRecords
  <2>2. stage' = [stage EXCEPT ![s] = [stage[s] EXCEPT !.busy = FALSE, !.pend = FALSE]]
    BY <1>2 DEF FinishCopy, Types
  <2>3. stage' \in [Swaps -> StageRecords]
    BY <2>1, <2>2 DEF Types
  <2>. QED
    BY <1>2, <2>3 DEF FinishCopy, Types, shared, overlay, limits
<1>. QED
  BY <1>1, <1>2 DEF Gpu
LEMMA TypesOfCapture ==
    ASSUME Types, Owned, VkAssumption, NEW d \in Devices,
           \/ Forget(d) \/ Drop(d) \/ Stop(d) \/ InitCapture(d) \/ Ready(d) \/ Copy(d)
           \/ Skip(d) \/ StopCapture(d) \/ Build(d) \/ Take(d)
    PROVE  Types'
<1> DEFINE s == call[d].s
<1>. Counting
  BY CountsGoOn DEF Next, Step
<1>0. made' = made
  BY DEF Forget, Drop, Stop, InitCapture, Ready, Copy, Skip, StopCapture, Build, Take, limits
<1>a. call[d].at # "idle" /\ (Requested(d) => call[d].at = "ready") /\ (Enters(d) => call[d].at = "capture")
  BY DEF Forget, Drop, Stop, InitCapture, Ready, Copy, Skip, StopCapture, Build, Take, Requested, Enters
<1>b. s \in Swaps
  BY <1>a, Called
<1>c. \A p \in Places : Goes(d, p) => call' \in [Devices -> CallRecords]
  BY Going
<1>d. /\ \A p \in {"drop", "init", "ready", "crash", "queue", "draw", "take"} : p \in Places
      /\ NoStage \in StageRecords /\ Idle \in CallRecords /\ NoChain \in ChainRecords
      /\ dev[d] \in DeviceRecords /\ stage[s] \in StageRecords
  BY <1>b, RecordTypes DEF Places, Types
<1>e. /\ \A c \in Swaps \cup {None} : dev' = [dev EXCEPT ![d].cur = c] => dev' \in [Devices -> DeviceRecords]
      /\ dev' = [dev EXCEPT ![d].cur = None, ![d].valid = FALSE] => dev' \in [Devices -> DeviceRecords]
      /\ \A k \in {"none", "part", "whole"} : dev' = [dev EXCEPT ![d].kit = k] => dev' \in [Devices -> DeviceRecords]
  <2>1. /\ \A c \in Swaps \cup {None} : [dev[d] EXCEPT !.cur = c] \in DeviceRecords
        /\ [dev[d] EXCEPT !.cur = None, !.valid = FALSE] \in DeviceRecords
        /\ \A k \in {"none", "part", "whole"} : [dev[d] EXCEPT !.kit = k] \in DeviceRecords
    BY <1>d DEF DeviceRecords
  <2>2. dev \in [Devices -> DeviceRecords]
    BY DEF Types
  <2>3. ASSUME NEW r \in DeviceRecords PROVE [dev EXCEPT ![d] = r] \in [Devices -> DeviceRecords]
    BY <2>2
  <2>4. ASSUME NEW c \in Swaps \cup {None} PROVE [dev EXCEPT ![d].cur = c] \in [Devices -> DeviceRecords]
    BY <2>1, <2>3
  <2>5. [dev EXCEPT ![d].cur = None, ![d].valid = FALSE] = [dev EXCEPT ![d] = [dev[d] EXCEPT !.cur = None, !.valid = FALSE]]
    BY <2>2 DEF DeviceRecords
  <2>6. ASSUME NEW k \in {"none", "part", "whole"} PROVE [dev EXCEPT ![d].kit = k] \in [Devices -> DeviceRecords]
    BY <2>1, <2>3
  <2>. QED
    BY <2>1, <2>3, <2>4, <2>5, <2>6
<1>f. FreeAll(d) => /\ stage' \in [Swaps -> StageRecords] /\ areas' \in [Devices -> Int]
                    /\ capturing' \in BOOLEAN /\ apart' \in BOOLEAN
  <2>1. Staged \cap OnDevice(d) \subseteq Swaps
    BY DEF Staged
  <2>2. IsFiniteSet(Staged \cap OnDevice(d))
    BY <2>1, FS_Subset DEF VkAssumption
  <2>3. Cardinality(Staged \cap OnDevice(d)) \in Nat
    BY <2>2, FS_CardinalityType
  <2>4. FreeAll(d) => areas' \in [Devices -> Int]
    BY <2>3 DEF FreeAll, Types
  <2>. QED
    BY <1>b, <2>4, StageTypes
<1>g. \A kept : CaptureStop(kept) => capturing' \in BOOLEAN /\ apart' \in BOOLEAN
  BY DEF CaptureStop, Types
<1>h. \A r \in StageRecords : stage' = [stage EXCEPT ![s] = r] => stage' \in [Swaps -> StageRecords]
  <2>1. stage \in [Swaps -> StageRecords]
    BY DEF Types
  <2>2. ASSUME NEW r \in StageRecords PROVE [stage EXCEPT ![s] = r] \in [Swaps -> StageRecords]
    BY <1>b, <2>1
  <2>. QED
    BY <2>2
<1>1. CASE Forget(d)
  <2>1. ctx' \in [Devices -> CtxRecords]
    <3>1. [ctx[d] EXCEPT !.view = 0, !.swap = None] \in CtxRecords
      <4>1. ctx[d] \in CtxRecords
        BY DEF Types
      <4>. QED
        BY <4>1 DEF CtxRecords
    <3>. QED
      BY <1>1, <3>1 DEF Forget, Types
  <2>2. call' \in [Devices -> CallRecords]
    BY <1>1, <1>c, <1>d DEF Forget
  <2>. QED
    BY <1>1, <2>1, <2>2 DEF Forget, Types, shared, capture, limits
<1>2. CASE Drop(d)
  <2>1. call' \in [Devices -> CallRecords] /\ chain' \in [Swaps -> ChainRecords]
    BY <1>2, <1>d DEF Drop, Types
  <2>2. /\ stage' \in [Swaps -> StageRecords] /\ areas' \in [Devices -> Int]
        /\ capturing' \in BOOLEAN /\ apart' \in BOOLEAN /\ dev' \in [Devices -> DeviceRecords]
    <3>1. CASE build = "linux" /\ dev[d].cur = s
      BY <1>2, <1>e, <1>f, <3>1 DEF Drop
    <3>2. CASE build = "linux" /\ dev[d].cur # s
      BY <1>2, <1>d, <3>2 DEF Drop, Types
    <3>3. CASE build # "linux" /\ stage[s].entry
      <4>1. Releases(d, s, FALSE) /\ CaptureStop(Staged \ {s}) /\ UNCHANGED dev
        BY <1>2, <3>3 DEF Drop
      <4>. QED
        BY <1>b, <1>g, <4>1, AreasTypes, StageTypes DEF Types
    <3>4. CASE build # "linux" /\ ~stage[s].entry
      BY <1>2, <3>4 DEF Drop, Types, capture
    <3>. QED
      BY <3>1, <3>2, <3>3, <3>4
  <2>. QED
    BY <1>0, <1>2, <2>1, <2>2 DEF Drop, Types, overlay, Counting
<1>3. CASE Stop(d)
  <2>1. /\ stage' \in [Swaps -> StageRecords] /\ areas' \in [Devices -> Int]
        /\ capturing' \in BOOLEAN /\ apart' \in BOOLEAN /\ dev' \in [Devices -> DeviceRecords]
    BY <1>3, <1>e, <1>f DEF Stop, Types, capture
  <2>2. call' \in [Devices -> CallRecords]
    BY <1>3, <1>c, <1>d DEF Stop
  <2>. QED
    BY <1>3, <2>1, <2>2 DEF Stop, Types, overlay, limits
<1>4. CASE InitCapture(d)
  <2>1. call' \in [Devices -> CallRecords]
    BY <1>4, <1>c, <1>d DEF InitCapture
  <2>2. /\ stage' \in [Swaps -> StageRecords] /\ areas' \in [Devices -> Int]
        /\ capturing' \in BOOLEAN /\ apart' \in BOOLEAN /\ dev' \in [Devices -> DeviceRecords]
    <3>1. CASE UNCHANGED <<capturing, capture, dev>>
      BY <3>1 DEF Types, capture
    <3>2. CASE /\ stage' = [stage EXCEPT ![s].live = TRUE] /\ Allocates(d)
               /\ dev' = [dev EXCEPT ![d].cur = s] /\ capturing' = TRUE /\ UNCHANGED apart
      <4>1. [stage[s] EXCEPT !.live = TRUE] \in StageRecords
        BY <1>d DEF StageRecords
      <4>2. stage' \in [Swaps -> StageRecords]
        BY <1>b, <3>2, <4>1 DEF Types
      <4>. QED
        BY <1>b, <1>e, <3>2, <4>2, AreasTypes DEF Types
    <3>3. CASE FreeAll(d) /\ dev' = [dev EXCEPT ![d].cur = None, ![d].valid = FALSE]
      BY <1>e, <1>f, <3>3
    <3>. QED
      BY <1>4, <3>1, <3>2, <3>3 DEF InitCapture
  <2>. QED
    BY <1>0, <1>4, <2>1, <2>2 DEF InitCapture, Types, overlay, Counting
<1>5. CASE Ready(d)
  <2>1. /\ stage' \in [Swaps -> StageRecords] /\ areas' \in [Devices -> Int]
        /\ capturing' \in BOOLEAN /\ apart' \in BOOLEAN /\ dev' \in [Devices -> DeviceRecords]
    BY <1>5, <1>e, <1>f DEF Ready, Types, capture
  <2>2. call' \in [Devices -> CallRecords]
    BY <1>5, <1>c, <1>d DEF Ready
  <2>. QED
    BY <1>5, <2>1, <2>2 DEF Ready, Types, overlay, limits
<1>6. CASE Copy(d)
  <2>1. dev' \in [Devices -> DeviceRecords]
    BY <1>6, <1>e DEF Copy, Types
  <2>2. [call[d] EXCEPT !.wait = "copy", !.at = "draw"] \in CallRecords
    <3>1. call[d] \in CallRecords
      BY DEF Types
    <3>. QED
      BY <3>1 DEF CallRecords, Places, Signals
  <2>3. call' = [call EXCEPT ![d].wait = "copy", ![d].at = "draw"] => call' \in [Devices -> CallRecords]
    BY <2>2 DEF Types
  <2>4. call' \in [Devices -> CallRecords] /\ sems' \in [Devices -> SUBSET Signals]
    <3>1. Submits(d, "copy") => call' \in [Devices -> CallRecords] /\ sems' \in [Devices -> SUBSET Signals]
      BY Submitting
    <3>2. sems \in [Devices -> SUBSET Signals]
      BY DEF Types
    <3>. QED
      BY <1>6, <1>c, <1>d, <2>3, <3>1, <3>2 DEF Copy
  <2>. QED
    BY <1>0, <1>6, <2>1, <2>4 DEF Copy, Types, shared, capture, overlay, Counting
<1>7. CASE Skip(d)
  <2>1. call' \in [Devices -> CallRecords]
    BY <1>7, <1>c, <1>d DEF Skip
  <2>. QED
    BY <1>7, <2>1 DEF Skip, Types, shared, capture, overlay, limits
<1>8. CASE StopCapture(d)
  <2>1. call' \in [Devices -> CallRecords]
    BY <1>8, <1>c, <1>d DEF StopCapture
  <2>2. Releases(d, s, TRUE) /\ CaptureStop(Staged \ {s})
    BY <1>8 DEF StopCapture
  <2>3. /\ stage' \in [Swaps -> StageRecords] /\ areas' \in [Devices -> Int]
        /\ capturing' \in BOOLEAN /\ apart' \in BOOLEAN
    BY <1>b, <1>g, <2>2, AreasTypes, StageTypes
  <2>. QED
    BY <1>0, <1>8, <2>1, <2>3 DEF StopCapture, Types, overlay, Counting
<1>9. CASE Build(d)
  <2>1. call' \in [Devices -> CallRecords]
    BY <1>9, <1>c, <1>d DEF Build
  <2>2. /\ [stage[s] EXCEPT !.live = TRUE, !.busy = FALSE, !.entry = TRUE] \in StageRecords
        /\ [NoStage EXCEPT !.entry = TRUE] \in StageRecords
    BY <1>d DEF StageRecords
  <2>3. stage' \in [Swaps -> StageRecords]
    BY <1>9, <1>b, <1>h, <2>2 DEF Build, Types
  <2>4. areas' \in [Devices -> Int] /\ capturing' \in BOOLEAN /\ apart' \in BOOLEAN
    BY <1>9, <1>g, AreasTypes DEF Build, Types
  <2>. QED
    BY <1>0, <1>9, <2>1, <2>3, <2>4 DEF Build, Types, overlay, Counting
<1>10. CASE Take(d)
  <2>1. call' \in [Devices -> CallRecords] /\ sems' \in [Devices -> SUBSET Signals]
    <3>1. Submits(d, "copy") => call' \in [Devices -> CallRecords] /\ sems' \in [Devices -> SUBSET Signals]
      BY Submitting
    <3>2. sems \in [Devices -> SUBSET Signals]
      BY DEF Types
    <3>. QED
      BY <1>10, <1>c, <1>d, <3>1, <3>2 DEF Take
  <2>2. \A b \in BOOLEAN : /\ [stage[s] EXCEPT !.pend = b] \in StageRecords
                           /\ [stage[s] EXCEPT !.pend = b, !.busy = b] \in StageRecords
    BY <1>d DEF StageRecords
  <2>3. stage' \in [Swaps -> StageRecords]
    <3>1. \/ UNCHANGED stage \/ stage' = [stage EXCEPT ![s].pend = FALSE]
          \/ \E b \in BOOLEAN : stage' = [stage EXCEPT ![s].pend = b, ![s].busy = b]
      <4>1. ASSUME NEW after \in {0, 1}, stage' = [stage EXCEPT ![s].pend = (after = 1), ![s].busy = (after = 1)]
            PROVE  \E b \in BOOLEAN : stage' = [stage EXCEPT ![s].pend = b, ![s].busy = b]
        <5>1. (after = 1) \in BOOLEAN
          OBVIOUS
        <5>. QED
          BY <4>1, <5>1
      <4>. QED
        BY <1>10, <4>1 DEF Take
    <3>2. stage \in [Swaps -> StageRecords]
      BY DEF Types
    <3>3. ASSUME NEW b \in BOOLEAN, stage' = [stage EXCEPT ![s].pend = b, ![s].busy = b]
          PROVE  stage' = [stage EXCEPT ![s] = [stage[s] EXCEPT !.pend = b, !.busy = b]]
      BY <1>b, <3>2, <3>3
    <3>4. stage' = [stage EXCEPT ![s].pend = FALSE] => stage' \in [Swaps -> StageRecords]
      BY <1>h, <2>2
    <3>. QED
      BY <1>h, <2>2, <3>1, <3>2, <3>3, <3>4
  <2>4. UNCHANGED <<build, granted, capturing, areas, apart, ctx, frame, made, dev, chain>>
    BY <1>10 DEF Take, shared, overlay
  <2>. QED
    BY <1>0, <2>1, <2>3, <2>4 DEF Types, Counting
<1>. QED
  BY <1>1, <1>2, <1>3, <1>4, <1>5, <1>6, <1>7, <1>8, <1>9, <1>10
-----------------------------------------------------------------------------
(* What the steps of the overlay do to the context. *)

Rest == UNCHANGED <<build, shared, capture, made, presents, timeouts, dev, chain>>

LEMMA DrawEffect ==
    ASSUME Types, Owned, VkAssumption, NEW d \in Devices, Draw(d)
    PROVE  /\ ctx' \in [Devices -> CtxRecords] /\ \A e \in Devices \ {d} : ctx'[e] = ctx[e]
           /\ call[d].at = "draw" /\ \E p \in {"fit", "queue"} : Goes(d, p) /\ (p = "fit" => ctx'[d].made)
           /\ \/ ctx'[d] = ctx[d]
              \/ /\ ~ctx[d].made /\ ctx'[d].made /\ ctx'[d].view = 0 /\ ctx'[d].swap = None
                 /\ ctx'[d].pass = ctx'[d].fmt /\ ctx'[d].ui = None
           /\ Rest /\ UNCHANGED <<frame, sems>>
<1> DEFINE c == chain[call[d].s]
           new == [NoCtx EXCEPT !.made = TRUE, !.fmt = c.fmt, !.pass = c.fmt]
<1>1. c.fmt \in Formats
  BY Called DEF Draw, ChainRecords
<1>2. /\ new \in CtxRecords /\ new.made /\ new.view = 0 /\ new.swap = None
      /\ new.pass = new.fmt /\ new.ui = None
  BY <1>1, RecordTypes DEF NoCtx, CtxRecords
<1>3. ctx \in [Devices -> CtxRecords]
  BY DEF Types
<1>4. \/ UNCHANGED ctx /\ Goes(d, "queue")
      \/ ctx' = [ctx EXCEPT ![d] = IF @.made THEN @ ELSE new] /\ Goes(d, "fit")
  BY DEF Draw
<1>5. ctx'[d] = ctx[d] \/ (~ctx[d].made /\ ctx'[d] = new)
  BY <1>3, <1>4
<1>6. ctx' \in [Devices -> CtxRecords] /\ \A e \in Devices \ {d} : ctx'[e] = ctx[e]
  BY <1>2, <1>3, <1>4
<1>7. \E p \in {"fit", "queue"} : Goes(d, p) /\ (p = "fit" => ctx'[d].made)
  BY <1>2, <1>3, <1>4
<1>8. call[d].at = "draw" /\ Rest /\ UNCHANGED <<frame, sems>>
  BY DEF Draw, Rest
<1>. HIDE DEF new
<1>. QED
  BY <1>2, <1>5, <1>6, <1>7, <1>8

LEMMA FitEffect ==
    ASSUME Types, Owned, VkAssumption, NEW d \in Devices, Fit(d)
    PROVE  /\ ctx' \in [Devices -> CtxRecords] /\ \A e \in Devices \ {d} : ctx'[e] = ctx[e]
           /\ call[d].at = "fit" /\ GpuIdle(d) /\ Rest /\ UNCHANGED <<frame, sems>>
           /\ ctx'[d].made = ctx[d].made
           /\ \/ /\ Goes(d, "record")
                 /\ ctx'[d].torn = ctx[d].torn
                 /\ ctx'[d].fmt = chain[call[d].s].fmt /\ ctx'[d].swap = call[d].s
                 /\ ctx'[d].view = chain[call[d].s].gen
                 /\ \/ /\ ctx[d].fmt = ctx'[d].fmt
                       /\ ctx'[d].pass = ctx[d].pass /\ ctx'[d].ui = ctx[d].ui
                    \/ ctx'[d].pass = ctx'[d].fmt /\ ctx'[d].ui = None
              \/ Goes(d, "queue") /\ ctx'[d].torn
<1> DEFINE c == chain[call[d].s]
           o == ctx[d]
           r(ok) == Reformatted(o, c.fmt, ok)
<1>1. c.fmt \in Formats /\ c.gen \in Nat /\ call[d].s \in Swaps
  BY Called DEF Fit, ChainRecords
<1>2. ctx \in [Devices -> CtxRecords] /\ o \in CtxRecords
  BY DEF Types
<1>3. /\ r(TRUE) \in CtxRecords /\ r(TRUE).made = o.made /\ r(TRUE).fmt = c.fmt
      /\ r(TRUE).torn = o.torn
      /\ r(TRUE).pass = IF o.fmt = c.fmt THEN o.pass ELSE c.fmt
      /\ r(TRUE).ui = IF o.fmt = c.fmt THEN o.ui ELSE None
      /\ r(FALSE) \in CtxRecords /\ r(FALSE).made = o.made
      /\ o.fmt # c.fmt => r(FALSE).torn
  <2>1. ASSUME NEW ok \in BOOLEAN
        PROVE  /\ r(ok) \in CtxRecords /\ r(ok).made = o.made /\ r(ok).fmt = c.fmt
               /\ r(ok).torn = (o.torn \/ (o.fmt # c.fmt /\ ~ok))
               /\ r(ok).pass = IF o.fmt = c.fmt THEN o.pass ELSE IF ok THEN c.fmt ELSE None
               /\ r(ok).ui = IF o.fmt = c.fmt THEN o.ui ELSE None
    BY <1>1, <1>2, ReformattedTypes
  <2>2. o.torn \in BOOLEAN
    BY <1>2 DEF CtxRecords
  <2>. HIDE DEF r, o, c
  <2>. QED
    BY <2>1, <2>2
<1>4. /\ call[d].at = "fit" /\ GpuIdle(d) /\ Rest /\ UNCHANGED <<frame, sems>>
  BY DEF Fit, Rest
<1>5. \/ Goes(d, "record") /\ ctx' = [ctx EXCEPT ![d] = [r(TRUE) EXCEPT !.view = c.gen, !.swap = call[d].s]]
      \/ Goes(d, "queue") /\ o.fmt # c.fmt /\ ctx' = [ctx EXCEPT ![d] = r(FALSE)]
      \/ Goes(d, "queue") /\ ctx' = [ctx EXCEPT ![d] = [r(TRUE) EXCEPT !.view = c.gen, !.torn = TRUE]]
  BY DEF Fit, Leaves
<1>6. /\ [r(TRUE) EXCEPT !.view = c.gen, !.swap = call[d].s] \in CtxRecords
      /\ [r(TRUE) EXCEPT !.view = c.gen, !.torn = TRUE] \in CtxRecords
  <2>. HIDE DEF r, c
  <2>. QED
    BY <1>1, <1>3 DEF CtxRecords
<1>7. ctx' \in [Devices -> CtxRecords] /\ \A e \in Devices \ {d} : ctx'[e] = ctx[e]
  <2>. HIDE DEF r, c, o
  <2>. QED
    BY <1>2, <1>3, <1>5, <1>6
<1>8. CASE Goes(d, "record") /\ ctx' = [ctx EXCEPT ![d] = [r(TRUE) EXCEPT !.view = c.gen, !.swap = call[d].s]]
  <2>1. ctx'[d] = [r(TRUE) EXCEPT !.view = c.gen, !.swap = call[d].s]
    BY <1>2, <1>8
  <2>2. /\ ctx'[d].made = o.made /\ ctx'[d].fmt = c.fmt /\ ctx'[d].torn = o.torn
        /\ ctx'[d].view = c.gen /\ ctx'[d].swap = call[d].s
        /\ ctx'[d].pass = r(TRUE).pass /\ ctx'[d].ui = r(TRUE).ui
    <3>. HIDE DEF r, c, o
    <3>. QED
      BY <1>3, <2>1 DEF CtxRecords
  <2>. HIDE DEF r
  <2>. QED
    BY <1>3, <1>4, <1>7, <1>8, <2>2
<1>9. CASE Goes(d, "queue") /\ o.fmt # c.fmt /\ ctx' = [ctx EXCEPT ![d] = r(FALSE)]
  <2>1. ctx'[d] = r(FALSE)
    BY <1>2, <1>9
  <2>. HIDE DEF r
  <2>. QED
    BY <1>3, <1>4, <1>7, <1>9, <2>1
<1>10. CASE Goes(d, "queue") /\ ctx' = [ctx EXCEPT ![d] = [r(TRUE) EXCEPT !.view = c.gen, !.torn = TRUE]]
  <2>1. ctx'[d] = [r(TRUE) EXCEPT !.view = c.gen, !.torn = TRUE]
    BY <1>2, <1>10
  <2>2. ctx'[d].made = o.made /\ ctx'[d].torn
    <3>. HIDE DEF r, c, o
    <3>. QED
      BY <1>3, <2>1 DEF CtxRecords
  <2>. HIDE DEF r
  <2>. QED
    BY <1>4, <1>7, <1>10, <2>2
<1>. QED
  BY <1>5, <1>8, <1>9, <1>10

LEMMA RecordEffect ==
    ASSUME Types, Owned, VkAssumption, NEW d \in Devices, Record(d)
    PROVE  /\ ctx' \in [Devices -> CtxRecords] /\ \A e \in Devices \ {d} : ctx'[e] = ctx[e]
           /\ frame' \in [Devices -> [Slots -> FrameRecords]]
           /\ \A e \in Devices, k \in Slots :
                 frame'[e][k] = frame[e][k] \/ frame'[e][k].work = "none"
                    \/ (e = d /\ frame'[e][k].view = ctx[d].view)
           /\ call[d].at = "record" \/ Fits(d)
           /\ Rest
           /\ Submits(d, "drawn") \/ (Goes(d, "queue") /\ UNCHANGED sems)
           /\ ctx'[d].made = ctx[d].made /\ ctx'[d].torn = ctx[d].torn
           /\ ctx'[d].fmt = ctx[d].fmt /\ ctx'[d].pass = ctx[d].pass
           /\ ctx'[d].view = ctx[d].view /\ ctx'[d].swap = ctx[d].swap
           /\ ctx'[d].ui = IF ctx[d].ui = None THEN ctx[d].pass ELSE ctx[d].ui
<1> DEFINE k == ctx[d].idx
           o == ctx[d]
<1>1. ctx \in [Devices -> CtxRecords] /\ o \in CtxRecords /\ k \in Slots
  BY DEF Types, CtxRecords
<1>2. ctx' = [ctx EXCEPT ![d].idx = (@ + 1) % InFlight, ![d].ui = IF @ = None THEN ctx[d].pass ELSE @]
  BY DEF Record
<1>3. (k + 1) % InFlight \in Slots
  BY <1>1 DEF VkAssumption, Slots
<1>4. ctx'[d] = [o EXCEPT !.idx = (k + 1) % InFlight, !.ui = IF o.ui = None THEN o.pass ELSE o.ui]
  BY <1>1, <1>2
<1>5. \A e \in Devices \ {d} : ctx'[e] = ctx[e]
  BY <1>1, <1>2
<1>6. /\ ctx'[d] \in CtxRecords
      /\ ctx'[d].made = o.made /\ ctx'[d].torn = o.torn
      /\ ctx'[d].fmt = o.fmt /\ ctx'[d].pass = o.pass
      /\ ctx'[d].view = o.view /\ ctx'[d].swap = o.swap
      /\ ctx'[d].ui = IF o.ui = None THEN o.pass ELSE o.ui
  <2>2. (IF o.ui = None THEN o.pass ELSE o.ui) \in Formats
    BY <1>1 DEF CtxRecords
  <2>3. PICK u \in Formats : u = IF o.ui = None THEN o.pass ELSE o.ui
    BY <2>2
  <2>4. PICK i \in Slots : i = (k + 1) % InFlight
    BY <1>3
  <2>5. ctx'[d] = [o EXCEPT !.idx = i, !.ui = u]
    BY <1>4, <2>3, <2>4
  <2>6. /\ ctx'[d] \in CtxRecords
        /\ ctx'[d].made = o.made /\ ctx'[d].torn = o.torn
        /\ ctx'[d].fmt = o.fmt /\ ctx'[d].pass = o.pass
        /\ ctx'[d].view = o.view /\ ctx'[d].swap = o.swap /\ ctx'[d].ui = u
    <3>. HIDE DEF o, k
    <3>. QED
      BY <1>1, <2>5 DEF CtxRecords
  <2>. QED
    BY <2>3, <2>6
<1>7. ctx' \in [Devices -> CtxRecords]
  BY <1>1, <1>2, <1>5, <1>6
<1>8. \E ok \in BOOLEAN, w \in {"running", "stuck"} :
          frame' = [frame EXCEPT ![d][k] =
                 IF ~ok THEN NoFrame ELSE [submitted |-> TRUE, view |-> ctx[d].view, work |-> w]]
  <2>1. PICK ok \in BOOLEAN : frame' = [frame EXCEPT ![d][k] =
                 IF ~ok THEN NoFrame
                 ELSE [submitted |-> TRUE, view |-> ctx[d].view,
                       work |-> IF call[d].wait \in sems[d] THEN "running" ELSE "stuck"]]
    BY DEF Record
  <2>. QED
    BY <2>1
<1>9. PICK f \in FrameRecords : frame' = [frame EXCEPT ![d][k] = f] /\ (f.work = "none" \/ f.view = ctx[d].view)
  <2>1. NoFrame \in FrameRecords /\ NoFrame.work = "none"
    BY RecordTypes DEF NoFrame
  <2>2. \A w \in {"running", "stuck"} : [submitted |-> TRUE, view |-> o.view, work |-> w] \in FrameRecords
    BY <1>1 DEF FrameRecords, CtxRecords
  <2>. QED
    BY <1>8, <2>1, <2>2
<1>10. frame \in [Devices -> [Slots -> FrameRecords]]
  BY DEF Types
<1>11. frame' \in [Devices -> [Slots -> FrameRecords]]
  BY <1>1, <1>9, <1>10
<1>12. \A e \in Devices, j \in Slots : frame'[e][j] = frame[e][j] \/ (e = d /\ frame'[e][j] = f)
  BY <1>1, <1>9, <1>10
<1>13. /\ call[d].at = "record" \/ Fits(d)
       /\ Rest /\ (Submits(d, "drawn") \/ (Goes(d, "queue") /\ UNCHANGED sems))
  BY DEF Record, Rest
<1>. QED
  BY <1>5, <1>6, <1>7, <1>9, <1>11, <1>12, <1>13
LEMMA TypesOfOverlay ==
    ASSUME Types, Owned, VkAssumption, NEW d \in Devices,
           Draw(d) \/ Fit(d) \/ DrawsNothing(d) \/ Record(d) \/ Queue(d)
    PROVE  Types'
<1>. Counting
  BY CountsGoOn DEF Next, Step
<1>1. \A p \in {"fit", "queue", "record"} : Goes(d, p) => call' \in [Devices -> CallRecords]
  BY Going DEF Places
<1>2. CASE Draw(d)
  BY <1>1, <1>2, DrawEffect DEF Types, Rest, shared, capture, Counting
<1>3. CASE Fit(d)
  BY <1>1, <1>3, FitEffect DEF Types, Rest, shared, capture, Counting
<1>4. CASE DrawsNothing(d)
  BY <1>1, <1>4 DEF DrawsNothing, Leaves, Types, shared, capture, Counting
<1>5. CASE Record(d)
  <2>1. call' \in [Devices -> CallRecords] /\ sems' \in [Devices -> SUBSET Signals]
    <3>1. Submits(d, "drawn") => call' \in [Devices -> CallRecords] /\ sems' \in [Devices -> SUBSET Signals]
      BY Submitting
    <3>2. sems \in [Devices -> SUBSET Signals]
      BY DEF Types
    <3>. QED
      BY <1>1, <1>5, <3>1, <3>2, RecordEffect
  <2>. QED
    BY <1>5, <2>1, RecordEffect DEF Types, Rest, shared, capture, Counting
<1>6. CASE Queue(d)
  <2>1. call' \in [Devices -> CallRecords] /\ sems' \in [Devices -> SUBSET Signals]
    BY <1>6, RecordTypes DEF Queue, Types
  <2>. QED
    BY <1>6, <2>1 DEF Queue, Types, shared, capture, overlay, limits
<1>. QED
  BY <1>2, <1>3, <1>4, <1>5, <1>6

LEMMA TypesKept ==
    ASSUME Types, Owned, VkAssumption, Next
    PROVE  Types'
  BY TypesOfGame, TypesOfGpu, TypesOfCapture, TypesOfOverlay DEF Next, Step
-----------------------------------------------------------------------------
(* What a step of a call leaves alone, and where it leads. *)

Leads(p, q) ==
    \/ p = "forget" /\ q = "drop"
    \/ p = "stop" /\ q = "init"
    \/ p = "init" /\ q \in {"ready", "crash"}
    \/ p = "ready" /\ q \in {"queue", "draw", "crash"}
    \/ p = "capture" /\ q \in {"draw", "take"}
    \/ p = "take" /\ q = "draw"
    \/ p = "draw" /\ q \in {"fit", "queue"}
    \/ p = "fit" /\ q \in {"record", "queue"}
    \/ p = "record" /\ q = "queue"

Moves(d) ==
    /\ call[d].at # "idle" /\ \A e \in Devices \ {d} : call'[e] = call[e]
    /\ \/ call'[d] = Idle /\ call[d].at \in {"drop", "queue"}
       \/ /\ call'[d].s = call[d].s /\ Leads(call[d].at, call'[d].at)
          /\ call'[d].at \in {"init", "ready", "take"} => call'[d].wait = call[d].wait

LEMMA StepMoves ==
    ASSUME Types, VkAssumption, Owned, NEW d \in Devices, Step(d)
    PROVE  Moves(d)
<1>a. \A p \in Places : Goes(d, p) =>
         /\ call'[d].at = p /\ call'[d].s = call[d].s /\ call'[d].wait = call[d].wait
         /\ \A e \in Devices \ {d} : call'[e] = call[e]
  BY Going
<1>b. \A what \in {"copy", "drawn"} : Submits(d, what) =>
         /\ call'[d].at = (IF what = "copy" THEN "draw" ELSE "queue")
         /\ call'[d].s = call[d].s /\ \A e \in Devices \ {d} : call'[e] = call[e]
  BY Submitting
<1>c. \A p \in {"drop", "init", "ready", "crash", "queue", "draw", "take", "fit", "record"} : p \in Places
  BY DEF Places
<1>d. call' = [call EXCEPT ![d] = Idle] => call'[d] = Idle /\ \A e \in Devices \ {d} : call'[e] = call[e]
  BY DEF Types
<1>1. CASE Forget(d)
  BY <1>1, <1>a, <1>c DEF Forget, Moves, Leads
<1>2. CASE Drop(d)
  BY <1>2, <1>d DEF Drop, Moves
<1>3. CASE Stop(d)
  BY <1>3, <1>a, <1>c DEF Stop, Moves, Leads
<1>4. CASE InitCapture(d)
  <2>1. call[d].at = "init" /\ (Goes(d, "ready") \/ Goes(d, "crash"))
    BY <1>4 DEF InitCapture
  <2>. QED
    BY <2>1, <1>a, <1>c DEF Moves, Leads
<1>5. CASE Ready(d)
  <2>1. call[d].at = "ready" /\ (Goes(d, "queue") \/ Goes(d, "draw"))
    BY <1>5 DEF Ready
  <2>. QED
    BY <2>1, <1>a, <1>c DEF Moves, Leads
<1>6. CASE Copy(d)
  <2>1. /\ call[d].at = "ready"
        /\ \/ Goes(d, "crash") \/ Goes(d, "draw") \/ Submits(d, "copy")
           \/ call' = [call EXCEPT ![d].wait = "copy", ![d].at = "draw"]
    BY <1>6 DEF Copy, Requested
  <2>2. call' = [call EXCEPT ![d].wait = "copy", ![d].at = "draw"] =>
           call'[d].at = "draw" /\ call'[d].s = call[d].s /\ \A e \in Devices \ {d} : call'[e] = call[e]
    <3>1. call \in [Devices -> CallRecords] /\ call[d] \in CallRecords
      BY DEF Types
    <3>. QED
      BY <3>1 DEF CallRecords
  <2>. QED
    BY <2>1, <2>2, <1>a, <1>b, <1>c DEF Moves, Leads
<1>7. CASE Skip(d)
  BY <1>7, <1>a, <1>c DEF Skip, Moves, Leads
<1>8. CASE StopCapture(d)
  BY <1>8, <1>a, <1>c DEF StopCapture, Enters, Moves, Leads
<1>9. CASE Build(d)
  <2>1. call[d].at = "capture" /\ (Goes(d, "take") \/ Goes(d, "draw"))
    BY <1>9 DEF Build, Enters
  <2>. QED
    BY <2>1, <1>a, <1>c DEF Moves, Leads
<1>10. CASE Take(d)
  <2>1. call[d].at \in {"capture", "take"} /\ (Goes(d, "draw") \/ Submits(d, "copy"))
    BY <1>10 DEF Take, Enters
  <2>. QED
    BY <2>1, <1>a, <1>b, <1>c DEF Moves, Leads
<1>11. CASE Draw(d)
  BY <1>11, DrawEffect, <1>a, <1>c DEF Moves, Leads
<1>12. CASE Fit(d)
  BY <1>12, FitEffect, <1>a, <1>c DEF Moves, Leads
<1>13. CASE DrawsNothing(d)
  <2>1. call[d].at \in {"fit", "record"} /\ Goes(d, "queue")
    BY <1>13 DEF DrawsNothing, Leaves, Fits
  <2>. QED
    BY <2>1, <1>a, <1>c DEF Moves, Leads
<1>14. CASE Record(d)
  <2>1. call[d].at \in {"fit", "record"} /\ (Goes(d, "queue") \/ Submits(d, "drawn"))
    BY <1>14 DEF Record, Fits
  <2>. QED
    BY <2>1, <1>a, <1>b, <1>c DEF Moves, Leads
<1>15. CASE Queue(d)
  BY <1>15, <1>d DEF Queue, Moves
<1>. QED
  BY <1>1, <1>2, <1>3, <1>4, <1>5, <1>6, <1>7, <1>8, <1>9, <1>10, <1>11, <1>12, <1>13, <1>14, <1>15 DEF Step

(* A step keeps the system, the devices, and the swapchains but the one     *)
(* that is destroyed.                                                       *)
Lasting(d) ==
    /\ build' = build
    /\ \A e \in Devices : dev'[e].live = dev[e].live /\ (dev'[e].valid => dev[e].valid)
    /\ \A e \in Devices \ {d} : dev'[e] = dev[e] /\ ctx'[e] = ctx[e]
    /\ \A s \in Swaps :
          \/ chain'[s] = chain[s]
          \/ /\ call[d].at = "drop" /\ s = call[d].s
             /\ chain'[s] = NoChain /\ call'[d] = Idle /\ UNCHANGED ctx

LEMMA StepLasts ==
    ASSUME Types, VkAssumption, Owned, NEW d \in Devices, Step(d)
    PROVE  Lasting(d)
<1>a. dev \in [Devices -> DeviceRecords] /\ dev[d] \in DeviceRecords /\ ctx \in [Devices -> CtxRecords]
  BY DEF Types
<1>b. ASSUME \/ UNCHANGED dev
             \/ \E c \in Swaps \cup {None} : dev' = [dev EXCEPT ![d].cur = c]
             \/ dev' = [dev EXCEPT ![d].cur = None, ![d].valid = FALSE]
             \/ \E k \in {"none", "part", "whole"} : dev' = [dev EXCEPT ![d].kit = k]
      PROVE  /\ \A e \in Devices : dev'[e].live = dev[e].live /\ (dev'[e].valid => dev[e].valid)
             /\ \A e \in Devices \ {d} : dev'[e] = dev[e]
  BY <1>a, <1>b DEF DeviceRecords
<1>c. call[d].s \in Swaps
  BY StepMoves, Called DEF Moves
<1>1. CASE Forget(d)
  BY <1>1, <1>a, <1>b DEF Forget, Lasting
<1>2. CASE Drop(d)
  <2>1. UNCHANGED dev \/ dev' = [dev EXCEPT ![d].cur = None]
    BY <1>2 DEF Drop
  <2>2. \A s \in Swaps : chain'[s] = chain[s] \/ (s = call[d].s /\ chain'[s] = NoChain)
    BY <1>2 DEF Drop, Types
  <2>3. call'[d] = Idle /\ UNCHANGED <<ctx, build>> /\ call[d].at = "drop"
    BY <1>2 DEF Drop, Types, overlay
  <2>. QED
    BY <1>b, <2>1, <2>2, <2>3 DEF Lasting
<1>3. CASE Stop(d)
  <2>1. UNCHANGED dev \/ dev' = [dev EXCEPT ![d].cur = None]
    BY <1>3 DEF Stop
  <2>. QED
    BY <1>3, <1>b, <2>1 DEF Stop, Lasting, overlay
<1>4. CASE InitCapture(d)
  <2>1. \/ UNCHANGED dev \/ dev' = [dev EXCEPT ![d].cur = call[d].s]
        \/ dev' = [dev EXCEPT ![d].cur = None, ![d].valid = FALSE]
    BY <1>4 DEF InitCapture
  <2>. QED
    BY <1>4, <1>b, <1>c, <2>1 DEF InitCapture, Lasting, overlay
<1>5. CASE Ready(d)
  <2>1. UNCHANGED dev \/ dev' = [dev EXCEPT ![d].cur = None]
    BY <1>5 DEF Ready
  <2>. QED
    BY <1>5, <1>b, <2>1 DEF Ready, Lasting, overlay
<1>6. CASE Copy(d)
  <2>1. UNCHANGED dev \/ \E k \in {"none", "part", "whole"} : dev' = [dev EXCEPT ![d].kit = k]
    BY <1>6 DEF Copy
  <2>. QED
    BY <1>6, <1>b, <2>1 DEF Copy, Lasting, overlay
<1>7. CASE Skip(d)
  BY <1>7, <1>b DEF Skip, Lasting, overlay
<1>8. CASE StopCapture(d)
  BY <1>8, <1>b DEF StopCapture, Lasting, overlay
<1>9. CASE Build(d)
  BY <1>9, <1>b DEF Build, Lasting, overlay
<1>10. CASE Take(d)
  BY <1>10, <1>b DEF Take, Lasting, overlay
<1>11. CASE Draw(d)
  BY <1>11, <1>b, DrawEffect DEF Rest, Lasting
<1>12. CASE Fit(d)
  BY <1>12, <1>b, FitEffect DEF Rest, Lasting
<1>13. CASE DrawsNothing(d)
  BY <1>13, <1>b DEF DrawsNothing, Lasting
<1>14. CASE Record(d)
  BY <1>14, <1>b, RecordEffect DEF Rest, Lasting
<1>15. CASE Queue(d)
  BY <1>15, <1>b DEF Queue, Lasting, overlay
<1>. QED
  BY <1>1, <1>2, <1>3, <1>4, <1>5, <1>6, <1>7, <1>8, <1>9, <1>10, <1>11, <1>12, <1>13, <1>14, <1>15 DEF Step
-----------------------------------------------------------------------------
(* Calls and swapchains. *)

(* The area a frame is taken into is not freed meanwhile. *)
LEMMA TakeIsHeld ==
    ASSUME Types, VkAssumption, Owned, NEW d \in Devices, Step(d),
           NEW e \in Devices, call'[e].at = "take"
    PROVE  stage'[call'[e].s].live
<1>1. Moves(d) /\ call[d].at # "idle" /\ call[d].s \in Swaps
  BY StepMoves, Called DEF Moves
<1>2. stage \in [Swaps -> StageRecords]
  BY DEF Types
<1>3. CASE e = d
  <2>1. call[d].at = "capture" /\ call'[d].s = call[d].s
    BY <1>1, <1>3 DEF Moves, Leads, Idle
  <2>2. Skip(d) \/ StopCapture(d) \/ Take(d) => call'[d].at = "draw"
    BY Going, Submitting DEF Skip, StopCapture, Take, Places
  <2>3. Build(d)
    BY <1>3, <2>1, <2>2, DrawEffect, FitEffect, RecordEffect
       DEF Step, Forget, Drop, Stop, InitCapture, Ready, Copy, Requested, DrawsNothing, Fits, Queue
  <2>4. Goes(d, "draw") => call'[d].at = "draw"
    BY Going DEF Places
  <2>5. stage' = [stage EXCEPT ![call[d].s].live = TRUE, ![call[d].s].busy = FALSE, ![call[d].s].entry = TRUE]
    BY <1>3, <2>3, <2>4 DEF Build
  <2>6. stage'[call[d].s] = [stage[call[d].s] EXCEPT !.live = TRUE, !.busy = FALSE, !.entry = TRUE]
    BY <1>1, <1>2, <2>5
  <2>. QED
    BY <1>1, <1>2, <1>3, <2>1, <2>6 DEF StageRecords
<1>4. CASE e # d
  <2>1. call'[e] = call[e] /\ call[e].at = "take" /\ ~CaptureFree
    BY <1>1, <1>4 DEF Moves, CaptureFree
  <2>2. build = "windows" /\ stage[call[e].s].live /\ call[e].s \in Swaps
    BY <2>1 DEF Owned
  <2>3. build # "linux" /\ call[d].at \notin {"stop", "init", "ready"}
    BY <2>2 DEF Owned
  <2>4. CASE Take(d)
    <3>1. \/ UNCHANGED stage
          \/ stage' = [stage EXCEPT ![call[d].s].pend = FALSE]
          \/ \E after \in {0, 1} : stage' = [stage EXCEPT ![call[d].s].pend = (after = 1), ![call[d].s].busy = (after = 1)]
      BY <2>4 DEF Take
    <3>2. \A s \in Swaps : stage'[s].live = stage[s].live
      BY <1>1, <1>2, <3>1 DEF StageRecords
    <3>. QED
      BY <2>1, <2>2, <3>2
  <2>5. CASE ~Take(d)
    <3>1. UNCHANGED stage
      BY <2>1, <2>3, <2>5, DrawEffect, FitEffect, RecordEffect
         DEF Step, Forget, Drop, Stop, InitCapture, Ready, Copy, Requested, Skip, StopCapture,
             Build, Enters, DrawsNothing, Queue, Rest, capture
    <3>. QED
      BY <2>1, <2>2, <3>1
  <2>. QED
    BY <2>4, <2>5
<1>. QED
  BY <1>3, <1>4

LEMMA OwnedByStep ==
    ASSUME Types, VkAssumption, Owned, NEW d \in Devices, Step(d)
    PROVE  Owned'
<1>1. Moves(d) /\ Lasting(d)
  BY StepMoves, StepLasts
<1>2. \A s \in Swaps : chain'[s].on # None => dev'[chain'[s].on].live /\ chain'[s].gen # 0
  <2>1. SUFFICES ASSUME NEW s \in Swaps, chain'[s].on # None
                 PROVE  dev'[chain'[s].on].live /\ chain'[s].gen # 0
    OBVIOUS
  <2>2. chain'[s] = chain[s]
    BY <1>1, <2>1 DEF Lasting, NoChain
  <2>3. chain[s].on \in Devices
    BY <2>1, <2>2 DEF Types, ChainRecords
  <2>. QED
    BY <1>1, <2>1, <2>2, <2>3 DEF Owned, Lasting
<1>3. ASSUME NEW e \in Devices, call'[e].at # "idle"
      PROVE  call'[e].s \in Swaps /\ chain'[call'[e].s].on = e
  <2>1. call[e].at # "idle" /\ call'[e].s = call[e].s
    BY <1>1, <1>3 DEF Moves, Idle
  <2>2. call[e].s \in Swaps /\ chain[call[e].s].on = e
    BY <2>1 DEF Owned
  <2>3. chain'[call[e].s] = chain[call[e].s]
    <3>1. CASE e = d
      BY <1>1, <1>3, <2>2, <3>1 DEF Lasting, Idle
    <3>2. CASE e # d
      <4>1. call[d].s # call[e].s
        BY <1>1, <2>2, <3>2 DEF Owned, Moves
      <4>. QED
        BY <1>1, <2>2, <4>1 DEF Lasting
    <3>. QED
      BY <3>1, <3>2
  <2>. QED
    BY <2>1, <2>2, <2>3
<1>4. ASSUME NEW e \in Devices
      PROVE  /\ call'[e].at \in {"stop", "init", "ready"} => build' = "linux"
             /\ call'[e].at \in {"capture", "take"} => build' = "windows"
             /\ call'[e].at \in {"stop", "init", "ready", "capture", "take"} => call'[e].wait = "game"
  <2>1. CASE e # d
    BY <1>1, <2>1 DEF Moves, Lasting, Owned
  <2>2. CASE e = d
    BY <1>1, <2>2 DEF Moves, Lasting, Owned, Leads, Idle
  <2>. QED
    BY <2>1, <2>2
<1>. QED
  BY <1>2, <1>3, <1>4, TakeIsHeld DEF Owned

LEMMA OwnedByGame ==
    ASSUME Types, VkAssumption, Owned, NEW d \in Devices, Game(d)
    PROVE  Owned'
<1>a. dev \in [Devices -> DeviceRecords] /\ chain \in [Swaps -> ChainRecords] /\ call \in [Devices -> CallRecords]
  BY DEF Types
<1>1. CASE CreateDevice(d)
  <2>1. PICK ok \in BOOLEAN : dev' = [dev EXCEPT ![d] = [NoDevice EXCEPT !.live = TRUE, !.valid = ok]]
    BY <1>1 DEF CreateDevice
  <2>2. \A e \in Devices : dev'[e].live = dev[e].live \/ dev'[e].live
    BY <1>a, <2>1 DEF NoDevice
  <2>3. \A s \in Swaps : chain[s].on # None => chain[s].on \in Devices
    BY <1>a DEF ChainRecords
  <2>4. UNCHANGED <<build, chain, call, stage>>
    BY <1>1 DEF CreateDevice, capture
  <2>. QED
    BY <2>2, <2>3, <2>4 DEF Owned
<1>2. CASE DestroyDevice(d)
  <2>1. \A e \in Devices \ {d} : dev'[e] = dev[e]
    BY <1>2, <1>a DEF DestroyDevice
  <2>2. \A s \in Swaps : chain[s].on # d
    BY <1>2 DEF DestroyDevice, OnDevice
  <2>3. \A s \in Swaps : chain[s].on # None => chain[s].on \in Devices
    BY <1>a DEF ChainRecords
  <2>4. UNCHANGED <<build, chain, call, stage>>
    BY <1>2 DEF DestroyDevice
  <2>. QED
    BY <2>1, <2>2, <2>3, <2>4 DEF Owned
<1>3. ASSUME NEW s \in Swaps, CreateSwapchain(d, s) PROVE Owned'
  <2>1. /\ \A t \in Swaps \ {s} : chain'[t] = chain[t]
        /\ chain'[s].on = d /\ chain'[s].gen = made + 1
    BY <1>3, <1>a DEF CreateSwapchain
  <2>2. dev[d].live /\ chain[s].on = None /\ made \in Nat
    BY <1>3 DEF CreateSwapchain, Types
  <2>3. \A e \in Devices : call[e].at # "idle" => call[e].s # s
    BY <2>2 DEF Owned, VkAssumption
  <2>4. UNCHANGED <<build, dev, call, stage>>
    BY <1>3 DEF CreateSwapchain, capture
  <2>. QED
    BY <2>1, <2>2, <2>3, <2>4 DEF Owned
<1>4. ASSUME NEW s \in Swaps, DestroySwapchain(d, s) PROVE Owned'
  <2>1. /\ \A e \in Devices \ {d} : call'[e] = call[e]
        /\ call'[d].s = s /\ call'[d].at \in {"forget", "drop"}
    BY <1>4, <1>a DEF DestroySwapchain, Idle
  <2>2. UNCHANGED <<build, dev, chain, stage>> /\ chain[s].on = d
    BY <1>4 DEF DestroySwapchain, capture
  <2>. QED
    BY <2>1, <2>2 DEF Owned
<1>5. ASSUME NEW s \in Swaps, Present(d, s) PROVE Owned'
  <2>0. PICK step \in {"stop", "capture", "queue"} :
          /\ step = "stop" <=> build = "linux" /\ dev[d].valid
          /\ step = "capture" => build = "windows"
          /\ call' = [call EXCEPT ![d] = [Idle EXCEPT !.s = s, !.at = step]]
    BY <1>5 DEF Present
  <2>1. /\ \A e \in Devices \ {d} : call'[e] = call[e]
        /\ call'[d].s = s /\ call'[d].at = step /\ call'[d].wait = "game"
    BY <2>0, <1>a DEF Idle
  <2>2. UNCHANGED <<build, dev, chain, stage>> /\ chain[s].on = d
    BY <1>5 DEF Present, capture
  <2>. QED
    BY <2>0, <2>1, <2>2 DEF Owned
<1>. QED
  BY <1>1, <1>2, <1>3, <1>4, <1>5 DEF Game

LEMMA OwnedKept ==
    ASSUME Types, VkAssumption, Owned, Next
    PROVE  Owned'
<1>1. ASSUME NEW d \in Devices, NEW k \in Slots, FinishFrame(d, k) PROVE Owned'
  BY <1>1 DEF FinishFrame, Owned, capture
<1>2. ASSUME NEW s \in Swaps, FinishCopy(s) PROVE Owned'
  <2>1. \A t \in Swaps : stage'[t].live = stage[t].live
    BY <1>2 DEF FinishCopy, Types, StageRecords
  <2>2. UNCHANGED <<build, dev, chain, call>>
    BY <1>2 DEF FinishCopy
  <2>3. \A d \in Devices : call[d].at = "take" => call[d].s \in Swaps /\ stage'[call[d].s].live
    BY <2>1 DEF Owned
  <2>. QED
    BY <2>2, <2>3 DEF Owned
<1>. QED
  BY <1>1, <1>2, OwnedByStep, OwnedByGame DEF Next, Gpu
-----------------------------------------------------------------------------
(* The semaphores. *)

LEMMA PairedByStep ==
    ASSUME Types, VkAssumption, Owned, NEW d \in Devices, Step(d), Paired(d)
    PROVE  OneCall(d)
<1>. Counting
  BY CountsGoOn DEF Next
<1> DEFINE On(p) == call[d].at \notin {"idle", "forget", "drop"} /\ UNCHANGED sems /\ Goes(d, p)
           Submit(what) == call[d].at \notin {"idle", "forget", "drop"} /\ Submits(d, what)
<1>a. \A p \in {"init", "ready", "crash", "queue", "draw", "take", "fit", "record"} : On(p) => OneCall(d)
  BY PairedOn DEF Places
<1>b. \A what \in {"copy", "drawn"} : Submit(what) => OneCall(d)
  BY PairedSubmit
<1>c. /\ call \in [Devices -> CallRecords] /\ call[d] \in CallRecords
      /\ sems \in [Devices -> SUBSET Signals] /\ failures \in Nat
      /\ Idle \in CallRecords /\ Idle.at = "idle"
  BY RecordTypes DEF Types, Idle
<1>1. CASE Forget(d)
  BY <1>1, PairedOn DEF Forget, Places
<1>2. CASE Drop(d)
  <2>1. /\ call[d].at = "drop" /\ UNCHANGED <<sems, failures>> /\ call' = [call EXCEPT ![d] = Idle]
    BY <1>2 DEF Drop
  <2>. QED
    BY <1>c, <2>1 DEF OneCall, Paired, Counting
<1>3. CASE Stop(d)
  BY <1>3, <1>a DEF Stop
<1>4. CASE InitCapture(d)
  <2>1. On("ready") \/ On("crash")
    BY <1>4 DEF InitCapture
  <2>. QED
    BY <2>1, <1>a
<1>5. CASE Ready(d)
  <2>1. On("draw") \/ On("queue")
    BY <1>5 DEF Ready
  <2>. QED
    BY <2>1, <1>a
<1>6. CASE Copy(d)
  <2>1. CASE UNCHANGED sems /\ failures' = failures + 1 /\ call' = [call EXCEPT ![d].wait = "copy", ![d].at = "draw"]
    <3>1. call'[d] = [call[d] EXCEPT !.wait = "copy", !.at = "draw"] /\ \A e \in Devices \ {d} : call'[e] = call[e]
      BY <1>c, <2>1
    <3>2. [call[d] EXCEPT !.wait = "copy", !.at = "draw"] \in CallRecords
      BY <1>c DEF CallRecords, Places, Signals
    <3>3. call' \in [Devices -> CallRecords]
      BY <1>c, <2>1, <3>1, <3>2
    <3>4. call'[d].at = "draw" /\ call'[d].wait = "copy"
      BY <3>1, <1>c DEF CallRecords
    <3>5. call[d].at = "ready"
      BY <1>6 DEF Copy, Requested
    <3>6. "game" \in sems[d]
      <4>1. call[d].wait = "game"
        BY <3>5 DEF Owned
      <4>. QED
        BY <3>5, <4>1 DEF Paired, Redirected
    <3>. QED
      BY <1>c, <2>1, <3>1, <3>3, <3>4, <3>6 DEF OneCall, Paired, Redirected, Counting
  <2>2. CASE ~(UNCHANGED sems /\ failures' = failures + 1 /\ call' = [call EXCEPT ![d].wait = "copy", ![d].at = "draw"])
    <3>1. On("crash") \/ Submit("copy") \/ On("draw")
      BY <1>6, <2>2 DEF Copy, Requested, Outcome
    <3>. QED
      BY <3>1, <1>a, <1>b
  <2>. QED
    BY <2>1, <2>2
<1>7. CASE Skip(d)
  BY <1>7, <1>a DEF Skip
<1>8. CASE StopCapture(d)
  BY <1>8, <1>a DEF StopCapture, Enters
<1>9. CASE Build(d)
  <2>1. On("take") \/ On("draw")
    BY <1>9 DEF Build, Enters
  <2>. QED
    BY <2>1, <1>a
<1>10. CASE Take(d)
  <2>1. On("draw") \/ Submit("copy")
    BY <1>10 DEF Take, Enters
  <2>. QED
    BY <2>1, <1>a, <1>b
<1>11. CASE Draw(d)
  <2>1. On("fit") \/ On("queue")
    BY <1>11, DrawEffect
  <2>. QED
    BY <2>1, <1>a
<1>12. CASE Fit(d)
  <2>1. On("record") \/ On("queue")
    BY <1>12, FitEffect
  <2>. QED
    BY <2>1, <1>a
<1>13. CASE DrawsNothing(d)
  BY <1>13, <1>a DEF DrawsNothing, Leaves, Fits
<1>14. CASE Record(d)
  <2>1. On("queue") \/ Submit("drawn")
    BY <1>14, RecordEffect DEF Fits
  <2>. QED
    BY <2>1, <1>a, <1>b
<1>15. CASE Queue(d)
  <2>1. /\ call[d].at = "queue" /\ sems'[d] = sems[d] \ {call[d].wait} /\ UNCHANGED failures
        /\ sems' \in [Devices -> SUBSET Signals]
        /\ call' = [call EXCEPT ![d] = Idle] /\ \A e \in Devices \ {d} : sems'[e] = sems[e]
    BY <1>15, <1>c DEF Queue, limits
  <2>2. failures = 0 => sems'[d] = {}
    BY <2>1 DEF Paired, Redirected
  <2>. QED
    BY <1>c, <2>1, <2>2 DEF OneCall, Paired, Counting
<1>. QED
  BY <1>1, <1>2, <1>3, <1>4, <1>5, <1>6, <1>7, <1>8, <1>9, <1>10, <1>11, <1>12, <1>13, <1>14, <1>15 DEF Step
LEMMA PairedKept ==
    ASSUME Types, VkAssumption, Owned, Next, SemaphoresPaired
    PROVE  SemaphoresPaired'
<1>a. SemaphoresPaired <=> \A d \in Devices : Paired(d)
  BY DEF SemaphoresPaired, Paired
<1>b. SemaphoresPaired' <=> \A d \in Devices : Paired(d)'
  BY DEF SemaphoresPaired, Paired
<1>c. Counting /\ failures \in Nat
  BY CountsGoOn DEF Types
<1>d. ASSUME NEW e \in Devices, call'[e] = call[e], sems'[e] = sems[e] PROVE Paired(e)'
  BY <1>a, <1>c, <1>d DEF Paired, Redirected, Counting
<1>e. call \in [Devices -> CallRecords] /\ sems \in [Devices -> SUBSET Signals]
  BY DEF Types
<1>1. ASSUME NEW d \in Devices, Step(d) PROVE SemaphoresPaired'
  <2>1. OneCall(d)
    BY <1>1, <1>a, PairedByStep
  <2>. QED
    BY <1>b, <1>d, <2>1 DEF OneCall
<1>2. ASSUME NEW d \in Devices, NEW s \in Swaps, DestroySwapchain(d, s) PROVE SemaphoresPaired'
  <2>1. /\ call[d].at = "idle" /\ UNCHANGED sems
        /\ call'[d].at \in {"forget", "drop"} /\ \A e \in Devices \ {d} : call'[e] = call[e]
    BY <1>2, <1>e DEF DestroySwapchain, Idle
  <2>2. Paired(d)'
    BY <1>a, <1>c, <2>1 DEF Paired, Counting
  <2>. QED
    BY <1>b, <1>d, <2>1, <2>2
<1>3. ASSUME NEW d \in Devices, NEW s \in Swaps, Present(d, s) PROVE SemaphoresPaired'
  <2>0. PICK step \in {"stop", "capture", "queue"} : call' = [call EXCEPT ![d] = [Idle EXCEPT !.s = s, !.at = step]]
    BY <1>3 DEF Present
  <2>1. /\ sems'[d] = {"game"} /\ \A e \in Devices \ {d} : sems'[e] = sems[e]
        /\ call'[d].at = step /\ call'[d].wait = "game" /\ \A e \in Devices \ {d} : call'[e] = call[e]
    BY <1>3, <1>e, <2>0 DEF Present, Idle
  <2>2. Paired(d)'
    BY <2>1 DEF Paired
  <2>. QED
    BY <1>b, <1>d, <2>1, <2>2
<1>4. ASSUME UNCHANGED <<call, sems>> PROVE SemaphoresPaired'
  BY <1>4, <1>b, <1>d
<1>5. ASSUME NEW d \in Devices,
             CreateDevice(d) \/ DestroyDevice(d) \/ \E s \in Swaps : CreateSwapchain(d, s)
      PROVE UNCHANGED <<call, sems>>
  BY <1>5 DEF CreateDevice, DestroyDevice, CreateSwapchain
<1>6. Gpu => UNCHANGED <<call, sems>>
  BY DEF Gpu, FinishFrame, FinishCopy
<1>. QED
  BY <1>1, <1>2, <1>3, <1>4, <1>5, <1>6 DEF Next, Game

-----------------------------------------------------------------------------
(* The framebuffers. *)

(* The part of Fitting that is about one device. *)
Fitted(d) ==
    LET o == ctx[d] IN
    /\ ~o.made \/ ~dev[d].live => o.view = 0 /\ o.swap = None
    /\ o.torn \/ (o.pass = o.fmt /\ o.ui \in {None, o.fmt})
    /\ call[d].at \in {"fit", "record"} => o.made
    /\ call[d].at = "drop" => GivenUp(d) \/ o.swap # call[d].s
    /\ \/ o.torn \/ GivenUp(d)
       \/ /\ \/ o.view = 0 /\ o.swap = None
             \/ /\ o.swap \in Swaps /\ chain[o.swap].on = d /\ chain[o.swap].gen = o.view
          /\ call[d].at = "record" => o.swap = call[d].s /\ o.fmt = chain[call[d].s].fmt

(* Another device's step. *)
LEMMA FittedBeside ==
    ASSUME Types, VkAssumption, Owned, NEW d \in Devices, NEW e \in Devices \ {d}, Fitted(e),
           call'[e] = call[e], ctx'[e] = ctx[e], dev'[e] = dev[e], build' = build,
           \A s \in Swaps : chain[s].on = e => chain'[s] = chain[s]
    PROVE  Fitted(e)'
<1>1. call[e].at = "record" => chain'[call[e].s] = chain[call[e].s]
  BY DEF Owned
<1>. QED
  BY <1>1 DEF Fitted, GivenUp

LEMMA FittedByStep ==
    ASSUME Types, VkAssumption, Owned, NEW d \in Devices, Step(d), Fitted(d)
    PROVE  Fitted(d)'
<1> DEFINE s == call[d].s
           o == ctx[d]
<1>1. Moves(d) /\ Lasting(d)
  BY StepMoves, StepLasts
<1>2. /\ call[d].at # "idle" /\ s \in Swaps /\ chain[s].on = d /\ chain[s].gen # 0 /\ d # None
      /\ None \notin Swaps /\ dev[d].live
  BY <1>1, Called DEF Moves, Owned, VkAssumption
<1>3. /\ dev'[d].live /\ (GivenUp(d) => GivenUp(d)')
  BY <1>1, <1>2 DEF Lasting, GivenUp
<1>4. /\ call'[d].at \in {"fit", "record", "drop"} => call'[d].s = s
      /\ call'[d].at = "drop" => call[d].at = "forget"
      /\ call'[d].at = "fit" => call[d].at = "draw"
      /\ call'[d].at = "record" => call[d].at = "fit"
  BY <1>1 DEF Moves, Leads, Idle
<1>5. CASE Forget(d)
  <2>1. /\ call'[d].at = "drop" /\ UNCHANGED <<build, chain, dev>>
        /\ IF o.swap = s THEN ctx' = [ctx EXCEPT ![d].view = 0, ![d].swap = None] ELSE UNCHANGED ctx
    BY <1>5, Going DEF Forget, Places
  <2>2. CASE o.swap = s
    <3>1. ctx'[d] = [o EXCEPT !.view = 0, !.swap = None] /\ o \in CtxRecords
      BY <2>1, <2>2 DEF Types
    <3>2. /\ ctx'[d].made = o.made /\ ctx'[d].torn = o.torn /\ ctx'[d].fmt = o.fmt
          /\ ctx'[d].pass = o.pass /\ ctx'[d].ui = o.ui /\ ctx'[d].view = 0 /\ ctx'[d].swap = None
      <4>. HIDE DEF o
      <4>. QED
        BY <3>1 DEF CtxRecords
    <3>. QED
      BY <1>2, <1>4, <2>1, <3>2 DEF Fitted, GivenUp
  <2>3. CASE o.swap # s
    BY <1>2, <1>4, <2>1, <2>3 DEF Fitted, GivenUp
  <2>. QED
    BY <2>2, <2>3
<1>6. CASE Drop(d)
  <2>1. /\ call[d].at = "drop" /\ call'[d].at = "idle" /\ UNCHANGED ctx
        /\ \A t \in Swaps \ {s} : chain'[t] = chain[t]
    BY <1>6 DEF Drop, overlay, Types, Idle
  <2>2. GivenUp(d) \/ o.swap # s
    BY <2>1 DEF Fitted
  <2>. QED
    BY <1>2, <1>3, <2>1, <2>2 DEF Fitted
<1>7. CASE Draw(d)
  <2>1. /\ call'[d].at \in {"fit", "queue"}
        /\ call'[d].at = "fit" => ctx'[d].made
        /\ UNCHANGED <<build, chain, dev>>
    BY <1>7, DrawEffect, Going DEF Rest, Places
  <2>2. CASE ctx'[d] = o
    BY <2>1, <2>2 DEF Fitted, GivenUp
  <2>3. CASE ctx'[d] # o
    <3>1. /\ ctx'[d].made /\ ctx'[d].view = 0 /\ ctx'[d].swap = None
          /\ ctx'[d].pass = ctx'[d].fmt /\ ctx'[d].ui = None
      BY <1>7, <2>3, DrawEffect
    <3>. QED
      BY <2>1, <3>1 DEF Fitted
  <2>. QED
    BY <2>2, <2>3
<1>8. CASE Fit(d)
  <2>1. o.made /\ ctx'[d].made /\ UNCHANGED <<build, chain, dev>>
    BY <1>8, FitEffect DEF Fitted, Rest
  <2>2. CASE Goes(d, "queue") /\ ctx'[d].torn
    <3>1. call'[d].at = "queue"
      BY <2>2, Going DEF Places
    <3>. QED
      BY <1>3, <2>1, <2>2, <3>1 DEF Fitted
  <2>3. CASE ~(Goes(d, "queue") /\ ctx'[d].torn)
    <3>1. /\ Goes(d, "record")
          /\ ctx'[d].torn = ctx[d].torn
          /\ ctx'[d].fmt = chain[s].fmt /\ ctx'[d].swap = s
          /\ ctx'[d].view = chain[s].gen
          /\ \/ /\ ctx[d].fmt = ctx'[d].fmt
                /\ ctx'[d].pass = ctx[d].pass /\ ctx'[d].ui = ctx[d].ui
             \/ ctx'[d].pass = ctx'[d].fmt /\ ctx'[d].ui = None
      BY <1>8, <2>3, FitEffect
    <3>2. call'[d].at = "record" /\ call'[d].s = s
      BY <3>1, Going DEF Places
    <3>3. ctx'[d].torn \/ (ctx'[d].pass = ctx'[d].fmt /\ ctx'[d].ui \in {None, ctx'[d].fmt})
      BY <3>1 DEF Fitted
    <3>. QED
      BY <1>2, <1>3, <2>1, <3>1, <3>2, <3>3 DEF Fitted
  <2>. QED
    BY <2>2, <2>3
<1>9. CASE Record(d)
  <2>1. call'[d].at = "queue" /\ UNCHANGED <<build, chain, dev>>
    BY <1>9, RecordEffect, Going, Submitting DEF Rest, Places
  <2>. QED
    BY <1>2, <1>9, <2>1, RecordEffect DEF Fitted, GivenUp
<1>10. CASE ~(Forget(d) \/ Drop(d) \/ Draw(d) \/ Fit(d) \/ Record(d))
  <2>1. UNCHANGED <<chain, ctx>> /\ call[d].at \notin {"forget", "drop", "draw"}
    BY <1>10 DEF Step, Stop, InitCapture, Ready, Copy, Requested, Skip, StopCapture, Build, Enters, Take,
           DrawsNothing, Fits, Queue, overlay
  <2>2. call'[d].at \notin {"fit", "record", "drop"}
    <3>1. CASE call[d].at = "fit"
      <4>1. Goes(d, "queue")
        BY <1>10, <3>1 DEF Step, Stop, InitCapture, Ready, Copy, Requested, Skip, StopCapture,
               Build, Enters, Take, DrawsNothing, Leaves, Queue
      <4>. QED
        BY <4>1, Going DEF Places
    <3>. QED
      BY <1>4, <2>1, <3>1
  <2>. QED
    BY <1>2, <1>3, <2>1, <2>2 DEF Fitted
<1>. QED
  BY <1>5, <1>6, <1>7, <1>8, <1>9, <1>10
LEMMA FittingKept ==
    ASSUME Types, VkAssumption, Owned, Next, Fitting
    PROVE  Fitting'
<1>a. Fitting <=> \A d \in Devices : Fitted(d)
  BY DEF Fitting, Fitted
<1>b. Fitting' <=> \A d \in Devices : Fitted(d)'
  BY DEF Fitting, Fitted
<1>c. /\ dev \in [Devices -> DeviceRecords] /\ chain \in [Swaps -> ChainRecords]
      /\ call \in [Devices -> CallRecords] /\ ctx \in [Devices -> CtxRecords]
      /\ None \notin Devices
  BY DEF Types, VkAssumption
<1>d. ASSUME NEW e \in Devices, call'[e] = call[e], ctx'[e] = ctx[e], dev'[e] = dev[e], build' = build,
             \A s \in Swaps : chain[s].on = e => chain'[s] = chain[s]
      PROVE  Fitted(e)'
  <2>1. call[e].at = "record" => call[e].s \in Swaps /\ chain'[call[e].s] = chain[call[e].s]
    BY <1>d DEF Owned
  <2>. QED
    BY <1>a, <1>d, <2>1 DEF Fitted, GivenUp
<1>1. ASSUME NEW d \in Devices, Step(d) PROVE Fitting'
  <2>1. Fitted(d)'
    BY <1>1, <1>a, FittedByStep
  <2>2. Moves(d) /\ Lasting(d)
    BY <1>1, StepMoves, StepLasts
  <2>3. ASSUME NEW e \in Devices \ {d} PROVE Fitted(e)'
    <3>1. \A s \in Swaps : chain[s].on = e => chain'[s] = chain[s]
      BY <2>2 DEF Moves, Lasting, Owned
    <3>. QED
      BY <2>2, <3>1, <1>d DEF Moves, Lasting
  <2>. QED
    BY <1>b, <2>1, <2>3
<1>2. ASSUME NEW d \in Devices, CreateDevice(d) PROVE Fitting'
  <2>1. ~dev[d].live /\ UNCHANGED <<build, chain, ctx, call>> /\ \A e \in Devices \ {d} : dev'[e] = dev[e]
    BY <1>2, <1>c DEF CreateDevice, overlay
  <2>2. call[d].at = "idle"
    BY <2>1, <1>c DEF Owned
  <2>3. ctx[d].view = 0 /\ ctx[d].swap = None /\ (ctx[d].torn \/ (ctx[d].pass = ctx[d].fmt /\ ctx[d].ui \in {None, ctx[d].fmt}))
    BY <1>a, <2>1 DEF Fitted
  <2>4. Fitted(d)'
    BY <2>1, <2>2, <2>3 DEF Fitted
  <2>. QED
    BY <1>b, <1>d, <2>1, <2>4
<1>3. ASSUME NEW d \in Devices, DestroyDevice(d) PROVE Fitting'
  <2>1. /\ call[d].at = "idle" /\ UNCHANGED <<build, chain, call>> /\ ctx'[d] = NoCtx
        /\ \A e \in Devices \ {d} : dev'[e] = dev[e] /\ ctx'[e] = ctx[e]
    BY <1>3, <1>c DEF DestroyDevice
  <2>2. Fitted(d)'
    BY <2>1 DEF Fitted, NoCtx
  <2>. QED
    BY <1>b, <1>d, <2>1, <2>2
<1>4. ASSUME NEW d \in Devices, NEW s \in Swaps, CreateSwapchain(d, s) PROVE Fitting'
  <2>1. /\ chain[s].on = None /\ UNCHANGED <<build, dev, ctx, call>>
        /\ \A t \in Swaps \ {s} : chain'[t] = chain[t]
    BY <1>4, <1>c DEF CreateSwapchain, overlay
  <2>. QED
    BY <1>b, <1>c, <1>d, <2>1
<1>5. ASSUME NEW d \in Devices, NEW s \in Swaps, DestroySwapchain(d, s) PROVE Fitting'
  <2>1. /\ UNCHANGED <<build, dev, ctx, chain>> /\ call[d].at = "idle"
        /\ \A e \in Devices \ {d} : call'[e] = call[e]
        /\ call'[d].at \in {"forget", "drop"}
        /\ call'[d].at = "drop" => build = "linux" /\ ~dev[d].valid
    BY <1>5, <1>c DEF DestroySwapchain, overlay, Idle, Types
  <2>2. Fitted(d)'
    BY <1>a, <2>1 DEF Fitted, GivenUp
  <2>. QED
    BY <1>b, <1>d, <2>1, <2>2
<1>6. ASSUME NEW d \in Devices, NEW s \in Swaps, Present(d, s) PROVE Fitting'
  <2>0. PICK step \in {"stop", "capture", "queue"} : call' = [call EXCEPT ![d] = [Idle EXCEPT !.s = s, !.at = step]]
    BY <1>6 DEF Present
  <2>1. /\ UNCHANGED <<build, dev, ctx, chain>>
        /\ \A e \in Devices \ {d} : call'[e] = call[e]
        /\ call'[d].at \in {"stop", "capture", "queue"}
    BY <1>6, <1>c, <2>0 DEF Present, overlay, Idle
  <2>2. Fitted(d)'
    BY <1>a, <2>1 DEF Fitted, GivenUp
  <2>. QED
    BY <1>b, <1>d, <2>1, <2>2
<1>7. ASSUME Gpu PROVE Fitting'
  <2>1. UNCHANGED <<build, dev, ctx, chain, call>>
    BY <1>7 DEF Gpu, FinishFrame, FinishCopy, overlay
  <2>. QED
    BY <1>b, <1>d, <2>1
<1>. QED
  BY <1>1, <1>2, <1>3, <1>4, <1>5, <1>6, <1>7 DEF Next, Game

LEMMA FramebuffersAreFit ==
    ASSUME Types, VkAssumption, Owned, Fitting
    PROVE  FramebuffersFit
<1> SUFFICES ASSUME NEW d \in Devices, ~ctx[d].torn, ~GivenUp(d)
             PROVE  LET o == ctx[d]
                        c == chain[call[d].s] IN
                    /\ call[d].at = "record" \/ Fits(d) =>
                           o.view = c.gen /\ o.pass = c.fmt /\ o.ui \in {None, c.fmt}
                    /\ o.view # 0 => \E s \in OnDevice(d) : chain[s].gen = o.view /\ o.swap = s
  BY DEF FramebuffersFit, GivenUp
<1> DEFINE o == ctx[d]
           c == chain[call[d].s]
<1>1. /\ o.pass = o.fmt /\ o.ui \in {None, o.fmt}
      /\ \/ o.view = 0 /\ o.swap = None
         \/ o.swap \in Swaps /\ chain[o.swap].on = d /\ chain[o.swap].gen = o.view
      /\ call[d].at = "record" => o.swap = call[d].s /\ o.fmt = c.fmt
  BY DEF Fitting
<1>2. call[d].at = "record" \/ Fits(d) => o.swap = call[d].s /\ o.fmt = c.fmt /\ call[d].s \in Swaps
  BY <1>1 DEF Fits, Owned
<1>3. None \notin Swaps
  BY DEF VkAssumption
<1>. QED
  BY <1>1, <1>2, <1>3 DEF OnDevice
-----------------------------------------------------------------------------
(* The staging areas. *)

LEMMA Countable ==
    ASSUME VkAssumption, NEW S \in SUBSET Swaps
    PROVE  IsFiniteSet(S) /\ Cardinality(S) \in Nat /\ Cardinality(S) <= Cardinality(Swaps)
  BY FS_Subset, FS_CardinalityType DEF VkAssumption

LEMMA Accounting ==
    ASSUME NEW d \in Devices
    PROVE  /\ OfChain(d) = {s \in Swaps : chain[s].on = d /\ stage[s].live}
           /\ OfChain(d)' = {s \in Swaps : chain'[s].on = d /\ stage'[s].live}
           /\ OfChain(d) = Staged \cap OnDevice(d) /\ OfChain(d) \subseteq Swaps
           /\ StagingAccounted => apart \/ areas[d] = Cardinality(OfChain(d))
  BY DEF OfChain, OnDevice, Staged, StagingAccounted

LEMMA SameAreas ==
    ASSUME NEW d \in Devices,
           \A s \in Swaps : (chain'[s].on = d /\ stage'[s].live) <=> (chain[s].on = d /\ stage[s].live)
    PROVE  OfChain(d)' = OfChain(d)
<1>1. {s \in Swaps : chain'[s].on = d /\ stage'[s].live} = {s \in Swaps : chain[s].on = d /\ stage[s].live}
  OBVIOUS
<1>2. OfChain(d) = {s \in Swaps : chain[s].on = d /\ stage[s].live}
  BY Accounting
<1>3. OfChain(d)' = {s \in Swaps : chain'[s].on = d /\ stage'[s].live}
  BY Accounting
<1>. QED
  BY <1>1, <1>2, <1>3

(* Nothing about the areas changes. *)
LEMMA AreasStay ==
    ASSUME Types, VkAssumption, Recorded, StagingAccounted,
           UNCHANGED <<areas, apart, capturing, build>>,
           \A s \in Swaps : stage'[s].live = stage[s].live /\ stage'[s].entry = stage[s].entry,
           \A s \in Staged : /\ chain'[s].on = chain[s].on
                             /\ dev'[chain[s].on].cur = dev[chain[s].on].cur
    PROVE  Recorded' /\ StagingAccounted'
<1>1. Staged' = Staged /\ Staged \subseteq Swaps
  BY DEF Staged
<1>2. Recorded'
  BY <1>1 DEF Recorded
<1>3. ASSUME NEW d \in Devices PROVE OfChain(d)' = OfChain(d)
  <2>1. \A s \in Swaps : (chain'[s].on = d /\ stage'[s].live) <=> (chain[s].on = d /\ stage[s].live)
    BY DEF Staged
  <2>. QED
    BY <2>1, SameAreas
<1>4. ASSUME NEW d \in Devices PROVE apart' \/ areas'[d] = Cardinality(OfChain(d)')
  BY <1>3, Accounting
<1>. QED
  BY <1>2, <1>4 DEF StagingAccounted, OfChain

(* No area is left, or the capture was stopped beside one. *)
LEMMA AreasCleared ==
    ASSUME VkAssumption, build' = build,
           \A s \in Staged' : chain'[s].on # None /\ (build = "windows" => stage'[s].entry),
           apart' \/ (Staged' = {} /\ \A d \in Devices : areas'[d] = 0)
    PROVE  Recorded' /\ StagingAccounted'
<1>1. Recorded'
  BY DEF Recorded
<1>2. ASSUME NEW d \in Devices, ~apart' PROVE OfChain(d)' = {}
  BY <1>2 DEF OfChain, Staged, OnDevice
<1>3. StagingAccounted'
  BY <1>2, FS_EmptySet DEF StagingAccounted, OfChain
<1>. QED
  BY <1>1, <1>3

(* vk_cpu_free. *)
LEMMA AreasFreed ==
    ASSUME Types, VkAssumption, Recorded, StagingAccounted, NEW d \in Devices, FreeAll(d), build' = build,
           \A s \in Swaps : chain'[s] = chain[s] \/ s \in OnDevice(d)
    PROVE  Recorded' /\ StagingAccounted'
<1>1. /\ \A s \in Swaps : stage'[s] = IF s \in Staged \cap OnDevice(d) THEN NoStage ELSE stage[s]
      /\ areas' = [areas EXCEPT ![d] = @ - Cardinality(Staged \cap OnDevice(d))]
      /\ apart' = (apart \/ Staged \ OnDevice(d) # {})
  BY DEF FreeAll, CaptureStop
<1>2. Staged' = Staged \ OnDevice(d)
  <2>1. \A s \in Swaps : stage'[s].live <=> s \in Staged \ OnDevice(d)
    BY <1>1 DEF NoStage, Staged
  <2>. QED
    BY <2>1 DEF Staged
<1>3. \A s \in Staged' : chain'[s].on # None /\ (build = "windows" => stage'[s].entry)
  BY <1>1, <1>2 DEF Recorded, Staged
<1>4. ASSUME ~apart' PROVE Staged' = {} /\ \A e \in Devices : areas'[e] = 0
  <2>1. ~apart /\ Staged \subseteq OnDevice(d)
    BY <1>1, <1>4
  <2>2. \A e \in Devices : areas[e] \in Int /\ areas[e] = Cardinality(OfChain(e))
    BY <2>1, Accounting DEF Types
  <2>3. areas'[d] = 0
    <3>1. areas'[d] = areas[d] - Cardinality(OfChain(d)) /\ areas[d] = Cardinality(OfChain(d)) /\ areas[d] \in Int
      <4>1. OfChain(d) = Staged \cap OnDevice(d)
        BY Accounting
      <4>2. areas'[d] = areas[d] - Cardinality(Staged \cap OnDevice(d))
        BY <1>1 DEF Types
      <4>. QED
        BY <2>2, <4>1, <4>2
    <3>. QED
      BY <3>1
  <2>4. ASSUME NEW e \in Devices \ {d} PROVE areas'[e] = 0
    <3>1. OfChain(e) = {}
      BY <2>1, Accounting DEF OnDevice
    <3>2. areas'[e] = areas[e]
      BY <1>1 DEF Types
    <3>. QED
      BY <2>2, <3>1, <3>2, FS_EmptySet
  <2>. QED
    BY <1>2, <2>1, <2>3, <2>4
<1>. QED
  BY <1>3, <1>4, AreasCleared

(* A new area. *)
LEMMA AreaAdded ==
    ASSUME Types, VkAssumption, Owned, Recorded, StagingAccounted, NEW d \in Devices, NEW s \in Swaps,
           chain[s].on = d, apart \/ s \notin Staged,
           Allocates(d), UNCHANGED <<apart, build, chain>>, capturing' = TRUE,
           stage'[s].live, build = "windows" => stage'[s].entry,
           \A t \in Swaps \ {s} : stage'[t] = stage[t],
           build = "linux" => /\ dev'[d].cur = s /\ \A e \in Devices \ {d} : dev'[e] = dev[e]
                              /\ apart \/ Staged = {}
    PROVE  Recorded' /\ StagingAccounted'
<1>0. d # None
  BY DEF VkAssumption
<1>1. Staged' = Staged \cup {s}
  BY DEF Staged
<1>2. Recorded'
  BY <1>0, <1>1 DEF Recorded, Staged
<1>3. ASSUME ~apart, NEW e \in Devices PROVE areas'[e] = Cardinality(OfChain(e)')
  <2>1. areas[e] = Cardinality(OfChain(e)) /\ areas[e] \in Int /\ areas[d] = Cardinality(OfChain(d))
    BY <1>3, Accounting DEF Types
  <2>2. CASE e = d
    <3>1. OfChain(d)' = OfChain(d) \cup {s} /\ s \notin OfChain(d)
      <4>1. \A t \in Swaps : (chain'[t].on = d /\ stage'[t].live) <=> (t \in OfChain(d) \/ t = s)
        BY DEF OfChain, OnDevice
      <4>2. s \notin OfChain(d) /\ OfChain(d) \subseteq Swaps
        BY <1>3, Accounting
      <4>. QED
        BY <4>1, <4>2, Accounting
    <3>2. Cardinality(OfChain(d)') = Cardinality(OfChain(d)) + 1
      BY <3>1, Countable, Accounting, FS_AddElement
    <3>3. areas[d] <= Cardinality(Swaps)
      BY <2>1, Countable, Accounting
    <3>4. areas'[d] = areas[d] + 1
      BY <3>3 DEF Allocates, Types
    <3>. QED
      BY <2>1, <2>2, <3>2, <3>4
  <2>3. CASE e # d
    <3>1. OfChain(e)' = OfChain(e)
      <4>1. \A t \in Swaps : (chain'[t].on = e /\ stage'[t].live) <=> (chain[t].on = e /\ stage[t].live)
        BY <2>3
      <4>. QED
        BY <4>1, SameAreas
    <3>2. areas'[e] = areas[e]
      BY <2>3 DEF Allocates, Types
    <3>. QED
      BY <2>1, <3>1, <3>2
  <2>. QED
    BY <2>2, <2>3
<1>. QED
  BY <1>2, <1>3 DEF StagingAccounted, OfChain

(* Windows: the area of one swapchain is freed and the capture stopped. *)
LEMMA AreaReleased ==
    ASSUME Types, VkAssumption, Recorded, StagingAccounted, NEW d \in Devices, NEW s \in Swaps,
           chain[s].on = d, NEW stays \in BOOLEAN, Releases(d, s, stays), CaptureStop(Staged \ {s}),
           build' = build, \A t \in Swaps \ {s} : chain'[t] = chain[t]
    PROVE  Recorded' /\ StagingAccounted'
<1>1. stage \in [Swaps -> StageRecords] /\ areas \in [Devices -> Int]
  BY DEF Types
<1>2. ~stage'[s].live /\ \A t \in Swaps \ {s} : stage'[t] = stage[t]
  BY <1>1 DEF Releases, NoStage
<1>3. Staged' = Staged \ {s}
  BY <1>2 DEF Staged
<1>4. \A t \in Staged' : chain'[t].on # None /\ (build = "windows" => stage'[t].entry)
  BY <1>2, <1>3 DEF Recorded, Staged
<1>5. ASSUME ~apart' PROVE Staged' = {} /\ \A e \in Devices : areas'[e] = 0
  <2>1. ~apart /\ Staged \subseteq {s}
    BY <1>5 DEF CaptureStop
  <2>2. \A e \in Devices : areas[e] = Cardinality(OfChain(e))
    BY <2>1, Accounting
  <2>3. ASSUME NEW e \in Devices \ {d} PROVE areas'[e] = 0
    <3>1. OfChain(e) = {}
      BY <2>1, Accounting DEF OnDevice
    <3>. QED
      BY <1>1, <2>2, <3>1, FS_EmptySet DEF Releases
  <2>4. areas'[d] = 0
    <3>1. CASE stage[s].live
      <4>1. OfChain(d) = {s}
        BY <2>1, <3>1, Accounting
      <4>. QED
        <5>1. areas'[d] = areas[d] - 1
          BY <1>1, <3>1 DEF Releases
        <5>2. areas[d] = 1
          <6>1. Cardinality({s}) = 1
            BY FS_Singleton
          <6>2. areas[d] = Cardinality(OfChain(d))
            BY <2>2
          <6>. QED
            BY <4>1, <6>1, <6>2
        <5>. QED
          BY <5>1, <5>2
    <3>2. CASE ~stage[s].live
      <4>1. OfChain(d) = {}
        BY <2>1, <3>2, Accounting DEF Staged
      <4>. QED
        BY <1>1, <2>2, <3>2, <4>1, FS_EmptySet DEF Releases
    <3>. QED
      BY <3>1, <3>2
  <2>. QED
    BY <1>3, <2>1, <2>3, <2>4
<1>. QED
  BY <1>4, <1>5, AreasCleared
LEMMA StagedByCapture ==
    ASSUME Types, VkAssumption, Owned, Recorded, StagingAccounted, NEW d \in Devices,
           \/ Drop(d) \/ Stop(d) \/ InitCapture(d) \/ Ready(d) \/ StopCapture(d) \/ Build(d) \/ Take(d)
    PROVE  Recorded' /\ StagingAccounted'
<1> DEFINE s == call[d].s
<1>a. call[d].at # "idle"
  BY DEF Drop, Stop, InitCapture, Ready, StopCapture, Build, Take, Enters
<1>b. s \in Swaps /\ chain[s].on = d /\ s \in OnDevice(d)
  BY <1>a, Called DEF OnDevice
<1>c. /\ stage \in [Swaps -> StageRecords] /\ stage[s] \in StageRecords /\ build \in {"linux", "windows"}
      /\ dev \in [Devices -> DeviceRecords] /\ chain \in [Swaps -> ChainRecords]
  BY <1>b DEF Types
<1>d. ASSUME FreeAll(d), UNCHANGED <<build, chain>> PROVE Recorded' /\ StagingAccounted'
  BY <1>d, AreasFreed
<1>e. ASSUME UNCHANGED <<capturing, capture, dev, build, chain>> PROVE Recorded' /\ StagingAccounted'
  BY <1>e, AreasStay DEF capture
<1>1. CASE Drop(d)
  <2>0. build' = build /\ \A t \in Swaps \ {s} : chain'[t] = chain[t]
    BY <1>1 DEF Drop, Types
  <2>1. CASE build = "linux" /\ dev[d].cur = s
    <3>1. FreeAll(d)
      BY <1>1, <2>1 DEF Drop
    <3>. QED
      BY <1>b, <2>0, <3>1, AreasFreed
  <2>2. CASE build = "linux" /\ dev[d].cur # s /\ s \notin Staged
    <3>1. UNCHANGED <<capturing, areas, apart, dev>> /\ stage' = [stage EXCEPT ![s] = NoStage]
      BY <1>1, <2>2 DEF Drop
    <3>2. \A t \in Swaps : stage'[t].live = stage[t].live
      BY <1>b, <1>c, <2>2, <3>1 DEF NoStage, Staged, StageRecords
    <3>3. \A t \in Staged : t # s /\ t \in Swaps
      BY <2>2 DEF Staged
    <3>4. Staged' = Staged
      BY <3>2 DEF Staged
    <3>5. Recorded'
      BY <2>0, <2>2, <3>1, <3>3, <3>4 DEF Recorded
    <3>6. ASSUME NEW e \in Devices PROVE OfChain(e)' = OfChain(e)
      <4>1. \A t \in Swaps : (chain'[t].on = e /\ stage'[t].live) <=> (chain[t].on = e /\ stage[t].live)
        BY <2>0, <2>2, <3>2 DEF Staged
      <4>. QED
        BY <4>1, SameAreas
    <3>7. ASSUME NEW e \in Devices PROVE apart' \/ areas'[e] = Cardinality(OfChain(e)')
      BY <3>1, <3>6, Accounting
    <3>. QED
      BY <3>5, <3>7 DEF StagingAccounted, OfChain
  <2>3. CASE build = "linux" /\ dev[d].cur # s /\ s \in Staged
    <3>1. UNCHANGED <<capturing, areas, apart, dev>> /\ stage' = [stage EXCEPT ![s] = NoStage]
      BY <1>1, <2>3 DEF Drop
    <3>2. apart /\ apart'
      BY <1>b, <2>3, <3>1 DEF Recorded
    <3>3. Staged' \subseteq Staged \ {s}
      BY <1>b, <1>c, <3>1 DEF Staged, NoStage
    <3>4. \A t \in Staged' : chain'[t].on # None /\ (build = "windows" => stage'[t].entry)
      BY <2>0, <2>3, <3>3 DEF Recorded, Staged
    <3>. QED
      BY <2>0, <3>2, <3>4, AreasCleared
  <2>4. CASE build # "linux" /\ stage[s].entry
    <3>1. Releases(d, s, FALSE) /\ CaptureStop(Staged \ {s})
      BY <1>1, <2>4 DEF Drop
    <3>. QED
      BY <1>b, <2>0, <3>1, AreaReleased
  <2>5. CASE build # "linux" /\ ~stage[s].entry
    <3>1. UNCHANGED <<capturing, stage, areas, apart, dev>>
      BY <1>1, <2>5 DEF Drop, capture
    <3>2. s \notin Staged
      BY <1>c, <2>5 DEF Recorded
    <3>3. \A t \in Staged : chain'[t].on = chain[t].on
      BY <2>0, <3>2 DEF Staged
    <3>. QED
      BY <2>0, <3>1, <3>3, AreasStay
  <2>. QED
    BY <2>1, <2>2, <2>3, <2>4, <2>5
<1>2. CASE Stop(d)
  BY <1>2, <1>d, <1>e DEF Stop
<1>3. CASE InitCapture(d)
  <2>0. UNCHANGED <<build, chain>> /\ build = "linux"
    BY <1>3, <1>c DEF InitCapture, Owned
  <2>1. CASE UNCHANGED <<capturing, capture, dev>>
    BY <1>e, <2>0, <2>1
  <2>2. CASE FreeAll(d)
    BY <1>d, <2>0, <2>2
  <2>3. CASE /\ stage' = [stage EXCEPT ![s].live = TRUE] /\ Allocates(d) /\ ShouldInit
             /\ dev' = [dev EXCEPT ![d].cur = s] /\ capturing' = TRUE /\ UNCHANGED apart
    <3>1. stage'[s].live /\ \A t \in Swaps \ {s} : stage'[t] = stage[t]
      BY <1>b, <1>c, <2>3 DEF StageRecords
    <3>2. apart \/ Staged = {}
      BY <2>3 DEF Recorded, ShouldInit
    <3>3. dev'[d].cur = s /\ \A e \in Devices \ {d} : dev'[e] = dev[e]
      BY <1>c, <2>3 DEF DeviceRecords
    <3>. QED
      BY <1>b, <2>0, <2>3, <3>1, <3>2, <3>3, AreaAdded
  <2>. QED
    BY <1>3, <2>1, <2>2, <2>3 DEF InitCapture
<1>4. CASE Ready(d)
  BY <1>4, <1>d, <1>e DEF Ready
<1>5. CASE StopCapture(d)
  <2>1. Releases(d, s, TRUE) /\ CaptureStop(Staged \ {s}) /\ UNCHANGED <<build, chain>>
    BY <1>5 DEF StopCapture
  <2>. QED
    BY <1>b, <2>1, AreaReleased
<1>6. CASE Build(d)
  <2>0. /\ UNCHANGED <<build, chain, dev>> /\ build = "windows" /\ (capturing => ~stage[s].live)
        /\ apart \/ s \notin Staged
    BY <1>6 DEF Build, Enters, Owned, Recorded, Staged
  <2>1. CASE /\ stage' = [stage EXCEPT ![s].live = TRUE, ![s].busy = FALSE, ![s].entry = TRUE]
             /\ Allocates(d) /\ capturing' = TRUE /\ UNCHANGED apart
    <3>1. stage'[s].live /\ stage'[s].entry /\ \A t \in Swaps \ {s} : stage'[t] = stage[t]
      BY <1>b, <1>c, <2>1 DEF StageRecords
    <3>. QED
      BY ZenonT(60), <1>b, <2>0, <2>1, <3>1, AreaAdded
  <2>2. CASE /\ stage' = [stage EXCEPT ![s] = [NoStage EXCEPT !.entry = TRUE]]
             /\ UNCHANGED areas /\ CaptureStop(Staged \ {s})
    <3>1. ~stage'[s].live /\ \A t \in Swaps \ {s} : stage'[t] = stage[t]
      BY <1>b, <1>c, <2>2 DEF NoStage
    <3>2. Staged' = Staged \ {s}
      BY <3>1 DEF Staged
    <3>3. \A t \in Staged' : chain'[t].on # None /\ (build = "windows" => stage'[t].entry)
      BY <2>0, <3>1, <3>2 DEF Recorded, Staged
    <3>4. ASSUME ~apart' PROVE Staged' = {} /\ \A e \in Devices : areas'[e] = 0
      <4>1. ~apart /\ Staged = {}
        BY <2>0, <2>2, <3>4 DEF CaptureStop
      <4>2. \A e \in Devices : OfChain(e) = {}
        BY <4>1, Accounting
      <4>. QED
        BY <2>2, <3>2, <4>1, <4>2, FS_EmptySet, Accounting
    <3>. QED
      BY <2>0, <3>3, <3>4, AreasCleared
  <2>. QED
    BY <1>6, <2>1, <2>2 DEF Build
<1>7. CASE Take(d)
  <2>1. \/ UNCHANGED stage
        \/ stage' = [stage EXCEPT ![s].pend = FALSE]
        \/ \E after \in {0, 1} : stage' = [stage EXCEPT ![s].pend = (after = 1), ![s].busy = (after = 1)]
    BY <1>7 DEF Take
  <2>2. \A t \in Swaps : stage'[t].live = stage[t].live /\ stage'[t].entry = stage[t].entry
    BY <1>b, <1>c, <2>1 DEF StageRecords
  <2>3. UNCHANGED <<areas, apart, capturing, build, chain, dev>>
    BY <1>7 DEF Take, shared
  <2>. QED
    BY <2>2, <2>3, AreasStay
<1>. QED
  BY <1>1, <1>2, <1>3, <1>4, <1>5, <1>6, <1>7

LEMMA StagedKept ==
    ASSUME Types, VkAssumption, Owned, Recorded, StagingAccounted, Next
    PROVE  Recorded' /\ StagingAccounted'
<1>a. /\ dev \in [Devices -> DeviceRecords] /\ chain \in [Swaps -> ChainRecords]
      /\ stage \in [Swaps -> StageRecords] /\ areas \in [Devices -> Int]
  BY DEF Types
<1>b. \A s \in Staged : s \in Swaps /\ chain[s].on \in Devices /\ dev[chain[s].on].live
  <2>1. \A s \in Staged : s \in Swaps /\ chain[s].on # None
    BY DEF Recorded, Staged
  <2>. QED
    BY <1>a, <2>1 DEF Owned, ChainRecords
<1>1. ASSUME NEW d \in Devices, Step(d) PROVE Recorded' /\ StagingAccounted'
  <2>1. CASE \/ Drop(d) \/ Stop(d) \/ InitCapture(d) \/ Ready(d) \/ StopCapture(d) \/ Build(d) \/ Take(d)
    BY <2>1, StagedByCapture
  <2>2. CASE Forget(d) \/ Skip(d) \/ Draw(d) \/ Fit(d) \/ DrawsNothing(d) \/ Record(d) \/ Queue(d)
    <3>1. UNCHANGED <<capturing, stage, areas, apart, dev, build, chain>>
      BY <2>2 DEF Forget, Skip, Draw, Fit, DrawsNothing, Record, Queue, shared, capture
    <3>. QED
      BY <3>1, AreasStay
  <2>3. CASE Copy(d)
    <3>1. UNCHANGED <<capturing, stage, areas, apart, build, chain>>
      BY <2>3 DEF Copy, shared, capture
    <3>2. \A e \in Devices : dev'[e].cur = dev[e].cur
      <4>1. UNCHANGED dev \/ \E k \in {"none", "part", "whole"} : dev' = [dev EXCEPT ![d].kit = k]
        BY <2>3 DEF Copy
      <4>. QED
        BY <1>a, <4>1 DEF DeviceRecords
    <3>. QED
      BY <1>b, <3>1, <3>2, AreasStay
  <2>. QED
    BY <1>1, <2>1, <2>2, <2>3 DEF Step
<1>2. ASSUME NEW d \in Devices, CreateDevice(d) PROVE Recorded' /\ StagingAccounted'
  <2>1. UNCHANGED <<capturing, stage, areas, apart, build, chain>> /\ ~dev[d].live
    BY <1>2 DEF CreateDevice, shared, capture
  <2>2. \A e \in Devices \ {d} : dev'[e] = dev[e]
    BY <1>2, <1>a DEF CreateDevice
  <2>3. \A s \in Staged : dev'[chain[s].on].cur = dev[chain[s].on].cur
    BY <1>b, <2>1, <2>2
  <2>. QED
    BY <2>1, <2>3, AreasStay
<1>3. ASSUME NEW d \in Devices, DestroyDevice(d) PROVE Recorded' /\ StagingAccounted'
  <2>1. /\ UNCHANGED <<stage, build, chain>> /\ OnDevice(d) = {}
        /\ CaptureStop(Staged) \/ UNCHANGED <<capturing, apart>>
        /\ areas'[d] = 0 /\ \A e \in Devices \ {d} : areas'[e] = areas[e] /\ dev'[e] = dev[e]
    BY <1>3, <1>a DEF DestroyDevice
  <2>2. \A s \in Staged : chain[s].on # d
    BY <1>b, <2>1 DEF OnDevice
  <2>a. (~apart' => ~apart) /\ (~apart' /\ ~capturing' => Staged = {})
    <3>1. CASE CaptureStop(Staged)
      BY <3>1 DEF CaptureStop
    <3>2. CASE UNCHANGED <<capturing, apart>>
      BY <3>2 DEF Recorded
    <3>. QED
      BY <2>1, <3>1, <3>2
  <2>3. Staged' = Staged
    BY <2>1 DEF Staged
  <2>4. Recorded'
    <3>1. \A s \in Staged : dev'[chain[s].on].cur = dev[chain[s].on].cur
      BY <1>b, <2>1, <2>2
    <3>. QED
      BY <2>1, <2>3, <2>a, <3>1 DEF Recorded
  <2>5. ASSUME NEW e \in Devices, ~apart' PROVE areas'[e] = Cardinality(OfChain(e)')
    <3>1. OfChain(e)' = OfChain(e) /\ ~apart
      BY <2>1, <2>5, <2>a, SameAreas
    <3>2. OfChain(d) = {}
      BY <2>1, Accounting
    <3>3. CASE e = d
      BY <2>1, <3>1, <3>2, <3>3, FS_EmptySet
    <3>4. CASE e # d
      BY <2>1, <3>1, <3>4, Accounting
    <3>. QED
      BY <3>3, <3>4
  <2>. QED
    BY <2>4, <2>5 DEF StagingAccounted, OfChain
<1>4. ASSUME NEW d \in Devices, NEW s \in Swaps, CreateSwapchain(d, s) PROVE Recorded' /\ StagingAccounted'
  <2>1. UNCHANGED <<capturing, stage, areas, apart, build, dev>> /\ chain[s].on = None
    BY <1>4 DEF CreateSwapchain, shared, capture
  <2>2. \A t \in Swaps \ {s} : chain'[t] = chain[t]
    BY <1>4, <1>a DEF CreateSwapchain
  <2>3. s \notin Staged
    BY <2>1 DEF Recorded
  <2>4. Recorded'
    BY <1>b, <2>1, <2>2, <2>3 DEF Recorded, Staged
  <2>5. \A t \in Staged : chain'[t].on = chain[t].on
    BY <1>b, <2>2, <2>3
  <2>. QED
    BY <2>1, <2>5, AreasStay
<1>5. ASSUME NEW d \in Devices, NEW s \in Swaps, DestroySwapchain(d, s) \/ Present(d, s)
      PROVE  Recorded' /\ StagingAccounted'
  <2>1. UNCHANGED <<capturing, stage, areas, apart, build, chain, dev>>
    BY <1>5 DEF DestroySwapchain, Present, shared, capture
  <2>. QED
    BY <2>1, AreasStay
<1>6. ASSUME Gpu PROVE Recorded' /\ StagingAccounted'
  <2>1. UNCHANGED <<capturing, areas, apart, build, chain, dev>>
    BY <1>6 DEF Gpu, FinishFrame, FinishCopy, shared, capture
  <2>2. \A t \in Swaps : stage'[t].live = stage[t].live /\ stage'[t].entry = stage[t].entry
    <3>1. UNCHANGED stage \/ \E s \in Swaps : stage' = [stage EXCEPT ![s].busy = FALSE, ![s].pend = FALSE]
      BY <1>6 DEF Gpu, FinishFrame, FinishCopy, capture
    <3>2. ASSUME NEW s \in Swaps, stage' = [stage EXCEPT ![s].busy = FALSE, ![s].pend = FALSE], NEW t \in Swaps
          PROVE  stage'[t].live = stage[t].live /\ stage'[t].entry = stage[t].entry
      <4>1. stage[s] \in StageRecords /\ stage'[s] = [stage[s] EXCEPT !.busy = FALSE, !.pend = FALSE]
        BY <1>a, <3>2
      <4>2. stage'[s].live = stage[s].live /\ stage'[s].entry = stage[s].entry
        BY <4>1 DEF StageRecords
      <4>. QED
        BY <1>a, <3>2, <4>2
    <3>. QED
      BY <3>1, <3>2
  <2>. QED
    BY <2>1, <2>2, AreasStay
<1>. QED
  BY <1>1, <1>2, <1>3, <1>4, <1>5, <1>6 DEF Next, Game
-----------------------------------------------------------------------------
(* What the GPU works with. *)

FramesLeftAlone ==
    \A d \in Devices, k \in Slots : frame[d][k].work = "running" => frame[d][k].view = ctx[d].view
CopiesLeftAlone ==
    timeouts < 2 => \A s \in Swaps : stage[s].busy => stage[s].live /\ stage[s].pend

LEMMA FramesByStep ==
    ASSUME Types, VkAssumption, Owned, Fitting, FramesLeftAlone, NEW d \in Devices, Step(d)
    PROVE  FramesLeftAlone'
<1>a. /\ frame \in [Devices -> [Slots -> FrameRecords]] /\ ctx \in [Devices -> CtxRecords]
      /\ call[d].at # "idle" /\ dev[d].live
  BY SMTT(30), StepMoves, Called DEF Types, Moves, Owned, VkAssumption
<1>b. \A e \in Devices \ {d} : ctx'[e] = ctx[e]
  BY StepLasts DEF Lasting
<1>1. ASSUME UNCHANGED frame,
             ctx'[d].view = ctx[d].view \/ \A k \in Slots : frame[d][k].work # "running"
      PROVE  FramesLeftAlone'
  BY <1>b, <1>1 DEF FramesLeftAlone
<1>2. CASE Forget(d)
  <2>1. UNCHANGED frame /\ (ctx[d].swap = call[d].s => GpuIdle(d)) /\ (ctx[d].swap # call[d].s => UNCHANGED ctx)
    BY <1>2 DEF Forget
  <2>. QED
    BY <1>1, <2>1 DEF GpuIdle
<1>3. CASE Draw(d)
  <2>1. ctx'[d].view = ctx[d].view
    BY <1>3, DrawEffect DEF Fitting
  <2>. QED
    BY <1>1, <1>3, <2>1, DrawEffect
<1>4. CASE Fit(d)
  BY <1>1, <1>4, FitEffect DEF GpuIdle
<1>5. CASE Record(d)
  <2>1. ctx'[d].view = ctx[d].view
    BY <1>5, RecordEffect
  <2>2. ASSUME NEW e \in Devices, NEW k \in Slots, frame'[e][k].work = "running"
        PROVE  frame'[e][k].view = ctx'[e].view
    <3>1. frame'[e][k] = frame[e][k] \/ (e = d /\ frame'[e][k].view = ctx[d].view)
      BY <1>5, <2>2, RecordEffect
    <3>2. ctx'[e].view = ctx[e].view
      BY <1>b, <2>1
    <3>. QED
      BY <2>2, <3>1, <3>2 DEF FramesLeftAlone
  <2>. QED
    BY <2>2 DEF FramesLeftAlone
<1>6. CASE ~(Forget(d) \/ Draw(d) \/ Fit(d) \/ Record(d))
  <2>1. UNCHANGED <<frame, ctx>>
    BY <1>6 DEF Step, Drop, Stop, InitCapture, Ready, Copy, Skip, StopCapture, Build, Take,
           DrawsNothing, Queue, overlay
  <2>. QED
    BY <1>1, <2>1
<1>. QED
  BY <1>2, <1>3, <1>4, <1>5, <1>6

LEMMA FramesKept ==
    ASSUME Types, VkAssumption, Owned, Fitting, FramesLeftAlone, Next
    PROVE  FramesLeftAlone'
<1>a. /\ frame \in [Devices -> [Slots -> FrameRecords]] /\ ctx \in [Devices -> CtxRecords]
  BY DEF Types
<1>1. ASSUME NEW d \in Devices, DestroyDevice(d) PROVE FramesLeftAlone'
  <2>1. /\ \A k \in Slots : frame'[d][k] = NoFrame
        /\ \A e \in Devices \ {d} : frame'[e] = frame[e] /\ ctx'[e] = ctx[e]
    BY <1>1, <1>a DEF DestroyDevice
  <2>. QED
    BY <2>1 DEF FramesLeftAlone, NoFrame
<1>2. ASSUME NEW d \in Devices, Game(d), ~DestroyDevice(d) PROVE FramesLeftAlone'
  <2>1. UNCHANGED <<frame, ctx>>
    BY <1>2 DEF Game, CreateDevice, CreateSwapchain, DestroySwapchain, Present, overlay
  <2>. QED
    BY <2>1 DEF FramesLeftAlone
<1>3. ASSUME NEW d \in Devices, NEW k \in Slots, FinishFrame(d, k) PROVE FramesLeftAlone'
  <2>1. UNCHANGED ctx /\ \A e \in Devices, j \in Slots : frame'[e][j] = frame[e][j] \/ frame'[e][j] = NoFrame
    BY <1>3, <1>a DEF FinishFrame
  <2>. QED
    BY <2>1 DEF FramesLeftAlone, NoFrame
<1>4. ASSUME NEW s \in Swaps, FinishCopy(s) PROVE FramesLeftAlone'
  BY <1>4 DEF FinishCopy, FramesLeftAlone, overlay
<1>. QED
  BY <1>1, <1>2, <1>3, <1>4, FramesByStep DEF Next, Gpu

(* Areas become busy by a copy that outlasts its wait only. *)
LEMMA CopiesStay ==
    ASSUME Outlasted, CopiesLeftAlone, Counting, timeouts \in Nat,
           \A s \in Swaps : stage'[s].busy =>
              /\ stage[s].busy
              /\ (stage[s].live => stage'[s].live) /\ (stage[s].pend => stage'[s].pend)
    PROVE  Outlasted' /\ CopiesLeftAlone'
  BY DEF Outlasted, CopiesLeftAlone, Counting

LEMMA CopiesReleased ==
    ASSUME Types, Outlasted, CopiesLeftAlone, Counting, NEW d \in Devices, NEW s \in Swaps,
           NEW stays \in BOOLEAN, Releases(d, s, stays), \E through \in BOOLEAN : WaitedFor(s, through)
    PROVE  Outlasted' /\ CopiesLeftAlone'
<1>1. /\ stage \in [Swaps -> StageRecords] /\ timeouts \in Nat
  BY DEF Types
<1>2. stage'[s].busy = stage[s].busy /\ \A t \in Swaps \ {s} : stage'[t] = stage[t]
  BY <1>1 DEF Releases, NoStage
<1>3. timeouts' < 2 => ~stage[s].busy
  <2>1. SUFFICES ASSUME timeouts' < 2, stage[s].busy PROVE FALSE
    OBVIOUS
  <2>2. timeouts < 2 /\ timeouts > 0 /\ stage[s].pend
    BY <1>1, <2>1 DEF Outlasted, CopiesLeftAlone, Counting
  <2>3. timeouts' = timeouts + 1
    BY <2>1, <2>2 DEF WaitedFor
  <2>. QED
    BY <1>1, <2>1, <2>2, <2>3
<1>4. Outlasted'
  BY <1>1, <1>2 DEF Outlasted, Counting
<1>5. CopiesLeftAlone'
  BY <1>1, <1>2, <1>3 DEF CopiesLeftAlone, Counting
<1>. QED
  BY <1>4, <1>5

LEMMA CopiesByStep ==
    ASSUME Types, VkAssumption, Owned, Outlasted, CopiesLeftAlone, NEW d \in Devices, Step(d)
    PROVE  Outlasted' /\ CopiesLeftAlone'
<1> DEFINE s == call[d].s
<1>. Counting
  BY CountsGoOn DEF Next
<1>a. s \in Swaps /\ stage \in [Swaps -> StageRecords] /\ stage[s] \in StageRecords /\ timeouts \in Nat
  BY StepMoves, Called DEF Moves, Types
<1>b. ASSUME FreeAll(d) PROVE Outlasted' /\ CopiesLeftAlone'
  <2>1. \A t \in Swaps : stage'[t] = stage[t] \/ stage'[t] = NoStage
    BY <1>b DEF FreeAll
  <2>. QED
    BY <1>a, <2>1, CopiesStay DEF NoStage
<1>c. ASSUME UNCHANGED stage PROVE Outlasted' /\ CopiesLeftAlone'
  BY <1>a, <1>c, CopiesStay
<1>1. CASE Drop(d)
  <2>1. CASE FreeAll(d)
    BY <1>b, <2>1
  <2>2. CASE stage' = [stage EXCEPT ![s] = NoStage]
    <3>1. \A t \in Swaps : stage'[t] = stage[t] \/ stage'[t] = NoStage
      BY <1>a, <2>2
    <3>. QED
      BY <1>a, <3>1, CopiesStay DEF NoStage
  <2>3. CASE Releases(d, s, FALSE) /\ \E through \in BOOLEAN : WaitedFor(s, through)
    BY <1>a, <2>3, CopiesReleased
  <2>. QED
    BY <1>1, <1>c, <2>1, <2>2, <2>3 DEF Drop, capture
<1>2. CASE Stop(d)
  BY <1>2, <1>b, <1>c DEF Stop, capture
<1>3. CASE InitCapture(d)
  <2>1. CASE stage' = [stage EXCEPT ![s].live = TRUE]
    <3>1. \A t \in Swaps : /\ stage'[t].busy = stage[t].busy /\ stage'[t].pend = stage[t].pend
                           /\ stage[t].live => stage'[t].live
      BY <1>a, <2>1 DEF StageRecords
    <3>. QED
      BY <1>a, <3>1, CopiesStay
  <2>. QED
    BY <1>3, <1>b, <1>c, <2>1 DEF InitCapture, capture
<1>4. CASE Ready(d)
  BY <1>4, <1>b, <1>c DEF Ready, capture
<1>5. CASE StopCapture(d)
  BY <1>5, <1>a, CopiesReleased DEF StopCapture
<1>6. CASE Build(d)
  <2>1. ~stage'[s].busy /\ \A t \in Swaps \ {s} : stage'[t] = stage[t]
    <3>1. CASE stage' = [stage EXCEPT ![s].live = TRUE, ![s].busy = FALSE, ![s].entry = TRUE]
      BY <1>a, <3>1 DEF StageRecords
    <3>2. CASE stage' = [stage EXCEPT ![s] = [NoStage EXCEPT !.entry = TRUE]]
      BY <1>a, <3>2 DEF NoStage
    <3>. QED
      BY <1>6, <3>1, <3>2 DEF Build
  <2>. QED
    BY <1>a, <2>1, CopiesStay
<1>7. CASE Take(d)
  <2>0. stage[s].live
    BY <1>7 DEF Take, Owned
  <2>1. CASE UNCHANGED stage
    BY <1>c, <2>1
  <2>2. CASE /\ stage' = [stage EXCEPT ![s].pend = FALSE]
             /\ timeouts' = timeouts + (IF stage[s].pend /\ stage[s].busy THEN 1 ELSE 0)
    <3>1. /\ stage'[s].busy = stage[s].busy /\ stage'[s].live = stage[s].live
          /\ \A t \in Swaps \ {s} : stage'[t] = stage[t]
      BY <1>a, <2>2 DEF StageRecords
    <3>2. timeouts' < 2 => ~stage[s].busy
      BY <1>a, <2>2 DEF Outlasted, CopiesLeftAlone
    <3>3. Outlasted'
      BY <1>a, <3>1 DEF Outlasted, Counting
    <3>4. CopiesLeftAlone'
      BY <1>a, <3>1, <3>2 DEF CopiesLeftAlone, Counting
    <3>. QED
      BY <3>3, <3>4
  <2>3. ASSUME NEW after \in {0, 1},
               stage' = [stage EXCEPT ![s].pend = (after = 1), ![s].busy = (after = 1)],
               timeouts' = timeouts + ((IF stage[s].pend /\ stage[s].busy THEN 1 ELSE 0) + after)
        PROVE  Outlasted' /\ CopiesLeftAlone'
    <3>0. stage'[s] = [stage[s] EXCEPT !.pend = (after = 1), !.busy = (after = 1)]
      BY <1>a, <2>3
    <3>1. /\ stage'[s].live = stage[s].live /\ (stage'[s].busy <=> after = 1) /\ (stage'[s].pend <=> after = 1)
          /\ \A t \in Swaps \ {s} : stage'[t] = stage[t]
      BY <1>a, <2>3, <3>0 DEF StageRecords
    <3>2. after = 1 => timeouts' > 0
      BY <1>a, <2>3
    <3>3. Outlasted'
      BY <1>a, <3>1, <3>2 DEF Outlasted, Counting
    <3>4. ASSUME NEW t \in Swaps, timeouts' < 2, stage'[t].busy PROVE stage'[t].live /\ stage'[t].pend
      <4>1. CASE t = s
        BY <2>0, <3>1, <3>4, <4>1
      <4>2. CASE t # s
        BY <1>a, <3>1, <3>4, <4>2 DEF CopiesLeftAlone, Counting
      <4>. QED
        BY <4>1, <4>2
    <3>5. CopiesLeftAlone'
      BY <3>4 DEF CopiesLeftAlone
    <3>. QED
      BY <3>3, <3>5
  <2>. QED
    BY <1>7, <2>1, <2>2, <2>3 DEF Take
<1>8. CASE ~(Drop(d) \/ Stop(d) \/ InitCapture(d) \/ Ready(d) \/ StopCapture(d) \/ Build(d) \/ Take(d))
  <2>1. UNCHANGED stage
    BY <1>8 DEF Step, Forget, Copy, Skip, Draw, Fit, DrawsNothing, Record, Queue, capture
  <2>. QED
    BY <1>c, <2>1
<1>. QED
  BY <1>1, <1>2, <1>3, <1>4, <1>5, <1>6, <1>7, <1>8

LEMMA CopiesKept ==
    ASSUME Types, VkAssumption, Owned, Outlasted, CopiesLeftAlone, Next
    PROVE  Outlasted' /\ CopiesLeftAlone'
<1>. Counting /\ timeouts \in Nat
  BY CountsGoOn DEF Types
<1>1. ASSUME UNCHANGED stage PROVE Outlasted' /\ CopiesLeftAlone'
  BY <1>1, CopiesStay
<1>2. ASSUME NEW d \in Devices, Game(d) PROVE UNCHANGED stage
  BY <1>2 DEF Game, CreateDevice, DestroyDevice, CreateSwapchain, DestroySwapchain, Present, capture
<1>3. ASSUME NEW d \in Devices, NEW k \in Slots, FinishFrame(d, k) PROVE UNCHANGED stage
  BY <1>3 DEF FinishFrame, capture
<1>4. ASSUME NEW s \in Swaps, FinishCopy(s) PROVE Outlasted' /\ CopiesLeftAlone'
  <2>0. stage \in [Swaps -> StageRecords] /\ stage' = [stage EXCEPT ![s].busy = FALSE, ![s].pend = FALSE]
    BY <1>4 DEF FinishCopy, Types
  <2>1. ~stage'[s].busy /\ \A t \in Swaps \ {s} : stage'[t] = stage[t]
    BY <2>0 DEF StageRecords
  <2>. QED
    BY <2>1, CopiesStay
<1>. QED
  BY <1>1, <1>2, <1>3, <1>4, CopiesByStep DEF Next, Gpu
-----------------------------------------------------------------------------
LEMMA InitHolds ==
    ASSUME VkAssumption, Init
    PROVE  IInv
<1>1. Types
  <2>1. build \in {"linux", "windows"} /\ {granted, capturing, apart} \subseteq BOOLEAN
        /\ {made, failures, timeouts} \subseteq Nat
    <3>1. build \in {"linux", "windows"}
      BY DEF Init
    <3>2. {granted, capturing, apart} \subseteq BOOLEAN
      <4>1. granted \in BOOLEAN /\ capturing \in BOOLEAN /\ apart \in BOOLEAN
        BY DEF Init
      <4>. QED
        BY <4>1
    <3>3. {made, failures, timeouts} \subseteq Nat
      BY DEF Init
    <3>. QED
      BY <3>1, <3>2, <3>3
  <2>2. /\ dev \in [Devices -> DeviceRecords] /\ chain \in [Swaps -> ChainRecords]
        /\ stage \in [Swaps -> StageRecords] /\ ctx \in [Devices -> CtxRecords]
        /\ call \in [Devices -> CallRecords]
    BY RecordTypes DEF Init
  <2>3. frame \in [Devices -> [Slots -> FrameRecords]]
    BY RecordTypes DEF Init
  <2>4. sems \in [Devices -> SUBSET Signals] /\ areas \in [Devices -> Int]
    BY DEF Init
  <2>. QED
    BY <2>1, <2>2, <2>3, <2>4 DEF Types
<1>2. /\ \A s \in Swaps : chain[s] = NoChain /\ stage[s] = NoStage
      /\ \A d \in Devices : /\ call[d] = Idle /\ ctx[d] = NoCtx /\ sems[d] = {} /\ areas[d] = 0
                            /\ \A k \in Slots : frame[d][k] = NoFrame
  BY DEF Init
<1>3. Staged = {} /\ \A d \in Devices : OfChain(d) = {}
  BY <1>2 DEF Staged, OfChain, OnDevice, NoStage
<1>4. Owned /\ Outlasted
  BY <1>2 DEF Owned, Outlasted, Idle, NoChain, NoStage
<1>5. Recorded
  BY <1>3 DEF Recorded
<1>6. Fitting
  BY <1>2 DEF Fitting, Idle, NoCtx
<1>7. SemaphoresPaired
  BY <1>2 DEF SemaphoresPaired, Idle
<1>8. BusyIsLeftAlone
  BY <1>2 DEF BusyIsLeftAlone, NoFrame, NoStage
<1>9. StagingAccounted
  BY <1>2, <1>3, FS_EmptySet DEF StagingAccounted, OfChain
<1>. QED
  BY <1>1, <1>4, <1>5, <1>6, <1>7, <1>8, <1>9 DEF IInv

LEMMA NextKeeps ==
    ASSUME VkAssumption, IInv, [Next]_vars
    PROVE  IInv'
<1>1. CASE Next
  <2>1. Types' /\ Owned'
    BY <1>1, TypesKept, OwnedKept DEF IInv
  <2>2. Recorded' /\ StagingAccounted'
    BY <1>1, StagedKept DEF IInv
  <2>3. Fitting' /\ SemaphoresPaired'
    BY <1>1, FittingKept, PairedKept DEF IInv
  <2>4. BusyIsLeftAlone => FramesLeftAlone /\ CopiesLeftAlone
    BY DEF BusyIsLeftAlone, FramesLeftAlone, CopiesLeftAlone
  <2>5. Outlasted' /\ FramesLeftAlone' /\ CopiesLeftAlone'
    BY <1>1, <2>4, FramesKept, CopiesKept DEF IInv
  <2>6. BusyIsLeftAlone'
    BY <2>5 DEF BusyIsLeftAlone, FramesLeftAlone, CopiesLeftAlone
  <2>. QED
    BY <2>1, <2>2, <2>3, <2>5, <2>6 DEF IInv
<1>2. CASE UNCHANGED vars
  BY <1>2 DEF vars, shared, capture, overlay, limits, IInv, Types, Owned, Recorded, Outlasted, Fitting,
         GivenUp, Staged, OnDevice, SemaphoresPaired, Redirected, BusyIsLeftAlone, StagingAccounted
<1>. QED
  BY <1>1, <1>2

(* The invariant the other theorems rest on: the records of devices,        *)
(* swapchains, areas and contexts agree in every state the layers reach.    *)
THEOREM LayersHold == Spec => []IInv
<1>1. VkAssumption
  BY VkAssumption
<1>2. Init => IInv
  BY <1>1, InitHolds
<1>3. IInv /\ [Next]_vars => IInv'
  BY <1>1, NextKeeps
<1>. QED
  BY <1>2, <1>3, PTL DEF Spec

(* vklayer.c, vk_capture_win.cpp and overlay_vk.cpp: whatever is copied and *)
(* drawn in between, a present waits for a semaphore that will be signalled *)
(* and leaves none signalled, but for the copy whose submit fails.          *)
THEOREM SemaphoresArePaired == Spec => []SemaphoresPaired
<1>1. IInv => SemaphoresPaired
  BY DEF IInv
<1>. QED
  BY <1>1, LayersHold, PTL

(* overlay_vk.cpp: the overlay draws into framebuffers of the swapchain     *)
(* that is presented and never has any of a swapchain that is gone.         *)
THEOREM FramebuffersAlwaysFit == Spec => []FramebuffersFit
<1>1. VkAssumption
  BY VkAssumption
<1>2. IInv => FramebuffersFit
  BY <1>1, FramebuffersAreFit DEF IInv
<1>. QED
  BY <1>2, LayersHold, PTL

(* overlay_vk.cpp and vk_capture_win.cpp: nothing the GPU still works with  *)
(* is destroyed or used again, as long as one wait at most times out.       *)
THEOREM BusyStaysAlone == Spec => []BusyIsLeftAlone
<1>1. IInv => BusyIsLeftAlone
  BY DEF IInv
<1>. QED
  BY <1>1, LayersHold, PTL

(* vklayer.c and vk_capture_win.cpp: no staging area is lost while captures *)
(* begin, fail and end, unless one is stopped beside another's area.        *)
THEOREM StagingIsAccounted == Spec => []StagingAccounted
<1>1. IInv => StagingAccounted
  BY DEF IInv
<1>. QED
  BY <1>1, LayersHold, PTL
=============================================================================
