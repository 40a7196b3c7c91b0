------------------------- MODULE OverlayHooks_proofs -------------------------
(***************************************************************************)
(* Proofs about the overlay in the game: OverlayHooks, and CaptureChannel  *)
(* at the end.                                                             *)
(*                                                                         *)
(* OverlayHooks: for any number of the game's threads and swapchains, the  *)
(* overlay's objects are used by one thread at a time, it draws into back  *)
(* buffers that exist and holds none when they are replaced, and no        *)
(* backend loses its staging buffer, or keeps it, when it stops a capture. *)
(*                                                                         *)
(* A thread that came after its backend's lock was made holds that lock    *)
(* until it has left; whoever shuts the backend down waits for it.  So     *)
(* what a thread finds when it enters, or makes then, is what it draws     *)
(* into.  A back buffer that was replaced is found only if the resize did  *)
(* not tell the overlay, and that happens to a thread that was turned away *)
(* for good.                                                               *)
(*                                                                         *)
(* CaptureChannel: for any messages no longer than the longest text, cut   *)
(* anywhere, and any number of threads, the overlay knows what the         *)
(* complete messages say, and leaves only a host that is gone or sends     *)
(* what is no message.  What was received and not read, and behind it what *)
(* is still under way, is one queue of whole messages that follows what is *)
(* known; a step moves the line between its halves or takes the first      *)
(* message off.                                                            *)
(***************************************************************************)
EXTENDS OverlayHooks, CaptureChannel, FiniteSetTheorems, SequenceTheorems, TLAPS

Positions == {"idle", "guard", "route", "fit", "draw", "release", "others", "real", "return", "crash"}
Calls == [at : Positions, op : {"present", "resize"}, s : Chains \cup {None},
          in : BOOLEAN, loose : BOOLEAN]
Overlays == [swap : Chains \cup {None}, on : {"none", "now", "old"}, torn : BOOLEAN,
             gone : BOOLEAN, staging : {"none", "used", "left"}]

Types ==
    /\ inst \in {"attach", "queue", "init", "done"}
    /\ un \in {"no", "wait", "d3d12", "detach", "d3d11", "capture", "gone"}
    /\ refs \in Nat /\ unloading \in BOOLEAN /\ capturing \in BOOLEAN /\ late \in BOOLEAN
    /\ buffers \in [Backends -> Nat]
    /\ locks \in [Backends -> Threads \cup {"unready", "free"}]
    /\ ov \in [Backends -> Overlays]
    /\ call \in [Threads -> Calls]

(* The order of installing and unloading. *)
Order ==
    /\ unloading <=> un # "no"
    /\ un # "no" => inst = "done"
    /\ inst = "attach" => locks["d3d11"] = "unready"
    /\ inst \in {"attach", "queue"} => locks["d3d12"] = "unready"

(* Who is counted: those who look whether they may go in, and who have. *)
Counted == {t \in Threads : call[t].at = "guard" \/ call[t].in}

Counts ==
    /\ refs = Cardinality(Counted)
    /\ un \notin {"no", "wait"} => late \/ \A t \in Threads : ~call[t].in

(* A thread uses its own chain, and the backends only once it was let in;   *)
(* a resize goes on without that when the library is being unloaded.        *)
OnItsOwn ==
    \A t \in Threads :
        /\ call[t].at \in {"idle", "guard"} => ~call[t].in
        /\ call[t].at \in {"route", "fit", "draw", "release"} => call[t].in
        /\ call[t].at \in {"release", "others"} => call[t].op = "resize"
        /\ \/ call[t].at \in {"guard", "route", "fit", "draw", "release", "others"}
           \/ call[t].op = "resize" /\ call[t].at = "real"
           => call[t].s \in Chains /\ Owner[call[t].s] = t
        /\ call[t].at \in {"others", "real"} /\ call[t].op = "resize" => call[t].in \/ unloading

(* The locks: a thread in a backend has its lock, unless it came before     *)
(* there was one; then those it shares the backend with have come so too.   *)
Locked ==
    \A t \in Threads : \A b \in Backends : InBody(t, b) =>
        /\ ~call[t].loose => locks[b] = t
        /\ \A u \in Threads \ {t} : InBody(u, b) => call[t].loose /\ call[u].loose

(* The targets.  A resize lets go of those of its chain, first Direct3D     *)
(* 11's, then the other backend's; one that was turned away does not let go *)
(* of the former.                                                           *)
Aware(o, t) == o.on = "old" => o.gone \/ (unloading /\ ~call[t].in)
LetGo(t, b) ==
    /\ call[t].op = "resize" /\ Api[call[t].s] = b
    /\ \/ call[t].at = "others" /\ b = "d3d11" /\ call[t].in
       \/ call[t].at = "real" /\ (b = "d3d12" \/ call[t].in)

Fitting ==
    \A b \in Backends :
        LET o == ov[b] IN
        /\ o.on # "none" => o.swap \in Chains /\ Api[o.swap] = b /\ Aware(o, Owner[o.swap])
        /\ \A t \in Threads :
              /\ call[t].at = "draw" /\ Api[call[t].s] = b /\ ~call[t].loose =>
                    o.swap = call[t].s /\ (o.on = "now" \/ o.gone)
              /\ LetGo(t, b) /\ o.swap = call[t].s => o.on # "now"

IInv == Types /\ Order /\ Counts /\ OnItsOwn /\ Locked /\ Fitting /\ StagingAccounted
-----------------------------------------------------------------------------
(* What the steps do to the call of a thread. *)

LEMMA Moves ==
    ASSUME Types, NEW t \in Threads, NEW step \in Positions, Goes(t, step)
    PROVE  /\ call' \in [Threads -> Calls]
           /\ call'[t].at = step /\ call'[t].op = call[t].op /\ call'[t].s = call[t].s
           /\ call'[t].in = call[t].in /\ call'[t].loose = call[t].loose
           /\ \A u \in Threads \ {t} : call'[u] = call[u]
<1>1. call'[t] = [call[t] EXCEPT !.at = step] /\ call[t] \in Calls
  BY DEF Goes, Types
<1>2. [call[t] EXCEPT !.at = step] \in Calls
  BY <1>1 DEF Calls
<1>3. call' \in [Threads -> Calls] /\ \A u \in Threads \ {t} : call'[u] = call[u]
  BY <1>2 DEF Goes, Types
<1>. QED
  BY <1>1, <1>3 DEF Calls

LEMMA MovesToReal ==
    ASSUME Types, NEW t \in Threads, ToReal(t)
    PROVE  /\ call' \in [Threads -> Calls]
           /\ call'[t].at = "real" /\ call'[t].op = "present" /\ call'[t].in = call[t].in
           /\ \A u \in Threads \ {t} : call'[u] = call[u]
<1>1. call[t].in \in BOOLEAN
  BY DEF Types, Calls
<1>2. [Idle EXCEPT !.at = "real", !.in = call[t].in] \in Calls
  BY <1>1 DEF Calls, Idle, Positions
<1>3. call'[t] = [Idle EXCEPT !.at = "real", !.in = call[t].in]
  BY DEF ToReal, Types
<1>4. call' \in [Threads -> Calls] /\ \A u \in Threads \ {t} : call'[u] = call[u]
  BY <1>2 DEF ToReal, Types
<1>. QED
  BY <1>3, <1>4 DEF Idle

IsCounted(t) == call[t].at = "guard" \/ call[t].in

(* The part of OnItsOwn that is about one thread. *)
Own1(t) ==
    /\ call[t].at \in {"idle", "guard"} => ~call[t].in
    /\ call[t].at \in {"route", "fit", "draw", "release"} => call[t].in
    /\ call[t].at \in {"release", "others"} => call[t].op = "resize"
    /\ \/ call[t].at \in {"guard", "route", "fit", "draw", "release", "others"}
       \/ call[t].op = "resize" /\ call[t].at = "real"
       => call[t].s \in Chains /\ Owner[call[t].s] = t
    /\ call[t].at \in {"others", "real"} /\ call[t].op = "resize" => call[t].in \/ unloading

(* What a step of thread t does to the calls and to their count. *)
StepOf(t) ==
    /\ call' \in [Threads -> Calls]
    /\ \A u \in Threads \ {t} : call'[u] = call[u]
    /\ Own1(t)'
    /\ call'[t].in => call[t].in \/ ~unloading
    /\ \/ refs' = refs /\ (IsCounted(t)' <=> IsCounted(t))
       \/ refs' = refs - 1 /\ IsCounted(t) /\ ~IsCounted(t)'

LEMMA InsideSteps ==
    ASSUME Types, NEW t \in Threads, Own1(t),
           Route(t) \/ Mismatch(t) \/ Fits(t) \/ Fit(t) \/ FitFails(t) \/ Draw(t)
    PROVE  StepOf(t)
<1>1. UNCHANGED <<setup, refs, late>>
  BY DEF Route, Mismatch, Fits, Fit, FitFails, Draw
<1>2. CASE Route(t)
  <2>1. call[t].at = "route" /\ call[t].in /\ call[t] \in Calls
    BY <1>2 DEF Route, Own1, Types
  <2>2. \E b \in BOOLEAN : call' = [call EXCEPT ![t].at = "fit", ![t].loose = b]
    BY <1>2 DEF Route
  <2>3. PICK b \in BOOLEAN : call' = [call EXCEPT ![t].at = "fit", ![t].loose = b]
    BY <2>2
  <2>4. call'[t] = [call[t] EXCEPT !.at = "fit", !.loose = b]
    BY <2>3 DEF Types
  <2>5. [call[t] EXCEPT !.at = "fit", !.loose = b] \in Calls
    BY <2>1 DEF Calls, Positions
  <2>6. call' \in [Threads -> Calls] /\ \A u \in Threads \ {t} : call'[u] = call[u]
    BY <2>3, <2>5 DEF Types
  <2>7. call'[t].at = "fit" /\ call'[t].in = call[t].in /\ call'[t].s = call[t].s /\ call'[t].op = call[t].op
    BY <2>1, <2>4 DEF Calls
  <2>. QED
    BY <1>1, <2>1, <2>6, <2>7 DEF StepOf, Own1, IsCounted
<1>3. CASE Mismatch(t) \/ FitFails(t) \/ (Draw(t) /\ ToReal(t))
  <2>1. call[t].at \in {"fit", "draw"} /\ ToReal(t)
    BY <1>3 DEF Mismatch, FitFails, Draw, LeavesBody
  <2>2. call[t].in
    BY <2>1 DEF Own1
  <2>. QED
    BY <1>1, <2>1, <2>2, MovesToReal DEF StepOf, Own1, IsCounted
<1>4. CASE Fits(t) \/ Fit(t)
  <2>1. call[t].at = "fit" /\ Goes(t, "draw") /\ "draw" \in Positions
    BY <1>4 DEF Fits, Fit, Positions
  <2>. QED
    BY <1>1, <2>1, Moves DEF StepOf, Own1, IsCounted
<1>5. CASE Draw(t) /\ ~ToReal(t)
  <2>1. call[t].at = "draw" /\ Goes(t, "crash") /\ "crash" \in Positions
    BY <1>5 DEF Draw, LeavesBody, Positions
  <2>. QED
    BY <1>1, <2>1, Moves DEF StepOf, Own1, IsCounted
<1>. QED
  BY <1>2, <1>3, <1>4, <1>5

LEMMA OutsideSteps ==
    ASSUME Types, NEW t \in Threads, Own1(t),
           Guard(t) \/ Release(t) \/ Others(t) \/ Real(t) \/ Return(t)
    PROVE  StepOf(t)
<1>0. UNCHANGED <<setup, late>> /\ call[t] \in Calls
  BY DEF Guard, Release, Others, Real, Return, Types
<1>1. CASE Guard(t) /\ unloading
  <2>1. call[t].at = "guard" /\ refs' = refs - 1 /\ ~call[t].in
        /\ IF call[t].op = "present" THEN ToReal(t) ELSE Goes(t, "others")
    BY <1>1 DEF Guard, Own1
  <2>2. CASE call[t].op = "present"
    BY <1>0, <1>1, <2>1, <2>2, MovesToReal DEF StepOf, Own1, IsCounted
  <2>3. CASE call[t].op # "present"
    <3>1. call[t].op = "resize" /\ "others" \in Positions
      BY <1>0, <2>3 DEF Calls, Positions
    <3>. QED
      BY <1>0, <1>1, <2>1, <2>3, <3>1, Moves DEF StepOf, Own1, IsCounted, setup
  <2>. QED
    BY <2>2, <2>3
<1>2. CASE Guard(t) /\ ~unloading
  <2> DEFINE step == IF call[t].op = "present" THEN "route" ELSE "release"
  <2>1. call[t].at = "guard" /\ refs' = refs
        /\ call' = [call EXCEPT ![t].in = TRUE, ![t].at = step]
    BY <1>2 DEF Guard
  <2>2. call'[t] = [call[t] EXCEPT !.in = TRUE, !.at = step]
    BY <2>1 DEF Types
  <2>3. [call[t] EXCEPT !.in = TRUE, !.at = step] \in Calls
    BY <1>0 DEF Calls, Positions
  <2>4. call' \in [Threads -> Calls] /\ \A u \in Threads \ {t} : call'[u] = call[u]
    BY <2>1, <2>3 DEF Types
  <2>5. /\ call'[t].at = step /\ call'[t].in /\ call'[t].s = call[t].s /\ call'[t].op = call[t].op
        /\ call[t].op \in {"present", "resize"}
    BY <1>0, <2>2 DEF Calls
  <2>. QED
    BY <1>2, <2>1, <2>4, <2>5 DEF StepOf, Own1, IsCounted
<1>3. CASE Release(t)
  <2>1. call[t].at = "release" /\ Goes(t, "others") /\ "others" \in Positions /\ refs' = refs
    BY <1>3 DEF Release, Positions
  <2>. QED
    BY <1>0, <2>1, Moves DEF StepOf, Own1, IsCounted, setup
<1>4. CASE Others(t)
  <2>1. call[t].at = "others" /\ Goes(t, "real") /\ "real" \in Positions /\ refs' = refs
    BY <1>4 DEF Others, Positions
  <2>. QED
    BY <1>0, <2>1, Moves DEF StepOf, Own1, IsCounted, setup
<1>5. CASE Real(t)
  <2> DEFINE step == IF hooked THEN "return" ELSE "crash"
             c == [Idle EXCEPT !.at = step, !.in = call[t].in]
  <2>1. call[t].at = "real" /\ call' = [call EXCEPT ![t] = c] /\ refs' = refs
    BY <1>5 DEF Real
  <2>2. c \in Calls /\ c.in = call[t].in /\ c.op = "present" /\ c.at = step
    BY <1>0 DEF Calls, Idle, Positions
  <2> HIDE DEF c
  <2>3. call'[t] = c /\ call' \in [Threads -> Calls] /\ \A u \in Threads \ {t} : call'[u] = call[u]
    BY <2>1, <2>2 DEF Types
  <2>. QED
    BY <2>1, <2>2, <2>3 DEF StepOf, Own1, IsCounted
<1>6. CASE Return(t) /\ un = "gone"
  <2>1. call[t].at = "return" /\ Goes(t, "crash") /\ "crash" \in Positions /\ refs' = refs
    BY <1>6 DEF Return, Positions
  <2>. QED
    BY <2>1, Moves DEF StepOf, Own1, IsCounted
<1>7. CASE Return(t) /\ un # "gone"
  <2>1. /\ call[t].at = "return" /\ call' = [call EXCEPT ![t] = Idle]
        /\ refs' = IF call[t].in THEN refs - 1 ELSE refs
    BY <1>7 DEF Return
  <2>2. Idle \in Calls /\ Idle.at = "idle" /\ ~Idle.in
    BY DEF Idle, Calls, Positions
  <2>3. call'[t] = Idle /\ call' \in [Threads -> Calls] /\ \A u \in Threads \ {t} : call'[u] = call[u]
    BY <2>1, <2>2 DEF Types
  <2>. QED
    BY <2>1, <2>2, <2>3 DEF StepOf, Own1, IsCounted
<1>. QED
  BY <1>1, <1>2, <1>3, <1>4, <1>5, <1>6, <1>7

LEMMA HookSteps ==
    ASSUME Types, OnItsOwn, NEW t \in Threads, Hook(t)
    PROVE  StepOf(t) /\ UNCHANGED <<setup, late>>
<1>1. Own1(t)
  BY DEF OnItsOwn, Own1
<1>2. UNCHANGED <<setup, late>>
  BY DEF Hook, Guard, Route, Mismatch, Fits, Fit, FitFails, Draw, Release, Others, Real, Return
<1>. QED
  BY <1>1, <1>2, InsideSteps, OutsideSteps DEF Hook
-----------------------------------------------------------------------------
(* What the steps do to the targets and to the staging buffers. *)

SameTargets(b) ==
    ov'[b].swap = ov[b].swap /\ ov'[b].on = ov[b].on /\ ov'[b].gone = ov[b].gone

Has(o) == IF o.staging = "none" THEN 0 ELSE 1

(* capture_stop takes nobody's buffer, and no other backend's is in use     *)
(* after it.                                                                *)
LEMMA Stopped ==
    ASSUME NEW own, NEW o \in [Backends -> Overlays], CaptureStop(own, o),
           \A b \in Backends : b \in own => o[b].staging # "used"
    PROVE  /\ ov' \in [Backends -> Overlays] /\ capturing' = FALSE
           /\ \A b \in Backends :
                 /\ ov'[b].swap = o[b].swap /\ ov'[b].on = o[b].on /\ ov'[b].gone = o[b].gone
                 /\ ov'[b].staging # "used" /\ Has(ov'[b]) = Has(o[b])
<1>1. \A b \in Backends : o[b] \in Overlays
  OBVIOUS
<1>2. \A b \in Backends : ov'[b] = IF b \notin own /\ o[b].staging = "used"
                                  THEN [o[b] EXCEPT !.staging = "left"] ELSE o[b]
  BY DEF CaptureStop
<1>3. \A b \in Backends : [o[b] EXCEPT !.staging = "left"] \in Overlays
  BY <1>1 DEF Overlays
<1>4. ov' = [b \in Backends |-> ov'[b]]
  BY DEF CaptureStop
<1>5. ov' \in [Backends -> Overlays]
  BY <1>1, <1>2, <1>3, <1>4
<1>6. \A b \in Backends : /\ ov'[b].swap = o[b].swap /\ ov'[b].on = o[b].on /\ ov'[b].gone = o[b].gone
                          /\ ov'[b].staging # "used" /\ Has(ov'[b]) = Has(o[b])
  BY <1>1, <1>2 DEF Overlays, Has
<1>. QED
  BY <1>5, <1>6 DEF CaptureStop

LEMMA BareTypes ==
    ASSUME NEW o \in Overlays
    PROVE  /\ Bare(o) \in Overlays /\ Bare(o).swap = o.swap /\ Bare(o).on = "none" /\ Bare(o).gone = o.gone
           /\ \A torn \in BOOLEAN :
                LET n == [Bare(o) EXCEPT !.on = "now", !.torn = torn] IN
                n \in Overlays /\ n.swap = o.swap /\ n.on = "now" /\ n.gone = o.gone
           /\ LET n == [Bare(o) EXCEPT !.on = "now"] IN
              n \in Overlays /\ n.swap = o.swap /\ n.on = "now" /\ n.gone = o.gone
  BY DEF Bare, Overlays

(* What a backend finds, or begins with. *)
LEMMA PlacedTypes ==
    ASSUME Types, NEW s \in Chains, Api[s] \in Backends
    PROVE  Placed(s) \in Overlays /\ Placed(s).swap = s
<1>1. ov[Api[s]] \in Overlays
  BY DEF Types
<1>. QED
  BY <1>1 DEF Placed, NoOverlay, Overlays

Healthy ==
    /\ ov' \in [Backends -> Overlays] /\ capturing' \in BOOLEAN /\ buffers' \in [Backends -> Nat]
    /\ StagingAccounted'

(* Who stops the capture without a buffer in use accounts for the buffers   *)
(* by counting those of its own that it released, or wrote over.            *)
LEMMA StopWith ==
    ASSUME Types, StagingAccounted, NEW b \in Backends, NEW n \in Overlays, n.staging # "used",
           CaptureStop({b}, [ov EXCEPT ![b] = n]),
           buffers' = [buffers EXCEPT ![b] = Has(n)]
    PROVE  /\ Healthy /\ capturing' = FALSE
           /\ ov'[b].swap = n.swap /\ ov'[b].on = n.on /\ ov'[b].gone = n.gone
           /\ \A c \in Backends \ {b} : SameTargets(c)
<1> DEFINE o == [ov EXCEPT ![b] = n]
<1>1. o \in [Backends -> Overlays] /\ o[b] = n /\ \A c \in Backends \ {b} : o[c] = ov[c]
  BY DEF Types
<1> HIDE DEF o
<1>2. CaptureStop({b}, o) /\ \A c \in Backends : c \in {b} => o[c].staging # "used"
  BY <1>1 DEF o
<1>3. /\ ov' \in [Backends -> Overlays] /\ capturing' = FALSE
      /\ \A c \in Backends :
            /\ ov'[c].swap = o[c].swap /\ ov'[c].on = o[c].on /\ ov'[c].gone = o[c].gone
            /\ ov'[c].staging # "used" /\ Has(ov'[c]) = Has(o[c])
  BY <1>1, <1>2, Stopped
<1>4. \A c \in Backends : buffers'[c] = IF c = b THEN Has(n) ELSE buffers[c]
  BY DEF Types
<1>5. \A c \in Backends : buffers'[c] = Has(ov'[c])
  BY <1>1, <1>3, <1>4 DEF StagingAccounted, Has
<1>6. buffers' \in [Backends -> Nat]
  BY DEF Types, Has
<1>. QED
  BY <1>1, <1>3, <1>5, <1>6 DEF SameTargets, Healthy, StagingAccounted, Has

(* A backend releases its buffer and stops the capture. *)
LEMMA EndsTargets ==
    ASSUME Types, StagingAccounted, NEW b \in Backends, NEW n \in Overlays, Ends(b, n)
    PROVE  /\ Healthy /\ capturing' = FALSE
           /\ ov'[b].swap = n.swap /\ ov'[b].on = n.on /\ ov'[b].gone = n.gone
           /\ \A c \in Backends \ {b} : SameTargets(c)
<1> DEFINE m == [n EXCEPT !.staging = "none"]
<1>1. m \in Overlays /\ m.staging = "none" /\ m.swap = n.swap /\ m.on = n.on /\ m.gone = n.gone
  BY DEF Overlays
<1>2. CaptureStop({b}, [ov EXCEPT ![b] = m])
  BY DEF Ends
<1> HIDE DEF m
<1>3. buffers' = [buffers EXCEPT ![b] = Has(m)]
  <2>1. (IF ov[b].staging = "none" THEN buffers[b] ELSE buffers[b] - 1) = Has(m)
    BY <1>1 DEF Has, StagingAccounted
  <2>. QED
    BY <2>1 DEF Ends
<1>. QED
  BY <1>1, <1>2, <1>3, StopWith

LEMMA FreesTargets ==
    ASSUME Types, StagingAccounted, NEW b \in Backends, Frees(b)
    PROVE  /\ Healthy /\ capturing' = FALSE
           /\ ov'[b].on = "none" /\ ov'[b].swap = ov[b].swap
           /\ \A c \in Backends \ {b} : SameTargets(c)
<1>1. ov[b] \in Overlays
  BY DEF Types
<1>2. Bare(ov[b]) \in Overlays /\ Bare(ov[b]).on = "none" /\ Bare(ov[b]).swap = ov[b].swap
  BY <1>1, BareTypes
<1>3. Ends(b, Bare(ov[b]))
  BY DEF Frees, Releases
<1>. QED
  BY <1>2, <1>3, EndsTargets

(* What a thread in a backend makes of the backend's targets: they are of   *)
(* its own chain, or there are none.                                        *)
Makes(t) ==
    LET b == Api[call[t].s] IN
    /\ call[t].at = "fit"
    /\ ov'[b].on \in {"none", "now"}
    /\ ov'[b].on = "now" => ov'[b].swap = call[t].s
    /\ \A c \in Backends \ {b} : SameTargets(c)

LEMMA FitTargets ==
    ASSUME Types, StagingAccounted, NEW t \in Threads, call[t].s \in Chains, Fit(t)
    PROVE  Healthy /\ Makes(t) /\ ov'[Api[call[t].s]].on = "now"
<1> DEFINE s == call[t].s
           b == Api[s]
           n == [Bare(Placed(s)) EXCEPT !.on = "now"]
<1>1. b \in Backends /\ s \in Chains
  BY HooksAssumption
<1>2. n \in Overlays /\ n.swap = s /\ n.on = "now"
  BY <1>1, PlacedTypes, BareTypes
<1>3. Ends(b, n) /\ call[t].at = "fit"
  BY DEF Fit
<1>4. Healthy /\ ov'[b].swap = n.swap /\ ov'[b].on = n.on /\ \A c \in Backends \ {b} : SameTargets(c)
  <2> HIDE DEF n, b
  <2>. QED
    BY <1>1, <1>2, <1>3, EndsTargets
<1>. QED
  BY <1>2, <1>3, <1>4 DEF Makes

LEMMA FitFailsTargets ==
    ASSUME Types, StagingAccounted, NEW t \in Threads, call[t].s \in Chains, FitFails(t)
    PROVE  Healthy /\ (Makes(t) \/ \A c \in Backends : SameTargets(c))
<1> DEFINE s == call[t].s
           b == Api[s]
           n == [Bare(Placed(s)) EXCEPT !.on = "now", !.torn = TRUE]
<1>1. b \in Backends /\ s \in Chains /\ call[t].at = "fit"
  BY HooksAssumption DEF FitFails
<1>2. /\ n \in Overlays /\ n.swap = s /\ n.on = "now"
      /\ Bare(Placed(s)) \in Overlays /\ Bare(Placed(s)).on = "none"
      /\ NoOverlay \in Overlays /\ NoOverlay.on = "none"
  <2>1. Placed(s) \in Overlays /\ Placed(s).swap = s
    BY <1>1, PlacedTypes
  <2>2. NoOverlay \in Overlays /\ NoOverlay.on = "none"
    BY DEF NoOverlay, Overlays
  <2>. QED
    BY <2>1, <2>2, BareTypes
<1>3. CASE UNCHANGED <<ov, staged>>
  BY <1>3 DEF Types, Healthy, StagingAccounted, SameTargets, staged
<1>4. CASE \E m \in {NoOverlay, n, Bare(Placed(s))} : Ends(b, m)
  <2>1. PICK m \in {NoOverlay, n, Bare(Placed(s))} : Ends(b, m)
    BY <1>4
  <2>2. m \in Overlays /\ (m.on = "none" \/ (m.on = "now" /\ m.swap = s))
    BY <1>2, <2>1
  <2>3. Healthy /\ ov'[b].swap = m.swap /\ ov'[b].on = m.on /\ \A c \in Backends \ {b} : SameTargets(c)
    <3> HIDE DEF n, b
    <3>. QED
      BY <1>1, <2>1, <2>2, EndsTargets
  <2>. QED
    BY <1>1, <2>2, <2>3 DEF Makes
<1>5. UNCHANGED <<ov, staged>> \/ \E m \in {NoOverlay, n, Bare(Placed(s))} : Ends(b, m)
  <2>1. \/ UNCHANGED <<ov, staged>>
        \/ Ends(b, NoOverlay)
        \/ Releases(b, Placed(s))
        \/ Ends(b, n)
    BY DEF FitFails
  <2>. QED
    BY <2>1 DEF Releases
<1>. QED
  BY <1>3, <1>4, <1>5

(* A capture begins: the buffer made is the only one of the backend that is *)
(* counted, as one that stood there had been left.                          *)
LEMMA BeginsTargets ==
    ASSUME Types, StagingAccounted, NEW b \in Backends, ~capturing, Begins(b)
    PROVE  Healthy /\ \A c \in Backends : SameTargets(c)
<1> DEFINE m == [ov[b] EXCEPT !.staging = "used"]
<1>1. ov[b] \in Overlays /\ ov[b].staging # "used" /\ buffers[b] = Has(ov[b])
  BY DEF Types, StagingAccounted, Has
<1>2. m \in Overlays /\ m.swap = ov[b].swap /\ m.on = ov[b].on /\ m.gone = ov[b].gone /\ m.staging = "used"
  BY <1>1 DEF Overlays
<1>3. capturing' = TRUE /\ ov' = [ov EXCEPT ![b] = m]
  BY DEF Begins
<1> HIDE DEF m
<1>4. buffers' = [buffers EXCEPT ![b] = 1]
  <2>1. buffers[b] + 1 - Forgets(b) = 1
    BY <1>1 DEF Forgets, Has, Overlays
  <2>. QED
    BY <2>1 DEF Begins
<1>. QED
  BY <1>2, <1>3, <1>4 DEF Types, Healthy, SameTargets, StagingAccounted

(* A capture does not begin: the pointer is as it was, of a buffer that was *)
(* left or of none, or it is null.                                          *)
LEMMA BeginFailsTargets ==
    ASSUME Types, StagingAccounted, NEW b \in Backends, ~capturing, BeginFails(b)
    PROVE  Healthy /\ \A c \in Backends : SameTargets(c)
<1> DEFINE n == [ov[b] EXCEPT !.staging = "none"]
<1>1. ov[b] \in Overlays /\ ov[b].staging # "used" /\ buffers[b] = Has(ov[b])
  BY DEF Types, StagingAccounted, Has
<1>2. n \in Overlays /\ n.swap = ov[b].swap /\ n.on = ov[b].on /\ n.gone = ov[b].gone /\ n.staging = "none"
  BY <1>1 DEF Overlays
<1>3. \/ /\ CaptureStop({b}, [ov EXCEPT ![b] = ov[b]])
         /\ buffers' = [buffers EXCEPT ![b] = Has(ov[b])]
      \/ CaptureStop({b}, [ov EXCEPT ![b] = n]) /\ buffers' = [buffers EXCEPT ![b] = Has(n)]
  <2>1. CASE CaptureStop({b}, ov) /\ UNCHANGED buffers
    <3>1. [ov EXCEPT ![b] = ov[b]] = ov /\ [buffers EXCEPT ![b] = buffers[b]] = buffers
      BY DEF Types
    <3>. QED
      BY <1>1, <2>1, <3>1
  <2>2. CASE CaptureStop({b}, [ov EXCEPT ![b] = n]) /\ buffers' = [buffers EXCEPT ![b] = @ - Forgets(b)]
    <3>1. buffers[b] - Forgets(b) = 0 /\ Has(n) = 0
      BY <1>1, <1>2 DEF Forgets, Has, Overlays
    <3>. QED
      BY <2>2, <3>1
  <2>. QED
    BY <2>1, <2>2 DEF BeginFails
<1> HIDE DEF n
<1>4. CASE CaptureStop({b}, [ov EXCEPT ![b] = ov[b]]) /\ buffers' = [buffers EXCEPT ![b] = Has(ov[b])]
  <2>1. PICK o : o = ov[b]
    OBVIOUS
  <2>2. /\ o \in Overlays /\ o.staging # "used"
        /\ CaptureStop({b}, [ov EXCEPT ![b] = o]) /\ buffers' = [buffers EXCEPT ![b] = Has(o)]
    BY <1>1, <1>4, <2>1
  <2>3. /\ Healthy /\ ov'[b].swap = o.swap /\ ov'[b].on = o.on /\ ov'[b].gone = o.gone
        /\ \A c \in Backends \ {b} : SameTargets(c)
    BY <2>2, StopWith
  <2>. QED
    BY <2>1, <2>3 DEF SameTargets
<1>5. CASE CaptureStop({b}, [ov EXCEPT ![b] = n]) /\ buffers' = [buffers EXCEPT ![b] = Has(n)]
  BY <1>2, <1>5, StopWith DEF SameTargets
<1>. QED
  BY <1>3, <1>4, <1>5

LEMMA DrawTargets ==
    ASSUME Types, StagingAccounted, NEW t \in Threads, call[t].s \in Chains, Draw(t)
    PROVE  Healthy /\ \A c \in Backends : SameTargets(c)
<1> DEFINE b == Api[call[t].s]
<1>1. b \in Backends /\ ov[b] \in Overlays
  BY HooksAssumption DEF Types
<1>2. \/ Ends(b, ov[b])
      \/ ~capturing /\ Begins(b)
      \/ ~capturing /\ BeginFails(b)
      \/ UNCHANGED <<ov, staged>>
  BY DEF Draw
<1> HIDE DEF b
<1>3. CASE Ends(b, ov[b])
  BY <1>1, <1>3, EndsTargets DEF SameTargets
<1>4. CASE UNCHANGED <<ov, staged>>
  BY <1>4 DEF Types, Healthy, SameTargets, StagingAccounted, staged
<1>. QED
  BY <1>1, <1>2, <1>3, <1>4, BeginsTargets, BeginFailsTargets

(* The back buffers of a chain are replaced, or the chain is. *)
LEMMA AgesTargets ==
    ASSUME Types, StagingAccounted, NEW s, NEW gone \in BOOLEAN, Ages(s, gone), UNCHANGED staged
    PROVE  /\ Healthy
           /\ \A b \in Backends : ov'[b].swap = ov[b].swap
           /\ \A b \in Backends : ov[b].swap # s => SameTargets(b)
           /\ \A b \in Backends : ov[b].swap = s =>
                 /\ ov'[b].gone = (ov[b].gone \/ gone)
                 /\ ov'[b].on = IF ov[b].on = "now" THEN "old" ELSE ov[b].on
<1> DEFINE n(b) == [ov[b] EXCEPT !.on = IF @ = "now" THEN "old" ELSE @, !.gone = @ \/ gone]
<1>1. \A b \in Backends : ov[b] \in Overlays
  BY DEF Types
<1>2. \A b \in Backends : /\ n(b) \in Overlays /\ n(b).swap = ov[b].swap /\ n(b).gone = (ov[b].gone \/ gone)
                          /\ n(b).on = IF ov[b].on = "now" THEN "old" ELSE ov[b].on
                          /\ n(b).staging = ov[b].staging
  BY <1>1 DEF Overlays
<1>3. ov' = [b \in Backends |-> IF ov[b].swap # s THEN ov[b] ELSE n(b)]
  BY DEF Ages
<1> HIDE DEF n
<1>4. ov' \in [Backends -> Overlays]
  BY <1>1, <1>2, <1>3
<1>5. \A b \in Backends : ov'[b] = IF ov[b].swap # s THEN ov[b] ELSE n(b)
  BY <1>3
<1>. QED
  BY <1>2, <1>4, <1>5 DEF Healthy, StagingAccounted, SameTargets, Types, staged
-----------------------------------------------------------------------------
(* The locks. *)

LEMMA StaysLocked ==
    ASSUME Locked, NEW t,
           \A u \in Threads \ {t} : call'[u] = call[u],
           \A b \in Backends : InBody(t, b)' => InBody(t, b) /\ call'[t].loose = call[t].loose,
           \A v \in Threads, b \in Backends : locks[b] = v /\ InBody(v, b)' => locks'[b] = v
    PROVE  Locked'
<1>1. \A v \in Threads, b \in Backends : InBody(v, b)' => InBody(v, b) /\ call'[v].loose = call[v].loose
  BY DEF InBody
<1>. QED
  BY <1>1 DEF Locked

LEMMA RouteLocked ==
    ASSUME Types, Locked, NEW t \in Threads, call[t].s \in Chains, Route(t)
    PROVE  Locked'
<1> DEFINE b == Api[call[t].s]
           bare == locks[b] = "unready" \/ \E u \in Threads : InBody(u, b) /\ call[u].loose
<1>1. /\ call[t].at = "route" /\ Enters(t, b) /\ b \in Backends
      /\ call' = [call EXCEPT ![t].at = "fit", ![t].loose = bare]
  BY HooksAssumption DEF Route
<1>2. /\ call'[t].loose = bare /\ call'[t].s = call[t].s /\ call'[t].at = "fit"
      /\ \A u \in Threads \ {t} : call'[u] = call[u]
  <2>1. call[t] \in Calls
    BY DEF Types
  <2> HIDE DEF bare
  <2>2. call'[t] = [call[t] EXCEPT !.at = "fit", !.loose = bare]
    BY <1>1 DEF Types
  <2>3. \A u \in Threads \ {t} : call'[u] = call[u]
    BY <1>1 DEF Types
  <2>. QED
    BY <2>1, <2>2, <2>3 DEF Calls
<1>3. \A v \in Threads : v # "unready" /\ v # "free"
  BY HooksAssumption
<1>4. /\ \A c \in Backends \ {b} : locks'[c] = locks[c]
      /\ \/ locks[b] = "unready" /\ locks'[b] = locks[b]
         \/ locks[b] = "free" /\ locks'[b] = t
  BY <1>1 DEF Enters, Types
<1>5. \A u \in Threads : ~InBody(u, b) \/ call[u].loose
  BY <1>1, <1>3, <1>4 DEF Locked
<1>6. \A u \in Threads \ {t} : \A c \in Backends : InBody(u, c)' <=> InBody(u, c)
  BY <1>2 DEF InBody
<1>7. \A c \in Backends : InBody(t, c)' <=> c = b
  BY <1>1, <1>2 DEF InBody
<1>8. ~bare => locks'[b] = t
  BY <1>4
<1>9. (\E u \in Threads \ {t} : InBody(u, b)) => bare
  BY <1>5
<1>10. \A v \in Threads \ {t}, c \in Backends : InBody(v, c)' /\ ~call'[v].loose => locks'[c] = v
  <2>1. \A v \in Threads \ {t}, c \in Backends : InBody(v, c)' /\ ~call'[v].loose => c # b /\ locks[c] = v
    BY <1>2, <1>5, <1>6 DEF Locked
  <2>. QED
    BY <1>4, <2>1
<1> HIDE DEF bare, b
<1>11. ASSUME NEW v \in Threads, NEW c \in Backends, InBody(v, c)', ~call'[v].loose
      PROVE  locks'[c] = v
  BY <1>2, <1>7, <1>8, <1>10, <1>11
<1>12. ASSUME NEW v \in Threads, NEW u \in Threads \ {v}, NEW c \in Backends, InBody(v, c)', InBody(u, c)'
       PROVE  call'[v].loose /\ call'[u].loose
  <2>1. CASE v # t /\ u # t
    BY <1>2, <1>6, <1>12, <2>1 DEF Locked
  <2>2. CASE v = t
    BY <1>2, <1>5, <1>6, <1>7, <1>9, <1>12, <2>2
  <2>3. CASE u = t
    BY <1>2, <1>5, <1>6, <1>7, <1>9, <1>12, <2>3
  <2>. QED
    BY <2>1, <2>2, <2>3
<1>. QED
  BY <1>11, <1>12 DEF Locked

LEMMA HookLocked ==
    ASSUME Types, OnItsOwn, Locked, NEW t \in Threads, Hook(t)
    PROVE  Locked'
<1>1. CASE Route(t)
  BY <1>1, RouteLocked DEF OnItsOwn, Route
<1>2. CASE Guard(t) \/ Release(t) \/ Others(t) \/ Real(t) \/ Return(t)
  <2>1. UNCHANGED locks /\ \A u \in Threads \ {t} : call'[u] = call[u]
    BY <1>2, HookSteps DEF Guard, Release, Others, Real, Return, StepOf
  <2>2. call'[t].at \notin {"fit", "draw"}
    <3>1. \A step \in {"others", "real", "crash"} : Goes(t, step) => call'[t].at \notin {"fit", "draw"}
      BY Moves DEF Positions
    <3>2. ToReal(t) => call'[t].at \notin {"fit", "draw"}
      BY MovesToReal
    <3>3. CASE Guard(t)
      BY <3>1, <3>2, <3>3 DEF Guard, Types, Calls
    <3>4. CASE Release(t) \/ Others(t)
      BY <3>1, <3>4 DEF Release, Others
    <3>5. CASE Real(t)
      <4> DEFINE step == IF hooked THEN "return" ELSE "crash"
                 c == [Idle EXCEPT !.at = step, !.in = call[t].in]
      <4>1. call' = [call EXCEPT ![t] = c] /\ c.at = step
        BY <3>5 DEF Real, Idle
      <4> HIDE DEF c
      <4>2. call'[t] = c
        BY <4>1 DEF Types
      <4>. QED
        BY <4>1, <4>2
    <3>6. CASE Return(t)
      <4>1. Goes(t, "crash") \/ call' = [call EXCEPT ![t] = Idle]
        BY <3>6 DEF Return
      <4>. QED
        BY <3>1, <4>1 DEF Types, Idle
    <3>. QED
      BY <1>2, <3>3, <3>4, <3>5, <3>6
  <2>. QED
    BY <2>1, <2>2, StaysLocked DEF InBody
<1>3. CASE Fits(t) \/ Fit(t)
  <2>1. UNCHANGED locks /\ Goes(t, "draw") /\ call[t].at = "fit" /\ "draw" \in Positions
    BY <1>3 DEF Fits, Fit, Positions
  <2>2. call'[t].s = call[t].s /\ call'[t].loose = call[t].loose /\ \A u \in Threads \ {t} : call'[u] = call[u]
    BY <2>1, Moves
  <2>. QED
    BY <2>1, <2>2, StaysLocked DEF InBody
<1>4. CASE (Mismatch(t) \/ FitFails(t) \/ Draw(t)) /\ LeavesBody(t)
  <2>1. call'[t].at = "real" /\ \A u \in Threads \ {t} : call'[u] = call[u]
    BY <1>4, MovesToReal DEF LeavesBody
  <2>2. \A v \in Threads \ {t}, b \in Backends : locks[b] = v => locks'[b] = v
    BY <1>4 DEF LeavesBody, Leaves, Types
  <2>. QED
    BY <2>1, <2>2, StaysLocked DEF InBody
<1>5. CASE Draw(t) /\ ~LeavesBody(t)
  <2>1. UNCHANGED locks /\ Goes(t, "crash") /\ "crash" \in Positions
    BY <1>5 DEF Draw, Positions
  <2>2. call'[t].at = "crash" /\ \A u \in Threads \ {t} : call'[u] = call[u]
    BY <2>1, Moves
  <2>. QED
    BY <2>1, <2>2, StaysLocked DEF InBody
<1>. QED
  BY <1>1, <1>2, <1>3, <1>4, <1>5 DEF Hook, Mismatch, FitFails
-----------------------------------------------------------------------------
(* The targets. *)

LEMMA OwnChain ==
    ASSUME OnItsOwn, NEW t \in Threads,
           call[t].at \in {"fit", "draw"} \/ \E b \in Backends : LetGo(t, b)
    PROVE  call[t].s \in Chains /\ Owner[call[t].s] = t
  BY DEF OnItsOwn, LetGo

(* A step of one thread that leaves the targets what they are. *)
LEMMA FittingKept ==
    ASSUME Types, Fitting, NEW t, \A u \in Threads \ {t} : call'[u] = call[u],
           \A b \in Backends : SameTargets(b),
           unloading => unloading', t \in Threads /\ call'[t].in => call[t].in \/ ~unloading,
           \A b \in Backends :
               t \in Threads =>
               /\ call'[t].at = "draw" /\ Api[call'[t].s] = b /\ ~call'[t].loose =>
                     ov[b].swap = call'[t].s /\ (ov[b].on = "now" \/ ov[b].gone)
               /\ LetGo(t, b)' /\ ov[b].swap = call'[t].s => ov[b].on # "now"
    PROVE  Fitting'
<1>1. ASSUME NEW b \in Backends, ov'[b].on # "none"
      PROVE  ov'[b].swap \in Chains /\ Api[ov'[b].swap] = b /\ Aware(ov[b], Owner[ov[b].swap])'
  <2>1. /\ ov[b].swap \in Chains /\ Api[ov[b].swap] = b /\ Aware(ov[b], Owner[ov[b].swap])
        /\ Owner[ov[b].swap] \in Threads
    BY <1>1, HooksAssumption DEF Fitting, SameTargets
  <2>. QED
    BY <2>1 DEF SameTargets, Aware
<1>2. ASSUME NEW b \in Backends, NEW u \in Threads
      PROVE  /\ call'[u].at = "draw" /\ Api[call'[u].s] = b /\ ~call'[u].loose =>
                   ov'[b].swap = call'[u].s /\ (ov'[b].on = "now" \/ ov'[b].gone)
             /\ LetGo(u, b)' /\ ov'[b].swap = call'[u].s => ov'[b].on # "now"
  <2>1. CASE u = t
    BY <2>1 DEF SameTargets
  <2>2. CASE u # t
    BY <2>2 DEF SameTargets, Fitting, LetGo
  <2>. QED
    BY <2>1, <2>2
<1>. QED
  BY <1>1, <1>2 DEF Fitting

(* A step that lets one backend go of its targets, by one who has the lock. *)
LEMMA FittingFreed ==
    ASSUME Types, Locked, Fitting, NEW b \in Backends, NEW t,
           \A u \in Threads \ {t} : call'[u] = call[u],
           ov'[b].on = "none", \A c \in Backends \ {b} : SameTargets(c),
           \A u \in Threads \ {t} : locks[b] # u,
           unloading => unloading', t \in Threads /\ call'[t].in => call[t].in \/ ~unloading,
           t \in Threads =>
               /\ call'[t].at # "draw"
               /\ \A c \in Backends \ {b} :
                     LetGo(t, c)' /\ ov[c].swap = call'[t].s => ov[c].on # "now"
    PROVE  Fitting'
<1>1. ASSUME NEW c \in Backends, ov'[c].on # "none"
      PROVE  ov'[c].swap \in Chains /\ Api[ov'[c].swap] = c /\ Aware(ov[c], Owner[ov[c].swap])'
  <2>1. c # b /\ SameTargets(c)
    BY <1>1
  <2>2. /\ ov[c].swap \in Chains /\ Api[ov[c].swap] = c /\ Aware(ov[c], Owner[ov[c].swap])
        /\ Owner[ov[c].swap] \in Threads
    BY <1>1, <2>1, HooksAssumption DEF Fitting, SameTargets
  <2>. QED
    BY <2>1, <2>2 DEF SameTargets, Aware
<1>2. ASSUME NEW c \in Backends, NEW u \in Threads
      PROVE  /\ call'[u].at = "draw" /\ Api[call'[u].s] = c /\ ~call'[u].loose =>
                   ov'[c].swap = call'[u].s /\ (ov'[c].on = "now" \/ ov'[c].gone)
             /\ LetGo(u, c)' /\ ov'[c].swap = call'[u].s => ov'[c].on # "now"
  <2>1. CASE u = t
    BY <2>1 DEF SameTargets
  <2>2. CASE u # t /\ c = b
    <3>1. ~(call[u].at = "draw" /\ Api[call[u].s] = b /\ ~call[u].loose)
      BY <2>2 DEF Locked, InBody
    <3>. QED
      BY <2>2, <3>1
  <2>3. CASE u # t /\ c # b
    BY <2>3 DEF SameTargets, Fitting, LetGo
  <2>. QED
    BY <2>1, <2>2, <2>3
<1>. QED
  BY <1>1, <1>2 DEF Fitting

(* A thread that makes targets is alone in its backend, or loose with all   *)
(* that are in it; and no chain of another thread gets any.                 *)
LEMMA FittingMade ==
    ASSUME Types, OnItsOwn, Locked, Fitting, NEW t \in Threads, Makes(t), StepOf(t),
           UNCHANGED unloading,
           \/ call'[t].at = "draw" /\ call'[t].s = call[t].s /\ ov'[Api[call[t].s]].on = "now"
           \/ call'[t].at = "real" /\ call'[t].op = "present"
    PROVE  Fitting'
<1> DEFINE s == call[t].s
           b == Api[s]
<1>1. /\ s \in Chains /\ Owner[s] = t /\ b \in Backends /\ call[t].at = "fit"
      /\ ov'[b].on \in {"none", "now"} /\ (ov'[b].on = "now" => ov'[b].swap = s)
      /\ \A c \in Backends \ {b} : SameTargets(c)
      /\ \A u \in Threads \ {t} : call'[u] = call[u]
      /\ call'[t].in => call[t].in \/ ~unloading
      /\ \A c \in Backends : ~LetGo(t, c)'
  BY HooksAssumption DEF OnItsOwn, Makes, StepOf, LetGo
<1>2. call'[t].at = "draw" => call'[t].s = s /\ ov'[b].on = "now"
  OBVIOUS
<1> HIDE DEF b, s
<1>3. ASSUME NEW c \in Backends, ov'[c].on # "none"
      PROVE  ov'[c].swap \in Chains /\ Api[ov'[c].swap] = c /\ Aware(ov[c], Owner[ov[c].swap])'
  <2>1. CASE c = b
    BY <1>1, <1>3, <2>1 DEF b, Aware
  <2>2. CASE c # b
    <3>1. /\ ov[c].swap \in Chains /\ Api[ov[c].swap] = c /\ Aware(ov[c], Owner[ov[c].swap])
          /\ Owner[ov[c].swap] \in Threads /\ SameTargets(c)
      BY <1>1, <1>3, <2>2, HooksAssumption DEF Fitting, SameTargets
    <3>. QED
      BY <1>1, <3>1 DEF SameTargets, Aware
  <2>. QED
    BY <2>1, <2>2
<1>4. ASSUME NEW c \in Backends, NEW u \in Threads
      PROVE  /\ call'[u].at = "draw" /\ Api[call'[u].s] = c /\ ~call'[u].loose =>
                   ov'[c].swap = call'[u].s /\ (ov'[c].on = "now" \/ ov'[c].gone)
             /\ LetGo(u, c)' /\ ov'[c].swap = call'[u].s => ov'[c].on # "now"
  <2>1. CASE u = t
    BY <1>1, <1>2, <2>1 DEF b
  <2>2. CASE u # t /\ c = b
    <3>1. ~(call[u].at = "draw" /\ Api[call[u].s] = b /\ ~call[u].loose)
      BY <1>1, <2>2 DEF Locked, InBody, b, s
    <3>2. LetGo(u, b) => call[u].s # s
      BY <1>1, <2>2, OwnChain
    <3>3. LetGo(u, c)' <=> LetGo(u, c)
      BY <1>1, <2>2 DEF LetGo
    <3>. QED
      BY <1>1, <2>2, <3>1, <3>2, <3>3
  <2>3. CASE u # t /\ c # b
    BY <1>1, <2>3 DEF SameTargets, Fitting, LetGo
  <2>. QED
    BY <2>1, <2>2, <2>3
<1>. QED
  BY <1>3, <1>4 DEF Fitting
(* The back buffers of a chain are replaced: nobody draws into them, and    *)
(* the overlay has let go of them unless the resize was turned away.        *)
LEMMA ResizeFits ==
    ASSUME Types, OnItsOwn, Fitting, StagingAccounted, NEW t \in Threads,
           call[t].at = "real", call[t].op = "resize", Ages(call[t].s, FALSE),
           UNCHANGED <<staged, unloading>>, StepOf(t),
           call'[t].at \notin {"draw", "others", "real"}
    PROVE  Healthy /\ Fitting'
<1> DEFINE s == call[t].s
<1>1. s \in Chains /\ Owner[s] = t /\ (call[t].in \/ unloading)
  BY DEF OnItsOwn
<1>2. /\ Healthy
      /\ \A b \in Backends : ov'[b].swap = ov[b].swap
      /\ \A b \in Backends : ov[b].swap # s => SameTargets(b)
      /\ \A b \in Backends : ov[b].swap = s =>
            ov'[b].gone = ov[b].gone /\ ov'[b].on = IF ov[b].on = "now" THEN "old" ELSE ov[b].on
  <2>1. \A b \in Backends : ov[b].gone \in BOOLEAN
    BY DEF Types, Overlays
  <2>. QED
    BY ZenonT(60), <2>1, AgesTargets
<1>3. /\ \A u \in Threads \ {t} : call'[u] = call[u]
      /\ call'[t].in => call[t].in \/ ~unloading
  BY DEF StepOf
<1> HIDE DEF s
<1>4. ASSUME NEW b \in Backends, ov'[b].on # "none"
      PROVE  ov'[b].swap \in Chains /\ Api[ov'[b].swap] = b /\ Aware(ov[b], Owner[ov[b].swap])'
  <2>1. ov[b].on # "none" /\ ov'[b].swap = ov[b].swap
    BY <1>2, <1>4 DEF SameTargets
  <2>2. /\ ov[b].swap \in Chains /\ Api[ov[b].swap] = b /\ Aware(ov[b], Owner[ov[b].swap])
        /\ Owner[ov[b].swap] \in Threads
    BY <2>1, HooksAssumption DEF Fitting
  <2>3. CASE ov[b].swap # s \/ ov[b].on # "now"
    <3>1. ov'[b].on = ov[b].on /\ ov'[b].gone = ov[b].gone
      BY <1>2, <2>3 DEF SameTargets
    <3>. QED
      BY <1>3, <2>1, <2>2, <3>1 DEF Aware
  <2>4. CASE ov[b].swap = s /\ ov[b].on = "now"
    <3>1. ~LetGo(t, b)
      BY <2>4 DEF Fitting, s
    <3>2. ~call[t].in
      BY <2>2, <2>4, <3>1 DEF LetGo, s, Backends
    <3>. QED
      BY <1>1, <1>3, <2>1, <2>2, <2>4, <3>2 DEF Aware
  <2>. QED
    BY <2>3, <2>4
<1>5. ASSUME NEW c \in Backends, NEW u \in Threads
      PROVE  /\ call'[u].at = "draw" /\ Api[call'[u].s] = c /\ ~call'[u].loose =>
                   ov'[c].swap = call'[u].s /\ (ov'[c].on = "now" \/ ov'[c].gone)
             /\ LetGo(u, c)' /\ ov'[c].swap = call'[u].s => ov'[c].on # "now"
  <2>1. CASE u = t
    BY <2>1 DEF LetGo
  <2>2. CASE u # t
    <3>1. call'[u] = call[u] /\ (LetGo(u, c)' <=> LetGo(u, c))
      BY <1>3, <2>2 DEF LetGo
    <3>2. call[u].at = "draw" \/ LetGo(u, c) => call[u].s # s
      BY <1>1, <2>2, OwnChain
    <3>3. CASE ov[c].swap # s
      BY <1>2, <3>1, <3>3 DEF SameTargets, Fitting
    <3>4. CASE ov[c].swap = s
      BY <1>2, <3>1, <3>2, <3>4 DEF Fitting
    <3>. QED
      BY <3>3, <3>4
  <2>. QED
    BY <2>1, <2>2
<1>. QED
  BY <1>2, <1>4, <1>5 DEF Fitting

(* A chain is replaced, and with it what the overlay may have had of it.    *)
LEMMA ReplaceFits ==
    ASSUME Types, Fitting, StagingAccounted, NEW s \in Chains, ReplaceChain(s)
    PROVE  Healthy /\ Fitting'
<1>1. /\ Healthy
      /\ \A b \in Backends : ov'[b].swap = ov[b].swap
      /\ \A b \in Backends : ov[b].swap # s => SameTargets(b)
      /\ \A b \in Backends : ov[b].swap = s =>
            ov'[b].gone /\ ov'[b].on = IF ov[b].on = "now" THEN "old" ELSE ov[b].on
  BY AgesTargets DEF ReplaceChain
<1>2. UNCHANGED <<call, unloading>>
  BY DEF ReplaceChain, setup
<1>3. ASSUME NEW b \in Backends, ov'[b].on # "none"
      PROVE  ov'[b].swap \in Chains /\ Api[ov'[b].swap] = b /\ Aware(ov[b], Owner[ov[b].swap])'
  <2>1. ov[b].on # "none" /\ ov'[b].swap = ov[b].swap
    BY <1>1, <1>3 DEF SameTargets
  <2>2. ov[b].swap \in Chains /\ Api[ov[b].swap] = b /\ Aware(ov[b], Owner[ov[b].swap])
    BY <2>1 DEF Fitting
  <2>. QED
    BY <1>1, <1>2, <2>1, <2>2 DEF Aware, SameTargets
<1>4. ASSUME NEW c \in Backends, NEW u \in Threads
      PROVE  /\ call'[u].at = "draw" /\ Api[call'[u].s] = c /\ ~call'[u].loose =>
                   ov'[c].swap = call'[u].s /\ (ov'[c].on = "now" \/ ov'[c].gone)
             /\ LetGo(u, c)' /\ ov'[c].swap = call'[u].s => ov'[c].on # "now"
  <2>1. LetGo(u, c)' <=> LetGo(u, c)
    BY <1>2 DEF LetGo
  <2>. QED
    BY <1>1, <1>2, <2>1 DEF SameTargets, Fitting
<1>. QED
  BY <1>1, <1>3, <1>4 DEF Fitting

(* Whoever takes a lock that is free, or is no lock, meets nobody who has it. *)
LEMMA NobodyHas ==
    ASSUME NEW b, locks[b] \in {"free", "unready"}
    PROVE  \A u \in Threads : locks[b] # u
  BY HooksAssumption

LEMMA HookFits ==
    ASSUME Types, OnItsOwn, Locked, Fitting, StagingAccounted, NEW t \in Threads, Hook(t)
    PROVE  Healthy /\ Fitting'
<1>0. StepOf(t) /\ UNCHANGED <<setup, late>>
  BY HookSteps
<1>1. /\ \A u \in Threads \ {t} : call'[u] = call[u]
      /\ call'[t].in => call[t].in \/ ~unloading
      /\ UNCHANGED unloading
  BY <1>0 DEF StepOf, setup
<1>2. ASSUME UNCHANGED <<ov, staged>>, call'[t].at # "draw", \A b \in Backends : ~LetGo(t, b)'
      PROVE  Healthy /\ Fitting'
  <2>1. Healthy /\ \A b \in Backends : SameTargets(b)
    BY <1>2 DEF Types, Healthy, StagingAccounted, SameTargets, staged
  <2>. QED
    BY <1>1, <1>2, <2>1, FittingKept
<1>3. CASE Guard(t) \/ Route(t) \/ Mismatch(t) \/ Return(t)
  <2>1. UNCHANGED <<ov, staged>>
    BY <1>3 DEF Guard, Route, Mismatch, Return
  <2>2. call'[t].at # "draw" /\ \A b \in Backends : ~LetGo(t, b)'
    <3>1. ToReal(t) => call'[t].at = "real" /\ call'[t].op = "present"
      BY MovesToReal
    <3>2. Goes(t, "crash") => call'[t].at = "crash"
      BY Moves DEF Positions
    <3>3. CASE Guard(t) /\ unloading
      <4>1. CASE call[t].op = "present"
        BY <3>1, <3>3, <4>1 DEF Guard, LetGo
      <4>2. CASE call[t].op # "present"
        <5>1. call[t].at = "guard" /\ Goes(t, "others") /\ "others" \in Positions
          BY <3>3, <4>2 DEF Guard, Positions
        <5>2. call'[t].at = "others" /\ ~call'[t].in
          BY <5>1, Moves DEF OnItsOwn
        <5>. QED
          BY <5>2 DEF LetGo
      <4>. QED
        BY <4>1, <4>2
    <3>4. CASE Guard(t) /\ ~unloading
      <4> DEFINE step == IF call[t].op = "present" THEN "route" ELSE "release"
      <4>1. call' = [call EXCEPT ![t].in = TRUE, ![t].at = step] /\ call[t] \in Calls
        BY <3>4 DEF Guard, Types
      <4>2. call'[t].at = step
        BY <4>1 DEF Types, Calls
      <4>. QED
        BY <4>2 DEF LetGo
    <3>5. CASE Route(t)
      <4>1. \E b : call' = [call EXCEPT ![t].at = "fit", ![t].loose = b] /\ call[t] \in Calls
        BY <3>5 DEF Route, Types
      <4>2. call'[t].at = "fit"
        BY <4>1 DEF Types, Calls
      <4>. QED
        BY <4>2 DEF LetGo
    <3>6. CASE Mismatch(t)
      BY <3>1, <3>6 DEF Mismatch, LeavesBody, LetGo
    <3>7. CASE Return(t)
      <4>1. Goes(t, "crash") \/ call' = [call EXCEPT ![t] = Idle]
        BY <3>7 DEF Return
      <4>2. call'[t].at \in {"crash", "idle"}
        BY <3>2, <4>1 DEF Types, Idle
      <4>. QED
        BY <4>2 DEF LetGo
    <3>. QED
      BY <1>3, <3>3, <3>4, <3>5, <3>6, <3>7
  <2>. QED
    BY <1>2, <2>1, <2>2
<1>4. CASE Fits(t)
  <2> DEFINE s == call[t].s
             b == Api[s]
  <2>1. /\ call[t].at = "fit" /\ ov[b].swap = s /\ ov[b].on # "none" /\ Goes(t, "draw")
        /\ UNCHANGED <<ov, staged>> /\ "draw" \in Positions
    BY <1>4 DEF Fits, Positions
  <2>2. /\ call'[t].at = "draw" /\ call'[t].s = s
        /\ s \in Chains /\ Owner[s] = t /\ call[t].in /\ b \in Backends
    BY <2>1, Moves, HooksAssumption DEF OnItsOwn
  <2>3. ov[b].on = "now" \/ ov[b].gone
    BY <2>1, <2>2 DEF Fitting, Aware, Types, Overlays
  <2>4. Healthy /\ \A c \in Backends : SameTargets(c)
    BY <2>1 DEF Types, Healthy, StagingAccounted, SameTargets, staged
  <2>. QED
    BY <1>1, <2>1, <2>2, <2>3, <2>4, FittingKept DEF LetGo
<1>5. CASE Fit(t)
  <2>1. Goes(t, "draw") /\ call[t].at = "fit" /\ "draw" \in Positions
    BY <1>5 DEF Fit, Positions
  <2>2. call'[t].at = "draw" /\ call'[t].s = call[t].s /\ call[t].s \in Chains
    BY <2>1, Moves DEF OnItsOwn
  <2>3. Healthy /\ Makes(t) /\ ov'[Api[call[t].s]].on = "now"
    BY <1>5, <2>2, FitTargets
  <2>. QED
    BY <1>0, <1>1, <2>2, <2>3, FittingMade
<1>6. CASE FitFails(t)
  <2>1. call'[t].at = "real" /\ call'[t].op = "present" /\ call[t].s \in Chains
    BY <1>6, MovesToReal DEF FitFails, LeavesBody, OnItsOwn
  <2>2. Healthy /\ (Makes(t) \/ \A c \in Backends : SameTargets(c))
    BY <1>6, <2>1, FitFailsTargets
  <2>3. CASE Makes(t)
    BY <1>0, <1>1, <2>1, <2>2, <2>3, FittingMade
  <2>4. CASE \A c \in Backends : SameTargets(c)
    BY <1>1, <2>1, <2>2, <2>4, FittingKept DEF LetGo
  <2>. QED
    BY <2>2, <2>3, <2>4
<1>7. CASE Draw(t)
  <2>1. /\ call[t].s \in Chains
        /\ call'[t].at = "crash" \/ (call'[t].at = "real" /\ call'[t].op = "present")
    BY <1>7, Moves, MovesToReal DEF Draw, LeavesBody, OnItsOwn, Positions
  <2>2. Healthy /\ \A c \in Backends : SameTargets(c)
    BY <1>7, <2>1, DrawTargets
  <2>. QED
    BY <1>1, <2>1, <2>2, FittingKept DEF LetGo
<1>8. CASE Release(t)
  <2>1. Frees("d3d11") /\ Goes(t, "others") /\ "others" \in Positions /\ "d3d11" \in Backends
    BY <1>8 DEF Release, Positions, Backends
  <2>2. call'[t].at = "others"
    BY <2>1, Moves
  <2>3. Healthy /\ ov'["d3d11"].on = "none" /\ \A c \in Backends \ {"d3d11"} : SameTargets(c)
    BY <2>1, FreesTargets DEF Healthy
  <2>4. \A u \in Threads : locks["d3d11"] # u
    BY <2>1, NobodyHas DEF Frees
  <2>5. \A c \in Backends \ {"d3d11"} : ~LetGo(t, c)'
    BY <2>2 DEF LetGo
  <2>. QED
    BY <1>1, <2>1, <2>2, <2>3, <2>4, <2>5, FittingFreed
<1>9. CASE Others(t)
  <2>1. call[t].at = "others" /\ Goes(t, "real") /\ "real" \in Positions /\ "d3d12" \in Backends
    BY <1>9 DEF Others, Positions, Backends
  <2>2. /\ call'[t].at = "real" /\ call'[t].s = call[t].s /\ call'[t].in = call[t].in
        /\ call'[t].op = call[t].op
    BY <2>1, Moves
  <2>3. \A c \in Backends \ {"d3d12"} : LetGo(t, c)' /\ ov[c].swap = call'[t].s => ov[c].on # "now"
    <3>1. \A c \in Backends \ {"d3d12"} : LetGo(t, c)' => LetGo(t, c)
      BY <2>1, <2>2 DEF LetGo, Backends
    <3>. QED
      BY <2>2, <3>1 DEF Fitting
  <2>4. CASE ov["d3d12"].on = "none"
    <3>1. UNCHANGED <<ov, staged>>
      BY <1>9, <2>4 DEF Others
    <3>2. Healthy /\ \A c \in Backends : SameTargets(c)
      BY <3>1 DEF Types, Healthy, StagingAccounted, SameTargets, staged
    <3>. QED
      BY <1>1, <2>2, <2>3, <2>4, <3>2, FittingKept
  <2>5. CASE ov["d3d12"].on # "none"
    <3>1. Frees("d3d12")
      BY <1>9, <2>5 DEF Others
    <3>2. Healthy /\ ov'["d3d12"].on = "none" /\ \A c \in Backends \ {"d3d12"} : SameTargets(c)
      BY <2>1, <3>1, FreesTargets DEF Healthy
    <3>3. \A u \in Threads : locks["d3d12"] # u
      BY <3>1, NobodyHas DEF Frees
    <3>. QED
      BY <1>1, <2>1, <2>2, <2>3, <3>2, <3>3, FittingFreed
  <2>. QED
    BY <2>4, <2>5
<1>10. CASE Real(t)
  <2> DEFINE step == IF hooked THEN "return" ELSE "crash"
             c == [Idle EXCEPT !.at = step, !.in = call[t].in]
  <2>1. call[t].at = "real" /\ call' = [call EXCEPT ![t] = c] /\ c.at = step /\ UNCHANGED staged
    BY <1>10 DEF Real, Idle
  <2>2. call'[t].at \in {"return", "crash"}
    <3> HIDE DEF c
    <3>. QED
      BY <2>1 DEF Types
  <2>3. CASE call[t].op = "resize" /\ hooked
    <3>1. Ages(call[t].s, FALSE)
      BY <1>10, <2>3 DEF Real
    <3>. QED
      BY <1>0, <1>1, <2>1, <2>2, <2>3, <3>1, ResizeFits
  <2>4. CASE ~(call[t].op = "resize" /\ hooked)
    <3>1. UNCHANGED ov
      BY <1>10, <2>4 DEF Real
    <3>. QED
      BY <1>2, <2>1, <2>2, <3>1 DEF LetGo
  <2>. QED
    BY <2>3, <2>4
<1>. QED
  BY <1>3, <1>4, <1>5, <1>6, <1>7, <1>8, <1>9, <1>10 DEF Hook
-----------------------------------------------------------------------------
(* The count. *)

LEMMA CountedIsFinite == IsFiniteSet(Counted) /\ Cardinality(Counted) \in Nat
<1>1. IsFiniteSet(Threads) /\ Counted \subseteq Threads
  BY HooksAssumption DEF Counted
<1>. QED
  BY <1>1, FS_Subset, FS_CardinalityType

LEMMA CountOfStep ==
    ASSUME Types, Counts, NEW t \in Threads, \A u \in Threads \ {t} : call'[u] = call[u],
           \/ refs' = refs /\ (IsCounted(t)' <=> IsCounted(t))
           \/ refs' = refs - 1 /\ IsCounted(t) /\ ~IsCounted(t)'
           \/ refs' = refs + 1 /\ ~IsCounted(t) /\ IsCounted(t)'
    PROVE  refs' \in Nat /\ refs' = Cardinality(Counted)'
<1>1. \A u \in Threads \ {t} : u \in Counted' <=> u \in Counted
  BY DEF Counted
<1>2. (t \in Counted <=> IsCounted(t)) /\ (t \in Counted' <=> IsCounted(t)')
  BY DEF Counted, IsCounted
<1>3. Counted \subseteq Threads /\ Counted' \subseteq Threads
  BY DEF Counted
<1>4. CASE refs' = refs /\ (IsCounted(t)' <=> IsCounted(t))
  <2>1. Counted' = Counted
    BY <1>1, <1>2, <1>3, <1>4
  <2>. QED
    BY <1>4, <2>1 DEF Types, Counts
<1>5. CASE refs' = refs - 1 /\ IsCounted(t) /\ ~IsCounted(t)'
  <2>1. Counted' = Counted \ {t} /\ t \in Counted
    BY <1>1, <1>2, <1>3, <1>5
  <2>2. Cardinality(Counted') = Cardinality(Counted) - 1 /\ Cardinality(Counted) # 0
    BY <2>1, CountedIsFinite, FS_RemoveElement, FS_EmptySet
  <2>. QED
    BY <1>5, <2>2, CountedIsFinite DEF Counts
<1>6. CASE refs' = refs + 1 /\ ~IsCounted(t) /\ IsCounted(t)'
  <2>1. Counted' = Counted \cup {t} /\ t \notin Counted
    BY <1>1, <1>2, <1>3, <1>6
  <2>2. Cardinality(Counted') = Cardinality(Counted) + 1
    BY <2>1, CountedIsFinite, FS_AddElement
  <2>. QED
    BY <1>6, <2>2, CountedIsFinite DEF Counts
<1>. QED
  BY <1>4, <1>5, <1>6

-----------------------------------------------------------------------------
LEMMA InitHolds == Init => IInv
<1>. SUFFICES ASSUME Init PROVE IInv
  OBVIOUS
<1>1. \A t \in Threads : call[t] = Idle
  BY DEF Init
<1>2. Types
  <2>1. Idle \in Calls /\ NoOverlay \in Overlays
    BY DEF Idle, Calls, Positions, NoOverlay, Overlays
  <2>. QED
    BY <2>1 DEF Init, Types
<1>3. Counts
  <2>1. Counted = {}
    BY <1>1 DEF Counted, Idle
  <2>. QED
    BY <2>1, FS_EmptySet DEF Counts, Init
<1>4. OnItsOwn /\ Locked
  BY <1>1 DEF OnItsOwn, Locked, InBody, Idle
<1>5. Fitting /\ StagingAccounted /\ Order
  BY <1>1 DEF Init, Fitting, LetGo, StagingAccounted, Order, NoOverlay, Idle, Backends
<1>. QED
  BY <1>2, <1>3, <1>4, <1>5 DEF IInv

LEMMA HookKeeps ==
    ASSUME IInv, NEW t \in Threads, Hook(t)
    PROVE  IInv'
<1>. USE DEF IInv
<1>1. StepOf(t) /\ UNCHANGED <<setup, late>>
  BY HookSteps
<1>2. Locked'
  BY HookLocked
<1>3. Healthy /\ Fitting'
  BY HookFits
<1>4. refs' \in Nat /\ refs' = Cardinality(Counted)'
  BY <1>1, CountOfStep DEF StepOf
<1>5. locks' \in [Backends -> Threads \cup {"unready", "free"}]
  <2>1. \/ locks' = locks
        \/ \E b : locks' = [locks EXCEPT ![b] = t] \/ locks' = [locks EXCEPT ![b] = IF @ = t THEN "free" ELSE @]
    BY DEF Hook, Guard, Route, Enters, Mismatch, Fits, Fit, FitFails, Draw, LeavesBody, Leaves, Release, Others,
           Real, Return
  <2>. QED
    BY <2>1 DEF Types
<1>6. Types'
  BY <1>1, <1>3, <1>4, <1>5 DEF Types, StepOf, Healthy, setup
<1>7. Order'
  <2>1. \A b \in Backends : locks[b] = "unready" => locks'[b] = "unready"
    <3>1. \A v \in Threads : v # "unready"
      BY HooksAssumption
    <3>. QED
      BY <3>1 DEF Types, Hook, Guard, Route, Enters, Mismatch, Fits, Fit, FitFails, Draw, LeavesBody, Leaves, Release,
                  Others, Real, Return
  <2>. QED
    BY <1>1, <2>1 DEF Order, setup, Backends
<1>8. Counts'
  <2>1. un' \notin {"no", "wait"} => late' \/ \A u \in Threads : ~call'[u].in
    BY <1>1 DEF StepOf, setup, Counts, Order
  <2>. QED
    BY <1>4, <2>1 DEF Counts
<1>9. OnItsOwn'
  <2>1. \A u \in Threads : Own1(u)'
    BY <1>1 DEF StepOf, OnItsOwn, Own1, setup
  <2>. QED
    BY <2>1 DEF OnItsOwn, Own1
<1>. QED
  BY <1>2, <1>3, <1>6, <1>7, <1>8, <1>9 DEF Healthy

LEMMA GameKeeps ==
    ASSUME IInv, NEW s \in Chains, Game(s)
    PROVE  IInv'
<1>. USE DEF IInv
<1>1. CASE ReplaceChain(s)
  <2>1. UNCHANGED <<setup, refs, locks, staged, call, late>>
    BY <1>1 DEF ReplaceChain
  <2>2. Healthy /\ Fitting'
    BY <1>1, ReplaceFits
  <2>. QED
    BY <2>1, <2>2 DEF setup, Healthy, Types, Order, Counts, Counted, OnItsOwn, Locked, InBody
<1>2. ASSUME NEW op \in {"present", "resize"}, Enter(Owner[s], op, s) PROVE IInv'
  <2> DEFINE t == Owner[s]
             c == [Idle EXCEPT !.at = "guard", !.op = op, !.s = s]
  <2>1. /\ t \in Threads /\ call[t].at = "idle" /\ refs' = refs + 1
        /\ call' = [call EXCEPT ![t] = c]
        /\ UNCHANGED <<setup, locks, ov, staged, late>>
    BY <1>2, HooksAssumption DEF Enter
  <2>2. c \in Calls /\ c.at = "guard" /\ c.s = s /\ ~c.in
    BY DEF Idle, Calls, Positions
  <2> HIDE DEF c
  <2>3. /\ call' \in [Threads -> Calls] /\ call'[t] = c
        /\ \A u \in Threads \ {t} : call'[u] = call[u]
    BY <2>1, <2>2 DEF Types
  <2>4. ~call[t].in
    BY <2>1 DEF OnItsOwn
  <2>5. refs' \in Nat /\ refs' = Cardinality(Counted)'
    <3>1. ~IsCounted(t) /\ IsCounted(t)'
      BY <2>1, <2>2, <2>3, <2>4 DEF IsCounted
    <3>. QED
      BY <2>1, <2>3, <3>1, CountOfStep
  <2>6. Types' /\ Order' /\ StagingAccounted'
    BY <2>1, <2>3, <2>5 DEF Types, setup, staged, Order, StagingAccounted
  <2>7. Counts'
    BY <2>1, <2>2, <2>3, <2>5 DEF Counts, setup
  <2>8. OnItsOwn'
    BY <2>1, <2>2, <2>3 DEF OnItsOwn, setup
  <2>9. Locked'
    BY <2>1, <2>2, <2>3, StaysLocked DEF InBody
  <2>10. Fitting'
    <3>1. UNCHANGED unloading /\ \A b \in Backends : SameTargets(b)
      BY <2>1 DEF setup, SameTargets
    <3>2. call'[t].at = "guard" /\ ~call'[t].in
      BY <2>2, <2>3
    <3>3. \A b \in Backends : ~LetGo(t, b)'
      BY <3>2 DEF LetGo
    <3> HIDE DEF t
    <3>. QED
      BY <2>3, <3>1, <3>2, <3>3, FittingKept
  <2>. QED
    BY <2>6, <2>7, <2>8, <2>9, <2>10
<1>. QED
  BY <1>1, <1>2 DEF Game

(* Nobody has the lock of a backend that is shut down, nor one that is made *)
(* only now.                                                                *)
LEMMA ShutDownKeeps ==
    ASSUME IInv, NEW b \in Backends, ShutDown(b), UNCHANGED <<call, unloading>>
    PROVE  Healthy /\ Locked' /\ Fitting' /\ locks' \in [Backends -> Threads \cup {"unready", "free"}]
<1>. USE DEF IInv
<1>1. NoOverlay \in Overlays /\ NoOverlay.on = "none"
  BY DEF NoOverlay, Overlays
<1>2. Healthy /\ ov'[b].on = "none" /\ \A c \in Backends \ {b} : SameTargets(c)
  <2>1. Ends(b, NoOverlay)
    BY DEF ShutDown
  <2>. QED
    BY <1>1, <2>1, EndsTargets
<1>3. locks[b] = "free" /\ locks' = [locks EXCEPT ![b] = "unready"] /\ \A u \in Threads : locks[b] # u
  BY NobodyHas DEF ShutDown
<1>4. locks' \in [Backends -> Threads \cup {"unready", "free"}]
  BY <1>3 DEF Types
<1>5. Locked'
  <2>1. \A v \in Threads, c \in Backends : locks[c] = v => locks'[c] = v
    BY <1>3 DEF Types
  <2>. QED
    BY <2>1 DEF Locked, InBody
<1>6. PICK n : n \notin Threads
  <2>1. "free" \notin Threads
    BY HooksAssumption
  <2>. QED
    BY <2>1
<1>7. Fitting'
  BY <1>2, <1>3, <1>6, FittingFreed
<1>. QED
  BY <1>2, <1>4, <1>5, <1>7

LEMMA LifeKeeps ==
    ASSUME IInv, Installs \/ Unload \/ Uninstalls
    PROVE  IInv'
<1>. USE DEF IInv
<1>1. UNCHANGED <<refs, call>>
  BY DEF Installs, Attach, HookQueue, CaptureInit, Unload, Uninstalls, Waited, ShutOthers, Detach, ShutOwn, Unmap
<1>2. (unloading => unloading') /\ (late => late')
  <2>1. \/ unloading' = TRUE
        \/ unloading' = unloading
    BY DEF Installs, Attach, HookQueue, CaptureInit, Unload, Uninstalls, Waited, ShutOthers, Detach, ShutOwn, Unmap
  <2>2. late' = late \/ late' = (late \/ refs > 0)
    BY DEF Installs, Attach, HookQueue, CaptureInit, Unload, Uninstalls, Waited, ShutOthers, Detach, ShutOwn, Unmap
  <2>. QED
    BY <2>1, <2>2 DEF Types
<1>3. /\ inst' \in {"attach", "queue", "init", "done"}
      /\ un' \in {"no", "wait", "d3d12", "detach", "d3d11", "capture", "gone"}
      /\ unloading' \in BOOLEAN /\ late' \in BOOLEAN
  BY DEF Types, Installs, Attach, HookQueue, CaptureInit, Unload, Uninstalls, Waited, ShutOthers, Detach, ShutOwn, Unmap
<1>4. OnItsOwn'
  BY <1>1, <1>2 DEF OnItsOwn
<1>5. Order'
  BY DEF Order, Types, Backends, Installs, Attach, HookQueue, CaptureInit, Unload, Uninstalls, Waited, ShutOthers, Detach,
         ShutOwn, ShutDown, Unmap
<1>6. Counts'
  <2>1. refs' = Cardinality(Counted)'
    BY <1>1 DEF Counts, Counted
  <2>2. un' \notin {"no", "wait"} => late' \/ \A t \in Threads : ~call'[t].in
    <3>1. CASE Waited
      <4>1. CASE refs > 0
        BY <3>1, <4>1 DEF Waited
      <4>2. CASE ~(refs > 0)
        <5>1. Cardinality(Counted) = 0
          BY <4>2 DEF Types, Counts
        <5>2. Counted = {}
          BY <5>1, CountedIsFinite, FS_EmptySet
        <5>. QED
          BY <1>1, <5>2 DEF Counted
      <4>. QED
        BY <4>1, <4>2
    <3>2. CASE ~Waited
      <4>1. un' \notin {"no", "wait"} => un \notin {"no", "wait"}
        BY <3>2 DEF Installs, Attach, HookQueue, CaptureInit, Unload, Uninstalls, ShutOthers, Detach, ShutOwn, Unmap
      <4>. QED
        BY <1>1, <1>2, <4>1 DEF Counts
    <3>. QED
      BY <3>1, <3>2
  <2>. QED
    BY <2>1, <2>2 DEF Counts
<1>7. Healthy /\ Locked' /\ Fitting' /\ locks' \in [Backends -> Threads \cup {"unready", "free"}]
  <2>1. ASSUME \A b \in Backends : SameTargets(b) PROVE Fitting'
    <3>1. PICK n : n \notin Threads
      <4>1. "free" \notin Threads
        BY HooksAssumption
      <4>. QED
        BY <4>1
    <3>. QED
      BY <1>1, <1>2, <2>1, <3>1, FittingKept
  <2>2. CASE Attach \/ HookQueue
    <3>1. PICK b \in Backends : locks[b] = "unready" /\ locks' = [locks EXCEPT ![b] = "free"]
      BY <2>2 DEF Attach, HookQueue, Order, Backends
    <3>2. UNCHANGED <<ov, staged>>
      BY <2>2 DEF Attach, HookQueue
    <3>3. \A v \in Threads, c \in Backends : locks[c] = v => locks'[c] = v
      BY <3>1, HooksAssumption DEF Types
    <3>4. Locked'
      BY <1>1, <3>3 DEF Locked, InBody
    <3>. QED
      BY <2>1, <3>1, <3>2, <3>4 DEF Types, Healthy, StagingAccounted, SameTargets, staged
  <2>3. CASE CaptureInit
    <3>1. CaptureStop({}, ov) /\ UNCHANGED <<locks, buffers>>
      BY <2>3 DEF CaptureInit
    <3>2. /\ ov' \in [Backends -> Overlays] /\ capturing' = FALSE /\ \A b \in Backends : SameTargets(b)
          /\ \A b \in Backends : ov'[b].staging # "used" /\ Has(ov'[b]) = Has(ov[b])
      <4>1. PICK own : own = {}
        OBVIOUS
      <4>2. PICK o : o = ov
        OBVIOUS
      <4>3. /\ o \in [Backends -> Overlays] /\ CaptureStop(own, o)
            /\ \A b \in Backends : b \in own => o[b].staging # "used"
        BY <3>1, <4>1, <4>2 DEF Types
      <4>4. /\ ov' \in [Backends -> Overlays] /\ capturing' = FALSE
            /\ \A b \in Backends :
                  /\ ov'[b].swap = o[b].swap /\ ov'[b].on = o[b].on /\ ov'[b].gone = o[b].gone
                  /\ ov'[b].staging # "used" /\ Has(ov'[b]) = Has(o[b])
        BY <4>3, Stopped
      <4>. QED
        BY <4>2, <4>4 DEF SameTargets, Has
    <3>3. Healthy
      BY <3>1, <3>2 DEF Types, Healthy, StagingAccounted, Has
    <3>. QED
      BY <1>1, <2>1, <3>1, <3>2, <3>3 DEF Types, Locked, InBody
  <2>4. CASE ShutOthers \/ ShutOwn
    <3>1. UNCHANGED <<call, unloading>> /\ \E b \in Backends : ShutDown(b)
      BY <2>4 DEF ShutOthers, ShutOwn, Backends
    <3>. QED
      BY <3>1, ShutDownKeeps
  <2>5. CASE Unload \/ Waited \/ Detach \/ Unmap
    <3>1. UNCHANGED <<ov, staged, locks>>
      BY <2>5 DEF Unload, Waited, Detach, Unmap
    <3>. QED
      BY <1>1, <2>1, <3>1 DEF Types, Healthy, StagingAccounted, SameTargets, staged, Locked, InBody
  <2>. QED
    BY <2>2, <2>3, <2>4, <2>5 DEF Installs, Uninstalls
<1>8. Types'
  BY <1>1, <1>3, <1>7 DEF Types, Healthy
<1>. QED
  BY <1>4, <1>5, <1>6, <1>7, <1>8 DEF Healthy

LEMMA NextKeeps == IInv /\ [Next]_vars => IInv'
<1>. SUFFICES ASSUME IInv, [Next]_vars PROVE IInv'
  OBVIOUS
<1>1. CASE UNCHANGED vars
  <2>1. UNCHANGED <<inst, un, unloading, hooked, refs, locks, ov, capturing, buffers, call, late>>
    BY <1>1 DEF vars, setup, staged
  <2>2. Types' /\ Order' /\ StagingAccounted' /\ Counts' /\ OnItsOwn'
    BY <2>1 DEF IInv, Types, Order, StagingAccounted, Counts, Counted, OnItsOwn
  <2>3. Locked' /\ Fitting'
    BY <2>1 DEF IInv, Locked, InBody, Fitting, LetGo, Aware
  <2>. QED
    BY <2>2, <2>3 DEF IInv
<1>. QED
  BY <1>1, HookKeeps, GameKeeps, LifeKeeps DEF Next

-----------------------------------------------------------------------------
(* The invariant the theorems below rest on. *)
THEOREM HooksHold == Spec => []IInv
<1>. QED
  BY InitHolds, NextKeeps, PTL DEF Spec

(* For any number of threads and swapchains: exclusion in each backend, and *)
(* the library stays as long as a thread that was let in needs it.          *)
THEOREM InsideIsSafeEverywhere == Spec => []InsideIsSafe
<1>1. IInv => InsideIsSafe
  BY DEF IInv, Locked, Counts, InsideIsSafe
<1>. QED
  BY <1>1, HooksHold, PTL

(* The overlay draws into the back buffer of the chain that is presented,   *)
(* and has let go of the one that ResizeBuffers is about to replace.        *)
THEOREM TargetsAlwaysFit == Spec => []TargetsFit
<1>1. IInv => TargetsFit
  <2>. SUFFICES ASSUME IInv, NEW t \in Threads, call[t].in, ~call[t].loose
                PROVE  LET s == call[t].s
                           o == ov[Api[s]]
                       IN  /\ call[t].at = "draw" => o.swap = s /\ (o.on = "now" \/ o.gone)
                           /\ call[t].at = "real" /\ call[t].op = "resize" /\ o.swap = s => o.on # "now"
    BY DEF TargetsFit
  <2>1. call[t].at = "draw" \/ (call[t].at = "real" /\ call[t].op = "resize")
        => call[t].s \in Chains /\ Api[call[t].s] \in Backends
    BY HooksAssumption DEF IInv, OnItsOwn
  <2>. QED
    BY <2>1 DEF IInv, Fitting, LetGo
<1>. QED
  BY <1>1, HooksHold, PTL

(* For any number of threads and swapchains, no backend keeps or loses its  *)
(* staging buffer, unless its capture was stopped by somebody else.         *)
THEOREM StagingIsAccounted == Spec => []StagingAccounted
<1>. QED
  BY HooksHold, PTL DEF IInv

-----------------------------------------------------------------------------
(* CaptureChannel.                                                         *)
-----------------------------------------------------------------------------
(* What has been received and not read, and behind it what is still in the  *)
(* socket, are one queue of parts.                                          *)
Queued == Len(rx) + Len(stream)
Queue == [j \in 1..Queued |-> IF j <= Len(rx) THEN rx[j] ELSE stream[j - Len(rx)]]

(* The first n parts of a queue q that follows d are whole messages, and    *)
(* each part says what was said before it and what its message adds.        *)
Before(q, b, d) == IF b = 0 THEN d ELSE q[b].says

WholeAt(q, n, d, j) ==
    LET m == q[j].msg
        b == j - q[j].part
    IN  /\ q[j].part \in 1 .. Size(m) /\ b \in 0 .. n /\ b + Size(m) <= n
        /\ \A k \in 1 .. Size(m) :
              q[b + k].msg = m /\ q[b + k].part = k /\ q[b + k].says = Says(m, k, Before(q, b, d))

Series(q, n, d) ==
    /\ \A j \in 1 .. n : WholeAt(q, n, d, j)
    /\ \A j, k \in 1 .. n : j <= k /\ q[j].says.bad => q[k].says = q[j].says

(* What is known, as a tag.                                                 *)
Known == [told |-> told, bad |-> FALSE]

(* One thread at a time looks at the connection; only a socket is parsed.   *)
OneReader ==
    /\ \A t, u \in Swappers : t # u => ~(at[t] \in Reading /\ at[u] \in Reading)
    /\ \A t \in Swappers : at[t] \in Reading => fd
    /\ \A t \in Swappers : at[t] = "parse" => build = "linux"

(* Without a connection nothing is there.                                   *)
NothingIsLeft ==
    ~fd /\ ~again => rx = <<>> /\ stream = <<>> /\ ~open /\ told = Silent

(* A pipe has no buffer, and is opened once.                                *)
PipesAreWhole == build = "windows" => rx = <<>> /\ ~again

(* Whole messages come after what is known, and the last part received says *)
(* what is due.                                                             *)
MessagesAreWhole ==
    ~again /\ (\A t \in Swappers : at[t] # "close") =>
        /\ Series(Queue, Queued, Known)
        /\ due = IF rx = <<>> THEN Known ELSE rx[Len(rx)].says

(* The thread that receives has read all that is complete ...               *)
ReadIsRead ==
    ~again /\ (\A t \in Swappers : at[t] \notin {"parse", "close"}) => ~Whole

(* ... and closes, before the host does, for what is no message only.       *)
ClosedAreBad ==
    ~again /\ (\E t \in Swappers : at[t] = "close") => due.bad /\ told = due.told

-----------------------------------------------------------------------------
Told == [session : {FALSE} \cup {m.session : m \in Messages},
         allowed : {FALSE} \cup {m.allowed : m \in Messages},
         text : {""} \cup {m.text : m \in Messages}]
Tags == [told : Told, bad : BOOLEAN]
PartSet == [msg : Messages, part : Nat, says : Tags]

ChannelTyped ==
    /\ open \in BOOLEAN /\ fd \in BOOLEAN /\ again \in BOOLEAN
    /\ rx \in Seq(PartSet) /\ stream \in Seq(PartSet)
    /\ told \in Told /\ due \in Tags
    /\ at \in [Swappers -> {"idle", "capture", "frame"} \cup Reading]

LEMMA MessageSizes ==
  /\ \A m \in Messages : /\ m.kind \in {"control", "text", "font", "bad"}
                         /\ Size(m) \in Nat \ {0} /\ Size(m) <= Cap
  /\ Cap \in Nat \ {0}
BY ChannelAssumption DEF Size, Cap

LEMMA HandleTyped ==
  ASSUME NEW m \in Messages, m.kind # "bad", NEW k \in Told
  PROVE  Handle(m, k) \in Told
<1>1. m.kind \in {"control", "text", "font"}
  BY MessageSizes
<1> QED
  BY <1>1 DEF Handle, Told

LEMMA SaysIs ==
  ASSUME NEW m \in Messages, NEW i \in Nat, NEW d \in Tags
  PROVE  /\ d.bad => Says(m, i, d) = d
         /\ ~d.bad /\ m.kind = "bad" => Says(m, i, d) = [told |-> d.told, bad |-> TRUE]
         /\ ~d.bad /\ m.kind # "bad" /\ i = Size(m) =>
               Says(m, i, d) = [told |-> Handle(m, d.told), bad |-> FALSE]
         /\ ~d.bad /\ m.kind # "bad" /\ i # Size(m) => Says(m, i, d) = [told |-> d.told, bad |-> FALSE]
         /\ Says(m, i, d) \in Tags
<1>1. CASE d.bad
  BY <1>1 DEF Says
<1>2. CASE ~d.bad /\ m.kind = "bad"
  BY <1>2 DEF Says, Tags
<1>3. CASE ~d.bad /\ m.kind # "bad" /\ i = Size(m)
  <2>1. Says(m, i, d) = [told |-> Handle(m, d.told), bad |-> FALSE]
    BY <1>3 DEF Says
  <2>2. d.told \in Told
    BY DEF Tags
  <2>3. PICK h \in Told : h = Handle(m, d.told)
    BY <1>3, <2>2, HandleTyped
  <2>4. Says(m, i, d) \in Tags
    BY <2>1, <2>3 DEF Tags
  <2> QED
    BY <1>3, <2>1, <2>4
<1>4. CASE ~d.bad /\ m.kind # "bad" /\ i # Size(m)
  <2>1. Says(m, i, d) = [told |-> d.told, bad |-> FALSE]
    BY <1>4 DEF Says
  <2>2. Says(m, i, d) \in Tags
    BY <2>1 DEF Tags
  <2> QED
    BY <1>4, <2>1, <2>2
<1> QED
  BY <1>1, <1>2, <1>3, <1>4

(* The first of the messages.                                               *)
LEMMA FirstMessage ==
  ASSUME NEW n \in Nat, n # 0, NEW q, NEW d, Series(q, n, d), NEW m \in Messages, q[1].msg = m
  PROVE  /\ Size(m) <= n
         /\ \A k \in 1 .. Size(m) : q[k].msg = m /\ q[k].part = k /\ q[k].says = Says(m, k, d)
<1>1. WholeAt(q, n, d, 1)
  BY DEF Series
<1> DEFINE b == 1 - q[1].part
<1>2. /\ q[1].part \in 1 .. Size(m) /\ b \in 0 .. n /\ b + Size(m) <= n
      /\ \A k \in 1 .. Size(m) :
            q[b + k].msg = m /\ q[b + k].part = k /\ q[b + k].says = Says(m, k, Before(q, b, d))
  BY <1>1 DEF WholeAt
<1>3. Size(m) \in Nat
  BY MessageSizes
<1>4. b = 0
  BY <1>2, <1>3
<1>5. Before(q, b, d) = d
  BY <1>4 DEF Before
<1> HIDE DEF b
<1> QED
  BY <1>2, <1>3, <1>4, <1>5

(* A message that is sent joins the queue at its end, ...                   *)
LEMMA SeriesGrows ==
  ASSUME NEW n \in Nat, NEW q, NEW r, NEW d \in Tags, NEW e \in Tags, NEW m \in Messages,
         Series(q, n, d), \A j \in 1 .. n : r[j] = q[j] /\ q[j] \in PartSet,
         e = IF n = 0 THEN d ELSE q[n].says,
         \A k \in 1 .. Size(m) : r[n + k] = [msg |-> m, part |-> k, says |-> Says(m, k, e)]
  PROVE  Series(r, n + Size(m), d)
<1> DEFINE s == Size(m)
<1>1. s \in Nat \ {0} /\ \A x \in Messages : Size(x) \in Nat \ {0}
  BY MessageSizes
<1>2. \A k \in 1 .. s : r[n + k].msg = m /\ r[n + k].part = k /\ r[n + k].says = Says(m, k, e)
  <2> SUFFICES ASSUME NEW k \in 1 .. s
               PROVE  r[n + k].msg = m /\ r[n + k].part = k /\ r[n + k].says = Says(m, k, e)
    OBVIOUS
  <2>1. r[n + k] = [msg |-> m, part |-> k, says |-> Says(m, k, e)]
    OBVIOUS
  <2> QED
    BY <2>1
<1>3. ASSUME NEW j \in 1 .. n PROVE WholeAt(r, n + s, d, j)
  <2>1. WholeAt(q, n, d, j)
    BY DEF Series
  <2>2. PICK x \in Messages : x = q[j].msg
    BY DEF PartSet
  <2>3. PICK b \in 0 .. n : b = j - q[j].part
    BY <2>1 DEF WholeAt
  <2>4. /\ q[j].part \in 1 .. Size(x) /\ b + Size(x) <= n
        /\ \A k \in 1 .. Size(x) :
              q[b + k].msg = x /\ q[b + k].part = k /\ q[b + k].says = Says(x, k, Before(q, b, d))
    BY <2>1, <2>2, <2>3 DEF WholeAt
  <2>5. Before(r, b, d) = Before(q, b, d)
    BY <2>3 DEF Before
  <2>6. \A k \in 1 .. Size(x) : r[b + k] = q[b + k]
    BY <1>1, <2>4
  <2>7. r[j] = q[j] /\ b + Size(x) <= n + s /\ b \in 0 .. n + s
    BY <1>1, <2>3, <2>4
  <2> HIDE DEF s
  <2> QED
    BY <2>2, <2>3, <2>4, <2>5, <2>6, <2>7 DEF WholeAt
<1>4. ASSUME NEW i \in 1 .. s PROVE WholeAt(r, n + s, d, n + i)
  <2>1. Before(r, n, d) = e
    BY DEF Before
  <2>2. r[n + i].msg = m /\ r[n + i].part = i
    BY <1>2
  <2>3. (n + i) - i = n /\ n \in 0 .. n + s /\ i \in 1 .. Size(m)
    BY <1>1
  <2> HIDE DEF s
  <2>4. n + Size(m) <= n + s
    BY <1>1 DEF s
  <2>5. \A k \in 1 .. Size(m) :
           r[n + k].msg = m /\ r[n + k].part = k /\ r[n + k].says = Says(m, k, Before(r, n, d))
    BY <1>2, <2>1 DEF s
  <2> QED
    BY <2>2, <2>3, <2>4, <2>5 DEF WholeAt
<1>5. \A j \in 1 .. n + s : WholeAt(r, n + s, d, j)
  <2> SUFFICES ASSUME NEW j \in 1 .. n + s PROVE WholeAt(r, n + s, d, j)
    OBVIOUS
  <2>1. CASE j <= n
    BY <1>3, <2>1
  <2>2. CASE ~(j <= n)
    <3>1. PICK i \in 1 .. s : j = n + i
      <4>1. j - n \in 1 .. s /\ j = n + (j - n)
        BY <1>1, <2>2
      <4> QED
        BY <4>1
    <3> QED
      BY <1>4, <3>1
  <2> QED
    BY <2>1, <2>2
<1>6. ASSUME NEW j \in 1 .. n + s, NEW k \in 1 .. n + s, j <= k, r[j].says.bad
      PROVE  r[k].says = r[j].says
  <2>1. CASE k <= n
    <3>1. j \in 1 .. n /\ k \in 1 .. n
      BY <1>1, <1>6, <2>1
    <3> QED
      BY <1>6, <3>1 DEF Series
  <2>2. CASE ~(k <= n)
    <3>1. PICK i \in 1 .. s : k = n + i
      <4>1. k - n \in 1 .. s /\ k = n + (k - n)
        BY <1>1, <2>2
      <4> QED
        BY <4>1
    <3>2. r[k].says = Says(m, i, e) /\ i \in Nat
      BY <1>1, <1>2, <3>1
    <3>3. CASE j <= n
      <4>1. j \in 1 .. n /\ n \in 1 .. n /\ n # 0
        BY <3>3
      <4>2. q[n].says = q[j].says /\ r[j] = q[j]
        BY <1>6, <4>1 DEF Series
      <4>3. e = r[j].says
        BY <4>1, <4>2
      <4> QED
        BY <1>6, <3>2, <4>3, SaysIs
    <3>4. CASE ~(j <= n)
      <4>1. PICK l \in 1 .. s : j = n + l
        <5>1. j - n \in 1 .. s /\ j = n + (j - n)
          BY <1>1, <3>4
        <5> QED
          BY <5>1
      <4>2. r[j].says = Says(m, l, e) /\ l \in Nat
        BY <1>1, <1>2, <4>1
      <4>3. CASE e.bad
        <5>1. Says(m, l, e) = e
          BY <4>2, <4>3, SaysIs
        <5>2. Says(m, i, e) = e
          BY <3>2, <4>3, SaysIs
        <5> QED
          BY <3>2, <4>2, <5>1, <5>2
      <4>4. CASE ~e.bad /\ m.kind = "bad"
        <5>1. Says(m, l, e) = [told |-> e.told, bad |-> TRUE]
          BY <4>2, <4>4, SaysIs
        <5>2. Says(m, i, e) = [told |-> e.told, bad |-> TRUE]
          BY <3>2, <4>4, SaysIs
        <5> QED
          BY <3>2, <4>2, <5>1, <5>2
      <4>5. CASE ~e.bad /\ m.kind # "bad"
        <5>1. PICK x : r[j].says = [told |-> x, bad |-> FALSE]
          <6>1. CASE l = Size(m)
            <7>1. Says(m, l, e) = [told |-> Handle(m, e.told), bad |-> FALSE]
              BY <4>2, <4>5, <6>1, SaysIs
            <7> QED
              BY <4>2, <7>1
          <6>2. CASE l # Size(m)
            <7>1. Says(m, l, e) = [told |-> e.told, bad |-> FALSE]
              BY <4>2, <4>5, <6>2, SaysIs
            <7> QED
              BY <4>2, <7>1
          <6> QED
            BY <6>1, <6>2
        <5>2. r[j].says.bad = FALSE
          BY <5>1
        <5> QED
          BY <1>6, <5>2
      <4> QED
        BY <4>3, <4>4, <4>5
    <3> QED
      BY <3>3, <3>4
  <2> QED
    BY <2>1, <2>2
<1> QED
  BY <1>5, <1>6 DEF Series

(* ... and one that is read leaves it.                                      *)
LEMMA SeriesShrinks ==
  ASSUME NEW n \in Nat, n # 0, NEW q, NEW r, NEW d \in Tags, NEW m \in Messages, q[1].msg = m,
         Series(q, n, d), \A j \in 1 .. n : q[j] \in PartSet,
         \A j \in 1 .. n - Size(m) : r[j] = q[j + Size(m)]
  PROVE  Series(r, n - Size(m), q[Size(m)].says)
<1> DEFINE s == Size(m)
           e == q[s].says
           p == n - s
<1>1. s \in Nat \ {0} /\ \A x \in Messages : Size(x) \in Nat \ {0}
  BY MessageSizes
<1>2. s <= n /\ \A k \in 1 .. s : q[k].part = k
  BY FirstMessage
<1>3. p \in Nat /\ n = p + s
  BY <1>1, <1>2
<1> HIDE DEF p
<1>4. \A j \in 1 .. p : j + s \in 1 .. n /\ r[j] = q[j + s]
  BY <1>1, <1>2, <1>3 DEF p
<1> HIDE DEF s, e
<1>5. ASSUME NEW j \in 1 .. p PROVE WholeAt(r, p, e, j)
  <2>1. PICK i \in 1 .. n : i = j + s
    BY <1>4
  <2>2. WholeAt(q, n, d, i) /\ r[j] = q[i] /\ q[i] \in PartSet
    BY <1>4, <2>1 DEF Series
  <2>3. PICK x \in Messages : x = q[i].msg
    BY <2>2 DEF PartSet
  <2>4. PICK b \in 0 .. n : b = i - q[i].part
    BY <2>2 DEF WholeAt
  <2>5. /\ q[i].part \in 1 .. Size(x) /\ b + Size(x) <= n
        /\ \A k \in 1 .. Size(x) :
              q[b + k].msg = x /\ q[b + k].part = k /\ q[b + k].says = Says(x, k, Before(q, b, d))
    BY <2>2, <2>3, <2>4 DEF WholeAt
  <2>6. Size(x) \in Nat \ {0}
    BY <1>1
  <2>7. s <= b
    <3> SUFFICES ASSUME ~(s <= b) PROVE FALSE
      OBVIOUS
    <3>1. b + 1 \in 1 .. s
      BY <1>1
    <3>2. q[b + 1].part = b + 1 /\ q[b + 1].part = 1 /\ q[b + 1].msg = x
      BY <1>2, <2>5, <2>6, <3>1
    <3>3. b = 0
      BY <3>2
    <3>4. q[1].msg = x
      BY <3>2, <3>3
    <3>5. x = m
      BY <3>4
    <3>6. i <= s
      BY <1>1, <2>4, <2>5, <2>6, <3>3, <3>5 DEF s
    <3> QED
      BY <1>1, <2>1, <3>6
  <2>8. PICK c \in Nat : b = c + s
    <3>1. b - s \in Nat /\ b = (b - s) + s
      BY <1>1, <2>7
    <3> QED
      BY <3>1
  <2>9. c \in 0 .. p /\ c + Size(x) <= p /\ c = j - r[j].part
    BY <1>1, <1>3, <2>1, <2>2, <2>4, <2>5, <2>6, <2>8
  <2>10. \A k \in 1 .. Size(x) : r[c + k] = q[b + k]
    <3>1. \A k \in 1 .. Size(x) : c + k \in 1 .. p /\ (c + k) + s = b + k
      BY <1>1, <1>3, <2>6, <2>8, <2>9
    <3> QED
      BY <1>4, <3>1
  <2>11. Before(r, c, e) = Before(q, b, d)
    <3>1. CASE c = 0
      BY <1>1, <2>8, <3>1 DEF Before, e
    <3>2. CASE c # 0
      <4>1. c \in 1 .. p /\ b # 0
        BY <1>1, <2>8, <2>9, <3>2
      <4> QED
        BY <1>4, <2>8, <3>2, <4>1 DEF Before
    <3> QED
      BY <3>1, <3>2
  <2>12. r[j].msg = x /\ r[j].part \in 1 .. Size(x)
    BY <2>2, <2>3, <2>5
  <2>13. \A k \in 1 .. Size(x) :
            r[c + k].msg = x /\ r[c + k].part = k /\ r[c + k].says = Says(x, k, Before(r, c, e))
    BY <2>5, <2>10, <2>11
  <2> QED
    BY <2>9, <2>12, <2>13 DEF WholeAt
<1>6. ASSUME NEW j \in 1 .. p, NEW k \in 1 .. p, j <= k, r[j].says.bad
      PROVE  r[k].says = r[j].says
  <2>1. j + s \in 1 .. n /\ k + s \in 1 .. n /\ j + s <= k + s /\ r[j] = q[j + s] /\ r[k] = q[k + s]
    BY <1>1, <1>4, <1>6
  <2> QED
    BY <1>6, <2>1 DEF Series
<1>7. Series(r, p, e)
  BY <1>5, <1>6 DEF Series
<1> QED
  BY <1>7 DEF p, e, s

(* The same parts are the same messages.                                    *)
LEMMA SameSeries ==
  ASSUME NEW n \in Nat, NEW q, NEW r, NEW d, Series(q, n, d),
         \A j \in 1 .. n : r[j] = q[j] /\ q[j] \in PartSet
  PROVE  Series(r, n, d)
<1>1. ASSUME NEW j \in 1 .. n PROVE WholeAt(r, n, d, j)
  <2>1. WholeAt(q, n, d, j)
    BY DEF Series
  <2>2. PICK x \in Messages : x = q[j].msg
    BY DEF PartSet
  <2>3. PICK b \in 0 .. n : b = j - q[j].part
    BY <2>1 DEF WholeAt
  <2>4. /\ q[j].part \in 1 .. Size(x) /\ b + Size(x) <= n
        /\ \A k \in 1 .. Size(x) :
              q[b + k].msg = x /\ q[b + k].part = k /\ q[b + k].says = Says(x, k, Before(q, b, d))
    BY <2>1, <2>2, <2>3 DEF WholeAt
  <2>5. Before(r, b, d) = Before(q, b, d)
    BY <2>3 DEF Before
  <2>6. \A k \in 1 .. Size(x) : r[b + k] = q[b + k]
    BY <2>2, <2>4, MessageSizes
  <2> QED
    BY <2>2, <2>3, <2>4, <2>5, <2>6 DEF WholeAt
<1> QED
  BY <1>1 DEF Series

(* The inductive invariant.                                                 *)
ChannelInv ==
    ChannelTyped /\ OneReader /\ NothingIsLeft /\ PipesAreWhole /\ MessagesAreWhole /\ ReadIsRead /\ ClosedAreBad

LEMMA ChannelStarts == ChannelInit => ChannelInv
<1> SUFFICES ASSUME ChannelInit PROVE ChannelInv
  OBVIOUS
<1>1. Silent \in Told
  BY DEF Silent, Told
<1>2. [told |-> Silent, bad |-> FALSE] \in Tags
  BY <1>1 DEF Tags
<1>3. ChannelTyped
  <2>1. open \in BOOLEAN /\ fd \in BOOLEAN /\ again \in BOOLEAN
    BY DEF ChannelInit
  <2>2. rx \in Seq(PartSet) /\ stream \in Seq(PartSet)
    BY DEF ChannelInit
  <2>3. told \in Told /\ due \in Tags
    BY <1>1, <1>2 DEF ChannelInit
  <2>4. at \in [Swappers -> {"idle", "capture", "frame"} \cup Reading]
    BY DEF ChannelInit
  <2> QED
    BY <2>1, <2>2, <2>3, <2>4 DEF ChannelTyped
<1>4. OneReader /\ NothingIsLeft /\ PipesAreWhole /\ ReadIsRead /\ ClosedAreBad
  BY DEF ChannelInit, OneReader, NothingIsLeft, PipesAreWhole, ReadIsRead, ClosedAreBad, Whole, Reading
<1>5. Queued = 0 /\ due = Known /\ rx = <<>>
  BY DEF ChannelInit, Queued, Known
<1>6. MessagesAreWhole
  BY <1>5 DEF MessagesAreWhole, Series
<1> QED
  BY <1>3, <1>4, <1>6 DEF ChannelInv

(* The actions that have no part in the channel.                            *)
LEMMA ElsewhereKeeps ==
  ASSUME ChannelInv,
         at' \in [Swappers -> {"idle", "capture", "frame"} \cup Reading],
         \A u \in Swappers : at'[u] = at[u] \/ (at'[u] \notin Reading /\ at[u] \notin {"parse", "close"}),
         UNCHANGED <<build, stream, fd, rx, told, due, again>>,
         open' \in BOOLEAN, open' => open
  PROVE  ChannelInv'
<1>1. Reading = {"recv", "parse", "close"}
  BY DEF Reading
<1>2. ChannelTyped'
  BY DEF ChannelInv, ChannelTyped
<1>3. OneReader'
  BY <1>1 DEF ChannelInv, OneReader
<1>4. NothingIsLeft' /\ PipesAreWhole'
  BY DEF ChannelInv, NothingIsLeft, PipesAreWhole
<1>5. /\ (\A u \in Swappers : at'[u] # "close") => \A u \in Swappers : at[u] # "close"
      /\ (\A u \in Swappers : at'[u] \notin {"parse", "close"}) =>
            \A u \in Swappers : at[u] \notin {"parse", "close"}
      /\ (\E u \in Swappers : at'[u] = "close") => \E u \in Swappers : at[u] = "close"
  BY <1>1
<1>6. Queue' = Queue /\ Queued' = Queued /\ Known' = Known /\ Whole' = Whole
  BY DEF Queue, Queued, Known, Whole
<1>7. MessagesAreWhole'
  BY <1>5, <1>6 DEF ChannelInv, MessagesAreWhole, Series, WholeAt, Before
<1>8. ReadIsRead' /\ ClosedAreBad'
  BY <1>5, <1>6 DEF ChannelInv, ReadIsRead, ClosedAreBad
<1> QED
  BY <1>2, <1>3, <1>4, <1>7, <1>8 DEF ChannelInv

LEMMA QueueIs ==
  ASSUME ChannelTyped
  PROVE  /\ Len(rx) \in Nat /\ Len(stream) \in Nat /\ Queued \in Nat /\ Queued = Len(rx) + Len(stream)
         /\ \A j \in 1 .. Len(rx) : Queue[j] = rx[j]
         /\ \A j \in 1 .. Len(stream) : Queue[Len(rx) + j] = stream[j]
         /\ \A j \in 1 .. Queued : Queue[j] \in PartSet
         /\ Known \in Tags
<1>1. Len(rx) \in Nat /\ Len(stream) \in Nat
  BY DEF ChannelTyped
<1>2. \A j \in 1 .. Len(rx) : rx[j] \in PartSet
  BY DEF ChannelTyped
<1>3. \A j \in 1 .. Len(stream) : stream[j] \in PartSet
  BY DEF ChannelTyped
<1>4. PICK a \in Nat, b \in Nat : a = Len(rx) /\ b = Len(stream)
  BY <1>1
<1>5. Queued = a + b /\ Queue = [j \in 1 .. a + b |-> IF j <= a THEN rx[j] ELSE stream[j - a]]
  BY <1>4 DEF Queued, Queue
<1>6. \A j \in 1 .. a : Queue[j] = rx[j]
  BY <1>5
<1>7. \A j \in 1 .. b : Queue[a + j] = stream[j]
  <2> SUFFICES ASSUME NEW j \in 1 .. b PROVE Queue[a + j] = stream[j]
    OBVIOUS
  <2>1. a + j \in 1 .. a + b /\ ~(a + j <= a) /\ (a + j) - a = j
    OBVIOUS
  <2> QED
    BY <1>5, <2>1
<1>8. \A j \in 1 .. a + b : Queue[j] \in PartSet
  <2> SUFFICES ASSUME NEW j \in 1 .. a + b PROVE Queue[j] \in PartSet
    OBVIOUS
  <2>1. CASE j <= a
    BY <1>2, <1>4, <1>5, <2>1
  <2>2. CASE ~(j <= a)
    <3>1. j - a \in 1 .. b
      BY <2>2
    <3> QED
      BY <1>3, <1>4, <1>5, <2>2, <3>1
  <2> QED
    BY <2>1, <2>2
<1>9. Known \in Tags
  BY DEF Known, Tags, ChannelTyped
<1> QED
  BY <1>1, <1>4, <1>5, <1>6, <1>7, <1>8, <1>9

LEMMA SendKeeps ==
  ASSUME ChannelInv, NEW m \in Messages, Send(m)
  PROVE  ChannelInv'
<1>1. /\ open /\ UNCHANGED <<build, open, fd, rx, told, due, again, at>>
      /\ stream' = stream \o [i \in 1..Size(m) |-> [msg |-> m, part |-> i, says |-> Says(m, i, Said)]]
  BY DEF Send, channel
<1>2. ChannelTyped /\ MessagesAreWhole
  BY DEF ChannelInv
<1>3. Said \in Tags
  <2>1. CASE stream = <<>>
    BY <1>2, <2>1 DEF Said, ChannelTyped
  <2>2. CASE stream # <<>>
    <3>1. stream[Len(stream)] \in PartSet
      BY <1>2, <2>2 DEF ChannelTyped
    <3> QED
      BY <2>2, <3>1 DEF Said, PartSet
  <2> QED
    BY <2>1, <2>2
<1>4. PICK e \in Tags : e = Said
  BY <1>3
<1>5. PICK s \in Nat \ {0} : s = Size(m)
  BY MessageSizes
<1> DEFINE sent == [i \in 1 .. s |-> [msg |-> m, part |-> i, says |-> Says(m, i, e)]]
<1>6. stream' = stream \o sent
  BY <1>1, <1>4, <1>5
<1>7. \A i \in 1 .. s : sent[i] = [msg |-> m, part |-> i, says |-> Says(m, i, e)] /\ sent[i] \in PartSet
  BY SaysIs DEF PartSet
<1>8. sent \in Seq(PartSet) /\ Len(sent) = s
  <2>1. sent \in [1 .. s -> PartSet]
    BY <1>7
  <2> QED
    BY <2>1
<1> HIDE DEF sent
<1>9. PICK z \in Seq(PartSet) : z = stream
  BY <1>2 DEF ChannelTyped
<1>10. /\ stream' \in Seq(PartSet) /\ Len(stream') = Len(z) + s
       /\ \A j \in 1 .. Len(z) : stream'[j] = z[j]
       /\ \A i \in 1 .. s : stream'[Len(z) + i] = sent[i]
  <2>1. PICK w \in Seq(PartSet) : w = sent
    BY <1>8
  <2>2. /\ z \o w \in Seq(PartSet) /\ Len(z \o w) = Len(z) + Len(w)
        /\ \A j \in 1 .. Len(z) + Len(w) : (z \o w)[j] = IF j <= Len(z) THEN z[j] ELSE w[j - Len(z)]
    BY ConcatProperties
  <2>3. Len(z) \in Nat /\ Len(w) = s /\ stream' = z \o w
    BY <1>6, <1>8, <1>9, <2>1
  <2>4. ASSUME NEW j \in 1 .. Len(z) PROVE stream'[j] = z[j]
    BY <2>2, <2>3
  <2>5. ASSUME NEW i \in 1 .. s PROVE stream'[Len(z) + i] = sent[i]
    <3>1. Len(z) + i \in 1 .. Len(z) + s /\ ~(Len(z) + i <= Len(z)) /\ (Len(z) + i) - Len(z) = i
      BY <2>3
    <3> QED
      BY <2>1, <2>2, <2>3, <3>1
  <2> QED
    BY <2>2, <2>3, <2>4, <2>5
<1>11. ChannelTyped'
  BY <1>1, <1>2, <1>10 DEF ChannelTyped
<1>12. OneReader' /\ NothingIsLeft' /\ PipesAreWhole' /\ ReadIsRead' /\ ClosedAreBad'
  BY <1>1 DEF ChannelInv, OneReader, NothingIsLeft, PipesAreWhole, ReadIsRead, ClosedAreBad, Whole
<1>13. MessagesAreWhole'
  <2> SUFFICES ASSUME ~again, \A t \in Swappers : at[t] # "close"
               PROVE  Series(Queue', Queued', Known') /\ due = IF rx = <<>> THEN Known ELSE rx[Len(rx)].says
    BY <1>1 DEF MessagesAreWhole, Known
  <2>1. Series(Queue, Queued, Known) /\ due = IF rx = <<>> THEN Known ELSE rx[Len(rx)].says
    BY <1>2 DEF MessagesAreWhole
  <2>2. PICK a \in Nat, n \in Nat, d \in Tags : a = Len(rx) /\ n = Queued /\ d = Known
    BY <1>2, QueueIs
  <2> PICK q : q = Queue
    OBVIOUS
  <2> PICK r : r = Queue'
    OBVIOUS
  <2>3. Queued' = n + s /\ n = a + Len(z)
    BY <1>1, <1>2, <1>5, <1>9, <1>10, <2>2, QueueIs DEF Queued
  <2>4. /\ Len(z) \in Nat
        /\ \A j \in 1 .. a : q[j] = rx[j] /\ r[j] = rx[j]
        /\ \A j \in 1 .. Len(z) : q[a + j] = z[j]
        /\ \A j \in 1 .. Len(z) + s : r[a + j] = stream'[j]
        /\ \A j \in 1 .. n : q[j] \in PartSet
    <3>1. (\A j \in 1 .. Len(rx) : Queue[j] = rx[j])'
      BY <1>11, QueueIs, PTL
    <3>2. (\A j \in 1 .. Len(stream) : Queue[Len(rx) + j] = stream[j])'
      BY <1>11, QueueIs, PTL
    <3> QED
      BY <1>1, <1>2, <1>9, <1>10, <2>2, <3>1, <3>2, QueueIs
  <2>5. \A j \in 1 .. n : r[j] = q[j]
    <3> SUFFICES ASSUME NEW j \in 1 .. n PROVE r[j] = q[j]
      OBVIOUS
    <3>1. CASE j <= a
      BY <2>4, <3>1
    <3>2. CASE ~(j <= a)
      <4>1. PICK i \in 1 .. Len(z) : j = a + i
        <5>1. j - a \in 1 .. Len(z) /\ j = a + (j - a)
          BY <2>3, <2>4, <3>2
        <5> QED
          BY <5>1
      <4>2. i \in 1 .. Len(z) + s
        BY <2>4
      <4> QED
        BY <1>10, <2>4, <4>1, <4>2
    <3> QED
      BY <3>1, <3>2
  <2>6. \A k \in 1 .. s : r[n + k] = [msg |-> m, part |-> k, says |-> Says(m, k, e)]
    <3> SUFFICES ASSUME NEW k \in 1 .. s PROVE r[n + k] = [msg |-> m, part |-> k, says |-> Says(m, k, e)]
      OBVIOUS
    <3>1. n + k = a + (Len(z) + k) /\ Len(z) + k \in 1 .. Len(z) + s
      BY <2>3, <2>4
    <3>2. r[n + k] = stream'[Len(z) + k]
      BY <2>4, <3>1
    <3> QED
      BY <1>7, <1>10, <3>2
  <2>7. e = IF n = 0 THEN d ELSE q[n].says
    <3>1. CASE z = <<>>
      <4>1. e = due /\ n = a
        BY <1>4, <1>9, <2>3, <3>1 DEF Said
      <4>2. CASE rx = <<>>
        <5>1. n = 0 /\ e = d
          BY <2>1, <2>2, <4>1, <4>2
        <5> QED
          BY <5>1
      <4>3. CASE rx # <<>>
        <5>1. a \in 1 .. a /\ rx[a] = q[a]
          BY <1>2, <2>2, <2>4, <4>3 DEF ChannelTyped
        <5> QED
          BY <2>1, <2>2, <4>1, <4>3, <5>1
      <4> QED
        BY <4>2, <4>3
    <3>2. CASE z # <<>>
      <4>1. e = z[Len(z)].says /\ Len(z) # 0
        BY <1>4, <1>9, <3>2 DEF Said
      <4>2. n # 0 /\ Len(z) \in 1 .. Len(z) /\ n = a + Len(z)
        BY <2>3, <2>4, <4>1
      <4> QED
        BY <2>4, <4>1, <4>2
    <3> QED
      BY <3>1, <3>2
  <2>8. Series(r, n + Size(m), d)
    <3>1. Series(q, n, d)
      BY <2>1, <2>2
    <3>2. \A j \in 1 .. n : r[j] = q[j] /\ q[j] \in PartSet
      BY <2>4, <2>5
    <3>3. \A k \in 1 .. Size(m) : r[n + k] = [msg |-> m, part |-> k, says |-> Says(m, k, e)]
      BY <1>5, <2>6
    <3> HIDE DEF Series, Size, Says
    <3> QED
      BY <2>7, <3>1, <3>2, <3>3, SeriesGrows
  <2>9. Known' = d
    BY <1>1, <2>2 DEF Known
  <2> QED
    BY <1>5, <2>1, <2>2, <2>3, <2>8, <2>9
<1> QED
  BY <1>11, <1>12, <1>13 DEF ChannelInv

LEMMA LeaveFirst ==
  ASSUME NEW S, NEW z \in Seq(S), NEW s \in Nat, s <= Len(z)
  PROVE  /\ SubSeq(z, s + 1, Len(z)) \in Seq(S)
         /\ Len(SubSeq(z, s + 1, Len(z))) = Len(z) - s
         /\ \A j \in 1 .. Len(z) - s : SubSeq(z, s + 1, Len(z))[j] = z[j + s]
<1>1. PICK n \in Nat : n = Len(z)
  OBVIOUS
<1>2. \A i \in s + 1 .. n : z[i] \in S
  BY <1>1
<1>3. s + 1 \in Int /\ n \in Int
  OBVIOUS
<1>4. /\ SubSeq(z, s + 1, n) \in Seq(S)
      /\ Len(SubSeq(z, s + 1, n)) = IF s + 1 <= n THEN n - (s + 1) + 1 ELSE 0
      /\ \A j \in 1 .. n - (s + 1) + 1 : SubSeq(z, s + 1, n)[j] = z[(s + 1) + j - 1]
  BY <1>2, <1>3, SubSeqProperties
<1>5. n - (s + 1) + 1 = n - s /\ (s + 1 <= n \/ n - s = 0)
  BY <1>1
<1>6. \A j \in 1 .. n - s : (s + 1) + j - 1 = j + s
  BY <1>1
<1> QED
  BY <1>1, <1>4, <1>5, <1>6

LEMMA TakeFirst ==
  ASSUME NEW S, NEW z \in Seq(S), NEW n \in 1 .. Len(z)
  PROVE  /\ SubSeq(z, 1, n) \in Seq(S)
         /\ Len(SubSeq(z, 1, n)) = n
         /\ \A j \in 1 .. n : SubSeq(z, 1, n)[j] = z[j]
<1>1. \A i \in 1 .. n : z[i] \in S
  OBVIOUS
<1>2. /\ SubSeq(z, 1, n) \in Seq(S)
      /\ Len(SubSeq(z, 1, n)) = IF 1 <= n THEN n - 1 + 1 ELSE 0
      /\ \A j \in 1 .. n - 1 + 1 : SubSeq(z, 1, n)[j] = z[1 + j - 1]
  BY <1>1, SubSeqProperties
<1>3. n - 1 + 1 = n /\ 1 <= n /\ \A j \in 1 .. n : 1 + j - 1 = j
  OBVIOUS
<1> QED
  BY <1>2, <1>3

(* A thread looks at the connection, when no other does.                    *)
LEMMA UpdateKeeps ==
  ASSUME ChannelInv, NEW t \in Swappers, Update(t)
  PROVE  ChannelInv'
<1>1. /\ at[t] = "idle" /\ \A u \in Swappers : at[u] \notin Reading
      /\ UNCHANGED <<build, rx, told, due, again>>
      /\ \/ at' = [at EXCEPT ![t] = "recv"] /\ fd /\ fd' /\ UNCHANGED <<open, stream>>
         \/ at' = [at EXCEPT ![t] = "capture"] /\ UNCHANGED <<open, stream, fd>>
         \/ at' = [at EXCEPT ![t] = "recv"] /\ ~fd /\ fd' /\ fd' = TRUE /\ open' = TRUE /\ stream' = <<>>
  BY DEF Update, GoesTo, host, channel
<1>2. CASE at' = [at EXCEPT ![t] = "capture"] /\ UNCHANGED <<open, stream, fd>>
  <2>1. /\ at' \in [Swappers -> {"idle", "capture", "frame"} \cup Reading]
        /\ "capture" \notin Reading /\ "idle" \notin {"parse", "close"}
        /\ \A u \in Swappers : at'[u] = at[u] \/ (u = t /\ at'[u] = "capture")
    BY <1>2 DEF ChannelInv, ChannelTyped, Reading
  <2>2. open \in BOOLEAN
    BY DEF ChannelInv, ChannelTyped
  <2> QED
    BY <1>1, <1>2, <2>1, <2>2, ElsewhereKeeps
<1>3. CASE at' = [at EXCEPT ![t] = "recv"] /\ fd'
  <2>1. /\ at' \in [Swappers -> {"idle", "capture", "frame"} \cup Reading]
        /\ at'[t] = "recv" /\ \A u \in Swappers : u # t => at'[u] = at[u]
        /\ "recv" \in Reading
    BY <1>3 DEF ChannelInv, ChannelTyped, Reading
  <2>2. stream' \in Seq(PartSet) /\ open' \in BOOLEAN /\ fd' \in BOOLEAN
    <3>1. stream \in Seq(PartSet) /\ open \in BOOLEAN /\ fd' \in BOOLEAN
      BY <1>1 DEF ChannelInv, ChannelTyped
    <3>2. <<>> \in Seq(PartSet)
      OBVIOUS
    <3>3. (stream' = stream /\ open' = open) \/ (stream' = <<>> /\ open' = TRUE)
      BY <1>1, <1>3
    <3> QED
      BY <3>1, <3>2, <3>3
  <2>3. ChannelTyped'
    BY <1>1, <2>1, <2>2 DEF ChannelInv, ChannelTyped
  <2>4. \A u \in Swappers : at[u] \notin {"parse", "close"} /\ at'[u] \notin {"parse", "close"}
    BY <1>1, <2>1 DEF Reading
  <2>5. OneReader'
    BY <1>1, <1>3, <2>1, <2>4 DEF OneReader
  <2>6. NothingIsLeft' /\ PipesAreWhole'
    BY <1>1, <1>3 DEF ChannelInv, NothingIsLeft, PipesAreWhole
  <2>7. again \/ stream' = stream
    BY <1>1, <1>3 DEF ChannelInv, NothingIsLeft
  <2>8. MessagesAreWhole'
    <3>1. CASE again
      BY <1>1, <3>1 DEF MessagesAreWhole
    <3>2. CASE stream' = stream
      <4>1. Queue' = Queue /\ Queued' = Queued /\ Known' = Known
        BY <1>1, <3>2 DEF Queue, Queued, Known
      <4> QED
        BY <1>1, <2>4, <4>1 DEF ChannelInv, MessagesAreWhole, Series, WholeAt, Before
    <3> QED
      BY <2>7, <3>1, <3>2
  <2>9. ReadIsRead' /\ ClosedAreBad'
    BY <1>1, <2>4 DEF ChannelInv, ReadIsRead, ClosedAreBad, Whole
  <2> QED
    BY <2>3, <2>5, <2>6, <2>8, <2>9 DEF ChannelInv
<1> QED
  BY <1>1, <1>2, <1>3

(* The thread that reads: one step of it leaves every other where it was,   *)
(* and none of them reads.                                                  *)
LEMMA ReaderSteps ==
  ASSUME ChannelTyped, OneReader, NEW t \in Swappers, at[t] \in Reading,
         NEW step \in {"recv", "parse", "close"}, at' = [at EXCEPT ![t] = step],
         step = "parse" => build = "linux",
         UNCHANGED <<build, fd, again>>
  PROVE  /\ fd /\ OneReader'
         /\ at' \in [Swappers -> {"idle", "capture", "frame"} \cup Reading]
         /\ at'[t] = step
         /\ \A u \in Swappers : u # t => at[u] \notin Reading /\ at'[u] \notin Reading
<1>1. /\ at' \in [Swappers -> {"idle", "capture", "frame"} \cup Reading]
      /\ at'[t] = step /\ \A u \in Swappers : u # t => at'[u] = at[u]
      /\ step \in Reading
  BY DEF ChannelTyped, Reading
<1>2. fd /\ \A u \in Swappers : u # t => at[u] \notin Reading
  BY DEF OneReader
<1>3. OneReader'
  BY <1>1, <1>2 DEF OneReader, Reading
<1> QED
  BY <1>1, <1>2, <1>3

(* What is received goes from the one end of the queue to the other.        *)
LEMMA RecvKeeps ==
  ASSUME ChannelInv, NEW t \in Swappers, Recv(t)
  PROVE  ChannelInv'
<1>1. /\ at[t] = "recv" /\ build = "linux" /\ at' = [at EXCEPT ![t] = "parse"]
      /\ UNCHANGED <<build, open, fd, told, again>>
      /\ \E n \in 1..Len(stream) :
            /\ rx' = rx \o SubSeq(stream, 1, n)
            /\ stream' = SubSeq(stream, n + 1, Len(stream))
            /\ due' = stream[n].says
  BY DEF Recv, GoesTo
<1>2. PICK n \in 1..Len(stream) :
        /\ rx' = rx \o SubSeq(stream, 1, n)
        /\ stream' = SubSeq(stream, n + 1, Len(stream))
        /\ due' = stream[n].says
  BY <1>1
<1>3. ChannelTyped /\ OneReader /\ MessagesAreWhole
  BY DEF ChannelInv
<1>4. PICK x \in Seq(PartSet) : x = rx
  BY <1>3 DEF ChannelTyped
<1>5. PICK z \in Seq(PartSet) : z = stream
  BY <1>3 DEF ChannelTyped
<1>6. PICK w \in Seq(PartSet) : w = SubSeq(z, 1, n) /\ Len(w) = n /\ \A j \in 1 .. n : w[j] = z[j]
  <2>1. n \in 1 .. Len(z)
    BY <1>5
  <2>2. /\ SubSeq(z, 1, n) \in Seq(PartSet) /\ Len(SubSeq(z, 1, n)) = n
        /\ \A j \in 1 .. n : SubSeq(z, 1, n)[j] = z[j]
    BY <2>1, TakeFirst
  <2> QED
    BY <2>2
<1>7. PICK a \in Nat, b \in Nat : a = Len(x) /\ b = Len(z) - n /\ Len(z) = b + n
  BY <1>5
<1>8. /\ rx' \in Seq(PartSet) /\ Len(rx') = a + n
      /\ \A j \in 1 .. a + n : rx'[j] = IF j <= a THEN x[j] ELSE w[j - a]
  BY <1>2, <1>4, <1>5, <1>6, <1>7, ConcatProperties
<1>9. /\ stream' \in Seq(PartSet) /\ Len(stream') = b
      /\ \A j \in 1 .. b : stream'[j] = z[j + n]
  BY <1>2, <1>5, <1>7, LeaveFirst
<1>10. due' = z[n].says /\ z[n] \in PartSet /\ due' \in Tags
  <2>1. due' = z[n].says /\ z[n] \in PartSet
    BY <1>2, <1>5
  <2> QED
    BY <2>1 DEF PartSet
<1>11. /\ fd /\ OneReader'
       /\ at' \in [Swappers -> {"idle", "capture", "frame"} \cup Reading]
       /\ at'[t] = "parse"
       /\ \A u \in Swappers : u # t => at[u] \notin Reading /\ at'[u] \notin Reading
  BY <1>1, <1>3, ReaderSteps DEF Reading
<1>12. ChannelTyped'
  BY <1>1, <1>3, <1>8, <1>9, <1>10, <1>11 DEF ChannelTyped
<1>13. NothingIsLeft' /\ PipesAreWhole' /\ ReadIsRead' /\ ClosedAreBad'
  BY <1>1, <1>11 DEF NothingIsLeft, PipesAreWhole, ReadIsRead, ClosedAreBad, Reading
<1>14. MessagesAreWhole'
  <2> SUFFICES ASSUME ~again
               PROVE  Series(Queue', Queued', Known') /\ due' = IF rx' = <<>> THEN Known' ELSE rx'[Len(rx')].says
    BY <1>1 DEF MessagesAreWhole
  <2>1. Series(Queue, Queued, Known)
    BY <1>1, <1>3, <1>11 DEF MessagesAreWhole, Reading
  <2>2. Queued = a + n + b /\ Queued' = a + n + b /\ Known' = Known
    <3>1. Queued = a + (b + n) /\ Queued' = (a + n) + b
      BY <1>4, <1>5, <1>7, <1>8, <1>9 DEF Queued
    <3>2. Known' = Known
      BY <1>1 DEF Known
    <3>3. n \in Nat
      BY <1>5
    <3> QED
      BY <3>1, <3>2, <3>3
  <2>3. ASSUME NEW j \in 1 .. a + n + b PROVE Queue'[j] = Queue[j]
    <3>1. Queue[j] = IF j <= a THEN x[j] ELSE z[j - a]
      BY <1>4, <1>5, <1>7, <2>2 DEF Queue
    <3>2. Queue'[j] = IF j <= a + n THEN rx'[j] ELSE stream'[j - (a + n)]
      BY <1>8, <2>2 DEF Queue
    <3>3. CASE j <= a
      BY <1>8, <3>1, <3>2, <3>3
    <3>4. CASE ~(j <= a) /\ j <= a + n
      <4>1. j - a \in 1 .. n /\ j \in 1 .. a + n
        BY <3>4
      <4>2. rx'[j] = w[j - a]
        BY <1>8, <3>4, <4>1
      <4> QED
        BY <1>6, <3>1, <3>2, <3>4, <4>1, <4>2
    <3>5. CASE ~(j <= a + n)
      <4>1. j - (a + n) \in 1 .. b /\ (j - (a + n)) + n = j - a /\ ~(j <= a)
        BY <3>5
      <4> QED
        BY <1>9, <3>1, <3>2, <3>5, <4>1
    <3> QED
      BY <3>3, <3>4, <3>5
  <2>4. PICK q : q = Queue
    OBVIOUS
  <2>5. PICK r : r = Queue'
    OBVIOUS
  <2>6. PICK d : d = Known
    OBVIOUS
  <2>7. PICK p \in Nat : p = a + n + b
    OBVIOUS
  <2>8. Series(q, p, d) /\ \A j \in 1 .. p : r[j] = q[j] /\ q[j] \in PartSet
    BY <1>3, <2>1, <2>2, <2>3, <2>4, <2>5, <2>6, <2>7, QueueIs
  <2>9. Series(r, p, d)
    BY <2>8, SameSeries
  <2>10. rx' # <<>> /\ rx'[Len(rx')] = z[n]
    <3>1. a + n \in 1 .. a + n /\ ~(a + n <= a) /\ (a + n) - a = n /\ n \in 1 .. n
      OBVIOUS
    <3>2. rx'[a + n] = w[n]
      BY <1>8, <3>1
    <3> QED
      BY <1>6, <1>8, <3>1, <3>2
  <2> QED
    BY <1>10, <2>2, <2>5, <2>6, <2>7, <2>9, <2>10
<1> QED
  BY <1>11, <1>12, <1>13, <1>14 DEF ChannelInv

(* The first of what is received.                                           *)
LEMMA FirstReceived ==
  ASSUME ChannelTyped, rx # <<>>, Series(Queue, Queued, Known)
  PROVE  /\ rx[1].msg \in Messages
         /\ \A k \in 1 .. Size(rx[1].msg) :
               k <= Len(rx) => rx[k].says = Says(rx[1].msg, k, Known)
         /\ \A k \in 1 .. Len(rx) : rx[1].says.bad => rx[k].says = rx[1].says
<1>1. PICK x \in Seq(PartSet) : x = rx
  BY DEF ChannelTyped
<1>2. PICK a \in Nat, n \in Nat : a = Len(x) /\ n = Queued /\ 1 <= a /\ a <= n
  BY <1>1, QueueIs
<1>3. PICK q : q = Queue
  OBVIOUS
<1>4. PICK d : d = Known
  OBVIOUS
<1>5. \A j \in 1 .. a : q[j] = x[j]
  BY <1>1, <1>2, <1>3, QueueIs
<1>6. PICK m \in Messages : m = x[1].msg
  <2>1. x[1] \in PartSet
    BY <1>2
  <2> QED
    BY <2>1 DEF PartSet
<1>7. Series(q, n, d) /\ q[1].msg = m /\ n # 0
  BY <1>2, <1>3, <1>4, <1>5, <1>6
<1>8. \A k \in 1 .. Size(m) : q[k].says = Says(m, k, d)
  BY <1>7, FirstMessage
<1>9. Size(m) \in Nat
  BY MessageSizes
<1>10. \A k \in 1 .. Size(m) : k <= a => x[k].says = Says(m, k, d)
  BY <1>5, <1>8, <1>9
<1>11. ASSUME NEW k \in 1 .. a, x[1].says.bad PROVE x[k].says = x[1].says
  <2>1. 1 \in 1 .. n /\ k \in 1 .. n /\ 1 <= k /\ q[1] = x[1] /\ q[k] = x[k]
    BY <1>2, <1>5
  <2> QED
    BY <1>7, <1>11, <2>1 DEF Series
<1> QED
  BY <1>1, <1>2, <1>4, <1>6, <1>10, <1>11

(* A message is read: the queue is shorter by it, and what is known is what *)
(* its last part says.                                                      *)
LEMMA ConsumeKeeps ==
  ASSUME ChannelInv, NEW t \in Swappers, Consume(t)
  PROVE  ChannelInv'
<1>1. /\ at[t] = "parse" /\ Whole /\ rx[1].msg.kind # "bad"
      /\ rx' = SubSeq(rx, Size(rx[1].msg) + 1, Len(rx))
      /\ told' = Handle(rx[1].msg, told)
      /\ UNCHANGED <<build, open, stream, fd, due, again, at>>
  BY DEF Consume, host
<1>2. ChannelTyped /\ OneReader /\ MessagesAreWhole
  BY DEF ChannelInv
<1>3. PICK x \in Seq(PartSet) : x = rx
  BY <1>2 DEF ChannelTyped
<1>4. x # <<>> /\ Size(x[1].msg) <= Len(x) /\ x[1].msg.kind # "bad"
  BY <1>1, <1>3 DEF Whole
<1>5. PICK m \in Messages : m = x[1].msg
  <2>1. x[1] \in PartSet
    BY <1>4
  <2> QED
    BY <2>1 DEF PartSet
<1>6. PICK s \in Nat \ {0} : s = Size(m) /\ s <= Len(x)
  BY <1>4, <1>5, MessageSizes
<1>7. PICK a \in Nat : a = Len(x) - s /\ Len(x) = a + s
  BY <1>6
<1>8. rx' \in Seq(PartSet) /\ Len(rx') = a /\ \A j \in 1 .. a : rx'[j] = x[j + s]
  <2>1. rx' = SubSeq(x, s + 1, Len(x))
    BY <1>1, <1>3, <1>5, <1>6
  <2> QED
    BY <1>6, <1>7, <2>1, LeaveFirst
<1>9. told' \in Told
  BY <1>1, <1>2, <1>3, <1>4, <1>5, HandleTyped DEF ChannelTyped
<1>10. ChannelTyped'
  BY <1>1, <1>2, <1>8, <1>9 DEF ChannelTyped
<1>11. fd /\ OneReader' /\ \A u \in Swappers : at[u] # "close"
  BY <1>1, <1>2 DEF OneReader, Reading
<1>12. NothingIsLeft' /\ PipesAreWhole' /\ ReadIsRead' /\ ClosedAreBad'
  <2>1. build = "linux"
    BY <1>1, <1>2 DEF OneReader
  <2> QED
    BY <1>1, <1>11, <2>1 DEF NothingIsLeft, PipesAreWhole, ReadIsRead, ClosedAreBad
<1>13. MessagesAreWhole'
  <2> SUFFICES ASSUME ~again
               PROVE  Series(Queue', Queued', Known') /\ due' = IF rx' = <<>> THEN Known' ELSE rx'[Len(rx')].says
    BY <1>1 DEF MessagesAreWhole
  <2>1. Series(Queue, Queued, Known) /\ due = IF rx = <<>> THEN Known ELSE rx[Len(rx)].says
    BY <1>1, <1>2, <1>11 DEF MessagesAreWhole
  <2>2. PICK b \in Nat : b = Len(stream)
    BY <1>2, QueueIs
  <2>3. PICK n \in Nat : n = a + s + b
    OBVIOUS
  <2>4. Queued = n /\ Queued' = n - s /\ n - s = a + b /\ n # 0
    <3>1. Queued = (a + s) + b /\ Queued' = a + b
      BY <1>1, <1>3, <1>7, <1>8, <2>2 DEF Queued
    <3> QED
      BY <2>3, <3>1
  <2>5. ASSUME NEW j \in 1 .. a + b PROVE Queue'[j] = Queue[j + s]
    <3>1. Queue'[j] = IF j <= a THEN rx'[j] ELSE stream[j - a]
      BY <1>1, <1>8, <2>4 DEF Queue
    <3>2. j + s \in 1 .. n
      BY <2>3
    <3>3. Queue[j + s] = IF j + s <= a + s THEN x[j + s] ELSE stream[(j + s) - (a + s)]
      BY <1>3, <1>7, <2>4, <3>2 DEF Queue
    <3>4. (j + s) - (a + s) = j - a /\ (j + s <= a + s <=> j <= a)
      OBVIOUS
    <3>5. CASE j <= a
      BY <1>8, <3>1, <3>3, <3>4, <3>5
    <3>6. CASE ~(j <= a)
      BY <3>1, <3>3, <3>4, <3>6
    <3> QED
      BY <3>5, <3>6
  <2>6. PICK q : q = Queue
    OBVIOUS
  <2>7. PICK r : r = Queue'
    OBVIOUS
  <2>8. PICK d \in Tags : d = Known
    BY <1>2, QueueIs
  <2>9. Series(q, n, d) /\ \A j \in 1 .. n : q[j] \in PartSet
    BY <1>2, <2>1, <2>4, <2>6, <2>8, QueueIs
  <2>10. \A j \in 1 .. n - s : r[j] = q[j + s]
    BY <2>4, <2>5, <2>6, <2>7
  <2>11. q[1].msg = m /\ q[s] = x[s]
    <3>1. 1 \in 1 .. Len(x) /\ s \in 1 .. Len(x)
      BY <1>6
    <3> QED
      BY <1>2, <1>3, <1>5, <2>6, <3>1, QueueIs
  <2>12. Series(r, n - s, q[s].says)
    <3>1. \A j \in 1 .. n - Size(m) : r[j] = q[j + Size(m)]
      BY <1>6, <2>10
    <3>2. Series(r, n - Size(m), q[Size(m)].says)
      BY <2>4, <2>9, <2>11, <3>1, SeriesShrinks
    <3> QED
      BY <1>6, <3>2
  <2>13. x[s].says = Known'
    <3>1. rx # <<>>
      BY <1>3, <1>4
    <3>2. s \in 1 .. Size(rx[1].msg) /\ s <= Len(rx)
      BY <1>3, <1>5, <1>6
    <3>3. x[s].says = Says(m, s, d)
      BY <1>2, <1>3, <1>5, <2>1, <2>8, <3>1, <3>2, FirstReceived
    <3>4. d.bad = FALSE /\ d.told = told
      BY <2>8 DEF Known
    <3>5. Says(m, s, d) = [told |-> Handle(m, d.told), bad |-> FALSE]
      BY <1>4, <1>5, <1>6, <3>4, SaysIs
    <3>6. Known' = [told |-> Handle(m, told), bad |-> FALSE]
      BY <1>1, <1>3, <1>5 DEF Known
    <3> QED
      BY <3>3, <3>4, <3>5, <3>6
  <2>14. due' = IF rx' = <<>> THEN Known' ELSE rx'[Len(rx')].says
    <3>1. due' = x[a + s].says
      BY <1>1, <1>3, <1>4, <1>7, <2>1
    <3>2. CASE a = 0
      <4>1. rx' = <<>> /\ a + s = s
        BY <1>8, <3>2
      <4> QED
        BY <2>13, <3>1, <4>1
    <3>3. CASE a # 0
      <4>1. rx' # <<>> /\ a \in 1 .. a
        BY <1>8, <3>3
      <4>2. rx'[Len(rx')] = x[a + s]
        BY <1>8, <4>1
      <4> QED
        BY <3>1, <4>1, <4>2
    <3> QED
      BY <3>2, <3>3
  <2> QED
    BY <2>4, <2>7, <2>11, <2>12, <2>13, <2>14
<1> QED
  BY <1>10, <1>11, <1>12, <1>13 DEF ChannelInv

(* What is no message closes the channel: nothing behind it counts.         *)
LEMMA RejectKeeps ==
  ASSUME ChannelInv, NEW t \in Swappers, Reject(t)
  PROVE  ChannelInv'
<1>1. /\ at[t] = "parse" /\ rx # <<>> /\ rx[1].msg.kind = "bad" /\ at' = [at EXCEPT ![t] = "close"]
      /\ UNCHANGED <<build, open, stream, fd, rx, told, due, again>>
  BY DEF Reject, Whole, GoesTo, host, channel
<1>2. ChannelTyped /\ OneReader /\ MessagesAreWhole
  BY DEF ChannelInv
<1>3. /\ fd /\ OneReader'
      /\ at' \in [Swappers -> {"idle", "capture", "frame"} \cup Reading]
      /\ at'[t] = "close"
      /\ \A u \in Swappers : u # t => at[u] \notin Reading /\ at'[u] \notin Reading
  BY <1>1, <1>2, ReaderSteps DEF Reading
<1>4. ChannelTyped' /\ NothingIsLeft' /\ PipesAreWhole'
  BY <1>1, <1>3 DEF ChannelInv, ChannelTyped, NothingIsLeft, PipesAreWhole
<1>5. MessagesAreWhole' /\ ReadIsRead'
  BY <1>3 DEF MessagesAreWhole, ReadIsRead
<1>6. ClosedAreBad'
  <2> SUFFICES ASSUME ~again PROVE due.bad /\ told = due.told
    BY <1>1 DEF ClosedAreBad
  <2>1. Series(Queue, Queued, Known) /\ due = rx[Len(rx)].says
    BY <1>1, <1>2, <1>3 DEF MessagesAreWhole, Reading
  <2>2. PICK m \in Messages : m = rx[1].msg
    BY <1>1, <1>2, <2>1, FirstReceived
  <2>3. PICK x \in Seq(PartSet) : x = rx /\ 1 <= Len(x) /\ Len(x) \in 1 .. Len(x)
    BY <1>1, <1>2 DEF ChannelTyped
  <2>4. rx[1].says = Says(m, 1, Known)
    <3>1. 1 \in 1 .. Size(rx[1].msg) /\ 1 <= Len(rx)
      BY <2>2, <2>3, MessageSizes
    <3> QED
      BY <1>1, <1>2, <2>1, <2>2, <3>1, FirstReceived
  <2>5. Known \in Tags /\ Known.bad = FALSE /\ Known.told = told
    BY <1>2, QueueIs DEF Known
  <2>6. Says(m, 1, Known) = [told |-> told, bad |-> TRUE]
    BY <1>1, <2>2, <2>5, SaysIs
  <2>7. rx[1].says = [told |-> told, bad |-> TRUE] /\ rx[1].says.bad
    BY <2>4, <2>6
  <2>8. due = rx[1].says
    BY <1>1, <1>2, <2>1, <2>3, <2>7, FirstReceived
  <2> QED
    BY <2>7, <2>8
<1> QED
  BY <1>3, <1>4, <1>5, <1>6 DEF ChannelInv

LEMMA LeaveRestKeeps ==
  ASSUME ChannelInv, NEW t \in Swappers, LeaveRest(t)
  PROVE  ChannelInv'
<1>1. /\ at[t] = "parse" /\ ~Whole /\ at' = [at EXCEPT ![t] = "recv"]
      /\ UNCHANGED <<build, open, stream, fd, rx, told, due, again>>
  BY DEF LeaveRest, GoesTo, host, channel
<1>2. ChannelTyped /\ OneReader /\ MessagesAreWhole
  BY DEF ChannelInv
<1>3. /\ fd /\ OneReader'
      /\ at' \in [Swappers -> {"idle", "capture", "frame"} \cup Reading]
      /\ at'[t] = "recv"
      /\ \A u \in Swappers : u # t => at[u] \notin Reading /\ at'[u] \notin Reading
  BY <1>1, <1>2, ReaderSteps DEF Reading
<1>4. ChannelTyped' /\ NothingIsLeft' /\ PipesAreWhole'
  BY <1>1, <1>3 DEF ChannelInv, ChannelTyped, NothingIsLeft, PipesAreWhole
<1>5. Queue' = Queue /\ Queued' = Queued /\ Known' = Known /\ Whole' = Whole
  BY <1>1 DEF Queue, Queued, Known, Whole
<1>6. \A u \in Swappers : at[u] # "close" /\ at'[u] # "close"
  BY <1>1, <1>3 DEF Reading
<1>7. MessagesAreWhole' /\ ReadIsRead' /\ ClosedAreBad'
  BY <1>1, <1>2, <1>5, <1>6 DEF MessagesAreWhole, ReadIsRead, ClosedAreBad, Series, WholeAt, Before
<1> QED
  BY <1>3, <1>4, <1>7 DEF ChannelInv

(* A pipe gives out one message whole.                                      *)
LEMMA PeekKeeps ==
  ASSUME ChannelInv, NEW t \in Swappers, Peek(t)
  PROVE  ChannelInv'
<1>1. /\ at[t] = "recv" /\ build = "windows" /\ stream # <<>>
      /\ UNCHANGED <<build, open, fd, rx, again>>
      /\ IF stream[1].msg.kind # "bad" /\ Size(stream[1].msg) > Cap
         THEN GoesTo(t, "close") /\ UNCHANGED <<stream, told, due>>
         ELSE /\ stream' = SubSeq(stream, Size(stream[1].msg) + 1, Len(stream))
              /\ due' = stream[Size(stream[1].msg)].says
              /\ HandleMessage(t, stream[1].msg)
  BY DEF Peek
<1>2. ChannelTyped /\ OneReader /\ MessagesAreWhole /\ rx = <<>> /\ ~again
  BY <1>1 DEF ChannelInv, PipesAreWhole
<1>3. PICK z \in Seq(PartSet) : z = stream
  BY <1>2 DEF ChannelTyped
<1>4. PICK m \in Messages : m = z[1].msg
  <2>1. z[1] \in PartSet
    BY <1>1, <1>3
  <2> QED
    BY <2>1 DEF PartSet
<1>5. fd /\ \A u \in Swappers : at[u] # "close"
  BY <1>1, <1>2 DEF OneReader, Reading
<1>6. Series(Queue, Queued, Known) /\ due = Known
  BY <1>2, <1>5 DEF MessagesAreWhole
<1>7. PICK q : q = Queue
  OBVIOUS
<1>8. PICK d \in Tags : d = Known
  BY <1>2, QueueIs
<1>9. PICK n \in Nat : n = Len(z) /\ n # 0 /\ n = Queued /\ Len(rx) = 0
  <2>1. Len(z) \in Nat /\ Len(z) # 0
    BY <1>1, <1>3
  <2> QED
    BY <1>2, <1>3, <2>1 DEF Queued
<1>10. \A j \in 1 .. n : q[j] = z[j] /\ q[j] \in PartSet
  <2> SUFFICES ASSUME NEW j \in 1 .. n PROVE q[j] = z[j] /\ q[j] \in PartSet
    OBVIOUS
  <2>1. 0 + j = j
    OBVIOUS
  <2> QED
    BY <1>2, <1>3, <1>7, <1>9, <2>1, QueueIs
<1>11. Series(q, n, d) /\ q[1].msg = m
  <2>1. 1 \in 1 .. n
    BY <1>9
  <2> QED
    BY <1>4, <1>6, <1>7, <1>8, <1>9, <1>10, <2>1
<1>12. PICK s \in Nat \ {0} : s = Size(m) /\ s <= n /\ s <= Cap
  <2>1. Size(m) <= n
    BY <1>9, <1>11, FirstMessage
  <2>2. Size(m) \in Nat \ {0} /\ Size(m) <= Cap
    BY MessageSizes
  <2> QED
    BY <2>1, <2>2
<1>13. q[s].says = Says(m, s, d) /\ s \in 1 .. n
  BY <1>9, <1>11, <1>12, FirstMessage
<1>14. /\ stream' = SubSeq(z, s + 1, Len(z)) /\ due' = z[s].says
       /\ HandleMessage(t, m)
  <2>1. ~(Size(stream[1].msg) > Cap)
    BY <1>3, <1>4, <1>12, MessageSizes
  <2> QED
    BY <1>1, <1>3, <1>4, <1>12, <2>1
<1>15. stream' \in Seq(PartSet) /\ Len(stream') = n - s /\ \A j \in 1 .. n - s : stream'[j] = z[j + s]
  <2>1. stream' = SubSeq(z, s + 1, Len(z)) /\ s <= Len(z)
    BY <1>9, <1>12, <1>14
  <2>2. s \in Nat
    OBVIOUS
  <2>3. /\ SubSeq(z, s + 1, Len(z)) \in Seq(PartSet)
        /\ Len(SubSeq(z, s + 1, Len(z))) = Len(z) - s
        /\ \A j \in 1 .. Len(z) - s : SubSeq(z, s + 1, Len(z))[j] = z[j + s]
    BY <2>1, <2>2, LeaveFirst
  <2> QED
    BY <1>9, <2>1, <2>3
<1>16. PICK step \in {"recv", "close"} :
          /\ at' = [at EXCEPT ![t] = step]
          /\ m.kind = "bad" => step = "close" /\ told' = told
          /\ m.kind # "bad" => step = "recv" /\ told' = Handle(m, told)
  BY <1>14 DEF HandleMessage, GoesTo
<1>17. /\ OneReader'
       /\ at' \in [Swappers -> {"idle", "capture", "frame"} \cup Reading]
       /\ at'[t] = step
       /\ \A u \in Swappers : u # t => at[u] \notin Reading /\ at'[u] \notin Reading
  BY <1>1, <1>2, <1>16, ReaderSteps DEF Reading
<1>18. d.bad = FALSE /\ d.told = told /\ told \in Told
  BY <1>2, <1>8 DEF Known, ChannelTyped
<1>19. due' = Says(m, s, d) /\ due' \in Tags
  BY <1>10, <1>13, <1>14, SaysIs
<1>20. told' \in Told
  BY <1>16, <1>18, HandleTyped
<1>21. ChannelTyped'
  BY <1>1, <1>2, <1>15, <1>17, <1>19, <1>20 DEF ChannelTyped
<1>22. NothingIsLeft' /\ PipesAreWhole' /\ ReadIsRead'
  BY <1>1, <1>2, <1>5 DEF NothingIsLeft, PipesAreWhole, ReadIsRead, Whole
<1>23. CASE m.kind = "bad"
  <2>1. MessagesAreWhole'
    BY <1>16, <1>17, <1>23 DEF MessagesAreWhole
  <2>2. due' = [told |-> told, bad |-> TRUE]
    BY <1>18, <1>19, <1>23, SaysIs
  <2>3. due'.bad = TRUE /\ due'.told = told'
    BY <1>16, <1>23, <2>2
  <2>4. ClosedAreBad'
    BY <2>3 DEF ClosedAreBad
  <2> QED
    BY <1>17, <1>21, <1>22, <2>1, <2>4 DEF ChannelInv
<1>24. CASE m.kind # "bad"
  <2>1. due' = [told |-> Handle(m, told), bad |-> FALSE]
    BY <1>12, <1>18, <1>19, <1>24, SaysIs
  <2>2. due' = Known'
    BY <1>16, <1>24, <2>1 DEF Known
  <2>3. PICK r : r = Queue'
    OBVIOUS
  <2>4. n - s \in Nat /\ Queued' = n - s
    <3>1. Len(rx') = 0
      BY <1>1, <1>9
    <3> QED
      BY <1>12, <1>15, <3>1 DEF Queued
  <2>5. \A j \in 1 .. n - s : r[j] = q[j + s]
    <3> SUFFICES ASSUME NEW j \in 1 .. n - s PROVE r[j] = q[j + s]
      OBVIOUS
    <3>1. Queue'[j] = IF j <= 0 THEN rx'[j] ELSE stream'[j - 0]
      BY <1>1, <1>9, <2>4 DEF Queue
    <3>2. ~(j <= 0) /\ j - 0 = j /\ j + s \in 1 .. n
      BY <1>12
    <3> QED
      BY <1>10, <1>15, <2>3, <3>1, <3>2
  <2>6. Series(r, n - s, q[s].says)
    <3>1. \A j \in 1 .. n - Size(m) : r[j] = q[j + Size(m)]
      BY <1>12, <2>5
    <3>2. \A j \in 1 .. n : q[j] \in PartSet
      BY <1>10
    <3>3. Series(r, n - Size(m), q[Size(m)].says)
      BY <1>9, <1>11, <3>1, <3>2, SeriesShrinks
    <3> QED
      BY <1>12, <3>3
  <2>7. q[s].says = Known'
    BY <1>13, <1>19, <2>2
  <2>8. Series(r, n - s, Known')
    BY <2>6, <2>7
  <2>9. MessagesAreWhole'
    BY <1>1, <1>2, <2>2, <2>3, <2>4, <2>8 DEF MessagesAreWhole
  <2>10. ClosedAreBad'
    BY <1>16, <1>17, <1>24 DEF ClosedAreBad, Reading
  <2> QED
    BY <1>17, <1>21, <1>22, <2>9, <2>10 DEF ChannelInv
<1> QED
  BY <1>23, <1>24

(* Nothing of a connection is left when it is closed.                       *)
LEMMA CloseKeeps ==
  ASSUME ChannelInv, NEW t \in Swappers, Close(t)
  PROVE  ChannelInv'
<1>1. /\ at[t] \in {"recv", "close"} /\ at' = [at EXCEPT ![t] = "capture"]
      /\ fd' = FALSE /\ open' = FALSE /\ stream' = <<>>
      /\ rx' = <<>> /\ told' = Silent
      /\ due' = [told |-> Silent, bad |-> FALSE] /\ again' = FALSE
      /\ UNCHANGED build
  BY DEF Close, GoesTo
<1>2. \A u \in Swappers : u # t => at[u] \notin Reading
  BY <1>1 DEF ChannelInv, OneReader, Reading
<1>3. /\ at' \in [Swappers -> {"idle", "capture", "frame"} \cup Reading]
      /\ \A u \in Swappers : at'[u] \notin Reading
  BY <1>1, <1>2 DEF ChannelInv, ChannelTyped, Reading
<1>4. Silent \in Told
  BY DEF Silent, Told
<1>5. due' \in Tags
  BY <1>1, <1>4 DEF Tags
<1>6. rx' \in Seq(PartSet) /\ stream' \in Seq(PartSet)
  BY <1>1
<1>7. ChannelTyped'
  BY <1>1, <1>3, <1>4, <1>5, <1>6 DEF ChannelTyped
<1>8. OneReader' /\ NothingIsLeft' /\ PipesAreWhole'
  BY <1>1, <1>3 DEF OneReader, NothingIsLeft, PipesAreWhole, Reading
<1>9. ReadIsRead' /\ ClosedAreBad'
  BY <1>1, <1>3 DEF ReadIsRead, ClosedAreBad, Whole, Reading
<1>10. Queued' = 0 /\ due' = Known'
  BY <1>1 DEF Queued, Known
<1>11. MessagesAreWhole'
  BY <1>1, <1>10 DEF MessagesAreWhole, Series
<1> QED
  BY <1>7, <1>8, <1>9, <1>11 DEF ChannelInv

LEMMA InitAgainKeeps ==
  ASSUME ChannelInv, InitAgain
  PROVE  ChannelInv'
<1>1. /\ build = "linux" /\ \A t \in Swappers : at[t] \notin Reading
      /\ fd' = FALSE /\ again' = TRUE /\ told' = [told EXCEPT !.allowed = FALSE]
      /\ UNCHANGED <<build, open, stream, rx, due, at>>
  BY DEF InitAgain, host
<1>2. told' \in Told
  BY <1>1 DEF ChannelInv, ChannelTyped, Told
<1>3. ChannelTyped'
  BY <1>1, <1>2 DEF ChannelInv, ChannelTyped
<1>4. OneReader' /\ NothingIsLeft' /\ PipesAreWhole'
  BY <1>1 DEF OneReader, NothingIsLeft, PipesAreWhole, Reading
<1>5. MessagesAreWhole' /\ ReadIsRead' /\ ClosedAreBad'
  BY <1>1 DEF MessagesAreWhole, ReadIsRead, ClosedAreBad
<1> QED
  BY <1>3, <1>4, <1>5 DEF ChannelInv

LEMMA ChannelInvKept == ChannelInv /\ [ChannelNext]_channelVars => ChannelInv'
<1> SUFFICES ASSUME ChannelInv, [ChannelNext]_channelVars PROVE ChannelInv'
  OBVIOUS
<1>1. open \in BOOLEAN
  BY DEF ChannelInv, ChannelTyped
<1>2. ASSUME NEW m \in Messages, Send(m) PROVE ChannelInv'
  BY <1>2, SendKeeps
<1>3. ASSUME UNCHANGED <<build, stream, fd, rx, told, due, again, at>>, open' \in BOOLEAN, open' => open
      PROVE  ChannelInv'
  <2>1. at' \in [Swappers -> {"idle", "capture", "frame"} \cup Reading]
    BY <1>3 DEF ChannelInv, ChannelTyped
  <2> QED
    BY <1>3, <2>1, ElsewhereKeeps
<1>4. CASE HostCloses
  BY <1>3, <1>4 DEF HostCloses, channel
<1>5. CASE Ask \/ TakeAnswer
  BY <1>1, <1>3, <1>5 DEF Ask, TakeAnswer, host, channel
<1>6. CASE InitAgain
  BY <1>6, InitAgainKeeps
<1>7. ASSUME NEW t \in Swappers, NEW step \in {"idle", "capture", "frame"},
             at[t] \notin {"parse", "close"}, GoesTo(t, step), UNCHANGED <<host, channel>>
      PROVE  ChannelInv'
  <2>1. at' = [at EXCEPT ![t] = step] /\ UNCHANGED <<build, open, stream, fd, rx, told, due, again>>
    BY <1>7 DEF GoesTo, host, channel
  <2>2. /\ at' \in [Swappers -> {"idle", "capture", "frame"} \cup Reading]
        /\ \A u \in Swappers : at'[u] = at[u] \/ (u = t /\ at'[u] = step)
        /\ step \notin Reading
    BY <2>1 DEF ChannelInv, ChannelTyped, Reading
  <2> QED
    BY <1>1, <1>7, <2>1, <2>2, ElsewhereKeeps
<1>8. ASSUME NEW t \in Swappers, Present(t) PROVE ChannelInv'
  BY <1>7, <1>8 DEF Present
<1>9. ASSUME NEW t \in Swappers, Update(t) PROVE ChannelInv'
  BY <1>9, UpdateKeeps
<1>10. ASSUME NEW t \in Swappers, Works(t) PROVE ChannelInv'
  <2>1. CASE Recv(t)
    BY <2>1, RecvKeeps
  <2>2. CASE Consume(t)
    BY <2>2, ConsumeKeeps
  <2>3. CASE Reject(t)
    BY <2>3, RejectKeeps
  <2>4. CASE LeaveRest(t)
    BY <2>4, LeaveRestKeeps
  <2>5. CASE Peek(t)
    BY <2>5, PeekKeeps
  <2>6. CASE Drained(t)
    BY <1>7, <2>6 DEF Drained
  <2>7. CASE Close(t)
    BY <2>7, CloseKeeps
  <2>8. CASE StopStart(t)
    BY <1>7, <2>8 DEF StopStart
  <2>9. CASE Drain(t) \/ Deliver(t)
    BY <1>7, <2>9 DEF Drain, Deliver
  <2>10. CASE CopyFails(t) \/ NoFrame(t)
    BY <1>7, <2>10 DEF CopyFails, NoFrame
  <2> QED
    BY <1>10, <2>1, <2>2, <2>3, <2>4, <2>5, <2>6, <2>7, <2>8, <2>9, <2>10 DEF Works
<1>11. CASE UNCHANGED channelVars
  BY <1>1, <1>3, <1>11 DEF channelVars
<1> QED
  BY <1>2, <1>4, <1>5, <1>6, <1>8, <1>9, <1>10, <1>11 DEF ChannelNext

(* The invariant of the channel holds always.                               *)
THEOREM ChannelHolds == ChannelSpec => []ChannelInv
<1>1. ChannelInit => ChannelInv
  BY ChannelStarts
<1>2. ChannelInv /\ [ChannelNext]_channelVars => ChannelInv'
  BY ChannelInvKept
<1> QED
  BY <1>1, <1>2, PTL DEF ChannelSpec

(* Between two looks the first of what is received is not all there, and    *)
(* its parts so far say nothing.                                            *)
LEMMA InvKnows == ChannelInv => KnowsWhatWasSaid
<1> SUFFICES ASSUME ChannelInv, ~again PROVE KnowsWhatWasSaid
  BY DEF KnowsWhatWasSaid
<1>1. ~fd => told = Silent
  BY DEF ChannelInv, NothingIsLeft
<1>2. ASSUME \A t \in Swappers : at[t] # "parse" PROVE told = due.told
  <2>1. CASE \E t \in Swappers : at[t] = "close"
    BY <2>1 DEF ChannelInv, ClosedAreBad
  <2>2. CASE \A t \in Swappers : at[t] # "close"
    <3>1. /\ Series(Queue, Queued, Known) /\ due = IF rx = <<>> THEN Known ELSE rx[Len(rx)].says
          /\ ~Whole /\ ChannelTyped
      BY <1>2, <2>2 DEF ChannelInv, MessagesAreWhole, ReadIsRead
    <3>2. CASE rx = <<>>
      BY <3>1, <3>2 DEF Known
    <3>3. CASE rx # <<>>
      <4>1. PICK x \in Seq(PartSet) : x = rx
        BY <3>1 DEF ChannelTyped
      <4>2. PICK n \in Nat \ {0} : n = Len(x)
        BY <3>3, <4>1
      <4>3. PICK m \in Messages : m = rx[1].msg
        BY <3>1, <3>3, FirstReceived
      <4>4. Size(m) \in Nat /\ m.kind # "bad" /\ n < Size(m)
        BY <3>1, <3>3, <4>1, <4>2, <4>3, MessageSizes DEF Whole
      <4>5. x[n].says = Says(m, n, Known)
        <5>1. n \in 1 .. Size(rx[1].msg) /\ n <= Len(rx)
          BY <4>1, <4>2, <4>3, <4>4
        <5> QED
          BY <3>1, <3>3, <4>1, <4>3, <5>1, FirstReceived
      <4>6. Known \in Tags /\ Known.bad = FALSE /\ Known.told = told
        BY <3>1, QueueIs DEF Known
      <4>7. Says(m, n, Known) = [told |-> told, bad |-> FALSE]
        BY <4>4, <4>6, SaysIs
      <4> QED
        BY <3>1, <3>3, <4>1, <4>2, <4>5, <4>7
    <3> QED
      BY <3>2, <3>3
  <2> QED
    BY <2>1, <2>2
<1> QED
  BY <1>1, <1>2 DEF KnowsWhatWasSaid

(* However recv cuts the messages, of whatever sizes, and whichever thread  *)
(* reads them, the overlay knows what those that are complete say, and      *)
(* nothing of a connection that is gone.                                    *)
THEOREM WhatWasSaidIsKnown == ChannelSpec => []KnowsWhatWasSaid
BY ChannelHolds, InvKnows, PTL

(* The buffer is never full of a message that is not all there.             *)
LEMMA InvLeaves == ChannelInv /\ [ChannelNext]_channelVars => [fd /\ ~fd' => ~open \/ due.bad \/ again \/ again']_channelVars
<1> SUFFICES ASSUME ChannelInv, [ChannelNext]_channelVars, fd, ~fd', ~again, ~again'
             PROVE  ~open \/ due.bad
  OBVIOUS
<1>1. PICK t \in Swappers : Close(t)
  <2>1. ~UNCHANGED channelVars
    BY DEF channelVars
  <2>2. \A m \in Messages : ~Send(m)
    BY DEF Send, channel
  <2>3. ~HostCloses /\ ~Ask /\ ~TakeAnswer
    BY DEF HostCloses, Ask, TakeAnswer, channel
  <2>4. ~InitAgain
    BY DEF InitAgain
  <2>5. \A u \in Swappers : ~Present(u) /\ ~Update(u)
    BY DEF Present, Update, channel, host
  <2>6. \A u \in Swappers : ~Recv(u) /\ ~Consume(u) /\ ~Reject(u) /\ ~LeaveRest(u) /\ ~Peek(u) /\ ~Drained(u)
    BY DEF Recv, Consume, Reject, LeaveRest, Peek, Drained, channel
  <2>7. \A u \in Swappers : ~StopStart(u) /\ ~Drain(u) /\ ~Deliver(u) /\ ~CopyFails(u) /\ ~NoFrame(u)
    BY DEF StopStart, Drain, Deliver, CopyFails, NoFrame, channel
  <2> QED
    BY <2>1, <2>2, <2>3, <2>4, <2>5, <2>6, <2>7 DEF ChannelNext, Works
<1>2. CASE at[t] = "close"
  BY <1>2 DEF ChannelInv, ClosedAreBad
<1>3. CASE at[t] = "recv" /\ Len(rx) >= Cap
  <2>1. \A u \in Swappers : at[u] \notin {"parse", "close"}
    BY <1>3 DEF ChannelInv, OneReader, Reading
  <2>2. ~Whole /\ ChannelTyped /\ Series(Queue, Queued, Known)
    BY <2>1 DEF ChannelInv, ReadIsRead, MessagesAreWhole
  <2>3. rx # <<>> /\ Len(rx) \in Nat
    BY <1>3, <2>2, MessageSizes DEF ChannelTyped
  <2>4. PICK m \in Messages : m = rx[1].msg
    BY <2>2, <2>3, FirstReceived
  <2>5. Size(m) > Len(rx)
    BY <2>2, <2>3, <2>4, MessageSizes DEF Whole
  <2> QED
    BY <1>3, <2>3, <2>5, MessageSizes
<1> QED
  BY <1>1, <1>2, <1>3 DEF Close

(* The overlay leaves a host that has closed the connection or has sent     *)
(* what is no message, and no other: rx_buf always has room.                *)
THEOREM OnlyTheGoneAreLeft == ChannelSpec => LeavesOnlyTheGone
<1>1. ChannelInv /\ [ChannelNext]_channelVars =>
         [fd /\ ~fd' => ~open \/ due.bad \/ again \/ again']_channelVars
  BY InvLeaves
<1> QED
  BY <1>1, ChannelHolds, PTL DEF ChannelSpec, LeavesOnlyTheGone
=============================================================================
