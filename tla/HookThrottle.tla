---------------------------- MODULE HookThrottle ----------------------------
(***************************************************************************)
(* How the Unity plugin switches hooks off that are called too often: the  *)
(* head of sink_handler, check_fuse, enforce_budget and mute, run by the   *)
(* game's threads without a lock.                                          *)
(*                                                                         *)
(* Atomic members are read and written in one step each; ++strikes, which  *)
(* is not atomic, is a load and a store.  A call may be preempted for at   *)
(* most Stall ticks.  Times are counted modulo Wrap (2^32 ms in the code)  *)
(* and 0 means "none", as in the code.                                     *)
(***************************************************************************)
EXTENDS Integers

CONSTANTS
    SpecCount,   \* g_spec_count: the hooks that are installed
    Callers,     \* game threads
    CheckEach,   \* kBudgetCheckEach
    Window,      \* kBudgetWindowMs
    Rate,        \* kMaxCallsPerSec, in calls per tick
    FuseCalls,   \* kFuseCalls
    FuseTicks,   \* FuseCalls calls in less time than this blow the fuse
    Pauses,      \* the pauses: <<kMuteFirstMs, kMuteSecondMs>>
    Wrap,        \* tick_ms() counts modulo Wrap
    Start,       \* the time at which the first hook is installed
    MaxTime,     \* bound: the clock stops there
    MaxCalls,    \* bound: calls of hooked functions in all
    Stall        \* bound: how long a call of sink_handler may last

ASSUME ThrottleAssumption ==
    /\ {SpecCount, CheckEach, Window, FuseCalls, Wrap} \subseteq Nat \ {0}
    /\ {Rate, FuseTicks, Start, MaxTime, MaxCalls, Stall} \subseteq Nat
    /\ Pauses \in [1 .. 2 -> Nat]
    /\ 2 * Stall < Window
    /\ 2 * Stall < Pauses[1]
    /\ Pauses[1] <= Pauses[2]
    /\ Pauses[2] + Stall < Wrap \div 2

MaxStrikes == 3

VARIABLES
    clock,
    total,       \* g_total_calls
    wstart,      \* g_window_start
    on,          \* SinkSpec::kind is not None
    calls,       \* SinkSpec::calls
    fuse,        \* SinkSpec::fuse_start
    until,       \* SinkSpec::muted_until
    strikes,     \* SinkSpec::strikes
    count,       \* enforce_budget's calls[]
    seen,        \* enforce_budget's seen[]
    th,          \* per thread: the call of sink_handler it is in
    offs,        \* history: how often a sink was switched off
    offFor,      \* history: ticks since it was last switched off or muted again
    crowded      \* history: two threads have swept at once

spec == <<on, calls, fuse, until, strikes>>
budget == <<total, wstart, count, seen>>
switches == <<offs, offFor>>
throttleVars == <<clock, spec, budget, th, switches, crowded>>

Sinks == 0 .. SpecCount - 1

Out == [at |-> "out", sink |-> 0, since |-> 0, now |-> 0, start |-> 0, next |-> "out",
        hot |-> 0, n |-> 0, sum |-> 0, id |-> 0]

Now == clock % Wrap
NonZero(v) == IF v = 0 THEN 1 ELSE v
Elapsed(now, start) == (Wrap + now - start) % Wrap

(* static_cast<int32_t>(now - until) >= 0 *)
Over(now, then) == Elapsed(now, then) < Wrap \div 2

ThrottleInit ==
    /\ clock = Start /\ total = 0 /\ wstart = 0
    /\ on = [s \in Sinks |-> TRUE]
    /\ calls = [s \in Sinks |-> 0]
    /\ fuse = [s \in Sinks |-> 0]
    /\ until = [s \in Sinks |-> 0]
    /\ strikes = [s \in Sinks |-> 0]
    /\ count = [s \in Sinks |-> 0]
    /\ seen = [s \in Sinks |-> 0]
    /\ th = [t \in Callers |-> Out]
    /\ offs = [s \in Sinks |-> 0]
    /\ offFor = [s \in Sinks |-> Pauses[2]]
    /\ crowded = FALSE

Tick ==
    /\ clock < MaxTime
    /\ \A t \in Callers : th[t].at # "out" => clock - th[t].since < Stall
    /\ clock' = clock + 1
    /\ offFor' = [s \in Sinks |-> IF offFor[s] < Pauses[2] THEN offFor[s] + 1 ELSE Pauses[2]]
    /\ UNCHANGED <<spec, budget, th, offs, crowded>>

-----------------------------------------------------------------------------
GoesOn(t, step) == th' = [th EXCEPT ![t].at = step]
Leaves(t) == th' = [th EXCEPT ![t] = Out]

(* Back in sink_handler. *)
Resumes(t, step) ==
    th' = [th EXCEPT ![t] = [Out EXCEPT !.at = step, !.sink = th[t].sink, !.since = th[t].since]]

(* A hooked function is called; a sink whose kind is None does nothing. *)
Enter(t, s) ==
    /\ th[t].at = "out"
    /\ on[s]
    /\ total < MaxCalls
    /\ th' = [th EXCEPT ![t] = [Out EXCEPT !.at = "count", !.sink = s, !.since = clock]]
    /\ UNCHANGED <<clock, spec, budget, switches, crowded>>

(* g_total_calls.fetch_add(1) % kBudgetCheckEach == 0 *)
Count(t) ==
    /\ th[t].at = "count"
    /\ total' = total + 1
    /\ GoesOn(t, IF total % CheckEach = 0 THEN "budget" ELSE "check")
    /\ UNCHANGED <<clock, spec, wstart, count, seen, switches, crowded>>

Muted(s) == until[s] # 0

(* The two looks at muted_until, before the call is counted and after the   *)
(* fuse was checked.                                                        *)
Check(t) ==
    /\ th[t].at \in {"check", "recheck"}
    /\ IF Muted(th[t].sink) THEN Leaves(t)
       ELSE GoesOn(t, IF th[t].at = "check" THEN "call" ELSE "report")
    /\ UNCHANGED <<clock, spec, budget, switches, crowded>>

(* spec.calls.fetch_add(1) *)
CountCall(t) ==
    /\ th[t].at = "call"
    /\ calls' = [calls EXCEPT ![th[t].sink] = @ + 1]
    /\ GoesOn(t, IF (calls[th[t].sink] + 1) % FuseCalls = 0 THEN "fuse" ELSE "report")
    /\ UNCHANGED <<clock, on, fuse, until, strikes, budget, switches, crowded>>

(* The text is read from the arguments and sent, unless kind is None now.   *)
Report(t) ==
    /\ th[t].at = "report"
    /\ Leaves(t)
    /\ UNCHANGED <<clock, spec, budget, switches, crowded>>

-----------------------------------------------------------------------------
(* check_fuse: the time is read ... *)
Fuse(t) ==
    /\ th[t].at = "fuse"
    /\ th' = [th EXCEPT ![t].at = "exchange", ![t].now = Now]
    /\ UNCHANGED <<clock, spec, budget, switches, crowded>>

(* ... and exchanged for that of the last check, which another thread may   *)
(* have stored with a later time: the difference is then huge.              *)
Exchange(t) ==
    LET s == th[t].sink IN
    /\ th[t].at = "exchange"
    /\ fuse' = [fuse EXCEPT ![s] = NonZero(th[t].now)]
    /\ IF fuse[s] # 0 /\ Elapsed(th[t].now, fuse[s]) < FuseTicks
       THEN th' = [th EXCEPT ![t].at = "mute", ![t].hot = s, ![t].next = "recheck"]
       ELSE Resumes(t, "recheck")
    /\ UNCHANGED <<clock, on, calls, until, strikes, budget, switches, crowded>>

(* mute: ++spec.strikes is a load ... *)
LoadStrikes(t) ==
    /\ th[t].at = "mute"
    /\ th' = [th EXCEPT ![t].at = "strike", ![t].n = strikes[th[t].hot] + 1]
    /\ UNCHANGED <<clock, spec, budget, switches, crowded>>

(* Mutated: a hook that is muted again has no strike more. *)
StoreStrikes_Once(t) ==
    /\ th[t].at = "strike"
    /\ strikes' = [strikes EXCEPT ![th[t].hot] = IF @ = 0 THEN 1 ELSE @]
    /\ GoesOn(t, "switch")
    /\ UNCHANGED <<clock, on, calls, fuse, until, budget, switches, crowded>>

(* ... and a store ... *)
StoreStrikes(t) ==
    /\ th[t].at = "strike"
    /\ strikes' = [strikes EXCEPT ![th[t].hot] = th[t].n]
    /\ GoesOn(t, "switch")
    /\ UNCHANGED <<clock, on, calls, fuse, until, budget, switches, crowded>>

Pause(n) == IF n = 1 THEN Pauses[1] ELSE Pauses[2]

(* When a pause of strike n that begins now is over. *)
Deadline(now, n) == NonZero((now + Pause(n)) % Wrap)

(* ... and the hook is switched off, for a while or for good.  The strikes  *)
(* may be read again for the pause.                                         *)
Switch(t) ==
    LET s == th[t].hot IN
    /\ th[t].at = "switch"
    /\ IF th[t].n >= MaxStrikes
       THEN on' = [on EXCEPT ![s] = FALSE] /\ UNCHANGED until
       ELSE /\ \E n \in {th[t].n, strikes[s]} :
                  until' = [until EXCEPT ![s] = Deadline(th[t].now, n)]
            /\ UNCHANGED on
    /\ offs' = [offs EXCEPT ![s] = IF on[s] /\ until[s] = 0 THEN @ + 1 ELSE @]
    /\ offFor' = [offFor EXCEPT ![s] = 0]
    /\ IF th[t].next = "trim" THEN GoesOn(t, "trim") ELSE Resumes(t, "recheck")
    /\ UNCHANGED <<clock, calls, fuse, strikes, budget, crowded>>

-----------------------------------------------------------------------------
(* enforce_budget: the time is read ... *)
Budget(t) ==
    /\ th[t].at = "budget"
    /\ th' = [th EXCEPT ![t].at = "window", ![t].now = Now]
    /\ UNCHANGED <<clock, spec, budget, switches, crowded>>

(* ... the first call starts the window, later ones look whether it is      *)
(* over ...                                                                 *)
LookAtWindow(t) ==
    /\ th[t].at = "window"
    /\ IF wstart = 0 THEN GoesOn(t, "first")
       ELSE IF Elapsed(th[t].now, wstart) < Window THEN Resumes(t, "check")
       ELSE th' = [th EXCEPT ![t].at = "claim", ![t].start = wstart]
    /\ UNCHANGED <<clock, spec, budget, switches, crowded>>

(* ... unless another thread was first ...                                  *)
FirstWindow(t) ==
    /\ th[t].at = "first"
    /\ wstart' = IF wstart = 0 THEN NonZero(th[t].now) ELSE wstart
    /\ Resumes(t, "check")
    /\ UNCHANGED <<clock, spec, total, count, seen, switches, crowded>>

Sweeping(t) == th[t].at \in {"sweep", "lift", "trim"} \/ th[t].next = "trim"

(* t wins the window that its now ends. *)
Wins(t) ==
    /\ wstart' = NonZero(th[t].now)
    /\ th' = [th EXCEPT ![t].at = "sweep", ![t].id = 0]
    /\ crowded' = (crowded \/ \E u \in Callers : Sweeping(u))

(* Mutated: the window is stored without the compare. *)
ClaimWindow_Stores(t) ==
    /\ th[t].at = "claim"
    /\ Wins(t)
    /\ UNCHANGED <<clock, spec, total, count, seen, switches>>

(* ... one of them wins it and goes through all the sinks ... *)
ClaimWindow(t) ==
    /\ th[t].at = "claim"
    /\ IF wstart = th[t].start THEN Wins(t)
       ELSE Resumes(t, "check") /\ UNCHANGED <<wstart, crowded>>
    /\ UNCHANGED <<clock, spec, total, count, seen, switches>>

(* The sweep counts the calls of a sink since the last one. *)
Counts(t, s) ==
    LET made == calls[s] - seen[s] IN
    /\ count' = [count EXCEPT ![s] = made]
    /\ seen' = [seen EXCEPT ![s] = calls[s]]
    /\ th' = [th EXCEPT ![t].id = IF s + 1 < SpecCount THEN s + 1 ELSE 0, ![t].sum = @ + made,
                        ![t].at = IF s + 1 < SpecCount THEN "sweep" ELSE "trim"]

(* Mutated: a sink is switched on again at the end of any window. *)
Sweep_AnyWindow(t) ==
    LET s == th[t].id IN
    /\ th[t].at = "sweep"
    /\ IF Muted(s)
       THEN GoesOn(t, "lift") /\ UNCHANGED <<count, seen>>
       ELSE Counts(t, s)
    /\ UNCHANGED <<clock, spec, total, wstart, switches, crowded>>

(* ... looks for sinks whose pause is over ... *)
Sweep(t) ==
    LET s == th[t].id IN
    /\ th[t].at = "sweep"
    /\ IF Muted(s) /\ Over(th[t].now, until[s])
       THEN GoesOn(t, "lift") /\ UNCHANGED <<count, seen>>
       ELSE Counts(t, s)
    /\ UNCHANGED <<clock, spec, total, wstart, switches, crowded>>

(* ... to switch them on again ... *)
Lift(t) ==
    LET s == th[t].id IN
    /\ th[t].at = "lift"
    /\ until' = [until EXCEPT ![s] = 0]
    /\ fuse' = [fuse EXCEPT ![s] = 0]
    /\ Counts(t, s)
    /\ UNCHANGED <<clock, on, calls, strikes, total, wstart, switches, crowded>>

(* The first of the sinks that were called most. *)
Hottest(s) ==
    /\ \A r \in Sinks : count[r] <= count[s]
    /\ \A r \in 0 .. s - 1 : count[r] < count[s]

(* ... and mutes the hottest ones until the rest keeps the rate. *)
Trim(t) ==
    /\ th[t].at = "trim"
    /\ \/ /\ th[t].sum > Rate * Elapsed(th[t].now, th[t].start)
          /\ \E s \in Sinks :
                /\ Hottest(s) /\ count[s] # 0
                /\ th' = [th EXCEPT ![t].at = "mute", ![t].hot = s, ![t].next = "trim",
                                    ![t].sum = @ - count[s]]
                /\ count' = [count EXCEPT ![s] = 0]
       \/ /\ \/ th[t].sum <= Rate * Elapsed(th[t].now, th[t].start)
             \/ \A s \in Sinks : count[s] = 0
          /\ Resumes(t, "check") /\ UNCHANGED count
    /\ UNCHANGED <<clock, spec, total, wstart, seen, switches, crowded>>

ThrottleStep(t) ==
    \/ Count(t) \/ Check(t) \/ CountCall(t) \/ Report(t)
    \/ Fuse(t) \/ Exchange(t) \/ LoadStrikes(t) \/ StoreStrikes(t) \/ Switch(t)
    \/ Budget(t) \/ LookAtWindow(t) \/ FirstWindow(t) \/ ClaimWindow(t) \/ Sweep(t) \/ Lift(t) \/ Trim(t)

ThrottleNext ==
    \/ Tick
    \/ \E t \in Callers : ThrottleStep(t) \/ \E s \in Sinks : Enter(t, s)

ThrottleSpec == ThrottleInit /\ [][ThrottleNext]_throttleVars

-----------------------------------------------------------------------------
(* enforce_budget keeps its counts in static arrays without a lock, for one *)
(* thread at a time to use.  Of two threads that sweep at once, one at most *)
(* does so at the end of a window.  The other one read the time before the  *)
(* window was started, and takes the difference for a huge one; or in the   *)
(* tick in which tick_ms() is 0 and nonzero() stores 1.                     *)
SeesEnd(t) == Over(th[t].now, th[t].start)
OneSweeper ==
    \A t, u \in Callers : t # u /\ Sweeping(t) /\ Sweeping(u) => ~SeesEnd(t) \/ ~SeesEnd(u)

(* Every time a hook is switched off a strike is recorded, so no race of    *)
(* two threads gives it a fourth try (mute's ++strikes is not atomic), as   *)
(* long as no two threads have swept at once.                               *)
StrikePerSwitchOff ==
    ~crowded => \A s \in Sinks :
        /\ offs[s] <= MaxStrikes
        /\ offs[s] <= strikes[s]

(* A hook is switched on again only after the first pause at least, however *)
(* the switching off by one thread and the sweep by another are ordered,    *)
(* and when the clock wraps around.  Two sweeps at once may lift a pause    *)
(* that has just begun.                                                     *)
PauseIsKept ==
    [][\A s \in Sinks : on[s] /\ until[s] # 0 /\ until'[s] = 0
          => crowded \/ offFor[s] + Stall >= Pauses[1]]_throttleVars

=============================================================================
