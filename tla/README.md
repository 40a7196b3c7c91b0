# A verification of AurexTranslator-plugins

This directory holds TLA+ models of AurexTranslator-plugins: the libraries and
programs that read text out of running games and draw a translation over them.
It is kept beside the code; every definition names the lines it translates in
`PROJECT.json` ("map"). TLC checks the models on small instances, TLAPS proves
the theorems for every value of the constants.

1. [The system](#1-the-system)
2. [The modules](#2-the-modules)
3. [The runs](#3-the-runs)
4. [Fairness](#4-fairness)
5. [What is proved](#5-what-is-proved)
6. [Where the code differs from its comments](#6-where-the-code-differs-from-its-comments)
7. [What the models show about the named exceptions](#7-what-the-models-show-about-the-named-exceptions)
8. [What is not modelled](#8-what-is-not-modelled)
9. [The plan](#9-the-plan)

## 1. The system

Two processes take part: the *host* (the translator, which is not in this
repository) and a *game*. A third one, `at-injector`, is run by the host for
each loading and unloading of a library.

| part | where | state | operations | talks to |
|---|---|---|---|---|
| session manager | host, GUI thread | `m_sessions`, `m_stopping`, `m_pendingStarts`, `m_pendingConfigs` | start, stop, wait-stopped, config, destructor | workers (calls, queued signals), the user (dialogs) |
| plugin worker | host, a thread per process | process id, library handle, flags, pipe | the `run()` loop, stop, confirmation, config | manager, injector processes, pipe, `runtime.json` |
| pipe reader, debounce | host, two threads of a worker | pending texts | receive, flush after silence | worker, manager (signals) |
| pipe | host and game | a socket's two ends | connect, send, receive, close | both sides |
| hook library | game | pools of executable memory, patched code | allocate, build a trampoline, patch | engine plugins |
| Unity plugin | game | hook records, `EngineState`, caller table, rings of recent texts, throttle | install, handle a call, shut down | pipe, the game's threads |
| Ren'Py, KiriKiri, imhhw, example plugins | game | one or a few hooks, a text being assembled | the same | pipe |
| capture channel | game, its rendering threads | connection, received bytes, session, permission, text | connect, receive, answer a request for a frame | host: a socket and semaphores, or a pipe and events |
| Vulkan layers | game | devices, swapchains, staging areas, framebuffers, frames in flight | create, destroy, present | capture channel, the GPU |
| OpenGL and Direct3D hooks | game | one set of targets per backend, locks, a count of threads inside | install, present, resize, unload | capture channel, the game's threads |
| injected shim | game | exchanged functions | attach | the dynamic linker |
| injector program | its own | the registers and memory of the game it changed | load, unload | the game (ptrace or remote threads) |

What is hard in each of them:

* **Session manager.** Everything happens on one thread, but a dialog runs an
  event loop of its own and a join blocks the thread while signals queue up.
  Thread addresses are used again. *Correct* means: one worker per process, no
  worker forgotten, the last start given during a shutdown is carried out with
  its own arguments, answers reach the worker that asked, nothing runs after
  the destructor.
* **Plugin worker.** The process may exit and come back with a new id at any
  time; the user may stop at any time; an injector process may fail or outlive
  the wait for it; the host may die with the library in the game. *Correct*
  means: nothing is injected unasked, never twice, the stored handle is the
  right one, nothing is left behind, a stop ends.
* **Pipe.** Closing it must end a reader that waits in any of its calls, and
  messages of several threads must stay whole and ordered.
* **Debounce.** Three threads hand text on: nothing may be lost, doubled or
  overtaken, and a block is cut only by silence.
* **Hook engine.** The game runs through code that is being rewritten, and is
  in the handler while the library is being unmapped.
* **Executable memory.** Blocks of one pool are taken by several threads and
  must never overlap, nor lie out of a jump's reach.
* **Text sink.** The game's threads share tables without a lock: caller slots,
  recent texts, call counts, times that wrap.
* **Capture channel.** `recv` cuts messages anywhere, the host comes and goes,
  and what was said must not outlive the connection. Requests must be answered.
* **Vulkan layers.** The GPU works at its own pace, handles are used again, and
  any driver call may fail. *Correct* means: a semaphore is waited for exactly
  when it will be signalled, nothing the GPU uses is destroyed, framebuffers are
  those of the swapchain that is presented, no area is lost, every call returns.
* **OpenGL and Direct3D hooks.** The game presents on several threads while the
  hooks are installed and the library is unloaded; one overlay serves the
  chains of several backends. *Correct* means: a backend's objects have one user
  and no user after the end, back buffers are let go of before a resize.
* **Other plugins, injector, shim.** See section 8.

## 2. The modules

| module | models | how state and actions correspond to the code |
|---|---|---|
| `SessionLifecycle` | what a session promises: absent, active, closing; a start while it is closing is kept, the last one wins | abstract |
| `SessionManager` | `plugin_main.cpp` | The four maps are functions of the key, the event queue a sequence, open dialogs a stack; a join is a state of the GUI thread in which nothing else is delivered. Of a worker it keeps what the manager sees: running, told to quit, at its question, finished. |
| `PluginWorker` | `plugin_worker.cpp`, `run()` and what it waits for | `pc` is the place in `run()` where it sleeps or waits; the process, the library in it, the file `runtime.json` and the injector processes are the environment. |
| `Debounce` | `debounceLoop`, `handlePipeMessage`, the end of `run()` | `loop` and `worker` are the two threads' places with their local `ready` and `remaining`. |
| `Channel` | what a pipe promises: whole messages in one order | abstract |
| `IpcPipe` | `ipc_pipe.h` on Linux and Windows | `fd` and `sfd` are the two plain descriptors, on Windows `fd` is the handle; every access of them by either server thread is a step. Messages are written and read in two parts. `blocked` says that a synchronous call on Windows has begun to wait: `CancelIoEx` ends only such a call, and `CloseHandle` waits for it. |
| `ExecPool` | `trampoline.cpp`, pools and blocks | addresses are numbers; `Reserve*`, `Build`, `Commit` are the code's steps under `g_pool_lock`. |
| `HookEngine` | `hook_engine.cpp`, `code_patch.cpp`, the trigger and scan of `managed_hooks.cpp`, `init` and `cleanup` of `plugin_main.cpp` | A function's five patched bytes are a head (2, replaced at once) and a tail (3); `Patch` is the three-step `write_code`, or one step where the bytes lie in an aligned word; `Enter`/`Leave` are the stub. |
| `CallerTable` | the table of callers of `text_sink.cpp` | one step per atomic access of `key` and `ready`. |
| `RepeatFilter` | `is_repeat` | one step per load and store of the ring. |
| `HookThrottle` | `sink_handler`'s head, `check_fuse`, `enforce_budget`, `mute` | atomic members one step each, `++strikes` two. |
| `CaptureChannel` | `capture.c` and `glinject.c` on Linux, `win_capture.cpp` on Windows | `rx` is `rx_buf` up to `rx_len` (in `consume_rx` from `off` on), `told` what the messages have set. A thread's `at` is its place in a swap of buffers: look at the socket, receive, read one message after the other (`parse`), stop or start, take a request. A message is a sequence of parts; with each goes, as history, what has been said when it has come. |
| `VkLayer` | `vklayer.c` on Linux, `vklayer_win.cpp` and `vk_capture_win.cpp` on Windows, `overlay_vk.cpp` on both | `call` is the place in the game's call; `chain` the game's swapchains and whether the layer recorded them, `stage` the readback area of one, `ctx` and `frame` the overlay's context and its frames in flight. The GPU runs and finishes submitted work in steps of its own. |
| `OverlayHooks` | `hook_dxgi.cpp`, `overlay_d3d12.cpp`, `HookEntry` of `win_common.h` | `inst` and `un` are the places in `hook_dxgi_install` and `hook_dxgi_uninstall`, `call` the hooked call of a thread, `ov` the targets of a backend and its staging buffer, `refs` and `unloading` what `HookEntry` counts and reads. `buffers` counts the staging buffers in the driver, apart from the pointer to one: a buffer's release and `capture_stop` are two things a backend does (`Ends`), and only the buffers of others are set aside ("left") by `capture_stop`. |

`MC*` modules only give constants their values; `*_proofs` modules hold the
theorems of section 5. `SessionManager` is shown to
implement `SessionLifecycle`, and `IpcPipe` to implement `Channel`, each by an
`INSTANCE` whose specification is a PROPERTY of a run (`LifecycleSpec`,
`KeepsPromise`).

`SessionManager` abstracts from `PluginWorker`: its worker is stopped, asks and
ends as the detailed one does (`waitForConfirmation`, `stop`, return of `run`).
`PluginWorker` abstracts from `IpcPipe` (its reader is accepting, reading, or
*wedged* by the races that `IpcPipe` shows on either system) and from
`Debounce`. `VkLayer` and `OverlayHooks` abstract from `CaptureChannel`: the
first grants and withdraws the permission at any time, the second leaves the
channel's answer to each present open.

A definition whose name has a suffix and whose comment begins with "Mutated:"
is not part of the model: it is the form the definition would take with a
plausible mistake, and is used to see that the property can fail.

## 3. The runs

| run | bounds | distinct states | what it shows |
|---|---|---|---|
| `sessions` | fair; 2 keys of one plugin that asks, 2 thread addresses, 1 argument list, 2 queued signals | 560,232 | `LifecycleSpec`: the abstract life cycle; one worker per key, none forgotten, answers reach the asker, quiet after the destructor; stops end and the GUI thread comes back |
| `worker` | fair; hook plugins and overlays on both systems, 2 process ids, 3 loads, 2 successors, injectors that fail or outlive the wait | 657,787 | `LoadIsAllowed`: asked first, no double load; `UnloadsItsOwn`: the right handles, nothing left behind but after a named mishap; the reader has its pipe; a stop ends, a process is attended to |
| `debounce` | fair; 2 sources of 3 characters, interval 2 of 5 ticks | 199,644 | `TextIsWhole`: order, and cuts at silence only; shown in the end |
| `pipe` | fair but for signals; both systems, 2 senders of 2 messages, a buffer of 2 parts | 151,221 | `KeepsPromise`: the channel's promise; no socket left open; `NobodyIsStuck`: the reader ends, senders return |
| `exec_pool` | 2 threads of 2 calls, 2 pools of 48 bytes, 3 places | 627,325 | blocks apart and in reach |
| `engine` | fair; 2 game threads, 3 functions: one patched in steps, one at once, one with an inner instruction; a table of 2 | 582,979 | `CodeIsWhole`: whole code, restored code; `InsideIsSafe`: handler and pipe outlive their users; the unloading ends |
| `caller_table` | 3 threads, 3 callers of which 2 collide, 3 slots, 2 probes | 44,992 | one slot each; `TextIsAttributed`: a text has the label of its own caller, or the plain one when the window is full |
| `repeat` | 2 texts, ring of 2, 2 threads, window 2, a clock that wraps at 8 | 5.78 million | `RepeatsAreRight`: once per window until calls overlap, and again after a silent window; never dropped unless sent |
| `throttle` | 1 hook, 2 threads, 6 calls, 7 ticks across the wrap at 16, a budget that is looked at with every call | 2.4 million | `OneSweeper`: two sweeps are never both at the end of a window; strikes and pauses until two sweep at once |
| `channel` | fair; both systems, 2 threads, messages of 1 to 3 parts, a socket of 3 parts, 2 requests under way | 1.17 million | `KnowsWhatWasSaid`, `LeavesOnlyTheGone`, `RequestsAnswered` |
| `vk` | fair; 2 devices of which one draws, 2 swapchain handles of 2 formats, 4 creations, 3 presents, 2 frames in flight, 1 fault; both builds | 653,388 | semaphores, framebuffers, what the GPU uses, staging areas, every call returns |
| `hooks` | fair; 2 threads, 2 Direct3D 11 chains and a Direct3D 12 one, one of each resized, one made anew, a mismatch limit of 2 | 271,181 | exclusion, targets; `StagingAccounted`: who stops a capture releases its own buffer, and none is lost; the overlay follows the chain presented, the unloading ends |

Why the bounds are enough: each is the smallest at which what the properties
exclude could happen. Two thread addresses let an address be used again while
its old finished signal is queued; two process ids let a process be replaced
during one start, and two successors a handle outlive two workers; three callers with two homes and two probes give
collisions, wrap-around and full windows; three ticks more than an interval
let a block be cut and another one begin; a pool of three units of 16 bytes
holds one, two or three blocks and is met full, short by the rounding, and
empty. A message of three parts needs two receives and can be joined to the
next one's head; four creations allow two devices with a swapchain each, or one
whose swapchain is destroyed and its handle used again; three presents are one
more than there are frames in flight, so that a frame's fence is waited for
again; a limit of 2 is the smallest at which the overlay stays on a chain while
another is presented. One fault in `vk` does not reach the second time-out of a
wait, which is the exception of `BusyIsLeftAlone`, nor the failures of two calls. The lists of arguments are one in `sessions` because the
manager never looks at them; `Refinement` proves for any that the last one wins. Where a bound would hide a violation, a mutated definition fails under
it (every property has one).

Deadlock is not checked where the system may stop: a worker that returned, a
pipe that was closed, counters at their bound, and a GUI thread blocked for
good by the lost wake-up of section 7. What must come to an end is stated as
liveness instead (`StopsEnd`, `StopEnds`, `NobodyIsStuck`, `UnloadEnds`,
`CallsReturn`). No run uses symmetry, as most check liveness.

## 4. Fairness

* `SessionManager`: the event loop delivers what is queued, the user answers a
  dialog, a worker thread that can go on does, a join ends when the thread has.
  Starting and stopping are never forced.
* `PluginWorker`: `run()` makes its steps (its sleeps end) and an injector
  process ends or `waitForFinished` gives up. The user's answer, the process
  and the library are not forced to anything.
* `Debounce`: the clock goes on, the debounce thread and the worker's end run.
* `IpcPipe`: both server threads run; a sender that is again and again able to
  take the mutex or write does (strong fairness: the mutex and the buffer are
  shared, and the system's mutex does not starve a waiter for good). Signals
  and the call of `close()` are never forced.
* `HookEngine`: the loading thread and the game's threads run; the game need
  not call anything. A game thread that has entered goes on.
* `CaptureChannel`: a swap of buffers that has begun goes on. Copying a frame may
  fail, but not for ever (strong fairness of `Deliver`: the causes, a lost
  context or a mapping that cannot be made, are tried again with every frame).
  That the host asks and the game presents are premises of `RequestsAnswered`.
* `VkLayer`: the GPU finishes what can run, and a call that has begun goes on.
  The game need not call anything.
* `OverlayHooks`: installing, unloading and a hooked call go on. A driver that is
  asked again and again for a chain's targets makes them at last (strong
  fairness of `FitsTo`), without which the overlay could stay torn.

## 5. What is proved

Every theorem is about the specification of the module it names, for every value
of its constants that the module's ASSUME allows, and is checked by TLAPS to the
last leaf. Each proof has the same shape: an inductive invariant (first checked
by TLC on the instance of the run), a lemma for each of its parts with one step
per action or group of actions, and the property as a consequence.

| module | theorems | holds for any |
|---|---|---|
| `SessionManager_proofs` | `OneWorker`, `Accounted`, `QuietAfterDestructor`, `AnswersReachAskers`, `TypeCorrect`; `Refinement` | keys, plugins, arguments, thread addresses |
| `PluginWorker_proofs` | `WorkerHolds`, `ReaderIsAlwaysSafe`, `LoadsAreAllowed`, `UnloadsOnlyItsOwn`; `StreamHolds`, `TextIsAlwaysWhole` of `Debounce` | builds, process ids, loads, successors; sources, intervals, numbers of characters |
| `IpcPipe_proofs` | `PipeHolds`, `NothingLeftOpenEverywhere`, `PipeImplementsChannel` | senders, messages, size of the buffer |
| `HookEngine_proofs` | `CountingHolds`, `InsideIsSafeEverywhere`, `CodeStaysWhole` | functions, ways to patch them, game threads, size of the table |
| `ExecPool_proofs` | `TypeCorrect`, `NoByteTwice`, `AlwaysInReach` | sizes, functions, threads, places of pools |
| `CallerTable_proofs` | `OneSlotEach`, `TableTypes`, `Attribution`, `SlotsAreKept`; `ThrottleHolds`, `OneSweeperAlways`, `StrikesAreCounted`, `PauseIsAlwaysKept` of `HookThrottle`; `DroppedWasAlwaysSent`, `RepeatsAreAlwaysRight` of `RepeatFilter` | size, hash, callers, threads; hooks, windows, pauses, width of the clock; size of the ring, texts, window |
| `OverlayHooks_proofs` | `HooksHold`, `InsideIsSafeEverywhere`, `TargetsAlwaysFit`, `StagingIsAccounted`; `ChannelHolds`, `WhatWasSaidIsKnown`, `OnlyTheGoneAreLeft` of `CaptureChannel` | threads, chains and their backends, mismatch limit; messages and their sizes, room in the socket |
| `VkLayer_proofs` | `LayersHold`, `SemaphoresArePaired`, `FramebuffersAlwaysFit`, `BusyStaysAlone`, `StagingIsAccounted` | devices, swapchains, formats, frames in flight, faults |

The arguments:

* **Session manager.** "One worker per key" is not inductive: that a start
  finds no worker follows from where workers are recorded. The invariant says
  that every worker that is alive is in `m_sessions` or `m_stopping` under its
  own key or is being joined, that what these maps hold is alive, and that a
  postponed start has a shutdown to wait for. A queued finished signal is of a
  worker that was started before, so after the destructor none has a receiver.
  An open question is of a worker that waits for its answer or of one that is
  told to quit, whatever became of its address. The same invariant gives that
  every step is one of `SessionLifecycle` or a stutter.
* **Plugin worker.** An injector process runs exactly where `run()` waits for it,
  unless one was given up or orphaned (`Cut`). Otherwise the library is absent
  from the stability loop to the load, because the examination saw the pid that
  is still current. `granted` is the pid waited for from the answer to the
  load, since a question is open only while `run()` asks. A library of this
  worker that is still there is the one `m_libraryHandle` names, and `run()` is
  then never on its way to forget it.
* **Debounce.** What was handed on, what the debounce thread holds, what the
  worker's end holds and what waits are, one behind the other, what was received;
  since the reader is joined before the debounce thread, and that one before
  the rest is taken, never two of the three places hold text of one source
  unless in this order. A block ends where its source had been silent: the
  character behind a cut came an interval after the last one before it, and
  `lastCharTime` is the time of that one. The sequences need no induction,
  as every step appends one block or one character.
* **Pipe.** What was written is what was received followed by the stream, so a
  part's place says which message it is of; the mutex keeps a message's second
  part behind its first. An open connection is known to the reader that has just
  accepted it, to `m_fd`, or to the thread that took it out. Each step is
  one of `Channel` or a stutter, with the message whose second part is written as
  the one sent.
* **Hook engine, the counting.** A thread counts itself before it looks whether
  the hook is disabled, so the counter is never less than the number of threads
  between the two countings; the shutdown disables first. Once it has seen zero
  nobody is inside and nobody who counts later gets past the look.
* **Hook engine, the code.** At most one thread scans, an installer keeps to the
  function it has reserved, and the table is overrun by at most one record (197).
  The two-byte loop is never read as a function's own code where it would be
  restored from, and is overwritten in the call that wrote it. As long as
  installations do not meet, each function has its own code, is in the table with
  its own bytes, or is the one being patched or restored.
* **Executable memory.** Blocks lie below the mark of their pool and pools are
  apart; a reservation begins at the mark, fits above it also when rounded up,
  and its thread holds the lock, so that the mark does not move.
* **Caller table.** Keys are never removed, so what a search has passed over
  stays passed over; a key lies where its search finds it. A slot's text is
  ready only with its key, and a search ends with the plain label only when
  every place of its window has another key.
* **Throttle.** Each call has read its time not long ago: at most `Stall` before
  now. A window that is won is of a time not long before the sweep that won it, so
  a second winner during that sweep must have read the time before the window
  began, and takes the difference for a huge one (`OneSweeper`). A pause ends a
  whole pause after the time that was read by the call that began it. What a sweep
  is about to switch on therefore has been off for that long; a call that would
  switch the same hook off at this moment has looked at it within the last `Stall`
  ticks and has found it on, so there is none, unless it is a sweep itself. This
  exclusion is what keeps strikes from being lost: a stored strike is
  never below the number of switchings off, and is above it while the hook is on.
  All times are compared modulo `Wrap`; the lemmas on `Over` and `Elapsed` turn
  them into differences of the clock, which is not wrapped.
* **Repeats.** Without a race an entry's time is of a call for its text, and a call
  that has passed over an entry has not missed it. That a text is not sent twice
  rests on a count. The invariant gives each text that was sent within the window a
  place, counted back from the entry that is written next, and says that the
  places after it hold texts sent later. A text in the last place would have one in every
  other place, and with the text that is about to be entered there would be more texts than
  entries: so an insertion overwrites none of them. After a race `raced` is
  forgotten when nothing was shown for a whole window; by then every entry has
  the time of a call at least that long ago, whichever text it holds. That a
  dropped text was sent (`DroppedWasAlwaysSent`) needs none of this: a hash is
  stored only by a call that goes on to send it.
* **Direct3D hooks.** A thread that came after its backend's lock was made holds
  it until it leaves, and what shuts the backend down waits for it. The targets
  found at the entry, or made then, are those drawn into. A replaced back buffer
  is found only if its resize did not tell the overlay, which happens to a
  thread that was turned away for good. A backend that stops the capture has
  released the buffer it had, and one that begins a capture finds none in use,
  as the flag was clear; so each has as many buffers in the driver as it has a
  pointer to, but for those that somebody else's `capture_stop` left behind.
* **Capture channel.** What was received and not read, and behind it what is still
  in the socket, is one queue of whole messages. Every part carries what has been
  said when it has come, and the queue begins where what is known ends (`Series`).
  A `recv` moves the line between the two halves and leaves the queue as it is; the
  parser takes the first message off, and what is known becomes what its last part
  carries. When it has stopped, the first message is not all there, so its parts
  have added nothing, and the buffer holds less than the longest message: it is
  not full. None of this computes what the parser does with a whole buffer: it is
  a step for each message, between which the other threads look at what is set.
* **Vulkan layers.** The calls of a device are on one thread and own their
  swapchain until they return. A present begins with a wait for the game's
  semaphore and passes it on to each submit that succeeded. A staging area is of
  a chain that is recorded; unless one was stopped beside another (`apart`)
  there is none while nothing is captured. An area in use though its wait is
  over has timed out. A context's view is of the living swapchain, or there is none.

The theorems assume only the named ASSUMEs of the modules, which TLC evaluates
on every run. They say what the code takes for granted: a null pointer is no
object (`None`), the loading thread is not one of the game's, saved bytes are
not the jump or the loop themselves, pools have a size that is a multiple of 16
and are mapped at places that do not overlap, sets of threads and of handles
are finite. `HookThrottle` also assumes that a call of `sink_handler` lasts less
than half a window and half the first pause (`Stall`; a second, and pauses of 30
and 300 seconds in the code): a game thread that is stopped for longer in the
middle of a sweep may do anything to the counts when it goes on. `RepeatFilter`
assumes that a call of `is_repeat` is over before the clock has gone round
(`Delay`). `CaptureChannel` assumes that no message is longer than the longest
text: a text has up to 8,272 bytes, a control message and a style less than 100, a
path to a font no more than 520. `RepeatsAreAlwaysRight` has two hypotheses of its own, which the run's
instance satisfies. `FewTexts`: no more texts than entries (8 in the code); with
three texts and two entries TLC finds one sent twice in a window, as section 6
says. `OneRound`: the time since the source was first used is less than one round
of the clock (2^32 ms, 49 days); at exactly one round TLC finds a text dropped as
a repeat of one from 49 days before. The exceptions a property names (section 7)
are named in its theorem as well, and no other assumption is made.

Only model-checked: liveness. The provers have no rule for it under these fairness
conditions. Every safety property that a run checks is a theorem.

## 6. Where the code differs from its comments

* `text_sink.h:42` promises that a text shown again after the window is sent. A
  thread that matches the hash of an expired entry may read the time of a text
  that replaces it just then (`text_sink.cpp:316`), and drops its text.
  `NewEventIsSent`, a part of `OncePerWindow`, holds until calls overlap.
* `text_sink.h:40` promises that a text is not sent again within the window. The ring
  has eight entries: a source that shows nine texts in turn sends each of them
  every time (`text_sink.cpp:314-321`). `OncePerWindow` is about no more texts
  than there are entries.
* `text_sink.h:52` promises two further tries. When the fuse and the budget
  switch the same hook off in one window (`text_sink.cpp:301`) that counts as
  two strikes, and there is only one. `StrikePerSwitchOff` counts the switchings
  off, not the windows.
* `vklayer.c:427` and `vk_capture_win.cpp:23` speak of one staging area per
  swapchain. `capture_stop` clears a flag that all swapchains share, and the
  next start makes a second area for a swapchain that still has one
  (`StagingAccounted` excludes this by the history variable `apart`).

## 7. What the models show about the named exceptions

A property that has an exception names it; each exception is a behaviour of the
code, and one that the run contains unless it is said otherwise below.

* **A stop that is lost** (`plugin_worker.cpp:298-300`). The wait for the user's
  answer has no condition to re-check. A stop after the question was emitted and
  before the wait begins wakes nobody; the worker sleeps on and a GUI thread
  that joins it (`plugin_main.cpp:179`) never returns. `StopEnds` names it in
  both modules.
* **A process replaced between two polls** (174-185). `onProcessFound` runs for
  the new one and `m_libraryHandle` is still the old one's (`UnloadsItsOwn`).
* **A stop during the second before the load** (311) does not stop the load; the
  library is then unloaded at the end, so nothing is left behind.
* **Injectors that outlive their wait** (844-896): the handler runs later and
  stores the handle with whatever process id is current (`UnloadsItsOwn`).
* **A connection accepted while the pipe is being closed** (`ipc_pipe.h:178`,
  `255`): it is stored after `close()` looked, and the reader waits for a client
  that may stay silent (`ReaderEnds`, a part of `NobodyIsStuck`, and "wedged" in
  `PluginWorker`).
* **A call that begins between `CancelIoEx` and `CloseHandle`** (`ipc_pipe.h:250-252`,
  Windows): the reader has loaded the handle, nothing is there to cancel yet, and
  `CloseHandle` waits for a call that waits for a silent client (`ReaderEnds`).
* **A signal that interrupts a call** and is handled without a restart. A write
  (`ipc_pipe.h:79-80`) leaves half a message on a stream that goes on: behind it
  the `Channel` promises nothing (`KeepsPromise`). A read (99-100) ends the
  reader of a pipe that stays open: once the buffer is full a game thread that
  sends waits until somebody calls `close()` (`SendReturns`).
* **Two threads that report one text together** (`text_sink.cpp:314-323`). The
  text is looked up and entered in separate steps, so both may send it although
  `text_sink.h:40` promises once per window. `OncePerWindow`, a part of `RepeatsAreRight`, is stated for calls
  that do not overlap; `raced` is forgotten after a silent window, so the run
  also shows that a race leaves nothing behind for longer.
* **Inner instructions** (`code_patch.cpp:115-149`). A thread that stands on an
  instruction that begins in the last three patched bytes executes them torn
  (`CodeIsWhole`).
* **Two bootstrap hooks** (`il2cpp_runtime.cpp:456-458`). From the first one on,
  a game thread may install hooks while the constructor still does; `g_hooks`
  and `g_count` have no lock (`hook_engine.cpp:223-230`), records are overwritten,
  functions stay patched, the last place in the table is taken twice (197), and
  the shutdown may restore an empty record at address 0 (241-243). `CodeIsWhole`
  excludes this case
  by the history variable `raced`; the table of the run has two places, so
  that it is met full as well.
* **The shutdown that gives up** after 500 ms: the library is unmapped under a
  thread in its handler. The pipe is then closed but not deleted
  (`InsideIsSafe` of `HookEngine`).
* **Tick 0 and a stale time** (`text_sink.cpp:263-275`) let two threads use the
  budget's static arrays at once: the time is read before the window is, and a
  window that began later looks as if it began long ago (`OneSweeper`).
* **Two sweeps at once** (`crowded`) work on one pause. One finds it over
  (`text_sink.cpp:281`) and the other one mutes the hook anew (301); the first
  one then lifts the new pause (283), which the run contains (`PauseIsKept`). With
  three at once the third one may have loaded `strikes` before the other two
  switch the hook off one after the other, and stores less than they did (241), so
  that a strike is lost (`StrikePerSwitchOff`): too long a behaviour for the run's
  two threads, and the reason why the theorem has the exception.
* **`capture_init` on a channel in use** (`glinject.c:94`), when a game uses the
  second of GLX and EGL: the descriptor leaks, `rx_len` stays, and the next
  connection begins in the middle of a message (`KnowsWhatWasSaid`,
  `LeavesOnlyTheGone`).
* **The first look at the semaphore** (`capture.c:416`) drains it: what was asked
  before is lost and must be asked again. The premise of `RequestsAnswered` is a
  host that does.
* **A swapchain the layer did not record** (`vklayer.c:785`), because a call failed
  while it was made: its present begins a capture and reads a record that is not
  there; and **a command kit made in part** (576) is taken for whole (both
  `CallsReturn`).
* **A wait redirected to a copy whose submit fails** (`vklayer.c:727`): the present
  waits for a semaphore nothing signals (`SemaphoresPaired`, `CallsReturn`).
* **A second wait of a second that times out** (`vk_capture_win.cpp:340`) resets a
  fence that is in use (`BusyIsLeftAlone`). The run has one fault and does not
  reach it; the theorem has the exception.
* **A context on which making framebuffers failed, or a device given up**
  (`torn`, `valid`): what it holds is not that of a living swapchain
  (`FramebuffersFit`).
* **One flag for all** (`capture_stop`): see section 6; the Direct3D backends share
  it in the same way. One that stops the capture leaves the buffer of the other
  where it is, as `capture_init` does at the end of the installation
  (`hook_dxgi.cpp:707`) with one that a present has made before; the next capture
  writes over the pointer (240). In `OverlayHooks` such a buffer is "left", and
  no longer counted once its pointer is gone; everything else that would lose or
  keep a buffer violates `StagingAccounted`.
* **A present before its backend has a lock** (`hook_dxgi.cpp:695`) runs without
  one (`loose`), and **an unload that gives up after two seconds** (715) tears the
  library down under a thread inside (`late`; `InsideIsSafe`).
  A thread that was turned away calls through a pointer the unload clears (410).
* **A chain at the address of one that was released** (`hook_dxgi.cpp:139`): the
  overlay holds no reference to it and takes the new one for the old
  (`TargetsFit`).

## 8. What is not modelled

Of the 44,900 lines that count as implementation, over 25,000 are headers of the
Python interpreter in `src/engines/renpy/src/python`, which are not this
program's; of the rest the map names more than a fifth. Left out are:

* the *data*: parsing of settings, configuration and command lines; translations
  of messages; classification and cleaning of texts; style, font and layout of
  the overlay; the drawing commands; relocation of instructions and the
  disassembler; page protection; queries of the runtimes, of the system's modules
  and of processes;
* the *injector's remote call* (`injector/bin`): one thread that stops a process
  and follows one list of steps; only its outcomes reach the others, and those
  are in `PluginWorker`;
* the *injected shim*, which reads and exchanges entries in tables of the dynamic
  linker;
* the *Ren'Py, KiriKiri, imhhw and example plugins*: hooks that run under the
  interpreter's lock or on the game's one thread, with no state but the pipe;
* *Direct3D 9 and 10* and OpenGL's own objects: the same shape as the backends of
  `OverlayHooks`. Direct3D 10 makes its lock at the first present, of which two
  threads may both find it missing (`overlay_d3d10.cpp:349`);
* *data races whose outcomes are not enumerated*: `last_check` of the capture
  channel, which lets one thread at a time look at the socket but for the first
  moment of a second (`capture.c:266`); the static of `vklayer_win.cpp:413`;
  `font_dirty`, one flag for all contexts (`overlay_text.cpp:399`); ImGui's ring
  of vertex buffers, which may be shorter than the frames in flight
  (`overlay_vk.cpp:311`);
* the *reuse of a descriptor's number* between its load and the call
  (`ipc_pipe.h:99`);
* *two writers of `runtime.json`*: `PluginWorker` has one worker at a time;
* the *hook of `ExecuteCommandLists`* (`overlay_d3d12.cpp:60-71`): it is counted in
  like the others and only stores the queue; `d3d12_shutdown` clears the pointer
  it calls through (835), so a thread that was turned away meets there what
  `Real` shows for `Present`;
* *single failures and branches* within modelled operations: a jump that cannot be
  written when a hook is installed (`hook_engine.cpp:227`), `capture_stop` when a
  GL context or window goes (`glinject.c:366`, `444`, `455`), a present of an
  unrecorded swapchain on a device that has no current one either
  (`vklayer.c:793`), which needs two devices and a failure, a load that is refused
  because the library is there already (`main.cpp:312`; the model's load may
  succeed), an answer of the injector without a handle or with a zero one
  (`plugin_worker.cpp:905-925`; the nearest outcome in the model is a wait that
  was given up and whose handler never runs);
* *the order within some steps*: the debounce thread's look at its flag, its sleep
  and its clock (`plugin_worker.cpp:578-582`), the start of the reader and the
  clearing of the texts (360-363), the end of a connection and the clearing of
  what was received of it (`capture.c:316-321`);
* a *changed interval*: `Debounce` takes it as a constant, though the
  configuration may change it.

## 9. The plan

Done, in this order: `SessionLifecycle` and `SessionManager` with proofs and
refinement; `PluginWorker`; `CallerTable`, `RepeatFilter`, `HookThrottle` with
the table's proof; `HookEngine`; `Channel` and `IpcPipe` of both systems;
`ExecPool` with its proof; `Debounce`; `VkLayer`; `OverlayHooks`;
`CaptureChannel` of both systems.

With proofs: the session manager and its refinement, the plugin worker, the pipe
and its refinement, the hook engine, the executable memory, the caller table,
the throttle, the repeat filter, the debounced text, the Direct3D hooks, the
capture channel, the Vulkan layers.

To come:

1. `RuntimeFile`: several workers and the file they share;
2. `Injector`: the remote call, its failure at each step, and the game restored;
3. Direct3D 10 as a third backend of `OverlayHooks`.
