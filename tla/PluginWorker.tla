---------------------------- MODULE PluginWorker ----------------------------
(***************************************************************************)
(* One PluginWorker of libat-injector: its run() loop, its pipe reader     *)
(* thread, the injector processes it starts, the file that remembers the   *)
(* library handle, the calls that reach it from the GUI thread, and the    *)
(* process it injects into.                                                *)
(*                                                                         *)
(* The process of the configured name exits and is started again at any    *)
(* time, each time with a new pid; the worker sees it only when it polls.  *)
(* Every step of run() that sleeps, waits for a thread, a process or a     *)
(* condition ends an action.  A new worker can take over at any time (the   *)
(* host crashed or stopped it): the process, the library in it and the     *)
(* file stay.                                                              *)
(***************************************************************************)
EXTENDS Naturals

CONSTANTS
    Builds,       \* the plugins and systems considered, see build
    Refusals,     \* injector processes may fail
    Timeouts,     \* an injector process may outlast waitForFinished
    MaxPid,       \* bound: pids 1 .. MaxPid are used, one after the other
    MaxLoads,     \* bound: handles 1 .. MaxLoads are returned, one per load
    MaxWorkers    \* bound: workers that take over from an earlier one

ASSUME WorkerAssumption ==
    /\ Builds \subseteq [overlay : BOOLEAN, windows : BOOLEAN]
    /\ {Refusals, Timeouts} \subseteq BOOLEAN
    /\ MaxPid \in Nat \ {0}
    /\ MaxLoads \in Nat \ {0}
    /\ MaxWorkers \in Nat

VARIABLES
    build,       \* the plugin and the system, which do not change
    \* the world outside the host
    proc,        \* pid of the live process of that name, 0 if there is none
    lastPid,     \* the last pid given to it
    lib,         \* handle of the library loaded in it, 0 if there is none
    refs,        \* how often it was loaded
    loads,       \* handles returned so far
    stored,      \* the plugin's entry of runtime.json
    \* the worker's members
    pc,          \* where run() is
    running,     \* m_running
    found,       \* m_processFound
    pid,         \* m_pid
    handle,      \* m_libraryHandle
    settled,     \* m_injectionSettled
    confirmed,   \* m_confirmed
    question,    \* a confirmation is queued or shown
    pipe,        \* m_pipe holds a pipe
    reader,      \* the pipe reader thread
    job,         \* the injector process run() waits for
    late,        \* injector processes run() no longer waits for
    workers,
    \* history
    granted,     \* the pid the user agreed to inject into
    owner,       \* the process m_libraryHandle was obtained from
    mine,        \* handles this worker was given by a load or attached to
    mishaps      \* what happened that can leave the library behind

game == <<proc, lastPid, lib, refs, loads>>
world == <<game, stored>>
members == <<running, found, pid, handle, settled, confirmed, question>>
threads == <<pipe, reader, job, late>>
history == <<granted, owner, mine, mishaps>>
vars == <<build, world, pc, members, threads, workers, history>>

Overlay == build.overlay   \* isOverlay(): injects without asking, may attach
Windows == build.windows   \* no handle file; attaches; the handle is the module base

Pids == 1 .. MaxPid
Handles == 1 .. MaxLoads
NoJob == [cmd |-> "none", pid |-> 0, handle |-> 0, st |-> "idle"]
Job(cmd, p, h) == [cmd |-> cmd, pid |-> p, handle |-> h, st |-> "busy"]
NoEntry == [pid |-> 0, handle |-> 0]
Entry(p, h) == IF Windows THEN NoEntry ELSE [pid |-> p, handle |-> h]

-----------------------------------------------------------------------------
(* stop(), called from outside run(): m_running is cleared, and run() is    *)
(* woken if it waits for a confirmation at this moment.                     *)
StopFromOutside ==
    /\ running' = FALSE
    /\ confirmed' = FALSE
    /\ pc' = IF pc = "waiting" THEN "woken" ELSE pc

(* stop() called by run() itself, which goes on at step next. *)
StopAndGoTo(next) ==
    /\ running' = FALSE
    /\ confirmed' = FALSE
    /\ pc' = next

(* Mutated: the pipe is dropped at once, with its reader still running. *)
ClosePipe_Reset ==
    /\ pipe' = FALSE
    /\ UNCHANGED reader

(* Mutated: a reader blocked in read() is not interrupted. *)
ClosePipe_FlagOnly ==
    /\ reader' = IF reader = "accepting" THEN "ended" ELSE reader
    /\ UNCHANGED pipe

(* IpcPipe::close: the reader returns from its wait or its read, unless, on *)
(* Linux, it accepts a connection while the descriptors are being closed,   *)
(* which nobody closes then; or, on Windows, its call begins after          *)
(* CancelIoEx, and CloseHandle waits for it (see IpcPipe.tla).              *)
ClosePipe ==
    /\ reader' \in IF reader \notin {"accepting", "reading"} THEN {reader}
                   ELSE IF Windows \/ (reader = "accepting" /\ lib # 0) THEN {"ended", "wedged"}
                   ELSE {"ended"}
    /\ UNCHANGED pipe

Joinable == reader \in {"none", "ended"}

-----------------------------------------------------------------------------
(* The process and the library in it.                                       *)

(* The connection of a library that is gone ends. *)
Disconnected == reader' = IF reader \in {"reading", "wedged"} THEN "ended" ELSE reader

ProcessStarts ==
    /\ proc = 0
    /\ lastPid < MaxPid
    /\ proc' = lastPid + 1
    /\ lastPid' = lastPid + 1
    /\ UNCHANGED <<lib, refs, loads, stored, pc, members, threads, workers, history>>

ProcessExits ==
    /\ proc # 0
    /\ proc' = 0
    /\ lib' = 0
    /\ refs' = 0
    /\ Disconnected
    /\ UNCHANGED <<lastPid, loads, stored, pc, members, pipe, job, late, workers, history>>

(* The library's pipe client finds the server listening, or ends the call   *)
(* that CloseHandle waits for.                                              *)
LibraryConnects ==
    /\ lib # 0
    /\ \/ reader = "accepting" /\ reader' = "reading"
       \/ reader = "wedged" /\ Windows /\ reader' = "ended"
    /\ UNCHANGED <<world, pc, members, pipe, job, late, workers, history>>

(* A status message, handled on the reader thread: a failure stops the      *)
(* worker.                                                                  *)
LibraryReports(success) ==
    /\ lib # 0
    /\ reader = "reading"
    /\ settled' = TRUE
    /\ IF success THEN UNCHANGED <<running, confirmed, pc>> ELSE StopFromOutside
    /\ UNCHANGED <<world, found, pid, handle, question, threads, workers, history>>

-----------------------------------------------------------------------------
(* The injector processes.                                                  *)

(* What an injector process does to the game: the first load maps the       *)
(* library, a further one only counts, and the last unload removes it.      *)
Loads(j) ==
    /\ j.cmd = "load" /\ j.pid = proc /\ proc # 0
    /\ refs' = refs + 1
    /\ IF lib = 0 THEN /\ loads < MaxLoads
                      /\ loads' = loads + 1
                      /\ lib' = loads + 1
                 ELSE UNCHANGED <<lib, loads>>
    /\ UNCHANGED reader

UnloadsIt(j) ==
    /\ j.cmd = "unload" /\ j.pid = proc /\ lib = j.handle /\ lib # 0
    /\ refs' = refs - 1
    /\ IF refs = 1 THEN lib' = 0 /\ Disconnected ELSE UNCHANGED <<lib, reader>>
    /\ UNCHANGED loads

Injects(j) == Loads(j) \/ UnloadsIt(j)

Succeeded(j) == [j EXCEPT !.st = "ok", !.handle = IF j.cmd = "load" THEN lib' ELSE @]
Failed(j) == [j EXCEPT !.st = "failed"]

(* It must fail if its process is gone, if the handle is not that of the    *)
(* loaded library, or at the bound; it may fail otherwise (no permission,   *)
(* ptrace refused).                                                         *)
MustFail(j) ==
    \/ j.pid # proc
    \/ j.cmd = "unload" /\ lib # j.handle
    \/ j.cmd = "load" /\ lib = 0 /\ loads = MaxLoads

InjectorSucceeds ==
    /\ job.st = "busy"
    /\ Injects(job)
    /\ job' = Succeeded(job)
    /\ UNCHANGED <<proc, lastPid, stored, pc, members, pipe, late, workers, history>>

InjectorFails ==
    /\ job.st = "busy"
    /\ Refusals \/ MustFail(job)
    /\ job' = Failed(job)
    /\ UNCHANGED <<world, pc, members, pipe, reader, late, workers, history>>

LateInjectorEnds(j) ==
    /\ j.st = "busy"
    /\ \/ Injects(j) /\ late' = (late \ {j}) \cup {Succeeded(j)}
       \/ /\ Refusals \/ MustFail(j)
          /\ late' = (late \ {j}) \cup {Failed(j)}
          /\ UNCHANGED <<lib, refs, loads, reader>>
    /\ UNCHANGED <<proc, lastPid, stored, pc, members, pipe, job, workers, history>>

(* An injector process whose worker is gone. *)
OrphanEnds(j) ==
    /\ j.st = "orphan"
    /\ late' = late \ {j}
    /\ \/ Injects(j)
       \/ (Refusals \/ MustFail(j)) /\ UNCHANGED <<lib, refs, loads, reader>>
    /\ UNCHANGED <<proc, lastPid, stored, pc, members, pipe, job, workers, history>>

(* waitForFinished gives up after its 30 seconds; the process goes on, and  *)
(* its finished handler runs only in an event loop.                         *)
GivesUp ==
    /\ Timeouts
    /\ late = {}
    /\ job.st = "busy"
    /\ late' = late \cup {job}
    /\ mishaps' = mishaps \cup {"timeout"}
    /\ job' = NoJob

JobOver == job.st \in {"ok", "failed"}

-----------------------------------------------------------------------------
(* run(): the poll loop and handleProcessState.                             *)

KeepOthers == UNCHANGED <<world, threads, workers>>

SeesStop ==
    /\ pc = "poll"
    /\ ~running
    /\ pc' = IF pid > 0 /\ handle # 0 THEN "settle" ELSE "close"
    /\ UNCHANGED members /\ UNCHANGED history /\ KeepOthers

(* Mutated: another pid under the same name is not looked at. *)
SeesProcess_OnlyFirst ==
    /\ pc = "poll"
    /\ running
    /\ proc # 0
    /\ ~found
    /\ found' = TRUE
    /\ pid' = proc
    /\ pc' = "examine"
    /\ UNCHANGED <<running, handle, settled, confirmed, question, history>>
    /\ KeepOthers

(* onProcessFound begins: a process where none was known, or another pid.   *)
(* m_libraryHandle keeps its value.                                         *)
SeesProcess ==
    /\ pc = "poll"
    /\ running
    /\ proc # 0
    /\ ~found \/ proc # pid
    /\ found' = TRUE
    /\ pid' = proc
    /\ pc' = "examine"
    /\ mishaps' = IF handle # 0 THEN mishaps \cup {"swap"} ELSE mishaps
    /\ UNCHANGED <<running, handle, settled, confirmed, question, granted, owner, mine>>
    /\ KeepOthers

(* onProcessLost begins: the pipe is closed, and the reader joined. *)
SeesLoss ==
    /\ pc = "poll"
    /\ running
    /\ proc = 0
    /\ found
    /\ ClosePipe
    /\ pc' = "lost"
    /\ UNCHANGED members /\ UNCHANGED <<world, job, late, workers, history>>

(* Mutated: the handle is kept. *)
ForgetsProcess_KeepsHandle ==
    /\ pc = "lost"
    /\ Joinable
    /\ pipe' = FALSE
    /\ reader' = "none"
    /\ found' = FALSE
    /\ pid' = 0
    /\ pc' = "poll"
    /\ UNCHANGED <<world, running, handle, settled, confirmed, question, job, late, workers, history>>

ForgetsProcess ==
    /\ pc = "lost"
    /\ Joinable
    /\ pipe' = FALSE
    /\ reader' = "none"
    /\ found' = FALSE
    /\ handle' = 0
    /\ owner' = 0
    /\ pid' = 0
    /\ pc' = "poll"
    /\ UNCHANGED <<world, running, settled, confirmed, question, job, late, workers,
                   granted, mine, mishaps>>

-----------------------------------------------------------------------------
(* run(): onProcessFound.                                                   *)

(* The architecture is unknown, or the plugin has no library for it. *)
NotInjectable ==
    /\ pc = "examine"
    /\ StopAndGoTo("poll")
    /\ UNCHANGED <<found, pid, handle, settled, question, history>>
    /\ KeepOthers

(* The library is in the process: the handle to unload it with is the       *)
(* module base on Windows and the stored one elsewhere.                     *)
KnownHandle ==
    IF Windows THEN lib ELSE IF stored.pid = pid THEN stored.handle ELSE 0

NotLoaded == proc # pid \/ lib = 0

AttachesOverlay ==
    /\ pc = "examine"
    /\ Windows /\ Overlay
    /\ ~NotLoaded
    /\ handle' = lib
    /\ owner' = pid
    /\ mine' = mine \cup {lib}
    /\ settled' = TRUE
    /\ ClosePipe
    /\ pc' = "attach"
    /\ UNCHANGED <<world, running, found, pid, confirmed, question, job, late, workers,
                   granted, mishaps>>

AttachesPipe ==
    /\ pc = "attach"
    /\ Joinable
    /\ pipe' = TRUE
    /\ reader' = "accepting"
    /\ pc' = "poll"
    /\ UNCHANGED <<world, members, job, late, workers, history>>

HandleUnknown ==
    /\ pc = "examine"
    /\ ~NotLoaded /\ ~(Windows /\ Overlay)
    /\ KnownHandle = 0
    /\ StopAndGoTo("poll")
    /\ UNCHANGED <<found, pid, handle, settled, question, history>>
    /\ KeepOthers

StaleFound ==
    /\ pc = "examine"
    /\ ~NotLoaded /\ ~(Windows /\ Overlay)
    /\ KnownHandle # 0
    /\ handle' = KnownHandle
    /\ owner' = pid
    /\ job' = Job("unload", pid, KnownHandle)
    /\ pc' = "unloadStale"
    /\ UNCHANGED <<world, running, found, pid, settled, confirmed, question, pipe, reader,
                   late, workers, granted, mine, mishaps>>

NothingLoaded ==
    /\ pc = "examine"
    /\ NotLoaded
    /\ pc' = "stabilise"
    /\ UNCHANGED members /\ UNCHANGED history /\ KeepOthers

(* The unload ended: a failure stopped the worker, and a stop from outside  *)
(* ends onProcessFound as well.                                             *)
StaleUnloaded ==
    /\ pc = "unloadStale"
    /\ JobOver
    /\ job' = NoJob
    /\ handle' = 0
    /\ owner' = 0
    /\ IF job.st = "failed" THEN StopAndGoTo("poll")
       ELSE /\ pc' = IF running THEN "stabilise" ELSE "poll"
            /\ UNCHANGED <<running, confirmed>>
    /\ stored' = IF job.st = "ok" /\ running THEN NoEntry ELSE stored
    /\ UNCHANGED <<game, found, pid, settled, question,
                   pipe, reader, late, workers, granted, mine, mishaps>>

StaleUnloadGivenUp ==
    /\ pc = "unloadStale"
    /\ GivesUp
    /\ handle' = 0
    /\ owner' = 0
    /\ pc' = IF running THEN "stabilise" ELSE "poll"
    /\ stored' = IF running THEN NoEntry ELSE stored
    /\ UNCHANGED <<game, running, found, pid, settled, confirmed, question,
                   pipe, reader, workers, granted, mine>>

(* Mutated: a user who agreed once is not asked about the next process. *)
Stable_AskedOnce ==
    /\ pc = "stabilise"
    /\ running
    /\ proc # 0
    /\ pid' = proc
    /\ mishaps' = IF handle # 0 /\ pid # proc THEN mishaps \cup {"swap"} ELSE mishaps
    /\ confirmed' = (Overlay \/ confirmed)
    /\ question' = ~confirmed'
    /\ granted' = 0
    /\ pc' = IF confirmed' THEN "inject" ELSE "asked"
    /\ UNCHANGED <<running, found, handle, settled, owner, mine>>
    /\ KeepOthers

(* The stability loop ends when the same process was seen ten times, which  *)
(* may be another one than the one that was examined.                       *)
Stable ==
    /\ pc = "stabilise"
    /\ running
    /\ proc # 0
    /\ pid' = proc
    /\ mishaps' = IF handle # 0 /\ pid # proc THEN mishaps \cup {"swap"} ELSE mishaps
    /\ confirmed' = Overlay
    /\ question' = ~Overlay
    /\ granted' = 0
    /\ pc' = IF Overlay THEN "inject" ELSE "asked"
    /\ UNCHANGED <<running, found, handle, settled, owner, mine>>
    /\ KeepOthers

StoppedInside ==
    /\ \/ pc = "stabilise"
       \/ pc = "woken"
    /\ ~running
    /\ pc' = "poll"
    /\ UNCHANGED members /\ UNCHANGED history /\ KeepOthers

(* The confirmation was queued; only now does run() wait for the answer. *)
WaitsForAnswer ==
    /\ pc = "asked"
    /\ pc' = "waiting"
    /\ UNCHANGED members /\ UNCHANGED history /\ KeepOthers

Resumes ==
    /\ pc = "woken"
    /\ running
    /\ \/ confirmed /\ pc' = "inject" /\ UNCHANGED <<running, confirmed>>
       \/ ~confirmed /\ StopAndGoTo("poll")
    /\ UNCHANGED <<found, pid, handle, settled, question, history>>
    /\ KeepOthers

(* A second of sleep, in which a stop is not noticed; then startPipeServer   *)
(* closes and joins what is left of an earlier pipe.                        *)
OpensPipe ==
    /\ pc = "inject"
    /\ ClosePipe
    /\ pc' = "rejoin"
    /\ UNCHANGED <<world, members, job, late, workers, history>>

StartsLoad ==
    /\ pc = "rejoin"
    /\ Joinable
    /\ pipe' = TRUE
    /\ reader' = "accepting"
    /\ settled' = FALSE
    /\ job' = Job("load", pid, 0)
    /\ pc' = "load"
    /\ UNCHANGED <<world, running, found, pid, handle, confirmed, question, late, workers, history>>

(* The finished handler of the load, run inside waitForFinished. *)
LoadEnds ==
    /\ pc = "load"
    /\ JobOver
    /\ job' = NoJob
    /\ IF job.st = "ok"
       THEN /\ handle' = job.handle
            /\ owner' = job.pid
            /\ mine' = mine \cup {job.handle}
            /\ stored' = Entry(pid, job.handle)
            /\ pc' = "poll"
            /\ UNCHANGED <<running, confirmed>>
       ELSE /\ StopAndGoTo("poll")
            /\ UNCHANGED <<handle, owner, mine, stored>>
    /\ UNCHANGED <<game, found, pid, settled, question,
                   pipe, reader, late, workers, granted, mishaps>>

LoadGivenUp ==
    /\ pc = "load"
    /\ GivesUp
    /\ pc' = "poll"
    /\ UNCHANGED <<world, members, pipe, reader, workers, granted, owner, mine>>

-----------------------------------------------------------------------------
(* run() after its loop.                                                    *)

(* The injection settled, or five seconds have passed. *)
Settles ==
    /\ pc = "settle"
    /\ pc' = "close"
    /\ UNCHANGED members /\ UNCHANGED history /\ KeepOthers

Closes ==
    /\ pc = "close"
    /\ ClosePipe
    /\ pc' = "join"
    /\ UNCHANGED <<world, members, job, late, workers, history>>

(* cleanupAndUnload: a Windows overlay that a Vulkan application has        *)
(* chained stays loaded.                                                    *)
Unloads(chained) ==
    /\ pc = "join"
    /\ Joinable
    /\ chained => Windows /\ Overlay
    /\ pipe' = FALSE
    /\ reader' = "none"
    /\ IF pid > 0 /\ handle # 0 /\ ~chained
       THEN job' = Job("unload", pid, handle) /\ pc' = "unload" /\ UNCHANGED stored
       ELSE UNCHANGED job /\ pc' = "loop" /\ stored' = NoEntry
    /\ mishaps' = IF chained THEN mishaps \cup {"chained"} ELSE mishaps
    /\ UNCHANGED <<game, members, late, workers, granted, owner, mine>>

UnloadEnds ==
    /\ pc = "unload"
    /\ JobOver
    /\ job' = NoJob
    /\ mishaps' = IF job.st = "failed" THEN mishaps \cup {"kept"} ELSE mishaps
    /\ IF job.st = "failed" THEN StopAndGoTo("loop")
       ELSE pc' = "loop" /\ UNCHANGED <<running, confirmed>>
    /\ stored' = NoEntry
    /\ UNCHANGED <<game, found, pid, handle, settled, question,
                   pipe, reader, late, workers, granted, owner, mine>>

UnloadGivenUp ==
    /\ pc = "unload"
    /\ GivesUp
    /\ pc' = "loop"
    /\ stored' = NoEntry
    /\ UNCHANGED <<game, members, pipe, reader, workers, granted, owner, mine>>

(* run() has returned; the thread's event loop delivers what arrived late,  *)
(* with m_pid as it is by now.                                              *)
LateHandler(j) ==
    /\ pc = "loop"
    /\ j \in late
    /\ j.st \in {"ok", "failed"}
    /\ late' = late \ {j}
    /\ IF j.st = "ok" /\ j.cmd = "load"
       THEN handle' = j.handle /\ owner' = j.pid /\ stored' = Entry(pid, j.handle)
       ELSE UNCHANGED <<handle, owner, stored>>
    /\ IF j.st = "failed" THEN StopAndGoTo("loop") ELSE UNCHANGED <<running, confirmed, pc>>
    /\ UNCHANGED <<game, found, pid, settled, question,
                   pipe, reader, job, workers, granted, mine, mishaps>>

-----------------------------------------------------------------------------
(* Calls from the GUI thread and a crash of the host.                       *)

Stop ==
    /\ running
    /\ StopFromOutside
    /\ UNCHANGED <<found, pid, handle, settled, question, history>>
    /\ KeepOthers

(* onConfirmationResult *)
Answer(yes) ==
    /\ question
    /\ question' = FALSE
    /\ confirmed' = yes
    /\ granted' = IF yes THEN pid ELSE 0
    /\ pc' = IF pc = "waiting" THEN "woken" ELSE pc
    /\ UNCHANGED <<running, found, pid, handle, settled, owner, mine, mishaps>>
    /\ KeepOthers

FreshMembers ==
    /\ pc' = "poll"
    /\ running' = TRUE
    /\ found' = FALSE
    /\ pid' = 0
    /\ handle' = 0
    /\ settled' = FALSE
    /\ confirmed' = FALSE
    /\ question' = FALSE
    /\ pipe' = FALSE
    /\ reader' = "none"
    /\ job' = NoJob
    /\ granted' = 0
    /\ owner' = 0
    /\ mine' = {}

(* A new worker takes over: after the last one returned, or after the host  *)
(* died at any moment and was run again.  Injector processes that still run *)
(* go on without anybody to hear of their end.                              *)
NewWorker ==
    /\ workers < MaxWorkers
    /\ workers' = workers + 1
    /\ FreshMembers
    /\ late' = {[j EXCEPT !.st = "orphan"] : j \in {i \in late \cup {job} : i.st \in {"busy", "orphan"}}}
    /\ mishaps' = (mishaps \cap {"timeout", "orphan"}) \cup (IF job # NoJob \/ late # {} THEN {"orphan"} ELSE {})
    /\ UNCHANGED world

(* Initially the process may run already, with a library an earlier worker  *)
(* left in it, whose handle is stored or not.                               *)
Init ==
    /\ build \in Builds
    /\ proc \in {0, 1}
    /\ lastPid = proc
    /\ lib \in {0, proc}
    /\ loads = lib
    /\ refs = lib
    /\ stored \in {NoEntry} \cup (IF lib # 0 THEN {Entry(proc, lib)} ELSE {})
    /\ pc = "poll" /\ running = TRUE /\ found = FALSE /\ pid = 0 /\ handle = 0
    /\ settled = FALSE /\ confirmed = FALSE /\ question = FALSE
    /\ pipe = FALSE /\ reader = "none" /\ job = NoJob /\ late = {}
    /\ workers = 0
    /\ granted = 0 /\ owner = 0 /\ mine = {} /\ mishaps = {}

Outside ==
    \/ ProcessStarts
    \/ ProcessExits
    \/ LibraryConnects
    \/ \E success \in BOOLEAN : LibraryReports(success)
    \/ Stop
    \/ \E yes \in BOOLEAN : Answer(yes)
    \/ NewWorker

Injector ==
    \/ InjectorSucceeds
    \/ InjectorFails
    \/ \E j \in late : LateInjectorEnds(j) \/ OrphanEnds(j)

Run ==
    \/ SeesStop \/ SeesProcess \/ SeesLoss \/ ForgetsProcess
    \/ NotInjectable \/ AttachesOverlay \/ AttachesPipe \/ HandleUnknown
    \/ StaleFound \/ NothingLoaded \/ StaleUnloaded \/ StaleUnloadGivenUp
    \/ Stable \/ StoppedInside \/ WaitsForAnswer \/ Resumes
    \/ OpensPipe \/ StartsLoad \/ LoadEnds \/ LoadGivenUp
    \/ Settles \/ Closes \/ (\E chained \in BOOLEAN : Unloads(chained))
    \/ UnloadEnds \/ UnloadGivenUp
    \/ (\E j \in late : LateHandler(j))

Next == (Outside \/ Injector \/ Run) /\ UNCHANGED build

Spec == Init /\ [][Next]_vars

-----------------------------------------------------------------------------
(* Properties *)

Steps == {"poll", "examine", "attach", "unloadStale", "stabilise", "asked", "waiting", "woken",
          "inject", "rejoin", "load", "lost", "settle", "close", "join", "unload", "loop"}

Jobs == [cmd : {"none", "load", "unload"}, pid : Pids \cup {0}, handle : Handles \cup {0},
         st : {"idle", "busy", "ok", "failed", "orphan"}]

(* Nothing is injected into a process the user was not asked about and did  *)
(* not agree to: neither a stop, nor a restart of the process during the    *)
(* stability loop, nor an answer that comes late gets around it.            *)
AskedFirst == pc = "load" => Overlay \/ granted = pid

(* The library is never loaded into a process that already has it, unless   *)
(* an injector process outlived the wait for it, or its worker.             *)
NoDoubleLoad ==
    pc = "load" /\ job.st = "busy" /\ job.pid = proc /\ lib # 0 =>
        mishaps \cap {"timeout", "orphan"} # {}

(* A library is loaded with the user's consent, and once.                   *)
LoadIsAllowed == AskedFirst /\ NoDoubleLoad

(* m_libraryHandle came from the process m_pid names, and the handle stored *)
(* for a live process is that of its library, so that this worker and a     *)
(* later one unload the right library.  The exceptions: the process was     *)
(* replaced between two polls, so that onProcessFound runs for the new one  *)
(* without onProcessLost for the old one; the load has not been recorded    *)
(* yet, was cut off by a crash before it was, or outlived its wait and is   *)
(* recorded with the pid m_pid has when the handler runs.                   *)
HandlesAreRight ==
    /\ handle # 0 /\ pc # "loop" => owner = pid \/ "swap" \in mishaps
    /\ stored.pid = proc /\ proc # 0 /\ lib # 0 =>
          \/ stored.handle = lib
          \/ pc = "load"
          \/ mishaps \cap {"timeout", "orphan"} # {}

(* A worker that has returned left none of the libraries it had in the      *)
(* process, except after one of the mishaps.                                *)
LeavesNothingBehind ==
    pc = "loop" /\ lib # 0 => lib \notin mine \/ mishaps # {}

(* What was loaded is unloaded: by the right handle, and before the worker  *)
(* returns.                                                                 *)
UnloadsItsOwn == HandlesAreRight /\ LeavesNothingBehind

(* The reader thread dereferences m_pipe without a lock: as long as it was  *)
(* not joined the pipe is there.  When run() has returned it is joined and  *)
(* the pipe gone: no thread calls into the worker about to be deleted.      *)
ReaderIsSafe ==
    /\ reader # "none" => pipe
    /\ pc = "loop" => reader = "none" /\ ~pipe /\ ~running

(* run() makes its steps, and an injector process ends or is given up. *)
Fairness == WF_vars(Run /\ UNCHANGED build) /\ WF_vars(Injector /\ UNCHANGED build)
FairSpec == Spec /\ Fairness

(* A stopped worker returns.  Two races are the exceptions: the wait for    *)
(* the confirmation that begins after the stop, and a reader that accepted  *)
(* a connection while the pipe was being closed.                            *)
StopEnds ==
    \/ []<>(running \/ pc = "loop")
    \/ <>[](pc = "waiting" /\ ~running)
    \/ <>[](reader = "wedged")

(* A process that stays is attended to by a worker that keeps running: run  *)
(* is never stuck but for the user's answer or the race on the pipe.        *)
ProcessIsNoticed ==
    \A p \in Pids :
        []<>(proc # p \/ ~running \/ pid = p \/ pc = "waiting" \/ reader = "wedged")
=============================================================================
