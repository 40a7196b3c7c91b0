------------------------ MODULE PluginWorker_proofs ------------------------
(***************************************************************************)
(* Proofs about the plugin worker, for every set of builds and every bound *)
(* on pids, loads and workers: the pipe's reader is joined before the pipe *)
(* goes, nothing is loaded that was not agreed to or twice, and what was   *)
(* loaded is unloaded by its own handle; and, for every set of sources and *)
(* every interval, that no character of a streamed text is lost, doubled,  *)
(* reordered or cut off by anything but silence.                           *)
(***************************************************************************)
EXTENDS PluginWorker, Debounce, SequenceTheorems, TLAPS

OptPids == Pids \cup {0}
OptHandles == Handles \cup {0}

Mishaps == {"swap", "timeout", "orphan", "chained", "kept"}

(* An injector process outlived the wait for it, or its worker: only then   *)
(* does one run that no step of run() waits for.                            *)
Cut == "timeout" \in mishaps \/ "orphan" \in mishaps

Waiting == {"load", "unload", "unloadStale"}       \* for an injector process
Asking == {"asked", "waiting", "woken"}
Injecting == {"inject", "rejoin", "load"}
Ending == {"settle", "close", "join", "unload", "loop"}
Found == {"examine", "attach", "unloadStale", "stabilise", "asked", "waiting", "woken",
          "inject", "rejoin", "load", "settle", "unload"}

TypedWorld ==
    /\ build \in Builds
    /\ proc \in OptPids /\ lastPid \in OptPids
    /\ lib \in OptHandles /\ loads \in OptHandles /\ refs \in Nat
    /\ stored \in [pid : OptPids, handle : OptHandles]

TypedFlags ==
    /\ running \in BOOLEAN /\ found \in BOOLEAN /\ settled \in BOOLEAN
    /\ confirmed \in BOOLEAN /\ question \in BOOLEAN /\ pipe \in BOOLEAN

TypedMembers ==
    /\ pc \in Steps
    /\ pid \in OptPids /\ handle \in OptHandles
    /\ reader \in {"none", "accepting", "reading", "ended", "wedged"}
    /\ granted \in OptPids /\ owner \in OptPids
    /\ mine \subseteq Handles
    /\ mishaps \subseteq Mishaps

TypedJobs == job \in Jobs /\ late \subseteq Jobs

Typed == TypedWorld /\ TypedFlags /\ TypedMembers /\ TypedJobs

(* The library is in a live process, as often as it was loaded and not      *)
(* unloaded, under the last handle given or an earlier one; a finished load *)
(* reports such a handle.                                                   *)
World ==
    /\ lib # 0 => proc # 0
    /\ lib = 0 <=> refs = 0
    /\ lib \leq loads
    /\ \A h \in mine : h \leq loads
    /\ pc = "load" /\ job.st = "ok" => job.handle # 0 /\ job.handle \leq loads

(* run() waits for an injector process exactly where it started one.        *)
Course ==
    /\ job # NoJob <=> pc \in Waiting
    /\ pc \in Waiting => job.st \in {"busy", "ok", "failed"}
    /\ pc = "load" => job.cmd = "load" /\ job.pid = pid
    /\ pc \in {"unload", "unloadStale"} => job.cmd = "unload"
    /\ pc \in Ending => ~running
    /\ pc \in Found => pid # 0
    /\ pc = "lost" \/ found => pid # 0
    /\ handle # 0 /\ pc # "loop" => pid # 0
    /\ ~Cut => late = {}

(* The pipe is there as long as its reader is not joined, and gone before   *)
(* the worker unloads and returns.                                          *)
Reads ==
    /\ reader # "none" => pipe
    /\ pc \in {"unload", "loop"} => reader = "none" /\ ~pipe

(* An answer is for the question about the pid that is waited for, and no   *)
(* question is open any more when the injection begins.                     *)
Asked ==
    /\ question => ~Overlay
    /\ running /\ question => pc \in {"asked", "waiting"}
    /\ pc \in Injecting => ~question /\ (Overlay \/ granted = pid)
    /\ pc \in Asking /\ confirmed => Overlay \/ granted = pid

(* Without a mishap of the injector processes the library is loaded once:   *)
(* from the examination to the load it is not in the process.               *)
Once ==
    ~Cut =>
        /\ refs \leq 1
        /\ pc \in {"stabilise", "inject", "rejoin", "lost"} \cup Asking => lib = 0
        /\ pc = "examine" /\ lib # 0 => proc = pid
        /\ pc = "load" /\ job.st \in {"busy", "failed"} => lib = 0
        /\ pc = "load" /\ job.st = "ok" /\ lib # 0 => lib = job.handle
        /\ pc \in {"unload", "unloadStale"} /\ job.st = "ok" => lib = 0

(* The handle held is of the process m_pid names, and the stored one, if it *)
(* is of the live process, of the library in it.                            *)
Rightly ==
    /\ handle # 0 /\ pc # "loop" => owner = pid \/ "swap" \in mishaps
    /\ stored.pid = proc /\ proc # 0 /\ lib # 0 =>
          stored.handle = lib \/ pc = "load" \/ Cut

(* A library this worker had and that is still there is the one it has the  *)
(* handle of, and run() is not about to forget it.                          *)
Held ==
    mishaps = {} /\ lib # 0 /\ lib \in mine =>
        /\ handle = lib
        /\ pc \in {"poll", "attach", "settle", "close", "join", "unload"}

Inv == Typed /\ World /\ Course /\ Reads /\ Asked /\ Once /\ Rightly /\ Held

-----------------------------------------------------------------------------
(* What an injector process is after its end.                               *)
LEMMA JobOutcomes ==
    ASSUME NEW j \in Jobs, lib' \in OptHandles
    PROVE  /\ Succeeded(j) \in Jobs /\ Failed(j) \in Jobs
           /\ Succeeded(j).st = "ok" /\ Failed(j).st = "failed"
           /\ Succeeded(j).cmd = j.cmd /\ Failed(j).cmd = j.cmd
           /\ Succeeded(j).pid = j.pid /\ Failed(j).pid = j.pid
           /\ Succeeded(j).handle = IF j.cmd = "load" THEN lib' ELSE j.handle
           /\ Succeeded(j) # NoJob /\ Failed(j) # NoJob
BY DEF Jobs, Succeeded, Failed, OptHandles, NoJob

-----------------------------------------------------------------------------
(* Every step keeps the types, those of the game and the file first.        *)
LEMMA TypedWorldKept ==
    ASSUME Inv, [Next]_vars
    PROVE  TypedWorld'
<1> USE WorkerAssumption DEF Inv, Typed, TypedWorld, TypedMembers, TypedJobs, World, OptPids,
       OptHandles, Pids, Handles, NoEntry, Entry, Jobs, game, world, members, threads, history
<1> build' = build
  BY DEF Next, vars
<1>1. CASE ProcessStarts \/ ProcessExits \/ LibraryConnects
  BY <1>1 DEF ProcessStarts, ProcessExits, Disconnected, LibraryConnects
<1>2. CASE (\E success \in BOOLEAN : LibraryReports(success)) \/ Stop \/ (\E yes \in BOOLEAN :
            Answer(yes))
  BY <1>2 DEF LibraryReports, StopFromOutside, Stop, KeepOthers, Answer
<1>3. CASE NewWorker
  BY <1>3 DEF NewWorker, FreshMembers
<1>4. CASE InjectorSucceeds
  BY <1>4 DEF InjectorSucceeds, Injects, Loads, UnloadsIt, Disconnected, Succeeded
<1>5. CASE InjectorFails
  BY <1>5 DEF InjectorFails, Failed
<1>6. CASE \E j \in late : LateInjectorEnds(j)
  BY <1>6 DEF LateInjectorEnds, Injects, Loads, UnloadsIt, Disconnected, Succeeded, Failed
<1>7. CASE \E j \in late : OrphanEnds(j)
  BY <1>7 DEF OrphanEnds, Injects, Loads, UnloadsIt, Disconnected
<1>8. CASE SeesStop \/ SeesProcess \/ NothingLoaded \/ NotInjectable \/ HandleUnknown
  BY <1>8 DEF SeesStop, KeepOthers, SeesProcess, NothingLoaded, NotLoaded, NotInjectable,
      StopAndGoTo, HandleUnknown
<1>9. CASE SeesLoss \/ ForgetsProcess \/ AttachesOverlay \/ AttachesPipe
  BY <1>9 DEF SeesLoss, ClosePipe, ForgetsProcess, Joinable, AttachesOverlay, NotLoaded,
      AttachesPipe
<1>10. CASE StaleFound \/ StaleUnloaded \/ StaleUnloadGivenUp
  BY <1>10 DEF StaleFound, NotLoaded, KnownHandle, Job, NoJob, StaleUnloaded, StopAndGoTo, JobOver,
      NoEntry, StaleUnloadGivenUp, GivesUp
<1>11. CASE Stable \/ StoppedInside \/ WaitsForAnswer \/ Resumes
  BY <1>11 DEF Stable, KeepOthers, StoppedInside, WaitsForAnswer, Resumes, StopAndGoTo
<1>12. CASE OpensPipe \/ StartsLoad \/ LoadEnds \/ LoadGivenUp
  BY <1>12 DEF OpensPipe, ClosePipe, StartsLoad, Joinable, Job, NoJob, LoadEnds, JobOver,
      StopAndGoTo, Entry, NoEntry, LoadGivenUp, GivesUp
<1>13. CASE Settles \/ Closes \/ (\E chained \in BOOLEAN : Unloads(chained)) \/ UnloadEnds \/
            UnloadGivenUp
  BY <1>13 DEF Settles, KeepOthers, Closes, ClosePipe, Unloads, Joinable, Job, NoJob, NoEntry,
      UnloadEnds, JobOver, StopAndGoTo, UnloadGivenUp, GivesUp
<1>14. CASE \E j \in late : LateHandler(j)
  BY <1>14 DEF LateHandler, StopAndGoTo, Entry, NoEntry
<1>15. CASE UNCHANGED vars
  BY <1>15 DEF vars
<1> QED
  BY <1>1, <1>2, <1>3, <1>4, <1>5, <1>6, <1>7, <1>8, <1>9, <1>10, <1>11, <1>12, <1>13,
      <1>14, <1>15 DEF Next, Outside, Injector, Run

LEMMA TypedFlagsKept ==
    ASSUME Inv, [Next]_vars
    PROVE  TypedFlags'
<1> USE WorkerAssumption DEF Inv, Typed, TypedFlags, game, world, members, threads, history
<1> build' = build
  BY DEF Next, vars
<1> Overlay \in BOOLEAN
  BY DEF TypedWorld, Overlay
<1>1. CASE ProcessStarts \/ ProcessExits \/ LibraryConnects
  BY Zenon, <1>1 DEF ProcessStarts, ProcessExits, Disconnected, LibraryConnects
<1>2. CASE (\E success \in BOOLEAN : LibraryReports(success)) \/ Stop \/ (\E yes \in BOOLEAN :
            Answer(yes))
  BY Zenon, <1>2 DEF LibraryReports, StopFromOutside, Stop, KeepOthers, Answer
<1>3. CASE NewWorker
  BY Zenon, <1>3 DEF NewWorker, FreshMembers
<1>4. CASE InjectorSucceeds
  BY Zenon, <1>4 DEF InjectorSucceeds, Injects, Loads, UnloadsIt, Disconnected, Succeeded
<1>5. CASE InjectorFails
  BY Zenon, <1>5 DEF InjectorFails, Failed
<1>6. CASE \E j \in late : LateInjectorEnds(j)
  BY Zenon, <1>6 DEF LateInjectorEnds, Injects, Loads, UnloadsIt, Disconnected, Succeeded, Failed
<1>7. CASE \E j \in late : OrphanEnds(j)
  BY Zenon, <1>7 DEF OrphanEnds, Injects, Loads, UnloadsIt, Disconnected
<1>8. CASE SeesStop \/ SeesProcess \/ NothingLoaded \/ NotInjectable \/ HandleUnknown
  BY Zenon, <1>8 DEF SeesStop, KeepOthers, SeesProcess, NothingLoaded, NotLoaded, NotInjectable,
      StopAndGoTo, HandleUnknown
<1>9. CASE SeesLoss \/ ForgetsProcess \/ AttachesOverlay \/ AttachesPipe
  BY Zenon, <1>9 DEF SeesLoss, ClosePipe, ForgetsProcess, Joinable, AttachesOverlay, NotLoaded,
      AttachesPipe
<1>10. CASE StaleFound \/ StaleUnloaded \/ StaleUnloadGivenUp
  BY Zenon, <1>10 DEF StaleFound, NotLoaded, KnownHandle, Job, NoJob, StaleUnloaded, StopAndGoTo,
      JobOver, NoEntry, StaleUnloadGivenUp, GivesUp
<1>11. CASE Stable \/ StoppedInside \/ WaitsForAnswer \/ Resumes
  BY Zenon, <1>11 DEF Stable, KeepOthers, StoppedInside, WaitsForAnswer, Resumes, StopAndGoTo
<1>12. CASE OpensPipe \/ StartsLoad \/ LoadEnds \/ LoadGivenUp
  BY Zenon, <1>12 DEF OpensPipe, ClosePipe, StartsLoad, Joinable, Job, NoJob, LoadEnds, JobOver,
      StopAndGoTo, Entry, NoEntry, LoadGivenUp, GivesUp
<1>13. CASE Settles \/ Closes \/ (\E chained \in BOOLEAN : Unloads(chained)) \/ UnloadEnds \/
            UnloadGivenUp
  BY Zenon, <1>13 DEF Settles, KeepOthers, Closes, ClosePipe, Unloads, Joinable, Job, NoJob,
      NoEntry, UnloadEnds, JobOver, StopAndGoTo, UnloadGivenUp, GivesUp
<1>14. CASE \E j \in late : LateHandler(j)
  BY Zenon, <1>14 DEF LateHandler, StopAndGoTo, Entry, NoEntry
<1>15. CASE UNCHANGED vars
  BY Zenon, <1>15 DEF vars
<1> QED
  BY <1>1, <1>2, <1>3, <1>4, <1>5, <1>6, <1>7, <1>8, <1>9, <1>10, <1>11, <1>12, <1>13,
      <1>14, <1>15 DEF Next, Outside, Injector, Run

LEMMA TypedMembersKept ==
    ASSUME Inv, [Next]_vars
    PROVE  TypedMembers'
<1> USE WorkerAssumption DEF Inv, Typed, TypedWorld, TypedMembers, TypedJobs, Course, World,
       OptPids, OptHandles, Pids, Handles, Steps, Jobs, Mishaps, Waiting, game, world, members,
       threads, history
<1> build' = build
  BY DEF Next, vars
<1>1. CASE ProcessStarts
  BY <1>1 DEF ProcessStarts
<1>2. CASE ProcessExits
  BY <1>2 DEF ProcessExits, Disconnected
<1>3. CASE LibraryConnects
  BY <1>3 DEF LibraryConnects
<1>4. CASE \E success \in BOOLEAN : LibraryReports(success)
  BY <1>4 DEF LibraryReports, StopFromOutside
<1>5. CASE Stop
  BY <1>5 DEF Stop, StopFromOutside, KeepOthers
<1>6. CASE \E yes \in BOOLEAN : Answer(yes)
  BY <1>6 DEF Answer, KeepOthers
<1>7. CASE NewWorker
  BY <1>7 DEF NewWorker, FreshMembers
<1>8. CASE InjectorSucceeds
  BY <1>8 DEF InjectorSucceeds, Injects, Loads, UnloadsIt, Disconnected, Succeeded
<1>9. CASE InjectorFails
  BY <1>9 DEF InjectorFails, Failed
<1>10. CASE \E j \in late : LateInjectorEnds(j)
  BY <1>10 DEF LateInjectorEnds, Injects, Loads, UnloadsIt, Disconnected, Succeeded, Failed
<1>11. CASE \E j \in late : OrphanEnds(j)
  BY <1>11 DEF OrphanEnds, Injects, Loads, UnloadsIt, Disconnected
<1>12. CASE SeesStop \/ SeesProcess \/ NothingLoaded \/ NotInjectable \/ HandleUnknown
  BY <1>12 DEF SeesStop, KeepOthers, SeesProcess, NothingLoaded, NotLoaded, NotInjectable,
      StopAndGoTo, HandleUnknown
<1>13. CASE SeesLoss \/ ForgetsProcess \/ AttachesOverlay \/ AttachesPipe
  BY <1>13 DEF SeesLoss, ClosePipe, ForgetsProcess, Joinable, AttachesOverlay, NotLoaded,
      AttachesPipe
<1>14. CASE StaleFound \/ StaleUnloaded \/ StaleUnloadGivenUp
  BY <1>14 DEF StaleFound, NotLoaded, KnownHandle, Job, NoJob, StaleUnloaded, StopAndGoTo, JobOver,
      NoEntry, StaleUnloadGivenUp, GivesUp
<1>15. CASE Stable \/ StoppedInside \/ WaitsForAnswer \/ Resumes
  BY <1>15 DEF Stable, KeepOthers, StoppedInside, WaitsForAnswer, Resumes, StopAndGoTo
<1>16. CASE OpensPipe \/ StartsLoad \/ LoadEnds \/ LoadGivenUp
  BY ZenonT(60), <1>16 DEF OpensPipe, ClosePipe, StartsLoad, Joinable, Job, NoJob, LoadEnds,
      JobOver,
      StopAndGoTo, Entry, NoEntry, LoadGivenUp, GivesUp
<1>17. CASE Settles \/ Closes \/ (\E chained \in BOOLEAN : Unloads(chained)) \/ UnloadEnds \/
            UnloadGivenUp
  BY <1>17 DEF Settles, KeepOthers, Closes, ClosePipe, Unloads, Joinable, Job, NoJob, NoEntry,
      UnloadEnds, JobOver, StopAndGoTo, UnloadGivenUp, GivesUp
<1>18. CASE \E j \in late : LateHandler(j)
  BY <1>18 DEF LateHandler, StopAndGoTo, Entry, NoEntry
<1>19. CASE UNCHANGED vars
  BY <1>19 DEF vars
<1> QED
  BY <1>1, <1>2, <1>3, <1>4, <1>5, <1>6, <1>7, <1>8, <1>9, <1>10, <1>11, <1>12, <1>13,
      <1>14, <1>15, <1>16, <1>17, <1>18, <1>19 DEF Next, Outside, Injector, Run

LEMMA TypedJobsKept ==
    ASSUME Inv, [Next]_vars
    PROVE  TypedJobs'
<1> USE WorkerAssumption DEF Inv, Typed, TypedWorld, TypedMembers, TypedJobs, OptPids, OptHandles,
       Pids, Handles, Jobs, NoJob, Job, game, world, members, threads, history
<1> build' = build
  BY DEF Next, vars
<1> lib' \in OptHandles
  BY TypedWorldKept DEF TypedWorld
<1>1. CASE ProcessStarts \/ ProcessExits \/ LibraryConnects
  BY <1>1 DEF ProcessStarts, ProcessExits, Disconnected, LibraryConnects
<1>2. CASE (\E success \in BOOLEAN : LibraryReports(success)) \/ Stop \/ (\E yes \in BOOLEAN :
            Answer(yes))
  BY <1>2 DEF LibraryReports, StopFromOutside, Stop, KeepOthers, Answer
<1>3. CASE NewWorker
  BY <1>3 DEF NewWorker, FreshMembers
<1>4. CASE InjectorSucceeds
  <2> HIDE DEF Jobs
  <2> QED
    BY <1>4, JobOutcomes DEF InjectorSucceeds
<1>5. CASE InjectorFails
  BY <1>5 DEF InjectorFails, Failed
<1>6. CASE \E j \in late : LateInjectorEnds(j)
  <2> HIDE DEF Jobs
  <2> QED
    BY <1>6, JobOutcomes DEF LateInjectorEnds
<1>7. CASE \E j \in late : OrphanEnds(j)
  BY <1>7 DEF OrphanEnds, Injects, Loads, UnloadsIt, Disconnected
<1>8. CASE SeesStop \/ SeesProcess \/ NothingLoaded \/ NotInjectable \/ HandleUnknown
  BY <1>8 DEF SeesStop, KeepOthers, SeesProcess, NothingLoaded, NotLoaded, NotInjectable,
      StopAndGoTo, HandleUnknown
<1>9. CASE SeesLoss \/ ForgetsProcess \/ AttachesOverlay \/ AttachesPipe
  BY <1>9 DEF SeesLoss, ClosePipe, ForgetsProcess, Joinable, AttachesOverlay, NotLoaded,
      AttachesPipe
<1>10. CASE StaleFound \/ StaleUnloaded \/ StaleUnloadGivenUp
  BY <1>10 DEF StaleFound, NotLoaded, KnownHandle, Job, NoJob, StaleUnloaded, StopAndGoTo, JobOver,
      NoEntry, StaleUnloadGivenUp, GivesUp
<1>11. CASE Stable \/ StoppedInside \/ WaitsForAnswer \/ Resumes
  BY <1>11 DEF Stable, KeepOthers, StoppedInside, WaitsForAnswer, Resumes, StopAndGoTo
<1>12. CASE OpensPipe \/ StartsLoad \/ LoadEnds \/ LoadGivenUp
  BY <1>12 DEF OpensPipe, ClosePipe, StartsLoad, Joinable, Job, NoJob, LoadEnds, JobOver,
      StopAndGoTo, Entry, NoEntry, LoadGivenUp, GivesUp
<1>13. CASE Settles \/ Closes \/ (\E chained \in BOOLEAN : Unloads(chained)) \/ UnloadEnds \/
            UnloadGivenUp
  BY <1>13 DEF Settles, KeepOthers, Closes, ClosePipe, Unloads, Joinable, Job, NoJob, NoEntry,
      UnloadEnds, JobOver, StopAndGoTo, UnloadGivenUp, GivesUp
<1>14. CASE \E j \in late : LateHandler(j)
  BY <1>14 DEF LateHandler, StopAndGoTo, Entry, NoEntry
<1>15. CASE UNCHANGED vars
  BY <1>15 DEF vars
<1> QED
  BY <1>1, <1>2, <1>3, <1>4, <1>5, <1>6, <1>7, <1>8, <1>9, <1>10, <1>11, <1>12, <1>13,
      <1>14, <1>15 DEF Next, Outside, Injector, Run

-----------------------------------------------------------------------------
(* The other parts of the invariant.                                        *)
LEMMA WorldKept ==
    ASSUME Inv, [Next]_vars
    PROVE  World'
<1> USE WorkerAssumption DEF Inv, Typed, TypedWorld, TypedMembers, TypedJobs, World, Course,
       OptPids, OptHandles, Pids, Handles, Jobs, Waiting, game, world, members, threads, history
<1> build' = build
  BY DEF Next, vars
<1>1. CASE ProcessStarts
  BY <1>1 DEF ProcessStarts
<1>2. CASE ProcessExits
  BY <1>2 DEF ProcessExits, Disconnected
<1>3. CASE LibraryConnects
  BY <1>3 DEF LibraryConnects
<1>4. CASE \E success \in BOOLEAN : LibraryReports(success)
  BY <1>4 DEF LibraryReports, StopFromOutside
<1>5. CASE Stop
  BY <1>5 DEF Stop, StopFromOutside, KeepOthers
<1>6. CASE \E yes \in BOOLEAN : Answer(yes)
  BY <1>6 DEF Answer, KeepOthers
<1>7. CASE NewWorker
  BY <1>7 DEF NewWorker, FreshMembers
<1>8. CASE InjectorSucceeds
  BY <1>8 DEF InjectorSucceeds, Injects, Loads, UnloadsIt, Disconnected, Succeeded
<1>9. CASE InjectorFails
  BY <1>9 DEF InjectorFails, Failed
<1>10. CASE \E j \in late : LateInjectorEnds(j)
  BY <1>10 DEF LateInjectorEnds, Injects, Loads, UnloadsIt, Disconnected, Succeeded, Failed
<1>11. CASE \E j \in late : OrphanEnds(j)
  BY <1>11 DEF OrphanEnds, Injects, Loads, UnloadsIt, Disconnected
<1>12. CASE SeesStop \/ SeesProcess \/ NothingLoaded \/ NotInjectable \/ HandleUnknown
  BY ZenonT(60), <1>12 DEF SeesStop, KeepOthers, SeesProcess, NothingLoaded, NotLoaded,
      NotInjectable,
      StopAndGoTo, HandleUnknown
<1>13. CASE SeesLoss \/ ForgetsProcess \/ AttachesOverlay \/ AttachesPipe
  BY ZenonT(60), <1>13 DEF SeesLoss, ClosePipe, ForgetsProcess, Joinable, AttachesOverlay,
      NotLoaded,
      AttachesPipe
<1>14. CASE StaleFound \/ StaleUnloaded \/ StaleUnloadGivenUp
  BY ZenonT(60), <1>14 DEF StaleFound, NotLoaded, KnownHandle, Job, NoJob, StaleUnloaded,
      StopAndGoTo, JobOver,
      NoEntry, StaleUnloadGivenUp, GivesUp
<1>15. CASE Stable \/ StoppedInside \/ WaitsForAnswer \/ Resumes
  BY ZenonT(60), <1>15 DEF Stable, KeepOthers, StoppedInside, WaitsForAnswer, Resumes, StopAndGoTo
<1>16. CASE OpensPipe
  BY <1>16 DEF OpensPipe, ClosePipe
<1>17. CASE StartsLoad
  BY <1>17 DEF StartsLoad, Joinable, Job, NoJob
<1>18. CASE LoadEnds
  <2>1. CASE job.st = "ok"
    BY <1>18, <2>1 DEF LoadEnds, JobOver
  <2>2. CASE job.st # "ok"
    BY <1>18, <2>2 DEF LoadEnds, JobOver, StopAndGoTo
  <2> QED
    BY <2>1, <2>2
<1>19. CASE LoadGivenUp
  BY <1>19 DEF LoadGivenUp, GivesUp
<1>20. CASE Settles \/ Closes \/ (\E chained \in BOOLEAN : Unloads(chained)) \/ UnloadEnds \/
            UnloadGivenUp
  BY ZenonT(60), <1>20 DEF Settles, KeepOthers, Closes, ClosePipe, Unloads, Joinable, Job, NoJob,
      NoEntry,
      UnloadEnds, JobOver, StopAndGoTo, UnloadGivenUp, GivesUp
<1>21. CASE \E j \in late : LateHandler(j)
  BY <1>21 DEF LateHandler, StopAndGoTo, Entry, NoEntry
<1>22. CASE UNCHANGED vars
  BY <1>22 DEF vars
<1> QED
  BY <1>1, <1>2, <1>3, <1>4, <1>5, <1>6, <1>7, <1>8, <1>9, <1>10, <1>11, <1>12, <1>13,
      <1>14, <1>15, <1>16, <1>17, <1>18, <1>19, <1>20, <1>21, <1>22 DEF Next, Outside, Injector, Run

LEMMA CourseKept ==
    ASSUME Inv, [Next]_vars
    PROVE  Course'
<1> USE WorkerAssumption DEF Inv, Typed, TypedWorld, TypedFlags, TypedMembers, TypedJobs, Course,
       OptPids, Pids, Steps, Waiting, Ending, Found, NoJob, Job, Jobs, Cut, game, world, members,
       threads, history
<1> build' = build
  BY DEF Next, vars
<1> lib' \in OptHandles
  BY TypedWorldKept DEF TypedWorld
<1>1. CASE ProcessStarts \/ ProcessExits \/ LibraryConnects
  BY <1>1 DEF ProcessStarts, ProcessExits, Disconnected, LibraryConnects
<1>2. CASE (\E success \in BOOLEAN : LibraryReports(success)) \/ Stop \/ (\E yes \in BOOLEAN :
            Answer(yes))
  BY <1>2 DEF LibraryReports, StopFromOutside, Stop, KeepOthers, Answer
<1>3. CASE NewWorker
  BY <1>3 DEF NewWorker, FreshMembers
<1>4. CASE InjectorSucceeds
  <2>1. Succeeded(job) # NoJob /\ Succeeded(job).st = "ok" /\ Succeeded(job).cmd = job.cmd
         /\ Succeeded(job).pid = job.pid
    BY JobOutcomes
  <2> QED
    BY <1>4, <2>1 DEF InjectorSucceeds
<1>5. CASE InjectorFails
  BY <1>5 DEF InjectorFails, Failed
<1>6. CASE \E j \in late : LateInjectorEnds(j)
  BY <1>6 DEF LateInjectorEnds, Injects, Loads, UnloadsIt, Disconnected, Succeeded, Failed
<1>7. CASE \E j \in late : OrphanEnds(j)
  BY <1>7 DEF OrphanEnds, Injects, Loads, UnloadsIt, Disconnected
<1>8. CASE SeesStop \/ SeesProcess \/ NothingLoaded \/ NotInjectable \/ HandleUnknown
  BY <1>8 DEF SeesStop, KeepOthers, SeesProcess, NothingLoaded, NotLoaded, NotInjectable,
      StopAndGoTo, HandleUnknown
<1>9. CASE SeesLoss \/ ForgetsProcess \/ AttachesOverlay \/ AttachesPipe
  BY <1>9 DEF SeesLoss, ClosePipe, ForgetsProcess, Joinable, AttachesOverlay, NotLoaded,
      AttachesPipe
<1>10. CASE StaleFound \/ StaleUnloaded \/ StaleUnloadGivenUp
  BY <1>10 DEF StaleFound, NotLoaded, KnownHandle, Job, NoJob, StaleUnloaded, StopAndGoTo, JobOver,
      NoEntry, StaleUnloadGivenUp, GivesUp
<1>11. CASE Stable \/ StoppedInside \/ WaitsForAnswer \/ Resumes
  BY <1>11 DEF Stable, KeepOthers, StoppedInside, WaitsForAnswer, Resumes, StopAndGoTo
<1>12. CASE OpensPipe \/ StartsLoad \/ LoadEnds \/ LoadGivenUp
  BY <1>12 DEF OpensPipe, ClosePipe, StartsLoad, Joinable, Job, NoJob, LoadEnds, JobOver,
      StopAndGoTo, Entry, NoEntry, LoadGivenUp, GivesUp
<1>13. CASE Settles \/ Closes \/ (\E chained \in BOOLEAN : Unloads(chained)) \/ UnloadEnds \/
            UnloadGivenUp
  BY <1>13 DEF Settles, KeepOthers, Closes, ClosePipe, Unloads, Joinable, Job, NoJob, NoEntry,
      UnloadEnds, JobOver, StopAndGoTo, UnloadGivenUp, GivesUp
<1>14. CASE \E j \in late : LateHandler(j)
  BY <1>14 DEF LateHandler, StopAndGoTo, Entry, NoEntry
<1>15. CASE UNCHANGED vars
  BY <1>15 DEF vars
<1> QED
  BY <1>1, <1>2, <1>3, <1>4, <1>5, <1>6, <1>7, <1>8, <1>9, <1>10, <1>11, <1>12, <1>13,
      <1>14, <1>15 DEF Next, Outside, Injector, Run

LEMMA ReadsKept ==
    ASSUME Inv, [Next]_vars
    PROVE  Reads'
<1> USE WorkerAssumption DEF Inv, Typed, TypedFlags, TypedMembers, Reads, Course, Ending, game,
       world, members, threads, history
<1> build' = build
  BY DEF Next, vars
<1>1. CASE ProcessStarts \/ ProcessExits \/ LibraryConnects
  BY <1>1 DEF ProcessStarts, ProcessExits, Disconnected, LibraryConnects
<1>2. CASE (\E success \in BOOLEAN : LibraryReports(success)) \/ Stop \/ (\E yes \in BOOLEAN :
            Answer(yes))
  BY <1>2 DEF LibraryReports, StopFromOutside, Stop, KeepOthers, Answer
<1>3. CASE NewWorker
  BY <1>3 DEF NewWorker, FreshMembers
<1>4. CASE InjectorSucceeds
  BY <1>4 DEF InjectorSucceeds, Injects, Loads, UnloadsIt, Disconnected, Succeeded
<1>5. CASE InjectorFails
  BY <1>5 DEF InjectorFails, Failed
<1>6. CASE \E j \in late : LateInjectorEnds(j)
  BY <1>6 DEF LateInjectorEnds, Injects, Loads, UnloadsIt, Disconnected, Succeeded, Failed
<1>7. CASE \E j \in late : OrphanEnds(j)
  BY <1>7 DEF OrphanEnds, Injects, Loads, UnloadsIt, Disconnected
<1>8. CASE SeesStop \/ SeesProcess \/ NothingLoaded \/ NotInjectable \/ HandleUnknown
  BY <1>8 DEF SeesStop, KeepOthers, SeesProcess, NothingLoaded, NotLoaded, NotInjectable,
      StopAndGoTo, HandleUnknown
<1>9. CASE SeesLoss \/ ForgetsProcess \/ AttachesOverlay \/ AttachesPipe
  BY <1>9 DEF SeesLoss, ClosePipe, ForgetsProcess, Joinable, AttachesOverlay, NotLoaded,
      AttachesPipe
<1>10. CASE StaleFound \/ StaleUnloaded \/ StaleUnloadGivenUp
  BY <1>10 DEF StaleFound, NotLoaded, KnownHandle, Job, NoJob, StaleUnloaded, StopAndGoTo, JobOver,
      NoEntry, StaleUnloadGivenUp, GivesUp
<1>11. CASE Stable \/ StoppedInside \/ WaitsForAnswer \/ Resumes
  BY <1>11 DEF Stable, KeepOthers, StoppedInside, WaitsForAnswer, Resumes, StopAndGoTo
<1>12. CASE OpensPipe \/ StartsLoad \/ LoadEnds \/ LoadGivenUp
  BY <1>12 DEF OpensPipe, ClosePipe, StartsLoad, Joinable, Job, NoJob, LoadEnds, JobOver,
      StopAndGoTo, Entry, NoEntry, LoadGivenUp, GivesUp
<1>13. CASE Settles \/ Closes \/ (\E chained \in BOOLEAN : Unloads(chained)) \/ UnloadEnds \/
            UnloadGivenUp
  BY <1>13 DEF Settles, KeepOthers, Closes, ClosePipe, Unloads, Joinable, Job, NoJob, NoEntry,
      UnloadEnds, JobOver, StopAndGoTo, UnloadGivenUp, GivesUp
<1>14. CASE \E j \in late : LateHandler(j)
  BY <1>14 DEF LateHandler, StopAndGoTo, Entry, NoEntry
<1>15. CASE UNCHANGED vars
  BY <1>15 DEF vars
<1> QED
  BY <1>1, <1>2, <1>3, <1>4, <1>5, <1>6, <1>7, <1>8, <1>9, <1>10, <1>11, <1>12, <1>13,
      <1>14, <1>15 DEF Next, Outside, Injector, Run

LEMMA AskedKept ==
    ASSUME Inv, [Next]_vars
    PROVE  Asked'
<1> USE WorkerAssumption DEF Inv, Typed, TypedWorld, TypedFlags, TypedMembers, Asked, Overlay,
       Asking, Injecting, game, world, members, threads, history
<1> build' = build
  BY DEF Next, vars
<1>1. CASE ProcessStarts \/ ProcessExits \/ LibraryConnects
  BY <1>1 DEF ProcessStarts, ProcessExits, Disconnected, LibraryConnects
<1>2. CASE (\E success \in BOOLEAN : LibraryReports(success)) \/ Stop \/ (\E yes \in BOOLEAN :
            Answer(yes))
  BY <1>2 DEF LibraryReports, StopFromOutside, Stop, KeepOthers, Answer
<1>3. CASE NewWorker
  BY <1>3 DEF NewWorker, FreshMembers
<1>4. CASE InjectorSucceeds
  BY <1>4 DEF InjectorSucceeds, Injects, Loads, UnloadsIt, Disconnected, Succeeded
<1>5. CASE InjectorFails
  BY <1>5 DEF InjectorFails, Failed
<1>6. CASE \E j \in late : LateInjectorEnds(j)
  BY <1>6 DEF LateInjectorEnds, Injects, Loads, UnloadsIt, Disconnected, Succeeded, Failed
<1>7. CASE \E j \in late : OrphanEnds(j)
  BY <1>7 DEF OrphanEnds, Injects, Loads, UnloadsIt, Disconnected
<1>8. CASE SeesStop \/ SeesProcess \/ NothingLoaded \/ NotInjectable \/ HandleUnknown
  BY <1>8 DEF SeesStop, KeepOthers, SeesProcess, NothingLoaded, NotLoaded, NotInjectable,
      StopAndGoTo, HandleUnknown
<1>9. CASE SeesLoss \/ ForgetsProcess \/ AttachesOverlay \/ AttachesPipe
  BY <1>9 DEF SeesLoss, ClosePipe, ForgetsProcess, Joinable, AttachesOverlay, NotLoaded,
      AttachesPipe
<1>10. CASE StaleFound \/ StaleUnloaded \/ StaleUnloadGivenUp
  BY <1>10 DEF StaleFound, NotLoaded, KnownHandle, Job, NoJob, StaleUnloaded, StopAndGoTo, JobOver,
      NoEntry, StaleUnloadGivenUp, GivesUp
<1>11. CASE Stable \/ StoppedInside \/ WaitsForAnswer \/ Resumes
  BY <1>11 DEF Stable, KeepOthers, StoppedInside, WaitsForAnswer, Resumes, StopAndGoTo
<1>12. CASE OpensPipe \/ StartsLoad \/ LoadEnds \/ LoadGivenUp
  BY <1>12 DEF OpensPipe, ClosePipe, StartsLoad, Joinable, Job, NoJob, LoadEnds, JobOver,
      StopAndGoTo, Entry, NoEntry, LoadGivenUp, GivesUp
<1>13. CASE Settles \/ Closes \/ (\E chained \in BOOLEAN : Unloads(chained)) \/ UnloadEnds \/
            UnloadGivenUp
  BY <1>13 DEF Settles, KeepOthers, Closes, ClosePipe, Unloads, Joinable, Job, NoJob, NoEntry,
      UnloadEnds, JobOver, StopAndGoTo, UnloadGivenUp, GivesUp
<1>14. CASE \E j \in late : LateHandler(j)
  BY <1>14 DEF LateHandler, StopAndGoTo, Entry, NoEntry
<1>15. CASE UNCHANGED vars
  BY <1>15 DEF vars
<1> QED
  BY <1>1, <1>2, <1>3, <1>4, <1>5, <1>6, <1>7, <1>8, <1>9, <1>10, <1>11, <1>12, <1>13,
      <1>14, <1>15 DEF Next, Outside, Injector, Run

LEMMA OnceKept ==
    ASSUME Inv, [Next]_vars
    PROVE  Once'
<1> USE WorkerAssumption DEF Inv, Typed, TypedWorld, TypedMembers, TypedJobs, World, Course, Once,
       OptPids, OptHandles, Pids, Handles, Waiting, Asking, Cut, NoJob, Job, Jobs, game, world,
       members, threads, history
<1> build' = build
  BY DEF Next, vars
<1>1. CASE ProcessStarts \/ ProcessExits \/ LibraryConnects
  BY <1>1 DEF ProcessStarts, ProcessExits, Disconnected, LibraryConnects
<1>2. CASE (\E success \in BOOLEAN : LibraryReports(success)) \/ Stop \/ (\E yes \in BOOLEAN :
            Answer(yes))
  BY <1>2 DEF LibraryReports, StopFromOutside, Stop, KeepOthers, Answer
<1>3. CASE NewWorker
  BY <1>3 DEF NewWorker, FreshMembers
<1>4. CASE InjectorSucceeds
  BY <1>4 DEF InjectorSucceeds, Injects, Loads, UnloadsIt, Disconnected, Succeeded
<1>5. CASE InjectorFails
  BY <1>5 DEF InjectorFails, Failed
<1>6. CASE \E j \in late : LateInjectorEnds(j)
  BY <1>6 DEF LateInjectorEnds, Injects, Loads, UnloadsIt, Disconnected, Succeeded, Failed
<1>7. CASE \E j \in late : OrphanEnds(j)
  BY <1>7 DEF OrphanEnds, Injects, Loads, UnloadsIt, Disconnected
<1>8. CASE SeesStop \/ SeesProcess \/ NothingLoaded \/ NotInjectable \/ HandleUnknown
  BY <1>8 DEF SeesStop, KeepOthers, SeesProcess, NothingLoaded, NotLoaded, NotInjectable,
      StopAndGoTo, HandleUnknown
<1>9. CASE SeesLoss \/ ForgetsProcess \/ AttachesOverlay \/ AttachesPipe
  BY <1>9 DEF SeesLoss, ClosePipe, ForgetsProcess, Joinable, AttachesOverlay, NotLoaded,
      AttachesPipe
<1>10. CASE StaleFound \/ StaleUnloaded \/ StaleUnloadGivenUp
  BY <1>10 DEF StaleFound, NotLoaded, KnownHandle, Job, NoJob, StaleUnloaded, StopAndGoTo, JobOver,
      NoEntry, StaleUnloadGivenUp, GivesUp
<1>11. CASE Stable \/ StoppedInside \/ WaitsForAnswer \/ Resumes
  BY <1>11 DEF Stable, KeepOthers, StoppedInside, WaitsForAnswer, Resumes, StopAndGoTo
<1>12. CASE OpensPipe \/ StartsLoad \/ LoadEnds \/ LoadGivenUp
  BY <1>12 DEF OpensPipe, ClosePipe, StartsLoad, Joinable, Job, NoJob, LoadEnds, JobOver,
      StopAndGoTo, Entry, NoEntry, LoadGivenUp, GivesUp
<1>13. CASE Settles \/ Closes \/ (\E chained \in BOOLEAN : Unloads(chained)) \/ UnloadEnds \/
            UnloadGivenUp
  BY <1>13 DEF Settles, KeepOthers, Closes, ClosePipe, Unloads, Joinable, Job, NoJob, NoEntry,
      UnloadEnds, JobOver, StopAndGoTo, UnloadGivenUp, GivesUp
<1>14. CASE \E j \in late : LateHandler(j)
  BY <1>14 DEF LateHandler, StopAndGoTo, Entry, NoEntry
<1>15. CASE UNCHANGED vars
  BY <1>15 DEF vars
<1> QED
  BY <1>1, <1>2, <1>3, <1>4, <1>5, <1>6, <1>7, <1>8, <1>9, <1>10, <1>11, <1>12, <1>13,
      <1>14, <1>15 DEF Next, Outside, Injector, Run

LEMMA RightlyKept ==
    ASSUME Inv, [Next]_vars
    PROVE  Rightly'
<1> USE WorkerAssumption DEF Inv, Typed, TypedWorld, TypedMembers, TypedJobs, World, Course, Once,
       Rightly, OptPids, OptHandles, Pids, Handles, Waiting, Ending, Asking, Cut, NoJob, Job, Jobs,
       game, world, members, threads, history
<1> build' = build
  BY DEF Next, vars
<1>1. CASE ProcessStarts \/ ProcessExits \/ LibraryConnects
  BY <1>1 DEF ProcessStarts, ProcessExits, Disconnected, LibraryConnects
<1>2. CASE (\E success \in BOOLEAN : LibraryReports(success)) \/ Stop \/ (\E yes \in BOOLEAN :
            Answer(yes))
  BY <1>2 DEF LibraryReports, StopFromOutside, Stop, KeepOthers, Answer
<1>3. CASE NewWorker
  BY <1>3 DEF NewWorker, FreshMembers
<1>4. CASE InjectorSucceeds
  BY <1>4 DEF InjectorSucceeds, Injects, Loads, UnloadsIt, Disconnected, Succeeded
<1>5. CASE InjectorFails
  BY <1>5 DEF InjectorFails, Failed
<1>6. CASE \E j \in late : LateInjectorEnds(j)
  BY <1>6 DEF LateInjectorEnds, Injects, Loads, UnloadsIt, Disconnected, Succeeded, Failed
<1>7. CASE \E j \in late : OrphanEnds(j)
  BY <1>7 DEF OrphanEnds, Injects, Loads, UnloadsIt, Disconnected
<1>8. CASE SeesStop \/ SeesProcess \/ NothingLoaded \/ NotInjectable \/ HandleUnknown
  BY <1>8 DEF SeesStop, KeepOthers, SeesProcess, NothingLoaded, NotLoaded, NotInjectable,
      StopAndGoTo, HandleUnknown
<1>9. CASE SeesLoss \/ ForgetsProcess \/ AttachesOverlay \/ AttachesPipe
  BY <1>9 DEF SeesLoss, ClosePipe, ForgetsProcess, Joinable, AttachesOverlay, NotLoaded,
      AttachesPipe
<1>10. CASE StaleFound \/ StaleUnloaded \/ StaleUnloadGivenUp
  BY <1>10 DEF StaleFound, NotLoaded, KnownHandle, Job, NoJob, StaleUnloaded, StopAndGoTo, JobOver,
      NoEntry, StaleUnloadGivenUp, GivesUp
<1>11. CASE Stable \/ StoppedInside \/ WaitsForAnswer \/ Resumes
  BY <1>11 DEF Stable, KeepOthers, StoppedInside, WaitsForAnswer, Resumes, StopAndGoTo
<1>12. CASE OpensPipe \/ StartsLoad \/ LoadEnds \/ LoadGivenUp
  BY <1>12 DEF OpensPipe, ClosePipe, StartsLoad, Joinable, Job, NoJob, LoadEnds, JobOver,
      StopAndGoTo, Entry, NoEntry, LoadGivenUp, GivesUp
<1>13. CASE Settles \/ Closes \/ (\E chained \in BOOLEAN : Unloads(chained)) \/ UnloadEnds \/
            UnloadGivenUp
  BY <1>13 DEF Settles, KeepOthers, Closes, ClosePipe, Unloads, Joinable, Job, NoJob, NoEntry,
      UnloadEnds, JobOver, StopAndGoTo, UnloadGivenUp, GivesUp
<1>14. CASE \E j \in late : LateHandler(j)
  BY <1>14 DEF LateHandler, StopAndGoTo, Entry, NoEntry
<1>15. CASE UNCHANGED vars
  BY <1>15 DEF vars
<1> QED
  BY <1>1, <1>2, <1>3, <1>4, <1>5, <1>6, <1>7, <1>8, <1>9, <1>10, <1>11, <1>12, <1>13,
      <1>14, <1>15 DEF Next, Outside, Injector, Run

LEMMA HeldKept ==
    ASSUME Inv, [Next]_vars
    PROVE  Held'
<1> USE WorkerAssumption DEF Inv, Typed, TypedWorld, TypedMembers, TypedJobs, World, Course, Once,
       Held, OptPids, OptHandles, Pids, Handles, Waiting, Ending, Asking, Cut, NoJob, Job, Jobs,
       Windows, game, world, members, threads, history
<1> build' = build
  BY DEF Next, vars
<1>1. CASE ProcessStarts \/ ProcessExits \/ LibraryConnects
  BY <1>1 DEF ProcessStarts, ProcessExits, Disconnected, LibraryConnects
<1>2. CASE (\E success \in BOOLEAN : LibraryReports(success)) \/ Stop \/ (\E yes \in BOOLEAN :
            Answer(yes))
  BY <1>2 DEF LibraryReports, StopFromOutside, Stop, KeepOthers, Answer
<1>3. CASE NewWorker
  BY <1>3 DEF NewWorker, FreshMembers
<1>4. CASE InjectorSucceeds
  BY <1>4 DEF InjectorSucceeds, Injects, Loads, UnloadsIt, Disconnected, Succeeded
<1>5. CASE InjectorFails
  BY <1>5 DEF InjectorFails, Failed
<1>6. CASE \E j \in late : LateInjectorEnds(j)
  BY <1>6 DEF LateInjectorEnds, Injects, Loads, UnloadsIt, Disconnected, Succeeded, Failed
<1>7. CASE \E j \in late : OrphanEnds(j)
  BY <1>7 DEF OrphanEnds, Injects, Loads, UnloadsIt, Disconnected
<1>8. CASE SeesStop \/ SeesProcess \/ NothingLoaded \/ NotInjectable \/ HandleUnknown
  BY <1>8 DEF SeesStop, KeepOthers, SeesProcess, NothingLoaded, NotLoaded, NotInjectable,
      StopAndGoTo, HandleUnknown
<1>9. CASE SeesLoss \/ ForgetsProcess \/ AttachesOverlay \/ AttachesPipe
  BY <1>9 DEF SeesLoss, ClosePipe, ForgetsProcess, Joinable, AttachesOverlay, NotLoaded,
      AttachesPipe
<1>10. CASE StaleFound \/ StaleUnloaded \/ StaleUnloadGivenUp
  BY <1>10 DEF StaleFound, NotLoaded, KnownHandle, Job, NoJob, StaleUnloaded, StopAndGoTo, JobOver,
      NoEntry, StaleUnloadGivenUp, GivesUp
<1>11. CASE Stable \/ StoppedInside \/ WaitsForAnswer \/ Resumes
  BY <1>11 DEF Stable, KeepOthers, StoppedInside, WaitsForAnswer, Resumes, StopAndGoTo
<1>12. CASE OpensPipe \/ StartsLoad \/ LoadEnds \/ LoadGivenUp
  BY <1>12 DEF OpensPipe, ClosePipe, StartsLoad, Joinable, Job, NoJob, LoadEnds, JobOver,
      StopAndGoTo, Entry, NoEntry, LoadGivenUp, GivesUp
<1>13. CASE Settles \/ Closes \/ (\E chained \in BOOLEAN : Unloads(chained)) \/ UnloadEnds \/
            UnloadGivenUp
  BY <1>13 DEF Settles, KeepOthers, Closes, ClosePipe, Unloads, Joinable, Job, NoJob, NoEntry,
      UnloadEnds, JobOver, StopAndGoTo, UnloadGivenUp, GivesUp
<1>14. CASE \E j \in late : LateHandler(j)
  BY <1>14 DEF LateHandler, StopAndGoTo, Entry, NoEntry
<1>15. CASE UNCHANGED vars
  BY <1>15 DEF vars
<1> QED
  BY <1>1, <1>2, <1>3, <1>4, <1>5, <1>6, <1>7, <1>8, <1>9, <1>10, <1>11, <1>12, <1>13,
      <1>14, <1>15 DEF Next, Outside, Injector, Run

LEMMA InitInv == Init => Inv
<1> SUFFICES ASSUME Init PROVE Inv
  OBVIOUS
<1> USE WorkerAssumption DEF Init, Pids, Handles, OptPids, OptHandles, NoJob, NoEntry, Entry, Jobs
<1>1. proc \in {0, 1} /\ lib \in {0, 1} /\ 1 \in Pids /\ 1 \in Handles
  OBVIOUS
<1>2. stored \in [pid : OptPids, handle : OptHandles]
  BY <1>1
<1>3. TypedWorld /\ TypedMembers /\ TypedJobs
  BY <1>1, <1>2 DEF TypedWorld, TypedMembers, TypedJobs, Steps
<1>4. TypedFlags
  BY DEF TypedFlags
<1>5. World /\ Reads
  BY <1>1 DEF World, Reads
<1>6. Course /\ Asked
  BY DEF Course, Asked, Waiting, Ending, Found, Injecting, Asking
<1>7. Once /\ Rightly /\ Held
  BY <1>1 DEF Once, Rightly, Held, Asking
<1> QED
  BY <1>3, <1>4, <1>5, <1>6, <1>7 DEF Inv, Typed

(* The inductive invariant: types, which process run() waits for, which     *)
(* question is open, when the library can be in the process and whose       *)
(* handle the worker and the file hold.                                     *)
THEOREM WorkerHolds == Spec => []Inv
<1>1. Inv /\ [Next]_vars => Inv'
  BY TypedWorldKept, TypedFlagsKept, TypedMembersKept, TypedJobsKept, WorldKept, CourseKept,
     ReadsKept, AskedKept, OnceKept, RightlyKept, HeldKept DEF Inv, Typed
<1> QED
  BY InitInv, <1>1, PTL DEF Spec

(* The pipe's reader never meets a deleted pipe: it is joined before the    *)
(* pipe goes, and by the time run() has returned (plugin_worker.cpp,        *)
(* stopPipeServer and cleanupAndUnload).                                    *)
THEOREM ReaderIsAlwaysSafe == Spec => []ReaderIsSafe
<1>1. Inv => ReaderIsSafe
  BY DEF Inv, Course, Reads, Ending, ReaderIsSafe
<1> QED
  BY WorkerHolds, <1>1, PTL

(* Nothing is loaded without the user's consent to that pid, and no library *)
(* twice unless an injector process outlived the wait for it or its worker  *)
(* (plugin_worker.cpp, onProcessFound).                                     *)
THEOREM LoadsAreAllowed == Spec => []LoadIsAllowed
<1>1. Inv => AskedFirst
  BY DEF Inv, Asked, Injecting, AskedFirst
<1>2. Inv => NoDoubleLoad
  BY DEF Inv, Once, Cut, NoDoubleLoad
<1>3. Inv => LoadIsAllowed
  BY <1>1, <1>2 DEF LoadIsAllowed
<1> QED
  BY WorkerHolds, <1>3, PTL

(* The handle the worker holds is of the process it names, the stored one   *)
(* of the library in it, and a worker that returns leaves none of its       *)
(* libraries behind, but for the named mishaps (plugin_worker.cpp,          *)
(* cleanupAndUnload, persistLibraryHandle, onProcessLost).                  *)
THEOREM UnloadsOnlyItsOwn == Spec => []UnloadsItsOwn
<1>1. Inv => HandlesAreRight
  BY DEF Inv, Rightly, Cut, HandlesAreRight
<1>2. Inv => LeavesNothingBehind
  BY DEF Inv, Held, LeavesNothingBehind
<1>3. Inv => UnloadsItsOwn
  BY <1>1, <1>2 DEF UnloadsItsOwn
<1> QED
  BY WorkerHolds, <1>3, PTL

-----------------------------------------------------------------------------
(***************************************************************************)
(* The text that the worker streams (Debounce): the characters move from   *)
(* the reader to the debounce thread or the worker's end and on to the     *)
(* host; the invariant follows them from place to place.                   *)
(***************************************************************************)

(* A character. *)
Char == [no : Nat, time : Nat]
Texts == Seq(Char)

StreamTyped ==
    /\ clock \in Nat /\ open \in BOOLEAN /\ debounceRunning \in BOOLEAN
    /\ pending \in [Sources -> [text : Texts, last : Nat]]
    /\ loop \in [at : {"sleep", "scan", "emit", "ended"}, now : Nat, ready : [Sources -> Texts]]
    /\ worker \in [at : {"run", "stopLoop", "joinLoop", "swap", "flush", "done"},
                   remaining : [Sources -> Texts]]
    /\ output \in [Sources -> Texts] /\ cuts \in [Sources -> SUBSET Nat]
    /\ received \in [Sources -> Texts]

(* Which of the two threads can hold text at a time.                        *)
TakingTurns ==
    /\ open => worker.at = "run"
    /\ worker.at \in {"swap", "flush", "done"} => loop.at = "ended"
    /\ loop.now <= clock
    /\ \A s \in Sources :
        /\ loop.at # "emit" => loop.ready[s] = <<>>
        /\ worker.at # "flush" => worker.remaining[s] = <<>>
        /\ worker.at \in {"flush", "done"} => pending[s].text = <<>>

Whole ==
    \A s \in Sources :
        output[s] \o loop.ready[s] \o worker.remaining[s] \o pending[s].text = received[s]

(* Characters have come by now, and the last one of a text that waits when  *)
(* its entry says.                                                          *)
Timely ==
    \A s \in Sources :
        /\ \A i \in 1 .. Len(received[s]) : received[s][i].time <= clock
        /\ pending[s].text # <<>> => received[s][Len(received[s])].time = pending[s].last

(* After the end of a block there is silence, as long as text may come.     *)
SilentAfter(s, i) ==
    /\ i \in 1 .. Len(received[s]) - Len(pending[s].text)
    /\ i < Len(received[s]) => received[s][i + 1].time >= received[s][i].time + Interval
    /\ worker.at \notin {"flush", "done"} /\ i = Len(received[s])
          => received[s][i].time + Interval <= clock

(* A block handed on ends at i, or the one that was taken out to be.        *)
EndOfBlock(s, i) ==
    \/ i \in cuts[s]
    \/ loop.ready[s] # <<>> /\ i = Len(output[s]) + Len(loop.ready[s])

EndsAreSilent == \A s \in Sources, i \in Nat : EndOfBlock(s, i) => SilentAfter(s, i)

StreamInv == StreamTyped /\ TakingTurns /\ Whole /\ Timely /\ EndsAreSilent

-----------------------------------------------------------------------------
(* A text that one thread hands to the next keeps its place.                *)
LEMMA TextMoves ==
  ASSUME NEW S, NEW a \in Seq(S), NEW b \in Seq(S), NEW c \in Seq(S), NEW d \in Seq(S)
  PROVE  /\ (a \o b) \o <<>> \o c \o d = a \o b \o c \o d
         /\ (a \o c) \o <<>> \o <<>> \o d = a \o <<>> \o c \o d
         /\ a \o d \o <<>> \o <<>> = a \o <<>> \o <<>> \o d
         /\ a \o <<>> \o d \o <<>> = a \o <<>> \o <<>> \o d
<1>1. a \o <<>> = a /\ (a \o b) \o <<>> = a \o b /\ (a \o c) \o <<>> = a \o c
      /\ (a \o d) \o <<>> = a \o d
  BY ConcatEmptySeq, ConcatProperties
<1> QED
  BY <1>1

LEMMA TextGrows ==
  ASSUME NEW S, NEW a \in Seq(S), NEW d \in Seq(S), NEW x \in S
  PROVE  a \o Append(d, x) = Append(a \o d, x)
<1>1. Append(d, x) = d \o <<x>> /\ Append(a \o d, x) = (a \o d) \o <<x>>
  BY AppendIsConcat, ConcatProperties
<1>2. <<x>> \in Seq(S)
  OBVIOUS
<1>3. (a \o d) \o <<x>> = a \o (d \o <<x>>)
  BY <1>2, ConcatAssociative
<1> QED
  BY <1>1, <1>3

LEMMA TextIsCut ==
  ASSUME NEW S, NEW a \in Seq(S), NEW d \in Seq(S)
  PROVE  SubSeq(a \o d, 1, Len(a \o d) - Len(d)) = a \o <<>>
<1>1. Len(a \o d) - Len(d) = Len(a) /\ Len(a) \in Nat /\ Len(d) \in Nat
  BY ConcatProperties, LenProperties
<1> DEFINE r == SubSeq(a \o d, 1, Len(a))
<1>2. \A i \in 1 .. Len(a) : (a \o d)[i] = a[i] /\ a[i] \in S
  BY <1>1, ConcatProperties, LenProperties
<1>3. r \in Seq(S) /\ Len(r) = Len(a) /\ \A i \in 1 .. Len(a) : r[i] = a[i]
  BY <1>1, <1>2, SubSeqProperties
<1>4. r = a
  BY <1>3, SeqEqual
<1> QED
  BY <1>1, <1>4, ConcatEmptySeq

(* Where the pieces of the text lie.                                        *)
LEMMA Lengths ==
  ASSUME NEW S, NEW a \in Seq(S), NEW b \in Seq(S), NEW c \in Seq(S), NEW d \in Seq(S)
  PROVE  /\ a \o b \o c \in Seq(S) /\ a \o b \o c \o d \in Seq(S)
         /\ Len(a) \in Nat /\ Len(b) \in Nat /\ Len(c) \in Nat /\ Len(d) \in Nat
         /\ Len(a \o b \o c \o d) = Len(a) + Len(b) + Len(c) + Len(d)
         /\ b # <<>> => Len(b) > 0
         /\ c # <<>> => Len(c) > 0
         /\ d # <<>> => Len(d) > 0
         /\ Len(<<>>) = 0
<1>1. a \o b \in Seq(S) /\ Len(a \o b) = Len(a) + Len(b)
  BY ConcatProperties
<1>2. a \o b \o c \in Seq(S) /\ Len(a \o b \o c) = Len(a) + Len(b) + Len(c)
  BY <1>1, ConcatProperties
<1>3. a \o b \o c \o d \in Seq(S) /\ Len(a \o b \o c \o d) = Len(a) + Len(b) + Len(c) + Len(d)
  BY <1>2, ConcatProperties
<1> QED
  BY <1>2, <1>3, LenProperties, EmptySeq

(* The operators that make one text of others.                              *)
LEMMA TextOperators ==
  /\ <<>> \in Texts
  /\ \A a \in Texts : Len(a) \in Nat
  /\ \A a, b \in Texts : a \o b \in Texts
  /\ \A a \in Texts, c \in Char : Append(a, c) \in Texts
  /\ \A a \in Texts : \A n \in Nat : n <= Len(a) => SubSeq(a, 1, n) \in Texts
<1>1. ASSUME NEW a \in Texts, NEW n \in Nat, n <= Len(a) PROVE SubSeq(a, 1, n) \in Texts
  <2>1. \A i \in 1 .. n : a[i] \in Char
    BY <1>1, LenProperties DEF Texts
  <2> QED
    BY <2>1, SubSeqProperties DEF Texts
<1>2. <<>> \in Texts
  BY EmptySeq DEF Texts
<1> QED
  BY <1>1, <1>2, LenProperties, ConcatProperties, AppendProperties DEF Texts

(* The four places where the text of a source is.                           *)
LEMMA Pieces ==
  ASSUME StreamTyped, NEW s \in Sources
  PROVE  /\ output[s] \in Texts /\ loop.ready[s] \in Texts /\ worker.remaining[s] \in Texts
         /\ pending[s].text \in Texts /\ received[s] \in Texts
  BY DEF StreamTyped

LEMMA SumIsLarger ==
  ASSUME NEW n, NEW a \in Nat, NEW b \in Nat, NEW c \in Nat, NEW d \in Nat, n = a + b + c + d
  PROVE  n \in Nat /\ n - d \in 0 .. n
OBVIOUS

LEMMA SumOfLengths ==
  ASSUME NEW a \in Nat, NEW b \in Nat
  PROVE  a + b \in Nat
OBVIOUS

LEMMA PartOfLength ==
  ASSUME NEW n \in Nat, NEW d \in Nat, n - d \in 0 .. n
  PROVE  n - d \in Nat /\ n - d <= n
OBVIOUS

(* Where each of them begins in what was received.                          *)
LEMMA PlacesOfPieces ==
  ASSUME StreamTyped, Whole, NEW s \in Sources
  PROVE  /\ Len(output[s]) \in Nat /\ Len(loop.ready[s]) \in Nat
         /\ Len(worker.remaining[s]) \in Nat /\ Len(pending[s].text) \in Nat
         /\ Len(received[s]) \in Nat
         /\ Len(received[s]) = Len(output[s]) + Len(loop.ready[s]) + Len(worker.remaining[s])
                                  + Len(pending[s].text)
         /\ loop.ready[s] # <<>> => Len(loop.ready[s]) > 0
         /\ worker.remaining[s] # <<>> => Len(worker.remaining[s]) > 0
         /\ pending[s].text # <<>> => Len(pending[s].text) > 0
         /\ Len(<<>>) = 0
         /\ Len(received[s]) - Len(pending[s].text) \in 0 .. Len(received[s])
<1> DEFINE a == output[s]
           b == loop.ready[s]
           c == worker.remaining[s]
           d == pending[s].text
<1>1. a \in Seq(Char) /\ b \in Seq(Char) /\ c \in Seq(Char) /\ d \in Seq(Char)
  BY Pieces DEF Texts
<1>2. received[s] = a \o b \o c \o d
  BY DEF Whole
<1> HIDE DEF a, b, c, d
<1>3. /\ Len(a) \in Nat /\ Len(b) \in Nat /\ Len(c) \in Nat /\ Len(d) \in Nat
      /\ Len(a \o b \o c \o d) = Len(a) + Len(b) + Len(c) + Len(d)
      /\ b # <<>> => Len(b) > 0
      /\ c # <<>> => Len(c) > 0
      /\ d # <<>> => Len(d) > 0
      /\ Len(<<>>) = 0
  BY <1>1, Lengths
<1>4. Len(received[s]) = Len(a) + Len(b) + Len(c) + Len(d)
  BY <1>2, <1>3
<1>5. Len(received[s]) \in Nat /\ Len(received[s]) - Len(d) \in 0 .. Len(received[s])
  BY <1>3, <1>4, SumIsLarger
<1> QED
  BY <1>3, <1>4, <1>5 DEF a, b, c, d

(* The types, of the text as it grows and is moved.                         *)
LEMMA StreamTypedKept == StreamTyped /\ Whole /\ [DebounceNext]_debounceVars => StreamTyped'
<1> SUFFICES ASSUME StreamTyped, Whole, [DebounceNext]_debounceVars PROVE StreamTyped'
  OBVIOUS
<1>0. ASSUME NEW s \in Sources
      PROVE  /\ output[s] \o loop.ready[s] \in Texts /\ output[s] \o worker.remaining[s] \in Texts
             /\ Len(output[s]) + Len(loop.ready[s]) \in Nat
             /\ Len(output[s]) + Len(worker.remaining[s]) \in Nat
             /\ WithoutPending(s) \in Texts
  <2>1. /\ Len(received[s]) - Len(pending[s].text) \in 0 .. Len(received[s])
        /\ Len(received[s]) \in Nat /\ Len(pending[s].text) \in Nat
        /\ Len(output[s]) \in Nat /\ Len(loop.ready[s]) \in Nat /\ Len(worker.remaining[s]) \in Nat
    BY PlacesOfPieces
  <2>2. /\ output[s] \in Texts /\ loop.ready[s] \in Texts /\ worker.remaining[s] \in Texts
        /\ received[s] \in Texts
    BY Pieces
  <2>3. PICK n \in Nat : n = Len(received[s]) - Len(pending[s].text) /\ n <= Len(received[s])
    BY <2>1, PartOfLength
  <2>4. SubSeq(received[s], 1, n) \in Texts
    BY <2>2, <2>3, TextOperators
  <2>5. WithoutPending(s) \in Texts
    BY <2>3, <2>4 DEF WithoutPending
  <2>6. Len(output[s]) + Len(loop.ready[s]) \in Nat /\ Len(output[s]) + Len(worker.remaining[s]) \in Nat
    BY <2>1, SumOfLengths
  <2> QED
    BY <2>2, <2>5, <2>6, TextOperators
<1> USE DebounceAssumption, TextOperators DEF StreamTyped
<1>1. ASSUME NEW s \in Sources, Receive(s) PROVE StreamTyped'
  <2>1. [no |-> Len(received[s]), time |-> clock] \in Char
    BY DEF Char
  <2> QED
    BY <1>1, <2>1 DEF Receive, Received, handedOn
<1>2. CASE OpenPipe
  BY <1>0, <1>2 DEF OpenPipe, Nothing, handedOn
<1>3. CASE Scan
  BY <1>3 DEF Scan, Nothing, handedOn
<1>4. CASE Emit
  <2>1. CASE loop.ready = Empty
    BY <1>4, <2>1 DEF Emit, handedOn
  <2>2. ASSUME NEW s \in Sources, HandsOn(s, loop.ready[s]), loop' = [loop EXCEPT !.ready[s] = <<>>]
        PROVE  StreamTyped'
    <3>1. output' \in [Sources -> Texts] /\ cuts' \in [Sources -> SUBSET Nat]
      BY <1>0, <2>2 DEF HandsOn
    <3> QED
      BY <1>4, <2>2, <3>1 DEF Emit
  <2> QED
    BY <1>4, <2>1, <2>2 DEF Emit
<1>5. CASE Swap
  BY <1>5 DEF Swap, Nothing, handedOn
<1>6. CASE Flush
  <2>1. CASE worker.remaining = Empty
    BY <1>6, <2>1 DEF Flush, handedOn
  <2>2. ASSUME NEW s \in Sources, HandsOn(s, worker.remaining[s]),
               worker' = [worker EXCEPT !.remaining[s] = <<>>]
        PROVE  StreamTyped'
    <3>1. output' \in [Sources -> Texts] /\ cuts' \in [Sources -> SUBSET Nat]
      BY <1>0, <2>2 DEF HandsOn
    <3> QED
      BY <1>6, <2>2, <3>1 DEF Flush
  <2> QED
    BY <1>6, <2>1, <2>2 DEF Flush
<1>7. CASE Tick
  BY <1>7 DEF Tick, handedOn
<1>8. CASE LosePipe
  BY <1>8 DEF LosePipe, handedOn
<1>9. CASE Look
  <2>1. loop' = [loop EXCEPT !.at = "scan", !.now = clock] \/ loop' = [loop EXCEPT !.at = "ended"]
    BY <1>9 DEF Look
  <2> QED
    BY <1>9, <2>1 DEF Look, handedOn
<1>10. CASE JoinReader
  BY <1>10 DEF JoinReader, handedOn
<1>11. CASE StopLoop
  BY <1>11 DEF StopLoop, handedOn
<1>12. CASE JoinLoop
  BY <1>12 DEF JoinLoop, handedOn
<1>13. CASE UNCHANGED debounceVars
  BY <1>13 DEF debounceVars, handedOn
<1> QED
  BY <1>1, <1>2, <1>3, <1>4, <1>5, <1>6, <1>7, <1>8, <1>9, <1>10, <1>11, <1>12, <1>13
     DEF DebounceNext, Loop, Finish

(* The turns: the debounce thread has ended before the worker takes the rest. *)
LEMMA TakingTurnsKept == StreamTyped /\ TakingTurns /\ [DebounceNext]_debounceVars => TakingTurns'
<1> SUFFICES ASSUME StreamTyped, TakingTurns, [DebounceNext]_debounceVars PROVE TakingTurns'
  OBVIOUS
<1> USE DEF StreamTyped, TakingTurns
<1>1. ASSUME NEW s \in Sources, Receive(s) PROVE TakingTurns'
  BY <1>1 DEF Receive, Received, handedOn
<1>2. CASE OpenPipe
  BY <1>2 DEF OpenPipe, Nothing, handedOn
<1>3. CASE Scan
  BY <1>3 DEF Scan, Nothing, handedOn
<1>4. CASE Emit
  <2>1. CASE loop.ready = Empty
    BY <1>4, <2>1 DEF Emit, Empty, handedOn
  <2>2. CASE loop.ready # Empty
    BY <1>4, <2>2 DEF Emit
  <2> QED
    BY <2>1, <2>2
<1>5. CASE Swap
  BY <1>5 DEF Swap, Nothing, handedOn
<1>6. CASE Flush
  BY <1>6 DEF Flush, HandsOn, Empty, handedOn
<1>7. CASE Tick \/ LosePipe
  BY <1>7 DEF Tick, LosePipe, handedOn
<1>8. CASE Look
  <2>1. /\ loop.at = "sleep" /\ loop'.ready = loop.ready
        /\ loop'.at \in {"scan", "ended"} /\ loop'.now \in {clock, loop.now}
    BY <1>8 DEF Look
  <2> QED
    BY <1>8, <2>1 DEF Look, handedOn
<1>9. CASE JoinReader \/ StopLoop \/ JoinLoop
  <2>1. worker.remaining' = worker.remaining
    BY <1>9 DEF JoinReader, StopLoop, JoinLoop
  <2> QED
    BY <1>9, <2>1 DEF JoinReader, StopLoop, JoinLoop, handedOn
<1>10. CASE UNCHANGED debounceVars
  BY <1>10 DEF debounceVars, handedOn
<1> QED
  BY <1>1, <1>2, <1>3, <1>4, <1>5, <1>6, <1>7, <1>8, <1>9, <1>10 DEF DebounceNext, Loop, Finish

(* The text is moved from place to place without a change.                  *)
LEMMA WholeKept == StreamTyped /\ TakingTurns /\ Whole /\ [DebounceNext]_debounceVars => Whole'
<1> SUFFICES ASSUME StreamTyped, TakingTurns, Whole, [DebounceNext]_debounceVars, NEW s \in Sources
             PROVE  (output[s] \o loop.ready[s] \o worker.remaining[s] \o pending[s].text
                       = received[s])'
  BY DEF Whole
<1> DEFINE a == output[s]
           b == loop.ready[s]
           c == worker.remaining[s]
           d == pending[s].text
<1>0. /\ a \in Seq(Char) /\ b \in Seq(Char) /\ c \in Seq(Char) /\ d \in Seq(Char)
      /\ a \o b \o c \in Seq(Char)
  BY Pieces, Lengths DEF Texts
<1>w. received[s] = a \o b \o c \o d
  BY DEF Whole
<1>1. ASSUME NEW r \in Sources, Receive(r) PROVE (a \o b \o c \o d = received[s])'
  <2>1. CASE r = s
    <3> DEFINE x == [no |-> Len(received[s]), time |-> clock]
    <3>1. x \in Char
      BY Pieces, TextOperators DEF StreamTyped, Char
    <3>2. (a \o b \o c) \o Append(d, x) = Append(a \o b \o c \o d, x)
      <4> HIDE DEF a, b, c, d, x
      <4> QED
        BY <1>0, <3>1, TextGrows
    <3>3. d' = Append(d, x) /\ received'[s] = Append(received[s], x)
      BY <1>1, <2>1 DEF Receive, Received, StreamTyped
    <3>4. a' = a /\ b' = b /\ c' = c
      BY <1>1 DEF Receive, handedOn
    <3> QED
      BY <1>w, <3>2, <3>3, <3>4
  <2>2. CASE r # s
    BY <1>1, <1>w, <2>2 DEF Receive, handedOn, StreamTyped
  <2> QED
    BY <2>1, <2>2
<1>2. CASE OpenPipe
  <2>1. SubSeq((a \o b \o c) \o d, 1, Len((a \o b \o c) \o d) - Len(d)) = (a \o b \o c) \o <<>>
    BY <1>0, TextIsCut
  <2>2. d' = <<>> /\ a' = a /\ b' = b /\ c' = c /\ received'[s] = WithoutPending(s)
    BY <1>2 DEF OpenPipe, Nothing, handedOn
  <2> QED
    BY <1>w, <2>1, <2>2 DEF WithoutPending
<1>3. CASE Scan
  <2>1. b = <<>> /\ c = <<>> /\ a' = a /\ c' = c /\ received' = received
    BY <1>3 DEF Scan, TakingTurns, handedOn
  <2>2. (b' = d /\ d' = <<>>) \/ (b' = <<>> /\ d' = d)
    BY <1>3 DEF Scan, StreamTyped, Nothing
  <2>3. a \o d \o <<>> \o <<>> = a \o <<>> \o <<>> \o d
    BY <1>0, TextMoves
  <2> QED
    BY <1>w, <2>1, <2>2, <2>3
<1>4. CASE Emit
  <2>1. CASE loop.ready = Empty
    BY <1>4, <1>w, <2>1 DEF Emit, handedOn, StreamTyped
  <2>2. ASSUME NEW r \in Sources, HandsOn(r, loop.ready[r]), loop' = [loop EXCEPT !.ready[r] = <<>>]
        PROVE  (a \o b \o c \o d = received[s])'
    <3>1. c' = c /\ d' = d /\ received' = received
      BY <1>4 DEF Emit
    <3>2. (a \o b) \o <<>> \o c \o d = a \o b \o c \o d
      BY <1>0, TextMoves
    <3>3. r = s => a' = a \o b /\ b' = <<>>
      BY <2>2 DEF HandsOn, StreamTyped
    <3>4. r # s => a' = a /\ b' = b
      BY <2>2 DEF HandsOn, StreamTyped
    <3> QED
      BY <1>w, <3>1, <3>2, <3>3, <3>4
  <2> QED
    BY <1>4, <2>1, <2>2 DEF Emit
<1>5. CASE Swap
  <2>1. b = <<>> /\ c = <<>> /\ a' = a /\ b' = b /\ c' = d /\ d' = <<>> /\ received' = received
    BY <1>5 DEF Swap, Nothing, TakingTurns, handedOn
  <2>2. a \o <<>> \o d \o <<>> = a \o <<>> \o <<>> \o d
    BY <1>0, TextMoves
  <2> QED
    BY <1>w, <2>1, <2>2
<1>6. CASE Flush
  <2>1. CASE worker.remaining = Empty
    BY <1>6, <1>w, <2>1 DEF Flush, handedOn, StreamTyped
  <2>2. ASSUME NEW r \in Sources, HandsOn(r, worker.remaining[r]),
               worker' = [worker EXCEPT !.remaining[r] = <<>>]
        PROVE  (a \o b \o c \o d = received[s])'
    <3>1. b = <<>> /\ b' = b /\ d' = d /\ received' = received
      BY <1>6 DEF Flush, TakingTurns
    <3>2. (a \o c) \o <<>> \o <<>> \o d = a \o <<>> \o c \o d
      BY <1>0, TextMoves
    <3>3. r = s => a' = a \o c /\ c' = <<>>
      BY <2>2 DEF HandsOn, StreamTyped
    <3>4. r # s => a' = a /\ c' = c
      BY <2>2 DEF HandsOn, StreamTyped
    <3> QED
      BY <1>w, <3>1, <3>2, <3>3, <3>4
  <2> QED
    BY <1>6, <2>1, <2>2 DEF Flush
<1>7. CASE Tick \/ LosePipe \/ Look \/ JoinReader \/ StopLoop \/ JoinLoop \/ UNCHANGED debounceVars
  <2>1. a' = a /\ d' = d /\ received' = received
    BY <1>7 DEF Tick, LosePipe, Look, JoinReader, StopLoop, JoinLoop, debounceVars, handedOn
  <2>2. b' = b
    BY <1>7 DEF Tick, LosePipe, Look, JoinReader, StopLoop, JoinLoop, debounceVars, StreamTyped
  <2>3. c' = c
    BY <1>7 DEF Tick, LosePipe, Look, JoinReader, StopLoop, JoinLoop, debounceVars, StreamTyped
  <2> QED
    BY <1>w, <2>1, <2>2, <2>3
<1> QED
  BY <1>1, <1>2, <1>3, <1>4, <1>5, <1>6, <1>7 DEF DebounceNext, Loop, Finish

(* The clock does not run backwards, and the worker does not begin again.   *)
LEMMA TimeGoesOn ==
  ASSUME StreamTyped, [DebounceNext]_debounceVars
  PROVE  /\ clock \in Nat /\ clock' \in Nat /\ clock' >= clock
         /\ worker'.at \notin {"flush", "done"} => worker.at \notin {"flush", "done"}
<1>0. clock \in Nat
  BY DEF StreamTyped
<1>1. clock' = clock + 1 \/ clock' = clock
  BY DEF DebounceNext, Loop, Finish, Tick, Receive, OpenPipe, Scan, Swap, LosePipe, Look, Emit,
         JoinReader, StopLoop, JoinLoop, Flush, debounceVars
<1>2. worker' = worker \/ JoinReader \/ StopLoop \/ JoinLoop \/ Swap \/ Flush
  BY DEF DebounceNext, Loop, Finish, Tick, Receive, OpenPipe, Scan, LosePipe, Look, Emit, debounceVars
<1>3. worker'.at \notin {"flush", "done"} => worker.at \notin {"flush", "done"}
  BY <1>2 DEF StreamTyped, JoinReader, StopLoop, JoinLoop, Swap, Flush
<1> QED
  BY <1>0, <1>1, <1>3

(* What a step does to the text received of a source.                       *)
Arrived(s) ==
    /\ open /\ clock' = clock
    /\ received'[s] = Append(received[s], [no |-> Len(received[s]), time |-> clock])
    /\ pending'[s] = Received(s, [no |-> Len(received[s]), time |-> clock])

Dropped(s) ==
    /\ clock' = clock
    /\ received'[s] = WithoutPending(s)
    /\ pending'[s] = Nothing

LEMMA TextReceived ==
  ASSUME StreamTyped, [DebounceNext]_debounceVars, NEW s \in Sources
  PROVE  \/ received'[s] = received[s] /\ (pending'[s] = pending[s] \/ pending'[s] = Nothing)
         \/ Arrived(s)
         \/ Dropped(s)
<1>1. ASSUME NEW q \in Sources, Receive(q)
      PROVE  (received'[s] = received[s] /\ pending'[s] = pending[s]) \/ Arrived(s)
  BY <1>1 DEF Receive, Arrived, StreamTyped
<1>2. ASSUME OpenPipe PROVE Dropped(s)
  BY <1>2 DEF OpenPipe, Dropped
<1>3. ASSUME Scan \/ Swap
      PROVE  received'[s] = received[s] /\ (pending'[s] = pending[s] \/ pending'[s] = Nothing)
  BY <1>3 DEF Scan, Swap
<1>4. ASSUME \/ Tick \/ LosePipe \/ Look \/ Emit \/ JoinReader \/ StopLoop \/ JoinLoop \/ Flush
             \/ UNCHANGED debounceVars
      PROVE  received'[s] = received[s] /\ pending'[s] = pending[s]
  BY <1>4 DEF Tick, LosePipe, Look, Emit, JoinReader, StopLoop, JoinLoop, Flush, debounceVars
<1> QED
  BY <1>1, <1>2, <1>3, <1>4 DEF DebounceNext, Loop, Finish

(* The same, character by character.                                        *)
LEMMA CharacterArrived ==
  ASSUME StreamTyped, Whole, NEW s \in Sources, Arrived(s)
  PROVE  /\ Len(received'[s]) = Len(received[s]) + 1
         /\ Len(pending'[s].text) = Len(pending[s].text) + 1
         /\ \A i \in 1 .. Len(received[s]) : received'[s][i] = received[s][i]
         /\ received'[s][Len(received[s]) + 1].time = clock /\ pending'[s].last = clock
<1> DEFINE c == [no |-> Len(received[s]), time |-> clock]
<1>1. Len(received[s]) \in Nat
  BY PlacesOfPieces
<1>2. c \in Char /\ c.time = clock
  BY <1>1 DEF Char, StreamTyped
<1>3. received'[s] = Append(received[s], c)
  BY DEF Arrived
<1>4. pending'[s].text = Append(pending[s].text, c) /\ pending'[s].last = clock
  BY DEF Arrived, Received
<1>5. received[s] \in Seq(Char) /\ pending[s].text \in Seq(Char)
  BY Pieces DEF Texts
<1> HIDE DEF c
<1>6. /\ Len(Append(received[s], c)) = Len(received[s]) + 1
      /\ \A i \in 1 .. Len(received[s]) : Append(received[s], c)[i] = received[s][i]
      /\ Append(received[s], c)[Len(received[s]) + 1] = c
      /\ Len(Append(pending[s].text, c)) = Len(pending[s].text) + 1
  BY <1>2, <1>5, AppendProperties
<1> QED
  BY <1>2, <1>3, <1>4, <1>6

LEMMA CharactersDropped ==
  ASSUME StreamTyped, Whole, NEW s \in Sources, Dropped(s)
  PROVE  /\ pending'[s].text = <<>>
         /\ Len(received'[s]) = Len(received[s]) - Len(pending[s].text)
         /\ \A i \in 1 .. Len(received'[s]) : received'[s][i] = received[s][i]
<1>1. /\ Len(received[s]) \in Nat /\ Len(pending[s].text) \in Nat
      /\ Len(received[s]) - Len(pending[s].text) \in 0 .. Len(received[s])
  BY PlacesOfPieces
<1>2. PICK n \in Nat : n = Len(received[s]) - Len(pending[s].text) /\ n <= Len(received[s])
  BY <1>1, PartOfLength
<1>3. received[s] \in Seq(Char)
  BY Pieces DEF Texts
<1>4. \A i \in 1 .. n : received[s][i] \in Char
  BY <1>1, <1>2, <1>3, LenProperties
<1> DEFINE r == SubSeq(received[s], 1, n)
<1>5. Len(r) = (IF 1 <= n THEN n - 1 + 1 ELSE 0) /\ \A i \in 1 .. n - 1 + 1 : r[i] = received[s][1 + i - 1]
  BY <1>4, SubSeqProperties
<1>6. received'[s] = r /\ pending'[s].text = <<>>
  BY <1>2 DEF Dropped, WithoutPending, Nothing
<1> HIDE DEF r
<1>7. Len(r) = n /\ \A i \in 1 .. n : r[i] = received[s][i]
  BY <1>5
<1> QED
  BY <1>2, <1>6, <1>7

(* What is known of the characters of a source.                             *)
LEMMA Characters ==
  ASSUME StreamTyped, Whole, NEW s \in Sources
  PROVE  /\ Len(received[s]) \in Nat /\ Len(pending[s].text) \in Nat
         /\ Len(received[s]) - Len(pending[s].text) \in 0 .. Len(received[s])
         /\ \A i \in 1 .. Len(received[s]) : received[s][i].time \in Nat
<1>1. received[s] \in Seq(Char)
  BY Pieces DEF Texts
<1>2. \A i \in 1 .. Len(received[s]) : received[s][i] \in Char
  BY <1>1, LenProperties
<1>3. \A i \in 1 .. Len(received[s]) : received[s][i].time \in Nat
  BY <1>2 DEF Char
<1> QED
  BY <1>3, PlacesOfPieces

(* The times of what was received only grow.                                *)
LEMMA TimelyKept == StreamTyped /\ Whole /\ Timely /\ [DebounceNext]_debounceVars => Timely'
<1> SUFFICES ASSUME StreamTyped, Whole, Timely, [DebounceNext]_debounceVars, NEW s \in Sources
             PROVE  /\ \A i \in 1 .. Len(received'[s]) : received'[s][i].time <= clock'
                    /\ pending'[s].text # <<>>
                          => received'[s][Len(received'[s])].time = pending'[s].last
  BY DEF Timely
<1> DEFINE l == Len(received[s])
           time(k) == received[s][k].time
<1>0. /\ l \in Nat /\ Len(pending[s].text) \in Nat /\ l - Len(pending[s].text) \in 0 .. l
      /\ \A i \in 1 .. l : time(i) \in Nat
  BY Characters
<1>1. clock \in Nat /\ clock' \in Nat /\ clock' >= clock
  BY TimeGoesOn
<1>2. /\ \A i \in 1 .. l : time(i) <= clock
      /\ pending[s].text # <<>> => time(l) = pending[s].last
  BY DEF Timely
<1>3. CASE received'[s] = received[s] /\ (pending'[s] = pending[s] \/ pending'[s] = Nothing)
  <2>1. l' = l /\ \A i : time(i)' = time(i)
    BY <1>3
  <2>2. \A i \in 1 .. l' : time(i)' <= clock'
    <3> HIDE DEF l, time
    <3> QED
      BY <1>0, <1>1, <1>2, <2>1
  <2>3. pending'[s].text # <<>> => received'[s][l'].time = pending'[s].last
    BY <1>2, <1>3, <2>1 DEF Nothing
  <2> QED
    BY <2>2, <2>3
<1>4. CASE Arrived(s)
  <2>1. /\ l' = l + 1 /\ \A i \in 1 .. l : time(i)' = time(i)
        /\ \A i : i = l + 1 => time(i)' = clock
        /\ pending'[s].last = clock
    BY <1>4, CharacterArrived
  <2>2. \A i \in 1 .. l' : time(i)' <= clock'
    <3> HIDE DEF l, time
    <3> QED
      BY <1>0, <1>1, <1>2, <2>1
  <2>3. received'[s][l'].time = pending'[s].last
    BY <2>1
  <2> QED
    BY <2>2, <2>3
<1>5. CASE Dropped(s)
  <2>1. /\ pending'[s].text = <<>> /\ l' = l - Len(pending[s].text)
        /\ \A i \in 1 .. l' : time(i)' = time(i)
    BY <1>5, CharactersDropped
  <2>2. \A i \in 1 .. l' : time(i)' <= clock'
    <3> HIDE DEF l, time
    <3> QED
      BY <1>0, <1>1, <1>2, <2>1
  <2> QED
    BY <2>1, <2>2
<1> QED
  BY <1>3, <1>4, <1>5, TextReceived

(* The silence after the end of a block stays silence.                      *)
LEMMA SilenceStays ==
  ASSUME StreamTyped, TakingTurns, Whole, Timely, [DebounceNext]_debounceVars,
         NEW s \in Sources, NEW i \in Nat, SilentAfter(s, i)
  PROVE  SilentAfter(s, i)'
<1> DEFINE l == Len(received[s])
           p == Len(pending[s].text)
           time(k) == received[s][k].time
           ending == worker.at \in {"flush", "done"}
<1>0. l \in Nat /\ p \in Nat /\ l - p \in 0 .. l /\ \A k \in 1 .. l : time(k) \in Nat
  BY Characters
<1>1. clock \in Nat /\ clock' \in Nat /\ clock' >= clock /\ (~ending' => ~ending)
  BY TimeGoesOn
<1>2. /\ i \in 1 .. l - p
      /\ i < l => time(i + 1) >= time(i) + Interval
      /\ ~ending /\ i = l => time(i) + Interval <= clock
      /\ open => ~ending
      /\ \A k \in 1 .. l : time(k) <= clock
      /\ Interval \in Nat
  BY DebounceAssumption DEF SilentAfter, TakingTurns, Timely
<1>3. ASSUME /\ i \in 1 .. l' - p'
             /\ i < l' => time(i + 1)' >= time(i)' + Interval
             /\ ~ending' /\ i = l' => time(i)' + Interval <= clock'
      PROVE  SilentAfter(s, i)'
  BY <1>3 DEF SilentAfter
<1>4. CASE received'[s] = received[s] /\ (pending'[s] = pending[s] \/ pending'[s] = Nothing)
  <2>1. l' = l /\ (p' = p \/ p' = 0) /\ \A k : time(k)' = time(k)
    BY <1>4, EmptySeq DEF Nothing
  <2> HIDE DEF l, p, time, ending
  <2>2. /\ i \in 1 .. l' - p'
        /\ i < l' => time(i + 1)' >= time(i)' + Interval
        /\ ~ending' /\ i = l' => time(i)' + Interval <= clock'
    BY <1>0, <1>1, <1>2, <2>1
  <2> QED
    BY <1>3, <2>2
<1>5. CASE Arrived(s)
  <2>1. /\ l' = l + 1 /\ p' = p + 1
        /\ \A k \in 1 .. l : time(k)' = time(k)
        /\ \A k : k = l + 1 => time(k)' = clock
        /\ open /\ clock' = clock
    BY <1>5, CharacterArrived DEF Arrived
  <2> HIDE DEF l, p, time, ending
  <2>2. /\ i \in 1 .. l' - p'
        /\ i < l' => time(i + 1)' >= time(i)' + Interval
        /\ ~ending' /\ i = l' => time(i)' + Interval <= clock'
    BY <1>0, <1>1, <1>2, <2>1
  <2> QED
    BY <1>3, <2>2
<1>6. CASE Dropped(s)
  <2>1. l' = l - p /\ p' = 0 /\ \A k \in 1 .. l' : time(k)' = time(k)
    BY <1>6, CharactersDropped, EmptySeq
  <2> HIDE DEF l, p, time, ending
  <2>2. i \in 1 .. l' - p' /\ i \in 1 .. l'
    BY <1>0, <1>2, <2>1
  <2>3. ASSUME i < l' PROVE time(i + 1)' >= time(i)' + Interval
    <3>1. i \in 1 .. l' /\ i + 1 \in 1 .. l' /\ i < l
      BY <1>0, <1>2, <2>1, <2>3
    <3> QED
      BY <1>2, <2>1, <3>1
  <2>4. ASSUME ~ending', i = l' PROVE time(i)' + Interval <= clock'
    <3>1. time(i)' = time(i) /\ i \in 1 .. l /\ time(i) \in Nat
      BY <1>0, <1>2, <2>1, <2>2
    <3>2. CASE i = l
      BY <1>1, <1>2, <2>4, <3>1, <3>2
    <3>3. CASE i # l
      <4>1. i < l /\ i + 1 \in 1 .. l
        BY <1>0, <3>1, <3>3
      <4>2. time(i + 1) \in Nat /\ time(i + 1) <= clock /\ time(i + 1) >= time(i) + Interval
        BY <1>0, <1>2, <4>1
      <4> QED
        BY <1>1, <1>2, <3>1, <4>2
    <3> QED
      BY <3>2, <3>3
  <2> QED
    BY <1>3, <2>2, <2>3, <2>4
<1> QED
  BY <1>4, <1>5, <1>6, TextReceived

(* Every block ends in silence: the debounce thread takes one when its last *)
(* character is an interval old, and the worker when no more can come.      *)
LEMMA EndsAreSilentKept == StreamInv /\ [DebounceNext]_debounceVars => EndsAreSilent'
<1> SUFFICES ASSUME StreamTyped, TakingTurns, Whole, Timely, EndsAreSilent,
                    [DebounceNext]_debounceVars, NEW s \in Sources, NEW i \in Nat, EndOfBlock(s, i)'
             PROVE  SilentAfter(s, i)'
  BY DEF EndsAreSilent, StreamInv
<1> DEFINE o == Len(output[s])
           r == Len(loop.ready[s])
           w == Len(worker.remaining[s])
           p == Len(pending[s].text)
           l == Len(received[s])
<1>0. /\ o \in Nat /\ r \in Nat /\ w \in Nat /\ p \in Nat /\ l \in Nat
      /\ l = o + r + w + p
      /\ loop.ready[s] # <<>> => r > 0
      /\ worker.remaining[s] # <<>> => w > 0
      /\ pending[s].text # <<>> => p > 0
      /\ Len(<<>>) = 0
  BY PlacesOfPieces
<1>1. EndOfBlock(s, i) => SilentAfter(s, i)'
  BY SilenceStays DEF EndsAreSilent
<1>2. \/ i \in cuts'[s]
      \/ loop'.ready[s] # <<>> /\ i = Len(output'[s]) + Len(loop'.ready[s])
  BY DEF EndOfBlock
<1>3. CASE cuts'[s] = cuts[s] /\ output'[s] = output[s] /\ loop'.ready[s] = loop.ready[s]
  <2>1. EndOfBlock(s, i)
    BY <1>2, <1>3 DEF EndOfBlock
  <2> QED
    BY <1>1, <2>1
<1>4. CASE Scan
  <2>1. cuts' = cuts /\ output' = output /\ received' = received
    BY <1>4 DEF Scan, handedOn
  <2>2. CASE i \in cuts[s]
    BY <1>1, <2>2 DEF EndOfBlock
  <2>3. CASE i \notin cuts[s]
    <3>1. /\ loop'.ready[s] # <<>> /\ i = Len(output[s]) + Len(loop'.ready[s])
          /\ loop'.ready[s] = IF Silent(s) THEN pending[s].text ELSE <<>>
          /\ pending'[s] = IF Silent(s) THEN Nothing ELSE pending[s]
      BY <1>2, <1>4, <2>1, <2>3 DEF Scan, StreamTyped
    <3>2. /\ Silent(s) /\ pending[s].text # <<>> /\ i = o + p
          /\ pending[s].last + Interval <= loop.now /\ pending'[s].text = <<>>
      <4>1. Silent(s)
        BY <3>1
      <4>2. loop'.ready[s] = pending[s].text /\ pending'[s] = Nothing
        BY <3>1, <4>1
      <4> QED
        BY <3>1, <4>1, <4>2 DEF Silent, Nothing
    <3>3. loop.ready[s] = <<>> /\ worker.remaining[s] = <<>>
      BY <1>4 DEF Scan, TakingTurns
    <3>4. r = 0 /\ w = 0 /\ p' = 0 /\ l' = l
      BY <1>0, <2>1, <3>2, <3>3
    <3>5. received[s][l].time = pending[s].last /\ clock' = clock /\ loop.now <= clock
      BY <1>4, <3>2 DEF Timely, Scan, TakingTurns
    <3>6. pending[s].last \in Nat /\ loop.now \in Nat /\ clock \in Nat /\ Interval \in Nat
      BY DebounceAssumption DEF StreamTyped
    <3> HIDE DEF o, r, w, p, l
    <3>7. i = l /\ i \in 1 .. l' - p'
      BY <1>0, <3>2, <3>4
    <3>8. pending[s].last + Interval <= clock
      BY <3>2, <3>5, <3>6
    <3>9. received'[s][i].time + Interval <= clock'
      BY <2>1, <3>5, <3>7, <3>8
    <3>10. ~(i < l')
      BY <1>0, <3>4, <3>7
    <3> QED
      BY <3>7, <3>9, <3>10 DEF SilentAfter, l, p
  <2> QED
    BY <2>2, <2>3
<1>5. CASE Emit
  <2>1. CASE loop.ready = Empty
    BY <1>3, <1>5, <2>1 DEF Emit, handedOn, StreamTyped
  <2>2. ASSUME NEW q \in Sources, loop.ready[q] # <<>>, HandsOn(q, loop.ready[q]),
               loop' = [loop EXCEPT !.ready[q] = <<>>]
        PROVE  SilentAfter(s, i)'
    <3>1. CASE q # s
      BY <1>3, <2>2, <3>1 DEF HandsOn, StreamTyped
    <3>2. CASE q = s
      <4>1. cuts'[s] = cuts[s] \cup {Len(output[s]) + Len(loop.ready[s])} /\ loop'.ready[s] = <<>>
        BY <2>2, <3>2 DEF HandsOn, StreamTyped
      <4>2. EndOfBlock(s, i)
        BY <1>2, <2>2, <3>2, <4>1 DEF EndOfBlock
      <4> QED
        BY <1>1, <4>2
    <3> QED
      BY <3>1, <3>2
  <2> QED
    BY <1>5, <2>1, <2>2 DEF Emit
<1>6. CASE Flush
  <2>1. CASE worker.remaining = Empty
    BY <1>3, <1>6, <2>1 DEF Flush, handedOn
  <2>2. ASSUME NEW q \in Sources, worker.remaining[q] # <<>>, HandsOn(q, worker.remaining[q]),
               worker' = [worker EXCEPT !.remaining[q] = <<>>]
        PROVE  SilentAfter(s, i)'
    <3>1. CASE q # s
      BY <1>3, <1>6, <2>2, <3>1 DEF HandsOn, StreamTyped, Flush
    <3>2. CASE q = s
      <4>1. /\ cuts'[s] = cuts[s] \cup {o + w} /\ worker'.at = "flush"
            /\ pending' = pending /\ received' = received /\ loop' = loop
            /\ loop.ready[s] = <<>> /\ pending[s].text = <<>>
        BY <1>6, <2>2, <3>2 DEF HandsOn, StreamTyped, TakingTurns, Flush
      <4>2. CASE i \in cuts[s]
        BY <1>1, <4>2 DEF EndOfBlock
      <4>3. CASE i \notin cuts[s]
        <5>1. i = o + w
          BY <1>2, <4>1, <4>3
        <5>2. l' = l /\ p' = 0 /\ r = 0 /\ p = 0 /\ w > 0
          BY <1>0, <2>2, <3>2, <4>1
        <5>3. i \in 1 .. l' - p' /\ ~(i < l')
          <6> HIDE DEF o, r, w, p, l
          <6> QED
            BY <1>0, <5>1, <5>2
        <5> QED
          BY <4>1, <5>3 DEF SilentAfter
      <4> QED
        BY <4>2, <4>3
    <3> QED
      BY <3>1, <3>2
  <2> QED
    BY <1>6, <2>1, <2>2 DEF Flush
<1>7. CASE \/ Tick \/ OpenPipe \/ LosePipe \/ JoinReader \/ StopLoop \/ JoinLoop \/ Swap
           \/ (\E q \in Sources : Receive(q)) \/ UNCHANGED debounceVars
  BY <1>3, <1>7 DEF Tick, OpenPipe, LosePipe, JoinReader, StopLoop, JoinLoop, Swap, Receive,
     debounceVars, handedOn
<1>8. CASE Look
  <2>1. loop'.ready = loop.ready
    BY <1>8 DEF Look, StreamTyped
  <2> QED
    BY <1>3, <1>8, <2>1 DEF Look, handedOn
<1> QED
  BY <1>4, <1>5, <1>6, <1>7, <1>8 DEF DebounceNext, Loop, Finish

(* So it is from the start.                                                 *)
LEMMA StreamBegins == DebounceInit => StreamInv
<1> SUFFICES ASSUME DebounceInit PROVE StreamInv
  OBVIOUS
<1> USE DEF DebounceInit, Empty, Nothing
<1>0. <<>> \in Texts /\ Len(<<>>) = 0 /\ <<>> \in Seq(Char)
  BY TextOperators, EmptySeq DEF Texts
<1>1. StreamTyped
  BY <1>0 DEF StreamTyped
<1>2. TakingTurns
  BY DEF TakingTurns
<1>3. Whole
  BY <1>0, ConcatEmptySeq DEF Whole
<1>4. Timely
  <2> SUFFICES ASSUME NEW s \in Sources
               PROVE  /\ \A i \in 1 .. Len(received[s]) : received[s][i].time <= clock
                      /\ pending[s].text = <<>>
    BY DEF Timely
  <2>1. received[s] = <<>> /\ pending[s].text = <<>> /\ Len(received[s]) = 0
    BY <1>0
  <2> QED
    BY <2>1
<1>5. EndsAreSilent
  BY DEF EndsAreSilent, EndOfBlock
<1> QED
  BY <1>1, <1>2, <1>3, <1>4, <1>5 DEF StreamInv

(* The invariant of the stream.                                             *)
THEOREM StreamHolds == DebounceSpec => []StreamInv
<1>1. StreamInv /\ [DebounceNext]_debounceVars => StreamInv'
  BY StreamTypedKept, TakingTurnsKept, WholeKept, TimelyKept, EndsAreSilentKept DEF StreamInv
<1> QED
  BY <1>1, StreamBegins, PTL DEF DebounceSpec

(* Every character is handed on once, in order, and cut from the next one   *)
(* only by silence; at the worker's end all of it was handed on.            *)
THEOREM TextIsAlwaysWhole == DebounceSpec => []TextIsWhole
<1>1. StreamInv => TextIsWhole
  <2> SUFFICES ASSUME StreamTyped, TakingTurns, Whole, EndsAreSilent, NEW s \in Sources
               PROVE  /\ output[s] \o loop.ready[s] \o worker.remaining[s] \o pending[s].text
                            = received[s]
                      /\ worker.at = "done" => output[s] = received[s]
                      /\ \A i \in cuts[s] :
                            i < Len(received[s])
                              => received[s][i + 1].time >= received[s][i].time + Interval
    BY DEF StreamInv, TextIsWhole, InOrder, CutBySilence
  <2>1. output[s] \o loop.ready[s] \o worker.remaining[s] \o pending[s].text = received[s]
    BY DEF Whole
  <2>2. ASSUME worker.at = "done" PROVE output[s] = received[s]
    <3>1. loop.ready[s] = <<>> /\ worker.remaining[s] = <<>> /\ pending[s].text = <<>>
      BY <2>2 DEF TakingTurns
    <3>2. output[s] \in Seq(Char)
      BY Pieces DEF Texts
    <3> QED
      BY <2>1, <3>1, <3>2, ConcatEmptySeq
  <2>3. cuts[s] \subseteq Nat
    BY DEF StreamTyped
  <2>4. \A i \in cuts[s] : SilentAfter(s, i)
    BY <2>3 DEF EndsAreSilent, EndOfBlock
  <2> QED
    BY <2>1, <2>2, <2>4 DEF SilentAfter
<1> QED
  BY <1>1, StreamHolds, PTL

=============================================================================
