--------------------------- MODULE SessionManager ---------------------------
(***************************************************************************)
(* The session manager of libat-injector (class At_injector) together with *)
(* the threads its workers run on, seen from the GUI thread.               *)
(*                                                                         *)
(* The GUI thread executes the host's commands, delivers queued signals    *)
(* (a worker's confirmation request, a thread's finished) and blocks in    *)
(* QThread::wait.  A confirmation dialog runs a nested event loop, so      *)
(* commands and signals are handled while dialogs are open, and dialogs    *)
(* return innermost first.  A worker's run() is reduced to what the        *)
(* manager can see of it: it polls, asks for a confirmation, stops by      *)
(* itself, and returns once m_running is false; PluginWorker.tla has the   *)
(* rest.  Threads is the set of heap addresses a QThread (and its worker)  *)
(* can have: an address is used again once its thread was deleted.         *)
(***************************************************************************)
EXTENDS Naturals, Sequences

CONSTANTS
    Keys,       \* "plugin|process" session keys
    Plugins,    \* plugin names
    PluginOf,   \* the plugin a key belongs to
    Overlays,   \* the plugins that inject without asking (isOverlay)
    Threads,    \* addresses of QThread objects
    Args,       \* argument lists of a start command
    Configs,    \* json texts of a config command
    None,
    MaxSignals  \* bound: no start is given and no confirmation asked while this
                \* many signals are queued or dialogs open

ASSUME ManagerAssumption ==
    /\ PluginOf \in [Keys -> Plugins]
    /\ Overlays \subseteq Plugins
    /\ None \notin Keys \cup Threads \cup Args \cup Configs
    /\ MaxSignals \in Nat

VARIABLES
    sessions,         \* m_sessions: key -> thread
    stopping,         \* m_stopping: key -> thread
    pendingStarts,    \* m_pendingStarts: key -> args
    pendingConfigs,   \* m_pendingConfigs: key -> json
    worker,           \* the worker and thread at each address
    queue,            \* queued signals of the GUI thread
    dialogs,          \* open confirmation dialogs, the innermost last
    gui               \* what the GUI thread is doing

manager == <<sessions, stopping, pendingStarts, pendingConfigs>>
vars == <<manager, worker, queue, dialogs, gui>>

OrNone(S) == S \cup {None}
KeysOf(p) == {k \in Keys : PluginOf[k] = p}

WorkerStates == {"free", "poll", "emitted", "waiting", "woken", "loop", "finished"}

Workers == [st : WorkerStates, key : OrNone(Keys), args : OrNone(Args),
            config : OrNone(Configs), running : BOOLEAN, confirmed : BOOLEAN, quit : BOOLEAN]

Signals == [type : {"confirm", "finished"}, key : Keys, thread : OrNone(Threads)]

NoWorker == [st |-> "free", key |-> None, args |-> None, config |-> None,
             running |-> FALSE, confirmed |-> FALSE, quit |-> FALSE]

NewWorker(k, a, c) ==
    [st |-> "poll", key |-> k, args |-> a, config |-> c,
     running |-> TRUE, confirmed |-> FALSE, quit |-> FALSE]

GuiStates == [at : {"loop", "waitall", "join", "destroyed"},
              caller : {"event", "waitStopped", "destructor"},
              key : OrNone(Keys), thread : OrNone(Threads), rest : SUBSET Keys]

Looping == [at |-> "loop", caller |-> "event", key |-> None, thread |-> None, rest |-> {}]

-----------------------------------------------------------------------------
(* PluginWorker::stop: whoever waits for the confirmation at this moment is *)
(* woken, nobody else is.                                                   *)
StopWorker(w) ==
    [w EXCEPT !.running = FALSE, !.confirmed = FALSE,
              !.st = IF @ = "waiting" THEN "woken" ELSE @]

(* PluginWorker::onConfirmationResult *)
AnswerWorker(w, answer) ==
    [w EXCEPT !.confirmed = answer, !.st = IF @ = "waiting" THEN "woken" ELSE @]

(* The QPointer of a queued request or of an open dialog is cleared when    *)
(* its worker is deleted; a finished signal holds the plain address.        *)
ClearedQueue(t) ==
    [i \in DOMAIN queue |->
        IF queue[i].type = "confirm" /\ queue[i].thread = t
        THEN [queue[i] EXCEPT !.thread = None] ELSE queue[i]]

(* Mutated: a plain pointer to the worker instead of a QPointer. *)
ClearedDialogs_PlainPointer(t) == dialogs

ClearedDialogs(t) ==
    [i \in DOMAIN dialogs |-> IF dialogs[i] = t THEN None ELSE dialogs[i]]

Room == Len(queue) + Len(dialogs) < MaxSignals

Free == {t \in Threads : worker[t].st = "free"}

Init ==
    /\ sessions = [k \in Keys |-> None]
    /\ stopping = [k \in Keys |-> None]
    /\ pendingStarts = [k \in Keys |-> None]
    /\ pendingConfigs = [k \in Keys |-> None]
    /\ worker = [t \in Threads |-> NoWorker]
    /\ queue = <<>>
    /\ dialogs = <<>>
    /\ gui = Looping

-----------------------------------------------------------------------------
(* Commands of the host: At_injector::execute on the GUI thread.  A start   *)
(* for a key that has a session changes nothing.                            *)

(* Mutated: the check of m_stopping is missing. *)
StartSession_StoppingUnchecked(k, a) ==
    /\ gui.at = "loop"
    /\ Room
    /\ sessions[k] = None
    /\ \E t \in Free :
        /\ sessions' = [sessions EXCEPT ![k] = t]
        /\ worker' = [worker EXCEPT ![t] = NewWorker(k, a, None)]
    /\ UNCHANGED <<stopping, pendingStarts, pendingConfigs, queue, dialogs, gui>>

StartSession(k, a) ==
    /\ gui.at = "loop"
    /\ Room
    /\ sessions[k] = None
    /\ stopping[k] = None
    /\ \E t \in Free :
        /\ sessions' = [sessions EXCEPT ![k] = t]
        /\ worker' = [worker EXCEPT ![t] = NewWorker(k, a, None)]
    /\ UNCHANGED <<stopping, pendingStarts, pendingConfigs, queue, dialogs, gui>>

PostponeStart(k, a) ==
    /\ gui.at = "loop"
    /\ sessions[k] = None
    /\ stopping[k] # None
    /\ pendingStarts' = [pendingStarts EXCEPT ![k] = a]
    /\ UNCHANGED <<sessions, stopping, pendingConfigs, worker, queue, dialogs, gui>>

(* The workers a stop of the keys of S ends. *)
Ended(S) == {sessions[k] : k \in S} \ {None}

(* Mutated: the session leaves m_sessions without entering m_stopping. *)
Retired_Dropped(S) == stopping

(* The sessions of S that beginStop moves to m_stopping. *)
Retired(S) ==
    [k \in Keys |-> IF k \in S /\ sessions[k] # None THEN sessions[k] ELSE stopping[k]]

Without(S, f) == [k \in Keys |-> IF k \in S THEN None ELSE f[k]]

(* worker->stop() and thread->quit() *)
Quitting(w) == [StopWorker(w) EXCEPT !.quit = TRUE]

(* beginStop for every key of S: what is pending for it is dropped, and a   *)
(* live session moves to m_stopping, its worker is told to stop and its     *)
(* event loop to quit.                                                      *)
BeginStop(S) ==
    /\ pendingStarts' = Without(S, pendingStarts)
    /\ pendingConfigs' = Without(S, pendingConfigs)
    /\ sessions' = Without(S, sessions)
    /\ stopping' = Retired(S)
    /\ worker' = [t \in Threads |-> IF t \in Ended(S) THEN Quitting(worker[t]) ELSE worker[t]]

(* stop <plugin> <process> *)
StopKey(k) ==
    /\ gui.at = "loop"
    /\ BeginStop({k})
    /\ UNCHANGED <<queue, dialogs, gui>>

(* stop <plugin>: every key of the plugin that has a session or a pending   *)
(* start.                                                                   *)
StopPlugin(p) ==
    /\ gui.at = "loop"
    /\ BeginStop({k \in KeysOf(p) : sessions[k] # None \/ pendingStarts[k] # None})
    /\ UNCHANGED <<queue, dialogs, gui>>

(* config <plugin> <json>: live workers take it at once, pending starts     *)
(* keep it for the worker they will create.                                 *)
Configure(p, c) ==
    /\ gui.at = "loop"
    /\ worker' = [t \in Threads |->
                    IF \E k \in KeysOf(p) : sessions[k] = t
                    THEN [worker[t] EXCEPT !.config = c] ELSE worker[t]]
    /\ pendingConfigs' = [k \in Keys |->
                            IF k \in KeysOf(p) /\ pendingStarts[k] # None
                            THEN c ELSE pendingConfigs[k]]
    /\ UNCHANGED <<sessions, stopping, pendingStarts, queue, dialogs, gui>>

(* wait-stopped: nothing is restarted any more, and the GUI thread waits    *)
(* for every stopping session in turn.                                      *)
WaitStopped ==
    /\ gui.at = "loop"
    /\ pendingStarts' = [k \in Keys |-> None]
    /\ pendingConfigs' = [k \in Keys |-> None]
    /\ gui' = [gui EXCEPT !.at = "waitall", !.caller = "waitStopped",
                          !.rest = {k \in Keys : stopping[k] # None}]
    /\ UNCHANGED <<sessions, stopping, worker, queue, dialogs>>

(* Mutated: the destructor waits without stopping the live sessions. *)
Destroy_WithoutStop ==
    /\ gui.at = "loop"
    /\ dialogs = <<>>
    /\ gui' = [gui EXCEPT !.at = "waitall", !.caller = "destructor",
                          !.rest = {k \in Keys : stopping[k] # None}]
    /\ UNCHANGED <<manager, worker, queue, dialogs>>

(* ~At_injector, run once the nested event loops have returned: stop every  *)
(* session, then wait as wait-stopped does.                                 *)
Destroy ==
    /\ gui.at = "loop"
    /\ dialogs = <<>>
    /\ BeginStop(Keys)
    /\ gui' = [gui EXCEPT !.at = "waitall", !.caller = "destructor",
                          !.rest = {k \in Keys : stopping'[k] # None}]
    /\ UNCHANGED <<queue, dialogs>>

-----------------------------------------------------------------------------
(* The GUI thread's own steps.                                              *)

(* finishStop up to QThread::wait *)
BeginJoin(k) ==
    /\ stopping[k] # None
    /\ stopping' = [stopping EXCEPT ![k] = None]
    /\ gui' = [gui EXCEPT !.at = "join", !.key = k, !.thread = stopping[k],
                          !.rest = @ \ {k}]

(* A finished signal is honoured only if the key is still stopping that     *)
(* very thread.                                                             *)
DeliverFinished ==
    /\ gui.at = "loop"
    /\ queue # <<>>
    /\ Head(queue).type = "finished"
    /\ queue' = Tail(queue)
    /\ LET k == Head(queue).key
       IN  IF stopping[k] = Head(queue).thread
           THEN BeginJoin(k)
           ELSE UNCHANGED <<stopping, gui>>
    /\ UNCHANGED <<sessions, pendingStarts, pendingConfigs, worker, dialogs>>

(* The dialog opens even if its worker is gone by now. *)
DeliverConfirm ==
    /\ gui.at = "loop"
    /\ queue # <<>>
    /\ Head(queue).type = "confirm"
    /\ queue' = Tail(queue)
    /\ dialogs' = Append(dialogs, Head(queue).thread)
    /\ UNCHANGED <<manager, worker, gui>>

(* The user answers the innermost dialog, and exec() returns. *)
AnswerDialog(answer) ==
    /\ gui.at = "loop"
    /\ dialogs # <<>>
    /\ LET t == dialogs[Len(dialogs)]
       IN  worker' = IF t = None THEN worker
                     ELSE [worker EXCEPT ![t] = AnswerWorker(@, answer)]
    /\ dialogs' = SubSeq(dialogs, 1, Len(dialogs) - 1)
    /\ UNCHANGED <<manager, queue, gui>>

WaitNext(k) ==
    /\ gui.at = "waitall"
    /\ k \in gui.rest
    /\ BeginJoin(k)
    /\ UNCHANGED <<sessions, pendingStarts, pendingConfigs, worker, queue, dialogs>>

WaitEnd ==
    /\ gui.at = "waitall"
    /\ gui.rest = {}
    /\ gui' = IF gui.caller = "destructor" THEN [Looping EXCEPT !.at = "destroyed"]
                                           ELSE Looping
    /\ UNCHANGED <<manager, worker, queue, dialogs>>

(* QThread::wait returned: the worker and its thread are deleted, and a     *)
(* start that was postponed meanwhile creates the next session, maybe at    *)
(* the address just freed, with the configuration kept for it.              *)
Joined == gui.at = "join" /\ worker[gui.thread].st = "finished"

AfterJoin ==
    IF gui.caller = "event" THEN Looping
    ELSE [gui EXCEPT !.at = "waitall", !.key = None, !.thread = None]

EndJoin ==
    /\ Joined
    /\ pendingStarts[gui.key] = None
    /\ worker' = [worker EXCEPT ![gui.thread] = NoWorker]
    /\ queue' = ClearedQueue(gui.thread)
    /\ dialogs' = ClearedDialogs(gui.thread)
    /\ gui' = AfterJoin
    /\ UNCHANGED manager

EndJoinAndRestart ==
    /\ Joined
    /\ pendingStarts[gui.key] # None
    /\ \E t \in Free \cup {gui.thread} :
        /\ worker' = [[worker EXCEPT ![gui.thread] = NoWorker] EXCEPT
                        ![t] = NewWorker(gui.key, pendingStarts[gui.key],
                                         pendingConfigs[gui.key])]
        /\ sessions' = [sessions EXCEPT ![gui.key] = t]
    /\ pendingStarts' = [pendingStarts EXCEPT ![gui.key] = None]
    /\ pendingConfigs' = [pendingConfigs EXCEPT ![gui.key] = None]
    /\ queue' = ClearedQueue(gui.thread)
    /\ dialogs' = ClearedDialogs(gui.thread)
    /\ gui' = AfterJoin
    /\ UNCHANGED stopping

-----------------------------------------------------------------------------
(* The worker threads.                                                      *)

SetWorker(t, w) ==
    /\ worker' = [worker EXCEPT ![t] = w]
    /\ UNCHANGED <<manager, queue, dialogs, gui>>

(* onProcessFound asks before it injects; an overlay does not ask. *)
AskConfirmation(t) ==
    /\ worker[t].st = "poll"
    /\ worker[t].running
    /\ Room
    /\ PluginOf[worker[t].key] \notin Overlays
    /\ worker' = [worker EXCEPT ![t].st = "emitted", ![t].confirmed = FALSE]
    /\ queue' = Append(queue, [type |-> "confirm", key |-> worker[t].key, thread |-> t])
    /\ UNCHANGED <<manager, dialogs, gui>>

(* The request is queued before the wait begins, and the wait has no        *)
(* condition of its own.                                                    *)
WaitConfirmation(t) ==
    /\ worker[t].st = "emitted"
    /\ SetWorker(t, [worker[t] EXCEPT !.st = "waiting"])

(* Back from the wait: a refused confirmation stops the worker, a granted   *)
(* one injects, and the worker polls again.                                 *)
ResumeConfirmed(t) ==
    /\ worker[t].st = "woken"
    /\ SetWorker(t, [worker[t] EXCEPT !.st = "poll",
                        !.running = @ /\ worker[t].confirmed])

(* stop() called by the worker itself, by its pipe thread on a failure      *)
(* status, or by the handler of a failed injector process.                  *)
StopItself(t) ==
    /\ worker[t].st \in {"poll", "emitted", "waiting", "woken"}
    /\ worker[t].running
    /\ SetWorker(t, StopWorker(worker[t]))

(* run() returns and the thread enters its event loop; quit() may already   *)
(* have been called.                                                        *)
ReturnFromRun(t) ==
    /\ worker[t].st = "poll"
    /\ ~worker[t].running
    /\ SetWorker(t, [worker[t] EXCEPT !.st = "loop"])

(* Mutated: no second finished signal is queued for the same key. *)
FinishThread_Coalesced(t) ==
    /\ worker[t].st = "loop"
    /\ worker[t].quit
    /\ worker' = [worker EXCEPT ![t].st = "finished"]
    /\ queue' = IF \E i \in DOMAIN queue : queue[i].type = "finished" /\ queue[i].key = worker[t].key
                THEN queue
                ELSE Append(queue, [type |-> "finished", key |-> worker[t].key, thread |-> t])
    /\ UNCHANGED <<manager, dialogs, gui>>

FinishThread(t) ==
    /\ worker[t].st = "loop"
    /\ worker[t].quit
    /\ worker' = [worker EXCEPT ![t].st = "finished"]
    /\ queue' = Append(queue, [type |-> "finished", key |-> worker[t].key, thread |-> t])
    /\ UNCHANGED <<manager, dialogs, gui>>

-----------------------------------------------------------------------------
Command ==
    \/ \E k \in Keys, a \in Args : StartSession(k, a) \/ PostponeStart(k, a)
    \/ \E k \in Keys : StopKey(k)
    \/ \E p \in Plugins : StopPlugin(p)
    \/ \E p \in Plugins, c \in Configs : Configure(p, c)
    \/ WaitStopped
    \/ Destroy

GuiStep ==
    \/ DeliverFinished
    \/ DeliverConfirm
    \/ \E answer \in BOOLEAN : AnswerDialog(answer)
    \/ \E k \in Keys : WaitNext(k)
    \/ WaitEnd
    \/ EndJoin
    \/ EndJoinAndRestart

WorkerStep(t) ==
    \/ AskConfirmation(t)
    \/ WaitConfirmation(t)
    \/ ResumeConfirmed(t)
    \/ StopItself(t)
    \/ ReturnFromRun(t)
    \/ FinishThread(t)

(* After the destructor the plugin is gone and nothing happens any more. *)
Unloaded == gui.at = "destroyed" /\ UNCHANGED vars

Next == Command \/ GuiStep \/ (\E t \in Threads : WorkerStep(t)) \/ Unloaded

Spec == Init /\ [][Next]_vars

(* The GUI thread keeps running its event loop and the user answers every   *)
(* dialog in the end; a worker thread is scheduled.  That a worker asks or  *)
(* stops by itself is never due, and neither is a command.                  *)
Fairness ==
    /\ WF_vars(DeliverFinished \/ DeliverConfirm)
    /\ WF_vars(\E answer \in BOOLEAN : AnswerDialog(answer))
    /\ WF_vars(\E k \in Keys : WaitNext(k))
    /\ WF_vars(WaitEnd \/ EndJoin \/ EndJoinAndRestart)
    /\ \A t \in Threads :
        WF_vars(WaitConfirmation(t) \/ ResumeConfirmed(t) \/ ReturnFromRun(t) \/ FinishThread(t))

FairSpec == Spec /\ Fairness

-----------------------------------------------------------------------------
(* Properties *)

Alive(t) == worker[t].st # "free"
Joining(t) == gui.at = "join" /\ gui.thread = t

(* Every variable ranges over what the code can put there. *)
TypeOK ==
    /\ sessions \in [Keys -> OrNone(Threads)]
    /\ stopping \in [Keys -> OrNone(Threads)]
    /\ pendingStarts \in [Keys -> OrNone(Args)]
    /\ pendingConfigs \in [Keys -> OrNone(Configs)]
    /\ worker \in [Threads -> Workers]
    /\ queue \in Seq(Signals)
    /\ dialogs \in Seq(OrNone(Threads))
    /\ gui \in GuiStates

(* One process is never served by two workers of the same plugin at once:   *)
(* start looks into m_sessions and m_stopping before it creates a worker,   *)
(* and finishStop creates the next one only after it deleted the last.      *)
OneWorkerPerKey ==
    \A t, u \in Threads :
        Alive(t) /\ Alive(u) /\ worker[t].key = worker[u].key => t = u

(* No thread is lost track of: every worker that exists is in m_sessions or *)
(* in m_stopping under its own key, or is being waited for.                 *)
NoWorkerLost ==
    \A t \in Threads : Alive(t) =>
        \/ sessions[worker[t].key] = t
        \/ stopping[worker[t].key] = t
        \/ Joining(t)

(* The maps hold no deleted worker, and a key is in one of them at most: a  *)
(* live session's worker was not told to quit, a stopping one was, and      *)
(* nothing sets m_running again.                                            *)
MapIsLive(k) ==
    /\ sessions[k] = None \/ stopping[k] = None
    /\ sessions[k] # None =>
        Alive(sessions[k]) /\ worker[sessions[k]].key = k /\ ~worker[sessions[k]].quit
    /\ stopping[k] # None =>
        /\ Alive(stopping[k])
        /\ worker[stopping[k]].key = k
        /\ worker[stopping[k]].quit
        /\ ~worker[stopping[k]].running

MapsAreLive == \A k \in Keys : MapIsLive(k)

(* A postponed start always has a shutdown to wait for, so finishStop will  *)
(* find it; a postponed configuration always has a postponed start.         *)
PendingHasCarrier ==
    \A k \in Keys :
        /\ pendingStarts[k] # None =>
            stopping[k] # None \/ (gui.at = "join" /\ gui.key = k)
        /\ pendingConfigs[k] # None => pendingStarts[k] # None

(* Every worker is held by exactly the map it belongs to, and whatever was  *)
(* postponed has the shutdown it waits for: no order of starts, stops,      *)
(* joins and finished signals loses a thread or a start.                    *)
WorkersAccounted == NoWorkerLost /\ MapsAreLive /\ PendingHasCarrier

(* An answer reaches the worker that asked and no other: the request and    *)
(* the dialog of a worker belong to its one open question, whatever threads *)
(* were deleted and created while the dialog was open.                      *)
Questions(t) ==
    {<<"queue", i>> : i \in {j \in DOMAIN queue : queue[j].type = "confirm" /\ queue[j].thread = t}}
        \cup {<<"dialog", i>> : i \in {j \in DOMAIN dialogs : dialogs[j] = t}}

AnswerReachesAsker ==
    \A t \in Threads :
        \A x, y \in Questions(t) :
            /\ x = y
            /\ Alive(t)
            /\ worker[t].running => worker[t].st \in {"emitted", "waiting"}

(* After the destructor no worker thread is left to call into the plugin.   *)
UnloadedIsQuiet ==
    gui.at = "destroyed" => \A t \in Threads : ~Alive(t)

(* The only thing that can hold a stop up forever is a worker that entered  *)
(* the confirmation wait after stop() had already broadcast: the wait has   *)
(* no condition, so this worker sleeps on, and with it a GUI thread that is *)
(* joining it.                                                              *)
Stranded(t) == worker[t].st = "waiting" /\ ~worker[t].running

(* Unless a worker is stranded every stop ends, and wait-stopped and the    *)
(* destructor return to their caller, nested dialogs and joins included.    *)
StopsEnd ==
    \/ /\ \A k \in Keys : []<>(stopping[k] = None)
       /\ []<>(gui.at \in {"loop", "destroyed"})
    \/ <>[](\E t \in Threads : Stranded(t))

(* The manager implements the session life cycle it promises. *)
phaseBar ==
    [k \in Keys |->
        IF sessions[k] # None THEN "active"
        ELSE IF stopping[k] # None \/ (gui.at = "join" /\ gui.key = k) THEN "closing"
        ELSE "absent"]

servingBar ==
    [k \in Keys |-> IF sessions[k] # None THEN worker[sessions[k]].args ELSE None]

Lifecycle == INSTANCE SessionLifecycle
                WITH phase <- phaseBar, serving <- servingBar, wanted <- pendingStarts

LifecycleSpec == Lifecycle!Spec
=============================================================================
