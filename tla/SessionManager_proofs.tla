----------------------- MODULE SessionManager_proofs -----------------------
(***************************************************************************)
(* Proofs about the session manager, for every set of keys, plugins and    *)
(* thread addresses.                                                       *)
(***************************************************************************)
EXTENDS SessionManager, SequenceTheorems, TLAPS

(* A joined thread is the one that was stopping under the joined key, which *)
(* is in neither map while the GUI thread waits.                            *)
JoinOK ==
    gui.at = "join" =>
        /\ gui.key \in Keys
        /\ gui.thread \in Threads
        /\ Alive(gui.thread)
        /\ worker[gui.thread].key = gui.key
        /\ worker[gui.thread].quit
        /\ ~worker[gui.thread].running
        /\ sessions[gui.key] = None
        /\ stopping[gui.key] = None

(* A worker that exists belongs to a key. *)
KeysKnown == \A t \in Threads : Alive(t) => worker[t].key \in Keys

IInv == TypeOK /\ KeysKnown /\ NoWorkerLost /\ MapsAreLive /\ JoinOK /\ PendingHasCarrier

-----------------------------------------------------------------------------
(* Replacing the elements of a sequence in place yields a sequence. *)
LEMMA MappedSeq ==
    ASSUME NEW S, NEW T, NEW s \in Seq(S), NEW f,
           f = [i \in DOMAIN s |-> f[i]],
           \A i \in DOMAIN s : f[i] \in T
    PROVE  f \in Seq(T)
<1>1. Len(s) \in Nat /\ DOMAIN s = 1 .. Len(s)
  BY LenProperties
<1>2. f \in [1 .. Len(s) -> T]
  BY <1>1
<1> QED
  BY <1>1, <1>2, SeqDef

(* Clearing the guarded pointers keeps the type of the signals and dialogs. *)
LEMMA ClearedType ==
    ASSUME TypeOK, NEW t
    PROVE  ClearedQueue(t) \in Seq(Signals) /\ ClearedDialogs(t) \in Seq(OrNone(Threads))
<1>1. queue \in Seq(Signals) /\ dialogs \in Seq(OrNone(Threads))
  BY DEF TypeOK
<1>2. \A i \in DOMAIN queue : queue[i] \in Signals
  BY <1>1, ElementOfSeq, LenProperties
<1>3. \A i \in DOMAIN dialogs : dialogs[i] \in OrNone(Threads)
  BY <1>1, ElementOfSeq, LenProperties
<1>4. \A i \in DOMAIN queue : ClearedQueue(t)[i] \in Signals
  BY <1>2 DEF ClearedQueue, Signals, OrNone
<1>5. \A i \in DOMAIN dialogs : ClearedDialogs(t)[i] \in OrNone(Threads)
  BY <1>3 DEF ClearedDialogs, OrNone
<1>6. ClearedQueue(t) = [i \in DOMAIN queue |-> ClearedQueue(t)[i]]
  BY DEF ClearedQueue
<1>7. ClearedDialogs(t) = [i \in DOMAIN dialogs |-> ClearedDialogs(t)[i]]
  BY DEF ClearedDialogs
<1>8. ClearedQueue(t) \in Seq(Signals)
  BY <1>1, <1>4, <1>6, MappedSeq
<1>9. ClearedDialogs(t) \in Seq(OrNone(Threads))
  BY <1>1, <1>5, <1>7, MappedSeq
<1> QED
  BY <1>8, <1>9

-----------------------------------------------------------------------------
(* The initial state satisfies the inductive invariant. *)
LEMMA InitIInv == Init => IInv
<1> SUFFICES ASSUME Init PROVE IInv
  OBVIOUS
<1>1. TypeOK
  BY DEF Init, TypeOK, OrNone, Workers, NoWorker, WorkerStates, GuiStates, Looping
<1>2. \A t \in Threads : ~Alive(t)
  BY DEF Init, Alive, NoWorker
<1>3. JoinOK /\ PendingHasCarrier /\ MapsAreLive
  BY DEF Init, JoinOK, PendingHasCarrier, MapsAreLive, MapIsLive, Looping
<1> QED
  BY <1>1, <1>2, <1>3 DEF IInv, KeysKnown, NoWorkerLost

-----------------------------------------------------------------------------
(* One lemma per action: the step preserves the inductive invariant.        *)

(* What the invariant says about the components a step reads. *)
LEMMA Types ==
    ASSUME IInv
    PROVE  /\ sessions \in [Keys -> OrNone(Threads)]
           /\ stopping \in [Keys -> OrNone(Threads)]
           /\ pendingStarts \in [Keys -> OrNone(Args)]
           /\ pendingConfigs \in [Keys -> OrNone(Configs)]
           /\ worker \in [Threads -> Workers]
           /\ queue \in Seq(Signals)
           /\ dialogs \in Seq(OrNone(Threads))
           /\ gui \in GuiStates
BY DEF IInv, TypeOK

LEMMA StartSessionStep ==
    ASSUME IInv, NEW k \in Keys, NEW a \in Args, StartSession(k, a)
    PROVE  IInv'
<1>1. PICK t \in Free : /\ sessions' = [sessions EXCEPT ![k] = t]
                        /\ worker' = [worker EXCEPT ![t] = NewWorker(k, a, None)]
  BY DEF StartSession
<1>2. t \in Threads /\ ~Alive(t) /\ t # None
  BY ManagerAssumption DEF Free, Alive
<1>3. NewWorker(k, a, None) \in Workers
  BY DEF NewWorker, Workers, WorkerStates, OrNone
<1>4. TypeOK'
  BY <1>1, <1>2, <1>3, Types DEF TypeOK, StartSession, OrNone
<1>5. \A u \in Threads : u # t => worker'[u] = worker[u]
  BY <1>1, Types
<1>6. worker'[t] = NewWorker(k, a, None)
  BY <1>1, <1>2, Types
<1>7. gui.at = "loop" /\ sessions[k] = None /\ stopping[k] = None
      /\ UNCHANGED <<stopping, pendingStarts, pendingConfigs, queue, dialogs, gui>>
  BY DEF StartSession
<1>8. KeysKnown'
  BY <1>5, <1>6 DEF IInv, KeysKnown, Alive, NewWorker
<1>9. \A j \in Keys : sessions'[j] = IF j = k THEN t ELSE sessions[j]
  BY <1>1, Types
<1>10. NoWorkerLost'
  BY <1>2, <1>5, <1>6, <1>7, <1>9 DEF IInv, KeysKnown, NoWorkerLost, Alive, Joining, NewWorker
<1>11. MapsAreLive'
  <2> SUFFICES ASSUME NEW j \in Keys PROVE MapIsLive(j)'
    BY DEF MapsAreLive
  <2>1. sessions[j] \in OrNone(Threads) /\ stopping[j] \in OrNone(Threads) /\ MapIsLive(j)
    BY Types DEF IInv, MapsAreLive
  <2>2. sessions[j] # t /\ stopping[j] # t
    BY <1>2, <2>1 DEF MapIsLive
  <2> QED
    BY <1>2, <1>5, <1>6, <1>7, <1>9, <2>1, <2>2 DEF MapIsLive, Alive, NewWorker, OrNone
<1>12. JoinOK' /\ PendingHasCarrier'
  BY <1>7 DEF IInv, JoinOK, PendingHasCarrier
<1> QED
  BY <1>4, <1>8, <1>10, <1>11, <1>12 DEF IInv

(* A step that leaves the maps and the GUI thread alone, and of each worker *)
(* keeps what the maps rely on: its existence, its key, whether it was told *)
(* to quit, and that m_running is never set again.                          *)
KeepsWorkers ==
    /\ worker' \in [Threads -> Workers]
    /\ \A t \in Threads :
        /\ worker'[t].st = "free" <=> worker[t].st = "free"
        /\ worker'[t].key = worker[t].key
        /\ worker'[t].quit = worker[t].quit
        /\ worker'[t].running => worker[t].running
    /\ UNCHANGED <<sessions, stopping, gui>>
    /\ queue' \in Seq(Signals)
    /\ dialogs' \in Seq(OrNone(Threads))

LEMMA KeepingWorkers ==
    ASSUME IInv, KeepsWorkers, PendingHasCarrier',
           pendingStarts' \in [Keys -> OrNone(Args)],
           pendingConfigs' \in [Keys -> OrNone(Configs)]
    PROVE  IInv'
<1>1. TypeOK'
  BY Types DEF TypeOK, KeepsWorkers
<1>2. KeysKnown' /\ NoWorkerLost'
  BY DEF IInv, KeysKnown, NoWorkerLost, KeepsWorkers, Alive, Joining
<1>3. MapsAreLive'
  <2> SUFFICES ASSUME NEW j \in Keys PROVE MapIsLive(j)'
    BY DEF MapsAreLive
  <2>1. sessions[j] \in OrNone(Threads) /\ stopping[j] \in OrNone(Threads) /\ MapIsLive(j)
    BY Types DEF IInv, MapsAreLive
  <2> QED
    BY <2>1 DEF MapIsLive, Alive, KeepsWorkers, OrNone
<1>4. JoinOK'
  BY DEF IInv, JoinOK, KeepsWorkers, Alive
<1> QED
  BY <1>1, <1>2, <1>3, <1>4 DEF IInv

(* The common case: one worker changes, the manager's maps do not. *)
LEMMA OneWorkerChanges ==
    ASSUME IInv, NEW t \in Threads, NEW w \in Workers,
           w.st = "free" <=> worker[t].st = "free",
           w.key = worker[t].key, w.quit = worker[t].quit,
           w.running => worker[t].running,
           worker' = [worker EXCEPT ![t] = w],
           UNCHANGED <<manager, gui>>,
           queue' \in Seq(Signals), dialogs' \in Seq(OrNone(Threads))
    PROVE  IInv'
<1>1. KeepsWorkers
  BY Types DEF KeepsWorkers, manager
<1>2. PendingHasCarrier'
  BY DEF IInv, PendingHasCarrier, manager
<1> QED
  BY <1>1, <1>2, KeepingWorkers, Types DEF manager

LEMMA PostponeStartStep ==
    ASSUME IInv, NEW k \in Keys, NEW a \in Args, PostponeStart(k, a)
    PROVE  IInv'
<1>1. KeepsWorkers
  BY Types DEF KeepsWorkers, PostponeStart
<1>2. pendingStarts' \in [Keys -> OrNone(Args)] /\ pendingConfigs' = pendingConfigs
  BY Types DEF PostponeStart, OrNone
<1>3. PendingHasCarrier'
  BY ManagerAssumption, Types DEF IInv, PendingHasCarrier, PostponeStart
<1> QED
  BY <1>1, <1>2, <1>3, KeepingWorkers, Types

LEMMA ConfigureStep ==
    ASSUME IInv, NEW p \in Plugins, NEW c \in Configs, Configure(p, c)
    PROVE  IInv'
<1>1. \A t \in Threads : [worker[t] EXCEPT !.config = c] \in Workers
  BY Types DEF Workers, OrNone
<1>2. worker' \in [Threads -> Workers]
  BY <1>1, Types DEF Configure
<1>3. \A t \in Threads : /\ worker'[t].st = worker[t].st
                         /\ worker'[t].key = worker[t].key
                         /\ worker'[t].quit = worker[t].quit
                         /\ worker'[t].running = worker[t].running
  BY Types DEF Configure, Workers
<1>4. KeepsWorkers
  BY <1>2, <1>3, Types DEF KeepsWorkers, Configure
<1>5. pendingConfigs' \in [Keys -> OrNone(Configs)] /\ pendingStarts' = pendingStarts
  BY Types DEF Configure, OrNone
<1>6. PendingHasCarrier'
  BY Types DEF IInv, PendingHasCarrier, Configure
<1> QED
  BY <1>4, <1>5, <1>6, KeepingWorkers, Types

(* What beginStop does to the maps and to the workers. *)
LEMMA BeginStopStep ==
    ASSUME IInv, NEW S \in SUBSET Keys, gui.at = "loop", BeginStop(S),
           gui' \in GuiStates, gui'.at # "join", UNCHANGED <<queue, dialogs>>
    PROVE  IInv'
<1>1. Ended(S) \subseteq Threads
  BY Types DEF Ended, OrNone
<1>2. \A t \in Threads : Quitting(worker[t]) \in Workers
  BY ZenonT(60), Types DEF Quitting, StopWorker, Workers, WorkerStates
<1>3. \A t \in Threads : worker'[t] = IF t \in Ended(S) THEN Quitting(worker[t]) ELSE worker[t]
  BY DEF BeginStop
<1>4. TypeOK'
  <2>1. worker' \in [Threads -> Workers]
    BY <1>2, Types DEF BeginStop
  <2>2. stopping' \in [Keys -> OrNone(Threads)] /\ sessions' \in [Keys -> OrNone(Threads)]
    BY Types DEF BeginStop, Retired, Without, OrNone
  <2>3. pendingStarts' \in [Keys -> OrNone(Args)] /\ pendingConfigs' \in [Keys -> OrNone(Configs)]
    BY Types DEF BeginStop, Without, OrNone
  <2> QED
    BY <2>1, <2>2, <2>3, Types DEF TypeOK
<1>5. \A t \in Threads : /\ worker'[t].key = worker[t].key
                         /\ Alive(t)' <=> Alive(t)
                         /\ t \in Ended(S) => worker'[t].quit /\ ~worker'[t].running
                         /\ t \notin Ended(S) => worker'[t] = worker[t]
  BY ZenonT(60), <1>3, Types DEF Quitting, StopWorker, Alive, Workers
<1>6. \A k \in Keys : /\ sessions'[k] = IF k \in S THEN None ELSE sessions[k]
                      /\ stopping'[k] = IF k \in S /\ sessions[k] # None
                                        THEN sessions[k] ELSE stopping[k]
                      /\ pendingStarts'[k] = IF k \in S THEN None ELSE pendingStarts[k]
                      /\ pendingConfigs'[k] = IF k \in S THEN None ELSE pendingConfigs[k]
  BY DEF BeginStop, Without, Retired
<1>7. KeysKnown'
  BY <1>5 DEF IInv, KeysKnown
<1>8. NoWorkerLost'
  <2> SUFFICES ASSUME NEW t \in Threads, Alive(t)
               PROVE  sessions'[worker[t].key] = t \/ stopping'[worker[t].key] = t
    BY <1>5 DEF NoWorkerLost
  <2>1. worker[t].key \in Keys /\ t # None
    BY ManagerAssumption DEF IInv, KeysKnown
  <2>2. sessions[worker[t].key] = t \/ stopping[worker[t].key] = t
    BY DEF IInv, NoWorkerLost, Joining
  <2>3. sessions[worker[t].key] = None \/ stopping[worker[t].key] = None
    BY <2>1 DEF IInv, MapsAreLive, MapIsLive
  <2> QED
    BY <1>6, <2>1, <2>2, <2>3
<1>9. \A k \in Keys : k \notin S /\ sessions[k] # None => sessions[k] \notin Ended(S)
  BY DEF Ended, IInv, MapsAreLive, MapIsLive
<1>10. \A k \in Keys : stopping[k] # None => stopping[k] \notin Ended(S)
  BY DEF Ended, IInv, MapsAreLive, MapIsLive
<1>11. \A k \in Keys : k \in S /\ sessions[k] # None => sessions[k] \in Ended(S)
  BY DEF Ended
<1>12. MapsAreLive'
  <2> SUFFICES ASSUME NEW j \in Keys PROVE MapIsLive(j)'
    BY DEF MapsAreLive
  <2>1. sessions[j] \in OrNone(Threads) /\ stopping[j] \in OrNone(Threads) /\ MapIsLive(j)
    BY Types DEF IInv, MapsAreLive
  <2> QED
    BY <1>5, <1>6, <1>9, <1>10, <1>11, <2>1 DEF MapIsLive, OrNone
<1>13. PendingHasCarrier'
  <2> SUFFICES ASSUME NEW j \in Keys
               PROVE  /\ pendingStarts'[j] # None => stopping'[j] # None
                      /\ pendingConfigs'[j] # None => pendingStarts'[j] # None
    BY DEF PendingHasCarrier
  <2> QED
    BY <1>6 DEF IInv, PendingHasCarrier
<1> QED
  BY <1>4, <1>7, <1>8, <1>12, <1>13 DEF IInv, JoinOK

LEMMA StopKeyStep ==
    ASSUME IInv, NEW k \in Keys, StopKey(k)
    PROVE  IInv'
<1>1. gui.at = "loop" /\ BeginStop({k}) /\ UNCHANGED <<queue, dialogs, gui>>
  BY DEF StopKey
<1> QED
  BY <1>1, BeginStopStep, Types

LEMMA StopPluginStep ==
    ASSUME IInv, NEW p \in Plugins, StopPlugin(p)
    PROVE  IInv'
<1> DEFINE S == {k \in KeysOf(p) : sessions[k] # None \/ pendingStarts[k] # None}
<1>1. gui.at = "loop" /\ BeginStop(S) /\ UNCHANGED <<queue, dialogs, gui>>
  BY DEF StopPlugin
<1>2. S \in SUBSET Keys
  BY DEF KeysOf
<1> HIDE DEF S
<1> QED
  BY <1>1, <1>2, BeginStopStep, Types

LEMMA DestroyStep ==
    ASSUME IInv, Destroy
    PROVE  IInv'
<1> DEFINE R == {k \in Keys : stopping'[k] # None}
<1>1. gui.at = "loop" /\ BeginStop(Keys) /\ UNCHANGED <<queue, dialogs>>
  BY DEF Destroy
<1>2. gui' = [gui EXCEPT !.at = "waitall", !.caller = "destructor", !.rest = R]
  BY DEF Destroy
<1>3. R \in SUBSET Keys
  OBVIOUS
<1> HIDE DEF R
<1>4. gui' \in GuiStates /\ gui'.at # "join"
  BY <1>2, <1>3, Types DEF GuiStates
<1> QED
  BY <1>1, <1>4, BeginStopStep

LEMMA WaitStoppedStep ==
    ASSUME IInv, WaitStopped
    PROVE  IInv'
<1> DEFINE R == {k \in Keys : stopping[k] # None}
<1>1. gui' = [gui EXCEPT !.at = "waitall", !.caller = "waitStopped", !.rest = R]
  BY DEF WaitStopped
<1>2. R \in SUBSET Keys
  OBVIOUS
<1> HIDE DEF R
<1>3. gui' \in GuiStates /\ gui'.at # "join" /\ gui.at = "loop"
  BY <1>1, <1>2, Types DEF GuiStates, WaitStopped
<1>4. TypeOK'
  BY <1>3, Types DEF TypeOK, WaitStopped, OrNone
<1>5. NoWorkerLost' /\ KeysKnown'
  BY <1>3 DEF IInv, NoWorkerLost, KeysKnown, Alive, Joining, WaitStopped
<1>6. MapsAreLive'
  BY DEF IInv, MapsAreLive, MapIsLive, Alive, WaitStopped
<1>7. PendingHasCarrier'
  BY DEF PendingHasCarrier, WaitStopped
<1> QED
  BY <1>3, <1>4, <1>5, <1>6, <1>7 DEF IInv, JoinOK

(* finishStop up to its wait: the key leaves m_stopping and is joined. *)
LEMMA BeginJoinStep ==
    ASSUME IInv, NEW k \in Keys, gui.at # "join", BeginJoin(k), queue' \in Seq(Signals),
           UNCHANGED <<sessions, pendingStarts, pendingConfigs, worker, dialogs>>
    PROVE  IInv'
<1> DEFINE t == stopping[k]
<1>1. /\ t # None /\ stopping' = [stopping EXCEPT ![k] = None]
      /\ gui' = [gui EXCEPT !.at = "join", !.key = k, !.thread = t, !.rest = @ \ {k}]
  BY DEF BeginJoin
<1>2. t \in Threads /\ MapIsLive(k)
  BY <1>1, Types DEF IInv, MapsAreLive, OrNone
<1>3. gui' \in GuiStates /\ gui'.at = "join" /\ gui'.key = k /\ gui'.thread = t
  BY <1>1, <1>2, Types DEF GuiStates, OrNone
<1>4. \A j \in Keys : stopping'[j] = IF j = k THEN None ELSE stopping[j]
  BY <1>1, Types
<1>5. TypeOK'
  BY <1>1, <1>3, Types DEF TypeOK, OrNone
<1>6. KeysKnown'
  BY DEF IInv, KeysKnown, Alive
<1>7. NoWorkerLost'
  BY <1>3, <1>4 DEF IInv, KeysKnown, NoWorkerLost, Alive, Joining
<1>8. MapsAreLive'
  BY <1>4 DEF IInv, MapsAreLive, MapIsLive, Alive
<1>9. JoinOK'
  BY <1>1, <1>2, <1>3, <1>4 DEF JoinOK, MapIsLive, Alive
<1>10. PendingHasCarrier'
  BY <1>3, <1>4 DEF IInv, PendingHasCarrier
<1> QED
  BY <1>5, <1>6, <1>7, <1>8, <1>9, <1>10 DEF IInv

LEMMA DeliverFinishedStep ==
    ASSUME IInv, DeliverFinished
    PROVE  IInv'
<1>1. queue \in Seq(Signals) /\ queue # <<>>
  BY Types DEF DeliverFinished
<1>2. Head(queue) \in Signals /\ Tail(queue) \in Seq(Signals)
  BY <1>1, HeadTailProperties
<1>3. queue' \in Seq(Signals) /\ Head(queue).key \in Keys
  BY <1>2 DEF DeliverFinished, Signals
<1>4. CASE stopping[Head(queue).key] = Head(queue).thread
  <2>1. BeginJoin(Head(queue).key) /\ gui.at # "join"
    BY <1>4 DEF DeliverFinished
  <2> QED
    BY <1>3, <2>1, BeginJoinStep DEF DeliverFinished
<1>5. CASE stopping[Head(queue).key] # Head(queue).thread
  <2>1. KeepsWorkers /\ UNCHANGED <<pendingStarts, pendingConfigs>>
    BY <1>3, <1>5, Types DEF KeepsWorkers, DeliverFinished
  <2>2. PendingHasCarrier'
    BY <2>1 DEF KeepsWorkers, IInv, PendingHasCarrier
  <2> QED
    BY <2>1, <2>2, KeepingWorkers, Types
<1> QED
  BY <1>4, <1>5

LEMMA DeliverConfirmStep ==
    ASSUME IInv, DeliverConfirm
    PROVE  IInv'
<1>1. queue \in Seq(Signals) /\ queue # <<>>
  BY Types DEF DeliverConfirm
<1>2. Head(queue) \in Signals /\ Tail(queue) \in Seq(Signals)
  BY <1>1, HeadTailProperties
<1>3. dialogs' \in Seq(OrNone(Threads))
  BY <1>2, Types, AppendProperties DEF DeliverConfirm, Signals
<1>4. KeepsWorkers /\ UNCHANGED <<pendingStarts, pendingConfigs>>
  BY <1>2, <1>3, Types DEF KeepsWorkers, DeliverConfirm, manager
<1>5. PendingHasCarrier'
  BY <1>4 DEF KeepsWorkers, IInv, PendingHasCarrier
<1> QED
  BY <1>4, <1>5, KeepingWorkers, Types

LEMMA AnswerDialogStep ==
    ASSUME IInv, NEW answer \in BOOLEAN, AnswerDialog(answer)
    PROVE  IInv'
<1> DEFINE t == dialogs[Len(dialogs)]
<1>1. dialogs \in Seq(OrNone(Threads)) /\ dialogs # <<>>
  BY Types DEF AnswerDialog
<1>2. Len(dialogs) \in 1 .. Len(dialogs) /\ Len(dialogs) - 1 \in Nat
  BY <1>1, EmptySeq, LenProperties
<1>3. t \in OrNone(Threads)
  BY <1>1, <1>2, ElementOfSeq
<1>4. dialogs' \in Seq(OrNone(Threads))
  <2>1. \A i \in 1 .. Len(dialogs) - 1 : dialogs[i] \in OrNone(Threads)
    BY <1>1, <1>2, ElementOfSeq
  <2> QED
    BY <1>1, <1>2, <2>1, SubSeqProperties DEF AnswerDialog
<1>5. queue' \in Seq(Signals) /\ UNCHANGED <<manager, gui>>
  BY Types DEF AnswerDialog
<1>6. CASE t = None
  <2>1. KeepsWorkers /\ UNCHANGED <<pendingStarts, pendingConfigs>>
    BY <1>4, <1>5, <1>6, Types DEF KeepsWorkers, AnswerDialog, manager
  <2>2. PendingHasCarrier'
    BY <2>1 DEF KeepsWorkers, IInv, PendingHasCarrier
  <2> QED
    BY <2>1, <2>2, KeepingWorkers, Types
<1>7. CASE t # None
  <2>1. t \in Threads /\ worker[t] \in Workers
    BY <1>3, <1>7, Types DEF OrNone
  <2> DEFINE w == AnswerWorker(worker[t], answer)
  <2>2. w \in Workers
    BY <2>1 DEF AnswerWorker, Workers, WorkerStates
  <2>3. /\ w.st = "free" <=> worker[t].st = "free"
        /\ w.key = worker[t].key
        /\ w.quit = worker[t].quit
        /\ w.running = worker[t].running
    BY <2>1 DEF AnswerWorker, Workers
  <2>4. worker' = [worker EXCEPT ![t] = w]
    BY <1>7 DEF AnswerDialog
  <2> HIDE DEF w, t
  <2> QED
    BY <1>4, <1>5, <2>1, <2>2, <2>3, <2>4, OneWorkerChanges
<1> QED
  BY <1>6, <1>7

LEMMA WaitNextStep ==
    ASSUME IInv, NEW k \in Keys, WaitNext(k)
    PROVE  IInv'
<1>1. gui.at # "join" /\ BeginJoin(k) /\ queue' \in Seq(Signals)
      /\ UNCHANGED <<sessions, pendingStarts, pendingConfigs, worker, dialogs>>
  BY Types DEF WaitNext
<1> QED
  BY <1>1, BeginJoinStep

LEMMA WaitEndStep ==
    ASSUME IInv, WaitEnd
    PROVE  IInv'
<1>1. gui' \in GuiStates /\ gui'.at # "join" /\ gui.at # "join"
  BY DEF WaitEnd, Looping, GuiStates, OrNone
<1>2. UNCHANGED <<manager, worker, queue, dialogs>>
  BY DEF WaitEnd
<1>3. TypeOK' /\ KeysKnown' /\ NoWorkerLost' /\ MapsAreLive'
  BY <1>1, <1>2 DEF IInv, TypeOK, KeysKnown, NoWorkerLost, MapsAreLive, MapIsLive,
                    Alive, Joining, manager
<1>4. PendingHasCarrier'
  BY <1>1, <1>2 DEF IInv, PendingHasCarrier, manager
<1> QED
  BY <1>1, <1>3, <1>4 DEF IInv, JoinOK

(* Where the GUI thread goes when a join has ended. *)
LEMMA AfterJoinType ==
    ASSUME IInv
    PROVE  AfterJoin \in GuiStates /\ AfterJoin.at # "join"
BY Types DEF AfterJoin, Looping, GuiStates, OrNone

(* While a thread is joined no map refers to it. *)
LEMMA JoinedIsUnmapped ==
    ASSUME IInv, gui.at = "join"
    PROVE  \A k \in Keys : sessions[k] # gui.thread /\ stopping[k] # gui.thread
<1>1. gui.thread # None /\ worker[gui.thread].key = gui.key
  BY ManagerAssumption DEF IInv, JoinOK
<1>2. sessions[gui.key] = None /\ stopping[gui.key] = None
  BY DEF IInv, JoinOK
<1> SUFFICES ASSUME NEW k \in Keys
             PROVE  sessions[k] # gui.thread /\ stopping[k] # gui.thread
  OBVIOUS
<1>3. MapIsLive(k)
  BY DEF IInv, MapsAreLive
<1>4. CASE k = gui.key
  BY <1>1, <1>2, <1>4
<1>5. CASE k # gui.key
  BY <1>1, <1>3, <1>5 DEF MapIsLive
<1> QED
  BY <1>4, <1>5

LEMMA EndJoinStep ==
    ASSUME IInv, EndJoin
    PROVE  IInv'
<1>1. gui.at = "join" /\ gui.thread \in Threads /\ UNCHANGED manager
      /\ worker' = [worker EXCEPT ![gui.thread] = NoWorker]
      /\ pendingStarts[gui.key] = None
  BY DEF EndJoin, Joined, IInv, JoinOK
<1>2. NoWorker \in Workers
  BY DEF NoWorker, Workers, WorkerStates, OrNone
<1>3. gui' \in GuiStates /\ gui'.at # "join"
  BY AfterJoinType DEF EndJoin
<1>4. TypeOK'
  <2>1. queue' \in Seq(Signals) /\ dialogs' \in Seq(OrNone(Threads))
    BY ClearedType DEF EndJoin, IInv
  <2>2. worker' \in [Threads -> Workers]
    BY <1>1, <1>2, Types
  <2> QED
    BY <1>1, <1>3, <2>1, <2>2, Types DEF TypeOK, manager
<1>5. \A t \in Threads : worker'[t] = IF t = gui.thread THEN NoWorker ELSE worker[t]
  BY <1>1, Types
<1>6. KeysKnown' /\ NoWorkerLost'
  BY <1>1, <1>5 DEF IInv, KeysKnown, NoWorkerLost, Alive, Joining, NoWorker, manager
<1>7. MapsAreLive'
  <2> SUFFICES ASSUME NEW j \in Keys PROVE MapIsLive(j)'
    BY DEF MapsAreLive
  <2>1. sessions[j] \in OrNone(Threads) /\ stopping[j] \in OrNone(Threads) /\ MapIsLive(j)
    BY Types DEF IInv, MapsAreLive
  <2>2. sessions[j] # gui.thread /\ stopping[j] # gui.thread
    BY <1>1, JoinedIsUnmapped
  <2> QED
    BY <1>1, <1>5, <2>1, <2>2 DEF MapIsLive, Alive, OrNone, manager
<1>8. PendingHasCarrier'
  BY <1>1, <1>3 DEF IInv, PendingHasCarrier, manager
<1> QED
  BY <1>3, <1>4, <1>6, <1>7, <1>8 DEF IInv, JoinOK

LEMMA EndJoinAndRestartStep ==
    ASSUME IInv, EndJoinAndRestart
    PROVE  IInv'
<1> DEFINE u == gui.thread
           k == gui.key
           n == NewWorker(k, pendingStarts[k], pendingConfigs[k])
<1>1. gui.at = "join" /\ u \in Threads /\ k \in Keys /\ pendingStarts[k] # None
      /\ sessions[k] = None /\ stopping[k] = None
  BY DEF EndJoinAndRestart, Joined, IInv, JoinOK
<1>2. PICK t \in Free \cup {u} :
        /\ worker' = [[worker EXCEPT ![u] = NoWorker] EXCEPT ![t] = n]
        /\ sessions' = [sessions EXCEPT ![k] = t]
  BY DEF EndJoinAndRestart
<1>3. t \in Threads /\ t # None
  BY <1>1, ManagerAssumption DEF Free
<1>4. n \in Workers /\ NoWorker \in Workers
  <2>1. pendingStarts[k] \in OrNone(Args) /\ pendingConfigs[k] \in OrNone(Configs)
    BY <1>1, Types
  <2> QED
    BY <1>1, <2>1 DEF NewWorker, NoWorker, Workers, WorkerStates, OrNone
<1>5. gui' \in GuiStates /\ gui'.at # "join"
  BY AfterJoinType DEF EndJoinAndRestart
<1>6. /\ UNCHANGED stopping
      /\ pendingStarts' = [pendingStarts EXCEPT ![k] = None]
      /\ pendingConfigs' = [pendingConfigs EXCEPT ![k] = None]
  BY DEF EndJoinAndRestart
<1> HIDE DEF n
<1>7. TypeOK'
  <2>1. queue' \in Seq(Signals) /\ dialogs' \in Seq(OrNone(Threads))
    BY ClearedType DEF EndJoinAndRestart, IInv
  <2>2. worker' \in [Threads -> Workers] /\ sessions' \in [Keys -> OrNone(Threads)]
    BY <1>2, <1>3, <1>4, Types DEF OrNone
  <2>3. pendingStarts' \in [Keys -> OrNone(Args)] /\ pendingConfigs' \in [Keys -> OrNone(Configs)]
    BY <1>6, Types DEF OrNone
  <2> QED
    BY <1>5, <1>6, <2>1, <2>2, <2>3, Types DEF TypeOK
<1>8. \A v \in Threads : worker'[v] = IF v = t THEN n ELSE IF v = u THEN NoWorker ELSE worker[v]
  BY <1>1, <1>2, <1>3, Types
<1>9. n.st # "free" /\ n.key = k /\ ~n.quit /\ NoWorker.st = "free"
  BY DEF n, NewWorker, NoWorker
<1>10. \A j \in Keys : sessions'[j] = IF j = k THEN t ELSE sessions[j]
  BY <1>1, <1>2, Types
<1>11. KeysKnown'
  BY <1>1, <1>8, <1>9 DEF IInv, KeysKnown, Alive
<1>12. NoWorkerLost'
  <2> SUFFICES ASSUME NEW v \in Threads, Alive(v)'
               PROVE  sessions'[worker'[v].key] = v \/ stopping'[worker'[v].key] = v
    BY DEF NoWorkerLost
  <2>1. CASE v = t
    BY <1>1, <1>8, <1>9, <1>10, <2>1
  <2>2. CASE v # t
    <3>1. v # u /\ worker'[v] = worker[v] /\ Alive(v)
      BY <1>8, <1>9, <2>2 DEF Alive
    <3>2. worker[v].key \in Keys
           /\ (sessions[worker[v].key] = v \/ stopping[worker[v].key] = v)
      BY <3>1 DEF IInv, KeysKnown, NoWorkerLost, Joining
    <3>3. v # None
      BY ManagerAssumption
    <3> QED
      BY <1>1, <1>6, <1>10, <3>1, <3>2, <3>3
  <2> QED
    BY <2>1, <2>2
<1>13. MapsAreLive'
  <2> SUFFICES ASSUME NEW j \in Keys PROVE MapIsLive(j)'
    BY DEF MapsAreLive
  <2>1. sessions[j] \in OrNone(Threads) /\ stopping[j] \in OrNone(Threads) /\ MapIsLive(j)
    BY Types DEF IInv, MapsAreLive
  <2>2. sessions[j] # u /\ stopping[j] # u
    BY <1>1, JoinedIsUnmapped
  <2>3. sessions[j] # t /\ stopping[j] # t
    BY <1>3, <2>1, <2>2 DEF MapIsLive, Free, Alive
  <2>4. CASE j = k
    BY <1>1, <1>3, <1>6, <1>8, <1>9, <1>10, <2>4 DEF MapIsLive, Alive
  <2>5. CASE j # k
    BY <1>6, <1>8, <1>10, <2>1, <2>2, <2>3, <2>5 DEF MapIsLive, Alive, OrNone
  <2> QED
    BY <2>4, <2>5
<1>14. PendingHasCarrier'
  <2> SUFFICES ASSUME NEW j \in Keys
               PROVE  /\ pendingStarts'[j] # None => stopping'[j] # None
                      /\ pendingConfigs'[j] # None => pendingStarts'[j] # None
    BY DEF PendingHasCarrier
  <2>1. /\ pendingStarts'[j] = IF j = k THEN None ELSE pendingStarts[j]
        /\ pendingConfigs'[j] = IF j = k THEN None ELSE pendingConfigs[j]
    BY <1>6, Types
  <2> QED
    BY <1>6, <2>1 DEF IInv, PendingHasCarrier
<1> QED
  BY <1>5, <1>7, <1>11, <1>12, <1>13, <1>14 DEF IInv, JoinOK

LEMMA WorkerStepStep ==
    ASSUME IInv, NEW t \in Threads, WorkerStep(t)
    PROVE  IInv'
<1>1. worker[t] \in Workers /\ queue \in Seq(Signals) /\ dialogs \in Seq(OrNone(Threads))
  BY Types
<1>2. CASE AskConfirmation(t)
  <2> DEFINE w == [worker[t] EXCEPT !.st = "emitted", !.confirmed = FALSE]
  <2>1. w \in Workers /\ worker' = [worker EXCEPT ![t] = w]
    BY <1>1, <1>2, Types DEF AskConfirmation, Workers, WorkerStates
  <2>2. /\ w.st # "free" /\ worker[t].st # "free" /\ w.key = worker[t].key
        /\ w.quit = worker[t].quit /\ w.running = worker[t].running
    BY <1>1, <1>2 DEF AskConfirmation, Workers
  <2>3. worker[t].key \in Keys
    BY <2>2 DEF IInv, KeysKnown, Alive
  <2>4. [type |-> "confirm", key |-> worker[t].key, thread |-> t] \in Signals
    BY <2>3 DEF Signals, OrNone
  <2>5. queue' \in Seq(Signals) /\ dialogs' = dialogs /\ UNCHANGED <<manager, gui>>
    BY <1>1, <1>2, <2>4, AppendProperties DEF AskConfirmation
  <2> HIDE DEF w
  <2> QED
    BY <1>1, <2>1, <2>2, <2>5, OneWorkerChanges
<1>3. CASE FinishThread(t)
  <2> DEFINE w == [worker[t] EXCEPT !.st = "finished"]
  <2>1. w \in Workers /\ worker' = [worker EXCEPT ![t] = w]
    BY <1>1, <1>3, Types DEF FinishThread, Workers, WorkerStates
  <2>2. /\ w.st # "free" /\ worker[t].st # "free" /\ w.key = worker[t].key
        /\ w.quit = worker[t].quit /\ w.running = worker[t].running
    BY <1>1, <1>3 DEF FinishThread, Workers
  <2>3. worker[t].key \in Keys
    BY <2>2 DEF IInv, KeysKnown, Alive
  <2>4. [type |-> "finished", key |-> worker[t].key, thread |-> t] \in Signals
    BY <2>3 DEF Signals, OrNone
  <2>5. queue' \in Seq(Signals) /\ dialogs' = dialogs /\ UNCHANGED <<manager, gui>>
    BY <1>1, <1>3, <2>4, AppendProperties DEF FinishThread
  <2> HIDE DEF w
  <2> QED
    BY <1>1, <2>1, <2>2, <2>5, OneWorkerChanges
<1>4. ASSUME NEW w \in Workers, SetWorker(t, w), w.st # "free", worker[t].st # "free",
             w.key = worker[t].key, w.quit = worker[t].quit, w.running => worker[t].running
      PROVE  IInv'
  BY <1>1, <1>4, OneWorkerChanges DEF SetWorker
<1>5. CASE WaitConfirmation(t)
  <2> DEFINE w == [worker[t] EXCEPT !.st = "waiting"]
  <2>1. w \in Workers /\ SetWorker(t, w) /\ w.st # "free" /\ worker[t].st # "free"
        /\ w.key = worker[t].key /\ w.quit = worker[t].quit /\ w.running = worker[t].running
    BY <1>1, <1>5 DEF WaitConfirmation, Workers, WorkerStates
  <2> HIDE DEF w
  <2> QED
    BY <1>4, <2>1
<1>6. CASE ResumeConfirmed(t)
  <2> DEFINE w == [worker[t] EXCEPT !.st = "poll", !.running = @ /\ worker[t].confirmed]
  <2>1. (worker[t].running /\ worker[t].confirmed) \in BOOLEAN
    OBVIOUS
  <2>2. w \in Workers
    BY <1>1, <2>1 DEF Workers, WorkerStates
  <2>3. SetWorker(t, w) /\ w.st # "free" /\ worker[t].st # "free"
        /\ w.key = worker[t].key /\ w.quit = worker[t].quit
        /\ (w.running => worker[t].running)
    BY <1>1, <1>6 DEF ResumeConfirmed, Workers
  <2> HIDE DEF w
  <2> QED
    BY <1>4, <2>2, <2>3
<1>7. CASE StopItself(t)
  <2> DEFINE w == StopWorker(worker[t])
  <2>1. w \in Workers /\ w.st # "free" /\ worker[t].st # "free"
        /\ w.key = worker[t].key /\ w.quit = worker[t].quit /\ ~w.running
    BY <1>1, <1>7 DEF StopItself, StopWorker, Workers, WorkerStates
  <2>2. SetWorker(t, w)
    BY <1>7 DEF StopItself
  <2> HIDE DEF w
  <2> QED
    BY <1>4, <2>1, <2>2
<1>8. CASE ReturnFromRun(t)
  <2> DEFINE w == [worker[t] EXCEPT !.st = "loop"]
  <2>1. w \in Workers /\ SetWorker(t, w) /\ w.st # "free" /\ worker[t].st # "free"
        /\ w.key = worker[t].key /\ w.quit = worker[t].quit /\ w.running = worker[t].running
    BY <1>1, <1>8 DEF ReturnFromRun, Workers, WorkerStates
  <2> HIDE DEF w
  <2> QED
    BY <1>4, <2>1
<1> QED
  BY <1>2, <1>3, <1>5, <1>6, <1>7, <1>8 DEF WorkerStep

-----------------------------------------------------------------------------
LEMMA StutterStep ==
    ASSUME IInv, UNCHANGED vars
    PROVE  IInv'
<1>1. TypeOK' /\ KeysKnown' /\ NoWorkerLost'
  BY DEF IInv, TypeOK, KeysKnown, NoWorkerLost, Alive, Joining, vars, manager
<1>2. MapsAreLive' /\ JoinOK' /\ PendingHasCarrier'
  BY DEF IInv, MapsAreLive, MapIsLive, JoinOK, PendingHasCarrier, Alive, vars, manager
<1> QED
  BY <1>1, <1>2 DEF IInv

LEMMA NextIInv == IInv /\ [Next]_vars => IInv'
<1> SUFFICES ASSUME IInv, [Next]_vars PROVE IInv'
  OBVIOUS
<1>1. CASE Command
  BY <1>1, StartSessionStep, PostponeStartStep, StopKeyStep, StopPluginStep,
     ConfigureStep, WaitStoppedStep, DestroyStep DEF Command
<1>2. CASE GuiStep
  BY <1>2, DeliverFinishedStep, DeliverConfirmStep, AnswerDialogStep, WaitNextStep,
     WaitEndStep, EndJoinStep, EndJoinAndRestartStep DEF GuiStep
<1>3. CASE \E t \in Threads : WorkerStep(t)
  BY <1>3, WorkerStepStep
<1>4. CASE Unloaded \/ UNCHANGED vars
  BY <1>4, StutterStep DEF Unloaded
<1> QED
  BY <1>1, <1>2, <1>3, <1>4 DEF Next

(* The inductive invariant holds in every reachable state. *)
THEOREM Invariance == Spec => []IInv
<1> QED
  BY InitIInv, NextIInv, PTL DEF Spec

(* The manager's variables keep their types, for any number of keys. *)
THEOREM TypeCorrect == Spec => []TypeOK
<1>1. IInv => TypeOK
  BY DEF IInv
<1> QED
  BY <1>1, Invariance, PTL

(* No key is ever served by two workers: start, stop and the restart at the *)
(* end of a stop leave one owner for every thread, and one thread per key.  *)
THEOREM OneWorker == Spec => []OneWorkerPerKey
<1>1. IInv => OneWorkerPerKey
  <2> SUFFICES ASSUME IInv, NEW t \in Threads, NEW u \in Threads,
                      Alive(t), Alive(u), worker[t].key = worker[u].key
               PROVE  t = u
    BY DEF OneWorkerPerKey
  <2> DEFINE k == worker[t].key
  <2>1. k \in Keys /\ t # None /\ u # None
    BY ManagerAssumption DEF IInv, KeysKnown
  <2>2. sessions[k] = None \/ stopping[k] = None
    BY <2>1 DEF IInv, MapsAreLive, MapIsLive
  <2>3. \A v \in {t, u} : sessions[k] = v \/ stopping[k] = v \/ Joining(v)
    BY DEF IInv, NoWorkerLost
  <2>4. \A v \in {t, u} : Joining(v) => sessions[k] = None /\ stopping[k] = None
    BY DEF IInv, JoinOK, Joining
  <2> QED
    BY <2>1, <2>2, <2>3, <2>4 DEF Joining
<1> QED
  BY <1>1, Invariance, PTL

(* The maps hold only live workers, each in the right map, every worker is  *)
(* held, and a postponed start always has the shutdown it waits for.        *)
THEOREM Accounted == Spec => []WorkersAccounted
<1>1. IInv => WorkersAccounted
  BY DEF IInv, WorkersAccounted
<1> QED
  BY <1>1, Invariance, PTL
-----------------------------------------------------------------------------
(***************************************************************************)
(* The destructor.  While it waits, nothing is live or postponed, and what *)
(* still stops is among the keys it has yet to join; so when it returns    *)
(* the maps are empty, and a worker would be in none of them.              *)
(***************************************************************************)
DestructorWaits ==
    /\ gui.at = "loop" => gui.caller = "event"
    /\ gui.caller = "destructor" => \A k \in Keys :
        /\ sessions[k] = None
        /\ pendingStarts[k] = None
        /\ stopping[k] # None => k \in gui.rest
    /\ gui.at = "destroyed" => \A k \in Keys : sessions[k] = None /\ stopping[k] = None

(* Commands run in the event loop, where no destructor waits. *)
LEMMA CommandAndDestructor ==
    ASSUME IInv, DestructorWaits, Command
    PROVE  DestructorWaits'
<1>1. gui.at = "loop" /\ gui.caller = "event"
  BY DEF DestructorWaits, Command, StartSession, PostponeStart, StopKey, StopPlugin, Configure,
         WaitStopped, Destroy
<1>2. CASE Destroy
  <2> DEFINE R == {k \in Keys : stopping'[k] # None}
  <2>1. gui' = [gui EXCEPT !.at = "waitall", !.caller = "destructor", !.rest = R]
    BY <1>2 DEF Destroy
  <2>2. gui'.at = "waitall" /\ gui'.rest = R
    BY <2>1, Types DEF GuiStates
  <2>3. \A k \in Keys : sessions'[k] = None /\ pendingStarts'[k] = None
    BY <1>2 DEF Destroy, BeginStop, Without
  <2> QED
    BY <2>2, <2>3 DEF DestructorWaits
<1>3. CASE WaitStopped
  <2>1. gui'.at = "waitall" /\ gui'.caller = "waitStopped"
    BY <1>3, Types DEF WaitStopped, GuiStates
  <2> QED
    BY <2>1 DEF DestructorWaits
<1>4. CASE ~Destroy /\ ~WaitStopped
  <2>1. UNCHANGED gui
    BY <1>4 DEF Command, StartSession, PostponeStart, StopKey, StopPlugin, Configure
  <2> QED
    BY <1>1, <2>1 DEF DestructorWaits
<1> QED
  BY <1>2, <1>3, <1>4

(* A join takes one key out of the maps and out of the rest. *)
LEMMA BeginJoinAndDestructor ==
    ASSUME IInv, DestructorWaits, NEW k \in Keys, BeginJoin(k),
           gui.at \in {"loop", "waitall"}, UNCHANGED <<sessions, pendingStarts>>
    PROVE  DestructorWaits'
<1>1. /\ gui'.at = "join" /\ gui'.caller = gui.caller
      /\ gui'.rest = gui.rest \ {k}
  BY Types DEF BeginJoin, GuiStates
<1>2. \A j \in Keys : stopping'[j] = IF j = k THEN None ELSE stopping[j]
  BY Types DEF BeginJoin
<1> QED
  BY <1>1, <1>2 DEF DestructorWaits

(* The GUI thread's own steps: the last key joined, the maps are empty. *)
LEMMA GuiStepAndDestructor ==
    ASSUME IInv, DestructorWaits, GuiStep
    PROVE  DestructorWaits'
<1>1. CASE DeliverFinished
  <2>1. Head(queue) \in Signals
    BY <1>1, Types, HeadTailProperties DEF DeliverFinished
  <2>2. CASE stopping[Head(queue).key] = Head(queue).thread
    BY <1>1, <2>1, <2>2, BeginJoinAndDestructor DEF DeliverFinished, Signals
  <2>3. CASE stopping[Head(queue).key] # Head(queue).thread
    BY <1>1, <2>3 DEF DeliverFinished, DestructorWaits
  <2> QED
    BY <2>2, <2>3
<1>2. CASE DeliverConfirm \/ \E answer \in BOOLEAN : AnswerDialog(answer)
  BY <1>2 DEF DeliverConfirm, AnswerDialog, manager, DestructorWaits
<1>3. CASE \E k \in Keys : WaitNext(k)
  BY <1>3, BeginJoinAndDestructor DEF WaitNext
<1>4. CASE WaitEnd
  <2>1. \/ gui.caller = "destructor" /\ gui'.at = "destroyed" /\ gui'.caller = "event"
        \/ gui'.at = "loop" /\ gui'.caller = "event"
    BY <1>4 DEF WaitEnd, Looping
  <2>2. gui.caller = "destructor" => \A k \in Keys : sessions[k] = None /\ stopping[k] = None
    BY <1>4 DEF WaitEnd, DestructorWaits
  <2> QED
    BY <1>4, <2>1, <2>2 DEF WaitEnd, manager, DestructorWaits
<1>5. CASE EndJoin \/ EndJoinAndRestart
  <2>1. /\ gui'.at \in {"loop", "waitall"}
        /\ gui'.caller = gui.caller
        /\ gui'.at = "loop" => gui.caller = "event"
        /\ gui.caller # "event" => gui'.rest = gui.rest
    <3>1. gui' = AfterJoin
      BY <1>5 DEF EndJoin, EndJoinAndRestart
    <3>2. CASE gui.caller = "event"
      BY <3>1, <3>2 DEF AfterJoin, Looping
    <3>3. CASE gui.caller # "event"
      BY <3>1, <3>3, Types DEF AfterJoin, GuiStates
    <3> QED
      BY <3>2, <3>3
  <2>2. gui.caller = "destructor" => UNCHANGED manager
    BY <1>5 DEF EndJoin, EndJoinAndRestart, Joined, IInv, JoinOK, DestructorWaits
  <2> QED
    BY <2>1, <2>2 DEF DestructorWaits, manager
<1> QED
  BY <1>1, <1>2, <1>3, <1>4, <1>5 DEF GuiStep

LEMMA NextAndDestructor == IInv /\ DestructorWaits /\ [Next]_vars => DestructorWaits'
<1>1. ASSUME DestructorWaits, NEW t \in Threads, WorkerStep(t) PROVE DestructorWaits'
  BY <1>1 DEF WorkerStep, AskConfirmation, WaitConfirmation, ResumeConfirmed, StopItself,
              ReturnFromRun, FinishThread, SetWorker, manager, DestructorWaits
<1>2. ASSUME DestructorWaits, UNCHANGED vars PROVE DestructorWaits'
  BY <1>2 DEF vars, manager, DestructorWaits
<1> QED
  BY <1>1, <1>2, CommandAndDestructor, GuiStepAndDestructor DEF Next, Unloaded

(* When the destructor has returned no worker thread is left to call into   *)
(* the plugin: its stops and joins cover the sessions that nested dialogs,  *)
(* postponed starts and earlier stops left behind.                          *)
THEOREM QuietAfterDestructor == Spec => []UnloadedIsQuiet
<1>1. Init => DestructorWaits
  BY DEF Init, Looping, DestructorWaits
<1>2. Spec => []DestructorWaits
  BY <1>1, NextAndDestructor, Invariance, PTL DEF Spec
<1>3. IInv /\ DestructorWaits => UnloadedIsQuiet
  <2> SUFFICES ASSUME IInv, DestructorWaits, gui.at = "destroyed", NEW t \in Threads, Alive(t)
               PROVE  FALSE
    BY DEF UnloadedIsQuiet
  <2>1. worker[t].key \in Keys /\ t # None
    BY ManagerAssumption DEF IInv, KeysKnown
  <2> QED
    BY <2>1 DEF IInv, NoWorkerLost, DestructorWaits, Joining
<1> QED
  BY <1>2, <1>3, Invariance, PTL
-----------------------------------------------------------------------------
(***************************************************************************)
(* Confirmations.  A worker has one open question at most, in the queue or *)
(* in a dialog, and while it runs it asks no other: it is about to wait or *)
(* waits for this one.  AnswerReachesAsker in terms of positions.          *)
(***************************************************************************)
Asks(i, t) == queue[i].type = "confirm" /\ queue[i].thread = t

OneQuestion(t) ==
    /\ \A i, j \in DOMAIN queue : Asks(i, t) /\ Asks(j, t) => i = j
    /\ \A i, j \in DOMAIN dialogs : dialogs[i] = t /\ dialogs[j] = t => i = j
    /\ \A i \in DOMAIN queue, j \in DOMAIN dialogs : ~(Asks(i, t) /\ dialogs[j] = t)

Open(t) == (\E i \in DOMAIN queue : Asks(i, t)) \/ (\E j \in DOMAIN dialogs : dialogs[j] = t)

Waits(t) == Alive(t) /\ (worker[t].running => worker[t].st \in {"emitted", "waiting"})

Asked(t) == OneQuestion(t) /\ (Open(t) => Waits(t))

QInv == \A t \in Threads : Asked(t)

(* A step that moves no question keeps the invariant if the workers asking  *)
(* keep waiting.                                                            *)
LEMMA NoQuestionMoves ==
    ASSUME QInv, UNCHANGED <<queue, dialogs>>,
           \A t \in Threads : Open(t) /\ Waits(t) => Waits(t)'
    PROVE  QInv'
BY DEF QInv, Asked, OneQuestion, Open, Asks

(* The head of the queue is taken off. *)
LEMMA QueueTail ==
    ASSUME TypeOK, queue # <<>>, queue' = Tail(queue)
    PROVE  /\ Len(queue) \in Nat \ {0} /\ DOMAIN queue' = 1 .. Len(queue) - 1
           /\ \A i \in DOMAIN queue' : i + 1 \in DOMAIN queue /\ queue'[i] = queue[i + 1]
           /\ Head(queue) = queue[1] /\ 1 \in DOMAIN queue
           /\ Head(queue) \in Signals
<1>1. queue \in Seq(Signals)
  BY DEF TypeOK
<1>2. Len(queue) \in Nat /\ DOMAIN queue = 1 .. Len(queue) /\ Len(queue) # 0
  BY <1>1, LenProperties, EmptySeq
<1>3. /\ Tail(queue) \in Seq(Signals) /\ Len(Tail(queue)) = Len(queue) - 1
      /\ \A i \in 1 .. Len(Tail(queue)) : Tail(queue)[i] = queue[i + 1]
      /\ Head(queue) \in Signals
  BY <1>1, HeadTailProperties
<1>4. DOMAIN Tail(queue) = 1 .. Len(queue) - 1
  BY <1>3, LenProperties
<1>5. Head(queue) = queue[1]
  BY <1>1
<1> QED
  BY <1>2, <1>3, <1>4, <1>5

LEMMA CommandAndQuestions ==
    ASSUME IInv, QInv, Command
    PROVE  QInv'
<1>1. UNCHANGED <<queue, dialogs>>
  BY DEF Command, StartSession, PostponeStart, StopKey, StopPlugin, Configure, WaitStopped, Destroy
<1>2. ASSUME NEW t \in Threads, Open(t), Waits(t) PROVE Waits(t)'
  <2>1. worker[t] \in Workers
    BY Types
  <2>2. CASE \E k \in Keys, a \in Args : StartSession(k, a)
    BY <1>2, <2>1, <2>2, Types DEF StartSession, Free, Waits, Alive
  <2>3. CASE UNCHANGED worker
    BY <1>2, <2>3 DEF Waits, Alive
  <2>4. ASSUME NEW S, BeginStop(S) PROVE Waits(t)'
    <3>1. worker'[t] = worker[t] \/ worker'[t] = Quitting(worker[t])
      BY <2>4 DEF BeginStop
    <3> QED
      BY <1>2, <2>1, <3>1 DEF Quitting, StopWorker, Waits, Alive, Workers
  <2>5. CASE \E p \in Plugins, c \in Configs : Configure(p, c)
    BY <1>2, <2>1, <2>5 DEF Configure, Waits, Alive, Workers
  <2> QED
    BY <2>2, <2>3, <2>4, <2>5 DEF Command, PostponeStart, StopKey, StopPlugin, WaitStopped, Destroy
<1> QED
  BY <1>1, <1>2, NoQuestionMoves

(* A finished signal is no question; a confirmation becomes a dialog. *)
LEMMA DeliveryAndQuestions ==
    ASSUME IInv, QInv, DeliverFinished \/ DeliverConfirm
    PROVE  QInv'
<1>1. queue # <<>> /\ queue' = Tail(queue) /\ UNCHANGED worker
  BY DEF DeliverFinished, DeliverConfirm, manager
<1>2. /\ Len(queue) \in Nat \ {0} /\ DOMAIN queue' = 1 .. Len(queue) - 1
      /\ \A i \in DOMAIN queue' : i + 1 \in DOMAIN queue /\ queue'[i] = queue[i + 1]
      /\ Head(queue) = queue[1] /\ 1 \in DOMAIN queue
      /\ Head(queue) \in Signals
  BY <1>1, QueueTail DEF IInv
<1>3. SUFFICES ASSUME NEW t \in Threads PROVE Asked(t)'
  BY DEF QInv
<1>4. \A i \in DOMAIN queue' : Asks(i, t)' => i + 1 \in DOMAIN queue /\ Asks(i + 1, t)
  BY <1>2 DEF Asks
<1>5. \A i, j \in DOMAIN queue' : Asks(i, t)' /\ Asks(j, t)' => i = j
  <2>1. SUFFICES ASSUME NEW i \in DOMAIN queue', NEW j \in DOMAIN queue', Asks(i, t)', Asks(j, t)'
                 PROVE  i = j
    OBVIOUS
  <2>2. i + 1 = j + 1
    BY <1>4, <2>1 DEF QInv, Asked, OneQuestion
  <2> QED
    BY <1>2, <2>2
<1>6. CASE DeliverFinished
  <2>1. UNCHANGED dialogs
    BY <1>6 DEF DeliverFinished
  <2> QED
    BY <1>1, <1>4, <1>5, <2>1 DEF QInv, Asked, OneQuestion, Open, Waits, Alive
<1>7. CASE DeliverConfirm
  <2>1. /\ Len(dialogs) \in Nat /\ DOMAIN dialogs = 1 .. Len(dialogs)
        /\ DOMAIN dialogs' = 1 .. Len(dialogs) + 1
        /\ \A i \in DOMAIN dialogs : dialogs'[i] = dialogs[i]
        /\ dialogs'[Len(dialogs) + 1] = queue[1].thread
    <3>1. dialogs \in Seq(OrNone(Threads)) /\ queue[1].thread \in OrNone(Threads)
      BY <1>2, Types DEF Signals
    <3>2. dialogs' = Append(dialogs, queue[1].thread)
      BY <1>2, <1>7 DEF DeliverConfirm
    <3> QED
      BY <3>1, <3>2, LenProperties, AppendProperties
  <2>2. queue[1].type = "confirm"
    BY <1>2, <1>7 DEF DeliverConfirm
  <2>3. \A j \in DOMAIN dialogs' : dialogs'[j] = t =>
            \/ j \in DOMAIN dialogs /\ dialogs[j] = t
            \/ j = Len(dialogs) + 1 /\ Asks(1, t)
    BY <2>1, <2>2 DEF Asks
  <2>4. Asks(1, t) => /\ \A j \in DOMAIN dialogs : dialogs[j] # t
                      /\ \A i \in DOMAIN queue' : ~Asks(i, t)'
    <3>1. SUFFICES ASSUME Asks(1, t) PROVE /\ \A j \in DOMAIN dialogs : dialogs[j] # t
                                           /\ \A i \in DOMAIN queue' : ~Asks(i, t)'
      OBVIOUS
    <3>2. \A j \in DOMAIN dialogs : dialogs[j] # t
      BY <1>2, <3>1 DEF QInv, Asked, OneQuestion
    <3>3. \A i \in DOMAIN queue' : i + 1 # 1
      BY <1>2
    <3> QED
      BY <1>2, <1>4, <3>1, <3>2, <3>3 DEF QInv, Asked, OneQuestion
  <2>5. OneQuestion(t)'
    BY <1>4, <1>5, <2>3, <2>4 DEF QInv, Asked, OneQuestion
  <2>6. Open(t)' => Open(t)
    BY <1>2, <1>4, <2>3 DEF Open
  <2> QED
    BY <1>1, <2>5, <2>6 DEF QInv, Asked, Waits, Alive
<1> QED
  BY <1>6, <1>7

(* An answer takes the innermost dialog's question away. *)
LEMMA AnswerAndQuestions ==
    ASSUME IInv, QInv, NEW answer \in BOOLEAN, AnswerDialog(answer)
    PROVE  QInv'
<1> DEFINE n == Len(dialogs)
<1>1. n \in Nat \ {0} /\ DOMAIN dialogs = 1 .. n
  BY Types, LenProperties, EmptySeq DEF AnswerDialog
<1>2. DOMAIN dialogs' = 1 .. n - 1 /\ \A j \in 1 .. n - 1 : dialogs'[j] = dialogs[j]
  <2>1. \A j \in 1 .. n - 1 : dialogs[j] \in OrNone(Threads)
    BY <1>1, Types, ElementOfSeq
  <2>2. dialogs' = SubSeq(dialogs, 1, n - 1)
    BY DEF AnswerDialog
  <2> QED
    BY <1>1, <2>1, <2>2, Types, SubSeqProperties
<1>3. UNCHANGED queue
  BY DEF AnswerDialog
<1>4. \A t \in Threads : t # dialogs[n] => worker'[t] = worker[t]
  BY Types DEF AnswerDialog
<1>5. SUFFICES ASSUME NEW t \in Threads PROVE Asked(t)'
  BY DEF QInv
<1>6. OneQuestion(t)' /\ (Open(t)' => Open(t))
  BY <1>1, <1>2, <1>3 DEF QInv, Asked, OneQuestion, Open, Asks
<1>7. CASE t = dialogs[n]
  <2>1. ~Open(t)'
    BY <1>1, <1>2, <1>3, <1>7 DEF QInv, Asked, OneQuestion, Open, Asks
  <2> QED
    BY <1>6, <2>1 DEF Asked
<1>8. CASE t # dialogs[n]
  BY <1>4, <1>6, <1>8 DEF QInv, Asked, Waits, Alive
<1> QED
  BY <1>7, <1>8

(* A deleted worker's questions are cleared before its address is used      *)
(* again, and a new worker has none.                                        *)
LEMMA DeletionAndQuestions ==
    ASSUME IInv, QInv, EndJoin \/ EndJoinAndRestart
    PROVE  QInv'
<1> DEFINE u == gui.thread
<1>1. queue' = ClearedQueue(u) /\ dialogs' = ClearedDialogs(u) /\ u # None /\ u \in Threads
  BY ManagerAssumption DEF EndJoin, EndJoinAndRestart, Joined, IInv, JoinOK
<1>2. DOMAIN queue' = DOMAIN queue /\ DOMAIN dialogs' = DOMAIN dialogs
  BY <1>1 DEF ClearedQueue, ClearedDialogs
<1>3. \A i \in DOMAIN queue : queue[i] \in Signals
  BY Types, ElementOfSeq, LenProperties
<1>4. SUFFICES ASSUME NEW t \in Threads PROVE Asked(t)'
  BY DEF QInv
<1>5. t # None
  BY ManagerAssumption
<1>6. \A i \in DOMAIN queue : Asks(i, t)' => Asks(i, t) /\ t # u
  BY <1>1, <1>3, <1>5 DEF ClearedQueue, Asks, Signals
<1>7. \A j \in DOMAIN dialogs : dialogs'[j] = t => dialogs[j] = t /\ t # u
  BY <1>1, <1>5 DEF ClearedDialogs
<1>8. OneQuestion(t)' /\ (Open(t)' => Open(t) /\ t # u)
  BY <1>2, <1>6, <1>7 DEF QInv, Asked, OneQuestion, Open
<1>9. t # u /\ Alive(t) => worker'[t] = worker[t]
  BY <1>1, Types DEF EndJoin, EndJoinAndRestart, Free, Alive
<1> QED
  BY <1>8, <1>9 DEF QInv, Asked, Waits, Alive

(* A worker asks when it has no question open. *)
LEMMA AskAndQuestions ==
    ASSUME IInv, QInv, NEW t \in Threads, AskConfirmation(t)
    PROVE  QInv'
<1> DEFINE s == [type |-> "confirm", key |-> worker[t].key, thread |-> t]
           n == Len(queue)
<1>1. worker[t] \in Workers /\ worker[t].st = "poll" /\ worker[t].running
  BY Types DEF AskConfirmation
<1>2. ~Open(t)
  BY <1>1 DEF QInv, Asked, Waits
<1>3. /\ n \in Nat /\ DOMAIN queue = 1 .. n
      /\ DOMAIN queue' = 1 .. n + 1
      /\ \A i \in DOMAIN queue : queue'[i] = queue[i]
      /\ queue'[n + 1] = s
  <2>1. s \in Signals
    BY <1>1 DEF Signals, OrNone, IInv, KeysKnown, Alive
  <2>2. queue' = Append(queue, s) /\ queue \in Seq(Signals)
    BY Types DEF AskConfirmation
  <2> HIDE DEF s
  <2> QED
    BY <2>1, <2>2, LenProperties, AppendProperties
<1>4. UNCHANGED dialogs /\ \A u \in Threads \ {t} : worker'[u] = worker[u]
  BY Types DEF AskConfirmation
<1>5. Waits(t)'
  BY <1>1, Types DEF AskConfirmation, Waits, Alive, Workers
<1>6. \A u \in Threads, i \in DOMAIN queue' :
          Asks(i, u)' => \/ i \in DOMAIN queue /\ Asks(i, u)
                         \/ i = n + 1 /\ u = t
  BY <1>3 DEF Asks
<1>7. ASSUME NEW u \in Threads PROVE Asked(u)'
  <2>1. CASE u = t
    <3>1. OneQuestion(t)'
      BY <1>2, <1>3, <1>4, <1>6 DEF OneQuestion, Open
    <3> QED
      BY <1>5, <2>1, <3>1 DEF Asked
  <2>2. CASE u # t
    <3>1. OneQuestion(u)' /\ (Open(u)' => Open(u))
      BY <1>4, <1>6, <2>2 DEF QInv, Asked, OneQuestion, Open
    <3> QED
      BY <1>4, <2>2, <3>1 DEF QInv, Asked, Waits, Alive
  <2> QED
    BY <2>1, <2>2
<1> QED
  BY <1>7 DEF QInv

(* The other steps of a worker: while it runs and a question of its is open *)
(* it can only begin to wait.                                               *)
LEMMA WorkerAndQuestions ==
    ASSUME IInv, QInv, NEW t \in Threads, WorkerStep(t)
    PROVE  QInv'
<1>1. worker[t] \in Workers
  BY Types
<1>2. CASE AskConfirmation(t)
  BY <1>2, AskAndQuestions
<1>3. CASE FinishThread(t)
  <2> DEFINE s == [type |-> "finished", key |-> worker[t].key, thread |-> t]
             n == Len(queue)
  <2>1. /\ n \in Nat /\ DOMAIN queue = 1 .. n
        /\ DOMAIN queue' = 1 .. n + 1
        /\ \A i \in DOMAIN queue : queue'[i] = queue[i]
        /\ queue'[n + 1] = s
    <3>1. s \in Signals
      BY <1>1, <1>3 DEF FinishThread, Signals, OrNone, IInv, KeysKnown, Alive
    <3>2. queue' = Append(queue, s) /\ queue \in Seq(Signals)
      BY <1>3, Types DEF FinishThread
    <3> HIDE DEF s
    <3> QED
      BY <3>1, <3>2, LenProperties, AppendProperties
  <2>2. UNCHANGED dialogs /\ \A u \in Threads \ {t} : worker'[u] = worker[u]
    BY <1>3, Types DEF FinishThread
  <2>3. Waits(t) => Waits(t)'
    BY <1>1, <1>3, Types DEF FinishThread, Waits, Alive, Workers
  <2>4. \A u \in Threads, i \in DOMAIN queue' : Asks(i, u)' => i \in DOMAIN queue /\ Asks(i, u)
    BY <2>1 DEF Asks
  <2>5. \A u \in Threads : OneQuestion(u)' /\ (Open(u)' => Open(u))
    BY <2>2, <2>4 DEF QInv, Asked, OneQuestion, Open
  <2> QED
    BY <2>2, <2>3, <2>5 DEF QInv, Asked, Waits, Alive
<1>4. CASE WaitConfirmation(t) \/ ResumeConfirmed(t) \/ StopItself(t) \/ ReturnFromRun(t)
  <2>1. UNCHANGED <<queue, dialogs>> /\ \A u \in Threads \ {t} : worker'[u] = worker[u]
    BY <1>4, Types DEF WaitConfirmation, ResumeConfirmed, StopItself, ReturnFromRun, SetWorker
  <2>2. Waits(t) => Waits(t)'
    <3>1. CASE WaitConfirmation(t)
      BY <1>1, <3>1, Types DEF WaitConfirmation, SetWorker, Waits, Alive, Workers
    <3>2. CASE ResumeConfirmed(t)
      <4>1. worker'[t] = [worker[t] EXCEPT !.st = "poll", !.running = @ /\ worker[t].confirmed]
        BY <3>2, Types DEF ResumeConfirmed, SetWorker
      <4>2. worker'[t].st = "poll" /\ (worker'[t].running => worker[t].running)
        BY <1>1, <4>1 DEF Workers
      <4> QED
        BY <3>2, <4>2 DEF ResumeConfirmed, Waits, Alive
    <3>3. CASE StopItself(t)
      BY <1>1, <3>3, Types DEF StopItself, StopWorker, SetWorker, Waits, Alive, Workers
    <3>4. CASE ReturnFromRun(t)
      BY <1>1, <3>4, Types DEF ReturnFromRun, SetWorker, Waits, Alive, Workers
    <3> QED
      BY <1>4, <3>1, <3>2, <3>3, <3>4
  <2> QED
    BY <2>1, <2>2, NoQuestionMoves DEF Waits, Alive
<1> QED
  BY <1>2, <1>3, <1>4 DEF WorkerStep

LEMMA NextAndQuestions == IInv /\ QInv /\ [Next]_vars => QInv'
<1>1. ASSUME IInv, QInv, GuiStep PROVE QInv'
  <2>1. CASE (\E k \in Keys : WaitNext(k)) \/ WaitEnd
    <3>1. UNCHANGED <<queue, dialogs, worker>>
      BY <2>1 DEF WaitNext, WaitEnd
    <3> QED
      BY <1>1, <3>1, NoQuestionMoves DEF Waits, Alive
  <2> QED
    BY <1>1, <2>1, DeliveryAndQuestions, AnswerAndQuestions, DeletionAndQuestions DEF GuiStep
<1>2. ASSUME QInv, UNCHANGED vars PROVE QInv'
  BY <1>2, NoQuestionMoves DEF vars, Waits, Alive
<1> QED
  BY <1>1, <1>2, CommandAndQuestions, WorkerAndQuestions DEF Next, Unloaded

(* An answer reaches the worker that asked and no other: a worker has one   *)
(* question open at most, and it is the worker that asked it, not one       *)
(* created at its address since (onProcessFound, the QPointer of the        *)
(* request and of the dialog, onConfirmationResult).                        *)
THEOREM AnswersReachAskers == Spec => []AnswerReachesAsker
<1>1. Init => QInv
  BY DEF Init, QInv, Asked, OneQuestion, Open
<1>2. Spec => []QInv
  BY <1>1, NextAndQuestions, Invariance, PTL DEF Spec
<1>3. IInv /\ QInv => AnswerReachesAsker
  <2> SUFFICES ASSUME QInv, NEW t \in Threads, NEW x \in Questions(t), NEW y \in Questions(t)
               PROVE  x = y /\ Waits(t)
    BY DEF AnswerReachesAsker, Waits
  <2>1. ASSUME NEW z \in Questions(t)
        PROVE  \/ \E i \in DOMAIN queue : z = <<"queue", i>> /\ Asks(i, t)
               \/ \E j \in DOMAIN dialogs : z = <<"dialog", j>> /\ dialogs[j] = t
    BY <2>1 DEF Questions, Asks
  <2>2. Open(t)
    BY <2>1 DEF Open
  <2> QED
    BY <2>1, <2>2 DEF QInv, Asked, OneQuestion
<1> QED
  BY <1>2, <1>3, Invariance, PTL
-----------------------------------------------------------------------------
(* The session manager implements SessionLifecycle: every step of the      *)
(* manager or of a worker thread is a step of the life cycle or leaves it  *)
(* as it is.                                                               *)

Unchanged == UNCHANGED <<phaseBar, servingBar, pendingStarts>>

LEMMA InitRefines == Init => Lifecycle!Init
<1> SUFFICES ASSUME Init PROVE Lifecycle!Init
  OBVIOUS
<1>1. phaseBar = [k \in Keys |-> "absent"]
  BY DEF Init, phaseBar, Looping
<1>2. servingBar = [k \in Keys |-> None]
  BY DEF Init, servingBar
<1> QED
  BY <1>1, <1>2 DEF Init, Lifecycle!Init

(* A step that keeps the sessions, the workers' arguments and the postponed *)
(* starts, and the keys that are stopping or joined, is invisible.          *)
LEMMA Invisible ==
    ASSUME IInv, UNCHANGED <<sessions, pendingStarts>>,
           \A t \in Threads : worker'[t].args = worker[t].args,
           \A k \in Keys : (stopping'[k] # None \/ (gui'.at = "join" /\ gui'.key = k))
                           <=> (stopping[k] # None \/ (gui.at = "join" /\ gui.key = k))
    PROVE  Unchanged
<1>1. phaseBar' = phaseBar
  BY DEF phaseBar
<1>2. \A k \in Keys : sessions[k] # None => sessions[k] \in Threads
  BY Types DEF OrNone
<1>3. servingBar' = servingBar
  BY <1>2 DEF servingBar
<1> QED
  BY <1>1, <1>3 DEF Unchanged

LEMMA StartRefines ==
    ASSUME IInv, NEW k \in Keys, NEW a \in Args, StartSession(k, a)
    PROVE  Lifecycle!Open(k, a)
<1>1. PICK t \in Free : /\ sessions' = [sessions EXCEPT ![k] = t]
                        /\ worker' = [worker EXCEPT ![t] = NewWorker(k, a, None)]
  BY DEF StartSession
<1>2. t \in Threads /\ ~Alive(t) /\ t # None
  BY ManagerAssumption DEF Free, Alive
<1>3. gui.at = "loop" /\ sessions[k] = None /\ stopping[k] = None
      /\ UNCHANGED <<stopping, pendingStarts, gui>>
  BY DEF StartSession
<1>4. \A j \in Keys : sessions'[j] = IF j = k THEN t ELSE sessions[j]
  BY <1>1, Types
<1>5. \A j \in Keys : sessions[j] # t
  BY <1>2 DEF IInv, MapsAreLive, MapIsLive
<1>6. \A j \in Keys : j # k /\ sessions[j] # None => worker'[sessions[j]] = worker[sessions[j]]
  BY <1>1, <1>5, Types DEF OrNone
<1>7. worker'[t].args = a
  BY <1>1, <1>2, Types DEF NewWorker
<1>8. phaseBar[k] = "absent"
  BY <1>3 DEF phaseBar
<1>9. phaseBar' = [phaseBar EXCEPT ![k] = "active"]
  BY <1>2, <1>3, <1>4 DEF phaseBar
<1>10. servingBar' = [servingBar EXCEPT ![k] = a]
  BY <1>2, <1>4, <1>6, <1>7 DEF servingBar
<1> QED
  BY <1>3, <1>8, <1>9, <1>10 DEF Lifecycle!Open

LEMMA PostponeRefines ==
    ASSUME IInv, NEW k \in Keys, NEW a \in Args, PostponeStart(k, a)
    PROVE  Lifecycle!Request(k, a)
<1>1. phaseBar[k] = "closing"
  BY DEF phaseBar, PostponeStart
<1>2. phaseBar' = phaseBar /\ servingBar' = servingBar
  BY DEF phaseBar, servingBar, PostponeStart
<1> QED
  BY <1>1, <1>2 DEF Lifecycle!Request, PostponeStart

LEMMA BeginStopRefines ==
    ASSUME IInv, NEW S \in SUBSET Keys, BeginStop(S), gui.at = "loop", gui'.at # "join"
    PROVE  Lifecycle!Close(S)
<1>1. \A k \in Keys : /\ sessions'[k] = IF k \in S THEN None ELSE sessions[k]
                      /\ stopping'[k] = IF k \in S /\ sessions[k] # None
                                        THEN sessions[k] ELSE stopping[k]
  BY DEF BeginStop, Without, Retired
<1>2. phaseBar' = [k \in Keys |-> IF k \in S /\ phaseBar[k] = "active"
                                  THEN "closing" ELSE phaseBar[k]]
  BY <1>1 DEF phaseBar
<1>3. \A t \in Threads : worker'[t].args = worker[t].args
  BY Types DEF BeginStop, Quitting, StopWorker, Workers
<1>4. servingBar' = [k \in Keys |-> IF k \in S THEN None ELSE servingBar[k]]
  BY <1>1, <1>3, Types DEF servingBar, OrNone
<1> QED
  BY <1>2, <1>4 DEF Lifecycle!Close, BeginStop, Without

LEMMA EndJoinRefines ==
    ASSUME IInv, EndJoin
    PROVE  Lifecycle!Closed(gui.key)
<1>1. /\ gui.at = "join" /\ gui.key \in Keys /\ gui.thread \in Threads
      /\ sessions[gui.key] = None /\ stopping[gui.key] = None
      /\ pendingStarts[gui.key] = None
      /\ worker' = [worker EXCEPT ![gui.thread] = NoWorker]
      /\ UNCHANGED <<sessions, stopping, pendingStarts>>
      /\ gui'.at # "join"
  BY AfterJoinType DEF EndJoin, Joined, IInv, JoinOK, manager
<1>2. phaseBar[gui.key] = "closing"
  BY <1>1 DEF phaseBar
<1>3. phaseBar' = [phaseBar EXCEPT ![gui.key] = "absent"]
  BY <1>1 DEF phaseBar
<1>4. \A k \in Keys : sessions[k] # None => worker'[sessions[k]] = worker[sessions[k]]
  BY <1>1, JoinedIsUnmapped, Types DEF OrNone
<1>5. servingBar' = servingBar /\ servingBar[gui.key] = None
  BY <1>1, <1>4 DEF servingBar
<1>6. servingBar' = [servingBar EXCEPT ![gui.key] = None]
  BY <1>5 DEF servingBar
<1>7. pendingStarts' = [pendingStarts EXCEPT ![gui.key] = None]
  BY <1>1, Types
<1> QED
  BY <1>1, <1>2, <1>3, <1>6, <1>7 DEF Lifecycle!Closed

LEMMA RestartRefines ==
    ASSUME IInv, EndJoinAndRestart
    PROVE  Lifecycle!Closed(gui.key)
<1> DEFINE u == gui.thread
           k == gui.key
           n == NewWorker(k, pendingStarts[k], pendingConfigs[k])
<1>1. /\ gui.at = "join" /\ u \in Threads /\ k \in Keys /\ pendingStarts[k] # None
      /\ sessions[k] = None /\ stopping[k] = None
      /\ UNCHANGED stopping
      /\ pendingStarts' = [pendingStarts EXCEPT ![k] = None]
      /\ gui'.at # "join"
  BY AfterJoinType DEF EndJoinAndRestart, Joined, IInv, JoinOK
<1>2. PICK t \in Free \cup {u} :
        /\ worker' = [[worker EXCEPT ![u] = NoWorker] EXCEPT ![t] = n]
        /\ sessions' = [sessions EXCEPT ![k] = t]
  BY DEF EndJoinAndRestart
<1>3. t \in Threads /\ t # None
  BY <1>1, ManagerAssumption DEF Free
<1>4. n.args = pendingStarts[k]
  BY DEF NewWorker
<1> HIDE DEF n
<1>5. \A v \in Threads : worker'[v] = IF v = t THEN n ELSE IF v = u THEN NoWorker ELSE worker[v]
  BY <1>1, <1>2, <1>3, Types
<1>6. \A j \in Keys : sessions'[j] = IF j = k THEN t ELSE sessions[j]
  BY <1>1, <1>2, Types
<1>7. \A j \in Keys : sessions[j] # None =>
        /\ sessions[j] \in Threads /\ Alive(sessions[j]) /\ sessions[j] # u
  BY <1>1, JoinedIsUnmapped, Types DEF IInv, MapsAreLive, MapIsLive, OrNone
<1>8. \A j \in Keys : j # k /\ sessions[j] # None => worker'[sessions[j]] = worker[sessions[j]]
  <2> SUFFICES ASSUME NEW j \in Keys, j # k, sessions[j] # None
               PROVE  worker'[sessions[j]] = worker[sessions[j]]
    OBVIOUS
  <2>1. sessions[j] # t
    BY <1>7 DEF Free, Alive
  <2> QED
    BY <1>5, <1>7, <2>1
<1>9. phaseBar[k] = "closing"
  BY <1>1 DEF phaseBar
<1>10. phaseBar' = [phaseBar EXCEPT ![k] = "active"]
  BY <1>1, <1>3, <1>6 DEF phaseBar
<1>11. servingBar' = [servingBar EXCEPT ![k] = pendingStarts[k]]
  <2>1. sessions'[k] = t /\ worker'[t].args = pendingStarts[k]
    BY <1>1, <1>3, <1>4, <1>5, <1>6
  <2>2. \A j \in Keys : j # k => sessions'[j] = sessions[j]
    BY <1>6
  <2> QED
    BY <1>3, <1>8, <2>1, <2>2 DEF servingBar
<1> QED
  BY <1>1, <1>9, <1>10, <1>11 DEF Lifecycle!Closed

-----------------------------------------------------------------------------
LEMMA NextRefines ==
    IInv /\ [Next]_vars => [Lifecycle!Next]_(Lifecycle!vars)
<1> SUFFICES ASSUME IInv, [Next]_vars
             PROVE  Lifecycle!Next \/ Unchanged
  BY DEF Unchanged, Lifecycle!vars
<1>1. ASSUME NEW k \in Keys, NEW a \in Args, StartSession(k, a) \/ PostponeStart(k, a)
      PROVE  Lifecycle!Next
  BY <1>1, StartRefines, PostponeRefines DEF Lifecycle!Next
<1>2. ASSUME NEW S \in SUBSET Keys, BeginStop(S), gui.at = "loop", gui'.at # "join"
      PROVE  Lifecycle!Next
  BY <1>2, BeginStopRefines DEF Lifecycle!Next
<1>3. ASSUME NEW k \in Keys, StopKey(k)
      PROVE  Lifecycle!Next
  BY <1>2, <1>3 DEF StopKey
<1>4. ASSUME NEW p \in Plugins, StopPlugin(p)
      PROVE  Lifecycle!Next
  <2> DEFINE S == {k \in KeysOf(p) : sessions[k] # None \/ pendingStarts[k] # None}
  <2>1. S \in SUBSET Keys /\ BeginStop(S) /\ gui.at = "loop" /\ gui'.at # "join"
    BY <1>4 DEF StopPlugin, KeysOf
  <2> HIDE DEF S
  <2> QED
    BY <1>2, <2>1
<1>5. ASSUME NEW p \in Plugins, NEW c \in Configs, Configure(p, c)
      PROVE  Unchanged
  <2>1. \A t \in Threads : worker'[t].args = worker[t].args
    BY <1>5, Types DEF Configure, Workers
  <2> QED
    BY <1>5, <2>1, Invisible DEF Configure
<1>6. ASSUME WaitStopped
      PROVE  Lifecycle!Next
  <2>1. Lifecycle!Forget
    BY <1>6, Types DEF Lifecycle!Forget, WaitStopped, phaseBar, servingBar, GuiStates
  <2> QED
    BY <2>1 DEF Lifecycle!Next
<1>7. ASSUME Destroy
      PROVE  Lifecycle!Next
  <2>1. BeginStop(Keys) /\ gui.at = "loop" /\ gui'.at # "join"
    BY <1>7, Types DEF Destroy, GuiStates
  <2> QED
    BY <1>2, <2>1
<1>8. ASSUME NEW k \in Keys, BeginJoin(k), gui.at # "join",
             UNCHANGED <<sessions, pendingStarts, worker>>
      PROVE  Unchanged
  <2>1. gui'.at = "join" /\ gui'.key = k /\ stopping[k] # None
    BY <1>8, Types DEF BeginJoin, GuiStates
  <2>2. \A j \in Keys : stopping'[j] = IF j = k THEN None ELSE stopping[j]
    BY <1>8, Types DEF BeginJoin
  <2> QED
    BY <1>8, <2>1, <2>2, Invisible
<1>9. ASSUME DeliverFinished
      PROVE  Unchanged
  <2>1. CASE stopping[Head(queue).key] = Head(queue).thread
    <3>1. BeginJoin(Head(queue).key) /\ gui.at # "join"
          /\ UNCHANGED <<sessions, pendingStarts, worker>>
      BY <1>9, <2>1 DEF DeliverFinished
    <3>2. Head(queue).key \in Keys
      <4>1. queue \in Seq(Signals) /\ queue # <<>>
        BY <1>9, Types DEF DeliverFinished
      <4>2. Head(queue) \in Signals
        BY <4>1, HeadTailProperties
      <4> QED
        BY <4>2 DEF Signals
    <3> QED
      BY <1>8, <3>1, <3>2
  <2>2. CASE stopping[Head(queue).key] # Head(queue).thread
    BY <1>9, <2>2, Invisible DEF DeliverFinished
  <2> QED
    BY <2>1, <2>2
<1>10. ASSUME DeliverConfirm \/ WaitEnd \/ Unloaded \/ UNCHANGED vars
       PROVE  Unchanged
  <2>1. UNCHANGED <<sessions, stopping, pendingStarts, worker>>
    BY <1>10 DEF DeliverConfirm, WaitEnd, Unloaded, vars, manager
  <2>2. \/ UNCHANGED gui
        \/ gui.at # "join" /\ gui'.at # "join"
    BY <1>10 DEF DeliverConfirm, WaitEnd, Unloaded, vars, Looping
  <2> QED
    BY <2>1, <2>2, Invisible
<1>11. ASSUME NEW answer \in BOOLEAN, AnswerDialog(answer)
       PROVE  Unchanged
  <2>1. \A t \in Threads : worker'[t].args = worker[t].args
    BY <1>11, Types DEF AnswerDialog, AnswerWorker, Workers
  <2> QED
    BY <1>11, <2>1, Invisible DEF AnswerDialog, manager
<1>12. ASSUME NEW k \in Keys, WaitNext(k)
       PROVE  Unchanged
  BY <1>8, <1>12 DEF WaitNext
<1>13. ASSUME EndJoin \/ EndJoinAndRestart
       PROVE  Lifecycle!Next
  <2>1. gui.key \in Keys
    BY <1>13 DEF EndJoin, EndJoinAndRestart, Joined, IInv, JoinOK
  <2> QED
    BY <1>13, <2>1, EndJoinRefines, RestartRefines DEF Lifecycle!Next
<1>14. ASSUME NEW t \in Threads, WorkerStep(t)
       PROVE  Unchanged
  <2>1. UNCHANGED <<sessions, stopping, pendingStarts, gui>>
    BY <1>14 DEF WorkerStep, AskConfirmation, WaitConfirmation, ResumeConfirmed, StopItself,
                 ReturnFromRun, FinishThread, SetWorker, manager
  <2>2. \A u \in Threads : worker'[u].args = worker[u].args
    <3>1. CASE AskConfirmation(t)
      BY <3>1, Types DEF AskConfirmation, Workers
    <3>2. CASE WaitConfirmation(t)
      BY <3>2, Types DEF WaitConfirmation, SetWorker, Workers
    <3>3. CASE ResumeConfirmed(t)
      BY <3>3, Types DEF ResumeConfirmed, SetWorker, Workers
    <3>4. CASE StopItself(t)
      BY <3>4, Types DEF StopItself, SetWorker, StopWorker, Workers
    <3>5. CASE ReturnFromRun(t)
      BY <3>5, Types DEF ReturnFromRun, SetWorker, Workers
    <3>6. CASE FinishThread(t)
      BY <3>6, Types DEF FinishThread, Workers
    <3> QED
      BY <1>14, <3>1, <3>2, <3>3, <3>4, <3>5, <3>6 DEF WorkerStep
  <2> QED
    BY <2>1, <2>2, Invisible
<1>15. CASE Command
  BY <1>15, <1>1, <1>3, <1>4, <1>5, <1>6, <1>7 DEF Command
<1>16. CASE GuiStep
  BY <1>16, <1>9, <1>10, <1>11, <1>12, <1>13 DEF GuiStep
<1> QED
  BY <1>10, <1>14, <1>15, <1>16 DEF Next

(* Whatever the host commands and the threads do, the keys go through the   *)
(* life cycle of SessionLifecycle.                                          *)
THEOREM Refinement == Spec => LifecycleSpec
<1> QED
  BY InitRefines, NextRefines, Invariance, PTL DEF Spec, LifecycleSpec, Lifecycle!Spec
=============================================================================
