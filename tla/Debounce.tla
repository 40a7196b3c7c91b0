------------------------------ MODULE Debounce ------------------------------
(***************************************************************************)
(* A plugin that streams characters: the reader of the pipe collects them  *)
(* per source, the debounce thread hands a source's block on after a time  *)
(* of silence, and the worker hands on what is left when it ends.          *)
(*                                                                         *)
(* A character is the time it came at and its number.  Text comes only     *)
(* while a pipe is open, and a pipe is opened before the library that      *)
(* sends on it is loaded.  The times are steps of the clock.               *)
(***************************************************************************)
EXTENDS Naturals, Sequences

CONSTANTS
    Sources,     \* the labels of the texts
    Interval,    \* m_flushIntervalMs
    MaxTime,     \* bound: the clock
    MaxChars     \* bound: characters of one source

ASSUME DebounceAssumption ==
    /\ Interval \in Nat \ {0}
    /\ MaxTime \in Nat
    /\ MaxChars \in Nat

VARIABLES
    clock,
    open,        \* the pipe is open and its reader runs
    pending,     \* m_pendingText: the text of each source and its lastCharTime
    debounceRunning,    \* m_debounceRunning
    loop,        \* where the debounce thread is, its now and its ready
    worker,      \* where the worker's end is, and its remaining
    output,      \* history: the text handed on, per source
    cuts,        \* history: where the blocks end in it
    received     \* history: the characters received and not dropped, per source

handedOn == <<output, cuts>>
debounceVars == <<clock, open, pending, debounceRunning, loop, worker, handedOn, received>>

Empty == [s \in Sources |-> <<>>]
Nothing == [text |-> <<>>, last |-> 0]

DebounceInit ==
    /\ clock = 0
    /\ open = FALSE
    /\ pending = [s \in Sources |-> Nothing]
    /\ debounceRunning = TRUE
    /\ loop = [at |-> "sleep", now |-> 0, ready |-> Empty]
    /\ worker = [at |-> "run", remaining |-> Empty]
    /\ output = Empty
    /\ cuts = [s \in Sources |-> {}]
    /\ received = Empty

Tick ==
    /\ clock < MaxTime
    /\ clock' = clock + 1
    /\ UNCHANGED <<open, pending, debounceRunning, loop, worker, handedOn, received>>

-----------------------------------------------------------------------------
Received(s, c) == [text |-> Append(pending[s].text, c), last |-> c.time]

(* handlePipeMessage *)
Receive(s) ==
    LET c == [no |-> Len(received[s]), time |-> clock] IN
    /\ open
    /\ Len(received[s]) < MaxChars
    /\ clock + Interval < MaxTime
    /\ pending' = [pending EXCEPT ![s] = Received(s, c)]
    /\ received' = [received EXCEPT ![s] = Append(@, c)]
    /\ UNCHANGED <<clock, open, debounceRunning, loop, worker, handedOn>>

(* What was collected of the last game and not handed on yet is dropped.    *)
WithoutPending(s) == SubSeq(received[s], 1, Len(received[s]) - Len(pending[s].text))

(* startPipeServer: the old reader has been joined. *)
OpenPipe ==
    /\ worker.at = "run"
    /\ open' = TRUE
    /\ pending' = [s \in Sources |-> Nothing]
    /\ received' = [s \in Sources |-> WithoutPending(s)]
    /\ UNCHANGED <<clock, debounceRunning, loop, worker, handedOn>>

(* onProcessLost: the reader is joined, the text stays. *)
LosePipe ==
    /\ worker.at = "run"
    /\ open
    /\ open' = FALSE
    /\ UNCHANGED <<clock, pending, debounceRunning, loop, worker, handedOn, received>>

-----------------------------------------------------------------------------
(* The debounce thread. *)

Look ==
    /\ loop.at = "sleep"
    /\ loop' = IF debounceRunning THEN [loop EXCEPT !.at = "scan", !.now = clock]
                          ELSE [loop EXCEPT !.at = "ended"]
    /\ UNCHANGED <<clock, open, pending, debounceRunning, worker, handedOn, received>>

(* Characters may have come since the time was read. *)
Silent(s) == pending[s].text # <<>> /\ pending[s].last + Interval <= loop.now

Scan ==
    /\ loop.at = "scan"
    /\ loop' = [loop EXCEPT !.at = "emit",
                            !.ready = [s \in Sources |-> IF Silent(s) THEN pending[s].text ELSE <<>>]]
    /\ pending' = [s \in Sources |-> IF Silent(s) THEN Nothing ELSE pending[s]]
    /\ UNCHANGED <<clock, open, debounceRunning, worker, handedOn, received>>

(* textReceived: a block goes to the host. *)
HandsOn(s, block) ==
    /\ output' = [output EXCEPT ![s] = @ \o block]
    /\ cuts' = [cuts EXCEPT ![s] = @ \cup {Len(output[s]) + Len(block)}]

(* The sources whose block is handed on: one signal each. *)
Emit ==
    /\ loop.at = "emit"
    /\ IF loop.ready = Empty
       THEN loop' = [loop EXCEPT !.at = "sleep"] /\ UNCHANGED handedOn
       ELSE \E s \in Sources :
               /\ loop.ready[s] # <<>>
               /\ HandsOn(s, loop.ready[s])
               /\ loop' = [loop EXCEPT !.ready[s] = <<>>]
    /\ UNCHANGED <<clock, open, pending, debounceRunning, worker, received>>

Loop == Look \/ Scan \/ Emit

-----------------------------------------------------------------------------
(* The end of the worker. *)

JoinReader ==
    /\ worker.at = "run"
    /\ open' = FALSE
    /\ worker' = [worker EXCEPT !.at = "stopLoop"]
    /\ UNCHANGED <<clock, pending, debounceRunning, loop, handedOn, received>>

StopLoop ==
    /\ worker.at = "stopLoop"
    /\ debounceRunning' = FALSE
    /\ worker' = [worker EXCEPT !.at = "joinLoop"]
    /\ UNCHANGED <<clock, open, pending, loop, handedOn, received>>

(* Mutated: the debounce thread is not waited for. *)
JoinLoop_Not ==
    /\ worker.at = "joinLoop"
    /\ worker' = [worker EXCEPT !.at = "swap"]
    /\ UNCHANGED <<clock, open, pending, debounceRunning, loop, handedOn, received>>

JoinLoop ==
    /\ worker.at = "joinLoop"
    /\ loop.at = "ended"
    /\ worker' = [worker EXCEPT !.at = "swap"]
    /\ UNCHANGED <<clock, open, pending, debounceRunning, loop, handedOn, received>>

Swap ==
    /\ worker.at = "swap"
    /\ worker' = [at |-> "flush", remaining |-> [s \in Sources |-> pending[s].text]]
    /\ pending' = [s \in Sources |-> Nothing]
    /\ UNCHANGED <<clock, open, debounceRunning, loop, handedOn, received>>

Flush ==
    /\ worker.at = "flush"
    /\ IF worker.remaining = Empty
       THEN worker' = [worker EXCEPT !.at = "done"] /\ UNCHANGED handedOn
       ELSE \E s \in Sources :
               /\ worker.remaining[s] # <<>>
               /\ HandsOn(s, worker.remaining[s])
               /\ worker' = [worker EXCEPT !.remaining[s] = <<>>]
    /\ UNCHANGED <<clock, open, pending, debounceRunning, loop, received>>

(* Mutated: the text is left where it is. *)
Finish_NoFlush == StopLoop \/ JoinLoop

Finish == StopLoop \/ JoinLoop \/ Swap \/ Flush

-----------------------------------------------------------------------------
DebounceNext ==
    \/ Tick
    \/ \E s \in Sources : Receive(s)
    \/ OpenPipe \/ LosePipe
    \/ Loop
    \/ JoinReader \/ Finish

DebounceFairness ==
    WF_debounceVars(Tick) /\ WF_debounceVars(Loop) /\ WF_debounceVars(Finish)

DebounceSpec == DebounceInit /\ [][DebounceNext]_debounceVars /\ DebounceFairness

-----------------------------------------------------------------------------
(* Every character is handed on once and in order, whichever thread hands   *)
(* it on and however the worker's end interleaves with the debounce thread: *)
(* what was handed on, then what a thread has taken out, then what waits,   *)
(* is what was received, and in the end all of it was handed on.            *)
InOrder ==
    \A s \in Sources :
        /\ output[s] \o loop.ready[s] \o worker.remaining[s] \o pending[s].text = received[s]
        /\ worker.at = "done" => output[s] = received[s]

(* A block is cut only by silence: characters of one source that come less  *)
(* than the interval apart are never in two blocks.                         *)
CutBySilence ==
    \A s \in Sources : \A i \in cuts[s] :
        i < Len(received[s]) => received[s][i + 1].time >= received[s][i].time + Interval

(* Nothing is lost, doubled, reordered or cut at the wrong place.           *)
TextIsWhole == InOrder /\ CutBySilence

(* A text does not wait for ever, whether the worker goes on or ends. *)
TextIsShown ==
    \A s \in Sources : pending[s].text # <<>> ~> pending[s].text = <<>> /\ loop.ready[s] = <<>>

=============================================================================
