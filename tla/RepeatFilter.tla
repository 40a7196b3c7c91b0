---------------------------- MODULE RepeatFilter ----------------------------
(***************************************************************************)
(* is_repeat of the Unity plugin: the ring of the texts one source sent    *)
(* last, which the hooked game threads read and write without a lock.      *)
(*                                                                         *)
(* A text stands for its 64-bit hash.  The ring's hashes and times are     *)
(* separate atomics, so each load and each store of them is a step of its  *)
(* own.  A call may be preempted anywhere, for at most Delay ticks in all. *)
(***************************************************************************)
EXTENDS Naturals

CONSTANTS
    Texts,          \* texts (non-zero hashes)
    NoText,         \* hash 0: an empty entry
    Ring,           \* kRecent
    RepeatWindow,   \* kRepeatWindowMs, in ticks
    TickWrap,       \* tick_ms() counts modulo TickWrap (2^32)
    FirstUse,       \* the time at which the source is first used
    LastTick,       \* bound: the time stops there
    Delay,          \* bound: how long a call of is_repeat may last
    Reporters       \* game threads that report texts of the source

ASSUME FilterAssumption ==
    /\ NoText \notin Texts
    /\ Ring \in Nat \ {0}
    /\ TickWrap \in Nat \ {0}
    /\ RepeatWindow \in 1 .. TickWrap - 1
    /\ FirstUse \in Nat
    /\ LastTick \in Nat
    /\ Delay \in 0 .. TickWrap - 1

VARIABLES
    time,      \* the time in ticks, not wrapped
    hash,      \* Recent::hash
    at,        \* Recent::at
    next,      \* Recent::next, modulo Ring (which divides 256)
    call,      \* per thread: the call of is_repeat it is in
    shown,     \* history: how long ago a text was last passed to is_repeat
    sent,      \* history: how long ago a text was reported that was then sent
    raced      \* history: two calls have overlapped since the last silent window

ring == <<hash, at, next>>
history == <<shown, sent, raced>>
repeatVars == <<time, ring, call, history>>

Entries == 0 .. Ring - 1
Never == RepeatWindow + 1   \* RepeatWindow stands for any longer time
NoReport == [st |-> "out", text |-> NoText, now |-> 0, i |-> 0,
             quiet |-> Never, gap |-> Never]

RepeatInit ==
    /\ time = FirstUse
    /\ hash = [i \in Entries |-> NoText]
    /\ at = [i \in Entries |-> 0]
    /\ next = 0
    /\ call = [t \in Reporters |-> NoReport]
    /\ shown = [x \in Texts |-> Never]
    /\ sent = [x \in Texts |-> Never]
    /\ raced = FALSE

Older(age) == IF age < RepeatWindow THEN age + 1 ELSE age

Lasts(t) == (TickWrap + (time % TickWrap) - call[t].now) % TickWrap

RepeatTick ==
    /\ time < LastTick
    /\ \A t \in Reporters : call[t].st # "out" => Lasts(t) < Delay
    /\ time' = time + 1
    /\ shown' = [x \in Texts |-> Older(shown[x])]
    /\ sent' = [x \in Texts |-> Older(sent[x])]
    /\ UNCHANGED <<ring, call, raced>>

-----------------------------------------------------------------------------
Proceeds(t, step) == call' = [call EXCEPT ![t].st = step]

(* A hooked function reports text x; now is read.  History: quiet is how    *)
(* long the text had not been shown, by this call's start or meanwhile, and *)
(* gap how long ago it had been sent.                                       *)
IsRepeat(t, x) ==
    /\ call[t].st = "out"
    /\ call' = [u \in Reporters |->
                   IF u = t THEN [st |-> "scan", text |-> x, now |-> time % TickWrap, i |-> 0,
                                  quiet |-> shown[x], gap |-> sent[x]]
                   ELSE IF call[u].text = x THEN [call[u] EXCEPT !.quiet = 0]
                   ELSE call[u]]
    /\ shown' = [shown EXCEPT ![x] = 0]
    /\ raced' = \/ raced /\ \E y \in Texts : shown[y] < RepeatWindow
                \/ \E u \in Reporters : call[u].st # "out"
    /\ UNCHANGED <<time, ring, sent>>

NextEntry(t) ==
    IF call[t].i + 1 < Ring THEN call' = [call EXCEPT ![t].st = "scan", ![t].i = @ + 1]
                            ELSE Proceeds(t, "insert")

(* Mutated: every entry that is in use counts. *)
Scan_AnyText(t) ==
    /\ call[t].st = "scan"
    /\ IF hash[call[t].i] # NoText THEN Proceeds(t, "age") ELSE NextEntry(t)
    /\ UNCHANGED <<time, ring, history>>

(* r.hash[i].load() *)
Scan(t) ==
    /\ call[t].st = "scan"
    /\ IF hash[call[t].i] = call[t].text THEN Proceeds(t, "age") ELSE NextEntry(t)
    /\ UNCHANGED <<time, ring, history>>

(* static_cast<uint32_t>(now - r.at[i].load()) < kRepeatWindowMs *)
Recently(now, then) == (TickWrap + now - then) % TickWrap < RepeatWindow

Age(t) ==
    /\ call[t].st = "age"
    /\ IF Recently(call[t].now, at[call[t].i]) THEN Proceeds(t, "touch") ELSE NextEntry(t)
    /\ UNCHANGED <<time, ring, history>>

(* r.at[i].store(now): a text that is shown all the time stays a repeat.    *)
Touch(t) ==
    /\ call[t].st = "touch"
    /\ at' = [at EXCEPT ![call[t].i] = call[t].now]
    /\ Proceeds(t, "dropped")
    /\ UNCHANGED <<time, hash, next, history>>

(* r.next.fetch_add(1) *)
Insert(t) ==
    /\ call[t].st = "insert"
    /\ next' = (next + 1) % Ring
    /\ call' = [call EXCEPT ![t].st = "putHash", ![t].i = next]
    /\ UNCHANGED <<time, hash, at, history>>

PutHash(t) ==
    /\ call[t].st = "putHash"
    /\ hash' = [hash EXCEPT ![call[t].i] = call[t].text]
    /\ Proceeds(t, "putAt")
    /\ UNCHANGED <<time, at, next, history>>

(* r.at[slot].store(now), and the text is sent. *)
PutAt(t) ==
    /\ call[t].st = "putAt"
    /\ at' = [at EXCEPT ![call[t].i] = call[t].now]
    /\ Proceeds(t, "sent")
    /\ sent' = [sent EXCEPT ![call[t].text] =
                    IF Lasts(t) < RepeatWindow THEN Lasts(t) ELSE RepeatWindow]
    /\ UNCHANGED <<time, hash, next, shown, raced>>

Answer(t) ==
    /\ call[t].st \in {"dropped", "sent"}
    /\ call' = [call EXCEPT ![t] = NoReport]
    /\ UNCHANGED <<time, ring, history>>

RepeatStep(t) ==
    \/ Scan(t) \/ Age(t) \/ Touch(t)
    \/ Insert(t) \/ PutHash(t) \/ PutAt(t)
    \/ Answer(t)

RepeatNext ==
    \/ RepeatTick
    \/ \E t \in Reporters : RepeatStep(t) \/ \E x \in Texts : IsRepeat(t, x)

RepeatSpec == RepeatInit /\ [][RepeatNext]_repeatVars

-----------------------------------------------------------------------------
(* The end of kRepeatWindowMs' comment: a text shown again after this long  *)
(* is a new event and is sent.                                              *)
NewEventIsSent ==
    \A t \in Reporters : call[t].st = "dropped" => call[t].quiet < RepeatWindow

(* The whole of that comment: the same text is not sent again within this   *)
(* time, and is sent after it.  It holds for no more texts than the ring    *)
(* holds until two calls overlap, and again once nothing was reported for   *)
(* as long: what a race leaves in the ring grows old with it.               *)
OncePerWindow ==
    ~raced =>
        /\ \A t \in Reporters : call[t].st = "sent" => call[t].gap >= RepeatWindow
        /\ NewEventIsSent

(* A text is never dropped for nothing: some call of the same text was      *)
(* found to be no repeat, and has sent it or is about to.                   *)
DroppedWasSent ==
    \A t \in Reporters : call[t].st = "dropped" =>
        \/ sent[call[t].text] # Never
        \/ \E u \in Reporters : call[u].text = call[t].text /\ call[u].st = "putAt"

(* A text is dropped for a reason, and only within its window.              *)
RepeatsAreRight == OncePerWindow /\ DroppedWasSent

=============================================================================
