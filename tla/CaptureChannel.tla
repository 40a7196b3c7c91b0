--------------------------- MODULE CaptureChannel ---------------------------
(***************************************************************************)
(* The overlay's channel to the translator in an OpenGL game: what each    *)
(* swap of buffers does with the connection and with the frames that are   *)
(* asked for and delivered, on Linux (capture.c, glinject.c: a socket and  *)
(* two semaphores) and on Windows (win_capture.cpp, overlay_gl.cpp: a pipe *)
(* of messages and two events).                                            *)
(*                                                                         *)
(* A message is a sequence of parts and a recv returns any number of the   *)
(* parts that are there; a pipe gives out whole messages.  The messages    *)
(* received are read one by one, while the other threads look at what the  *)
(* ones before have set.  last_check lets one thread at a time look at the *)
(* connection, and keeps a present off it at any time.                     *)
(*                                                                         *)
(* History: with each part goes what the messages that are complete by it  *)
(* say, or that one of them was none.                                      *)
(***************************************************************************)
EXTENDS Naturals, Sequences, FiniteSets

CONSTANTS
    Builds,     \* the systems: "linux", "windows"
    Swappers,    \* threads of the game that swap buffers
    Messages,   \* what the host sends: records with a kind and its fields
    Parts,      \* the parts a message of a kind has
    Room,       \* bound: parts in the socket
    MaxAsked    \* bound: requests and answers under way

ASSUME ChannelAssumption ==
    /\ Builds \subseteq {"linux", "windows"}
    /\ Parts \in [{"control", "text", "font", "bad"} -> Nat \ {0}]
    /\ \A m \in Messages : m.kind \in DOMAIN Parts /\ Parts[m.kind] <= Parts["text"]
    /\ {Room, MaxAsked} \subseteq Nat

Size(m) == Parts[m.kind]

(* Mutated: the buffer has no room for the header. *)
Cap_NoHeader == Parts["text"] - 1

(* sizeof(rx_buf): the longest message. *)
Cap == Parts["text"]

VARIABLES
    build,      \* the system the game runs on
    open,       \* the host keeps its end of the connection
    stream,     \* the parts in the socket
    fd,         \* connfd >= 0; there is a pipe
    rx,         \* rx_buf up to rx_len, and from off on in consume_rx
    told,       \* what the messages have set: g_session_active, the frames'
                \*   permission and the text
    captures,   \* data.capturing
    asked, answered,    \* the two semaphores, or events
    ready,      \* the semaphore of requests has been opened, or there is none
    at,         \* where a thread is in its present
    due,        \* history: what goes with the part that was received last
    again       \* history: capture_init was called on a channel in use, which
                \*   has not been closed since

channelVars == <<build, open, stream, fd, rx, told, captures, asked, answered, ready, at, due, again>>
host == <<build, open, stream>>
channel == <<fd, rx, told, due, again>>
frames == <<captures, asked, answered, ready>>

Silent == [session |-> FALSE, allowed |-> FALSE, text |-> ""]

ChannelInit ==
    /\ build \in Builds
    /\ open = FALSE /\ stream = <<>> /\ fd = FALSE /\ rx = <<>>
    /\ told = Silent
    /\ captures = FALSE /\ asked = 0 /\ answered = 0 /\ ready = (build = "windows")
    /\ at = [t \in Swappers |-> "idle"]
    /\ due = [told |-> Silent, bad |-> FALSE] /\ again = FALSE

-----------------------------------------------------------------------------
(* handle_control and at_text_set; the style and the font only show.        *)
Handle(m, k) ==
    CASE m.kind = "control" -> [k EXCEPT !.session = m.session, !.allowed = m.allowed]
      [] m.kind = "text" -> [k EXCEPT !.text = m.text]
      [] m.kind = "font" -> k

(* What has been said when part i of message m has come, after d.           *)
Says(m, i, d) ==
    CASE d.bad -> d
      [] ~d.bad /\ m.kind = "bad" -> [told |-> d.told, bad |-> TRUE]
      [] ~d.bad /\ m.kind # "bad" ->
            [told |-> IF i = Size(m) THEN Handle(m, d.told) ELSE d.told, bad |-> FALSE]

Said == IF stream = <<>> THEN due ELSE stream[Len(stream)].says

(* The host sends a message, and closes the connection or is gone.          *)
Send(m) ==
    /\ open /\ Len(stream) + Size(m) <= Room
    /\ stream' = stream \o [i \in 1..Size(m) |-> [msg |-> m, part |-> i, says |-> Says(m, i, Said)]]
    /\ UNCHANGED <<build, open, channel, frames, at>>

HostCloses ==
    /\ open /\ open' = FALSE
    /\ UNCHANGED <<build, stream, channel, frames, at>>

(* sem_post counts; SetEvent sets an event that may be set already.         *)
OneMore(n) == IF build = "windows" THEN 1 ELSE n + 1

(* It asks for a frame and takes the answer.                                *)
Ask ==
    /\ asked + answered < MaxAsked /\ asked' = OneMore(asked)
    /\ UNCHANGED <<host, channel, captures, answered, ready, at>>

TakeAnswer ==
    /\ answered > 0 /\ answered' = answered - 1
    /\ UNCHANGED <<host, channel, captures, asked, ready, at>>

-----------------------------------------------------------------------------
GoesTo(t, step) == at' = [at EXCEPT ![t] = step]

(* handle_message: the message is read, or it is none.                      *)
HandleMessage(t, m) ==
    IF m.kind = "bad" THEN GoesTo(t, "close") /\ UNCHANGED told
                      ELSE GoesTo(t, "recv") /\ told' = Handle(m, told)

Reading == {"recv", "parse", "close"}

(* A present: it is too early for another look at the socket, ...           *)
Present(t) ==
    /\ at[t] = "idle" /\ GoesTo(t, "capture")
    /\ UNCHANGED <<host, channel, frames>>

(* ... or it looks, connects where there is no connection, ...              *)
Update(t) ==
    /\ at[t] = "idle" /\ \A u \in Swappers : at[u] \notin Reading
    /\ \/ fd /\ GoesTo(t, "recv") /\ UNCHANGED <<host, fd>>
       \/ ~fd /\ GoesTo(t, "capture") /\ UNCHANGED <<host, fd>>
       \/ /\ ~fd /\ fd' = TRUE /\ GoesTo(t, "recv")
          /\ open' = TRUE /\ stream' = <<>> /\ UNCHANGED build
    /\ UNCHANGED <<rx, told, due, again, frames>>

(* ... receives what there is, as long as there is something ...            *)
Recv(t) ==
    /\ at[t] = "recv" /\ build = "linux" /\ Len(rx) < Cap
    /\ \E n \in 1..Len(stream) :
          /\ n <= Cap - Len(rx)
          /\ rx' = rx \o SubSeq(stream, 1, n)
          /\ stream' = SubSeq(stream, n + 1, Len(stream))
          /\ due' = stream[n].says
    /\ GoesTo(t, "parse")
    /\ UNCHANGED <<build, open, fd, told, again, frames>>

(* ... and reads each message of which all is there: the first part says    *)
(* how long it is, or that it is none ...                                   *)
Whole == rx # <<>> /\ (rx[1].msg.kind = "bad" \/ Size(rx[1].msg) <= Len(rx))

Consume(t) ==
    /\ at[t] = "parse" /\ Whole /\ rx[1].msg.kind # "bad"
    /\ rx' = SubSeq(rx, Size(rx[1].msg) + 1, Len(rx))
    /\ told' = Handle(rx[1].msg, told)
    /\ UNCHANGED <<host, fd, due, again, at, frames>>

Reject(t) ==
    /\ at[t] = "parse" /\ Whole /\ rx[1].msg.kind = "bad"
    /\ GoesTo(t, "close")
    /\ UNCHANGED <<host, channel, frames>>

LeaveRest(t) ==
    /\ at[t] = "parse" /\ ~Whole
    /\ GoesTo(t, "recv")
    /\ UNCHANGED <<host, channel, frames>>

(* ... or takes one message after the other out of the pipe, of which none  *)
(* is longer than the longest ...                                           *)
Peek(t) ==
    /\ at[t] = "recv" /\ build = "windows" /\ stream # <<>>
    /\ LET m == stream[1].msg IN
          IF m.kind # "bad" /\ Size(m) > Cap
          THEN GoesTo(t, "close") /\ UNCHANGED <<stream, told, due>>
          ELSE /\ stream' = SubSeq(stream, Size(m) + 1, Len(stream))
               /\ due' = stream[Size(m)].says
               /\ HandleMessage(t, m)
    /\ UNCHANGED <<build, open, fd, rx, again, frames>>

Drained(t) ==
    /\ at[t] = "recv" /\ Len(rx) < Cap /\ open /\ stream = <<>>
    /\ GoesTo(t, "capture")
    /\ UNCHANGED <<host, channel, frames>>

(* Mutated: rx_len stays. *)
Close_KeepsRx(t) ==
    /\ \/ at[t] = "close"
       \/ at[t] = "recv" /\ (~open \/ Len(rx) >= Cap)
    /\ fd' = FALSE /\ open' = FALSE /\ stream' = <<>>
    /\ told' = Silent
    /\ due' = [told |-> Silent, bad |-> FALSE] /\ again' = FALSE
    /\ GoesTo(t, "capture")
    /\ UNCHANGED <<build, rx, frames>>

(* ... and closes when a message is none, the host has gone or the buffer   *)
(* is full.                                                                 *)
Close(t) ==
    /\ \/ at[t] = "close"
       \/ at[t] = "recv" /\ (~open \/ Len(rx) >= Cap)
    /\ fd' = FALSE /\ open' = FALSE /\ stream' = <<>>
    /\ rx' = <<>> /\ told' = Silent
    /\ due' = [told |-> Silent, bad |-> FALSE] /\ again' = FALSE
    /\ GoesTo(t, "capture")
    /\ UNCHANGED <<build, frames>>

(* gl_init_funcs, when the game uses the second of GLX and EGL.             *)
InitAgain ==
    /\ build = "linux" /\ fd /\ ~again /\ \A t \in Swappers : at[t] \notin Reading
    /\ fd' = FALSE /\ captures' = FALSE /\ again' = TRUE
    /\ told' = [told EXCEPT !.allowed = FALSE]
    /\ UNCHANGED <<host, rx, due, asked, answered, ready, at>>

-----------------------------------------------------------------------------
(* Mutated: frames need a text session. *)
StopStart_NeedsSession(t) ==
    LET wanted == fd /\ told.allowed /\ told.session
    IN
    /\ at[t] = "capture"
    /\ captures' = wanted
    /\ GoesTo(t, IF wanted THEN "frame" ELSE "idle")
    /\ UNCHANGED <<host, channel, asked, answered, ready>>

(* capture_should_init, or not capture_should_stop *)
Wanted == fd /\ told.allowed

StopStart(t) ==
    /\ at[t] = "capture"
    /\ captures' = Wanted
    /\ GoesTo(t, IF Wanted THEN "frame" ELSE "idle")
    /\ UNCHANGED <<host, channel, asked, answered, ready>>

(* The first look at the semaphore of requests opens and drains it; then a  *)
(* request is taken, and answered if the frame can be copied.               *)
Drain(t) ==
    /\ at[t] = "frame" /\ captures /\ ~ready
    /\ ready' = TRUE /\ asked' = 0 /\ GoesTo(t, "idle")
    /\ UNCHANGED <<host, channel, captures, answered>>

Deliver(t) ==
    /\ at[t] = "frame" /\ captures /\ ready /\ asked > 0
    /\ asked' = asked - 1 /\ answered' = OneMore(answered) /\ GoesTo(t, "idle")
    /\ UNCHANGED <<host, channel, captures, ready>>

CopyFails(t) ==
    /\ at[t] = "frame" /\ captures /\ ready /\ asked > 0
    /\ asked' = asked - 1 /\ GoesTo(t, "idle")
    /\ UNCHANGED <<host, channel, captures, answered, ready>>

NoFrame(t) ==
    /\ at[t] = "frame" /\ (~captures \/ (ready /\ asked = 0))
    /\ GoesTo(t, "idle")
    /\ UNCHANGED <<host, channel, frames>>

-----------------------------------------------------------------------------
Works(t) ==
    \/ Recv(t) \/ Consume(t) \/ Reject(t) \/ LeaveRest(t)
    \/ Peek(t) \/ Drained(t) \/ Close(t)
    \/ StopStart(t) \/ Drain(t) \/ Deliver(t) \/ CopyFails(t) \/ NoFrame(t)

ChannelNext ==
    \/ \E m \in Messages : Send(m)
    \/ HostCloses \/ Ask \/ TakeAnswer \/ InitAgain
    \/ \E t \in Swappers : Present(t) \/ Update(t) \/ Works(t)

(* A present that has begun goes on, and a copy that is tried again and     *)
(* again works in the end.                                                  *)
ChannelSpec ==
    /\ ChannelInit /\ [][ChannelNext]_channelVars
    /\ \A t \in Swappers : WF_channelVars(Works(t))
    /\ SF_channelVars(\E t \in Swappers : Deliver(t))

-----------------------------------------------------------------------------
(* What the overlay knows, when it has read what it received, is what the   *)
(* messages of this connection that are complete say, however recv has cut  *)
(* them, and without a connection it knows nothing: no text stays on the    *)
(* screen of a game whose translator has gone.  The exception: capture_init *)
(* on a channel in use.                                                     *)
KnowsWhatWasSaid ==
    \/ again
    \/ /\ (\A t \in Swappers : at[t] # "parse") => told = due.told
       /\ ~fd => told = Silent

(* The overlay leaves a host only when the host has closed the connection   *)
(* or sent something that is no message; never for want of room.            *)
LeavesOnlyTheGone == [][fd /\ ~fd' => ~open \/ due.bad \/ again \/ again']_channelVars

(* While the host permits frames and goes on asking, it gets answers, the   *)
(* text session on or off; what it has asked before the semaphore was       *)
(* opened it must ask again.                                                *)
RequestsAnswered ==
    /\ <>[](fd /\ told.allowed)
    /\ []<>(asked > 0)
    /\ \A t \in Swappers : []<>(at[t] = "capture")
    => []<>(answered > 0)

=============================================================================
