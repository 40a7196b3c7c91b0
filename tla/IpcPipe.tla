------------------------------- MODULE IpcPipe -------------------------------
(***************************************************************************)
(* The pipe between a library in a game and its worker in the host, as it  *)
(* is built on Linux (a Unix stream socket) and on Windows (a named pipe): *)
(* the server's reader thread waits for the connection and receives,       *)
(* another thread closes the pipe under it, and the game's threads send.   *)
(*                                                                         *)
(* A message is written in two parts (a write may be partial) and read in  *)
(* two (the header and what follows).  m_fd and m_server_fd are plain      *)
(* integers that both server threads use; each access is a step.  There is *)
(* one client, as in the program.  On Linux a signal whose handler does    *)
(* not ask for a restart can interrupt any read and any write.  On Windows *)
(* there is one handle (m_handle, here m_fd) for both; its calls are       *)
(* synchronous: another thread can cancel one that has begun, and          *)
(* CloseHandle waits for one that has not returned.                        *)
(***************************************************************************)
EXTENDS Naturals, Sequences

CONSTANTS
    Builds,       \* the systems: "linux", "windows"
    Senders,      \* the game's threads
    MaxSends,     \* bound: messages of one sender
    Capacity      \* parts that fit into the socket's buffer

ASSUME PipeAssumption ==
    /\ Builds \subseteq {"linux", "windows"}
    /\ "none" \notin Senders
    /\ MaxSends \in Nat
    /\ Capacity \in Nat \ {0}

VARIABLES
    build,       \* the system the host and the game run on
    \* the server
    valid,       \* m_valid
    fd,          \* m_fd: the connection's descriptor, or none; m_handle
    sfd,         \* m_server_fd
    reader,      \* where the reader is, the descriptor it uses, the header it
                 \*   read, and whether it waits in a call on Windows
    closer,      \* where the thread in close() is, and the descriptor it took out
    \* the kernel
    listening,   \* the server socket is open
    conn,        \* the connection: none, queued, open, shut or closed at the server
    stream,      \* parts on their way
    hungUp,      \* the client's end is closed
    \* the client
    up,          \* connect has succeeded
    holder,      \* who has m_send_mutex
    sender,      \* per thread: what it is writing
    \* history
    sent,        \* messages written completely
    got,         \* messages received
    cuts         \* how many had been sent when one was left half-written

server == <<build, valid, fd, sfd, reader, closer>>
kernel == <<listening, conn, stream, hungUp>>
client == <<up, holder, sender>>
history == <<sent, got, cuts>>
vars == <<server, kernel, client, history>>

None == "none"
NoPart == [from |-> None, no |-> 0, part |-> 0]
Garbage == [from |-> None, no |-> 0]

Windows == build = "windows"

(* The server's constructor has opened a socket, or the pipe. *)
Init ==
    /\ build \in Builds
    /\ valid = TRUE
    /\ IF Windows THEN fd = "conn" /\ sfd = None ELSE fd = None /\ sfd = "socket"
    /\ reader = [at |-> "wait", use |-> None, header |-> NoPart, blocked |-> FALSE]
    /\ closer = [at |-> "out", use |-> None]
    /\ listening = TRUE /\ conn = None /\ stream = <<>> /\ hungUp = FALSE
    /\ up = FALSE /\ holder = None
    /\ sender = [t \in Senders |-> [at |-> "out", no |-> 0]]
    /\ sent = <<>> /\ got = <<>> /\ cuts = {}

-----------------------------------------------------------------------------
(* The server's reader: waitForConnection.                                  *)

ReaderAt(step) == reader' = [reader EXCEPT !.at = step]

LookWhetherValid ==
    /\ reader.at = "wait"
    /\ ReaderAt(IF ~valid THEN "ended" ELSE IF Windows THEN "connect" ELSE "poll")
    /\ UNCHANGED <<build, valid, fd, sfd, closer, kernel, client, history>>

(* poll: it times out, also for the descriptor -1, and fails for one that   *)
(* is closed.                                                               *)
Poll ==
    /\ reader.at = "poll"
    /\ ReaderAt(IF sfd = None THEN "wait"
                ELSE IF ~listening THEN "ended"
                ELSE IF conn = "queued" THEN "accept" ELSE "wait")
    /\ UNCHANGED <<build, valid, fd, sfd, closer, kernel, client, history>>

Accept ==
    /\ reader.at = "accept"
    /\ IF sfd # None /\ listening THEN ReaderAt("accepted") /\ conn' = "open"
                                  ELSE ReaderAt("ended") /\ UNCHANGED conn
    /\ UNCHANGED <<build, valid, fd, sfd, closer, listening, stream, hungUp, client, history>>

(* m_fd = the result of accept *)
StoreFd ==
    /\ reader.at = "accepted"
    /\ fd' = "conn"
    /\ ReaderAt("receive")
    /\ UNCHANGED <<build, valid, sfd, closer, kernel, client, history>>

(* receive: m_fd is loaded for each read, and on Windows for the wait *)
Loading == [connect |-> "connecting", receive |-> "readHeader", body |-> "readBody"]
LoadFd ==
    /\ reader.at \in DOMAIN Loading
    /\ reader' = [reader EXCEPT !.use = fd, !.at = Loading[@]]
    /\ UNCHANGED <<build, valid, fd, sfd, closer, kernel, client, history>>

Reading == reader.at \in {"readHeader", "readBody"}
Ended == [reader EXCEPT !.at = "ended", !.use = None, !.header = NoPart, !.blocked = FALSE]

(* ConnectNamedPipe: there may be a client already; one that has gone       *)
(* again, or a handle that was closed, is an error.                         *)
ConnectPipe ==
    /\ reader.at = "connecting"
    /\ \/ /\ reader.use # None /\ conn = "open" /\ ~hungUp
          /\ reader' = [reader EXCEPT !.at = "receive", !.use = None, !.blocked = FALSE]
       \/ /\ reader.use = None \/ ~listening \/ hungUp
          /\ reader' = Ended
    /\ UNCHANGED <<build, valid, fd, sfd, closer, kernel, client, history>>

(* A call on Windows with nothing to return has begun to wait.              *)
BeginsToWait ==
    /\ Windows /\ ~reader.blocked /\ reader.use # None /\ listening /\ ~hungUp
    /\ \/ reader.at = "connecting" /\ conn = None
       \/ Reading /\ stream = <<>> /\ conn = "open"
    /\ reader' = [reader EXCEPT !.blocked = TRUE]
    /\ UNCHANGED <<build, valid, fd, sfd, closer, kernel, client, history>>

(* A connection that was closed under a read lasts until the read returns.  *)
AfterRead ==
    conn' = IF reader.use # None /\ conn = "shut" /\ closer.at \notin {"shutdown", "close"}
            THEN "closed" ELSE conn

(* read_all gives up, and with it pipeReaderLoop. *)
ReadEnds ==
    /\ reader' = Ended
    /\ AfterRead
    /\ UNCHANGED <<build, valid, fd, sfd, closer, listening, stream, hungUp, client, history>>

(* The descriptor is -1 or closed, or the connection has ended. *)
ReadFails ==
    /\ Reading
    /\ \/ reader.use = None
       \/ conn = "closed"
       \/ stream = <<>> /\ (conn = "shut" \/ hungUp)
    /\ ReadEnds

(* EINTR is not told from an error. *)
ReadInterrupted == ~Windows /\ Reading /\ ReadEnds

Whole(header, body) == header.part = 1 /\ body = [header EXCEPT !.part = 2]

ReadSucceeds ==
    /\ Reading
    /\ reader.use # None
    /\ conn \in {"open", "shut"}
    /\ stream # <<>>
    /\ stream' = Tail(stream)
    /\ AfterRead
    /\ IF reader.at = "readHeader"
       THEN /\ reader' = [reader EXCEPT !.at = "body", !.header = Head(stream), !.blocked = FALSE]
            /\ UNCHANGED got
       ELSE /\ reader' = [reader EXCEPT !.at = "receive", !.header = NoPart, !.blocked = FALSE]
            /\ got' = Append(got, IF Whole(reader.header, Head(stream))
                                  THEN [from |-> reader.header.from, no |-> reader.header.no]
                                  ELSE Garbage)
    /\ UNCHANGED <<build, valid, fd, sfd, closer, listening, hungUp, client, sent, cuts>>

Reader ==
    \/ LookWhetherValid \/ Poll \/ Accept \/ StoreFd
    \/ ConnectPipe \/ BeginsToWait
    \/ LoadFd \/ ReadFails \/ ReadSucceeds

-----------------------------------------------------------------------------
(* The server's other thread: close(), and the destructor's close() once    *)
(* the reader is joined.                                                    *)

CloserAt(step) == closer' = [closer EXCEPT !.at = step]

BeginClose ==
    /\ closer.at = "out"
    /\ valid' = FALSE
    /\ CloserAt("take")
    /\ UNCHANGED <<build, fd, sfd, reader, kernel, client, history>>

(* std::exchange(m_fd, -1) *)
TakeFd ==
    /\ closer.at = "take"
    /\ closer' = [at |-> IF fd = None THEN "takeServer" ELSE "shutdown", use |-> fd]
    /\ fd' = None
    /\ UNCHANGED <<build, valid, sfd, reader, kernel, client, history>>

(* Mutated: the connection is closed without being shut down. *)
ShutDown_Not ==
    /\ closer.at = "shutdown" /\ ~Windows
    /\ CloserAt("close")
    /\ UNCHANGED <<build, valid, fd, sfd, reader, kernel, client, history>>

ShutDown ==
    /\ closer.at = "shutdown" /\ ~Windows
    /\ conn' = "shut"
    /\ CloserAt("close")
    /\ UNCHANGED <<build, valid, fd, sfd, reader, listening, stream, hungUp, client, history>>

(* The connection goes on as long as a read or a write of it is under way.  *)
CloseFd ==
    /\ closer.at = "close" /\ ~Windows
    /\ conn' = IF Reading /\ reader.use # None THEN conn ELSE "closed"
    /\ CloserAt("takeServer")
    /\ UNCHANGED <<build, valid, fd, sfd, reader, listening, stream, hungUp, client, history>>

(* CancelIoEx ends a call of the reader, if one has begun to wait ... *)
CancelIo ==
    /\ closer.at = "shutdown" /\ Windows
    /\ reader' = IF reader.blocked THEN Ended ELSE reader
    /\ CloserAt("close")
    /\ UNCHANGED <<build, valid, fd, sfd, kernel, client, history>>

(* ... and CloseHandle waits for one that has begun since. *)
CloseHandle ==
    /\ closer.at = "close" /\ Windows
    /\ ~reader.blocked
    /\ listening' = FALSE
    /\ conn' = IF conn = "open" THEN "closed" ELSE conn
    /\ CloserAt("join")
    /\ UNCHANGED <<build, valid, fd, sfd, reader, stream, hungUp, client, history>>

TakeServerFd ==
    /\ closer.at = "takeServer"
    /\ sfd' = None
    /\ CloserAt(IF sfd = None THEN "join" ELSE "closeServer")
    /\ UNCHANGED <<build, valid, fd, reader, kernel, client, history>>

(* A connection that was not accepted is reset. *)
CloseServerFd ==
    /\ closer.at = "closeServer"
    /\ listening' = FALSE
    /\ conn' = IF conn = "queued" THEN "closed" ELSE conn
    /\ CloserAt("join")
    /\ UNCHANGED <<build, valid, fd, sfd, reader, stream, hungUp, client, history>>

(* Mutated: the destructor does not close. *)
Join_LeavesOpen ==
    /\ closer.at = "join"
    /\ reader.at = "ended"
    /\ CloserAt("done")
    /\ UNCHANGED <<build, valid, fd, sfd, reader, kernel, client, history>>

(* The reader is joined; the destructor closes what was left open. *)
Join ==
    /\ closer.at = "join"
    /\ reader.at = "ended"
    /\ fd' = None
    /\ conn' = IF fd = None THEN conn ELSE "closed"
    /\ CloserAt("done")
    /\ UNCHANGED <<build, valid, sfd, reader, listening, stream, hungUp, client, history>>

Closer ==
    \/ TakeFd \/ Join
    \/ ShutDown \/ CloseFd \/ TakeServerFd \/ CloseServerFd
    \/ CancelIo \/ CloseHandle

-----------------------------------------------------------------------------
(* The client: its constructor, send() of several threads, its end.         *)

Connect ==
    /\ ~up /\ ~hungUp
    /\ conn = None
    /\ listening
    /\ up' = TRUE
    /\ conn' = IF Windows THEN "open" ELSE "queued"
    /\ UNCHANGED <<server, listening, stream, hungUp, holder, sender, history>>

Sending(t, step) == sender' = [sender EXCEPT ![t].at = step]

StartSend(t) ==
    /\ up /\ ~hungUp
    /\ sender[t].at = "out"
    /\ sender[t].no < MaxSends
    /\ sender' = [sender EXCEPT ![t] = [at |-> "lock", no |-> @.no + 1]]
    /\ UNCHANGED <<server, kernel, up, holder, history>>

Lock(t) ==
    /\ sender[t].at = "lock"
    /\ holder = None
    /\ holder' = t
    /\ Sending(t, "part1")
    /\ UNCHANGED <<server, kernel, up, history>>

Writing(t) == sender[t].at \in {"part1", "part2"}
Unlocked(t) == sender' = [sender EXCEPT ![t].at = "out"] /\ holder' = None

(* The call waits while the buffer is full. *)
Write(t) ==
    LET part == IF sender[t].at = "part1" THEN 1 ELSE 2 IN
    /\ Writing(t)
    /\ conn \in {"queued", "open"}
    /\ Len(stream) < Capacity
    /\ stream' = Append(stream, [from |-> t, no |-> sender[t].no, part |-> part])
    /\ IF part = 1 THEN Sending(t, "part2") /\ UNCHANGED <<holder, sent>>
       ELSE Unlocked(t) /\ sent' = Append(sent, [from |-> t, no |-> sender[t].no])
    /\ UNCHANGED <<server, listening, conn, hungUp, up, got, cuts>>

(* The server's end is gone: send() gives up. *)
WriteFails(t) ==
    /\ Writing(t)
    /\ conn \in {"shut", "closed"}
    /\ Unlocked(t)
    /\ UNCHANGED <<server, kernel, up, history>>

(* Mutated: the buffer is written again from its beginning. *)
WriteInterrupted_Again(t) ==
    /\ Writing(t)
    /\ Sending(t, "part1")
    /\ UNCHANGED <<server, kernel, up, holder, history>>

(* EINTR is not told from an error either: what was written stays.          *)
WriteInterrupted(t) ==
    /\ Writing(t) /\ ~Windows
    /\ Unlocked(t)
    /\ cuts' = IF sender[t].at = "part2" THEN cuts \cup {Len(sent)} ELSE cuts
    /\ UNCHANGED <<server, kernel, up, sent, got>>

(* The library is unloaded: nobody is sending any more. *)
HangUp ==
    /\ up /\ ~hungUp
    /\ \A t \in Senders : sender[t].at = "out"
    /\ hungUp' = TRUE
    /\ UNCHANGED <<server, listening, conn, stream, client, history>>

Sender(t) == Lock(t) \/ Write(t) \/ WriteFails(t)

-----------------------------------------------------------------------------
Next ==
    \/ Reader \/ ReadInterrupted
    \/ BeginClose \/ Closer
    \/ Connect \/ HangUp
    \/ \E t \in Senders : StartSend(t) \/ Sender(t) \/ WriteInterrupted(t)

(* No fairness for signals, nor for close() to be called. *)
Fairness ==
    /\ WF_vars(Reader)
    /\ WF_vars(Closer)
    /\ \A t \in Senders : SF_vars(Sender(t))

Spec == Init /\ [][Next]_vars /\ Fairness

-----------------------------------------------------------------------------
(* The pipe keeps the promise of a channel: no message is mixed up with     *)
(* another sender's, cut or overtaken, however the writes and reads are     *)
(* split; only behind a message that a signal left half-written, after      *)
(* which write_all gives up on a connection that goes on, anything may come.*)
Promise == INSTANCE Channel
KeepsPromise == Promise!Spec

(* A descriptor is never left to nobody: when the pipe is destroyed both    *)
(* sockets are closed, the connection too that was accepted while close()   *)
(* was under way.                                                           *)
NothingLeftOpen ==
    closer.at = "done" => ~listening /\ fd = None /\ conn \in {None, "closed"}

(* close() ends the reader, whatever it is doing.  The exceptions, of which *)
(* each waits for a client that is silent: on Linux it stored the accepted  *)
(* connection after close() had looked at m_fd; on Windows it had loaded    *)
(* the handle, but the call began between CancelIoEx and CloseHandle.       *)
ReaderEnds ==
    ~valid ~> \/ reader.at = "ended"
              \/ fd # None /\ closer.at = "join"
              \/ reader.blocked /\ closer.at = "close"

(* A thread of the game that sends is not held up for ever: while the pipe  *)
(* is in use the server reads, and afterwards the call fails.  The          *)
(* exception: a signal ended the reader, and nobody has called close() yet. *)
SendReturns ==
    \A t \in Senders :
        sender[t].at # "out" ~> sender[t].at = "out" \/ (reader.at = "ended" /\ valid)

(* Nobody is left waiting on the pipe once it is being closed.              *)
NobodyIsStuck == ReaderEnds /\ SendReturns

=============================================================================
