--------------------------- MODULE IpcPipe_proofs ---------------------------
(***************************************************************************)
(* Proofs about IpcPipe: for any number of senders, messages and parts in  *)
(* the buffer, on both systems, the pipe implements Channel, and nothing   *)
(* is left open when it is destroyed.                                      *)
(*                                                                         *)
(* The messages.  What was written is what the reader has taken followed   *)
(* by the stream, so a part's place says which message it belongs to: the  *)
(* parts of message m are written 2m-1st and 2m-th, until a message is     *)
(* left half-written.  The mutex keeps the second part behind the first.   *)
(*                                                                         *)
(* The descriptors.  An open connection is known to the reader that has    *)
(* just accepted it, to m_fd or to the thread that took it out of m_fd; so *)
(* when close() and the reader are done only m_fd can have it.             *)
(***************************************************************************)
EXTENDS IpcPipe, SequenceTheorems, TLAPS

Messages == [from : Senders, no : 1 .. MaxSends]
Parts == [from : Senders, no : 1 .. MaxSends, part : {1, 2}]

ReaderSteps == {"wait", "poll", "accept", "accepted", "connect", "connecting",
                "receive", "readHeader", "body", "readBody", "ended"}
CloserSteps == {"out", "take", "shutdown", "close", "takeServer", "closeServer", "join", "done"}

Types ==
    /\ build \in {"linux", "windows"}
    /\ fd \in {None, "conn"}
    /\ conn \in {None, "queued", "open", "shut", "closed"}
    /\ reader \in [at : ReaderSteps, use : {None, "conn"}, header : Parts \cup {NoPart},
                   blocked : BOOLEAN]
    /\ closer \in [at : CloserSteps, use : {None, "conn"}]
    /\ sender \in [Senders -> [at : {"out", "lock", "part1", "part2"}, no : 0 .. MaxSends]]
    /\ stream \in Seq(Parts)
    /\ sent \in Seq(Messages)
    /\ got \in Seq([from : Senders \cup {None}, no : 0 .. MaxSends])
    /\ cuts \subseteq 0 .. Len(sent)

-----------------------------------------------------------------------------
(* The descriptors.                                                         *)

Receiving == reader.at \in {"receive", "readHeader", "body", "readBody", "ended"}
InRead == Reading /\ reader.use # None

OnLinux ==
    build = "linux" =>
        /\ closer.at \in {"out", "take", "shutdown", "close", "takeServer"} => sfd # None
        /\ closer.at \in {"join", "done"} => ~listening /\ conn # "queued"
        /\ fd # None \/ closer.at \in {"shutdown", "close"} => Receiving
        /\ closer.at = "close" => conn = "shut"
        /\ conn = "open" => reader.at = "accepted" \/ fd # None \/ closer.at = "shutdown"
        /\ conn = "shut" => /\ closer.at \in {"close", "takeServer", "closeServer", "join"}
                            /\ closer.at = "close" \/ InRead
        /\ reader.at = "accept" /\ listening => conn = "queued"

OnWindows ==
    build = "windows" =>
        /\ reader.at \notin {"poll", "accept", "accepted"}
        /\ closer.at \notin {"takeServer", "closeServer"}
        /\ closer.at \in {"out", "take"} => fd = "conn"
        /\ closer.at \in {"shutdown", "close", "join", "done"} => fd = None
        /\ closer.at \in {"join", "done"} => ~listening /\ conn \in {None, "closed"}
        /\ conn \in {None, "open", "closed"}

Closed == closer.at = "done" => fd = None /\ conn \in {None, "closed"} /\ reader.at = "ended"

Descriptors == OnLinux /\ OnWindows /\ Closed

-----------------------------------------------------------------------------
(* The messages.                                                            *)

(* One thread writes at a time, later messages than it sent before. *)
Ordered ==
    /\ \A t \in Senders : Writing(t) => holder = t
    /\ \A t \in Senders, i \in DOMAIN sent : sent[i].from = t =>
        /\ sent[i].no <= sender[t].no
        /\ sender[t].at # "out" => sent[i].no < sender[t].no
    /\ \A t \in Senders : sender[t].at # "out" => sender[t].no >= 1

HasHeader == reader.at \in {"body", "readBody"}

(* The number of parts the reader has taken. *)
Taken == 2 * Len(got) + (IF HasHeader THEN 1 ELSE 0)

Part(m, k) == [from |-> sent[m].from, no |-> sent[m].no, part |-> k]

(* A message on its way is where its number says, if it was sent before any *)
(* message was left half-written.                                           *)
InPlace(m) ==
    /\ 2 * m - Taken \in DOMAIN stream
    /\ stream[2 * m - Taken] = Part(m, 2)
    /\ IF 2 * m - 1 = Taken THEN reader.header = Part(m, 1)
       ELSE stream[2 * m - 1 - Taken] = Part(m, 1)

OnTheirWay ==
    \A m \in Len(got) + 1 .. Len(sent) : (\A c \in cuts : m <= c) => InPlace(m)

(* As long as none was, only the last part written can be without its       *)
(* second: its sender is about to write that, or cannot write any more.     *)
LastPart == IF stream = <<>> THEN reader.header ELSE stream[Len(stream)]

Half == Taken + Len(stream) = 2 * Len(sent) + 1

LastIsHalf ==
    cuts = {} =>
        /\ Taken + Len(stream) \in {2 * Len(sent), 2 * Len(sent) + 1}
        /\ Half => conn \in {"shut", "closed"} \/ \E t \in Senders : sender[t].at = "part2"
        /\ \A t \in Senders : sender[t].at = "part2" =>
            Half /\ LastPart = [from |-> t, no |-> sender[t].no, part |-> 1]

Lined == reader.at # "ended" => OnTheirWay /\ LastIsHalf

IInv == Types /\ Descriptors /\ Ordered /\ Lined
-----------------------------------------------------------------------------
(* A step of the reader that has nothing to do with the connection. *)
LEMMA ReaderMoves ==
    ASSUME Types, Descriptors, reader.at \notin {"ended", "accepted"},
           UNCHANGED <<build, sfd, closer, listening, fd, conn>>,
           Windows => reader'.at \notin {"poll", "accept", "accepted"},
           Receiving => Receiving',
           InRead => InRead',
           reader'.at = "accept" => conn = "queued"
    PROVE  Descriptors'
<1>1. OnLinux'
  BY DEF None, Types, Descriptors, OnLinux
<1>2. OnWindows'
  BY DEF None, Types, Descriptors, OnWindows, Windows
<1>3. Closed'
  BY DEF Descriptors, Closed
<1>. QED
  BY <1>1, <1>2, <1>3 DEF Descriptors

(* A read that returns lets go of a connection closed under it. *)
LEMMA ReadReturns ==
    ASSUME Types, Descriptors, Reading, AfterRead,
           UNCHANGED <<build, sfd, closer, listening, fd>>,
           reader'.at \in {"ended", "body", "receive"}
    PROVE  Descriptors'
<1>1. ~Reading' /\ Receiving' /\ Receiving
  BY DEF Reading, Receiving
<1>2. OnLinux'
  BY <1>1 DEF None, Types, Descriptors, OnLinux, AfterRead, InRead, Reading, Receiving
<1>3. OnWindows'
  BY DEF None, Types, Descriptors, OnWindows, AfterRead
<1>4. Closed'
  BY DEF Descriptors, Closed, Reading
<1>. QED
  BY <1>2, <1>3, <1>4 DEF Descriptors

LEMMA ReaderDescriptors ==
    ASSUME Types, Descriptors, Reader \/ ReadInterrupted
    PROVE  Descriptors'
<1>1. CASE LookWhetherValid
  BY <1>1, ReaderMoves DEF LookWhetherValid, ReaderAt, Windows, Types, kernel, Receiving, InRead, Reading
<1>2. CASE Poll
  <2>1. ~Windows
    BY <1>2 DEF Poll, Descriptors, OnWindows, Windows
  <2>. QED
    BY <1>2, <2>1, ReaderMoves DEF Poll, ReaderAt, Types, kernel, Receiving, InRead, Reading
<1>3. CASE Accept
  <2>1. /\ UNCHANGED <<build, sfd, closer, listening, fd>>
        /\ \/ reader'.at = "accepted" /\ listening /\ conn' = "open"
           \/ reader'.at = "ended" /\ ~(sfd # None /\ listening) /\ conn' = conn
        /\ reader.at = "accept"
    BY <1>3 DEF Accept, ReaderAt, Types
  <2>2. build = "linux"
    BY <2>1 DEF None, Types, Descriptors, OnWindows
  <2>3. fd = None /\ closer.at \notin {"shutdown", "close"} /\ conn \notin {"open", "shut"}
    BY <2>1, <2>2 DEF None, Descriptors, OnLinux, Receiving, InRead, Reading
  <2>4. OnLinux'
    BY <2>1, <2>2, <2>3 DEF None, Descriptors, OnLinux
  <2>5. OnWindows' /\ Closed'
    BY <2>1, <2>2 DEF None, Descriptors, OnWindows, Closed
  <2>. QED
    BY <2>4, <2>5 DEF Descriptors
<1>4. CASE StoreFd
  <2>1. /\ UNCHANGED <<build, sfd, closer, listening, conn>>
        /\ fd' = "conn"
        /\ reader'.at = "receive" /\ reader.at = "accepted"
    BY <1>4 DEF StoreFd, ReaderAt, Types, kernel
  <2>2. build = "linux"
    BY <2>1 DEF None, Types, Descriptors, OnWindows
  <2>3. OnLinux'
    BY <2>1, <2>2 DEF None, Descriptors, OnLinux, Receiving, InRead, Reading
  <2>4. OnWindows' /\ Closed'
    BY <2>1, <2>2 DEF None, Descriptors, OnWindows, Closed
  <2>. QED
    BY <2>3, <2>4 DEF Descriptors
<1>5. CASE LoadFd
  <2>1. \/ reader.at = "connect" /\ reader'.at = "connecting"
        \/ reader.at = "receive" /\ reader'.at = "readHeader"
        \/ reader.at = "body" /\ reader'.at = "readBody"
    BY <1>5 DEF LoadFd, Loading, Types
  <2>. QED
    BY <1>5, <2>1, ReaderMoves DEF LoadFd, kernel, Receiving, InRead, Reading
<1>6. CASE ConnectPipe
  <2>1. reader.at = "connecting" /\ reader'.at \in {"receive", "ended"}
    BY <1>6 DEF ConnectPipe, Ended, Types
  <2>. QED
    BY <1>6, <2>1, ReaderMoves DEF ConnectPipe, kernel, Receiving, InRead, Reading
<1>7. CASE BeginsToWait
  <2>1. reader.at \in {"connecting", "readHeader", "readBody"}
        /\ reader'.at = reader.at /\ reader'.use = reader.use
    BY <1>7 DEF BeginsToWait, Reading, Types
  <2>. QED
    BY <1>7, <2>1, ReaderMoves DEF BeginsToWait, kernel, Receiving, InRead, Reading
<1>8. CASE ReadFails \/ ReadInterrupted
  BY <1>8, ReadReturns DEF ReadFails, ReadInterrupted, ReadEnds, Ended, Types
<1>9. CASE ReadSucceeds
  <2>1. reader'.at \in {"body", "receive"}
    BY <1>9 DEF ReadSucceeds, Types
  <2>. QED
    BY <1>9, <2>1, ReadReturns DEF ReadSucceeds
<1>. QED
  BY <1>1, <1>2, <1>3, <1>4, <1>5, <1>6, <1>7, <1>8, <1>9 DEF Reader

(* The thread in close() hands each descriptor on to the next step. *)
LEMMA CloserDescriptors ==
    ASSUME Types, Descriptors, BeginClose \/ Closer
    PROVE  Descriptors'
<1>1. CASE BeginClose
  <2>1. /\ UNCHANGED <<build, fd, sfd, reader, listening, conn>>
        /\ closer.at = "out" /\ closer'.at = "take"
    BY <1>1 DEF BeginClose, CloserAt, Types, kernel
  <2>. QED
    BY <2>1 DEF None, Descriptors, OnLinux, OnWindows, Closed, Receiving, InRead, Reading
<1>2. CASE TakeFd
  <2>1. /\ UNCHANGED <<build, sfd, reader, listening, conn>>
        /\ closer.at = "take" /\ fd' = None
        /\ closer'.at = IF fd = None THEN "takeServer" ELSE "shutdown"
    BY <1>2 DEF TakeFd, Types, kernel
  <2>2. OnLinux'
    BY <2>1 DEF None, Descriptors, OnLinux, Receiving, InRead, Reading
  <2>3. OnWindows' /\ Closed'
    BY <2>1 DEF None, Descriptors, OnWindows, Closed
  <2>. QED
    BY <2>2, <2>3 DEF Descriptors
<1>3. CASE ShutDown
  <2>1. /\ UNCHANGED <<build, fd, sfd, reader, listening>>
        /\ closer.at = "shutdown" /\ closer'.at = "close" /\ conn' = "shut" /\ build = "linux"
    BY <1>3 DEF ShutDown, CloserAt, Windows, Types
  <2>2. OnLinux'
    BY <2>1 DEF None, Descriptors, OnLinux, Receiving, InRead, Reading
  <2>. QED
    BY <2>1, <2>2 DEF None, Descriptors, OnWindows, Closed
<1>4. CASE CloseFd
  <2>1. /\ UNCHANGED <<build, fd, sfd, reader, listening>>
        /\ closer.at = "close" /\ closer'.at = "takeServer" /\ build = "linux"
        /\ conn' = IF InRead THEN conn ELSE "closed"
    BY <1>4 DEF CloseFd, CloserAt, Windows, Types, InRead
  <2>2. OnLinux'
    BY <2>1 DEF None, Descriptors, OnLinux, Receiving, InRead, Reading
  <2>. QED
    BY <2>1, <2>2 DEF None, Descriptors, OnWindows, Closed
<1>5. CASE CancelIo
  <2>1. /\ UNCHANGED <<build, fd, sfd, listening, conn>>
        /\ closer.at = "shutdown" /\ closer'.at = "close" /\ build = "windows"
        /\ reader'.at \in {reader.at, "ended"}
    BY <1>5 DEF CancelIo, CloserAt, Ended, Windows, Types, kernel
  <2>. QED
    BY <2>1 DEF None, Descriptors, OnLinux, OnWindows, Closed
<1>6. CASE CloseHandle
  <2>1. /\ UNCHANGED <<build, fd, sfd, reader>>
        /\ closer.at = "close" /\ closer'.at = "join" /\ build = "windows"
        /\ ~listening' /\ conn' = IF conn = "open" THEN "closed" ELSE conn
    BY <1>6 DEF CloseHandle, CloserAt, Windows, Types
  <2>. QED
    BY <2>1 DEF None, Descriptors, OnLinux, OnWindows, Closed
<1>7. CASE TakeServerFd
  <2>1. /\ UNCHANGED <<build, fd, reader, listening, conn>>
        /\ closer.at = "takeServer"
        /\ closer'.at = IF sfd = None THEN "join" ELSE "closeServer"
    BY <1>7 DEF TakeServerFd, CloserAt, Types, kernel
  <2>2. build = "linux" /\ sfd # None
    BY <2>1 DEF None, Types, Descriptors, OnLinux, OnWindows
  <2>3. OnLinux'
    BY <2>1, <2>2 DEF None, Descriptors, OnLinux, Receiving, InRead, Reading
  <2>. QED
    BY <2>1, <2>2, <2>3 DEF None, Descriptors, OnWindows, Closed
<1>8. CASE CloseServerFd
  <2>1. /\ UNCHANGED <<build, fd, sfd, reader>>
        /\ closer.at = "closeServer" /\ closer'.at = "join"
        /\ ~listening' /\ conn' = IF conn = "queued" THEN "closed" ELSE conn
    BY <1>8 DEF CloseServerFd, CloserAt, Types
  <2>2. build = "linux"
    BY <2>1 DEF None, Types, Descriptors, OnWindows
  <2>3. OnLinux'
    BY <2>1, <2>2 DEF None, Descriptors, OnLinux, Receiving, InRead, Reading
  <2>. QED
    BY <2>1, <2>2, <2>3 DEF None, Descriptors, OnWindows, Closed
<1>9. CASE Join
  <2>1. /\ UNCHANGED <<build, sfd, reader, listening>>
        /\ closer.at = "join" /\ closer'.at = "done" /\ reader.at = "ended"
        /\ fd' = None /\ conn' = IF fd = None THEN conn ELSE "closed"
    BY <1>9 DEF Join, CloserAt, Types
  <2>2. conn' \in {None, "closed"}
    BY <2>1 DEF None, Types, Descriptors, OnLinux, OnWindows, InRead, Reading
  <2>. QED
    BY <2>1, <2>2 DEF None, Descriptors, OnLinux, OnWindows, Closed
<1>. QED
  BY <1>1, <1>2, <1>3, <1>4, <1>5, <1>6, <1>7, <1>8, <1>9 DEF Closer

(* The client can connect only while the server's socket is open. *)
LEMMA ClientDescriptors ==
    ASSUME Types, Descriptors,
           \/ Connect \/ HangUp
           \/ \E t \in Senders : StartSend(t) \/ Sender(t) \/ WriteInterrupted(t)
    PROVE  Descriptors'
<1>1. CASE Connect
  <2>1. /\ UNCHANGED <<build, fd, sfd, reader, closer, listening>>
        /\ conn = None /\ listening
        /\ conn' = IF build = "windows" THEN "open" ELSE "queued"
    BY <1>1 DEF Connect, Windows, server
  <2>2. OnLinux'
    BY <2>1 DEF None, Descriptors, OnLinux, Receiving, InRead, Reading
  <2>3. OnWindows' /\ Closed'
    BY <2>1 DEF None, Types, Descriptors, OnLinux, OnWindows, Closed
  <2>. QED
    BY <2>2, <2>3 DEF Descriptors
<1>2. CASE ~Connect
  <2>1. UNCHANGED <<server, listening, conn>>
    BY <1>2 DEF HangUp, StartSend, Sender, Lock, Write, WriteFails, WriteInterrupted, kernel
  <2>. QED
    BY <2>1 DEF server, Descriptors, OnLinux, OnWindows, Closed, Receiving, InRead, Reading
<1>. QED
  BY <1>1, <1>2
-----------------------------------------------------------------------------
(* Types. *)

LEMMA ReaderTypes ==
    ASSUME Types, Reader \/ ReadInterrupted
    PROVE  Types'
<1>1. NoPart \in Parts \cup {NoPart} /\ None \in {None, "conn"}
  OBVIOUS
<1>2. CASE LookWhetherValid \/ Poll \/ Accept \/ StoreFd \/ BeginsToWait
  BY ZenonT(60), <1>2 DEF LookWhetherValid, Poll, Accept, StoreFd, BeginsToWait, ReaderAt, kernel,
      client,
              history, Types, ReaderSteps
<1>3. CASE LoadFd
  <2>1. Loading[reader.at] \in ReaderSteps
    BY <1>3 DEF LoadFd, Loading, ReaderSteps
  <2>. QED
    BY <1>3, <2>1 DEF LoadFd, kernel, client, history, Types
<1>4. CASE ConnectPipe
  BY <1>1, <1>4 DEF ConnectPipe, Ended, kernel, client, history, Types, ReaderSteps
<1>5. CASE ReadFails \/ ReadInterrupted
  BY <1>1, <1>5 DEF ReadFails, ReadInterrupted, ReadEnds, AfterRead, Ended, client, history, Types,
                    ReaderSteps
<1>6. CASE ReadSucceeds
  <2>1. Head(stream) \in Parts /\ Tail(stream) \in Seq(Parts)
    BY <1>6, HeadTailProperties DEF ReadSucceeds, Types
  <2>2. reader' \in [at : ReaderSteps, use : {None, "conn"}, header : Parts \cup {NoPart},
                     blocked : BOOLEAN]
    BY ZenonT(60), <1>6, <2>1 DEF ReadSucceeds, Types, ReaderSteps
  <2>3. got' \in Seq([from : Senders \cup {None}, no : 0 .. MaxSends])
    <3> DEFINE G == [from : Senders \cup {None}, no : 0 .. MaxSends]
               m == IF Whole(reader.header, Head(stream))
                    THEN [from |-> reader.header.from, no |-> reader.header.no] ELSE Garbage
    <3>1. m \in G
      <4>1. reader.header.from \in Senders \cup {None} /\ reader.header.no \in 0 .. MaxSends
        BY PipeAssumption DEF Types, Parts, NoPart
      <4>2. Garbage \in [from : Senders \cup {None}, no : 0 .. MaxSends]
        BY PipeAssumption DEF Garbage
      <4>. QED
        BY <4>1, <4>2
    <3>2. got' = got \/ got' = Append(got, m)
      BY <1>6 DEF ReadSucceeds
    <3>3. got \in Seq(G)
      BY DEF Types
    <3> HIDE DEF m, G
    <3>4. got' \in Seq(G)
      BY <3>1, <3>2, <3>3, AppendProperties
    <3>. QED
      BY <3>4 DEF G
  <2>. QED
    BY <1>6, <2>1, <2>2, <2>3 DEF ReadSucceeds, AfterRead, client, Types
<1>. QED
  BY <1>2, <1>3, <1>4, <1>5, <1>6 DEF Reader

LEMMA CloserTypes ==
    ASSUME Types, BeginClose \/ Closer
    PROVE  Types'
<1>1. reader' = reader \/ reader' = Ended
  BY DEF BeginClose, Closer, TakeFd, Join, ShutDown, CloseFd, TakeServerFd, CloseServerFd, CancelIo,
         CloseHandle
<1>2. Ended \in [at : ReaderSteps, use : {None, "conn"}, header : Parts \cup {NoPart},
                 blocked : BOOLEAN]
  BY DEF Ended, Types, ReaderSteps
<1>3. /\ build' = build /\ fd' \in {fd, None} /\ conn' \in {conn, "shut", "closed"}
      /\ UNCHANGED <<stream, client, history>>
  BY DEF BeginClose, Closer, TakeFd, Join, ShutDown, CloseFd, TakeServerFd, CloseServerFd, CancelIo,
         CloseHandle, kernel
<1>4. closer' \in [at : CloserSteps, use : {None, "conn"}]
  BY DEF BeginClose, Closer, TakeFd, Join, ShutDown, CloseFd, TakeServerFd, CloseServerFd, CancelIo,
         CloseHandle, CloserAt, Types, CloserSteps
<1>. QED
  BY <1>1, <1>2, <1>3, <1>4 DEF Types, client, history

ClientStep ==
    \/ Connect \/ HangUp
    \/ \E t \in Senders : StartSend(t) \/ Sender(t) \/ WriteInterrupted(t)

(* A step of one thread that sends. *)
LEMMA SenderGoes ==
    ASSUME Types, NEW t \in Senders, NEW step \in {"out", "lock", "part1", "part2"},
           sender' = [sender EXCEPT ![t].at = step]
    PROVE  /\ sender' \in [Senders -> [at : {"out", "lock", "part1", "part2"}, no : 0 .. MaxSends]]
           /\ sender'[t].at = step /\ sender'[t].no = sender[t].no
           /\ \A u \in Senders \ {t} : sender'[u] = sender[u]
<1>1. sender[t] \in [at : {"out", "lock", "part1", "part2"}, no : 0 .. MaxSends]
  BY DEF Types
<1>2. sender'[t] = [sender[t] EXCEPT !.at = step]
  BY DEF Types
<1>3. sender'[t].at = step /\ sender'[t].no = sender[t].no
  BY <1>1, <1>2
<1>4. [sender[t] EXCEPT !.at = step] \in [at : {"out", "lock", "part1", "part2"}, no : 0 .. MaxSends]
  BY <1>1
<1>. QED
  BY <1>2, <1>3, <1>4 DEF Types

(* The part a thread writes next, and the message it will have sent. *)
LEMMA PartTypes ==
    ASSUME Types, Ordered, NEW t \in Senders, Writing(t)
    PROVE  /\ sender[t].no \in 1 .. MaxSends
           /\ [from |-> t, no |-> sender[t].no] \in Messages
           /\ \A k \in {1, 2} : [from |-> t, no |-> sender[t].no, part |-> k] \in Parts
<1>1. sender[t].no \in 0 .. MaxSends /\ sender[t].no >= 1
  BY DEF Types, Ordered, Writing
<1>. QED
  BY <1>1, PipeAssumption DEF Messages, Parts

LEMMA ClientTypes ==
    ASSUME Types, Ordered, ClientStep
    PROVE  Types'
<1>1. CASE Connect \/ HangUp
  BY <1>1 DEF Connect, HangUp, server, client, history, Types
<1>2. ASSUME NEW t \in Senders, StartSend(t) PROVE Types'
  <2>1. sender[t].no + 1 \in 0 .. MaxSends
    BY <1>2, PipeAssumption DEF StartSend, Types
  <2>. QED
    BY <1>2, <2>1 DEF StartSend, server, kernel, history, Types
<1>3. ASSUME NEW t \in Senders, Lock(t) \/ WriteFails(t) PROVE Types'
  BY <1>3, SenderGoes DEF Lock, WriteFails, Sending, Unlocked, server, kernel, history, Types
<1>4. ASSUME NEW t \in Senders, Write(t) PROVE Types'
  <2>1. sender' \in [Senders -> [at : {"out", "lock", "part1", "part2"}, no : 0 .. MaxSends]]
    BY <1>4, SenderGoes DEF Write, Sending, Unlocked
  <2>2. stream' \in Seq(Parts)
    BY <1>4, PartTypes, AppendProperties DEF Write, Types
  <2>3. sent' \in Seq(Messages) /\ Len(sent') >= Len(sent)
    <3>1. \/ sent' = sent
          \/ sent' = Append(sent, [from |-> t, no |-> sender[t].no])
      BY <1>4 DEF Write
    <3>2. [from |-> t, no |-> sender[t].no] \in Messages /\ sent \in Seq(Messages)
      BY <1>4, PartTypes DEF Write, Types
    <3>. QED
      BY <3>1, <3>2, AppendProperties, LenProperties
  <2>4. cuts' \subseteq 0 .. Len(sent')
    BY <1>4, <2>3, LenProperties DEF Write, Types
  <2>. QED
    BY <1>4, <2>1, <2>2, <2>3, <2>4 DEF Write, server, Types
<1>5. ASSUME NEW t \in Senders, WriteInterrupted(t) PROVE Types'
  <2>1. Len(sent) \in 0 .. Len(sent)
    BY LenProperties DEF Types
  <2>2. cuts' \subseteq 0 .. Len(sent)
    BY <1>5, <2>1 DEF WriteInterrupted, Types
  <2>. QED
    BY <1>5, <2>2, SenderGoes DEF WriteInterrupted, Unlocked, server, kernel, Types
<1>. QED
  BY <1>1, <1>2, <1>3, <1>4, <1>5 DEF ClientStep, Sender

-----------------------------------------------------------------------------
(* The mutex and the numbers of the messages. *)
LEMMA OrderKept ==
    ASSUME Types, Ordered, ClientStep
    PROVE  Ordered'
<1>0. "none" \notin Senders /\ \A t \in Senders : sender[t].no \in Nat
  BY PipeAssumption DEF Types
<1>1. CASE Connect \/ HangUp
  BY <1>1 DEF Connect, HangUp, client, history, Ordered, Writing
<1>2. ASSUME NEW t \in Senders, StartSend(t) PROVE Ordered'
  <2>1. /\ sender'[t] = [at |-> "lock", no |-> sender[t].no + 1]
        /\ \A u \in Senders \ {t} : sender'[u] = sender[u]
        /\ UNCHANGED <<holder, sent>> /\ sender[t].at = "out"
    BY <1>2 DEF StartSend, history, Types
  <2>2. \A i \in DOMAIN sent : sent[i].no \in Nat
    <3>1. \A i \in DOMAIN sent : sent[i] \in Messages
      BY ElementOfSeq, LenProperties DEF Types
    <3>. QED
      BY <3>1, PipeAssumption DEF Messages
  <2>. QED
    BY <1>0, <2>1, <2>2 DEF Ordered, Writing
<1>3. ASSUME NEW t \in Senders, Lock(t) PROVE Ordered'
  <2>1. /\ sender'[t].at = "part1" /\ sender'[t].no = sender[t].no
        /\ \A u \in Senders \ {t} : sender'[u] = sender[u]
        /\ holder = None /\ holder' = t /\ UNCHANGED sent /\ sender[t].at = "lock"
    BY <1>3, SenderGoes DEF Lock, Sending, history
  <2>2. \A u \in Senders : ~Writing(u)
    BY <1>0, <2>1 DEF Ordered, None
  <2>. QED
    BY <2>1, <2>2 DEF Ordered, Writing
<1>4. ASSUME NEW t \in Senders, Write(t) PROVE Ordered'
  <2>1. sender[t].at \in {"part1", "part2"}
    BY <1>4 DEF Write, Writing
  <2>2. /\ sender'[t].no = sender[t].no
        /\ sender'[t].at = IF sender[t].at = "part1" THEN "part2" ELSE "out"
        /\ \A u \in Senders \ {t} : sender'[u] = sender[u]
    BY <1>4, <2>1, SenderGoes DEF Write, Sending, Unlocked
  <2>3. \A u \in Senders \ {t} : ~Writing(u)
    BY <1>4 DEF Ordered, Write
  <2>4. CASE sender[t].at = "part1"
    <3>1. UNCHANGED <<holder, sent>>
      BY <1>4, <2>4 DEF Write
    <3>. QED
      BY <2>1, <2>2, <2>4, <3>1 DEF Ordered, Writing
  <2>5. CASE sender[t].at = "part2"
    <3>1. sent' = Append(sent, [from |-> t, no |-> sender[t].no])
      BY <1>4, <2>5 DEF Write
    <3>2. \A i \in DOMAIN sent' : \/ i \in DOMAIN sent /\ sent'[i] = sent[i]
                                  \/ sent'[i] = [from |-> t, no |-> sender[t].no]
      BY <1>4, <3>1, PartTypes, AppendProperties, LenProperties DEF Types
    <3>3. \A u \in Senders, i \in DOMAIN sent' : sent'[i].from = u =>
            /\ sent'[i].no <= sender'[u].no
            /\ sender'[u].at # "out" => sent'[i].no < sender'[u].no
      BY <1>0, <2>2, <2>5, <3>2 DEF Ordered
    <3>4. \A u \in Senders : ~Writing(u)'
      BY <2>2, <2>3, <2>5 DEF Writing
    <3>5. \A u \in Senders : sender'[u].at # "out" => sender'[u].no >= 1
      BY <2>2, <2>5 DEF Ordered
    <3>. QED
      BY <3>3, <3>4, <3>5 DEF Ordered
  <2>. QED
    BY <2>1, <2>4, <2>5
<1>5. ASSUME NEW t \in Senders, WriteFails(t) \/ WriteInterrupted(t) PROVE Ordered'
  <2>1. /\ sender'[t].at = "out" /\ sender'[t].no = sender[t].no
        /\ \A u \in Senders \ {t} : sender'[u] = sender[u]
        /\ UNCHANGED sent /\ Writing(t)
    BY <1>5, SenderGoes DEF WriteFails, WriteInterrupted, Unlocked, history
  <2>2. \A u \in Senders \ {t} : ~Writing(u)
    BY <2>1 DEF Ordered
  <2>. QED
    BY <2>1, <2>2 DEF Ordered, Writing
<1>. QED
  BY <1>1, <1>2, <1>3, <1>4, <1>5 DEF ClientStep, Sender

(* The server has no part in it. *)
LEMMA ServerKeepsOrder ==
    ASSUME Ordered, Reader \/ ReadInterrupted \/ BeginClose \/ Closer
    PROVE  Ordered' /\ UNCHANGED <<client, sent, cuts>>
<1>1. UNCHANGED <<client, sent, cuts>>
  BY DEF Reader, ReadInterrupted, BeginClose, Closer, LookWhetherValid, Poll, Accept, StoreFd, LoadFd,
         ConnectPipe, BeginsToWait, ReadFails, ReadSucceeds, ReadEnds, TakeFd, Join, ShutDown, CloseFd,
         TakeServerFd, CloseServerFd, CancelIo, CloseHandle, history
<1>. QED
  BY <1>1 DEF client, Ordered, Writing
-----------------------------------------------------------------------------
(* The messages on their way. *)

LEMMA Sizes ==
    ASSUME Types
    PROVE  /\ Len(sent) \in Nat /\ Len(got) \in Nat /\ Len(stream) \in Nat
           /\ DOMAIN sent = 1 .. Len(sent) /\ DOMAIN stream = 1 .. Len(stream)
           /\ \A c \in cuts : c \in Nat /\ c <= Len(sent)
           /\ stream = <<>> <=> Len(stream) = 0
<1>. USE DEF Types
<1>1. Len(sent) \in Nat /\ DOMAIN sent = 1 .. Len(sent)
  BY LenProperties
<1>2. Len(stream) \in Nat /\ DOMAIN stream = 1 .. Len(stream)
  BY LenProperties
<1>3. Len(got) \in Nat
  BY LenProperties
<1>4. stream = <<>> <=> Len(stream) = 0
  BY EmptySeq
<1>. QED
  BY <1>1, <1>2, <1>3, <1>4

(* A step that neither writes nor reads. *)
LEMMA LinedKept ==
    ASSUME Types, Lined, UNCHANGED <<stream, got, sender, sent, cuts>>,
           \/ reader'.at = "ended"
           \/ reader.at # "ended" /\ HasHeader' = HasHeader /\ reader'.header = reader.header,
           conn \in {"shut", "closed"} => conn' \in {"shut", "closed"}
    PROVE  Lined'
<1>. SUFFICES ASSUME reader'.at # "ended" PROVE OnTheirWay' /\ LastIsHalf'
  BY DEF Lined
<1>1. OnTheirWay /\ LastIsHalf
  BY DEF Lined
<1>2. Taken' = Taken /\ Half' = Half /\ LastPart' = LastPart
  BY DEF Taken, Half, LastPart
<1>3. \A m : InPlace(m)' = InPlace(m)
  BY <1>2 DEF InPlace, Part
<1>4. OnTheirWay'
  BY <1>1, <1>3 DEF OnTheirWay
<1>5. LastIsHalf'
  BY <1>1, <1>2 DEF LastIsHalf
<1>. QED
  BY <1>4, <1>5

(* A reader that reads takes the first part of the stream. *)
LEMMA ReadLined ==
    ASSUME Types, Lined, ReadSucceeds
    PROVE  Lined'
<1>0. /\ reader.at \in {"readHeader", "readBody"}
      /\ stream # <<>> /\ stream' = Tail(stream) /\ conn \in {"open", "shut"}
      /\ UNCHANGED <<sender, sent, cuts>>
      /\ conn = "shut" => conn' \in {"shut", "closed"}
  BY DEF ReadSucceeds, Reading, AfterRead, client
<1>1. /\ Len(stream') = Len(stream) - 1 /\ DOMAIN stream' = 1 .. Len(stream) - 1
      /\ \A i \in 1 .. Len(stream) - 1 : stream'[i] = stream[i + 1]
      /\ stream' = <<>> <=> Len(stream) = 1
      /\ Head(stream) = stream[1]
  <2>1. stream \in Seq(Parts) /\ stream # <<>>
    BY <1>0 DEF Types
  <2>2. /\ Tail(stream) \in Seq(Parts) /\ Len(Tail(stream)) = Len(stream) - 1
        /\ \A i \in 1 .. Len(Tail(stream)) : Tail(stream)[i] = stream[i + 1]
    BY <2>1, HeadTailProperties
  <2>3. DOMAIN Tail(stream) = 1 .. Len(Tail(stream))
    BY <2>2, LenProperties
  <2>4. Tail(stream) = <<>> <=> Len(Tail(stream)) = 0
    BY <2>2, EmptySeq
  <2>5. Head(stream) = stream[1]
    OBVIOUS
  <2>. QED
    BY <1>0, <2>2, <2>3, <2>4, <2>5, Sizes
<1>2. OnTheirWay /\ LastIsHalf /\ reader.at # "ended"
  BY <1>0 DEF Lined
<1>3. Len(sent) \in Nat /\ Len(got) \in Nat /\ Len(stream) \in Nat /\ Len(stream) >= 1
      /\ DOMAIN stream = 1 .. Len(stream)
  BY <1>0, Sizes
<1>4. CASE reader.at = "readHeader"
  <2>1. reader'.at = "body" /\ reader'.header = stream[1] /\ got' = got
    BY <1>1, <1>4 DEF ReadSucceeds, Types
  <2>2. Taken = 2 * Len(got) /\ Taken' = 2 * Len(got) + 1
    BY <1>4, <2>1 DEF Taken, HasHeader
  <2>3. ASSUME NEW m \in Len(got) + 1 .. Len(sent), InPlace(m) PROVE InPlace(m)'
    <3>1. m \in Int /\ m >= Len(got) + 1
      BY <1>3
    <3>2. 2 * m - Taken \in 1 .. Len(stream) /\ stream[2 * m - Taken] = Part(m, 2)
      BY <1>3, <2>3 DEF InPlace
    <3>3. stream[2 * m - 1 - Taken] = Part(m, 1)
      BY <1>3, <2>2, <2>3, <3>1 DEF InPlace
    <3>4. 2 * m - Taken' \in DOMAIN stream' /\ stream'[2 * m - Taken'] = Part(m, 2)
      <4>1. 2 * m - Taken' \in 1 .. Len(stream) - 1 /\ 2 * m - Taken' + 1 = 2 * m - Taken
        BY <1>3, <2>2, <3>1, <3>2
      <4>. QED
        BY <1>1, <3>2, <4>1
    <3>5. CASE 2 * m - 1 = Taken'
      <4>1. 2 * m - 1 - Taken = 1
        BY <1>3, <2>2, <3>1, <3>5
      <4>. QED
        BY <1>0, <2>1, <3>3, <3>4, <3>5, <4>1 DEF InPlace, Part
    <3>6. CASE 2 * m - 1 # Taken'
      <4>1. 2 * m - 1 - Taken' \in 1 .. Len(stream) - 1 /\ 2 * m - 1 - Taken' + 1 = 2 * m - 1 - Taken
        BY <1>3, <2>2, <3>1, <3>2, <3>6
      <4>2. stream'[2 * m - 1 - Taken'] = Part(m, 1)
        BY <1>1, <3>3, <4>1
      <4>. QED
        BY <1>0, <3>4, <3>6, <4>2 DEF InPlace, Part
    <3>. QED
      BY <3>5, <3>6
  <2>4. OnTheirWay'
    BY <1>0, <1>2, <2>1, <2>3 DEF OnTheirWay
  <2>5. Taken' + Len(stream') = Taken + Len(stream)
    BY <1>1, <1>3, <2>2
  <2>6. LastPart' = LastPart
    BY <1>0, <1>1, <1>3, <2>1 DEF LastPart
  <2>7. LastIsHalf'
    BY <1>0, <1>2, <2>5, <2>6 DEF LastIsHalf, Half
  <2>. QED
    BY <2>4, <2>7 DEF Lined
<1>5. CASE reader.at = "readBody"
  <2>1. reader'.at = "receive" /\ Len(got') = Len(got) + 1
    <3>1. reader'.at = "receive"
      BY <1>5 DEF ReadSucceeds, Types
    <3>2. \E x : got' = Append(got, x)
      BY <1>5 DEF ReadSucceeds
    <3>. QED
      BY <3>1, <3>2 DEF Types
  <2>2. Taken = 2 * Len(got) + 1 /\ Taken' = 2 * Len(got) + 2
    BY <1>3, <1>5, <2>1 DEF Taken, HasHeader
  <2>3. ASSUME NEW m \in Len(got) + 2 .. Len(sent), InPlace(m) PROVE InPlace(m)'
    <3>1. m \in Int /\ m >= Len(got) + 2
      BY <1>3
    <3>2. 2 * m - Taken \in 1 .. Len(stream) /\ stream[2 * m - Taken] = Part(m, 2)
      BY <1>3, <2>3 DEF InPlace
    <3>3. stream[2 * m - 1 - Taken] = Part(m, 1)
      BY <1>3, <2>2, <2>3, <3>1 DEF InPlace
    <3>4. 2 * m - Taken' \in DOMAIN stream' /\ stream'[2 * m - Taken'] = Part(m, 2)
      <4>1. 2 * m - Taken' \in 1 .. Len(stream) - 1 /\ 2 * m - Taken' + 1 = 2 * m - Taken
        BY <1>3, <2>2, <3>1, <3>2
      <4>. QED
        BY <1>1, <3>2, <4>1
    <3>5. 2 * m - 1 - Taken' \in 1 .. Len(stream) - 1 /\ 2 * m - 1 - Taken' + 1 = 2 * m - 1 - Taken
      BY <1>3, <2>2, <3>1, <3>2
    <3>6. stream'[2 * m - 1 - Taken'] = Part(m, 1)
      BY <1>1, <3>3, <3>5
    <3>7. 2 * m - 1 # Taken'
      BY <1>3, <2>2, <3>1
    <3>. QED
      BY <1>0, <3>4, <3>6, <3>7 DEF InPlace, Part
  <2>4. OnTheirWay'
    <3>1. ASSUME NEW m \in Len(got') + 1 .. Len(sent'), \A c \in cuts' : m <= c PROVE InPlace(m)'
      <4>1. m \in Len(got) + 1 .. Len(sent) /\ m \in Len(got) + 2 .. Len(sent)
        BY <1>0, <1>3, <2>1
      <4>2. InPlace(m)
        BY <1>0, <1>2, <3>1, <4>1 DEF OnTheirWay
      <4>. QED
        BY <2>3, <4>1, <4>2
    <3>. QED
      BY <3>1 DEF OnTheirWay
  <2>5. Taken' + Len(stream') = Taken + Len(stream)
    BY <1>1, <1>3, <2>2
  <2>6. Half => LastPart' = LastPart
    <3>1. Half => Len(stream) > 1
      BY <1>3, <2>2 DEF Half
    <3>. QED
      BY <1>0, <1>1, <1>3, <3>1 DEF LastPart
  <2>7. LastIsHalf'
    BY <1>0, <1>2, <2>5, <2>6 DEF LastIsHalf, Half
  <2>. QED
    BY <2>4, <2>7 DEF Lined
<1>. QED
  BY <1>0, <1>4, <1>5
(* One that writes puts its part behind the stream. *)
LEMMA WriteLined ==
    ASSUME Types, Ordered, Lined, NEW t \in Senders, Write(t)
    PROVE  Lined'
<1> DEFINE k == IF sender[t].at = "part1" THEN 1 ELSE 2
           part == [from |-> t, no |-> sender[t].no, part |-> k]
<1>0. /\ sender[t].at \in {"part1", "part2"} /\ conn \in {"queued", "open"}
      /\ stream' = Append(stream, part)
      /\ UNCHANGED <<reader, got, cuts, conn>>
  BY DEF Write, Writing, server
<1>. SUFFICES ASSUME reader.at # "ended" PROVE OnTheirWay' /\ LastIsHalf'
  BY <1>0 DEF Lined
<1>1. OnTheirWay /\ LastIsHalf
  BY DEF Lined
<1>2. /\ Len(stream') = Len(stream) + 1 /\ DOMAIN stream' = 1 .. Len(stream) + 1
      /\ \A i \in 1 .. Len(stream) : stream'[i] = stream[i]
      /\ stream'[Len(stream) + 1] = part
      /\ stream' # <<>>
  <2>1. stream \in Seq(Parts) /\ part \in Parts
    BY <1>0, PartTypes DEF Types, Writing
  <2> HIDE DEF part
  <2>2. /\ Append(stream, part) \in Seq(Parts)
        /\ Len(Append(stream, part)) = Len(stream) + 1
        /\ \A i \in 1 .. Len(stream) : Append(stream, part)[i] = stream[i]
        /\ Append(stream, part)[Len(stream) + 1] = part
        /\ Append(stream, part) # <<>>
    BY <2>1, AppendProperties
  <2>3. DOMAIN Append(stream, part) = 1 .. Len(Append(stream, part))
    BY <2>2, LenProperties
  <2>. QED
    BY <1>0, <2>2, <2>3
<1>3. /\ Len(sent) \in Nat /\ Len(got) \in Nat /\ Len(stream) \in Nat
      /\ DOMAIN stream = 1 .. Len(stream) /\ DOMAIN sent = 1 .. Len(sent)
      /\ stream = <<>> <=> Len(stream) = 0
      /\ \A c \in cuts : c \in Nat /\ c <= Len(sent)
  BY Sizes
<1>4. Taken' = Taken /\ Taken \in Nat
  BY <1>0, <1>3 DEF Taken, HasHeader
<1>5. \A u \in Senders \ {t} : sender[u].at # "part2" /\ sender'[u] = sender[u]
  <2>1. \A u \in Senders \ {t} : ~Writing(u)
    BY <1>0 DEF Ordered, Writing
  <2>2. \A u \in Senders \ {t} : sender'[u] = sender[u]
    BY SenderGoes DEF Write, Sending, Unlocked
  <2>. QED
    BY <2>1, <2>2 DEF Writing
<1> HIDE DEF part
<1>6. ASSUME NEW m \in Len(got) + 1 .. Len(sent), InPlace(m), sent'[m] = sent[m]
      PROVE  InPlace(m)'
  <2>1. 2 * m - Taken \in 1 .. Len(stream) /\ stream[2 * m - Taken] = Part(m, 2)
    BY <1>3, <1>6 DEF InPlace
  <2>2. stream'[2 * m - Taken] = Part(m, 2) /\ 2 * m - Taken \in DOMAIN stream'
    BY <1>2, <1>3, <2>1
  <2>3. CASE 2 * m - 1 = Taken
    BY <1>0, <1>4, <1>6, <2>2, <2>3 DEF InPlace, Part
  <2>4. CASE 2 * m - 1 # Taken
    <3>1. 2 * m - 1 - Taken \in 1 .. Len(stream)
      <4>1. 2 * m - Taken # 1 /\ m \in Int
        BY <1>3, <1>4, <2>4
      <4>. QED
        BY <1>3, <1>4, <2>1, <4>1
    <3>2. stream'[2 * m - 1 - Taken] = Part(m, 1)
      BY <1>2, <1>6, <2>4, <3>1 DEF InPlace
    <3>. QED
      BY <1>4, <1>6, <2>2, <2>4, <3>2 DEF InPlace, Part
  <2>. QED
    BY <2>3, <2>4
<1>7. CASE sender[t].at = "part1"
  <2>1. UNCHANGED sent /\ sender'[t].at = "part2" /\ sender'[t].no = sender[t].no
    BY <1>7, SenderGoes DEF Write, Sending
  <2>2. OnTheirWay'
    BY <1>0, <1>1, <1>6, <2>1 DEF OnTheirWay
  <2>3. LastIsHalf'
    <3>. SUFFICES ASSUME cuts = {}
                  PROVE  /\ Taken' + Len(stream') \in {2 * Len(sent'), 2 * Len(sent') + 1}
                         /\ Half' => conn' \in {"shut", "closed"} \/ \E u \in Senders : sender'[u].at = "part2"
                         /\ \A u \in Senders : sender'[u].at = "part2" =>
                              Half' /\ LastPart' = [from |-> u, no |-> sender'[u].no, part |-> 1]
      BY <1>0 DEF LastIsHalf
    <3>1. ~ Half
      BY <1>0, <1>1, <1>5, <1>7 DEF LastIsHalf
    <3>2. Half'
      BY <1>1, <1>2, <1>3, <1>4, <2>1, <3>1 DEF LastIsHalf, Half
    <3>3. Taken' + Len(stream') = 2 * Len(sent') + 1
      BY <3>2 DEF Half
    <3>4. LastPart' = [from |-> t, no |-> sender[t].no, part |-> 1]
      BY <1>2, <1>7 DEF LastPart, part
    <3>. QED
      BY <1>5, <2>1, <3>2, <3>3, <3>4
  <2>. QED
    BY <2>2, <2>3
<1>8. CASE sender[t].at = "part2"
  <2>1. /\ sender'[t].at = "out"
        /\ Len(sent') = Len(sent) + 1
        /\ \A i \in 1 .. Len(sent) : sent'[i] = sent[i]
        /\ sent'[Len(sent) + 1] = [from |-> t, no |-> sender[t].no]
    <3>1. sender'[t].at = "out" /\ sent' = Append(sent, [from |-> t, no |-> sender[t].no])
      BY <1>8, SenderGoes DEF Write, Unlocked
    <3>2. sent \in Seq(Messages) /\ [from |-> t, no |-> sender[t].no] \in Messages
      BY <1>0, PartTypes DEF Types, Writing
    <3>. QED
      BY <3>1, <3>2, AppendProperties
  <2>2. ASSUME cuts = {}, NEW m \in Nat, m = Len(sent) + 1 PROVE InPlace(m)'
    <3>1. Half /\ LastPart = [from |-> t, no |-> sender[t].no, part |-> 1]
      BY <1>1, <1>8, <2>2 DEF LastIsHalf
    <3>2. 2 * m - Taken = Len(stream) + 1
      BY <1>3, <1>4, <2>2, <3>1 DEF Half
    <3>3. stream'[Len(stream) + 1] = Part(m, 2)' /\ Len(stream) + 1 \in DOMAIN stream'
      BY <1>2, <1>3, <1>8, <2>1, <2>2 DEF Part, part
    <3>4. LastPart = Part(m, 1)'
      BY <2>1, <2>2, <3>1 DEF Part
    <3>5. CASE 2 * m - 1 = Taken
      <4>1. Len(stream) = 0
        BY <1>3, <1>4, <3>2, <3>5
      <4>2. reader'.header = Part(m, 1)'
        BY <1>0, <1>3, <3>4, <4>1 DEF LastPart
      <4>. QED
        BY <1>4, <3>2, <3>3, <3>5, <4>2 DEF InPlace
    <3>6. CASE 2 * m - 1 # Taken
      <4>1. Len(stream) # 0 /\ 2 * m - 1 - Taken = Len(stream)
        BY <1>3, <1>4, <3>2, <3>6
      <4>2. stream'[Len(stream)] = Part(m, 1)'
        BY <1>2, <1>3, <3>4, <4>1 DEF LastPart
      <4>. QED
        BY <1>4, <3>2, <3>3, <3>6, <4>1, <4>2 DEF InPlace
    <3>. QED
      BY <3>5, <3>6
  <2>3. OnTheirWay'
    <3>1. ASSUME NEW m \in Len(got') + 1 .. Len(sent'), \A c \in cuts' : m <= c PROVE InPlace(m)'
      <4>1. m \in Len(got) + 1 .. Len(sent) \/ m = Len(sent) + 1
        BY <1>0, <1>3, <2>1
      <4>2. CASE m \in Len(got) + 1 .. Len(sent)
        <5>1. InPlace(m) /\ sent'[m] = sent[m]
          BY <1>0, <1>1, <1>3, <2>1, <3>1, <4>2 DEF OnTheirWay
        <5>. QED
          BY <1>6, <4>2, <5>1
      <4>3. CASE m = Len(sent) + 1
        <5>1. cuts = {}
          BY <1>0, <1>3, <3>1, <4>3
        <5>2. m \in Nat
          BY <1>3, <4>3
        <5>. QED
          BY <2>2, <4>3, <5>1, <5>2
      <4>. QED
        BY <4>1, <4>2, <4>3
    <3>. QED
      BY <3>1 DEF OnTheirWay
  <2>4. LastIsHalf'
    <3>. SUFFICES ASSUME cuts = {}
                  PROVE  /\ Taken' + Len(stream') \in {2 * Len(sent'), 2 * Len(sent') + 1}
                         /\ ~ Half'
                         /\ \A u \in Senders : sender'[u].at # "part2"
      BY <1>0 DEF LastIsHalf
    <3>1. Taken + Len(stream) = 2 * Len(sent) + 1
      BY <1>1, <1>8 DEF LastIsHalf, Half
    <3>2. Taken' + Len(stream') = 2 * Len(sent')
      BY <1>2, <1>3, <1>4, <2>1, <3>1
    <3>3. ~ Half'
      BY <1>3, <2>1, <3>2 DEF Half
    <3>. QED
      BY <1>5, <2>1, <3>2, <3>3
  <2>. QED
    BY <2>3, <2>4
<1>. QED
  BY <1>0, <1>7, <1>8
(* One that gives up leaves its first part alone in the stream. *)
LEMMA GivesUpLined ==
    ASSUME Types, Ordered, Lined, NEW t \in Senders, WriteFails(t) \/ WriteInterrupted(t)
    PROVE  Lined'
<1>0. /\ sender'[t].at = "out" /\ \A u \in Senders \ {t} : sender'[u] = sender[u]
      /\ UNCHANGED <<reader, conn, stream, got, sent>>
      /\ Writing(t)
  BY SenderGoes DEF WriteFails, WriteInterrupted, Unlocked, server, kernel, history
<1>. SUFFICES ASSUME reader.at # "ended" PROVE OnTheirWay' /\ LastIsHalf'
  BY <1>0 DEF Lined
<1>1. OnTheirWay /\ LastIsHalf
  BY DEF Lined
<1>2. Taken' = Taken /\ Half' = Half /\ LastPart' = LastPart /\ HasHeader' = HasHeader
  BY <1>0 DEF Taken, Half, LastPart, HasHeader
<1>3. \A m : InPlace(m)' = InPlace(m)
  BY <1>0, <1>2 DEF InPlace, Part
<1>4. cuts \subseteq cuts'
  BY DEF WriteFails, WriteInterrupted, history
<1>5. OnTheirWay'
  BY <1>0, <1>1, <1>3, <1>4 DEF OnTheirWay
<1>6. LastIsHalf'
  <2>. SUFFICES ASSUME cuts' = {} PROVE LastIsHalf'
    BY DEF LastIsHalf
  <2>1. cuts = {}
    BY <1>4
  <2>2. Half => conn \in {"shut", "closed"} \/ \E u \in Senders \ {t} : sender[u].at = "part2"
    <3>1. CASE WriteFails(t)
      BY <3>1 DEF WriteFails
    <3>2. CASE WriteInterrupted(t)
      <4>1. sender[t].at # "part2"
        BY <3>2 DEF WriteInterrupted
      <4>. QED
        BY <1>1, <2>1, <4>1 DEF LastIsHalf
    <3>. QED
      BY <3>1, <3>2
  <2>. QED
    BY <1>0, <1>1, <1>2, <2>1, <2>2 DEF LastIsHalf
<1>. QED
  BY <1>5, <1>6

(* Before a thread has the mutex it has written nothing. *)
LEMMA ClientLined ==
    ASSUME Types, Ordered, Lined, ClientStep
    PROVE  Lined'
<1>1. CASE Connect \/ HangUp
  <2>1. /\ UNCHANGED <<reader, stream, got, sender, sent, cuts>>
        /\ conn \in {"shut", "closed"} => conn' = conn
    BY <1>1 DEF Connect, HangUp, server, client, history, None
  <2>. QED
    BY <2>1, LinedKept DEF HasHeader, Lined
<1>2. ASSUME NEW t \in Senders, StartSend(t) \/ Lock(t) PROVE Lined'
  <2>1. /\ sender[t].at # "part2" /\ sender'[t].at # "part2"
        /\ \A u \in Senders \ {t} : sender'[u] = sender[u]
        /\ UNCHANGED <<reader, conn, stream, got, sent, cuts>>
    <3>1. CASE StartSend(t)
      BY <3>1 DEF StartSend, server, kernel, history, Types
    <3>2. CASE Lock(t)
      BY <3>2, SenderGoes DEF Lock, Sending, server, kernel, history
    <3>. QED
      BY <1>2, <3>1, <3>2
  <2>2. Taken' = Taken /\ Half' = Half /\ LastPart' = LastPart /\ HasHeader' = HasHeader
    BY <2>1 DEF Taken, Half, LastPart, HasHeader
  <2>3. \A m : InPlace(m)' = InPlace(m)
    BY <2>1, <2>2 DEF InPlace, Part
  <2>4. LastIsHalf => LastIsHalf'
    BY <2>1, <2>2 DEF LastIsHalf
  <2>. QED
    BY <2>1, <2>3, <2>4 DEF Lined, OnTheirWay
<1>. QED
  BY <1>1, <1>2, WriteLined, GivesUpLined DEF ClientStep, Sender

(* The server's other steps read and write nothing; a connection that was   *)
(* shut stays so.                                                           *)
LEMMA ServerLined ==
    ASSUME Types, Descriptors, Lined, Reader \/ ReadInterrupted \/ BeginClose \/ Closer
    PROVE  Lined'
<1>1. CASE ReadSucceeds
  BY <1>1, ReadLined
<1>2. CASE LookWhetherValid \/ Poll \/ StoreFd \/ LoadFd \/ BeginsToWait
  <2>1. UNCHANGED <<stream, got, sender, sent, cuts, conn>> /\ reader'.header = reader.header
    BY <1>2 DEF LookWhetherValid, Poll, StoreFd, LoadFd, BeginsToWait, ReaderAt, kernel, client, history,
                Types
  <2>2. reader.at # "ended" /\ HasHeader' = HasHeader
    <3>1. CASE LookWhetherValid \/ Poll \/ StoreFd \/ BeginsToWait
      BY <3>1 DEF LookWhetherValid, Poll, StoreFd, BeginsToWait, Reading, ReaderAt, HasHeader, Types
    <3>2. CASE LoadFd
      BY <3>2 DEF LoadFd, Loading, HasHeader, Types
    <3>. QED
      BY <1>2, <3>1, <3>2
  <2>. QED
    BY <2>1, <2>2, LinedKept
<1>3. CASE Accept
  <2>1. reader.at = "accept"
    BY <1>3 DEF Accept
  <2>2. build = "linux"
    BY <2>1 DEF Types, Descriptors, OnWindows
  <2>3. conn \in {"shut", "closed"} => conn' = conn
    BY <1>3, <2>1, <2>2 DEF Accept, Descriptors, OnLinux
  <2>4. reader'.at \in {"accepted", "ended"} /\ reader'.header = reader.header
        /\ UNCHANGED <<stream, got, sender, sent, cuts>>
    BY <1>3 DEF Accept, ReaderAt, client, history, Types
  <2>. QED
    BY <2>1, <2>3, <2>4, LinedKept DEF HasHeader
<1>4. CASE ConnectPipe
  <2>1. UNCHANGED <<stream, got, sender, sent, cuts, conn>> /\ reader.at = "connecting"
    BY <1>4 DEF ConnectPipe, kernel, client, history
  <2>2. \/ reader'.at = "ended"
        \/ reader'.at = "receive" /\ reader'.header = reader.header
    BY <1>4 DEF ConnectPipe, Ended, Types
  <2>. QED
    BY <2>1, <2>2, LinedKept DEF HasHeader
<1>5. CASE ReadFails \/ ReadInterrupted
  <2>1. reader'.at = "ended"
    BY <1>5 DEF ReadFails, ReadInterrupted, ReadEnds, Ended, Types
  <2>. QED
    BY <2>1 DEF Lined
<1>6. CASE BeginClose \/ Closer
  <2>1. UNCHANGED <<stream, got, sender, sent, cuts>>
    BY <1>6 DEF BeginClose, Closer, TakeFd, Join, ShutDown, CloseFd, TakeServerFd, CloseServerFd, CancelIo,
                CloseHandle, kernel, client, history
  <2>2. conn \in {"shut", "closed"} => conn' \in {"shut", "closed"}
    BY <1>6 DEF BeginClose, Closer, TakeFd, Join, ShutDown, CloseFd, TakeServerFd, CloseServerFd, CancelIo,
                CloseHandle, kernel
  <2>3. reader' = reader \/ reader'.at = "ended"
    BY <1>6 DEF BeginClose, Closer, TakeFd, Join, ShutDown, CloseFd, TakeServerFd, CloseServerFd, CancelIo,
                CloseHandle, Ended, Types
  <2>. QED
    BY <2>1, <2>2, <2>3, LinedKept DEF HasHeader, Lined
<1>. QED
  BY <1>1, <1>2, <1>3, <1>4, <1>5, <1>6 DEF Reader

-----------------------------------------------------------------------------
LEMMA InitHolds == Init => IInv
<1>. SUFFICES ASSUME Init PROVE IInv
  OBVIOUS
<1>1. Types
  <2>1. build \in {"linux", "windows"}
    BY PipeAssumption DEF Init
  <2>2. 0 \in 0 .. MaxSends
    BY PipeAssumption
  <2>3. sender \in [Senders -> [at : {"out", "lock", "part1", "part2"}, no : 0 .. MaxSends]]
    BY <2>2 DEF Init
  <2>4. stream \in Seq(Parts) /\ sent \in Seq(Messages)
        /\ got \in Seq([from : Senders \cup {None}, no : 0 .. MaxSends])
    BY DEF Init
  <2>5. reader \in [at : ReaderSteps, use : {None, "conn"}, header : Parts \cup {NoPart},
                    blocked : BOOLEAN]
    BY DEF Init, ReaderSteps
  <2>. QED
    BY <2>1, <2>3, <2>4, <2>5 DEF Init, Types, CloserSteps
<1>2. Descriptors
  BY DEF Init, None, Windows, Descriptors, OnLinux, OnWindows, Closed, Receiving
<1>3. Ordered
  <2>1. \A t \in Senders : sender[t].at = "out"
    BY DEF Init
  <2>2. DOMAIN sent = {}
    BY DEF Init
  <2>. QED
    BY <2>1, <2>2 DEF Ordered, Writing
<1>4. Lined
  <2>1. Len(sent) = 0 /\ Len(got) = 0 /\ Len(stream) = 0 /\ Taken = 0
    BY DEF Init, Taken, HasHeader
  <2>2. \A t \in Senders : sender[t].at = "out"
    BY DEF Init
  <2>. QED
    BY <2>1, <2>2 DEF Lined, OnTheirWay, LastIsHalf, Half
<1>. QED
  BY <1>1, <1>2, <1>3, <1>4 DEF IInv

LEMMA NextKeeps == IInv /\ [Next]_vars => IInv'
<1>. SUFFICES ASSUME IInv, [Next]_vars PROVE IInv'
  OBVIOUS
<1>. USE DEF IInv
<1>1. CASE Reader \/ ReadInterrupted
  BY <1>1, ReaderTypes, ReaderDescriptors, ServerKeepsOrder, ServerLined
<1>2. CASE BeginClose \/ Closer
  BY <1>2, CloserTypes, CloserDescriptors, ServerKeepsOrder, ServerLined
<1>3. CASE ClientStep
  BY <1>3, ClientTypes, ClientDescriptors, OrderKept, ClientLined DEF ClientStep
<1>4. CASE UNCHANGED vars
  <2>1. Types' /\ Ordered'
    BY <1>4 DEF vars, server, kernel, client, history, Types, Ordered, Writing
  <2>2. Descriptors'
    BY <1>4 DEF vars, server, kernel, Descriptors, OnLinux, OnWindows, Closed, Receiving, InRead, Reading
  <2>3. Lined'
    BY <1>4, LinedKept DEF vars, server, kernel, client, history, HasHeader, Lined
  <2>. QED
    BY <2>1, <2>2, <2>3
<1>. QED
  BY <1>1, <1>2, <1>3, <1>4 DEF Next, ClientStep

(* The invariant the theorems below rest on. *)
THEOREM PipeHolds == Spec => []IInv
<1>. QED
  BY InitHolds, NextKeeps, PTL DEF Spec

(* When the pipe is destroyed, also with an accept or a read under way,     *)
(* the server's socket, the connection and m_fd are closed.                 *)
THEOREM NothingLeftOpenEverywhere == Spec => []NothingLeftOpen
<1>1. IInv => NothingLeftOpen
  <2>. SUFFICES ASSUME IInv, closer.at = "done" PROVE ~listening /\ fd = None /\ conn \in {None, "closed"}
    BY DEF NothingLeftOpen
  <2>. QED
    BY DEF IInv, Types, Descriptors, OnLinux, OnWindows, Closed
<1>. QED
  BY <1>1, PipeHolds, PTL
-----------------------------------------------------------------------------
(* The pipe implements the channel: a message is sent when its second part  *)
(* is written and received when its second part is read.                    *)

LEMMA WritesAreSends ==
    ASSUME IInv, NEW t \in Senders, Write(t)
    PROVE  Promise!Send(t) \/ UNCHANGED <<sent, got, cuts>>
<1>1. CASE sender[t].at = "part1"
  BY <1>1 DEF Write
<1>2. CASE sender[t].at # "part1"
  <2>1. /\ UNCHANGED <<got, cuts>>
        /\ sent' = Append(sent, Promise!Message(t, sender[t].no))
    BY <1>2 DEF Write, Promise!Message
  <2>2. sender[t].no \in 1 .. MaxSends
    BY PartTypes DEF Write, IInv
  <2>3. \A i \in DOMAIN sent : sent[i].from = t => sent[i].no < sender[t].no
    BY DEF Write, Writing, IInv, Ordered
  <2>. QED
    BY <2>1, <2>2, <2>3 DEF Promise!Send
<1>. QED
  BY <1>1, <1>2

(* What the reader puts together from two parts is the message that is due. *)
LEMMA ReadsReceive ==
    ASSUME IInv, ReadSucceeds
    PROVE  Promise!Receive \/ UNCHANGED <<sent, got, cuts>>
<1>1. UNCHANGED <<sent, cuts>> /\ stream # <<>> /\ reader.at \in {"readHeader", "readBody"}
  BY DEF ReadSucceeds, Reading
<1>2. CASE reader.at = "readHeader"
  BY <1>1, <1>2 DEF ReadSucceeds
<1>3. CASE reader.at = "readBody"
  <2> DEFINE m == IF Whole(reader.header, Head(stream))
                  THEN [from |-> reader.header.from, no |-> reader.header.no] ELSE Garbage
             next == Len(got) + 1
             G == [from : Senders \cup {None}, no : 0 .. MaxSends]
  <2>1. got' = Append(got, m)
    BY <1>3 DEF ReadSucceeds
  <2>2. got \in Seq(G) /\ got' \in Seq(G)
    <3>1. Types /\ Types'
      BY ReaderTypes DEF IInv, Reader
    <3>. QED
      BY <3>1 DEF Types
  <2>3. Len(got') = next /\ \A i \in 1 .. Len(got) : got'[i] = got[i] /\ got'[next] = m
    <3> HIDE DEF m, G
    <3>1. got \in Seq(G)
      BY <2>2
    <3>. QED
      BY <2>1, <3>1
  <2>4. got'[next] = m
    <3> HIDE DEF m, G
    <3>. QED
      BY <2>1, <2>2
  <2>5. SubSeq(got', 1, Len(got)) = got
    <3> HIDE DEF m, G, next
    <3>1. Len(got) \in Nat /\ Len(got') = Len(got) + 1
      BY <2>2, <2>3, LenProperties DEF next
    <3>2. /\ SubSeq(got', 1, Len(got)) \in Seq(G)
          /\ Len(SubSeq(got', 1, Len(got))) = Len(got)
          /\ \A i \in 1 .. Len(got) : SubSeq(got', 1, Len(got))[i] = got'[i]
      BY <2>2, <3>1
    <3>. QED
      BY <2>2, <2>3, <3>2, SeqEqual
  <2>6. ASSUME \A c \in cuts : next <= c PROVE next <= Len(sent) /\ m = sent[next]
    <3>1. OnTheirWay /\ LastIsHalf /\ Types
      BY <1>3 DEF IInv, Lined
    <3>2. Len(sent) \in Nat /\ Len(got) \in Nat /\ Len(stream) \in Nat /\ Len(stream) >= 1
      BY <1>1, <3>1, Sizes
    <3>3. Taken = 2 * Len(got) + 1
      BY <1>3 DEF Taken, HasHeader
    <3>4. next <= Len(sent)
      <4>1. CASE cuts = {}
        BY <3>1, <3>2, <3>3, <4>1 DEF LastIsHalf
      <4>2. CASE cuts # {}
        BY <2>6, <3>1, <3>2, <4>2, Sizes
      <4>. QED
        BY <4>1, <4>2
    <3>5. InPlace(next)
      BY <2>6, <3>1, <3>2, <3>4 DEF OnTheirWay
    <3>6. stream[1] = Part(next, 2) /\ reader.header = Part(next, 1)
      BY <3>2, <3>3, <3>5 DEF InPlace
    <3>7. Head(stream) = stream[1]
      OBVIOUS
    <3>8. m = [from |-> sent[next].from, no |-> sent[next].no]
      BY <3>6, <3>7 DEF Whole, Part
    <3>9. sent[next] \in Messages
      BY <3>1, <3>2, <3>4, ElementOfSeq DEF Types
    <3>. QED
      BY <3>4, <3>8, <3>9 DEF Messages
  <2>. QED
    BY <1>1, <2>3, <2>4, <2>5, <2>6 DEF Promise!Receive
<1>. QED
  BY <1>1, <1>2, <1>3

(* The refinement: for any number of threads, of messages and of parts that *)
(* fit into the buffer, and whoever closes when, messages arrive whole and  *)
(* in order, up to one that a signal left half-written.                     *)
THEOREM PipeImplementsChannel == Spec => KeepsPromise
<1>1. Init => Promise!Init
  BY DEF Init, Promise!Init
<1>2. IInv /\ [Next]_vars => [Promise!Next]_<<sent, got, cuts>>
  <2>. SUFFICES ASSUME IInv, [Next]_vars
                PROVE  Promise!Next \/ UNCHANGED <<sent, got, cuts>>
    OBVIOUS
  <2>1. CASE ReadSucceeds
    BY <2>1, ReadsReceive DEF Promise!Next
  <2>2. ASSUME NEW t \in Senders, Write(t) PROVE Promise!Next \/ UNCHANGED <<sent, got, cuts>>
    BY <2>2, WritesAreSends DEF Promise!Next
  <2>3. ASSUME NEW t \in Senders, WriteInterrupted(t)
        PROVE  Promise!Next \/ UNCHANGED <<sent, got, cuts>>
    BY <2>3 DEF WriteInterrupted, Promise!Next, Promise!Cut
  <2>4. CASE (Reader /\ ~ReadSucceeds) \/ ReadInterrupted \/ BeginClose \/ Closer
    BY <2>4 DEF Reader, ReadInterrupted, BeginClose, Closer, LookWhetherValid, Poll, Accept, StoreFd,
                LoadFd, ConnectPipe, BeginsToWait, ReadFails, ReadEnds, TakeFd, Join, ShutDown, CloseFd,
                TakeServerFd, CloseServerFd, CancelIo, CloseHandle, history
  <2>5. CASE Connect \/ HangUp \/ UNCHANGED vars
    BY <2>5 DEF Connect, HangUp, vars, history
  <2>6. ASSUME NEW t \in Senders, StartSend(t) \/ Lock(t) \/ WriteFails(t)
        PROVE  UNCHANGED <<sent, got, cuts>>
    BY <2>6 DEF StartSend, Lock, WriteFails, history
  <2>. QED
    BY <2>1, <2>2, <2>3, <2>4, <2>5, <2>6 DEF Next, Sender
<1>. QED
  BY <1>1, <1>2, PipeHolds, PTL DEF Spec, KeepsPromise, Promise!Spec
=============================================================================
