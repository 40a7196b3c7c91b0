------------------------------- MODULE Channel -------------------------------
(***************************************************************************)
(* What a pipe between a game and the host promises: messages arrive whole *)
(* and in one order, in which each sender's messages keep the order they   *)
(* were sent in.  Nothing is said of how many arrive: the connection may   *)
(* end at any time.  A message may be left half-written; nothing is        *)
(* promised of what comes behind it.                                       *)
(***************************************************************************)
EXTENDS Naturals, Sequences

CONSTANTS
    Senders,
    MaxSends      \* bound: messages of one sender

VARIABLES
    sent,     \* the messages, in the order in which they were sent
    got,      \* the messages the other side has received
    cuts      \* how many had been sent when one was left half-written

Message(t, n) == [from |-> t, no |-> n]

Init == sent = <<>> /\ got = <<>> /\ cuts = {}

(* A later message of t than those before. *)
Send(t) ==
    /\ \E n \in 1 .. MaxSends :
          /\ \A i \in DOMAIN sent : sent[i].from = t => sent[i].no < n
          /\ sent' = Append(sent, Message(t, n))
    /\ UNCHANGED <<got, cuts>>

Cut ==
    /\ cuts' = cuts \cup {Len(sent)}
    /\ UNCHANGED <<sent, got>>

Receive ==
    LET next == Len(got) + 1 IN
    /\ Len(got') = next
    /\ SubSeq(got', 1, Len(got)) = got
    /\ (\A c \in cuts : next <= c) => next <= Len(sent) /\ got'[next] = sent[next]
    /\ UNCHANGED <<sent, cuts>>

Next == Receive \/ Cut \/ \E t \in Senders : Send(t)

Spec == Init /\ [][Next]_<<sent, got, cuts>>
=============================================================================
