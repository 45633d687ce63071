---------------------------- MODULE Connection ----------------------------
(***************************************************************************)
(* One Connection (core/tcp_server.cc, core/socket_context.cc) between its *)
(* EventLoop and its peer: edge-triggered reading until the kernel's       *)
(* buffer is empty, OnRecv, SendMassage with its fast path past            *)
(* write_buffer_, the write event that sends the rest, and the interest    *)
(* set that asks for it.                                                   *)
(*                                                                         *)
(* TCP keeps the order of what it carries, so what the peer sends is       *)
(* counted; what the server sends is numbered in the order in which        *)
(* SendMassage took it, because the code itself can change that order.     *)
(* The peer's units make up requests; the application answers a request it *)
(* has seen whole with one message, from within OnRecv.                    *)
(***************************************************************************)
EXTENDS Naturals, Sequences

CONSTANTS MaxSent,          \* bound: units the peer sends
          MaxMessage,       \* bound: units of a message
          SndBuf,           \* capacity of the kernel's send buffer
          Intruders         \* bound: messages from other code on the loop's thread

ASSUME BoundAssumption == /\ MaxSent \in Nat
                          /\ MaxMessage \in Nat \ {0}
                          /\ SndBuf \in Nat \ {0}
                          /\ Intruders \in Nat

VARIABLES calm,             \* requests come one at a time, only answers are sent
          sent,             \* units the peer has sent
          fin,              \* the peer has shut down its sending side
          read,             \* units moved to read_buffer_
          seen,             \* units that were there at an OnRecv
          ends,             \* the last unit sent that ends a request
          answered,         \* the last unit whose request is answered
          taken,            \* units SendMassage has taken
          intruded,         \* messages from elsewhere so far
          wbuf,             \* write_buffer_
          snd,              \* the kernel's send buffer
          got,              \* what the peer has received
          out,              \* events & EPOLLOUT, and so the epoll interest
          armed,            \* the descriptor is in epoll's ready list
          ev,               \* cur_ev.events
          open,             \* in socket_ctxs_, and so in the epoll set
          lpc               \* where the loop is

input == <<calm, sent, ends, fin, read, seen>>
output == <<taken, wbuf, snd, got, out>>
vars == <<calm, sent, ends, fin, read, seen, answered, taken, intruded, wbuf, snd, got, out,
          armed, ev, open, lpc>>

Readable == read < sent \/ fin
Writable == Len(snd) < SndBuf
Mask(o) == {e \in {"in", "out"} : (e = "in" => Readable) /\ (e = "out" => o /\ Writable)}

Init == /\ calm \in BOOLEAN
        /\ sent = 0 /\ ends = 0 /\ fin = FALSE /\ read = 0 /\ seen = 0
        /\ answered = 0 /\ intruded = 0
        /\ taken = 0 /\ wbuf = <<>> /\ snd = <<>> /\ got = <<>> /\ out = FALSE
        /\ armed = FALSE
        /\ ev = {}
        /\ open = TRUE
        /\ lpc = "wait"

-----------------------------------------------------------------------------
(* The peer and the kernel.  An edge puts the descriptor in the ready list. *)

\* Without pipelining the next request waits for the whole answer.
MaySend == ~calm \/ (answered = ends /\ Len(got) = taken)

PeerSends == /\ ~fin
             /\ sent < MaxSent
             /\ MaySend
             /\ sent' = sent + 1
             /\ ends' \in {ends, sent + 1}
             /\ armed' = open
             /\ UNCHANGED <<calm, fin, read, seen, answered, output, intruded, ev, open, lpc>>

PeerShutsDown == /\ ~fin
                 /\ fin' = TRUE
                 /\ armed' = open
                 /\ UNCHANGED <<calm, sent, ends, read, seen, answered, output, intruded, ev, open, lpc>>

\* Space in a full send buffer is an edge too.
PeerReceives == /\ snd # <<>>
                /\ got' = Append(got, Head(snd))
                /\ snd' = Tail(snd)
                /\ armed' = (armed \/ (open /\ ~Writable))
                /\ UNCHANGED <<input, answered, taken, intruded, wbuf, out, ev, open, lpc>>

-----------------------------------------------------------------------------
(* Sending.                                                                *)

Units(k) == [i \in 1 .. k |-> taken + i]
First(n, s) == SubSeq(s, 1, n)
Rest(n, s) == SubSeq(s, n + 1, Len(s))
Room == SndBuf - Len(snd)
Least(a, b) == IF a < b THEN a ELSE b

\* Connection::SendMassage on the loop's thread: write() at once, whatever
\* write_buffer_ holds; EAGAIN closes the connection.  UpdateSocketContext does
\* nothing when the connection is not in the table; EPOLL_CTL_MOD puts a ready
\* descriptor in the ready list.
SendMassage(k) ==
    /\ taken' = taken + k
    /\ IF Room = 0
       THEN /\ open' = FALSE
            /\ armed' = FALSE
            /\ UNCHANGED <<snd, wbuf, out>>
       ELSE LET n == Least(k, Room)
            IN /\ snd' = snd \o First(n, Units(k))
               /\ wbuf' = wbuf \o Rest(n, Units(k))
               /\ out' = (out \/ n < k)
               /\ armed' = (armed \/ (open /\ n < k /\ Readable))
               /\ UNCHANGED open

\* Other code on the loop's thread sends: another connection's callback, a timer.
IntruderSends(k) == /\ lpc \in {"wait", "fetched"}
                    /\ open
                    /\ ~calm
                    /\ intruded < Intruders
                    /\ intruded' = intruded + 1
                    /\ SendMassage(k)
                    /\ UNCHANGED <<input, answered, got, ev, lpc>>

-----------------------------------------------------------------------------
(* The loop.                                                               *)

\* epoll_wait takes the descriptor off the ready list and tells all there is.
WaitReturns == /\ lpc = "wait"
               /\ armed
               /\ armed' = FALSE
               /\ ev' = Mask(out)
               /\ lpc' = IF Mask(out) = {} THEN "wait" ELSE "fetched"
               /\ UNCHANGED <<input, answered, output, intruded, open>>

\* Other events of the batch come before; then the table is asked, and what it
\* says is dereferenced.
Dispatch == /\ lpc = "fetched"
            /\ lpc' = IF open THEN "event" ELSE "crashed"
            /\ UNCHANGED <<input, answered, output, intruded, armed, ev, open>>

\* Mutant: what was sent stays in the buffer.
HandleWriteKeeping ==
    /\ lpc = "event"
    /\ "out" \in ev
    /\ ev' = ev \ {"out"}
    /\ snd' = snd \o First(Least(Len(wbuf), Room), wbuf)
    /\ out' = (wbuf # <<>>)
    /\ UNCHANGED <<input, answered, taken, intruded, wbuf, got, armed, open, lpc>>

\* Mutant: the interest is given up whatever is left.
HandleWriteOnce ==
    /\ lpc = "event"
    /\ "out" \in ev
    /\ ev' = ev \ {"out"}
    /\ snd' = snd \o First(Least(Len(wbuf), Room), wbuf)
    /\ wbuf' = Rest(Least(Len(wbuf), Room), wbuf)
    /\ out' = FALSE
    /\ armed' = (armed \/ Readable)
    /\ UNCHANGED <<input, answered, taken, intruded, got, open, lpc>>

\* EPOLLOUT: SocketContext::HandleWriteEvent.  When all is sent the interest is
\* given up, by a MOD like any other; when write() fails the context is removed,
\* and the read event of the same batch entry is handled all the same.
HandleWriteEvent ==
    /\ lpc = "event"
    /\ "out" \in ev
    /\ ev' = ev \ {"out"}
    /\ IF wbuf # <<>> /\ Room = 0
       THEN /\ open' = FALSE
            /\ armed' = FALSE
            /\ UNCHANGED <<wbuf, snd, out>>
       ELSE LET n == Least(Len(wbuf), Room)
            IN /\ snd' = snd \o First(n, wbuf)
               /\ wbuf' = Rest(n, wbuf)
               /\ out' = (n < Len(wbuf))
               /\ armed' = (armed \/ (n = Len(wbuf) /\ Readable))
               /\ UNCHANGED open
    /\ UNCHANGED <<input, answered, taken, intruded, got, lpc>>

\* EPOLLIN: Connection::HandleReadEvent begins; without it the entry is done.
StartReading == /\ lpc = "event"
                /\ "out" \notin ev
                /\ lpc' = IF "in" \in ev THEN "reading" ELSE "wait"
                /\ ev' = {}
                /\ UNCHANGED <<input, answered, output, intruded, armed, open>>

ReadSome == /\ lpc = "reading"
            /\ \E n \in 1 .. sent - read : read' = read + n
            /\ UNCHANGED <<calm, sent, ends, fin, seen, answered, output, intruded, armed, ev, open, lpc>>

\* A request has been read whole and not answered.
Due == answered < ends /\ ends <= read

\* OnRecv sees all that was read and answers; a server of pipelined requests may
\* answer when it likes.
OnRecv == /\ seen' = read
          /\ \/ /\ Due \/ ~calm
                /\ answered' = IF Due THEN ends ELSE answered
                /\ \E k \in 1 .. MaxMessage : SendMassage(k)
             \/ /\ ~Due \/ ~calm
                /\ UNCHANGED <<answered, taken, wbuf, snd, out, armed, open>>

\* Mutant: one read, not all.
ReadOnce == /\ lpc = "reading"
            /\ OnRecv
            /\ lpc' = "wait"
            /\ UNCHANGED <<calm, sent, ends, fin, read, got, intruded, ev>>

\* EAGAIN.
ReadAgain == /\ lpc = "reading"
             /\ ~Readable
             /\ OnRecv
             /\ lpc' = "wait"
             /\ UNCHANGED <<calm, sent, ends, fin, read, got, intruded, ev>>

\* read() returned 0: the context is removed, OnRecv is not called.
ReadEof == /\ lpc = "reading"
           /\ read = sent
           /\ fin
           /\ open' = FALSE
           /\ armed' = FALSE
           /\ lpc' = "wait"
           /\ UNCHANGED <<input, answered, output, intruded, ev>>

LoopNext == \/ WaitReturns \/ Dispatch \/ HandleWriteEvent
            \/ StartReading \/ ReadSome \/ ReadAgain \/ ReadEof

Next == \/ PeerSends \/ PeerShutsDown \/ PeerReceives
        \/ LoopNext
        \/ \E k \in 1 .. MaxMessage : IntruderSends(k)

Spec == Init /\ [][Next]_vars

\* The loop runs; the peer receives what it is sent.
FairSpec == Spec /\ WF_vars(LoopNext) /\ WF_vars(PeerReceives)

-----------------------------------------------------------------------------
(* Properties.                                                             *)

InputOK == /\ sent \in Nat /\ ends \in 0 .. sent /\ read \in 0 .. sent /\ seen \in 0 .. read
           /\ answered \in 0 .. ends /\ answered <= seen

OutputOK == /\ taken \in Nat /\ intruded \in 0 .. Intruders
            /\ wbuf \in Seq(Nat) /\ snd \in Seq(Nat) /\ got \in Seq(Nat)
            /\ Len(snd) <= SndBuf

FlagsOK == /\ {calm, fin, out, armed, open} \subseteq BOOLEAN
           /\ ev \subseteq {"in", "out"}
           /\ lpc \in {"wait", "fetched", "event", "reading", "crashed"}

\* Type correctness; what is answered was read, what was read was sent.
TypeOK == InputOK /\ OutputOK /\ FlagsOK

\* No edge is lost (EPOLLET, tcp_server.cc:90): while the loop waits, input not
\* yet read is announced; bytes left in write_buffer_ are waited for, and are
\* announced or wait for space.
NoLostEdge == (lpc = "wait" /\ open) =>
                 /\ Readable => armed
                 /\ wbuf # <<>> => out /\ (armed \/ ~Writable)

\* What the peer has, is on its way to and is still to get.
Stream == got \o snd \o wbuf
Passed == {Stream[i] : i \in 1 .. Len(Stream)}

\* When each request waits for the answer before, the peer receives what
\* SendMassage took, all of it, in order: the write event never mixes with a
\* message, nothing is sent twice.
StreamInOrder == calm => Stream = [i \in 1 .. taken |-> i]

\* ... and no write ever fails: only the end of the peer's stream closes.
OnlyEofCloses == calm => open \/ fin

\* Both together: a response is whole.
StreamWhole == StreamInOrder /\ OnlyEofCloses

\* Whoever sends, and though a message may overtake the rest of another: nothing is
\* sent twice, and nothing SendMassage took is missing unless the connection is closed.
UnitsOnce == /\ \A i, j \in 1 .. Len(Stream) : Stream[i] = Stream[j] => i = j
             /\ Passed \subseteq 1 .. taken
             /\ open => Passed = 1 .. taken

\* ... and every request is answered, the answer received whole, unless the
\* peer shuts down before.
Answered == \A n \in 1 .. MaxSent :
               (calm /\ ends = n) ~> (fin \/ (answered >= n /\ Len(got) = taken))

\* Whoever sends, what write_buffer_ holds is sent, unless the connection is
\* closed.
Drained == wbuf # <<>> ~> (wbuf = <<>> \/ ~open)

\* Whatever the peer sends reaches an OnRecv, unless the connection is closed.
InputSeen == \A n \in 1 .. MaxSent : sent = n ~> (seen >= n \/ ~open)

\* Nothing stays where it is for want of an edge, in either direction.
NothingStays == Drained /\ InputSeen

\* "Called ... when a message was received" (tcp_server.h:19): OnRecv is called
\* for whatever was read.
AllSeen == lpc = "wait" => seen = read
=============================================================================
