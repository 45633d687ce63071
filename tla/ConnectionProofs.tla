------------------------- MODULE ConnectionProofs -------------------------
(***************************************************************************)
(* Theorems about one connection for every size of messages and of the     *)
(* kernel's send buffer: no edge is lost, and what a peer that waits for   *)
(* each answer receives is the stream SendMassage took.                    *)
(***************************************************************************)
EXTENDS Connection, SequenceTheorems, TLAPS

-----------------------------------------------------------------------------
(* Sequences.                                                              *)

\* Splitting a sequence in two loses nothing.
LEMMA Split ==
  ASSUME NEW S, NEW s \in Seq(S), NEW n \in 0 .. Len(s)
  PROVE  /\ First(n, s) \in Seq(S) /\ Len(First(n, s)) = n
         /\ Rest(n, s) \in Seq(S) /\ Len(Rest(n, s)) = Len(s) - n
         /\ First(n, s) \o Rest(n, s) = s
<1>1. Len(s) \in Nat /\ \A i \in 1 .. Len(s) : s[i] \in S
  BY LenProperties, ElementOfSeq
<1>2. n \in Int /\ n + 1 \in Int /\ Len(s) \in Int /\ 1 \in Int BY <1>1
<1>3. \A i \in 1 .. n : s[i] \in S BY <1>1
<1>4. \A i \in n + 1 .. Len(s) : s[i] \in S BY <1>1
<1>5. First(n, s) \in Seq(S) /\ Len(First(n, s)) = n
  BY <1>2, <1>3, SubSeqProperties DEF First
<1>6. Rest(n, s) \in Seq(S) /\ Len(Rest(n, s)) = Len(s) - n
  BY <1>1, <1>2, <1>4, SubSeqProperties DEF Rest
<1>7. SubSeq(s, 1, n) \o SubSeq(s, n + 1, Len(s)) = SubSeq(s, 1, Len(s))
  <2>1. 1 \in 1 .. Len(s) + 1 /\ n \in 1 - 1 .. Len(s) /\ Len(s) \in n .. Len(s) BY <1>1
  <2> QED BY <2>1, ConcatAdjacentSubSeq
<1> QED BY <1>5, <1>6, <1>7, SubSeqFull DEF First, Rest

\* Concatenation under a name the provers do not expand.
Cat(s, t) == s \o t

LEMMA CatFacts ==
  ASSUME NEW S, NEW s \in Seq(S), NEW t \in Seq(S), NEW u \in Seq(S)
  PROVE  Cat(s, t) \in Seq(S) /\ Cat(Cat(s, t), u) = Cat(s, Cat(t, u))
<1>1. Cat(s, t) \in Seq(S) BY ConcatProperties DEF Cat
<1>2. (s \o t) \o u = s \o (t \o u) BY ConcatAssociative
<1> QED BY <1>1, <1>2 DEF Cat

\* Moving the first n elements of one sequence to the end of another.
LEMMA MoveFirst ==
  ASSUME NEW S, NEW g \in Seq(S), NEW s \in Seq(S), NEW w \in Seq(S), NEW n \in 0 .. Len(w)
  PROVE  Cat(Cat(g, Cat(s, First(n, w))), Rest(n, w)) = Cat(Cat(g, s), w)
<1> DEFINE f == First(n, w)
           r == Rest(n, w)
<1>1. f \in Seq(S) /\ r \in Seq(S) BY Split
<1>2. Cat(f, r) = w BY Split DEF Cat
<1> HIDE DEF f, r
<1>3. Cat(g, s) \in Seq(S) BY CatFacts
<1>4. Cat(Cat(g, s), f) = Cat(g, Cat(s, f)) BY <1>1, CatFacts
<1>5. Cat(Cat(Cat(g, s), f), r) = Cat(Cat(g, s), Cat(f, r)) BY <1>1, <1>3, CatFacts
<1>6. Cat(Cat(g, Cat(s, f)), r) = Cat(Cat(g, s), w) BY <1>2, <1>4, <1>5
<1> QED BY <1>6 DEF f, r

LEMMA UnitsType ==
  ASSUME taken \in Nat, NEW k \in Nat
  PROVE  Units(k) \in Seq(Nat) /\ Len(Units(k)) = k
  BY DEF Units

\* Moving the head of one sequence to the end of another.
LEMMA MoveHead ==
  ASSUME NEW s \in Seq(Nat), NEW t \in Seq(Nat), t # <<>>
  PROVE  /\ Append(s, Head(t)) \in Seq(Nat) /\ Tail(t) \in Seq(Nat)
         /\ Len(Append(s, Head(t))) = Len(s) + 1 /\ Len(Tail(t)) = Len(t) - 1
         /\ Append(s, Head(t)) \o Tail(t) = s \o t
<1>1. Head(t) \in Nat /\ Tail(t) \in Seq(Nat) /\ Len(Tail(t)) = Len(t) - 1
  BY HeadTailProperties
<1>2. Append(s, Head(t)) \in Seq(Nat) /\ Len(Append(s, Head(t))) = Len(s) + 1
  BY <1>1, AppendProperties
<1>3. <<Head(t)>> \in Seq(Nat) BY <1>1
<1>4. Append(s, Head(t)) = s \o <<Head(t)>> BY <1>1, AppendIsConcat
<1>5. <<Head(t)>> \o Tail(t) = t
  <2>1. Len(t) \in Nat \ {0} BY EmptySeq
  <2>2. 1 \in 1 .. Len(t) /\ Len(t) \in 1 .. Len(t) BY <2>1
  <2>3. SubSeq(t, 1, Len(t)) = <<t[1]>> \o SubSeq(t, 1 + 1, Len(t))
    BY <2>2, SubSeqRecursiveFirst
  <2>4. Tail(t) = SubSeq(t, 2, Len(t)) BY TailIsSubSeq
  <2>5. Head(t) = t[1] OBVIOUS
  <2> QED BY <2>3, <2>4, <2>5, SubSeqFull
<1> QED BY <1>1, <1>2, <1>3, <1>4, <1>5, ConcatAssociative

-----------------------------------------------------------------------------
(* The invariant.                                                          *)

\* Events are at hand only while one entry of a batch is handled; with a peer
\* that waits, the space a write event announces is still there.
EventsAtHand == /\ lpc \in {"wait", "reading"} => ev = {}
                /\ calm /\ "out" \in ev => Writable

\* NoLostEdge, for every moment and not only while the loop waits.
Announced == open => /\ lpc # "reading" /\ Readable => armed \/ "in" \in ev
                     /\ wbuf # <<>> => out /\ (armed \/ ~Writable \/ "out" \in ev)

\* A request not answered yet has found the answer before it delivered.
Turns == calm /\ answered < ends => Len(got) = taken

IInv == /\ TypeOK /\ EventsAtHand /\ Announced
        /\ Turns /\ StreamInOrder /\ OnlyEofCloses

\* What a call of SendMassage does: EAGAIN, the whole message, or a part of it.
LEMMA SendStep ==
  ASSUME TypeOK, NEW k \in 1 .. MaxMessage, SendMassage(k)
  PROVE  /\ taken' = taken + k /\ taken' \in Nat
         /\ snd' \in Seq(Nat) /\ Len(snd') <= SndBuf /\ wbuf' \in Seq(Nat)
         /\ {out', armed', open'} \subseteq BOOLEAN
         /\ open' => open /\ (armed => armed')
         /\ (open' /\ wbuf' # <<>>) =>
               \/ out' /\ Len(snd') = SndBuf
               \/ wbuf # <<>> /\ out' = out /\ Len(snd) < SndBuf
         /\ (wbuf = <<>> /\ snd = <<>>) => (open' = open /\ snd' \o wbuf' = Units(k))
<1> USE BoundAssumption
<1>1. k \in Nat \ {0} /\ taken \in Nat /\ taken' = taken + k
  BY DEF SendMassage, TypeOK, OutputOK
<1>2. snd \in Seq(Nat) /\ wbuf \in Seq(Nat) /\ Len(snd) \in Nat /\ Len(snd) <= SndBuf
  BY LenProperties DEF TypeOK, OutputOK
<1>3. CASE Room = 0
  <2>1. open' = FALSE /\ armed' = FALSE /\ UNCHANGED <<snd, wbuf, out>>
    BY <1>3 DEF SendMassage
  <2>2. snd # <<>> BY <1>2, <1>3, EmptySeq DEF Room
  <2>3. taken' \in Nat /\ Len(snd') <= SndBuf /\ snd' \in Seq(Nat) /\ wbuf' \in Seq(Nat)
    BY <1>1, <1>2, <2>1
  <2>4. {out', armed', open'} \subseteq BOOLEAN BY <2>1 DEF TypeOK, FlagsOK
  <2> QED BY <1>1, <2>1, <2>2, <2>3, <2>4
<1>4. CASE Room # 0
  <2> DEFINE n == Least(k, Room)
  <2>1. /\ snd' = snd \o First(n, Units(k))
        /\ wbuf' = wbuf \o Rest(n, Units(k))
        /\ out' = (out \/ n < k)
        /\ armed' = (armed \/ (open /\ n < k /\ Readable))
        /\ open' = open
    BY <1>4 DEF SendMassage
  <2>2. n \in 0 .. k /\ n <= Room /\ (n < k => n = Room) /\ Len(snd) < SndBuf
    BY <1>1, <1>2, <1>4 DEF Least, Room
  <2> HIDE DEF n
  <2>3. /\ First(n, Units(k)) \in Seq(Nat) /\ Len(First(n, Units(k))) = n
        /\ Rest(n, Units(k)) \in Seq(Nat) /\ Len(Rest(n, Units(k))) = k - n
        /\ First(n, Units(k)) \o Rest(n, Units(k)) = Units(k)
    <3>1. PICK w \in Seq(Nat) : w = Units(k) /\ Len(w) = k BY <1>1, UnitsType
    <3>2. n \in 0 .. Len(w) BY <2>2, <3>1
    <3>3. /\ First(n, w) \in Seq(Nat) /\ Len(First(n, w)) = n
          /\ Rest(n, w) \in Seq(Nat) /\ Len(Rest(n, w)) = Len(w) - n
          /\ First(n, w) \o Rest(n, w) = w
      BY <3>2, Split
    <3> QED BY <3>1, <3>3
  <2>4. snd' \in Seq(Nat) /\ Len(snd') = Len(snd) + n /\ wbuf' \in Seq(Nat)
    BY <1>2, <2>1, <2>3, ConcatProperties
  <2>5. Len(snd') <= SndBuf /\ (n < k => Len(snd') = SndBuf)
    BY <1>2, <2>2, <2>4 DEF Room
  <2>6. n = k => wbuf' = wbuf /\ out' = out
    <3> SUFFICES ASSUME n = k PROVE wbuf' = wbuf /\ out' = out OBVIOUS
    <3>1. Rest(n, Units(k)) = <<>> BY <1>1, <2>3, EmptySeq
    <3>2. ~(n < k) BY <1>1
    <3>3. out \in BOOLEAN BY DEF TypeOK, FlagsOK
    <3> QED BY <1>2, <2>1, <3>1, <3>2, <3>3, ConcatEmptySeq
  <2>7. n < k => out' BY <2>1
  <2>8. {out', armed', open'} \subseteq BOOLEAN BY <2>1 DEF TypeOK, FlagsOK
  <2>9. wbuf = <<>> /\ snd = <<>> => snd' \o wbuf' = Units(k)
    BY <2>1, <2>3, ConcatEmptySeq
  <2>10. armed => armed' BY <2>1
  <2>11. n = k \/ n < k BY <1>1, <2>2
  <2>12. wbuf' # <<>> => \/ out' /\ Len(snd') = SndBuf
                         \/ wbuf # <<>> /\ out' = out /\ Len(snd) < SndBuf
    BY <2>2, <2>5, <2>6, <2>7, <2>11
  <2>13. open' => open /\ (armed => armed') BY <2>1, <2>10
  <2>14. (wbuf = <<>> /\ snd = <<>>) => (open' = open /\ snd' \o wbuf' = Units(k))
    BY <2>1, <2>9
  <2>15. taken' \in Nat BY <1>1
  <2> QED BY <1>1, <2>4, <2>5, <2>8, <2>12, <2>13, <2>14, <2>15
<1> QED BY <1>3, <1>4

-----------------------------------------------------------------------------
(* One lemma per group of actions.                                         *)

LEMMA InitInv == Init => IInv
<1> SUFFICES ASSUME Init PROVE IInv OBVIOUS
<1> USE BoundAssumption
<1>1. wbuf \in Seq(Nat) /\ snd \in Seq(Nat) /\ got \in Seq(Nat) /\ Len(snd) = 0
  BY EmptySeq DEF Init
<1>2. TypeOK
  <2>1. InputOK BY DEF Init, InputOK
  <2>2. OutputOK BY <1>1 DEF Init, OutputOK
  <2>3. FlagsOK BY DEF Init, FlagsOK
  <2> QED BY <2>1, <2>2, <2>3 DEF TypeOK
<1>3. EventsAtHand BY DEF Init, EventsAtHand
<1>4. Announced BY DEF Init, Announced, Readable
<1>5. Turns BY DEF Init, Turns
<1>6. StreamInOrder
  <2>1. got \o snd \o wbuf = <<>> BY <1>1, ConcatEmptySeq DEF Init
  <2>2. [i \in 1 .. taken |-> i] = <<>> BY DEF Init
  <2> QED BY <2>1, <2>2 DEF StreamInOrder, Stream
<1>7. OnlyEofCloses BY DEF Init, OnlyEofCloses
<1> QED BY <1>2, <1>3, <1>4, <1>5, <1>6, <1>7 DEF IInv

\* The peer sends or shuts down.
LEMMA PeerInputSteps ==
  ASSUME IInv, PeerSends \/ PeerShutsDown
  PROVE  IInv'
<1> USE BoundAssumption DEF IInv
<1>1. UNCHANGED <<calm, read, seen, answered, output, intruded, ev, open, lpc>>
      /\ armed' = open /\ (fin => fin')
  BY DEF PeerSends, PeerShutsDown
<1>2. TypeOK'
  <2>1. InputOK' BY <1>1 DEF TypeOK, InputOK, PeerSends, PeerShutsDown
  <2>2. OutputOK' BY <1>1 DEF TypeOK, OutputOK, output
  <2>3. FlagsOK' BY <1>1 DEF TypeOK, FlagsOK, output, PeerSends, PeerShutsDown
  <2> QED BY <2>1, <2>2, <2>3 DEF TypeOK
<1>3. EventsAtHand' BY <1>1 DEF EventsAtHand, Writable, output
<1>4. Announced' BY <1>1 DEF Announced, Writable, output
<1>5. Turns'
  BY <1>1 DEF Turns, output, PeerSends, PeerShutsDown, MaySend
<1>6. StreamInOrder' BY <1>1 DEF StreamInOrder, Stream, output
<1>7. OnlyEofCloses' BY <1>1 DEF OnlyEofCloses
<1> QED BY <1>2, <1>3, <1>4, <1>5, <1>6, <1>7

LEMMA PeerReceivesStep ==
  ASSUME IInv, PeerReceives
  PROVE  IInv'
<1> USE BoundAssumption DEF IInv
<1>1. /\ UNCHANGED <<calm, sent, ends, fin, read, seen, answered, taken, intruded>>
      /\ UNCHANGED <<wbuf, out, ev, open, lpc>>
      /\ armed' = (armed \/ (open /\ ~Writable))
      /\ snd # <<>> /\ got' = Append(got, Head(snd)) /\ snd' = Tail(snd)
  BY DEF PeerReceives, input
<1>2. snd \in Seq(Nat) /\ got \in Seq(Nat) /\ wbuf \in Seq(Nat) BY DEF TypeOK, OutputOK
<1>3. /\ got' \in Seq(Nat) /\ snd' \in Seq(Nat)
      /\ Len(got') = Len(got) + 1 /\ Len(snd') = Len(snd) - 1
      /\ got' \o snd' = got \o snd
  BY <1>1, <1>2, MoveHead
<1>4. Len(snd) \in Nat /\ Len(snd') \in Nat BY <1>2, <1>3, LenProperties
<1>5. TypeOK'
  <2>1. InputOK' BY <1>1 DEF TypeOK, InputOK
  <2>2. OutputOK' BY <1>1, <1>3, <1>4 DEF TypeOK, OutputOK
  <2>3. FlagsOK' BY <1>1 DEF TypeOK, FlagsOK
  <2> QED BY <2>1, <2>2, <2>3 DEF TypeOK
<1>6. EventsAtHand' BY <1>1, <1>3, <1>4 DEF EventsAtHand, Writable
<1>7. Announced' BY <1>1 DEF Announced, Readable
<1>8. StreamInOrder' BY <1>1, <1>3 DEF StreamInOrder, Stream
<1>9. Turns'
  <2> SUFFICES ASSUME calm, answered < ends, Len(got) = taken PROVE FALSE
    BY <1>1, <1>3 DEF Turns
  <2>1. got \o snd \o wbuf = [i \in 1 .. taken |-> i] BY DEF StreamInOrder, Stream
  <2>2. Len(got \o snd \o wbuf) = taken BY <2>1 DEF TypeOK, OutputOK
  <2>3. got \o snd \in Seq(Nat) /\ Len(got \o snd) = Len(got) + Len(snd)
    BY <1>2, ConcatProperties
  <2>4. Len(got \o snd \o wbuf) = Len(got) + Len(snd) + Len(wbuf)
    BY <1>2, <2>3, ConcatProperties
  <2>5. Len(got) \in Nat /\ Len(wbuf) \in Nat /\ Len(snd) \in Nat \ {0}
    BY <1>1, <1>2, LenProperties, EmptySeq
  <2> QED BY <2>2, <2>4, <2>5
<1>10. OnlyEofCloses' BY <1>1 DEF OnlyEofCloses
<1> QED BY <1>5, <1>6, <1>7, <1>8, <1>9, <1>10

\* A message leaves the bytes in write_buffer_ announced.
LEMMA SendAnnounces ==
  ASSUME IInv, NEW k \in 1 .. MaxMessage, SendMassage(k), open', wbuf' # <<>>, ev' = ev
  PROVE  out' /\ (armed' \/ ~Writable' \/ "out" \in ev')
<1>1. /\ open /\ (armed => armed')
      /\ \/ out' /\ Len(snd') = SndBuf
         \/ wbuf # <<>> /\ out' = out /\ Len(snd) < SndBuf
  BY SendStep DEF IInv
<1>2. CASE out' /\ Len(snd') = SndBuf
  BY <1>2, BoundAssumption DEF Writable
<1>3. CASE wbuf # <<>> /\ out' = out /\ Len(snd) < SndBuf
  BY <1>1, <1>3 DEF IInv, Announced, Writable
<1> QED BY <1>1, <1>2, <1>3

LEMMA IntruderSteps ==
  ASSUME IInv, NEW k \in 1 .. MaxMessage, IntruderSends(k)
  PROVE  IInv'
<1> USE BoundAssumption DEF IInv
<1>1. /\ UNCHANGED <<calm, sent, ends, fin, read, seen, answered, got, ev, lpc>>
      /\ ~calm /\ SendMassage(k) /\ intruded < Intruders /\ intruded' = intruded + 1
      /\ lpc \in {"wait", "fetched"}
  BY DEF IntruderSends, input
<1>2. TypeOK'
  <2>1. InputOK' BY <1>1 DEF TypeOK, InputOK
  <2>2. OutputOK' BY <1>1, SendStep DEF TypeOK, OutputOK
  <2>3. FlagsOK' BY <1>1, SendStep DEF TypeOK, FlagsOK
  <2> QED BY <2>1, <2>2, <2>3 DEF TypeOK
<1>3. EventsAtHand' BY <1>1 DEF EventsAtHand
<1>4. Announced'
  <2> SUFFICES ASSUME open' PROVE Announced' BY DEF Announced
  <2>1. open /\ (armed => armed') BY <1>1, SendStep
  <2>2. lpc' # "reading" /\ Readable' => armed' \/ "in" \in ev'
    BY <1>1, <2>1 DEF Announced, Readable
  <2>3. wbuf' # <<>> => out' /\ (armed' \/ ~Writable' \/ "out" \in ev')
    BY <1>1, SendAnnounces
  <2> QED BY <2>2, <2>3 DEF Announced
<1>5. Turns' /\ StreamInOrder' /\ OnlyEofCloses'
  BY <1>1 DEF Turns, StreamInOrder, Stream, OnlyEofCloses
<1> QED BY <1>2, <1>3, <1>4, <1>5

\* epoll_wait, the dispatch, the end of an entry, and the reading itself send
\* nothing and keep the connection.
LEMMA QuietSteps ==
  ASSUME IInv, WaitReturns \/ Dispatch \/ StartReading \/ ReadSome
  PROVE  IInv'
<1> USE DEF IInv
<1>1. /\ UNCHANGED <<calm, sent, ends, fin, seen, answered, taken, intruded>>
      /\ UNCHANGED <<wbuf, snd, got, out, open>>
  BY DEF WaitReturns, Dispatch, StartReading, ReadSome, input, output
<1>2. Turns' /\ StreamInOrder' /\ OnlyEofCloses'
  BY <1>1 DEF Turns, StreamInOrder, Stream, OnlyEofCloses
<1>3. OutputOK' BY <1>1 DEF TypeOK, OutputOK
<1>4. CASE WaitReturns
  <2>1. read' = read /\ armed /\ armed' = FALSE /\ ev' = Mask(out)
        /\ lpc' \in {"wait", "fetched"} /\ (lpc' = "wait" => ev' = {})
    BY <1>4 DEF WaitReturns, input
  <2>2. ev' \subseteq {"in", "out"} /\ ("out" \in ev' => Writable)
        /\ (Readable => "in" \in ev') /\ (out /\ Writable => "out" \in ev')
    BY <2>1 DEF Mask
  <2>3. InputOK' BY <1>1, <2>1 DEF TypeOK, InputOK
  <2>4. FlagsOK' BY <1>1, <2>1, <2>2 DEF TypeOK, FlagsOK
  <2>5. EventsAtHand' BY <1>1, <2>1, <2>2 DEF EventsAtHand, Writable
  <2>6. Announced' BY <1>1, <2>1, <2>2 DEF Announced, Readable, Writable
  <2> QED BY <1>2, <1>3, <2>3, <2>4, <2>5, <2>6 DEF TypeOK
<1>5. CASE Dispatch
  <2>1. UNCHANGED <<read, armed, ev>> /\ lpc = "fetched" /\ lpc' \in {"event", "crashed"}
    BY <1>5 DEF Dispatch, input
  <2>2. InputOK' BY <1>1, <2>1 DEF TypeOK, InputOK
  <2>3. FlagsOK' BY <1>1, <2>1 DEF TypeOK, FlagsOK
  <2>4. EventsAtHand' BY <1>1, <2>1 DEF EventsAtHand, Writable
  <2>5. Announced' BY <1>1, <2>1 DEF Announced, Readable, Writable
  <2> QED BY <1>2, <1>3, <2>2, <2>3, <2>4, <2>5 DEF TypeOK
<1>6. CASE StartReading
  <2>1. UNCHANGED <<read, armed>> /\ lpc = "event" /\ "out" \notin ev /\ ev' = {}
        /\ lpc' = IF "in" \in ev THEN "reading" ELSE "wait"
    BY <1>6 DEF StartReading, input
  <2>2. InputOK' BY <1>1, <2>1 DEF TypeOK, InputOK
  <2>3. FlagsOK' BY <1>1, <2>1 DEF TypeOK, FlagsOK
  <2>4. EventsAtHand' BY <2>1 DEF EventsAtHand
  <2>5. Announced' BY <1>1, <2>1 DEF Announced, Readable, Writable
  <2> QED BY <1>2, <1>3, <2>2, <2>3, <2>4, <2>5 DEF TypeOK
<1>7. CASE ReadSome
  <2>1. UNCHANGED <<armed, ev, lpc>> /\ lpc = "reading" BY <1>7 DEF ReadSome
  <2>2. PICK n \in 1 .. sent - read : read' = read + n BY <1>7 DEF ReadSome
  <2>3. InputOK' BY <1>1, <2>2 DEF TypeOK, InputOK
  <2>4. FlagsOK' BY <1>1, <2>1 DEF TypeOK, FlagsOK
  <2>5. EventsAtHand' BY <1>1, <2>1 DEF EventsAtHand, Writable
  <2>6. Announced' BY <1>1, <2>1 DEF Announced, Writable
  <2> QED BY <1>2, <1>3, <2>3, <2>4, <2>5, <2>6 DEF TypeOK
<1> QED BY <1>4, <1>5, <1>6, <1>7

LEMMA WriteEventStep ==
  ASSUME IInv, HandleWriteEvent
  PROVE  IInv'
<1> USE BoundAssumption DEF IInv
<1>1. /\ UNCHANGED <<calm, sent, ends, fin, read, seen, answered, taken, intruded, got, lpc>>
      /\ lpc = "event" /\ "out" \in ev /\ ev' = ev \ {"out"}
  BY DEF HandleWriteEvent, input
<1>2. wbuf \in Seq(Nat) /\ snd \in Seq(Nat) /\ got \in Seq(Nat)
      /\ Len(wbuf) \in Nat /\ Len(snd) \in Nat /\ Len(snd) <= SndBuf
  BY LenProperties DEF TypeOK, OutputOK
<1>3. InputOK' /\ Turns' BY <1>1 DEF TypeOK, InputOK, Turns
<1>4. CASE wbuf # <<>> /\ Room = 0
  <2>1. open' = FALSE /\ armed' = FALSE /\ UNCHANGED <<wbuf, snd, out>>
    BY <1>4 DEF HandleWriteEvent
  <2>2. ~Writable BY <1>2, <1>4 DEF Room, Writable
  <2>3. ~calm BY <1>1, <2>2 DEF EventsAtHand
  <2>4. OutputOK' BY <1>1, <2>1 DEF TypeOK, OutputOK
  <2>5. FlagsOK' BY <1>1, <2>1 DEF TypeOK, FlagsOK
  <2>6. EventsAtHand' BY <1>1 DEF EventsAtHand
  <2>7. Announced' BY <2>1 DEF Announced
  <2>8. StreamInOrder' /\ OnlyEofCloses' BY <1>1, <2>3 DEF StreamInOrder, Stream, OnlyEofCloses
  <2> QED BY <1>3, <2>4, <2>5, <2>6, <2>7, <2>8 DEF TypeOK
<1>5. CASE ~(wbuf # <<>> /\ Room = 0)
  <2> DEFINE n == Least(Len(wbuf), Room)
  <2>1. /\ snd' = snd \o First(n, wbuf) /\ wbuf' = Rest(n, wbuf)
        /\ out' = (n < Len(wbuf)) /\ armed' = (armed \/ (n = Len(wbuf) /\ Readable))
        /\ open' = open
    BY <1>5 DEF HandleWriteEvent
  <2>2. n \in 0 .. Len(wbuf) /\ n <= Room /\ (n < Len(wbuf) => n = Room)
    BY <1>2 DEF Least, Room
  <2> HIDE DEF n
  <2>3. /\ First(n, wbuf) \in Seq(Nat) /\ Len(First(n, wbuf)) = n
        /\ wbuf' \in Seq(Nat) /\ Len(wbuf') = Len(wbuf) - n
        /\ First(n, wbuf) \o wbuf' = wbuf
    <3>1. /\ First(n, wbuf) \in Seq(Nat) /\ Len(First(n, wbuf)) = n
          /\ Rest(n, wbuf) \in Seq(Nat) /\ Len(Rest(n, wbuf)) = Len(wbuf) - n
          /\ First(n, wbuf) \o Rest(n, wbuf) = wbuf
      BY <1>2, <2>2, Split
    <3> QED BY <2>1, <3>1
  <2>4. snd' \in Seq(Nat) /\ Len(snd') = Len(snd) + n
    BY <1>2, <2>1, <2>3, ConcatProperties
  <2>5. Len(snd') <= SndBuf /\ (n < Len(wbuf) => Len(snd') = SndBuf)
    BY <1>2, <2>2, <2>4 DEF Room
  <2>6. wbuf' # <<>> => n < Len(wbuf)
    BY <1>2, <2>2, <2>3, EmptySeq
  <2>7. OutputOK' BY <1>1, <2>3, <2>4, <2>5 DEF TypeOK, OutputOK
  <2>8. FlagsOK' BY <1>1, <2>1 DEF TypeOK, FlagsOK
  <2>9. EventsAtHand' BY <1>1 DEF EventsAtHand
  <2>10. wbuf' # <<>> => out' /\ ~Writable'
    <3>1. n < Len(wbuf) => out' BY <2>1
    <3>2. Len(snd') = SndBuf => ~(Len(snd') < SndBuf) OBVIOUS
    <3> QED BY <2>5, <2>6, <3>1, <3>2 DEF Writable
  <2>11. Announced' BY <1>1, <2>1, <2>10 DEF Announced, Readable
  <2>12. got \o snd' \o wbuf' = got \o snd \o wbuf
    <3>1. Cat(Cat(got, Cat(snd, First(n, wbuf))), Rest(n, wbuf)) = Cat(Cat(got, snd), wbuf)
      BY <1>2, <2>2, MoveFirst
    <3> QED BY ONLY <2>1, <3>1 DEF Cat
  <2>13. StreamInOrder' BY <1>1, <2>12 DEF StreamInOrder, Stream
  <2>14. OnlyEofCloses' BY <1>1, <2>1 DEF OnlyEofCloses
  <2> QED BY <1>3, <2>7, <2>8, <2>9, <2>11, <2>13, <2>14 DEF TypeOK
<1> QED BY <1>4, <1>5

\* With a peer that waits, an answer meets empty buffers.
LEMMA AnswerInTurn ==
  ASSUME IInv, calm, answered < ends
  PROVE  snd = <<>> /\ wbuf = <<>> /\ got = [i \in 1 .. taken |-> i]
<1> USE DEF IInv
<1>1. wbuf \in Seq(Nat) /\ snd \in Seq(Nat) /\ got \in Seq(Nat) /\ taken \in Nat
  BY DEF TypeOK, OutputOK
<1>2. got \o snd \o wbuf = [i \in 1 .. taken |-> i] /\ Len(got) = taken
  BY DEF StreamInOrder, Stream, Turns
<1>3. Len(got \o snd \o wbuf) = taken BY <1>1, <1>2
<1>4. got \o snd \in Seq(Nat) /\ Len(got \o snd) = Len(got) + Len(snd)
  BY <1>1, ConcatProperties
<1>5. Len(got \o snd \o wbuf) = Len(got) + Len(snd) + Len(wbuf)
  BY <1>1, <1>4, ConcatProperties
<1>6. Len(got) \in Nat /\ Len(snd) \in Nat /\ Len(wbuf) \in Nat BY <1>1, LenProperties
<1>7. Len(snd) = 0 /\ Len(wbuf) = 0 BY <1>2, <1>3, <1>5, <1>6
<1>8. snd = <<>> /\ wbuf = <<>> BY <1>1, <1>7, EmptySeq
<1> QED BY <1>1, <1>2, <1>8, ConcatEmptySeq

LEMMA ReadAgainStep ==
  ASSUME IInv, ReadAgain
  PROVE  IInv'
<1> USE BoundAssumption DEF IInv
<1>1. /\ UNCHANGED <<calm, sent, ends, fin, read, got, intruded, ev>>
      /\ ~Readable /\ lpc = "reading" /\ lpc' = "wait" /\ seen' = read
  BY DEF ReadAgain, OnRecv
<1>2. ev = {} BY <1>1 DEF EventsAtHand
<1>3. EventsAtHand' BY <1>1, <1>2 DEF EventsAtHand
<1>4. ~Readable' BY <1>1 DEF Readable
<1>5. CASE UNCHANGED <<answered, taken, wbuf, snd, out, armed, open>> /\ (~Due \/ ~calm)
  <2>1. InputOK' BY <1>1, <1>5 DEF TypeOK, InputOK
  <2>2. OutputOK' BY <1>1, <1>5 DEF TypeOK, OutputOK
  <2>3. FlagsOK' BY <1>1, <1>5 DEF TypeOK, FlagsOK
  <2>4. Announced' BY <1>1, <1>4, <1>5 DEF Announced, Writable
  <2>5. Turns' /\ StreamInOrder' /\ OnlyEofCloses'
    BY <1>1, <1>5 DEF Turns, StreamInOrder, Stream, OnlyEofCloses
  <2> QED BY <1>3, <2>1, <2>2, <2>3, <2>4, <2>5 DEF TypeOK
<1>6. ASSUME Due \/ ~calm, answered' = IF Due THEN ends ELSE answered,
             NEW k \in 1 .. MaxMessage, SendMassage(k)
      PROVE  IInv'
  <2>1. InputOK' BY <1>1, <1>6 DEF TypeOK, InputOK, Due
  <2>2. OutputOK' BY <1>1, <1>6, SendStep DEF TypeOK, OutputOK
  <2>3. FlagsOK' BY <1>1, <1>6, SendStep DEF TypeOK, FlagsOK
  <2>4. Announced'
    <3>1. open' /\ wbuf' # <<>> => out' /\ (armed' \/ ~Writable' \/ "out" \in ev')
      BY <1>1, <1>6, SendAnnounces
    <3> QED BY <1>4, <3>1 DEF Announced
  <2>5. CASE ~calm
    BY <1>1, <1>3, <2>1, <2>2, <2>3, <2>4, <2>5
       DEF TypeOK, Turns, StreamInOrder, Stream, OnlyEofCloses
  <2>6. CASE calm
    <3>1. answered < ends /\ answered' = ends BY <1>6, <2>6 DEF Due
    <3>2. snd = <<>> /\ wbuf = <<>> /\ got = [i \in 1 .. taken |-> i]
      BY <2>6, <3>1, AnswerInTurn
    <3>3. open' = open /\ snd' \o wbuf' = Units(k) /\ taken' = taken + k
      BY <1>6, <3>2, SendStep
    <3>4. snd' \in Seq(Nat) /\ wbuf' \in Seq(Nat) /\ got \in Seq(Nat)
      BY <2>2 DEF TypeOK, OutputOK
    <3>5. (got \o snd') \o wbuf' = got \o Units(k)
      <4> DEFINE a == snd'
                 b == wbuf'
      <4>1. got \in Seq(Nat) /\ a \in Seq(Nat) /\ b \in Seq(Nat) BY <3>4
      <4> HIDE DEF a, b
      <4>2. Cat(Cat(got, a), b) = Cat(got, Cat(a, b)) BY <4>1, CatFacts
      <4>3. a \o b = Units(k) BY <3>3 DEF a, b
      <4> QED BY <4>2, <4>3 DEF Cat, a, b
    <3>6. got \o Units(k) = [i \in 1 .. taken' |-> i]
      <4>1. taken \in Nat /\ k \in Nat BY DEF TypeOK, OutputOK
      <4>2. Units(k) \in Seq(Nat) /\ Len(Units(k)) = k BY <4>1, UnitsType
      <4>3. Len(got) = taken BY <3>2, <4>1
      <4> DEFINE u == [i \in 1 .. taken' |-> i]
      <4>4. u \in Seq(Nat) /\ Len(u) = taken + k BY <3>3, <4>1
      <4>5. /\ got \o Units(k) \in Seq(Nat) /\ Len(got \o Units(k)) = taken + k
            /\ \A i \in 1 .. taken + k : (got \o Units(k))[i] =
                  IF i <= taken THEN got[i] ELSE Units(k)[i - taken]
        <5>1. PICK w \in Seq(Nat) : w = Units(k) /\ Len(w) = k BY <4>2
        <5>2. /\ got \o w \in Seq(Nat) /\ Len(got \o w) = Len(got) + Len(w)
              /\ \A i \in 1 .. Len(got) + Len(w) : (got \o w)[i] =
                    IF i <= Len(got) THEN got[i] ELSE w[i - Len(got)]
          BY <3>4, ConcatProperties
        <5> QED BY <4>3, <5>1, <5>2
      <4>6. \A i \in 1 .. taken + k : (got \o Units(k))[i] = u[i]
        BY <3>2, <3>3, <4>1, <4>5 DEF Units
      <4> QED BY <4>4, <4>5, <4>6, SeqEqual
    <3>7. StreamInOrder' BY <1>1, <3>5, <3>6 DEF StreamInOrder, Stream
    <3>8. Turns' BY <1>1, <3>1 DEF Turns, TypeOK, InputOK
    <3>9. OnlyEofCloses' BY <1>1, <3>3 DEF OnlyEofCloses
    <3> QED BY <1>3, <2>1, <2>2, <2>3, <2>4, <3>7, <3>8, <3>9 DEF TypeOK
  <2> QED BY <2>5, <2>6
<1> QED BY <1>5, <1>6 DEF ReadAgain, OnRecv

LEMMA ReadEofStep ==
  ASSUME IInv, ReadEof
  PROVE  IInv'
<1> USE DEF IInv
<1>1. /\ UNCHANGED <<calm, sent, ends, fin, read, seen, answered, taken, intruded, ev>>
      /\ UNCHANGED <<wbuf, snd, got, out>>
      /\ fin /\ open' = FALSE /\ armed' = FALSE /\ lpc = "reading" /\ lpc' = "wait"
  BY DEF ReadEof, input, output
<1>2. InputOK' BY <1>1 DEF TypeOK, InputOK
<1>3. OutputOK' BY <1>1 DEF TypeOK, OutputOK
<1>4. FlagsOK' BY <1>1 DEF TypeOK, FlagsOK
<1>5. EventsAtHand' BY <1>1 DEF EventsAtHand, Writable
<1>6. Announced' BY <1>1 DEF Announced
<1>7. Turns' /\ StreamInOrder' /\ OnlyEofCloses'
  BY <1>1 DEF Turns, StreamInOrder, Stream, OnlyEofCloses
<1> QED BY <1>2, <1>3, <1>4, <1>5, <1>6, <1>7 DEF TypeOK

LEMMA StutterStep ==
  ASSUME IInv, UNCHANGED vars
  PROVE  IInv'
  BY DEF IInv, vars, TypeOK, InputOK, OutputOK, FlagsOK, EventsAtHand, Announced,
         Turns, StreamInOrder, Stream, OnlyEofCloses, Readable, Writable

LEMMA Invariance == Spec => []IInv
<1>1. Init => IInv BY InitInv
<1>2. IInv /\ [Next]_vars => IInv'
  <2> SUFFICES ASSUME IInv, [Next]_vars PROVE IInv' OBVIOUS
  <2>1. CASE PeerSends \/ PeerShutsDown BY <2>1, PeerInputSteps
  <2>2. CASE PeerReceives BY <2>2, PeerReceivesStep
  <2>3. ASSUME NEW k \in 1 .. MaxMessage, IntruderSends(k) PROVE IInv'
    BY <2>3, IntruderSteps
  <2>4. CASE WaitReturns \/ Dispatch \/ StartReading \/ ReadSome BY <2>4, QuietSteps
  <2>5. CASE HandleWriteEvent BY <2>5, WriteEventStep
  <2>6. CASE ReadAgain BY <2>6, ReadAgainStep
  <2>7. CASE ReadEof BY <2>7, ReadEofStep
  <2>8. CASE UNCHANGED vars BY <2>8, StutterStep
  <2> QED BY <2>1, <2>2, <2>3, <2>4, <2>5, <2>6, <2>7, <2>8 DEF Next, LoopNext
<1> QED BY <1>1, <1>2, PTL DEF Spec

-----------------------------------------------------------------------------
(* The theorems.                                                           *)

\* Every reachable state is well typed.
THEOREM Typing == Spec => []TypeOK
<1>1. IInv => TypeOK BY DEF IInv
<1> QED BY <1>1, Invariance, PTL

\* Edge-triggered epoll never leaves the loop waiting with input unread or
\* output unsent: HandleReadEvent reads to the end, the write event and its
\* interest come and go with write_buffer_.
THEOREM EdgesAreKept == Spec => []NoLostEdge
<1>1. IInv => NoLostEdge
  BY DEF IInv, NoLostEdge, Announced, EventsAtHand
<1> QED BY <1>1, Invariance, PTL

\* A peer that waits for each answer gets the stream SendMassage took, and loses
\* the connection only by ending its own stream.
THEOREM AnswersAreWhole == Spec => []StreamWhole
<1>1. IInv => StreamWhole BY DEF IInv, StreamWhole
<1> QED BY <1>1, Invariance, PTL
-----------------------------------------------------------------------------
(* Whoever sends: every unit once.                                         *)

Elements(s) == {s[i] : i \in 1 .. Len(s)}
Once(s) == \A i, j \in 1 .. Len(s) : s[i] = s[j] => i = j

\* What a concatenation holds, and when it holds nothing twice.
LEMMA OnceConcat ==
  ASSUME NEW s \in Seq(Nat), NEW t \in Seq(Nat)
  PROVE  /\ s \o t \in Seq(Nat)
         /\ Elements(s \o t) = Elements(s) \cup Elements(t)
         /\ Once(s \o t) <=> Once(s) /\ Once(t) /\ Elements(s) \cap Elements(t) = {}
<1> DEFINE m == Len(s)
           n == Len(t)
           c == s \o t
<1>1. m \in Nat /\ n \in Nat BY LenProperties
<1>2. /\ c \in Seq(Nat) /\ Len(c) = m + n
      /\ \A i \in 1 .. m + n : c[i] = IF i <= m THEN s[i] ELSE t[i - m]
  BY ConcatProperties
<1> HIDE DEF m, n, c
<1>3. \A i \in 1 .. m : i \in 1 .. m + n /\ c[i] = s[i] BY <1>1, <1>2
<1>4. \A j \in 1 .. n : m + j \in 1 .. m + n /\ c[m + j] = t[j]
  <2> SUFFICES ASSUME NEW j \in 1 .. n PROVE m + j \in 1 .. m + n /\ c[m + j] = t[j] OBVIOUS
  <2>1. m + j \in 1 .. m + n /\ ~(m + j <= m) /\ (m + j) - m = j BY <1>1
  <2> QED BY <1>2, <2>1
<1>5. \A i \in 1 .. m + n : i \in 1 .. m \/ \E j \in 1 .. n : i = m + j
  <2> SUFFICES ASSUME NEW i \in 1 .. m + n, i \notin 1 .. m PROVE \E j \in 1 .. n : i = m + j
    OBVIOUS
  <2>1. i - m \in 1 .. n /\ i = m + (i - m) BY <1>1
  <2> QED BY <2>1
<1>6. /\ Elements(c) = {c[i] : i \in 1 .. m + n}
      /\ Elements(s) = {s[i] : i \in 1 .. m} /\ Elements(t) = {t[j] : j \in 1 .. n}
  BY <1>2 DEF Elements, m, n
<1>7. Elements(c) = Elements(s) \cup Elements(t)
  <2>1. \A i \in 1 .. m + n : c[i] \in Elements(s) \cup Elements(t)
    <3> SUFFICES ASSUME NEW i \in 1 .. m + n PROVE c[i] \in Elements(s) \cup Elements(t) OBVIOUS
    <3>1. CASE i \in 1 .. m BY <1>3, <1>6, <3>1
    <3>2. ASSUME NEW j \in 1 .. n, i = m + j PROVE c[i] \in Elements(t) BY <1>4, <1>6, <3>2
    <3> QED BY <1>5, <3>1, <3>2
  <2>2. Elements(s) \subseteq Elements(c) BY <1>3, <1>6
  <2>3. Elements(t) \subseteq Elements(c)
    <3> SUFFICES ASSUME NEW j \in 1 .. n PROVE t[j] \in Elements(c) BY <1>6
    <3> QED BY <1>4, <1>6
  <2> QED BY <1>6, <2>1, <2>2, <2>3
<1>8. ASSUME Once(c) PROVE Once(s) /\ Once(t) /\ Elements(s) \cap Elements(t) = {}
  <2>1. \A i, j \in 1 .. m + n : c[i] = c[j] => i = j BY <1>2, <1>8 DEF Once
  <2>2. Once(s) BY <1>3, <2>1 DEF Once, m
  <2>3. \A i, j \in 1 .. n : t[i] = t[j] => i = j
    <3> SUFFICES ASSUME NEW i \in 1 .. n, NEW j \in 1 .. n, t[i] = t[j] PROVE i = j OBVIOUS
    <3>1. m + i = m + j BY <1>4, <2>1
    <3> QED BY <1>1, <3>1
  <2>4. ASSUME NEW i \in 1 .. m, NEW j \in 1 .. n, s[i] = t[j] PROVE FALSE
    <3>1. i = m + j BY <1>3, <1>4, <2>1, <2>4
    <3> QED BY <1>1, <3>1
  <2>5. Elements(s) \cap Elements(t) = {} BY <1>6, <2>4
  <2> QED BY <2>2, <2>3, <2>5 DEF Once, n
<1>9. ASSUME Once(s), Once(t), Elements(s) \cap Elements(t) = {} PROVE Once(c)
  <2>1. \A i, j \in 1 .. m : s[i] = s[j] => i = j BY <1>9 DEF Once, m
  <2>2. \A i, j \in 1 .. n : t[i] = t[j] => i = j BY <1>9 DEF Once, n
  <2>3. \A i \in 1 .. m, j \in 1 .. n : s[i] # t[j] BY <1>6, <1>9
  <2> SUFFICES ASSUME NEW i \in 1 .. m + n, NEW j \in 1 .. m + n, c[i] = c[j] PROVE i = j
    BY <1>2 DEF Once
  <2>4. CASE i \in 1 .. m /\ j \in 1 .. m BY <1>3, <2>1, <2>4
  <2>5. ASSUME i \in 1 .. m, NEW b \in 1 .. n, j = m + b PROVE FALSE
    BY <1>3, <1>4, <2>3, <2>5
  <2>6. ASSUME j \in 1 .. m, NEW a \in 1 .. n, i = m + a PROVE FALSE
    BY <1>3, <1>4, <2>3, <2>6
  <2>7. ASSUME NEW a \in 1 .. n, i = m + a, NEW b \in 1 .. n, j = m + b PROVE i = j
    BY <1>4, <2>2, <2>7
  <2> QED BY <1>5, <2>4, <2>5, <2>6, <2>7
<1> QED BY <1>2, <1>7, <1>8, <1>9 DEF c

Joined(s, t, u) == s \o t \o u

\* A message that goes in two pieces, one of which slips in front of what waits.
LEMMA SlipsIn ==
  ASSUME NEW g \in Seq(Nat), NEW s \in Seq(Nat), NEW w \in Seq(Nat),
         NEW a \in Seq(Nat), NEW b \in Seq(Nat),
         Once(Joined(g, s, w)), Once(Cat(a, b)),
         Elements(Joined(g, s, w)) \cap Elements(Cat(a, b)) = {}
  PROVE  /\ Once(Joined(g, Cat(s, a), Cat(w, b)))
         /\ \A e : e \in Elements(Joined(g, Cat(s, a), Cat(w, b))) <=>
                      e \in Elements(Joined(g, s, w)) \/ e \in Elements(Cat(a, b))
<1> USE DEF Joined, Cat
<1>1. PICK gs \in Seq(Nat) : /\ gs = g \o s /\ Elements(gs) = Elements(g) \cup Elements(s)
                             /\ Once(gs) <=> Once(g) /\ Once(s) /\ Elements(g) \cap Elements(s) = {}
  BY OnceConcat
<1>2. PICK sa \in Seq(Nat) : /\ sa = s \o a /\ Elements(sa) = Elements(s) \cup Elements(a)
                             /\ Once(sa) <=> Once(s) /\ Once(a) /\ Elements(s) \cap Elements(a) = {}
  BY OnceConcat
<1>3. PICK wb \in Seq(Nat) : /\ wb = w \o b /\ Elements(wb) = Elements(w) \cup Elements(b)
                             /\ Once(wb) <=> Once(w) /\ Once(b) /\ Elements(w) \cap Elements(b) = {}
  BY OnceConcat
<1>4. PICK ab \in Seq(Nat) : /\ ab = a \o b /\ Elements(ab) = Elements(a) \cup Elements(b)
                             /\ Once(ab) <=> Once(a) /\ Once(b) /\ Elements(a) \cap Elements(b) = {}
  BY OnceConcat
<1>5. /\ Elements(gs \o w) = Elements(gs) \cup Elements(w)
      /\ Once(gs \o w) <=> Once(gs) /\ Once(w) /\ Elements(gs) \cap Elements(w) = {}
  BY OnceConcat
<1>6. PICK gsa \in Seq(Nat) :
         /\ gsa = g \o sa /\ Elements(gsa) = Elements(g) \cup Elements(sa)
         /\ Once(gsa) <=> Once(g) /\ Once(sa) /\ Elements(g) \cap Elements(sa) = {}
  BY OnceConcat
<1>7. /\ Elements(gsa \o wb) = Elements(gsa) \cup Elements(wb)
      /\ Once(gsa \o wb) <=> Once(gsa) /\ Once(wb) /\ Elements(gsa) \cap Elements(wb) = {}
  BY OnceConcat
<1>8. Once(gs \o w) /\ Once(ab) /\ Elements(gs \o w) \cap Elements(ab) = {} BY <1>1, <1>4
<1>9. Elements(gsa \o wb) = Elements(gs \o w) \cup Elements(ab)
  BY ONLY <1>1, <1>2, <1>3, <1>4, <1>5, <1>6, <1>7
<1>10. /\ Once(g) /\ Once(s) /\ Once(w) /\ Once(a) /\ Once(b)
       /\ Elements(g) \cap Elements(s) = {} /\ Elements(g) \cap Elements(w) = {}
       /\ Elements(s) \cap Elements(w) = {} /\ Elements(a) \cap Elements(b) = {}
       /\ \A e \in {Elements(g), Elements(s), Elements(w)}, f \in {Elements(a), Elements(b)} :
             e \cap f = {}
  BY ONLY <1>1, <1>4, <1>5, <1>8
<1>11. Once(sa) /\ Once(wb) BY ONLY <1>2, <1>3, <1>10
<1>12. Once(gsa) BY ONLY <1>2, <1>6, <1>10, <1>11
<1>13. Once(gsa \o wb) BY ONLY <1>2, <1>3, <1>6, <1>7, <1>10, <1>11, <1>12
<1> QED BY <1>1, <1>2, <1>3, <1>4, <1>6, <1>9, <1>13

\* A call of SendMassage passes its units on once, or closes the connection.
LEMMA SendOnce ==
  ASSUME TypeOK, UnitsOnce, NEW k \in 1 .. MaxMessage, SendMassage(k), got' = got
  PROVE  UnitsOnce'
<1>1. k \in Nat \ {0} /\ taken \in Nat /\ taken' = taken + k
  BY BoundAssumption DEF SendMassage, TypeOK, OutputOK
<1>2. /\ snd \in Seq(Nat) /\ wbuf \in Seq(Nat) /\ got \in Seq(Nat)
      /\ Len(snd) \in Nat /\ Len(snd) <= SndBuf
  BY LenProperties DEF TypeOK, OutputOK
<1>3. 1 .. taken \subseteq 1 .. taken' BY <1>1
<1>4. CASE Room = 0
  <2>1. Stream' = Stream /\ open' = FALSE BY <1>4 DEF SendMassage, Stream
  <2> QED BY <1>3, <2>1 DEF UnitsOnce, Passed
<1>5. CASE Room # 0
  <2> DEFINE n == Least(k, Room)
  <2>1. /\ snd' = snd \o First(n, Units(k))
        /\ wbuf' = wbuf \o Rest(n, Units(k))
        /\ open' = open
    BY <1>5 DEF SendMassage
  <2>2. n \in 0 .. k BY <1>1, <1>2, BoundAssumption DEF Least, Room
  <2> HIDE DEF n
  <2>3. PICK u \in Seq(Nat) : u = Units(k) /\ Len(u) = k BY <1>1, UnitsType
  <2>4. PICK a \in Seq(Nat), b \in Seq(Nat) : a = First(n, u) /\ b = Rest(n, u) /\ a \o b = u
    <3>1. n \in 0 .. Len(u) BY <2>2, <2>3
    <3>2. First(n, u) \in Seq(Nat) /\ Rest(n, u) \in Seq(Nat) /\ First(n, u) \o Rest(n, u) = u
      BY <3>1, Split
    <3> QED BY <3>2
  <2>5. \A i \in 1 .. k : u[i] = taken + i BY <2>3 DEF Units
  <2>6. Once(u) BY <1>1, <2>3, <2>5 DEF Once
  <2>7. Elements(u) = taken + 1 .. taken + k
    <3>1. Elements(u) \subseteq taken + 1 .. taken + k BY <1>1, <2>3, <2>5 DEF Elements
    <3>2. ASSUME NEW e \in taken + 1 .. taken + k PROVE e \in Elements(u)
      <4>1. e - taken \in 1 .. k /\ taken + (e - taken) = e BY <1>1
      <4>2. u[e - taken] = e BY <2>5, <4>1
      <4> QED BY <2>3, <4>1, <4>2 DEF Elements
    <3> QED BY <3>1, <3>2
  <2>8. PICK old : old = got \o snd \o wbuf OBVIOUS
  <2>9. Once(old) /\ Elements(old) \subseteq 1 .. taken /\ (open => Elements(old) = 1 .. taken)
    BY <2>8 DEF UnitsOnce, Passed, Stream, Once, Elements
  <2>10. (1 .. taken) \cap (taken + 1 .. taken + k) = {} BY <1>1
  <2>11. Elements(old) \cap Elements(u) = {} BY <2>7, <2>9, <2>10
  <2>12. PICK new : new = got \o (snd \o a) \o (wbuf \o b) OBVIOUS
  <2>13. Once(new) /\ Elements(new) = Elements(old) \cup Elements(u)
    <3>1. Joined(got, snd, wbuf) = old /\ Cat(a, b) = u
          /\ Joined(got, Cat(snd, a), Cat(wbuf, b)) = new
      BY <2>4, <2>8, <2>12 DEF Joined, Cat
    <3>2. /\ Once(Joined(got, snd, wbuf)) /\ Once(Cat(a, b))
          /\ Elements(Joined(got, snd, wbuf)) \cap Elements(Cat(a, b)) = {}
      BY <2>6, <2>9, <2>11, <3>1
    <3>3. got \in Seq(Nat) /\ snd \in Seq(Nat) /\ wbuf \in Seq(Nat) BY <1>2
    <3>4. Once(Joined(got, Cat(snd, a), Cat(wbuf, b))) BY <3>2, <3>3, SlipsIn
    <3>5. ASSUME NEW e
          PROVE  e \in Elements(Joined(got, Cat(snd, a), Cat(wbuf, b))) <=>
                    e \in Elements(Joined(got, snd, wbuf)) \/ e \in Elements(Cat(a, b))
      BY <3>2, <3>3, SlipsIn
    <3> QED BY <3>1, <3>4, <3>5
  <2>14. Stream' = new BY <2>1, <2>3, <2>4, <2>12 DEF Stream
  <2>15. (1 .. taken) \cup (taken + 1 .. taken + k) = 1 .. taken' BY <1>1
  <2>16. Elements(new) \subseteq 1 .. taken' /\ (open' => Elements(new) = 1 .. taken')
    BY <2>1, <2>7, <2>9, <2>13, <2>15
  <2> QED BY <2>13, <2>14, <2>16 DEF UnitsOnce, Passed, Once, Elements
<1> QED BY <1>4, <1>5

LEMMA SameStream ==
  ASSUME UnitsOnce, Stream' = Stream, taken' = taken, open' => open
  PROVE  UnitsOnce'
  BY DEF UnitsOnce, Passed

\* The write event and the peer only move units on.
LEMMA MovesOn ==
  ASSUME TypeOK, UnitsOnce, HandleWriteEvent \/ PeerReceives
  PROVE  UnitsOnce'
<1>1. taken' = taken /\ (open' => open)
  BY DEF HandleWriteEvent, PeerReceives, TypeOK, FlagsOK
<1>2. /\ snd \in Seq(Nat) /\ wbuf \in Seq(Nat) /\ got \in Seq(Nat)
      /\ Len(snd) \in Nat /\ Len(snd) <= SndBuf /\ Len(wbuf) \in Nat
  BY LenProperties DEF TypeOK, OutputOK
<1>3. CASE PeerReceives
  <2>1. got' \o snd' = got \o snd /\ wbuf' = wbuf BY <1>2, <1>3, MoveHead DEF PeerReceives
  <2>2. Stream' = Stream BY ONLY <2>1 DEF Stream
  <2> QED BY <1>1, <2>2, SameStream
<1>4. CASE HandleWriteEvent /\ wbuf # <<>> /\ Room = 0
  <2>1. Stream' = Stream BY <1>4 DEF HandleWriteEvent, Stream
  <2> QED BY <1>1, <2>1, SameStream
<1>5. CASE HandleWriteEvent /\ ~(wbuf # <<>> /\ Room = 0)
  <2> DEFINE n == Least(Len(wbuf), Room)
  <2>1. got' = got /\ snd' = snd \o First(n, wbuf) /\ wbuf' = Rest(n, wbuf)
    BY <1>5 DEF HandleWriteEvent
  <2>2. n \in 0 .. Len(wbuf) BY <1>2, BoundAssumption DEF Least, Room
  <2> HIDE DEF n
  <2>3. Cat(Cat(got, Cat(snd, First(n, wbuf))), Rest(n, wbuf)) = Cat(Cat(got, snd), wbuf)
    BY <1>2, <2>2, MoveFirst
  <2>4. Stream' = Stream BY ONLY <2>1, <2>3 DEF Cat, Stream
  <2> QED BY <1>1, <2>4, SameStream
<1> QED BY <1>3, <1>4, <1>5

LEMMA OnceKept == TypeOK /\ UnitsOnce /\ [Next]_vars => UnitsOnce'
<1> SUFFICES ASSUME TypeOK, UnitsOnce, [Next]_vars PROVE UnitsOnce' OBVIOUS
<1>1. ASSUME NEW k \in 1 .. MaxMessage, SendMassage(k), got' = got PROVE UnitsOnce'
  BY <1>1, SendOnce
<1>2. ASSUME UNCHANGED <<taken, wbuf, snd, got>>, open' => open PROVE UnitsOnce'
  <2>1. Stream' = Stream BY <1>2 DEF Stream
  <2> QED BY <1>2, <2>1, SameStream
<1>3. CASE HandleWriteEvent \/ PeerReceives BY <1>3, MovesOn
<1>4. ASSUME NEW k \in 1 .. MaxMessage, IntruderSends(k) PROVE UnitsOnce'
  BY <1>1, <1>4 DEF IntruderSends
<1>5. CASE ReadAgain BY <1>1, <1>2, <1>5 DEF ReadAgain, OnRecv
<1>6. CASE PeerSends \/ PeerShutsDown \/ WaitReturns \/ Dispatch \/ StartReading \/ ReadSome \/ ReadEof
  BY <1>2, <1>6
     DEF PeerSends, PeerShutsDown, WaitReturns, Dispatch, StartReading, ReadSome, ReadEof, output
<1>7. CASE UNCHANGED vars BY <1>2, <1>7 DEF vars
<1> QED BY <1>3, <1>4, <1>5, <1>6, <1>7 DEF Next, LoopNext

\* For any messages, sent by anybody at any time: though a message may overtake the
\* rest of another, what SendMassage took comes once, all of it, unless the
\* connection is closed.
THEOREM NothingTwiceNorLost == Spec => []UnitsOnce
<1>1. Init => UnitsOnce
  <2> SUFFICES ASSUME Init PROVE UnitsOnce OBVIOUS
  <2>1. <<>> \in Seq(Nat) /\ Len(<<>>) = 0 BY EmptySeq
  <2>2. Stream = <<>> BY <2>1, ConcatEmptySeq DEF Init, Stream
  <2>3. taken = 0 BY DEF Init
  <2> QED BY <2>1, <2>2, <2>3 DEF UnitsOnce, Passed
<1> QED BY <1>1, OnceKept, Typing, PTL DEF Spec
===========================================================================
