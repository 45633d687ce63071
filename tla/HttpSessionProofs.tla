--------------------------- MODULE HttpSessionProofs ---------------------------
(***************************************************************************)
(* Theorems about HttpSession, for any number of requests, any lengths of  *)
(* heads and bodies and any places of the line ends: its types, however    *)
(* the stream is cut, and that a peer that lets a head come whole and      *)
(* waits for its answers is understood.                                    *)
(***************************************************************************)
EXTENDS HttpSession, FiniteSetTheorems, SequenceTheorems, TLAPS

-----------------------------------------------------------------------------
(* The stream: where requests end, and which byte is where.                *)

\* The least of a set of numbers.
LEMMA LeastNumber ==
  ASSUME NEW S, S \subseteq Nat, S # {}
  PROVE  \E n \in S : \A m \in S : n <= m
<1> DEFINE Below(n) == 0 .. (n - 1)
           Segments == {Below(n) : n \in S}
<1>1. Segments \subseteq FiniteSubsetsOf(Nat)
  <2>1. ASSUME NEW n \in S PROVE Below(n) \in FiniteSubsetsOf(Nat)
    <3>1. IsFiniteSet(Below(n)) BY FS_Interval
    <3>2. Below(n) \in SUBSET Nat OBVIOUS
    <3> HIDE DEF Below
    <3> QED BY <3>1, <3>2 DEF FiniteSubsetsOf
  <2> QED BY <2>1
<1>2. \E x \in Segments : \A y \in Segments : ~(<<y, x>> \in StrictSubsetOrdering(Nat))
  <2>1. Segments # {} OBVIOUS
  <2> HIDE DEF Segments
  <2> QED BY <1>1, <2>1, FS_StrictSubsetOrderingWellFounded, WFMin, Zenon
<1>3. PICK n \in S : \A m \in S : ~(<<Below(m), Below(n)>> \in StrictSubsetOrdering(Nat))
  BY <1>2
<1>4. ASSUME NEW m \in S, m < n PROVE FALSE
  <2>1. Below(m) \subseteq Below(n) /\ m \in Below(n) /\ m \notin Below(m) BY <1>4
  <2>2. Below(m) \in SUBSET Nat /\ Below(n) \in SUBSET Nat OBVIOUS
  <2> QED BY <2>1, <2>2, <1>3 DEF StrictSubsetOrdering
<1> QED BY <1>4

\* The ends of requests with bodies of the lengths s can be counted up.
LEMMA EndExists ==
  ASSUME NEW s \in [1 .. Requests -> Nat]
  PROVE  \E f \in [0 .. Requests -> Nat] :
           f = [q \in 0 .. Requests |-> IF q = 0 THEN 0 ELSE f[q - 1] + HeadSize + s[q]]
<1> USE SizeAssumption
<1> DEFINE Counts(f, n) == f[0] = 0 /\ \A q \in 1 .. n : f[q] = f[q - 1] + HeadSize + s[q]
           Bad == {n \in 0 .. Requests : ~\E f \in [0 .. n -> Nat] : Counts(f, n)}
<1>1. Bad = {}
  <2> SUFFICES ASSUME Bad # {} PROVE FALSE OBVIOUS
  <2>1. Bad \subseteq Nat OBVIOUS
  <2> HIDE DEF Bad
  <2>2. PICK n \in Bad : \A m \in Bad : n <= m BY <2>1, LeastNumber
  <2> USE DEF Bad
  <2>3. n # 0
    <3>1. [q \in 0 .. 0 |-> 0] \in [0 .. 0 -> Nat] /\ Counts([q \in 0 .. 0 |-> 0], 0) OBVIOUS
    <3> QED BY <3>1
  <2>4. n \in 1 .. Requests /\ n - 1 \in 0 .. Requests BY <2>3
  <2>5. n - 1 \notin Bad
    <3> HIDE DEF Bad
    <3> QED BY <2>2, <2>4
  <2>6. PICK f \in [0 .. n - 1 -> Nat] : Counts(f, n - 1) BY <2>4, <2>5
  <2> DEFINE g == [q \in 0 .. n |-> IF q = n THEN f[n - 1] + HeadSize + s[n] ELSE f[q]]
  <2>7. g \in [0 .. n -> Nat] BY <2>4
  <2>8. Counts(g, n)
    <3>1. g[0] = 0 BY <2>4, <2>6
    <3>2. ASSUME NEW q \in 1 .. n PROVE g[q] = g[q - 1] + HeadSize + s[q]
      <4>1. CASE q = n BY <2>4, <4>1
      <4>2. CASE q # n
        <5>1. q \in 1 .. n - 1 BY <2>4, <4>2
        <5>2. g[q] = f[q] /\ g[q - 1] = f[q - 1] BY <2>4, <4>2
        <5> QED BY <2>6, <5>1, <5>2
      <4> QED BY <4>1, <4>2
    <3> QED BY <3>1, <3>2
  <2> QED BY <2>7, <2>8
<1>2. PICK f \in [0 .. Requests -> Nat] : Counts(f, Requests)
  <2>1. Requests \in 0 .. Requests OBVIOUS
  <2>2. Requests \notin Bad
    <3> HIDE DEF Bad
    <3> QED BY <1>1
  <2> QED BY <2>1, <2>2
<1>3. f = [q \in 0 .. Requests |-> IF q = 0 THEN 0 ELSE f[q - 1] + HeadSize + s[q]]
  BY <1>2
<1> QED BY <1>3

Sized == sizes \in [1 .. Requests -> 0 .. MaxBody]

\* The definition of End by recursion has the function it describes.
LEMMA EndIs ==
  ASSUME Sized
  PROVE  /\ End \in [0 .. Requests -> Nat] /\ End[0] = 0
         /\ \A q \in 1 .. Requests : /\ sizes[q] \in Nat /\ End[q - 1] \in Nat /\ End[q] \in Nat
                                     /\ End[q] = End[q - 1] + HeadSize + sizes[q]
<1> USE SizeAssumption
<1>1. sizes \in [1 .. Requests -> Nat] BY DEF Sized
<1>2. End = [q \in 0 .. Requests |-> IF q = 0 THEN 0 ELSE End[q - 1] + HeadSize + sizes[q]]
  <2> DEFINE Is(f) == f = [q \in 0 .. Requests |->
                           IF q = 0 THEN 0 ELSE f[q - 1] + HeadSize + sizes[q]]
  <2>1. \E f : Is(f) BY <1>1, EndExists
  <2>2. End = CHOOSE f : Is(f) BY DEF End
  <2> HIDE DEF Is
  <2>3. Is(End) BY <2>1, <2>2
  <2> QED BY <2>3 DEF Is
<1>3. End[0] = 0 /\ \A q \in 1 .. Requests : End[q] = End[q - 1] + HeadSize + sizes[q]
  BY <1>2
<1>4. \A q \in 0 .. Requests : End[q] \in Nat
  <2> DEFINE Bad == {q \in 0 .. Requests : End[q] \notin Nat}
  <2> SUFFICES ASSUME Bad # {} PROVE FALSE OBVIOUS
  <2>1. Bad \subseteq Nat OBVIOUS
  <2> HIDE DEF Bad
  <2>2. PICK n \in Bad : \A m \in Bad : n <= m BY <2>1, LeastNumber
  <2>3. n \in 0 .. Requests /\ End[n] \notin Nat BY DEF Bad
  <2>4. n # 0 BY <1>3, <2>3
  <2>5. n - 1 \in 0 .. Requests /\ n - 1 \notin Bad BY <2>2, <2>3, <2>4
  <2>6. End[n - 1] \in Nat BY <2>5 DEF Bad
  <2> QED BY <1>1, <1>3, <2>3, <2>4, <2>6
<1>5. End \in [0 .. Requests -> Nat]
  <2>1. DOMAIN End = 0 .. Requests /\ End = [q \in DOMAIN End |-> End[q]] BY <1>2
  <2> QED BY <1>4, <2>1
<1> QED BY <1>1, <1>3, <1>4, <1>5

\* End is about the sizes, and nothing else that changes.
LEMMA EndStays == ASSUME UNCHANGED sizes PROVE End' = End
  BY DEF End

\* Requests come one after the other.
LEMMA EndRises ==
  ASSUME Sized, NEW p \in 0 .. Requests, NEW q \in 0 .. Requests, p <= q
  PROVE  End[p] <= End[q]
<1> USE SizeAssumption
<1> DEFINE Bad == {r \in p .. Requests : ~(End[p] <= End[r])}
<1>1. Bad = {}
  <2> SUFFICES ASSUME Bad # {} PROVE FALSE OBVIOUS
  <2>1. Bad \subseteq Nat OBVIOUS
  <2> HIDE DEF Bad
  <2>2. PICK n \in Bad : \A m \in Bad : n <= m BY <2>1, LeastNumber
  <2>3. n \in p .. Requests /\ ~(End[p] <= End[n]) BY DEF Bad
  <2>4. n # p BY <2>3, EndIs
  <2>5. n - 1 \in p .. Requests /\ n - 1 \notin Bad BY <2>2, <2>3, <2>4
  <2>6. End[p] <= End[n - 1] BY <2>5 DEF Bad
  <2>7. n \in 1 .. Requests BY <2>3, <2>4
  <2>8. /\ End[n - 1] \in Nat /\ End[n] \in Nat /\ sizes[n] \in Nat
        /\ End[n] = End[n - 1] + HeadSize + sizes[n]
    BY <2>7, EndIs
  <2>9. End[p] \in Nat BY EndIs
  <2> QED BY <2>3, <2>6, <2>8, <2>9
<1> QED BY <1>1

\* The byte at place k of a stream whose requests end at the places E.
ByteIn(E, k) == LET q == CHOOSE r \in 1 .. Requests : E[r - 1] < k /\ k <= E[r]
                IN  Byte(q, k - E[q - 1])

\* Every byte of the stream belongs to a request, ...
LEMMA Covered ==
  ASSUME Sized, NEW k \in 1 .. End[Requests]
  PROVE  \E q \in 1 .. Requests : End[q - 1] < k /\ k <= End[q]
<1> USE SizeAssumption
<1> DEFINE S == {q \in 0 .. Requests : k <= End[q]}
<1>1. S \subseteq Nat /\ S # {} BY EndIs
<1> HIDE DEF S
<1>2. PICK q \in S : \A r \in S : q <= r BY <1>1, LeastNumber
<1>3. q \in 0 .. Requests /\ k <= End[q] BY DEF S
<1>4. q # 0 BY <1>3, EndIs
<1>5. q - 1 \in 0 .. Requests /\ q - 1 \notin S BY <1>2, <1>3, <1>4
<1>6. ~(k <= End[q - 1]) BY <1>5 DEF S
<1>7. q \in 1 .. Requests BY <1>3, <1>4
<1> QED BY <1>3, <1>6, <1>7, EndIs

\* ... and to one only.
LEMMA ByteAtIs ==
  ASSUME Sized, NEW q \in 1 .. Requests, NEW k \in Nat, End[q - 1] < k, k <= End[q]
  PROVE  ByteIn(End, k) = Byte(q, k - End[q - 1])
<1> USE SizeAssumption
<1>1. ASSUME NEW r \in 1 .. Requests, End[r - 1] < k, k <= End[r] PROVE r = q
  <2>1. CASE r < q
    <3>1. End[r] <= End[q - 1] BY <2>1, EndRises
    <3> QED BY <1>1, <3>1, EndIs
  <2>2. CASE q < r
    <3>1. End[q] <= End[r - 1] BY <2>2, EndRises
    <3> QED BY <1>1, <3>1, EndIs
  <2> QED BY <2>1, <2>2
<1>2. q = CHOOSE r \in 1 .. Requests : End[r - 1] < k /\ k <= End[r] BY <1>1
<1> QED BY <1>2 DEF ByteIn

\* Every byte of the stream has its type.
LEMMA ByteAtType ==
  ASSUME Sized, NEW k \in 1 .. End[Requests]
  PROVE  \E q \in 1 .. Requests : /\ End[q - 1] < k /\ k <= End[q]
                                  /\ ByteIn(End, k) = Byte(q, k - End[q - 1])
                                  /\ ByteIn(End, k) \in Bytes
<1> USE SizeAssumption
<1>1. PICK q \in 1 .. Requests : End[q - 1] < k /\ k <= End[q] BY Covered
<1>2. ByteIn(End, k) = Byte(q, k - End[q - 1]) BY <1>1, ByteAtIs, EndIs
<1>3. k - End[q - 1] \in 1 .. HeadSize + MaxBody
  <2>1. End[Requests] \in Nat /\ k \in Nat BY EndIs
  <2>2. sizes[q] \in 0 .. MaxBody BY DEF Sized
  <2>3. End[q - 1] \in Nat /\ End[q] = End[q - 1] + HeadSize + sizes[q] BY EndIs
  <2> QED BY <1>1, <2>1, <2>2, <2>3
<1> QED BY <1>1, <1>2, <1>3 DEF Byte, Bytes

-----------------------------------------------------------------------------
(* Sequences of bytes.                                                     *)

\* What is left of a sequence without its first k elements.
LEMMA RestIs ==
  ASSUME NEW S, NEW s \in Seq(S), NEW k \in Nat
  PROVE  /\ Rest(k, s) \in Seq(S)
         /\ Len(Rest(k, s)) = IF k <= Len(s) THEN Len(s) - k ELSE 0
         /\ \A i \in 1 .. (Len(s) - k) : Rest(k, s)[i] = s[k + i]
<1>1. Len(s) \in Nat BY LenProperties
<1>2. \A i \in (k + 1) .. Len(s) : s[i] \in S BY <1>1
<1>3. /\ Rest(k, s) \in Seq(S)
      /\ Len(Rest(k, s)) = IF k + 1 <= Len(s) THEN Len(s) - (k + 1) + 1 ELSE 0
      /\ \A i \in 1 .. (Len(s) - (k + 1) + 1) : Rest(k, s)[i] = s[(k + 1) + i - 1]
  BY <1>1, <1>2, SubSeqProperties DEF Rest
<1>4. ASSUME NEW i \in 1 .. (Len(s) - k) PROVE Rest(k, s)[i] = s[k + i]
  <2>1. i \in 1 .. (Len(s) - (k + 1) + 1) /\ (k + 1) + i - 1 = k + i BY <1>1
  <2> QED BY <1>3, <2>1
<1> QED BY <1>1, <1>3, <1>4

\* The first k elements of a sequence.
LEMMA FirstIs ==
  ASSUME NEW S, NEW s \in Seq(S), NEW k \in 0 .. Len(s)
  PROVE  /\ First(k, s) \in Seq(S) /\ Len(First(k, s)) = k
         /\ \A i \in 1 .. k : First(k, s)[i] = s[i]
<1>1. Len(s) \in Nat BY LenProperties
<1>2. \A i \in 1 .. k : s[i] \in S BY <1>1
<1>3. /\ First(k, s) \in Seq(S) /\ Len(First(k, s)) = IF 1 <= k THEN k - 1 + 1 ELSE 0
      /\ \A i \in 1 .. (k - 1 + 1) : First(k, s)[i] = s[1 + i - 1]
  BY <1>1, <1>2, SubSeqProperties DEF First
<1>4. ASSUME NEW i \in 1 .. k PROVE First(k, s)[i] = s[i]
  <2>1. i \in 1 .. (k - 1 + 1) /\ 1 + i - 1 = i BY <1>1
  <2> QED BY <1>3, <2>1
<1> QED BY <1>1, <1>3, <1>4

\* Where the parser stops: in the last line, or at the end of the first head.
LEMMA StopIs ==
  ASSUME NEW b \in Seq(Bytes), ~NoLine(b)
  PROVE  /\ LastLine(b) \in 1 .. Len(b) /\ EndsLine(b[LastLine(b)])
         /\ \A i \in LineEnds(b) : i <= LastLine(b)
         /\ Stop(b) \in 1 .. LastLine(b)
         /\ \A i \in 1 .. LastLine(b) : EmptyLine(head \o b, Len(head) + i)
              => Stop(b) <= i /\ EmptyLine(head \o b, Len(head) + Stop(b))
<1>1. Len(b) \in Nat /\ DOMAIN b = 1 .. Len(b) BY LenProperties
<1>2. LineEnds(b) # {} /\ LineEnds(b) \subseteq 1 .. Len(b) BY <1>1 DEF NoLine, LineEnds
<1>3. LastLine(b) \in LineEnds(b) /\ \A i \in LineEnds(b) : i <= LastLine(b)
  <2> DEFINE S == {Len(b) - i : i \in LineEnds(b)}
  <2>1. S \subseteq Nat /\ S # {} BY <1>1, <1>2
  <2> HIDE DEF S
  <2>2. PICK n \in S : \A m \in S : n <= m BY <2>1, LeastNumber
  <2>3. PICK i \in LineEnds(b) : n = Len(b) - i BY DEF S
  <2>4. ASSUME NEW j \in LineEnds(b) PROVE j <= i
    <3>1. Len(b) - j \in S BY DEF S
    <3> QED BY <1>1, <1>2, <2>2, <2>3, <3>1
  <2> QED BY <2>4 DEF LastLine
<1>4. LastLine(b) \in 1 .. Len(b) /\ EndsLine(b[LastLine(b)]) BY <1>1, <1>2, <1>3 DEF LineEnds
<1> DEFINE ends == {i \in 1 .. LastLine(b) : EmptyLine(head \o b, Len(head) + i)}
<1>5. Stop(b) = IF ends = {} THEN LastLine(b) ELSE CHOOSE i \in ends : \A j \in ends : i <= j
  BY DEF Stop
<1>6. CASE ends = {} BY <1>1, <1>3, <1>4, <1>5, <1>6
<1>7. CASE ends # {}
  <2>1. ends \subseteq Nat /\ ends \subseteq 1 .. LastLine(b) BY <1>1, <1>4
  <2>2. \A i \in 1 .. LastLine(b) : EmptyLine(head \o b, Len(head) + i) <=> i \in ends OBVIOUS
  <2> HIDE DEF ends
  <2>3. \E n \in ends : \A m \in ends : n <= m BY <1>7, <2>1, LeastNumber
  <2>4. Stop(b) \in ends /\ \A m \in ends : Stop(b) <= m BY <1>5, <1>7, <2>3
  <2> QED BY <1>3, <1>4, <2>1, <2>2, <2>4
<1> QED BY <1>6, <1>7

-----------------------------------------------------------------------------
(* What the session did not go through yet is the end of what was sent.      *)

Trailing == status = "open" =>
    /\ Len(buffer) <= sent
    /\ \A i \in 1 .. Len(buffer) : buffer[i] = ByteIn(End, sent - Len(buffer) + i)

SInv == TypeOK /\ Trailing

\* What the parser is given.
Got(n) == buffer \o Piece(n)

\* What the types say.
LEMMA Typed ==
  ASSUME TypeOK
  PROVE  /\ Sized /\ sent \in Nat /\ sent <= End[Requests] /\ End[Requests] \in Nat
         /\ nread \in Nat /\ Len(delivered) \in Nat
         /\ DOMAIN delivered = 1 .. Len(delivered)
<1>1. Sized BY DEF TypeOK, Sized
<1>2. End[Requests] \in Nat BY <1>1, SizeAssumption, EndIs
<1>3. sent \in 0 .. End[Requests] /\ nread \in 0 .. sent BY DEF TypeOK
<1>4. Len(delivered) \in Nat /\ DOMAIN delivered = 1 .. Len(delivered)
  BY LenProperties DEF TypeOK
<1> QED BY <1>1, <1>2, <1>3, <1>4

\* What the parser is given ends with the last byte that was sent.
LEMMA GotIs ==
  ASSUME SInv, status = "open", NEW n \in 1 .. End[Requests], MaySend(n)
  PROVE  /\ Got(n) \in Seq(Bytes) /\ Len(Got(n)) = Len(buffer) + n
         /\ Len(buffer) \in Nat /\ Len(Got(n)) \in Nat /\ n \in Nat
         /\ Len(Got(n)) <= sent + n /\ sent + n <= End[Requests]
         /\ \A i \in 1 .. Len(Got(n)) : Got(n)[i] = ByteIn(End, sent + n - Len(Got(n)) + i)
         /\ \A i \in 1 .. Len(buffer) : Got(n)[i] = buffer[i]
         /\ Len(Piece(n)) = n /\ DOMAIN Piece(n) = 1 .. n
         /\ \A i \in 1 .. n : Got(n)[Len(buffer) + i] = Piece(n)[i]
<1> USE DEF SInv
<1>1. Sized /\ sent \in Nat /\ End[Requests] \in Nat BY Typed
<1>2. n \in Nat /\ sent + n <= End[Requests] BY <1>1 DEF MaySend
<1>3. \A i \in 1 .. n : Piece(n)[i] = ByteIn(End, sent + i) /\ Piece(n)[i] \in Bytes
  <2> SUFFICES ASSUME NEW i \in 1 .. n
               PROVE  Piece(n)[i] = ByteIn(End, sent + i) /\ Piece(n)[i] \in Bytes
    OBVIOUS
  <2>1. Piece(n)[i] = ByteIn(End, sent + i) BY DEF Piece, ByteAt, ByteIn
  <2>2. sent + i \in 1 .. End[Requests] BY <1>1, <1>2
  <2> QED BY <1>1, <2>1, <2>2, ByteAtType
<1>4. Piece(n) \in Seq(Bytes) /\ Len(Piece(n)) = n /\ DOMAIN Piece(n) = 1 .. n
  <2>1. Piece(n) \in [1 .. n -> Bytes] BY <1>3 DEF Piece
  <2> HIDE DEF Piece
  <2> QED BY <1>2, <2>1
<1>5. buffer \in Seq(Bytes) /\ Len(buffer) \in Nat BY LenProperties DEF TypeOK
<1>6. /\ Got(n) \in Seq(Bytes) /\ Len(Got(n)) = Len(buffer) + n
      /\ \A i \in 1 .. (Len(buffer) + n) :
           Got(n)[i] = IF i <= Len(buffer) THEN buffer[i] ELSE Piece(n)[i - Len(buffer)]
  BY <1>4, <1>5, ConcatProperties DEF Got
<1>7. Len(Got(n)) <= sent + n /\ Len(Got(n)) \in Nat BY <1>1, <1>2, <1>5, <1>6 DEF Trailing
<1>8. ASSUME NEW i \in 1 .. (Len(buffer) + n)
      PROVE  Got(n)[i] = ByteIn(End, sent + n - Len(Got(n)) + i)
  <2>1. sent + n - Len(Got(n)) + i = sent - Len(buffer) + i BY <1>1, <1>2, <1>5, <1>6
  <2>2. CASE i <= Len(buffer)
    <3>1. i \in 1 .. Len(buffer) BY <1>2, <1>5, <2>2
    <3> QED BY <1>6, <2>1, <2>2, <3>1 DEF Trailing
  <2>3. CASE ~(i <= Len(buffer))
    <3>1. i - Len(buffer) \in 1 .. n BY <1>2, <1>5, <2>3
    <3>2. sent + (i - Len(buffer)) = sent - Len(buffer) + i BY <1>1, <1>5
    <3> QED BY <1>3, <1>6, <2>1, <2>3, <3>1, <3>2
  <2> QED BY <2>2, <2>3
<1>9. \A i \in 1 .. Len(buffer) : Got(n)[i] = buffer[i]
  <2> SUFFICES ASSUME NEW i \in 1 .. Len(buffer) PROVE Got(n)[i] = buffer[i] OBVIOUS
  <2>1. i \in 1 .. (Len(buffer) + n) /\ i <= Len(buffer) BY <1>2, <1>5
  <2> QED BY <1>6, <2>1
<1>10. \A i \in 1 .. n : Got(n)[Len(buffer) + i] = Piece(n)[i]
  <2> SUFFICES ASSUME NEW i \in 1 .. n PROVE Got(n)[Len(buffer) + i] = Piece(n)[i] OBVIOUS
  <2>1. Len(buffer) + i \in 1 .. (Len(buffer) + n) /\ ~(Len(buffer) + i <= Len(buffer))
        /\ Len(buffer) + i - Len(buffer) = i
    BY <1>2, <1>5
  <2> QED BY <1>6, <2>1
<1> QED BY <1>2, <1>4, <1>5, <1>6, <1>7, <1>8, <1>9, <1>10

\* What is left of the bytes is the end of the stream, too.
LEMMA RestTrails ==
  ASSUME SInv, status = "open", NEW n \in 1 .. End[Requests], MaySend(n),
         NEW k \in Nat, buffer' = Rest(k, Got(n)), sent' = sent + n, UNCHANGED sizes
  PROVE  /\ buffer' \in Seq(Bytes) /\ Trailing'
         /\ Len(buffer') \in Nat /\ Len(buffer') <= sent'
         /\ sent - Len(buffer) <= sent' - Len(buffer')
         /\ k <= Len(Got(n)) => /\ Len(buffer') = Len(Got(n)) - k
                                /\ sent' - Len(buffer') = sent - Len(buffer) + k
         /\ \A i \in 1 .. Len(buffer') : buffer'[i] = Got(n)[k + i]
<1>1. End' = End BY EndStays
<1>2. /\ Got(n) \in Seq(Bytes) /\ Len(Got(n)) = Len(buffer) + n
      /\ Len(buffer) \in Nat /\ Len(Got(n)) \in Nat /\ n \in Nat
      /\ Len(Got(n)) <= sent + n
      /\ \A i \in 1 .. Len(Got(n)) : Got(n)[i] = ByteIn(End, sent + n - Len(Got(n)) + i)
  BY GotIs
<1>3. sent \in Nat BY Typed DEF SInv
<1>4. /\ buffer' \in Seq(Bytes)
      /\ Len(buffer') = IF k <= Len(Got(n)) THEN Len(Got(n)) - k ELSE 0
      /\ \A i \in 1 .. (Len(Got(n)) - k) : buffer'[i] = Got(n)[k + i]
  BY <1>2, RestIs
<1>5. /\ Len(buffer') \in Nat /\ Len(buffer') <= sent'
      /\ sent - Len(buffer) <= sent' - Len(buffer')
  BY <1>2, <1>3, <1>4
<1>6. CASE k <= Len(Got(n))
  <2>1. Len(buffer') = Len(Got(n)) - k /\ sent' - Len(buffer') = sent - Len(buffer) + k
    BY <1>2, <1>3, <1>4, <1>6
  <2>2. ASSUME NEW i \in 1 .. Len(buffer')
        PROVE  /\ buffer'[i] = Got(n)[k + i]
               /\ buffer'[i] = ByteIn(End', sent' - Len(buffer') + i)
    <3>1. k + i \in 1 .. Len(Got(n)) /\ i \in 1 .. (Len(Got(n)) - k) BY <1>2, <1>6, <2>1
    <3>2. sent + n - Len(Got(n)) + (k + i) = sent' - Len(buffer') + i
      BY <1>2, <1>3, <1>6, <2>1, <3>1
    <3>3. Got(n)[k + i] = ByteIn(End, sent + n - Len(Got(n)) + (k + i)) BY <1>2, <3>1
    <3> QED BY <1>1, <1>4, <3>1, <3>2, <3>3
  <2> QED BY <1>4, <1>5, <2>1, <2>2 DEF Trailing
<1>7. CASE ~(k <= Len(Got(n)))
  <2>1. Len(buffer') = 0 /\ 1 .. Len(buffer') = {} BY <1>4, <1>7
  <2> QED BY <1>4, <1>5, <1>7, <2>1 DEF Trailing
<1> QED BY <1>6, <1>7

-----------------------------------------------------------------------------
(* One call of OnRecv, and what it may come to.                              *)

\* What the parser has gone through of a head, after a call that found a line.
Parsed(n) == head \o First(Stop(Got(n)), Got(n))

\* What was gone through is typed, and the stop lies in the lines that are there.
LEMMA ParsedIs ==
  ASSUME SInv, status = "open", NEW n \in 1 .. End[Requests], MaySend(n), ~NoLine(Got(n))
  PROVE  /\ Parsed(n) \in Seq(Bytes)
         /\ Stop(Got(n)) \in Nat /\ LastLine(Got(n)) \in Nat
         /\ 1 <= Stop(Got(n)) /\ Stop(Got(n)) <= LastLine(Got(n))
         /\ LastLine(Got(n)) <= Len(Got(n))
<1> DEFINE b == Got(n)
<1>1. b \in Seq(Bytes) /\ Len(b) \in Nat BY GotIs
<1>2. Stop(b) \in 1 .. LastLine(b) /\ LastLine(b) \in 1 .. Len(b) BY <1>1, StopIs
<1>3. Stop(b) \in 0 .. Len(b) BY <1>1, <1>2
<1>4. First(Stop(b), b) \in Seq(Bytes) BY <1>1, <1>3, FirstIs
<1>5. head \in Seq(Bytes) BY DEF SInv, TypeOK
<1> HIDE DEF b
<1>6. head \o First(Stop(b), b) \in Seq(Bytes) BY <1>4, <1>5, ConcatProperties
<1> QED BY <1>1, <1>2, <1>6 DEF Parsed, b

\* The request is complete and goes to the dispatcher, or its body is not there yet.
Delivers(h, b) == /\ \E length \in Lengths(h) : Len(b) >= length
                  /\ delivered' = Append(delivered, [head |-> h, body |-> b])
                  /\ status' = IF keepalive THEN "open" ELSE "closed"
                  /\ NewSession
Waits(h, b, read) == /\ \E length \in Lengths(h) : Len(b) < length
                     /\ buffer' = b /\ head' = h /\ nread' = read /\ finished' = TRUE
                     /\ UNCHANGED <<status, delivered>>

\* The call waits on in a body, or ends in one of these ways.
More(n) == /\ finished
           /\ \/ Delivers(head, Got(n))
              \/ Waits(head, Got(n), nread)
Holds(n) == ~finished /\ NoLine(Got(n)) /\ Hold(Got(n))
Refuses(n) == /\ ~finished /\ ~NoLine(Got(n)) /\ ~InPlace(Parsed(n))
              /\ status' = "refused" /\ NewSession /\ UNCHANGED delivered
Aborts(n) == /\ ~finished /\ ~NoLine(Got(n)) /\ nread + Stop(Got(n)) > LastLine(Got(n))
             /\ status' = "aborted" /\ UNCHANGED <<session, delivered>>
Heads(n) == /\ ~finished /\ ~NoLine(Got(n)) /\ nread + Stop(Got(n)) <= LastLine(Got(n))
            /\ EmptyLine(Parsed(n), Len(Parsed(n)))
            /\ \/ Delivers(Parsed(n), Rest(nread + Stop(Got(n)), Got(n)))
               \/ Waits(Parsed(n), Rest(nread + Stop(Got(n)), Got(n)), nread + Stop(Got(n)))
Goes(n) == /\ ~finished /\ ~NoLine(Got(n)) /\ nread + Stop(Got(n)) <= LastLine(Got(n))
           /\ ~EmptyLine(Parsed(n), Len(Parsed(n)))
           /\ buffer' = Rest(nread + Stop(Got(n)), Got(n))
           /\ head' = Parsed(n) /\ nread' = nread + Stop(Got(n))
           /\ UNCHANGED <<finished, status, delivered>>

\* These are all the ways a call of OnRecv can go.
LEMMA Outcomes ==
  ASSUME SInv, NEW n \in 1 .. End[Requests], MaySend(n), OnRecv(n)
  PROVE  /\ status = "open" /\ sent' = sent + n /\ UNCHANGED peer
         /\ More(n) \/ Holds(n) \/ Refuses(n) \/ Aborts(n) \/ Heads(n) \/ Goes(n)
<1>1. status = "open" /\ sent' = sent + n /\ UNCHANGED peer BY DEF OnRecv
<1> SUFFICES More(n) \/ Holds(n) \/ Refuses(n) \/ Aborts(n) \/ Heads(n) \/ Goes(n)
  BY <1>1
<1>2. \A h, b, read : Collect(h, b, read) => Delivers(h, b) \/ Waits(h, b, read)
  BY DEF Collect, Delivers, Waits
<1>3. CASE finished /\ Collect(head, Got(n), nread) BY <1>2, <1>3 DEF More
<1>4. CASE ~finished /\ NoLine(Got(n)) /\ Hold(Got(n)) BY <1>4 DEF Holds
<1>5. CASE ~finished /\ ~NoLine(Got(n)) /\ Execute(Got(n))
  <2> DEFINE total == nread + Stop(Got(n))
  <2>1. CASE ~InPlace(Parsed(n)) /\ status' = "refused" /\ NewSession /\ UNCHANGED delivered
    BY <1>5, <2>1 DEF Refuses
  <2>2. CASE total > LastLine(Got(n)) /\ status' = "aborted" /\ UNCHANGED <<session, delivered>>
    BY <1>5, <2>2 DEF Aborts
  <2>3. CASE /\ total <= LastLine(Got(n)) /\ EmptyLine(Parsed(n), Len(Parsed(n)))
             /\ Collect(Parsed(n), Rest(total, Got(n)), total)
    BY <1>2, <1>5, <2>3 DEF Heads
  <2>4. CASE /\ total <= LastLine(Got(n)) /\ ~EmptyLine(Parsed(n), Len(Parsed(n)))
             /\ buffer' = Rest(total, Got(n)) /\ head' = Parsed(n) /\ nread' = total
             /\ UNCHANGED <<finished, status, delivered>>
    BY <1>5, <2>4 DEF Goes
  <2> QED BY <1>5, <2>1, <2>2, <2>3, <2>4 DEF Execute, Parsed
<1> QED BY <1>3, <1>4, <1>5 DEF OnRecv, Got

-----------------------------------------------------------------------------
(* However the stream is cut: types are kept, and the rest is its end.     *)

\* Messages the dispatcher gets.
Messages == [head : Seq(Bytes), body : Seq(Bytes)]

\* A request that is delivered is the last of the history, and the session is new.
LEMMA DeliversIs ==
  ASSUME TypeOK, NEW h \in Seq(Bytes), NEW b \in Seq(Bytes), Delivers(h, b)
  PROVE  /\ delivered' \in Seq(Messages) /\ Len(delivered') = Len(delivered) + 1
         /\ DOMAIN delivered' = 1 .. (Len(delivered) + 1)
         /\ delivered'[Len(delivered) + 1] = [head |-> h, body |-> b]
         /\ \A i \in 1 .. Len(delivered) : delivered'[i] = delivered[i]
         /\ status' \in {"open", "closed"} /\ buffer' = <<>> /\ Len(buffer') = 0
         /\ head' = <<>> /\ nread' = 0 /\ finished' = FALSE
<1>1. delivered \in Seq(Messages) /\ [head |-> h, body |-> b] \in Messages
  BY DEF TypeOK, Messages
<1>2. delivered' = Append(delivered, [head |-> h, body |-> b])
  BY DEF Delivers
<1>3. /\ delivered' \in Seq(Messages) /\ Len(delivered') = Len(delivered) + 1
      /\ delivered'[Len(delivered) + 1] = [head |-> h, body |-> b]
      /\ \A i \in 1 .. Len(delivered) : delivered'[i] = delivered[i]
  BY <1>1, <1>2, AppendProperties
<1>4. DOMAIN delivered' = 1 .. (Len(delivered) + 1) BY <1>3, LenProperties
<1>5. /\ status' \in {"open", "closed"} /\ buffer' = <<>> /\ Len(buffer') = 0
      /\ head' = <<>> /\ nread' = 0 /\ finished' = FALSE
  BY DEF Delivers, NewSession
<1> QED BY <1>3, <1>4, <1>5

\* The bytes after the first k of those the parser is given; all of them after none.
LEMMA RestOfGot ==
  ASSUME SInv, status = "open", NEW n \in 1 .. End[Requests], MaySend(n)
  PROVE  /\ \A k \in Nat : Rest(k, Got(n)) \in Seq(Bytes)
         /\ Rest(0, Got(n)) = Got(n)
<1>1. Got(n) \in Seq(Bytes) /\ Len(Got(n)) \in Nat BY GotIs
<1>2. \A k \in Nat : Rest(k, Got(n)) \in Seq(Bytes) BY <1>1, RestIs
<1>3. /\ Rest(0, Got(n)) \in Seq(Bytes) /\ Len(Rest(0, Got(n))) = Len(Got(n))
      /\ \A i \in 1 .. Len(Got(n)) : Rest(0, Got(n))[i] = Got(n)[i]
  <2>1. /\ Len(Rest(0, Got(n))) = IF 0 <= Len(Got(n)) THEN Len(Got(n)) - 0 ELSE 0
        /\ \A i \in 1 .. (Len(Got(n)) - 0) : Rest(0, Got(n))[i] = Got(n)[0 + i]
    BY <1>1, RestIs
  <2> QED BY <1>1, <1>2, <2>1
<1>4. Rest(0, Got(n)) = Got(n) BY <1>1, <1>3, SeqEqual
<1> QED BY <1>2, <1>4

\* The types of what a call leaves.
LEMMA Frame ==
  ASSUME SInv, NEW n \in 1 .. End[Requests], MaySend(n), OnRecv(n),
         buffer' \in Seq(Bytes), head' \in Seq(Bytes), nread' \in Nat, nread' <= sent',
         finished' \in BOOLEAN, status' \in {"open", "closed", "refused", "aborted"},
         delivered' \in Seq(Messages)
  PROVE  TypeOK'
<1>1. sent' = sent + n /\ UNCHANGED <<polite, whole, keepalive, sizes>>
  BY DEF OnRecv, peer
<1>2. End' = End BY <1>1, EndStays
<1>3. sent' \in 0 .. End'[Requests]
  BY <1>1, <1>2, Typed DEF SInv, MaySend
<1>4. nread' \in 0 .. sent' BY <1>3
<1>5. {polite, whole, keepalive} \subseteq BOOLEAN /\ sizes \in [1 .. Requests -> 0 .. MaxBody]
  BY DEF SInv, TypeOK
<1> QED BY <1>1, <1>3, <1>4, <1>5 DEF TypeOK, Messages

\* However a call of OnRecv goes, the session stays typed and at the stream's end.
LEMMA SInvKeeps ==
  ASSUME SInv, NEW n \in 1 .. End[Requests], MaySend(n), OnRecv(n)
  PROVE  SInv'
<1>1. /\ status = "open" /\ sent' = sent + n /\ UNCHANGED peer
      /\ More(n) \/ Holds(n) \/ Refuses(n) \/ Aborts(n) \/ Heads(n) \/ Goes(n)
  BY Outcomes
<1>2. UNCHANGED sizes BY <1>1 DEF peer
<1>3. /\ sent \in Nat /\ nread \in Nat /\ nread <= sent /\ finished \in BOOLEAN
      /\ delivered \in Seq(Messages) /\ head \in Seq(Bytes) /\ buffer \in Seq(Bytes)
  BY Typed DEF SInv, TypeOK, Messages
<1>4. /\ Got(n) \in Seq(Bytes) /\ Len(Got(n)) \in Nat /\ n \in Nat
      /\ Len(Got(n)) <= sent + n
  BY <1>1, GotIs
<1>5. sent' \in Nat /\ nread <= sent' /\ 0 \in Nat /\ 0 <= sent' BY <1>1, <1>3, <1>4
<1>6. /\ Rest(0, Got(n)) = Got(n) /\ \A k \in Nat : Rest(k, Got(n)) \in Seq(Bytes)
      /\ <<>> \in Seq(Bytes)
  BY <1>1, RestOfGot
\* The session is replaced.
<1>7. ASSUME NEW h \in Seq(Bytes), NEW b \in Seq(Bytes), Delivers(h, b) PROVE SInv'
  <2>1. /\ delivered' \in Seq(Messages) /\ status' \in {"open", "closed"} /\ buffer' = <<>>
        /\ Len(buffer') = 0 /\ head' = <<>> /\ nread' = 0 /\ finished' = FALSE
    BY <1>7, DeliversIs DEF SInv
  <2>2. TypeOK'
    <3>1. /\ buffer' \in Seq(Bytes) /\ head' \in Seq(Bytes) /\ nread' \in Nat /\ nread' <= sent'
          /\ finished' \in BOOLEAN
      BY <1>5, <1>6, <2>1
    <3> QED BY <2>1, <3>1, Frame
  <2>3. Trailing' BY <1>5, <2>1 DEF Trailing
  <2> QED BY <2>2, <2>3 DEF SInv
\* The session goes on with what is left of the bytes.
<1>8. ASSUME NEW k \in Nat, buffer' = Rest(k, Got(n)), status' = "open",
             UNCHANGED delivered, head' \in Seq(Bytes), nread' \in Nat, nread' <= sent',
             finished' \in BOOLEAN
      PROVE  SInv'
  <2>1. buffer' \in Seq(Bytes) /\ Trailing' BY <1>1, <1>2, <1>8, RestTrails
  <2>2. TypeOK' BY <1>3, <1>8, <2>1, Frame
  <2> QED BY <2>1, <2>2 DEF SInv
\* The connection is over.
<1>9. ASSUME status' \in {"refused", "aborted"}, UNCHANGED delivered, buffer' \in Seq(Bytes),
             head' \in Seq(Bytes), nread' \in Nat, nread' <= sent', finished' \in BOOLEAN
      PROVE  SInv'
  <2>1. TypeOK' BY <1>3, <1>9, Frame
  <2> QED BY <1>9, <2>1 DEF SInv, Trailing
<1>10. CASE More(n)
  <2>1. CASE Delivers(head, Got(n)) BY <1>3, <1>4, <1>7, <2>1
  <2>2. CASE Waits(head, Got(n), nread)
    BY <1>1, <1>3, <1>5, <1>6, <1>8, <2>2 DEF Waits
  <2> QED BY <1>10, <2>1, <2>2 DEF More
<1>11. CASE Holds(n)
  BY <1>1, <1>3, <1>5, <1>8, <1>11 DEF Holds, Hold
<1>12. CASE Refuses(n)
  <2>1. /\ status' = "refused" /\ UNCHANGED delivered /\ buffer' = <<>> /\ head' = <<>>
        /\ nread' = 0 /\ finished' = FALSE
    BY <1>12 DEF Refuses, NewSession
  <2>2. /\ buffer' \in Seq(Bytes) /\ head' \in Seq(Bytes) /\ nread' \in Nat /\ nread' <= sent'
        /\ finished' \in BOOLEAN
    BY <1>5, <1>6, <2>1
  <2> QED BY <1>9, <2>1, <2>2
<1>13. CASE Aborts(n)
  BY <1>3, <1>5, <1>9, <1>13 DEF Aborts, session
<1>14. ASSUME ~NoLine(Got(n)), nread + Stop(Got(n)) <= LastLine(Got(n))
       PROVE  /\ Parsed(n) \in Seq(Bytes) /\ nread + Stop(Got(n)) \in Nat
              /\ nread + Stop(Got(n)) <= sent'
  <2>1. /\ Parsed(n) \in Seq(Bytes) /\ Stop(Got(n)) \in Nat /\ LastLine(Got(n)) \in Nat
        /\ LastLine(Got(n)) <= Len(Got(n))
    BY <1>1, <1>14, ParsedIs
  <2> QED BY <1>1, <1>3, <1>4, <1>14, <2>1
<1>15. CASE Heads(n)
  <2> DEFINE k == nread + Stop(Got(n))
  <2>1. Parsed(n) \in Seq(Bytes) /\ k \in Nat /\ k <= sent' BY <1>14, <1>15 DEF Heads
  <2>2. CASE Delivers(Parsed(n), Rest(k, Got(n))) BY <1>6, <1>7, <2>1, <2>2
  <2>3. CASE Waits(Parsed(n), Rest(k, Got(n)), k)
    BY <1>1, <1>8, <2>1, <2>3 DEF Waits
  <2> QED BY <1>15, <2>2, <2>3 DEF Heads
<1>16. CASE Goes(n)
  BY <1>1, <1>3, <1>8, <1>14, <1>16 DEF Goes
<1> QED BY <1>1, <1>10, <1>11, <1>12, <1>13, <1>15, <1>16

-----------------------------------------------------------------------------
(* A peer that lets a head come whole.                                     *)

Current == Len(delivered) + 1
Base == End[Len(delivered)]

\* The stream in step with the sessions: each one begins with a request's first byte.
Clean == whole /\ (polite \/ delivered = <<>>)

\* Nothing has come of the next request's lines, or its head, and not all its body.
InStep == Clean /\ status = "open" =>
    /\ Len(delivered) <= Requests
    /\ IF finished
       THEN /\ Len(delivered) < Requests
            /\ head = HeadOf(Current) /\ nread = HeadSize
            /\ sent = Base + HeadSize + Len(buffer) /\ Len(buffer) < sizes[Current]
       ELSE /\ head = <<>> /\ nread = 0
            /\ sent = Base + Len(buffer) /\ Len(buffer) < HeadSize
            /\ LineEnds(buffer) = {}

\* A head is longer than its first byte and ends with a line.
LEMMA HeadSizeIs == HeadSize \in Nat /\ 2 <= HeadSize /\ HeadSize \in Lines
  BY SizeAssumption, LineAssumption

\* A head as it was sent: in its place, and with its own length.
LEMMA HeadOfIs ==
  ASSUME NEW q \in 1 .. Requests
  PROVE  /\ HeadOf(q) \in Seq(Bytes) /\ Len(HeadOf(q)) = HeadSize
         /\ \A i \in 1 .. HeadSize : HeadOf(q)[i] = Byte(q, i)
         /\ InPlace(HeadOf(q)) /\ Lengths(HeadOf(q)) = {sizes[q]}
<1> USE HeadSizeIs, SizeAssumption
<1>1. \A i \in 1 .. HeadSize : Byte(q, i) \in Bytes BY DEF Byte, Bytes
<1>2. HeadOf(q) \in [1 .. HeadSize -> Bytes] BY <1>1 DEF HeadOf
<1>3. /\ HeadOf(q) \in Seq(Bytes) /\ Len(HeadOf(q)) = HeadSize
      /\ \A i \in 1 .. HeadSize : HeadOf(q)[i] = Byte(q, i)
  <2>1. \A i \in 1 .. HeadSize : HeadOf(q)[i] = Byte(q, i) BY DEF HeadOf
  <2> QED BY <1>2, <2>1
<1>4. HeadOf(q)[1].request = q
  BY <1>3 DEF Byte
<1>5. First(HeadSize, HeadOf(q)) = HeadOf(q)
  <2>1. HeadSize \in 0 .. Len(HeadOf(q)) BY <1>3
  <2>2. /\ First(HeadSize, HeadOf(q)) \in Seq(Bytes) /\ Len(First(HeadSize, HeadOf(q))) = HeadSize
        /\ \A i \in 1 .. HeadSize : First(HeadSize, HeadOf(q))[i] = HeadOf(q)[i]
    BY <1>3, <2>1, FirstIs
  <2> QED BY <1>3, <2>2, SeqEqual
<1>6. InPlace(HeadOf(q)) BY <1>3, <1>4, <1>5 DEF InPlace
<1> QED BY <1>3, <1>4, <1>6 DEF Lengths

\* The bytes behind a head are the body, and what comes after it.
LEMMA BodyIs ==
  ASSUME Sized, NEW q \in 1 .. Requests, NEW b \in Seq(Bytes), sizes[q] <= Len(b),
         \A i \in 1 .. Len(b) : b[i] = ByteIn(End, End[q - 1] + HeadSize + i)
  PROVE  /\ First(sizes[q], b) = BodyOf(q)
         /\ Len(b) = sizes[q] => b = BodyOf(q)
<1> USE HeadSizeIs
<1>1. /\ sizes[q] \in Nat /\ End[q - 1] \in Nat /\ Len(b) \in Nat
      /\ End[q] = End[q - 1] + HeadSize + sizes[q]
  BY EndIs, LenProperties
<1>2. ASSUME NEW i \in 1 .. sizes[q] PROVE b[i] = Byte(q, HeadSize + i)
  <2> DEFINE k == End[q - 1] + HeadSize + i
  <2>1. k \in Nat /\ End[q - 1] < k /\ k <= End[q] /\ k - End[q - 1] = HeadSize + i
    BY <1>1
  <2>2. i \in 1 .. Len(b) /\ b[i] = ByteIn(End, k) BY <1>1
  <2> HIDE DEF k
  <2>3. ByteIn(End, k) = Byte(q, k - End[q - 1]) BY <2>1, ByteAtIs
  <2> QED BY <2>1, <2>2, <2>3
<1>3. /\ BodyOf(q) \in Seq(Bytes) /\ Len(BodyOf(q)) = sizes[q]
      /\ \A i \in 1 .. sizes[q] : BodyOf(q)[i] = Byte(q, HeadSize + i)
  <2>1. \A i \in 1 .. sizes[q] : b[i] \in Bytes BY <1>1
  <2>2. BodyOf(q) \in [1 .. sizes[q] -> Bytes] BY <1>2, <2>1 DEF BodyOf
  <2>3. \A i \in 1 .. sizes[q] : BodyOf(q)[i] = Byte(q, HeadSize + i) BY DEF BodyOf
  <2> DEFINE m == sizes[q]
  <2>4. m \in Nat /\ BodyOf(q) \in [1 .. m -> Bytes] BY <1>1, <2>2
  <2> HIDE DEF m
  <2>5. BodyOf(q) \in Seq(Bytes) /\ Len(BodyOf(q)) = m BY <2>4
  <2> QED BY <2>3, <2>5 DEF m
<1>4. First(sizes[q], b) = BodyOf(q)
  <2>1. sizes[q] \in 0 .. Len(b) BY <1>1
  <2>2. /\ First(sizes[q], b) \in Seq(Bytes) /\ Len(First(sizes[q], b)) = sizes[q]
        /\ \A i \in 1 .. sizes[q] : First(sizes[q], b)[i] = b[i]
    BY <2>1, FirstIs
  <2> QED BY <1>2, <1>3, <2>2, SeqEqual
<1>5. Len(b) = sizes[q] => b = BodyOf(q) BY <1>2, <1>3, SeqEqual
<1> QED BY <1>4, <1>5

\* The request whose bytes are next.
LEMMA InHead ==
  ASSUME SInv, InStep, Clean, NEW n \in 1 .. End[Requests], MaySend(n), status = "open"
  PROVE  /\ Current \in 1 .. Requests /\ Base = End[Current - 1] /\ Base \in Nat
         /\ Len(delivered) \in Nat /\ Sized
         /\ sizes[Current] \in Nat /\ End[Current] = Base + HeadSize + sizes[Current]
         /\ polite => sent + n <= End[Current]
<1> USE HeadSizeIs
<1>1. /\ Sized /\ sent \in Nat /\ End[Requests] \in Nat /\ Len(delivered) \in Nat
  BY Typed DEF SInv
<1>2. Len(delivered) < Requests
  <2>1. CASE polite BY <2>1 DEF MaySend
  <2>2. CASE delivered = <<>>
    <3>1. Requests # 0 BY <1>1, EndIs
    <3> QED BY <2>2, <3>1, SizeAssumption
  <2> QED BY <2>1, <2>2 DEF Clean
<1>3. Current \in 1 .. Requests /\ Current - 1 = Len(delivered)
  BY <1>1, <1>2, SizeAssumption DEF Current
<1>4. /\ Base \in Nat /\ sizes[Current] \in Nat
      /\ End[Current] = Base + HeadSize + sizes[Current]
  BY <1>1, <1>3, EndIs DEF Base
<1>5. polite => sent + n <= End[Current] BY DEF MaySend, Current
<1> QED BY <1>1, <1>3, <1>4, <1>5 DEF Base

\* The bytes of a session that has not seen the head's end.
LEMMA BytesInHead ==
  ASSUME SInv, InStep, Clean, NEW n \in 1 .. End[Requests], MaySend(n), status = "open",
         ~finished
  PROVE  \A i \in 1 .. Len(Got(n)) :
           /\ Got(n)[i] = ByteIn(End, Base + i)
           /\ i <= HeadSize => Got(n)[i] = Byte(Current, i)
<1> USE HeadSizeIs
<1> SUFFICES ASSUME NEW i \in 1 .. Len(Got(n))
             PROVE  /\ Got(n)[i] = ByteIn(End, Base + i)
                    /\ i <= HeadSize => Got(n)[i] = Byte(Current, i)
  OBVIOUS
<1>1. /\ Len(Got(n)) = Len(buffer) + n /\ Len(buffer) \in Nat /\ Len(Got(n)) \in Nat
      /\ n \in Nat /\ i \in Nat
  BY GotIs
<1>1a. Got(n)[i] = ByteIn(End, sent + n - Len(Got(n)) + i)
  BY GotIs
<1>2. sent = Base + Len(buffer) BY DEF InStep
<1>3. /\ Current \in 1 .. Requests /\ Base = End[Current - 1] /\ Base \in Nat /\ Sized
      /\ sizes[Current] \in Nat /\ End[Current] = Base + HeadSize + sizes[Current]
  BY InHead
<1>4. sent + n - Len(Got(n)) + i = Base + i
  <2>1. Base \in Nat BY <1>3
  <2> QED BY <1>1, <1>2, <2>1
<1>5. ASSUME i <= HeadSize PROVE ByteIn(End, Base + i) = Byte(Current, i)
  <2>1. PICK b \in Nat, s \in Nat, j \in Nat : b = Base /\ s = sizes[Current] /\ j = i
    BY <1>1, <1>3
  <2>2. End[Current - 1] = b /\ End[Current] = b + HeadSize + s BY <1>3, <2>1
  <2>3. 1 <= j /\ j <= HeadSize BY <1>5, <2>1
  <2>4. PICK k \in Nat : k = b + j OBVIOUS
  <2>5. b < k /\ k <= b + HeadSize + s /\ k - b = j BY <2>3, <2>4
  <2>6. ByteIn(End, k) = Byte(Current, k - End[Current - 1]) BY <1>3, <2>2, <2>5, ByteAtIs
  <2> QED BY <2>1, <2>2, <2>4, <2>5, <2>6
<1> QED BY <1>1a, <1>4, <1>5

\* No line of the head ends before all of it is there.
LEMMA HeadsComeWhole ==
  ASSUME SInv, InStep, Clean, NEW n \in 1 .. End[Requests], MaySend(n), status = "open",
         ~finished
  PROVE  /\ NoLine(Got(n)) => LineEnds(Got(n)) = {} /\ Len(Got(n)) < HeadSize
         /\ ~NoLine(Got(n)) => HeadSize <= Len(Got(n))
<1> USE HeadSizeIs
<1> DEFINE b == Got(n)
<1>1. /\ b \in Seq(Bytes) /\ Len(b) = Len(buffer) + n /\ Len(buffer) \in Nat
      /\ Len(b) \in Nat /\ n \in Nat /\ DOMAIN b = 1 .. Len(b)
  BY GotIs, LenProperties
<1>2. \A i \in 1 .. Len(b) : i <= HeadSize => b[i] = Byte(Current, i)
  BY BytesInHead
<1>3. \A i \in 1 .. Len(buffer) : b[i] = buffer[i] BY GotIs
<1>4. \A i \in 1 .. n : b[Len(buffer) + i] = Piece(n)[i] BY GotIs
<1>5. DOMAIN Piece(n) = 1 .. n /\ Len(Piece(n)) = n BY GotIs
<1>6. LineEnds(buffer) = {} /\ Len(buffer) < HeadSize BY DEF InStep
<1> HIDE DEF b
<1>7. ASSUME NEW l \in LineEnds(b), l # 1, Len(b) < HeadSize PROVE FALSE
  <2>1. l \in 1 .. Len(b) /\ EndsLine(b[l]) BY <1>1 DEF LineEnds
  <2>2. b[l] = Byte(Current, l) /\ l \in Nat /\ l < HeadSize BY <1>1, <1>2, <1>7, <2>1
  <2>3. b[l].place = l /\ b[l].request = Current BY <2>2 DEF Byte
  <2>4. l \in Lines BY <2>1, <2>2, <2>3 DEF EndsLine
  <2>5. ~(l <= Len(buffer))
    <3> SUFFICES ASSUME l <= Len(buffer) PROVE FALSE OBVIOUS
    <3>1. l \in 1 .. Len(buffer) BY <1>1, <2>1
    <3>2. buffer \in Seq(Bytes) BY DEF SInv, TypeOK
    <3>3. l \in DOMAIN buffer BY <3>1, <3>2, LenProperties
    <3>4. EndsLine(buffer[l]) BY <1>3, <2>1, <3>1
    <3> QED BY <1>6, <3>3, <3>4 DEF LineEnds
  <2> DEFINE i == l - Len(buffer)
  <2>6. i \in 1 .. n /\ Len(buffer) + i = l BY <1>1, <2>1, <2>5
  <2>7. Piece(n)[i] = b[l] BY <1>4, <2>6
  <2> HIDE DEF i
  <2>8. EndsHeads(Piece(n)) BY DEF MaySend, Clean
  <2>9. \E j \in i .. n : Piece(n)[j] = Byte(Current, HeadSize)
    BY <1>5, <2>3, <2>4, <2>6, <2>7, <2>8 DEF EndsHeads
  <2>10. PICK j \in i .. n : Piece(n)[j] = Byte(Current, HeadSize) BY <2>9
  <2>11. j \in 1 .. n /\ Len(buffer) + j \in 1 .. Len(b) BY <1>1, <2>6
  <2>12. b[Len(buffer) + j] = Byte(Current, HeadSize) BY <1>4, <2>10, <2>11
  <2>13. Len(buffer) + j < HeadSize /\ b[Len(buffer) + j] = Byte(Current, Len(buffer) + j)
    BY <1>1, <1>2, <1>7, <2>11
  <2>14. Len(buffer) + j = HeadSize BY <2>12, <2>13 DEF Byte
  <2> QED BY <2>13, <2>14
<1>8. ASSUME 1 \in LineEnds(b) PROVE FALSE
  <2>1. 1 \in 1 .. Len(b) /\ EndsLine(b[1]) BY <1>1, <1>8 DEF LineEnds
  <2>2. b[1].place = 1
    <3>1. b[1] = Byte(Current, 1) BY <1>2, <2>1
    <3> QED BY <3>1 DEF Byte
  <2>3. 1 \notin Lines BY LineAssumption
  <2> QED BY <2>1, <2>2, <2>3 DEF EndsLine
<1>9. ASSUME HeadSize <= Len(b) PROVE HeadSize \in LineEnds(b)
  <2>1. HeadSize \in 1 .. Len(b) BY <1>1, <1>9
  <2>2. b[HeadSize].place = HeadSize
    <3>1. b[HeadSize] = Byte(Current, HeadSize) BY <1>2, <2>1
    <3> QED BY <3>1 DEF Byte
  <2> QED BY <1>1, <2>1, <2>2 DEF LineEnds, EndsLine
<1>10. NoLine(b) => LineEnds(b) = {} /\ Len(b) < HeadSize
  BY <1>1, <1>8, <1>9 DEF NoLine
<1>11. ~NoLine(b) => HeadSize <= Len(b)
  BY <1>1, <1>7 DEF NoLine
<1> QED BY <1>10, <1>11 DEF b

\* The parser stops behind the head, and has gone through all of it.
LEMMA StopsAtHead ==
  ASSUME SInv, InStep, Clean, NEW n \in 1 .. End[Requests], MaySend(n), status = "open",
         ~finished, ~NoLine(Got(n))
  PROVE  /\ Stop(Got(n)) = HeadSize /\ HeadSize <= LastLine(Got(n)) /\ HeadSize <= Len(Got(n))
         /\ EmptyLine(Parsed(n), Len(Parsed(n)))
         /\ Parsed(n) = HeadOf(Current) /\ InPlace(Parsed(n))
<1> USE HeadSizeIs
<1> DEFINE b == Got(n)
<1>1. b \in Seq(Bytes) /\ Len(b) \in Nat /\ HeadSize <= Len(b) /\ DOMAIN b = 1 .. Len(b)
  BY GotIs, HeadsComeWhole, LenProperties
<1>2. \A i \in 1 .. Len(b) : i <= HeadSize => b[i] = Byte(Current, i)
  BY BytesInHead
<1>3. /\ LastLine(b) \in 1 .. Len(b) /\ Stop(b) \in 1 .. LastLine(b)
      /\ \A i \in LineEnds(b) : i <= LastLine(b)
      /\ \A i \in 1 .. LastLine(b) : EmptyLine(head \o b, Len(head) + i)
           => Stop(b) <= i /\ EmptyLine(head \o b, Len(head) + Stop(b))
  BY <1>1, StopIs
<1>4. Parsed(n) = head \o First(Stop(b), b) BY DEF Parsed
<1> HIDE DEF b
<1>5. HeadSize \in 1 .. Len(b) /\ b[HeadSize] = Byte(Current, HeadSize) BY <1>1, <1>2
<1>6. EndsLine(b[HeadSize]) BY <1>5 DEF Byte, EndsLine
<1>7. HeadSize <= LastLine(b) BY <1>1, <1>3, <1>5, <1>6 DEF LineEnds
\* Up to the head's end, an empty line of the bytes is one of the head.
<1>8. \A i \in 1 .. LastLine(b) : i <= HeadSize =>
        (EmptyLine(head \o b, Len(head) + i) <=> i = HeadSize)
  <2> SUFFICES ASSUME NEW i \in 1 .. LastLine(b), i <= HeadSize
               PROVE  EmptyLine(head \o b, Len(head) + i) <=> i = HeadSize
    OBVIOUS
  <2>1. head = <<>> /\ Current \in 1 .. Requests BY InHead DEF InStep
  <2>2. head \o b = b /\ Len(head) + i = i BY <1>1, <2>1, ConcatEmptySeq
  <2>3. \A j \in 1 .. HeadSize : b[j] = HeadOf(Current)[j]
    BY <1>1, <1>2, <2>1, HeadOfIs
  <2>4. i \in 1 .. HeadSize BY <1>1, <1>3
  <2>5. i > 1 => i - 1 \in 1 .. HeadSize BY <2>4
  <2>6. i > 2 => i - 2 \in 1 .. HeadSize BY <2>4
  <2>7. EmptyLine(b, i) <=> EmptyLine(HeadOf(Current), i)
    BY <2>3, <2>4, <2>5, <2>6 DEF EmptyLine
  <2>8. EmptyLine(HeadOf(Current), i) <=> i = HeadSize BY <2>1, <2>4, HeadAssumption
  <2> QED BY <2>2, <2>7, <2>8
<1>9. Stop(b) = HeadSize
  <2>1. HeadSize \in 1 .. LastLine(b) BY <1>1, <1>3, <1>7
  <2>2. Stop(b) <= HeadSize /\ EmptyLine(head \o b, Len(head) + Stop(b)) BY <1>3, <1>8, <2>1
  <2> QED BY <1>3, <1>8, <2>2
<1>10. Current \in 1 .. Requests BY InHead
<1>11. Parsed(n) = HeadOf(Current)
  <2>1. HeadSize \in 0 .. Len(b) BY <1>1
  <2>2. /\ First(HeadSize, b) \in Seq(Bytes) /\ Len(First(HeadSize, b)) = HeadSize
        /\ \A i \in 1 .. HeadSize : First(HeadSize, b)[i] = b[i]
    BY <1>1, <2>1, FirstIs
  <2>3. \A i \in 1 .. HeadSize : First(HeadSize, b)[i] = HeadOf(Current)[i]
    <3> SUFFICES ASSUME NEW i \in 1 .. HeadSize
                 PROVE  First(HeadSize, b)[i] = HeadOf(Current)[i]
      OBVIOUS
    <3>1. i \in 1 .. Len(b) /\ i <= HeadSize BY <1>1
    <3> QED BY <1>2, <1>10, <2>2, <3>1, HeadOfIs
  <2>4. First(HeadSize, b) = HeadOf(Current) BY <1>10, <2>2, <2>3, HeadOfIs, SeqEqual
  <2>5. head = <<>> BY DEF InStep
  <2>6. <<>> \o First(HeadSize, b) = First(HeadSize, b) BY <2>2, ConcatEmptySeq
  <2> QED BY <1>4, <1>9, <2>4, <2>5, <2>6
<1>12. EmptyLine(HeadOf(Current), Len(HeadOf(Current)))
  BY <1>10, HeadOfIs, HeadAssumption
<1> QED BY <1>1, <1>7, <1>9, <1>10, <1>11, <1>12, HeadOfIs DEF b

\* What a call comes to: it waits, or it delivers the request that was sent.
Answers(q, b) == /\ b \in Seq(Bytes) /\ Delivers(HeadOf(q), b) /\ sizes[q] <= Len(b)
                 /\ First(sizes[q], b) = BodyOf(q)
                 /\ polite => b = BodyOf(q) /\ sent' = End[q]

\* What a call does with a stream that it understood so far: it waits for a line
\* end, waits for a body, or answers.
LEMMA InStepDoes ==
  ASSUME SInv, InStep, Clean, NEW n \in 1 .. End[Requests], MaySend(n), OnRecv(n)
  PROVE  \/ /\ UNCHANGED <<status, delivered>>
            /\ \/ /\ ~finished /\ UNCHANGED <<head, nread, finished>> /\ buffer' = Got(n)
                  /\ LineEnds(Got(n)) = {} /\ Len(Got(n)) < HeadSize
               \/ /\ head' = HeadOf(Current) /\ nread' = HeadSize /\ finished' = TRUE
                  /\ sent' = Base + HeadSize + Len(buffer') /\ Len(buffer') < sizes[Current]
         \/ \E b : Answers(Current, b)
<1> USE HeadSizeIs
<1>1. /\ status = "open" /\ sent' = sent + n
      /\ More(n) \/ Holds(n) \/ Refuses(n) \/ Aborts(n) \/ Heads(n) \/ Goes(n)
  BY Outcomes
<1>2. /\ Current \in 1 .. Requests /\ Base = End[Current - 1] /\ Base \in Nat /\ Sized
      /\ sizes[Current] \in Nat /\ End[Current] = Base + HeadSize + sizes[Current]
      /\ polite => sent + n <= End[Current]
  BY <1>1, InHead
<1>3. /\ Got(n) \in Seq(Bytes) /\ Len(Got(n)) = Len(buffer) + n /\ Len(buffer) \in Nat
      /\ Len(Got(n)) \in Nat /\ n \in Nat /\ sent \in Nat
  BY <1>1, GotIs, Typed DEF SInv
<1>3a. Base \in Nat /\ n \in Nat /\ Len(Got(n)) \in Nat /\ Len(buffer) \in Nat
      /\ Len(Got(n)) = Len(buffer) + n /\ sent' = sent + n
  BY <1>1, <1>2, <1>3
<1>4. Lengths(HeadOf(Current)) = {sizes[Current]} BY <1>2, HeadOfIs
\* A body that is complete.
<1>5. ASSUME NEW b \in Seq(Bytes), Delivers(HeadOf(Current), b),
             \A i \in 1 .. Len(b) : b[i] = ByteIn(End, Base + HeadSize + i),
             sent' = Base + HeadSize + Len(b)
      PROVE  Answers(Current, b)
  <2>1. sizes[Current] <= Len(b) BY <1>4, <1>5 DEF Delivers
  <2>2. First(sizes[Current], b) = BodyOf(Current) /\ (Len(b) = sizes[Current] => b = BodyOf(Current))
    BY <1>2, <1>5, <2>1, BodyIs
  <2>3. Len(b) \in Nat BY LenProperties
  <2>4. polite => Len(b) = sizes[Current] /\ sent' = End[Current]
    <3>1. polite => sent' <= End[Current] BY <1>1, <1>2
    <3>2. PICK e \in Nat, s \in Nat, l \in Nat :
            e = Base + HeadSize /\ s = sizes[Current] /\ l = Len(b)
      BY <1>2, <2>3
    <3>3. End[Current] = e + s /\ sent' = e + l /\ s <= l BY <1>2, <1>5, <2>1, <3>2
    <3>4. polite => e + l <= e + s BY <3>1, <3>3
    <3>5. polite => l = s BY <3>3, <3>4
    <3> QED BY <3>2, <3>3, <3>5
  <2> QED BY <1>5, <2>1, <2>2, <2>4 DEF Answers
<1>6. CASE finished
  <2>1. head = HeadOf(Current) /\ nread = HeadSize /\ sent = Base + HeadSize + Len(buffer)
    BY <1>1, <1>6 DEF InStep
  <2>2. sent' = Base + HeadSize + Len(Got(n)) BY <1>3a, <2>1
  <2>3. CASE Delivers(head, Got(n))
    <3>1. ASSUME NEW i \in 1 .. Len(Got(n)) PROVE Got(n)[i] = ByteIn(End, Base + HeadSize + i)
      <4>1. Got(n)[i] = ByteIn(End, sent + n - Len(Got(n)) + i) BY <1>1, GotIs
      <4>2. sent + n - Len(Got(n)) + i = Base + HeadSize + i BY <1>3a, <2>1
      <4> QED BY <4>1, <4>2
    <3> QED BY <1>3, <1>5, <2>1, <2>2, <2>3, <3>1
  <2>4. CASE Waits(head, Got(n), nread)
    BY <1>4, <2>1, <2>2, <2>4 DEF Waits
  <2> QED BY <1>1, <1>6, <2>3, <2>4 DEF More, Holds, Refuses, Aborts, Heads, Goes
<1>7. CASE ~finished /\ NoLine(Got(n))
  <2>1. Holds(n) BY <1>1, <1>7 DEF More, Refuses, Aborts, Heads, Goes
  <2>2. nread = 0 BY <1>1, <1>7 DEF InStep
  <2>3. buffer' = Got(n) BY <1>1, <2>1, <2>2, RestOfGot DEF Holds, Hold
  <2>4. LineEnds(Got(n)) = {} /\ Len(Got(n)) < HeadSize BY <1>1, <1>7, HeadsComeWhole
  <2> QED BY <1>7, <2>1, <2>3, <2>4 DEF Holds, Hold
<1>8. CASE ~finished /\ ~NoLine(Got(n))
  <2>1. /\ Stop(Got(n)) = HeadSize /\ HeadSize <= LastLine(Got(n)) /\ HeadSize <= Len(Got(n))
        /\ EmptyLine(Parsed(n), Len(Parsed(n)))
        /\ Parsed(n) = HeadOf(Current) /\ InPlace(Parsed(n))
    BY <1>1, <1>8, StopsAtHead
  <2>2. nread = 0 /\ sent = Base + Len(buffer) BY <1>1, <1>8 DEF InStep
  <2>3. nread + Stop(Got(n)) = HeadSize BY <2>1, <2>2
  <2>4. LastLine(Got(n)) \in Nat BY <1>1, <1>8, ParsedIs
  <2>5. Heads(n)
    <3>1. ~(HeadSize > LastLine(Got(n))) BY <2>1, <2>4
    <3> QED BY <1>1, <1>8, <2>1, <2>3, <3>1 DEF More, Holds, Refuses, Aborts, Goes
  <2> DEFINE b == Rest(HeadSize, Got(n))
  <2>6. /\ b \in Seq(Bytes) /\ Len(b) = Len(Got(n)) - HeadSize
        /\ \A i \in 1 .. Len(b) : b[i] = Got(n)[HeadSize + i]
    BY <1>3, <2>1, RestIs
  <2>7. \/ Delivers(HeadOf(Current), b)
        \/ Waits(HeadOf(Current), b, HeadSize)
    BY <2>1, <2>3, <2>5 DEF Heads
  <2> HIDE DEF b
  <2>8. sent' = Base + HeadSize + Len(b)
    <3>1. Len(b) = Len(Got(n)) - HeadSize /\ sent = Base + Len(buffer) BY <2>2, <2>6
    <3> QED BY <1>3a, <3>1
  <2>9. CASE Delivers(HeadOf(Current), b)
    <3>1. ASSUME NEW i \in 1 .. Len(b) PROVE b[i] = ByteIn(End, Base + HeadSize + i)
      <4>1. HeadSize + i \in 1 .. Len(Got(n)) /\ Base + (HeadSize + i) = Base + HeadSize + i
        <5>1. Len(b) = Len(Got(n)) - HeadSize /\ HeadSize <= Len(Got(n)) /\ i \in 1 .. Len(b)
          BY <2>1, <2>6
        <5> QED BY <1>3a, <5>1
      <4>2. Got(n)[HeadSize + i] = ByteIn(End, Base + (HeadSize + i))
        BY <1>1, <1>8, <4>1, BytesInHead
      <4> QED BY <2>6, <4>1, <4>2
    <3> QED BY <1>5, <2>6, <2>8, <2>9, <3>1
  <2>10. CASE Waits(HeadOf(Current), b, HeadSize)
    BY <1>4, <2>8, <2>10 DEF Waits
  <2> QED BY <2>7, <2>9, <2>10
<1> QED BY <1>6, <1>7, <1>8

\* Nothing is refused before the first request; afterwards only a peer that did
\* not wait is.
NotRefused == whole /\ delivered = <<>> => status = "open"

CInv == InStep /\ NotRefused /\ FirstIntact /\ Understood

\* What was delivered stays.
LEMMA DeliveredStays ==
  ASSUME SInv, NEW n \in 1 .. End[Requests], MaySend(n), OnRecv(n)
  PROVE  \/ UNCHANGED delivered
         \/ /\ DOMAIN delivered' = 1 .. (Len(delivered) + 1)
            /\ \A i \in 1 .. Len(delivered) : delivered'[i] = delivered[i]
<1>1. status = "open" /\ (More(n) \/ Holds(n) \/ Refuses(n) \/ Aborts(n) \/ Heads(n) \/ Goes(n))
  BY Outcomes
<1>2. ASSUME NEW h \in Seq(Bytes), NEW b \in Seq(Bytes), Delivers(h, b)
      PROVE  /\ DOMAIN delivered' = 1 .. (Len(delivered) + 1)
             /\ \A i \in 1 .. Len(delivered) : delivered'[i] = delivered[i]
  BY <1>2, DeliversIs DEF SInv
<1>3. CASE More(n)
  <2>1. head \in Seq(Bytes) /\ Got(n) \in Seq(Bytes) BY <1>1, GotIs DEF SInv, TypeOK
  <2> QED BY <1>2, <1>3, <2>1 DEF More, Waits
<1>4. CASE Heads(n)
  <2>1. nread \in Nat /\ Stop(Got(n)) \in Nat /\ Parsed(n) \in Seq(Bytes)
    BY <1>1, <1>4, Typed, ParsedIs DEF SInv, Heads
  <2>2. Rest(nread + Stop(Got(n)), Got(n)) \in Seq(Bytes) BY <1>1, <2>1, RestOfGot
  <2> QED BY <1>2, <1>4, <2>1, <2>2 DEF Heads, Waits
<1>5. CASE Holds(n) \/ Refuses(n) \/ Aborts(n) \/ Goes(n)
  BY <1>5 DEF Holds, Hold, Refuses, Aborts, Goes
<1> QED BY <1>1, <1>3, <1>4, <1>5

\* A call in step with the stream waits for the request, or delivers what was sent.
LEMMA CleanKeeps ==
  ASSUME SInv, SInv', CInv, Clean, NEW n \in 1 .. End[Requests], MaySend(n), OnRecv(n)
  PROVE  CInv'
<1> USE HeadSizeIs
<1>1. status = "open" /\ sent' = sent + n /\ UNCHANGED <<polite, whole, keepalive, sizes>>
  BY Outcomes DEF peer
<1>2. /\ Current \in 1 .. Requests /\ Base = End[Current - 1] /\ Base \in Nat /\ Sized
      /\ sizes[Current] \in Nat /\ End[Current] = Base + HeadSize + sizes[Current]
      /\ Len(delivered) \in Nat
  BY <1>1, InHead DEF CInv
<1>3. End' = End BY <1>1, EndStays
<1>4. DOMAIN delivered = 1 .. Len(delivered) BY Typed DEF SInv
<1>5. sent' \in Nat BY Typed, <1>1 DEF SInv, MaySend
<1>6. \A r \in 1 .. Requests : BodyOf(r)' = BodyOf(r) BY <1>1 DEF BodyOf
<1>7. /\ whole
      /\ \A q \in DOMAIN delivered : polite => delivered[q] = [head |-> HeadOf(q), body |-> BodyOf(q)]
  BY DEF CInv, Clean, Understood, RequestsIntact
<1>8. CASE UNCHANGED <<status, delivered>> /\ sent' < End[Current]
  <2>1. FirstIntact' BY <1>1, <1>8 DEF CInv, FirstIntact, BodyOf
  <2>2. RequestsIntact' BY <1>1, <1>8 DEF CInv, Understood, RequestsIntact, BodyOf
  <2>3. NothingHeldBack'
    <3>1. ASSUME NEW q \in 1 .. Requests, sent' >= End[q] PROVE Len(delivered) >= q
      <4> SUFFICES ASSUME q > Len(delivered) PROVE FALSE BY <1>2
      <4>1. Current <= q /\ Current \in 0 .. Requests /\ q \in 0 .. Requests
        BY <1>2, SizeAssumption DEF Current
      <4>2. End[Current] <= End[q] /\ End[q] \in Nat /\ End[Current] \in Nat
        BY <1>2, <4>1, EndRises, EndIs
      <4> QED BY <1>5, <1>8, <3>1, <4>2
    <3> QED BY <1>1, <1>3, <1>8, <3>1 DEF NothingHeldBack
  <2>4. NotRefused' BY <1>1, <1>8 DEF CInv, NotRefused
  <2>5. InStep'
    <3>1. ASSUME ~finished, UNCHANGED <<head, nread, finished>>, buffer' = Got(n),
                 LineEnds(Got(n)) = {}, Len(Got(n)) < HeadSize
          PROVE  InStep'
      <4>1. head = <<>> /\ nread = 0 /\ sent = Base + Len(buffer)
        BY <1>1, <3>1 DEF CInv, InStep
      <4>2. Len(buffer') = Len(buffer) + n /\ Len(buffer) \in Nat /\ n \in Nat
        BY <1>1, <3>1, GotIs
      <4>3. sent' = Base + Len(buffer') BY <1>1, <1>2, <4>1, <4>2
      <4>4. LineEnds(buffer') = {} BY <3>1
      <4>5. Base' = Base /\ Len(delivered') <= Requests
        BY <1>2, <1>3, <1>8, SizeAssumption DEF Base, Current
      <4>6. LineEnds(buffer)' = {} BY <4>4 DEF LineEnds
      <4> QED BY <1>8, <3>1, <4>1, <4>3, <4>5, <4>6 DEF InStep
    <3>2. ASSUME head' = HeadOf(Current), nread' = HeadSize, finished' = TRUE,
                 sent' = Base + HeadSize + Len(buffer'), Len(buffer') < sizes[Current]
          PROVE  InStep'
      <4>1. Base' = Base /\ Current' = Current /\ Len(delivered') < Requests
        BY <1>2, <1>3, <1>8, SizeAssumption DEF Base, Current
      <4>2. HeadOf(Current)' = HeadOf(Current) BY <4>1 DEF HeadOf
      <4>3. Len(delivered') <= Requests BY <1>2, <1>8, SizeAssumption DEF Current
      <4> QED BY <1>1, <3>2, <4>1, <4>2, <4>3 DEF InStep
    <3>3. \/ /\ ~finished /\ UNCHANGED <<head, nread, finished>> /\ buffer' = Got(n)
             /\ LineEnds(Got(n)) = {} /\ Len(Got(n)) < HeadSize
          \/ /\ head' = HeadOf(Current) /\ nread' = HeadSize /\ finished' = TRUE
             /\ sent' = Base + HeadSize + Len(buffer') /\ Len(buffer') < sizes[Current]
          \/ \E b : Answers(Current, b)
      BY InStepDoes DEF CInv
    <3>4. ASSUME NEW b, Answers(Current, b) PROVE FALSE
      <4>1. /\ HeadOf(Current) \in Seq(Bytes) /\ b \in Seq(Bytes) /\ Delivers(HeadOf(Current), b)
        BY <1>2, <3>4, HeadOfIs DEF Answers
      <4>2. Len(delivered') = Len(delivered) + 1 BY <4>1, DeliversIs DEF SInv
      <4> QED BY <1>2, <1>8, <4>2
    <3> QED BY <3>1, <3>2, <3>3, <3>4
  <2> QED BY <2>1, <2>2, <2>3, <2>4, <2>5 DEF CInv, Understood
<1>9. ASSUME NEW b, Answers(Current, b) PROVE CInv'
  <2>1. /\ HeadOf(Current) \in Seq(Bytes) /\ b \in Seq(Bytes) /\ Delivers(HeadOf(Current), b)
        /\ sizes[Current] <= Len(b) /\ First(sizes[Current], b) = BodyOf(Current)
        /\ polite => b = BodyOf(Current) /\ sent' = End[Current]
    BY <1>2, <1>9, HeadOfIs DEF Answers
  <2>2. /\ Len(delivered') = Current /\ DOMAIN delivered' = 1 .. Current
        /\ delivered'[Current] = [head |-> HeadOf(Current), body |-> b]
        /\ \A i \in 1 .. Len(delivered) : delivered'[i] = delivered[i]
        /\ status' \in {"open", "closed"} /\ buffer' = <<>> /\ Len(buffer') = 0
        /\ head' = <<>> /\ nread' = 0 /\ finished' = FALSE
    BY <2>1, DeliversIs DEF SInv, Current
  <2>3. delivered' # <<>> BY <1>2, <2>2
  <2>4. FirstIntact'
    <3>1. CASE Current = 1
      BY <1>1, <1>6, <2>1, <2>2, <3>1 DEF FirstIntact, BodyOf
    <3>2. CASE Current # 1
      <4>1. 1 \in 1 .. Len(delivered) BY <1>2, <3>2 DEF Current
      <4>2. delivered # <<>> BY <4>1
      <4> QED BY <1>1, <2>2, <4>1, <4>2 DEF CInv, FirstIntact, BodyOf
    <3> QED BY <3>1, <3>2
  <2>5. RequestsIntact'
    <3>1. ASSUME polite, NEW q \in 1 .. Current
          PROVE  delivered'[q] = [head |-> HeadOf(q), body |-> BodyOf(q)]
      <4>1. CASE q = Current BY <2>1, <2>2, <3>1, <4>1
      <4>2. CASE q # Current
        <5>1. q \in 1 .. Len(delivered) BY <1>2, <4>2 DEF Current
        <5> QED BY <1>4, <1>7, <2>2, <3>1, <5>1
      <4> QED BY <4>1, <4>2
    <3> QED BY <1>1, <2>2, <3>1 DEF RequestsIntact, BodyOf
  <2>6. NothingHeldBack'
    <3>1. ASSUME polite, NEW q \in 1 .. Requests, sent' >= End[q] PROVE Current >= q
      <4> SUFFICES ASSUME Current < q PROVE FALSE BY <1>2
      <4>1. Current <= q - 1 /\ Current \in 0 .. Requests /\ q - 1 \in 0 .. Requests
        BY <1>2, SizeAssumption
      <4>2. End[Current] <= End[q - 1] /\ End[Current] \in Nat BY <1>2, <4>1, EndRises, EndIs
      <4>3. /\ End[q - 1] \in Nat /\ sizes[q] \in Nat
            /\ End[q] = End[q - 1] + HeadSize + sizes[q]
        BY <1>2, EndIs
      <4> QED BY <2>1, <3>1, <4>2, <4>3
    <3> QED BY <1>1, <1>3, <2>2, <3>1 DEF NothingHeldBack
  <2>7. NotRefused' BY <2>3 DEF NotRefused
  <2>8. InStep'
    <3> SUFFICES ASSUME polite PROVE InStep' BY <1>1, <2>3 DEF InStep, Clean
    <3>1. Base' = End[Current] /\ Base' + 0 = sent' BY <1>2, <1>3, <2>1, <2>2 DEF Base
    <3>2. Len(delivered') <= Requests BY <1>2, <2>2, SizeAssumption
    <3>3. LineEnds(buffer)' = {} BY <2>2 DEF LineEnds
    <3> QED BY <2>2, <3>1, <3>2, <3>3 DEF InStep
  <2> QED BY <2>4, <2>5, <2>6, <2>7, <2>8 DEF CInv, Understood
<1>10. ASSUME UNCHANGED <<status, delivered>>, ~\E b : Answers(Current, b)
       PROVE  sent' < End[Current]
  <2>1. CASE /\ ~finished /\ buffer' = Got(n) /\ Len(Got(n)) < HeadSize
    <3>1. sent = Base + Len(buffer) BY <1>1, <2>1 DEF CInv, InStep
    <3>2. Len(Got(n)) = Len(buffer) + n /\ Len(buffer) \in Nat /\ n \in Nat BY <1>1, GotIs
    <3>3. Base \in Nat /\ sizes[Current] \in Nat /\ sent' = sent + n
          /\ End[Current] = Base + HeadSize + sizes[Current] /\ Len(Got(n)) < HeadSize
      BY <1>1, <1>2, <2>1
    <3> QED BY <3>1, <3>2, <3>3
  <2>2. CASE sent' = Base + HeadSize + Len(buffer') /\ Len(buffer') < sizes[Current]
    <3>1. buffer' \in Seq(Bytes) BY DEF SInv, TypeOK
    <3>2. Len(buffer') \in Nat BY <3>1, LenProperties
    <3>3. Base \in Nat /\ sizes[Current] \in Nat
          /\ End[Current] = Base + HeadSize + sizes[Current]
      BY <1>2
    <3> QED BY <2>2, <3>2, <3>3
  <2> QED BY <1>10, <2>1, <2>2, InStepDoes DEF CInv
<1> QED BY <1>8, <1>9, <1>10, InStepDoes DEF CInv

\* A peer that does not wait may be misunderstood, but what was delivered is not lost.
LEMMA OthersKeep ==
  ASSUME SInv, CInv, ~Clean, NEW n \in 1 .. End[Requests], MaySend(n), OnRecv(n)
  PROVE  CInv'
<1>1. UNCHANGED <<polite, whole, keepalive, sizes>> BY Outcomes DEF peer
<1>2. ASSUME whole PROVE ~polite /\ delivered # <<>> BY <1>2 DEF Clean
<1>3. delivered # <<>> => delivered' # <<>> /\ delivered'[1] = delivered[1]
  <2> SUFFICES ASSUME delivered # <<>> PROVE delivered' # <<>> /\ delivered'[1] = delivered[1]
    OBVIOUS
  <2>1. Len(delivered) \in Nat /\ DOMAIN delivered = 1 .. Len(delivered) BY Typed DEF SInv
  <2>2. delivered \in Seq([head : Seq(Bytes), body : Seq(Bytes)]) BY DEF SInv, TypeOK
  <2>3. 1 \in 1 .. Len(delivered)
    <3>1. Len(delivered) # 0 BY <2>2, EmptySeq
    <3> QED BY <2>1, <3>1
  <2>4. DOMAIN delivered' = 1 .. (Len(delivered) + 1) => delivered' # <<>> BY <2>1
  <2> QED BY <2>3, <2>4, DeliveredStays
<1>4. FirstIntact' BY <1>1, <1>2, <1>3 DEF CInv, FirstIntact, BodyOf
<1>5. Understood' BY <1>1, <1>2 DEF Understood, RequestsIntact, NothingHeldBack
<1>6. InStep' /\ NotRefused' BY <1>1, <1>2, <1>3 DEF InStep, Clean, NotRefused
<1> QED BY <1>4, <1>5, <1>6 DEF CInv

-----------------------------------------------------------------------------
IInv == SInv /\ CInv

\* The invariant holds of a new connection,
LEMMA InitHolds == Init => IInv
<1> SUFFICES ASSUME Init PROVE IInv OBVIOUS
<1> USE SizeAssumption, HeadSizeIs
<1>1. Sized BY DEF Init, Sized
<1>2. End[0] = 0 /\ End[Requests] \in Nat BY <1>1, EndIs
<1>3. /\ buffer = <<>> /\ delivered = <<>> /\ head = <<>> /\ Len(buffer) = 0 /\ Len(delivered) = 0
      /\ 1 .. Len(buffer) = {} /\ DOMAIN delivered = {} /\ DOMAIN buffer = {}
      /\ sent = 0 /\ nread = 0 /\ finished = FALSE /\ status = "open"
  BY DEF Init
<1>4. TypeOK
  <2>1. {polite, whole, keepalive, finished} \subseteq BOOLEAN BY DEF Init
  <2>2. sent \in 0 .. End[Requests] /\ nread \in 0 .. sent BY <1>2, <1>3
  <2>3. buffer \in Seq(Bytes) /\ head \in Seq(Bytes) /\ delivered \in Seq(Messages) BY <1>3
  <2> QED BY <1>1, <1>3, <2>1, <2>2, <2>3 DEF TypeOK, Sized, Messages
<1>5. Trailing BY <1>3 DEF Trailing
<1>6. InStep BY <1>2, <1>3 DEF InStep, LineEnds, Base
<1>7. NothingHeldBack
  <2>1. \A q \in 1 .. Requests : ~(sent >= End[q])
    <3> SUFFICES ASSUME NEW q \in 1 .. Requests PROVE ~(sent >= End[q]) OBVIOUS
    <3>1. /\ End[q - 1] \in Nat /\ sizes[q] \in Nat
          /\ End[q] = End[q - 1] + HeadSize + sizes[q]
      BY <1>1, EndIs
    <3> QED BY <1>3, <3>1
  <2> QED BY <1>3, <2>1 DEF NothingHeldBack
<1>8. NotRefused /\ FirstIntact /\ RequestsIntact
  BY <1>3 DEF NotRefused, FirstIntact, RequestsIntact
<1> QED BY <1>4, <1>5, <1>6, <1>7, <1>8 DEF IInv, SInv, CInv, Understood

\* and however a call of OnRecv goes.
LEMMA Invariance == Spec => []IInv
<1>1. ASSUME IInv, [Next]_vars PROVE IInv'
  <2>1. CASE UNCHANGED vars
    <3>1. UNCHANGED <<polite, whole, keepalive, sizes, sent, buffer, head, nread, finished, status,
                      delivered>>
      BY <2>1 DEF vars, peer, session
    <3>2. End' = End BY <3>1, EndStays
    <3>3. SInv' BY <1>1, <3>1, <3>2 DEF IInv, SInv, TypeOK, Trailing
    <3>4. InStep' /\ NotRefused'
      BY <1>1, <3>1, <3>2 DEF IInv, CInv, InStep, NotRefused, Clean, Base, Current, HeadOf, LineEnds
    <3>5. FirstIntact' /\ Understood'
      BY <1>1, <3>1, <3>2 DEF IInv, CInv, FirstIntact, Understood, RequestsIntact,
                              NothingHeldBack, BodyOf
    <3> QED BY <3>3, <3>4, <3>5 DEF IInv, CInv
  <2>2. ASSUME NEW n \in 1 .. End[Requests], MaySend(n), OnRecv(n) PROVE IInv'
    BY <1>1, <2>2, SInvKeeps, CleanKeeps, OthersKeep DEF IInv
  <2> QED BY <1>1, <2>1, <2>2 DEF Next
<1> QED BY <1>1, InitHolds, PTL DEF Spec

\* The session's state, and the stream it reads, have their types.
THEOREM TypesHold == Spec => []TypeOK
<1>1. IInv => TypeOK BY DEF IInv, SInv
<1> QED BY <1>1, Invariance, PTL

\* A head that comes whole begins a request that is the one sent, though a peer
\* that sends ahead may have the next request taken for the end of its body.
THEOREM FirstRequestIntact == Spec => []FirstIntact
<1>1. IInv => FirstIntact BY DEF IInv, CInv
<1> QED BY <1>1, Invariance, PTL

\* A peer that waits for its answers gets one for each of its requests, as soon as
\* the request is there, and is never taken for anything else; wherever the bodies
\* and what precedes a first line end are cut.
THEOREM PoliteUnderstood == Spec => []Understood
<1>1. IInv => Understood BY DEF IInv, CInv
<1> QED BY <1>1, Invariance, PTL
==============================================================================
