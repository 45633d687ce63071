----------------------------- MODULE HttpSession -----------------------------
(***************************************************************************)
(* skyline::http::HttpSession (http/http_session.cc) over the part of the  *)
(* request parser that moves through a buffer (http_parser.cc:82-99, the   *)
(* frame of http_parser_execute), driven by HttpServer::OnRecv for one     *)
(* connection.  The bytes come in pieces cut anywhere.  A byte is its      *)
(* request and its place in it: of the grammar only what the session       *)
(* depends on is kept, that a head is over at its first empty line and     *)
(* that bytes out of their place are an error or another request than the  *)
(* one sent.                                                               *)
(***************************************************************************)
EXTENDS Naturals, Sequences, FiniteSets

CONSTANTS Requests,     \* how many requests the peer sends
          HeadSize,     \* the bytes of a request's head
          Lines,        \* the places in the head that end a line
          Returns,      \* the places of carriage returns
          MaxBody       \* bound: bytes of a body; the first one is a line feed

ASSUME SizeAssumption == Requests \in Nat /\ HeadSize \in Nat /\ MaxBody \in Nat
ASSUME LineAssumption == Lines \subseteq 2 .. HeadSize /\ HeadSize \in Lines

VARIABLES polite,       \* the peer waits for each answer before the next request
          whole,        \* the peer's piece that ends a head's first line ends the head
          keepalive,    \* is_keepalive and the requests' Connection header
          sizes,        \* the length of each request's body, its content-length
          sent,         \* how many bytes of the stream OnRecv was given
          buffer,       \* buffer_ of the current session
          head,         \* what its parser went through
          nread,        \* its _parser.nread
          finished,     \* its parser is in the final state
          status,       \* "open"; "closed"; "refused", closed on an error; "aborted"
          delivered     \* history: the requests handed to the dispatcher

session == <<buffer, head, nread, finished>>
peer == <<polite, whole, keepalive, sizes>>
vars == <<peer, sent, session, status, delivered>>

Byte(q, i) == [request |-> q, place |-> i]
EndsLine(b) == b.place \in Lines \cup {HeadSize + 1}

\* The parser, given the bytes of h, ends a head at the i-th: a line's end behind
\* another one, with nothing or a carriage return between them.
EmptyLine(h, i) == /\ i > 1 /\ EndsLine(h[i])
                   /\ \/ EndsLine(h[i - 1])
                      \/ i > 2 /\ h[i - 1].place \in Returns /\ EndsLine(h[i - 2])

HeadOf(q) == [i \in 1 .. HeadSize |-> Byte(q, i)]
BodyOf(q) == [i \in 1 .. sizes[q] |-> Byte(q, HeadSize + i)]

\* The empty line of a head as it is sent is its last one.
ASSUME HeadAssumption ==
    \A q \in 1 .. Requests, i \in 1 .. HeadSize : EmptyLine(HeadOf(q), i) <=> i = HeadSize

First(n, s) == SubSeq(s, 1, n)
Rest(n, s) == SubSeq(s, n + 1, Len(s))

\* The requests follow each other: where each one ends in the stream.
End[q \in 0 .. Requests] == IF q = 0 THEN 0 ELSE End[q - 1] + HeadSize + sizes[q]

ByteAt(k) == LET q == CHOOSE r \in 1 .. Requests : End[r - 1] < k /\ k <= End[r]
             IN  Byte(q, k - End[q - 1])

Init == /\ polite \in BOOLEAN
        /\ whole \in BOOLEAN
        /\ keepalive \in BOOLEAN
        /\ sizes \in [1 .. Requests -> 0 .. MaxBody]
        /\ sent = 0
        /\ buffer = <<>>
        /\ head = <<>>
        /\ nread = 0
        /\ finished = FALSE
        /\ status = "open"
        /\ delivered = <<>>

-----------------------------------------------------------------------------
(* The peer and what it may send at once.                                  *)

Piece(n) == [i \in 1 .. n |-> ByteAt(sent + i)]

\* A piece with one of the line ends of a head has its last one too.
EndsHeads(p) == \A i \in DOMAIN p : p[i].place \in Lines =>
    \E j \in i .. Len(p) : p[j] = Byte(p[i].request, HeadSize)

MaySend(n) ==
    /\ sent + n <= End[Requests]
    /\ polite => Len(delivered) < Requests /\ sent + n <= End[Len(delivered) + 1]
    /\ whole => EndsHeads(Piece(n))

-----------------------------------------------------------------------------
(* HttpSession::Parse, TryGet, and what OnRecv does with their results.    *)

\* The peer's bytes are in their place: the beginning of one head.
InPlace(h) == h # <<>> => /\ Len(h) <= HeadSize
                          /\ h = First(Len(h), HeadOf(h[1].request))

\* Mutant: the header is not found.
LengthsNone(h) == {0}

\* What content-length says: a head out of place may have lost the header, or
\* some digits of it.
Lengths(h) == IF InPlace(h) THEN {sizes[h[1].request]} ELSE 0 .. MaxBody

NewSession == buffer' = <<>> /\ head' = <<>> /\ nread' = 0 /\ finished' = FALSE

\* The head h is over and b follows it: TryGet succeeds once b is long enough,
\* and takes all of b for the body.  The session is replaced or dropped.
Collect(h, b, read) == \E length \in Lengths(h) :
    \/ /\ Len(b) >= length
       /\ delivered' = Append(delivered, [head |-> h, body |-> b])
       /\ status' = IF keepalive THEN "open" ELSE "closed"
       /\ NewSession
    \/ /\ Len(b) < length
       /\ buffer' = b
       /\ head' = h
       /\ nread' = read
       /\ finished' = TRUE
       /\ UNCHANGED <<status, delivered>>

LineEnds(b) == {i \in DOMAIN b : EndsLine(b[i])}
LastLine(b) == CHOOSE i \in LineEnds(b) : \A j \in LineEnds(b) : j <= i

\* HttpRequestParser::execute returns early: no line to parse, or only one of
\* a single byte; nread bytes are erased all the same.
NoLine(b) == LineEnds(b) \subseteq {1}

Hold(b) == /\ buffer' = Rest(nread, b)
           /\ UNCHANGED <<head, nread, finished, status, delivered>>

\* Mutant: the parser runs on to the last line end.
StopAtLine(b) == LastLine(b)

\* Where the parser stops in the lines of b it is given: behind the head.
Stop(b) == LET ends == {i \in 1 .. LastLine(b) : EmptyLine(head \o b, Len(head) + i)}
           IN  IF ends = {} THEN LastLine(b) ELSE CHOOSE i \in ends : \A j \in ends : i <= j

\* http_parser_execute over the lines of b; nread counts over all calls.
Execute(b) ==
    LET h == head \o First(Stop(b), b)
        total == nread + Stop(b)
    IN  \/ /\ ~InPlace(h)
           /\ status' = "refused"
           /\ NewSession
           /\ UNCHANGED delivered
        \/ /\ total > LastLine(b)
           /\ status' = "aborted"
           /\ UNCHANGED <<session, delivered>>
        \/ /\ total <= LastLine(b)
           /\ EmptyLine(h, Len(h))
           /\ Collect(h, Rest(total, b), total)
        \/ /\ total <= LastLine(b)
           /\ ~EmptyLine(h, Len(h))
           /\ buffer' = Rest(total, b)
           /\ head' = h
           /\ nread' = total
           /\ UNCHANGED <<finished, status, delivered>>

OnRecv(n) == /\ status = "open"
             /\ sent' = sent + n
             /\ LET b == buffer \o Piece(n)
                IN  \/ finished /\ Collect(head, b, nread)
                    \/ ~finished /\ NoLine(b) /\ Hold(b)
                    \/ ~finished /\ ~NoLine(b) /\ Execute(b)
             /\ UNCHANGED peer

Next == \E n \in 1 .. End[Requests] : MaySend(n) /\ OnRecv(n)

Spec == Init /\ [][Next]_vars

-----------------------------------------------------------------------------
(* Properties.                                                             *)

Bytes == [request : 1 .. Requests, place : 1 .. HeadSize + MaxBody]

\* Type correctness of the session and of the stream it reads.
TypeOK == /\ {polite, whole, keepalive, finished} \subseteq BOOLEAN
          /\ sizes \in [1 .. Requests -> 0 .. MaxBody]
          /\ sent \in 0 .. End[Requests]
          /\ buffer \in Seq(Bytes)
          /\ head \in Seq(Bytes)
          /\ nread \in 0 .. sent
          /\ status \in {"open", "closed", "refused", "aborted"}
          /\ delivered \in Seq([head : Seq(Bytes), body : Seq(Bytes)])

\* However the bodies and what precedes the first line end are cut, a peer that
\* waits for its answers is understood: the requests handed to the dispatcher
\* are those it sent, with their own bodies.
RequestsIntact == polite /\ whole =>
    \A q \in DOMAIN delivered : delivered[q] = [head |-> HeadOf(q), body |-> BodyOf(q)]

\* ... none of them waits for bytes that have come already, is taken for an
\* error or trips an assertion (http_session.cc:22-28).
NothingHeldBack == polite /\ whole =>
    /\ status \in {"open", "closed"}
    /\ \A q \in 1 .. Requests : sent >= End[q] => Len(delivered) >= q

\* Both together: such a peer is understood, as soon as it can be.
Understood == RequestsIntact /\ NothingHeldBack

\* What a peer sends ahead is taken for the end of the body that comes before
\* it (http_session.cc:26); that request itself, its head and the bytes of its
\* body, is still the one sent.
FirstIntact == whole /\ delivered # <<>> =>
    /\ delivered[1].head = HeadOf(1)
    /\ sizes[1] <= Len(delivered[1].body)
    /\ First(sizes[1], delivered[1].body) = BodyOf(1)

\* "nread longer than length", the parser's assertion (http11_parser.rl.cc:6633).
NreadInBuffer == status # "aborted"
=============================================================================
