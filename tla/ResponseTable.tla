---------------------------- MODULE ResponseTable ----------------------------
(***************************************************************************)
(* The machine of the response parser (httpclient_parser.rl.cc): a chunk   *)
(* of a chunked body, or a status line and header fields, of which three   *)
(* are known by name.  Letters stand for both cases, H, P and T, which the *)
(* status line distinguishes, for the upper case of h and t.  "HT" is any  *)
(* of the tabulators and the form feed, "!" another byte of a name,        *)
(* "other" one of no part in the grammar, "0" any digit.                   *)
(***************************************************************************)
EXTENDS Ragel, TLC, Integers, Sequences

HexDigit == {"0", "A", "B", "C", "D", "E", "F"}
Letter == {"A", "B", "C", "D", "E", "F", "G", "H", "I", "K", "L", "N", "O", "P", "R", "S", "T",
           "U", "h", "t"}
NameByte == {"!", "-", ".", "0"} \cup Letter
Space == {"HT", "SP"}
ResponseBytes == NameByte \cup Space \cup {"LF", "CR", "other", "/", ":", ";", "="}

\* A word in any case, in states s, s + 1, ...
EitherCase(word) == [i \in DOMAIN word |-> CASE word[i] = "H" -> {"H", "h"}
                                             [] word[i] = "T" -> {"T", "t"}
                                             [] OTHER -> {word[i]}]
Read(s, word, else) == Spell(s, EitherCase(word), else)

-----------------------------------------------------------------------------
(* The head of a chunk: its size and extensions.                           *)

Opening == (1 :> (Do({"H"}, <<"mark">>, 8) @@ Do(HexDigit, <<"mark">>, 2)))
        @@ (2 :> (On(HexDigit, 2) @@ Do({"LF"}, <<"chunk_size", "done">>, 120)
                  @@ Do({"CR"}, <<"chunk_size">>, 3) @@ Do({";"}, <<"chunk_size">>, 4)))

LastLine == (3 :> Do({"LF"}, <<"done">>, 120)) @@ (120 :> NoMove)

ExtensionEnds(before) == Do({"LF"}, before \o <<"field", "done">>, 120)
                         @@ Do({"CR"}, before \o <<"field">>, 3)
                         @@ Do({";"}, before \o <<"field">>, 4)

Extension == (4 :> Do(NameByte, <<"field_start">>, 5))
          @@ (5 :> (On(NameByte, 5) @@ Do({"="}, <<"field_len", "mark">>, 6)
                    @@ ExtensionEnds(<<"field_len", "mark">>)))
          @@ (6 :> Do(NameByte, <<"mark">>, 7))
          @@ (7 :> (On(NameByte, 7) @@ ExtensionEnds(<<>>)))

-----------------------------------------------------------------------------
(* The status line, and header fields without a name of their own.         *)

StatusLine == Spell(8, <<{"T"}, {"T"}, {"P"}, {"/"}, {"0"}>>, NoMove)
           @@ (13 :> (On({"0"}, 13) @@ On({"."}, 14))) @@ (14 :> On({"0"}, 15))
           @@ (15 :> (On({"0"}, 15) @@ Do({"SP"}, <<"version">>, 16)))
           @@ (16 :> Do({"0"}, <<"mark">>, 17))
           @@ (17 :> (On({"0"}, 17) @@ Do({"SP"}, <<"status">>, 18)))

Reason == (18 :> Do(ResponseBytes \ {"LF"}, <<"mark">>, 19))
       @@ (19 :> (Do({"LF"}, <<"reason">>, 20) @@ Do({"CR"}, <<"reason">>, 24)
                  @@ On(ResponseBytes, 19)))

\* The first letter of a name that may be a known one, and any other name.
FieldStarts == Do({"C"}, <<"field_start">>, 25) @@ Do({"T", "t"}, <<"field_start">>, 44)
               @@ Do(NameByte, <<"field_start">>, 21)
SomeName == On(NameByte, 21) @@ Do({":"}, <<"field_len">>, 22)

LineRow == Do({"LF"}, <<"done">>, 120) @@ On({"CR"}, 3) @@ FieldStarts
Line == 20 :> LineRow

ValueEnds(t, cr) == Do({"LF"}, <<"field">>, t) @@ Do({"CR"}, <<"field">>, cr)
SomeValue == ValueEnds(20, 24) @@ On(ResponseBytes, 23)

\* The value of a known header: its first byte, and where its line ends if it is empty.
KnownValue(s, first, t, lf, cr) ==
    s :> (After(<<"mark">>, On(Space, s) @@ On(first, t) @@ ValueEnds(lf, cr)
                            @@ On(ResponseBytes, 23)))

Field == (21 :> SomeName) @@ KnownValue(22, {}, 23, 20, 24) @@ (23 :> SomeValue)
      @@ (24 :> On({"LF"}, 20))

\* An empty value is followed by white space and lines until the value comes:
\* the rows behind its line feed, on such a line, and behind a carriage return.
Continues(t, first, row) == On(Space, t) @@ row @@ On({"LF", "CR"}, t) @@ first
FoldedRow(t, cr, over, names) ==
    On(Space, t) @@ Do({"LF"}, <<"done">>, over) @@ On({"CR"}, cr) @@ names

-----------------------------------------------------------------------------
(* Connection: close.                                                      *)

ConName == Read(25, <<"O", "N">>, SomeName)
        @@ (27 :> (On({"N"}, 28) @@ On({"T", "t"}, 101) @@ SomeName))
ConnectionName == Read(28, <<"E", "C", "T", "I", "O", "N">>, SomeName)
               @@ (34 :> (Do({":"}, <<"field_len">>, 35) @@ SomeName))

ConnectionValue == KnownValue(35, {"C"}, 96, 36, 95)
CloseWord == Read(96, <<"L", "O", "S", "E">>, SomeValue)
          @@ (100 :> (ValueEnds(43, 88) @@ SomeValue))

ConnectionFold == (36 :> FoldedRow(37, 89, 122, Do({"C"}, <<"field_start">>, 90) @@ FieldStarts))
CloseFolded == (37 :> Continues(37, On({"C"}, 38), NoMove))
            @@ Read(38, <<"L", "O", "S", "E">>, NoMove)
            @@ (42 :> (On({"LF"}, 43) @@ On({"CR"}, 88)))
Closing == (43 :> After(<<"close">>, LineRow)) @@ (88 :> On({"LF"}, 43))
ConnectionFoldEnds == (122 :> Continues(37, On({"C"}, 38), NoMove))
    @@ (89 :> Continues(37, On({"C"}, 38), Do({"LF"}, <<"done">>, 122)))
    @@ (95 :> Continues(37, On({"C"}, 38), On({"LF"}, 36)))

\* After an empty Connection header a line that begins with c is both a name and `close'.
CloseOrName == (90 :> (On({"L"}, 91) @@ On({"O"}, 26) @@ SomeName))
            @@ Read(91, <<"O", "S", "E">>, SomeName)
            @@ (94 :> (On({"LF"}, 43) @@ On({"CR"}, 88) @@ SomeName))

-----------------------------------------------------------------------------
(* Transfer-Encoding: chunked.                                             *)

TransferName == Read(44, <<"R", "A", "N", "S", "F", "E", "R">>, SomeName)
EncodingName == Read(51, <<"-", "E", "N", "C", "O", "D", "I", "N", "G">>, SomeName)
             @@ (60 :> (Do({":"}, <<"field_len">>, 61) @@ SomeName))

ChunkedEnds == Do({"LF"}, <<"field", "chunked">>, 20) @@ Do({"CR"}, <<"field">>, 71)
ChunkedFirst == Do({"C"}, <<"mark">>, 64)

EncodingValue == KnownValue(61, {"C"}, 81, 62, 80)
ChunkedWord == Read(81, <<"H", "U", "N", "K", "E", "D">>, SomeValue)
            @@ (87 :> (ChunkedEnds @@ SomeValue))

EncodingFold ==
    62 :> FoldedRow(63, 72, 121, Do({"C"}, <<"mark", "field_start">>, 73) @@ FieldStarts)
ChunkedFolded == (63 :> Continues(63, ChunkedFirst, NoMove))
              @@ Read(64, <<"H", "U", "N", "K", "E", "D">>, NoMove)
              @@ (70 :> ChunkedEnds) @@ (71 :> Do({"LF"}, <<"chunked">>, 20))
EncodingFoldEnds == (121 :> Continues(63, ChunkedFirst, NoMove))
    @@ (72 :> Continues(63, ChunkedFirst, Do({"LF"}, <<"done">>, 121)))
    @@ (80 :> Continues(63, ChunkedFirst, On({"LF"}, 62)))

\* ... and after an empty Transfer-Encoding both a name and `chunked'.
ChunkedOrName == (73 :> (On({"H", "h"}, 74) @@ On({"O"}, 26) @@ SomeName))
              @@ Read(74, <<"U", "N", "K", "E", "D">>, SomeName)
              @@ (79 :> (ChunkedEnds @@ SomeName))

-----------------------------------------------------------------------------
(* Content-Length and its digits.                                          *)

ContentName == Read(101, <<"E", "N", "T", "-">>, SomeName)
LengthName == Read(105, <<"L", "E", "N", "G", "T", "H">>, SomeName)
           @@ (111 :> (Do({":"}, <<"field_len">>, 112) @@ SomeName))

LengthEnds == Do({"LF"}, <<"content_len", "field">>, 20) @@ Do({"CR"}, <<"content_len", "field">>, 24)
LengthFirst == Do({"0"}, <<"mark">>, 115)

LengthValue == KnownValue(112, {"0"}, 119, 113, 118)
LengthDigits == 119 :> (LengthEnds @@ On({"0"}, 119) @@ SomeValue)

LengthFold ==
    (113 :> FoldedRow(114, 116, 123, Do({"0"}, <<"mark", "field_start">>, 117) @@ FieldStarts))
 @@ (114 :> Continues(114, LengthFirst, NoMove)) @@ (115 :> (LengthEnds @@ On({"0"}, 115)))
LengthFoldEnds == (123 :> Continues(114, LengthFirst, NoMove))
    @@ (116 :> Continues(114, LengthFirst, Do({"LF"}, <<"done">>, 123)))
    @@ (118 :> Continues(114, LengthFirst, On({"LF"}, 113)))
LengthOrName == 117 :> (LengthEnds @@ On({"0"}, 117) @@ SomeName)

-----------------------------------------------------------------------------

ResponseTable ==
    Opening @@ LastLine @@ Extension @@ StatusLine @@ Reason @@ Line @@ Field
 @@ ConName @@ ConnectionName @@ ConnectionValue @@ CloseWord @@ ConnectionFold @@ CloseFolded
 @@ Closing @@ ConnectionFoldEnds @@ CloseOrName
 @@ TransferName @@ EncodingName @@ EncodingValue @@ ChunkedWord @@ EncodingFold @@ ChunkedFolded
 @@ EncodingFoldEnds @@ ChunkedOrName
 @@ ContentName @@ LengthName @@ LengthValue @@ LengthDigits @@ LengthFold @@ LengthFoldEnds
 @@ LengthOrName
==============================================================================
