----------------------------- MODULE RequestTable -----------------------------
(***************************************************************************)
(* The machine of the request parser (http11_parser.rl.cc), section by     *)
(* section as its states follow each other there.  Bytes that no state     *)
(* tells apart are one value, named for one of them: "!" is any of         *)
(* ! $ & ' * _ ~ ; "(" any of ( ) , ; = ; "3" a digit but 0 1 2 5; "A" and *)
(* "a" a hexadecimal letter; "G" and "g" any other letter but H P T v;     *)
(* "ctl" the control bytes without a part of their own and ^ ` | ; "x02"   *)
(* to "x06" are what the grammar has in place of repetition counts;        *)
(* "high" is any of " \ and the bytes from 128 on.                         *)
(* Bytes that uri_relaxed would let pass are refused: the parser is made   *)
(* with zeroes (http_parser.h:21), and nothing sets it.                    *)
(***************************************************************************)
EXTENDS Ragel, TLC, Integers

Digit == {"0", "1", "2", "3", "5"}
Upper == {"A", "G", "H", "P", "T"}
Lower == {"a", "g", "v"}
Alpha == Upper \cup Lower
HexLetter == {"A", "a"}
Hex == Digit \cup HexLetter
Counts == {"x02", "x03", "x04", "x05", "x06"}
Plain == {"!", "(", "+", "-", "."} \cup Digit \cup Alpha
Name == {"ctl", "VT", "!", "#", "%", "+", "-", "."} \cup Counts \cup Digit \cup Alpha
Text == Name \cup {"SP", "HT", "high", "(", "/", ":", "<", ">", "?", "@", "[", "]", "{", "}"}
RequestBytes == Text \cup {"NUL", "LF", "CR", "DEL"}

\* Mutant: the second digit is read over and over.
EscapedStuck(s, t) == (s :> On(Hex, s + 1)) @@ (s + 1 :> On(Hex, s + 1))

\* A percent sign was read: two hexadecimal digits, in states s and s + 1.
Escaped(s, t) == (s :> On(Hex, s + 1)) @@ (s + 1 :> On(Hex, t))

-----------------------------------------------------------------------------
(* The request line.                                                       *)

Start == (1 :> (Do(Digit \cup Upper, <<"mark">>, 2) @@ Do({"<"}, <<"mark">>, 194)
                @@ Do({"@"}, <<"mark">>, 198)))
      @@ (2 :> (Do({"SP"}, <<"method">>, 3) @@ On(Digit \cup Upper, 175)))

\* Up to nineteen more letters of a method.
MethodRest == [s \in 175 .. 193 |-> Do({"SP"}, <<"method">>, 3)
                                    @@ IF s < 193 THEN On(Digit \cup Upper, s + 1) ELSE NoMove]

\* What ends the path of a request.
PathEnds == Do({"SP"}, <<"path", "uri">>, 4) @@ Do({"#"}, <<"path", "uri">>, 20)
            @@ Do({"?"}, <<"path">>, 29)

\* The first byte of a path: a slash, a scheme or anything else.
Target == 3 :> (After(<<"mark">>, PathEnds) @@ Do({"/"}, <<"mark">>, 33)
                @@ Do({"%"}, <<"mark">>, 24) @@ Do(Alpha, <<"mark">>, 173)
                @@ Do(Plain \cup {"@"}, <<"mark">>, 19))

Version == (4 :> Do({"H"}, <<"mark">>, 5))
        @@ Spell(5, <<{"T"}, {"T"}, {"P"}, {"/"}, {"1"}, {"."}, {"0", "1"}>>, NoMove)
        @@ (12 :> (Do({"LF"}, <<"version">>, 13) @@ Do({"CR"}, <<"version">>, 17)))

-----------------------------------------------------------------------------
(* The header fields.                                                      *)

FieldName == (13 :> (Do(Name, <<"field_start">>, 14) @@ Do({"CR"}, <<"field_start">>, 18)
                     @@ Do({"LF"}, <<"field_start", "done">>, 348)))
          @@ (14 :> (On(Name \cup {"LF", "CR"}, 14) @@ Do({":"}, <<"field_len">>, 15)))

\* Mutant: an empty value is not marked.
FieldValueUnmarked == (15 :> (Do({"HT", "SP"}, <<>>, 15) @@ Do({"LF"}, <<"field">>, 13)
                              @@ Do({"CR"}, <<"field">>, 17) @@ Do(Text, <<"mark">>, 16)))
                   @@ (16 :> (Do({"LF"}, <<"field">>, 13) @@ Do({"CR"}, <<"field">>, 17)
                              @@ On(Text, 16)))

FieldValue == (15 :> (Do({"HT", "SP"}, <<"mark">>, 15) @@ Do({"LF"}, <<"mark", "field">>, 13)
                      @@ Do({"CR"}, <<"mark", "field">>, 17) @@ Do(Text, <<"mark">>, 16)))
           @@ (16 :> (Do({"LF"}, <<"field">>, 13) @@ Do({"CR"}, <<"field">>, 17)
                      @@ On(Text, 16)))

LineEnd == 17 :> On({"LF"}, 13)

\* The empty line, and a carriage return that may begin one or a name.
HeadEnd == (18 :> (Do({"LF"}, <<"done">>, 348) @@ On(Name \cup {"CR"}, 14)
                   @@ Do({":"}, <<"field_len">>, 15)))
        @@ (348 :> (On(Name \cup {"LF", "CR"}, 14) @@ Do({":"}, <<"field_len">>, 15)))

-----------------------------------------------------------------------------
(* Paths, fragments and queries.                                           *)

Opaque == 19 :> (On(Plain \cup {"@"}, 19) @@ On({"%"}, 24) @@ On({"/"}, 26) @@ PathEnds)

FragmentRow == Do({"SP"}, <<"fragment">>, 4) @@ On(Plain \cup {"/", ":", "?", "@"}, 21)
               @@ On({"%"}, 22)
Fragment == (20 :> After(<<"mark">>, FragmentRow)) @@ (21 :> FragmentRow) @@ Escaped(22, 21)

Path == Escaped(24, 19) @@ Escaped(27, 26)
     @@ (26 :> (On(Plain \cup {"/", ":", "@"}, 26) @@ On({"%"}, 27) @@ PathEnds))

\* Mutant: a query that a fragment follows does not end the URI.
QueryRowOpen == Do({"SP"}, <<"query", "uri">>, 4) @@ Do({"#"}, <<"query">>, 20)
                @@ On(Plain \cup {"/", ":", "?", "@"}, 30) @@ On({"%"}, 31)

QueryRow == Do({"SP"}, <<"query", "uri">>, 4) @@ Do({"#"}, <<"query", "uri">>, 20)
            @@ On(Plain \cup {"/", ":", "?", "@"}, 30) @@ On({"%"}, 31)
\* Mutant: the mark of the query is forgotten.
QueryUnmarked == (29 :> QueryRow) @@ (30 :> QueryRow) @@ Escaped(31, 30)

Query == (29 :> After(<<"query_start">>, QueryRow)) @@ (30 :> QueryRow) @@ Escaped(31, 30)

\* A path that begins with a slash: another one begins an authority.
SlashRow == On(Plain \cup {":", "@"}, 26) @@ On({"/"}, 34) @@ On({"%"}, 27) @@ PathEnds
Slash == 33 :> SlashRow

SchemeRow == On({"+", "-", "."} \cup Digit \cup Alpha, 173) @@ On({":"}, 174)
Scheme == (173 :> (SchemeRow @@ On(Plain \cup {"@"}, 19) @@ On({"%"}, 24) @@ On({"/"}, 26)
                   @@ PathEnds))
       @@ (174 :> After(<<"mark">>, On({"/"}, 33) @@ SlashRow))

-----------------------------------------------------------------------------
(* The authority behind two slashes: user, host, port.  It occurs twice,   *)
(* the second time 175 states further and with another row behind it.      *)

UriFollows == On({"/"}, 26) @@ PathEnds

UserInfo(n, follow) ==
    (n + 34 :> (On(Plain, n + 35) @@ On({"%"}, n + 36) @@ On({":"}, n + 38)
                @@ On({"@"}, n + 42) @@ On({"["}, n + 47) @@ follow))
 @@ (n + 35 :> (On(Plain, n + 35) @@ On({"%"}, n + 36) @@ On({":"}, n + 38)
                @@ On({"@"}, n + 42) @@ follow))
 @@ Escaped(n + 36, n + 35)

\* A port, or the second half of the user.
Port(n, follow) ==
    (n + 38 :> (On(Digit, n + 38) @@ On(Plain \cup {":"}, n + 39) @@ On({"%"}, n + 40)
                @@ On({"@"}, n + 42) @@ follow))
 @@ (n + 39 :> (On(Plain \cup {":"}, n + 39) @@ On({"%"}, n + 40) @@ On({"@"}, n + 42)))
 @@ Escaped(n + 40, n + 39)

Host(n, follow) ==
    (n + 42 :> (On(Plain, n + 43) @@ On({"%"}, n + 44) @@ On({":"}, n + 46)
                @@ On({"["}, n + 47) @@ follow))
 @@ (n + 43 :> (On(Plain, n + 43) @@ On({"%"}, n + 44) @@ On({":"}, n + 46) @@ follow))
 @@ Escaped(n + 44, n + 43)
 @@ (n + 46 :> (On(Digit, n + 46) @@ follow))

LiteralEnd(n, follow) == n + 61 :> (On({":"}, n + 46) @@ follow)

UriUserInfo == UserInfo(0, UriFollows)
UriPort == Port(0, UriFollows)
UriHost == Host(0, UriFollows)
UriLiteralEnd == LiteralEnd(0, UriFollows)

-----------------------------------------------------------------------------
(* Addresses in brackets.                                                  *)

Colon(t) == On({":"}, t)
Close == On({"]"}, 61)

\* The first digit of what may be a group or the first octet of four.
EitherStart(d, one, two, letter) ==
    On({"0", "3", "5"}, d) @@ On({"1"}, one) @@ On({"2"}, two) @@ On(HexLetter, letter)

\* A group, or an octet as long as its digits can be one; h has its second digit.
Either(d, h, one, two, letter, end) ==
    LET dot == On({"."}, 55)
    IN  (d :> (On(Hex, h) @@ dot @@ end))
     @@ (h :> (On(Hex, h + 1) @@ end)) @@ (h + 1 :> (On(Hex, h + 2) @@ end)) @@ (h + 2 :> end)
     @@ (one :> (On(Digit, one + 1) @@ On(HexLetter, h) @@ dot @@ end))
     @@ (one + 1 :> (On(Digit, one + 2) @@ On(HexLetter, h + 1) @@ dot @@ end))
     @@ (one + 2 :> (On(Hex, h + 2) @@ dot @@ end))
     @@ (two :> (On({"0"}, two + 1) @@ On({"5"}, two + 2) @@ On(Hex, h) @@ dot @@ end))
     @@ (two + 1 :> (On(Digit, one + 2) @@ On(HexLetter, h + 1) @@ end))
     @@ (two + 2 :> (On({"0"}, one + 2) @@ On(Hex, h + 1) @@ end))
     @@ (letter :> (On(Hex, h) @@ end))

\* Mutant: any number of digits.
GroupLong(s, t) == [i \in s .. s + 2 |-> On(Hex, i + 1) @@ Colon(t)]
                   @@ (s + 3 :> (On(Hex, s + 3) @@ Colon(t)))

\* One to four digits in states s to s + 3, then a colon and the state behind it.
Group(s, t) == [i \in s .. s + 2 |-> On(Hex, i + 1) @@ Colon(t)] @@ (s + 3 :> Colon(t))

\* ... with the colon's state next to it: a digit, or the colon of an elision.
GroupThen(s, next, elided) == Group(s, s + 4) @@ (s + 4 :> (On(Hex, next) @@ Colon(elided)))

Literal == (47 :> (On({"x06"}, 48) @@ On(Hex, 91) @@ Colon(167) @@ On({"v"}, 169)))
        @@ (48 :> On(Hex, 49)) @@ Group(49, 53) @@ (53 :> EitherStart(54, 84, 87, 90))

LastGroups == Either(54, 77, 84, 87, 90, Colon(80))
LastGroup == (80 :> On(Hex, 81)) @@ (81 :> (On(Hex, 82) @@ Close)) @@ (82 :> (On(Hex, 83) @@ Close))
          @@ (83 :> (On(Hex, 60) @@ Close))

\* An octet: a digit in state s; one hundred and on in `one'; from 200 on in `two'.
Octet(s, one, two, end) ==
    (s :> (On({"0", "3", "5"}, s + 1) @@ On({"1"}, one) @@ On({"2"}, two))) @@ (s + 1 :> end)
 @@ (one :> (On(Digit, one + 1) @@ end)) @@ (one + 1 :> (On(Digit, s + 1) @@ end))
 @@ (two :> (On({"0"}, two + 1) @@ On({"5"}, two + 2) @@ end))
 @@ (two + 1 :> On(Digit, s + 1)) @@ (two + 2 :> On({"0"}, s + 1))

Octets == Octet(55, 72, 74, On({"."}, 57)) @@ Octet(57, 67, 69, On({"."}, 59))
       @@ Octet(59, 62, 64, Close)

FirstGroups == GroupThen(91, 96, 166) @@ GroupThen(96, 101, 165) @@ GroupThen(101, 106, 164)
MiddleGroups == GroupThen(106, 111, 163) @@ GroupThen(111, 116, 151)
LateGroups == GroupThen(116, 121, 150) @@ GroupThen(121, 121, 126)

\* Behind an elision: at most two more groups, or an address of four octets.
Elision == (126 :> (On({"x02", "x03"}, 48) @@ EitherStart(127, 143, 146, 149) @@ Close))
Elided == Either(127, 128, 143, 146, 149, Colon(131) @@ Close)
ElidedMore == (131 :> EitherStart(132, 136, 139, 142))
           @@ Either(132, 133, 136, 139, 142, Colon(80) @@ Close)

ElisionAfterSix == (150 :> (On({"x02", "x03"}, 48) @@ EitherStart(127, 143, 146, 149)))
ElisionAfterFive == (151 :> (On({"x02", "x03"}, 48) @@ EitherStart(152, 156, 159, 162)))
                 @@ Either(152, 153, 156, 159, 162, Colon(131))

Elisions == (163 :> (On({"x02", "x03"}, 48) @@ On(Hex, 49))) @@ (164 :> On({"x02", "x03"}, 48))
         @@ (165 :> On({"x03"}, 48)) @@ (166 :> On({"x04"}, 48)) @@ (167 :> Colon(168))
         @@ (168 :> (On(Counts \ {"x06"}, 48) @@ EitherStart(127, 143, 146, 149) @@ Close))

Future == (169 :> On(Hex, 170)) @@ (170 :> (On(Hex, 170) @@ On({"."}, 171)))
       @@ (171 :> On(Plain \cup {":"}, 172)) @@ (172 :> (On(Plain \cup {":"}, 172) @@ Close))

-----------------------------------------------------------------------------
(* A message instead of a request: XML in angle brackets, JSON behind @.   *)

Xml == (194 :> On({"-", "."} \cup Digit \cup Alpha, 195))
    @@ (195 :> (On({"-", "."} \cup Digit \cup Alpha, 195)
                @@ Do({"HT", "LF", "VT", "CR", "SP", "/", ">"}, <<"path">>, 196)))
    @@ (196 :> (On({">"}, 197) @@ On(RequestBytes, 196)))
    @@ (197 :> (Do({"NUL"}, <<"xml", "done">>, 349) @@ On({">"}, 197) @@ On(RequestBytes, 196)))
    @@ (349 :> NoMove)

JsonBody == (199 :> Do({"{"}, <<"mark">>, 200))
         @@ (200 :> (On({"}"}, 201) @@ On(RequestBytes, 200)))
         @@ (201 :> (Do({"NUL"}, <<"json", "done">>, 349) @@ On({"}"}, 201) @@ On(RequestBytes, 200)))

JsonPathEnds == Do({"SP"}, <<"path">>, 199)
JsonFollows == On({"/"}, 205) @@ JsonPathEnds

JsonStart == 198 :> (On(Plain \cup {"@"}, 202) @@ On({"%"}, 203) @@ On({"/"}, 208) @@ JsonPathEnds)
JsonPath == (202 :> (On(Plain \cup {"@"}, 202) @@ On({"%"}, 203) @@ JsonFollows))
         @@ Escaped(203, 202) @@ Escaped(206, 205)
         @@ (205 :> (On(Plain \cup {"/", ":", "@"}, 205) @@ On({"%"}, 206) @@ JsonPathEnds))
JsonSlash == 208 :> (On(Plain \cup {":", "@"}, 205) @@ On({"/"}, 209) @@ On({"%"}, 206)
                     @@ JsonPathEnds)

JsonUserInfo == UserInfo(175, JsonFollows)
JsonPort == Port(175, JsonFollows)
JsonHost == Host(175, JsonFollows)
JsonLiteralEnd == LiteralEnd(175, JsonFollows)
JsonLiteral == Shift(175, Literal)
JsonLastGroups == Shift(175, LastGroups)
JsonLastGroup == Shift(175, LastGroup)
JsonOctets == Shift(175, Octets)
JsonFirstGroups == Shift(175, FirstGroups)
JsonMiddleGroups == Shift(175, MiddleGroups)
JsonLateGroups == Shift(175, LateGroups)
JsonElision == Shift(175, Elision)
JsonElided == Shift(175, Elided)
JsonElidedMore == Shift(175, ElidedMore)
JsonElisionAfterSix == Shift(175, ElisionAfterSix)
JsonElisionAfterFive == Shift(175, ElisionAfterFive)
JsonElisions == Shift(175, Elisions)
JsonFuture == Shift(175, Future)

-----------------------------------------------------------------------------

RequestTable ==
    Start @@ MethodRest @@ Target @@ Version @@ FieldName @@ FieldValue @@ LineEnd @@ HeadEnd
 @@ Opaque @@ Fragment @@ Path @@ Query @@ Slash @@ Scheme
 @@ UriUserInfo @@ UriPort @@ UriHost @@ UriLiteralEnd
 @@ Literal @@ LastGroups @@ LastGroup @@ Octets @@ FirstGroups @@ MiddleGroups @@ LateGroups
 @@ Elision @@ Elided @@ ElidedMore @@ ElisionAfterSix @@ ElisionAfterFive @@ Elisions @@ Future
 @@ Xml @@ JsonBody @@ JsonStart @@ JsonPath @@ JsonSlash
 @@ JsonUserInfo @@ JsonPort @@ JsonHost @@ JsonLiteralEnd
 @@ JsonLiteral @@ JsonLastGroups @@ JsonLastGroup @@ JsonOctets @@ JsonFirstGroups
 @@ JsonMiddleGroups @@ JsonLateGroups @@ JsonElision @@ JsonElided @@ JsonElidedMore
 @@ JsonElisionAfterSix @@ JsonElisionAfterFive @@ JsonElisions @@ JsonFuture
==============================================================================
