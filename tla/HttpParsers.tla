------------------------------ MODULE HttpParsers ------------------------------
(***************************************************************************)
(* HttpRequestParser and HttpResponseParser (http/http_parser.cc): the     *)
(* machines of RequestTable and ResponseTable, what their actions do to    *)
(* the marks they keep in the buffer, and what is reported to the owner.   *)
(* Positions are not counted; of each mark it is known what has passed     *)
(* since it was set.  A byte may be any at any time, also one that no      *)
(* well-meaning peer sends.                                                *)
(***************************************************************************)
EXTENDS RequestTable, ResponseTable, FiniteSets, SequencesExt

VARIABLES machine,      \* which of the two parsers
          cs,           \* the machine's state; 0 is its error
          since,        \* the bytes and settings since each of its marks was set
          heard,        \* what was reported at the last byte, with what has passed since
          reported,     \* history: what was reported, fields in a row once
          error,        \* _error
          address       \* history: the address in brackets that is being read

vars == <<machine, cs, since, heard, reported, error, address>>

Table == [request |-> RequestTable, response |-> ResponseTable]
Alphabet == [request |-> RequestBytes, response |-> ResponseBytes]

\* The positions a parser keeps in the buffer (field_len is one it measured).
Marks == {"mark", "field_start", "field_len", "query_start"}
\* The callbacks, and where digits and the name of a field are read without one.
Calls == {"method", "path", "query", "uri", "fragment", "version", "field", "done", "xml", "json",
          "status", "reason", "chunk_size", "content_len", "field_len"}
\* The bytes that end elements.
Delimiters == {"SP", "LF", "CR", "?", "#", ":", ";"}

Unset == [m \in Marks |-> {"unset"}]
NoAddress == [digits |-> 0, number |-> 0, colons |-> 0, dots |-> 0, elisions |-> 0, ended |-> "no"]

\* http_parser_init and httpclient_parser_init.
Init == /\ machine \in {"request", "response"}
        /\ cs = 1
        /\ since = Unset
        /\ heard = <<>>
        /\ reported = <<>>
        /\ error = 0
        /\ address = NoAddress

-----------------------------------------------------------------------------
(* The actions of a move, in their order.                                  *)

Set(mem, m) == [mem EXCEPT !.since = [n \in Marks |-> IF n = m THEN {} ELSE @[n] \cup {m}]]
Call(mem, what) == [mem EXCEPT !.heard = Append(@, [what |-> what, from |-> cs, since |-> mem.since])]

\* The length of a name: the distance to its beginning, which may be none.
Measure(mem) ==
    LET blank == IF "byte" \in mem.since["field_start"] THEN {} ELSE {"blank"}
    IN  [Set(Call(mem, "field_len"), "field_len") EXCEPT !.since["field_len"] = blank]

Perform(mem, action) == IF action = "field_len" THEN Measure(mem)
                        ELSE IF action \in Marks THEN Set(mem, action)
                        ELSE IF action \in Calls THEN Call(mem, action)
                        ELSE mem

Passed(mem, c) == [m \in Marks |-> mem.since[m] \cup {"byte"} \cup ({c} \cap Delimiters)]

\* What the owner is told, a run of fields once.
Tell(told, call) ==
    IF call.what \in {"content_len", "field_len"} \/ (call.what = "field" /\ told # <<>> /\ Last(told) = "field")
    THEN told ELSE Append(told, call.what)

Heard(what) == \E i \in DOMAIN heard' : heard'[i].what = what
EmptyName == \E i \in DOMAIN heard' :
    heard'[i].what = "field" /\ heard'[i].since["field_len"] \cap {"blank", "unset"} # {}

\* on_request_method may refuse the text (on_request_version cannot: the table only
\* lets its own versions pass), on_response_version too, and the callbacks of
\* fields refuse an empty name.
Callbacks == error' \in IF Heard("method") THEN {error, 1000}
                        ELSE IF machine = "response" /\ Heard("version") THEN {error, 1001}
                        ELSE IF EmptyName THEN {1002}
                        ELSE {error}

-----------------------------------------------------------------------------
(* The address in brackets, as a reader of RFC 3986 would take it apart.   *)

Brackets == {47, 222}
InBrackets == (47 .. 168) \cup (222 .. 343)
Behind == {61, 236}

\* The largest digit a byte stands for.
Worth == [c \in Digit |-> CASE c = "0" -> 0 [] c = "1" -> 1 [] c = "2" -> 2 [] c = "5" -> 5
                            [] OTHER -> 9]

Ends(a, c) == IF a.digits = 0 THEN "no"
              ELSE IF c = "." \/ (c = "]" /\ a.dots > 0) THEN "octet"
              ELSE IF c \in {":", "]"} THEN "group"
              ELSE "no"

\* The next byte of an address; its last part is kept until one byte later.
Reading(a, c) ==
    LET b == IF a.ended = "no" THEN a ELSE [a EXCEPT !.digits = 0, !.number = 0, !.ended = "no"]
    IN  IF c \in Hex
        THEN [b EXCEPT !.digits = Min({@ + 1, 5}), !.colons = 0,
                       !.number = IF c \in Digit THEN Min({10 * @ + Worth[c], 999}) ELSE 999]
        ELSE IF c = ":"
        THEN [b EXCEPT !.ended = Ends(b, c), !.colons = @ + 1,
                       !.elisions = IF b.colons = 1 THEN @ + 1 ELSE @]
        ELSE [b EXCEPT !.ended = Ends(b, c), !.dots = IF c = "." THEN @ + 1 ELSE @]

-----------------------------------------------------------------------------
(* execute, byte by byte.                                                  *)

Row == Table[machine][cs]
Stopped == heard # <<>> /\ Last(heard).what = "done"
Running == cs # 0 /\ ~Stopped

Accept(c) ==
    /\ Running
    /\ c \in DOMAIN Row
    /\ LET mem == FoldLeft(Perform, [since |-> since, heard |-> <<>>], Row[c].do)
       IN  /\ cs' = Row[c].to
           /\ since' = Passed(mem, c)
           /\ heard' = mem.heard
           /\ reported' = FoldLeft(Tell, reported, mem.heard)
    /\ Callbacks
    /\ address' = IF machine = "request" /\ cs \in InBrackets \ Behind THEN Reading(address, c)
                  ELSE NoAddress
    /\ UNCHANGED machine

\* The label st0: no move for this byte.
Reject(c) ==
    /\ Running
    /\ c \in Alphabet[machine] \ DOMAIN Row
    /\ cs' = 0
    /\ heard' = <<>>
    /\ UNCHANGED <<machine, since, reported, error, address>>

\* HttpResponseParser::execute is called once more and begins anew; the error stays.
Again == /\ machine = "response"
         /\ cs' = 1
         /\ since' = Unset
         /\ heard' = <<>>
         /\ reported' = <<>>
         /\ UNCHANGED <<machine, error, address>>

Byte == \E c \in Alphabet[machine] : Accept(c) \/ Reject(c)

Next == Byte \/ Again

Spec == Init /\ [][Next]_vars

-----------------------------------------------------------------------------
(* Properties.                                                             *)

\* isFinished() of the two parsers.
Finished == IF machine = "request" THEN cs >= 348 ELSE cs = 120

\* The states in which a head can be over.
Final == [request |-> {348, 349}, response |-> {120, 121, 122, 123}]
CanEnd == [m \in {"request", "response"} |-> Productive(Table[m], Final[m])]

\* The mark an element is cut out of the buffer with, and what would end it earlier.
From == [c \in Calls |-> CASE c = "query" -> "query_start" [] c = "field_len" -> "field_start"
                            [] OTHER -> "mark"]
Foreign == [method |-> {"SP", "LF"}, path |-> {"SP", "?", "#"}, query |-> {"SP", "#"},
            uri |-> {"SP", "#"}, fragment |-> {"SP", "#"}, version |-> {"SP", "LF", "CR"},
            field |-> {"LF"}, status |-> {"SP", "LF"}, reason |-> {"LF"},
            field_len |-> {":", "="}, chunk_size |-> {"LF", "CR", ";"}, content_len |-> {"SP", "LF", "CR"}]

\* Whatever arrives, an element that is reported was marked before and holds
\* nothing that belongs to the next one.
CleanElements == \A i \in DOMAIN heard : heard[i].what \in DOMAIN Foreign =>
    heard[i].since[From[heard[i].what]] \cap (Foreign[heard[i].what] \cup {"unset"}) = {}

\* A field is reported with its own name, measured from its own beginning, and
\* with the value behind it; no name is empty (on_request_http_field's error 1002
\* never happens).  (A line of the response that follows an empty known header
\* and is read as its value and as a name at once is left out.)
FieldWhole ==
    /\ \A i \in DOMAIN heard :
        heard[i].what = "field" /\ ~(machine = "response" /\ heard[i].from \in {79, 117}) =>
            /\ "field_len" \in heard[i].since["field_start"]
            /\ "mark" \in heard[i].since["field_len"]
    /\ error # 1002

\* Every byte that is accepted leaves the parser where a head can still end.
NoTrap == cs # 0 => cs \in CanEnd[machine]

\* What is accepted in brackets has the parts of an address: groups of one to
\* four digits, octets below 256, at most one elision, and no or three dots.
AddressParts ==
    /\ address.ended = "group" => address.digits \in 1 .. 4
    /\ address.ended = "octet" => address.digits \in 1 .. 3 /\ address.number <= 255
    /\ address.elisions <= 1
    /\ cs \in Behind => address.dots \in {0, 3}

Heads == INSTANCE HttpHead WITH finished <- Finished

\* The elements of a head are reported in the order of the grammar, and the
\* request parser is finished exactly when all of them were.
ImplementsHead == Heads!Spec
==============================================================================
