------------------------------- MODULE HttpHead -------------------------------
(***************************************************************************)
(* What the two parsers promise to their owners (http_parser.cc:69-80 and  *)
(* 153-163): the elements of a head are reported one after the other, in   *)
(* an order the owner can rely on, and a head is finished when all of it   *)
(* was reported.  Fields that follow each other count once.                *)
(***************************************************************************)
EXTENDS Sequences, SequencesExt

VARIABLES machine,      \* whose heads: "request" or "response"
          reported,     \* the elements reported so far
          finished      \* what isFinished() says

vars == <<machine, reported, finished>>

Maybe(element) == {<<>>, <<element>>}

\* The heads of requests and responses, the messages and the chunks.
Heads == [request |->
              {<<"method", "path">> \o q \o <<"uri">> \o f \o <<"version">> \o h \o <<"done">> :
                   q \in Maybe("query"), f \in Maybe("fragment"), h \in Maybe("field")}
              \cup {<<"path", kind, "done">> : kind \in {"xml", "json"}},
          response |->
              {head \o h \o <<"done">> :
                   head \in {<<"version", "status", "reason">>, <<"chunk_size">>},
                   h \in Maybe("field")}]

Init == /\ machine \in {"request", "response"}
        /\ reported = <<>>
        /\ finished = FALSE

\* One byte ends up to three elements.
Report == /\ \E head \in Heads[machine] : \E n \in Len(reported) + 1 .. Len(reported) + 3 :
                 /\ n <= Len(head)
                 /\ IsPrefix(reported, head)
                 /\ reported' = SubSeq(head, 1, n)
          /\ finished' \in IF reported' \notin Heads[machine] THEN {FALSE}
                           ELSE IF machine = "request" THEN {TRUE} ELSE BOOLEAN
          /\ UNCHANGED machine

\* The response parser begins again with every call (http_parser.cc:166).
Again == /\ machine = "response"
         /\ reported' = <<>>
         /\ finished' = FALSE
         /\ UNCHANGED machine

Spec == Init /\ [][Report \/ Again]_vars
==============================================================================
