-------------------------------- MODULE Ragel --------------------------------
(***************************************************************************)
(* Transition tables as Ragel generates them (http11_parser.rl.cc and      *)
(* httpclient_parser.rl.cc): for each state a row, a function from the     *)
(* bytes it accepts to the state that follows and the parser's actions on  *)
(* the way, in their order.  A byte that is not in a row is an error.      *)
(* States bear the numbers of the `case' labels.                           *)
(***************************************************************************)
LOCAL INSTANCE TLC
LOCAL INSTANCE Naturals
LOCAL INSTANCE Sequences

\* The row that accepts the bytes C and goes to t, without and with actions.
On(C, t) == [c \in C |-> [to |-> t, do |-> <<>>]]
Do(C, actions, t) == [c \in C |-> [to |-> t, do |-> actions]]
NoMove == On({}, 0)

\* The moves of a row with actions in front of their own.
After(actions, row) == [c \in DOMAIN row |-> [row[c] EXCEPT !.do = actions \o @]]

\* A part of a table, copied n states further.
Shift(n, part) ==
    [s \in {r + n : r \in DOMAIN part} |->
        [c \in DOMAIN part[s - n] |-> [part[s - n][c] EXCEPT !.to = @ + n]]]

\* The states s, s + 1, ... that spell a word, and otherwise have the row `else'.
Spell(s, word, else) ==
    [r \in s .. s + Len(word) - 1 |-> On(word[r - s + 1], r + 1) @@ else]

\* The states from which a state of `good' can be reached.
Productive(table, good) ==
    LET Step(S) == S \cup {s \in DOMAIN table : \E c \in DOMAIN table[s] : table[s][c].to \in S}
        Upto[n \in 0 .. 64] == IF n = 0 THEN good ELSE Step(Upto[n - 1])
    IN  Upto[64]
==============================================================================
