------------------------------ MODULE ConnTable ------------------------------
(***************************************************************************)
(* What the loop of a sub reactor promises the connections in its table,   *)
(* told without descriptor numbers: each goes its way once, from the       *)
(* acceptor through the queue into the table and out of it; its events are *)
(* handled by itself, while it is there; what another thread asks to have  *)
(* removed is what is removed, if it still is there.                       *)
(***************************************************************************)
CONSTANTS Conns, Nobody

VARIABLES stage,        \* how far each connection has come
          ready,        \* those with an event that is still to be handled
          current,      \* the one whose handlers run
          asked         \* those whose removal another thread asked for and waits

vars == <<stage, ready, current, asked>>

Stages == {"new", "accepted", "queued", "known", "gone"}
Known == {c \in Conns : stage[c] = "known"}

Init == /\ stage = [c \in Conns |-> "new"]
        /\ ready = {}
        /\ current = Nobody
        /\ asked = {}

Moves(c, from, to) == /\ stage[c] = from
                      /\ stage' = [stage EXCEPT ![c] = to]

Accept(c) == Moves(c, "new", "accepted") /\ UNCHANGED <<ready, current, asked>>
Post(c) == Moves(c, "accepted", "queued") /\ UNCHANGED <<ready, current, asked>>

\* Or epoll does not take it.
Enter(c) == /\ Moves(c, "queued", "known") \/ Moves(c, "queued", "gone")
            /\ UNCHANGED <<ready, current, asked>>

\* By a callback of the loop, not while it has an event that waits.
Leave(c) == c \notin ready /\ Moves(c, "known", "gone") /\ UNCHANGED <<ready, current, asked>>

Ask(c) == /\ stage[c] # "new"
          /\ asked' = asked \cup {c}
          /\ UNCHANGED <<stage, ready, current>>

\* Whoever is asked for, and nobody else, leaves if it is there.
Remove(c) == /\ c \in asked /\ asked' = asked \ {c}
             /\ IF stage[c] = "known" THEN c \notin ready /\ Moves(c, "known", "gone")
                                      ELSE UNCHANGED stage
             /\ UNCHANGED <<ready, current>>

Report == /\ ready = {} /\ current = Nobody
          /\ ready' \in SUBSET Known
          /\ UNCHANGED <<stage, current, asked>>

Handle(c) == /\ current = Nobody /\ current' = c
             /\ c \in ready /\ ready' = ready \ {c}
             /\ UNCHANGED <<stage, asked>>

\* An error instead of an event: it is removed, or stays.
Fail(c) == /\ current = Nobody
           /\ c \in ready /\ ready' = ready \ {c}
           /\ UNCHANGED stage \/ Moves(c, "known", "gone")
           /\ UNCHANGED <<current, asked>>

Return == /\ current # Nobody /\ current' = Nobody
          /\ UNCHANGED stage \/ Moves(current, "known", "gone")
          /\ UNCHANGED <<ready, asked>>

Next == \/ Report \/ Return
        \/ \E c \in Conns : \/ Accept(c) \/ Post(c) \/ Enter(c) \/ Leave(c)
                           \/ Ask(c) \/ Remove(c) \/ Handle(c) \/ Fail(c)

Spec == Init /\ [][Next]_vars
=============================================================================
