------------------------------ MODULE LogPipe ------------------------------
(***************************************************************************)
(* What an asynchronous appender promises, without buffers, mutex or       *)
(* pointers: every message is taken into one pipe or refused for its size; *)
(* the pipe comes out at its other end, in pieces of any length, until it  *)
(* is closed.                                                              *)
(***************************************************************************)
EXTENDS Naturals, Sequences

CONSTANTS Loggers,      \* who logs
          Messages,     \* [from, n, size]: the n-th message of a logger
          Cap           \* what a message may take at most

VARIABLES sent,         \* how many messages a logger has logged
          pipe,         \* the messages taken and not written, oldest first
          file,         \* the messages written
          refused,      \* the messages not taken
          ended         \* nothing is written any more

vars == <<sent, pipe, file, refused, ended>>

Init == /\ sent = [t \in Loggers |-> 0]
        /\ pipe = <<>> /\ file = <<>>
        /\ refused = {}
        /\ ended = FALSE

\* The message is its logger's next.
Comes(m) == /\ m.n = sent[m.from] + 1
            /\ sent' = [sent EXCEPT ![m.from] = m.n]

Accept(m) == /\ Comes(m)
             /\ pipe' = Append(pipe, m)
             /\ UNCHANGED <<file, refused, ended>>

Refuse(m) == /\ Comes(m)
             /\ m.size > Cap
             /\ refused' = refused \cup {m}
             /\ UNCHANGED <<pipe, file, ended>>

\* The first n messages of the pipe are written, and no other.
HandOver(n) == /\ ~ended
               /\ file' = file \o SubSeq(pipe, 1, n)
               /\ pipe' = SubSeq(pipe, n + 1, Len(pipe))
               /\ UNCHANGED <<sent, refused, ended>>

End == /\ ~ended
       /\ ended' = TRUE
       /\ UNCHANGED <<sent, pipe, file, refused>>

Next == \/ \E m \in Messages : Accept(m) \/ Refuse(m)
        \/ \E n \in 1 .. Len(pipe) : HandOver(n)
        \/ End

Spec == Init /\ [][Next]_vars
=============================================================================
