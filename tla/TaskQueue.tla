----------------------------- MODULE TaskQueue -----------------------------
(***************************************************************************)
(* What EventLoop::RunInLoop promises, without threads, mutex or eventfd:  *)
(* a function handed over is queued once and the queue is served in order, *)
(* until the loop is over.  The owner of the queue runs its own functions  *)
(* at once, without queueing them.                                         *)
(***************************************************************************)
EXTENDS Naturals, Sequences

CONSTANT Tasks          \* the functions that may be handed over

VARIABLES todo,         \* the functions handed over and not yet run, oldest first
          ran,          \* the functions run, in the order they finished
          closed        \* no queued function is run any more

vars == <<todo, ran, closed>>

\* The elements of a sequence.
Elems(s) == {s[i] : i \in DOMAIN s}

Fresh(f) == f \notin Elems(ran) \cup Elems(todo)

Init == todo = <<>> /\ ran = <<>> /\ closed = FALSE

Post(f) == /\ Fresh(f)
           /\ todo' = Append(todo, f)
           /\ UNCHANGED <<ran, closed>>

RunNext == /\ ~closed
           /\ todo # <<>>
           /\ ran' = Append(ran, Head(todo))
           /\ todo' = Tail(todo)
           /\ UNCHANGED closed

RunNow(f) == /\ Fresh(f)
             /\ ran' = Append(ran, f)
             /\ UNCHANGED <<todo, closed>>

Close == /\ ~closed
         /\ closed' = TRUE
         /\ UNCHANGED <<todo, ran>>

Next == RunNext \/ Close \/ \E f \in Tasks : Post(f) \/ RunNow(f)

Spec == Init /\ [][Next]_vars

\* An open queue is served.
FairSpec == Spec /\ WF_vars(RunNext)
=============================================================================
