---------------------------- MODULE SocketLoop ----------------------------
(***************************************************************************)
(* The table of socket contexts of one EventLoop (core/event_loop.cc) and  *)
(* the connections in it (core/tcp_server.cc, core/channel.cc): who owns a *)
(* Connection, when its descriptor is closed and its number used again,    *)
(* and what becomes of events and queued functions that name a descriptor  *)
(* by its number.                                                          *)
(*                                                                         *)
(* The queue of RunInLoop is the one the module EventLoop is proved to     *)
(* implement (TaskQueue): fed at its end, served in order between two      *)
(* batches of events.  With SingleReactor the acceptor runs on this loop   *)
(* and its AddSocketContext runs inline; otherwise it runs on the main     *)
(* loop's thread and posts.  The content of events and the interest set    *)
(* are the module Connection.                                              *)
(***************************************************************************)
EXTENDS Integers, Sequences, FiniteSets

CONSTANTS Conns,            \* the Connection objects ever created
          Fds,              \* descriptor numbers
          None,             \* no connection; an empty shared_ptr
          ForeignClose,     \* other threads call Channel::Close()
          CrossClose        \* a callback closes connections other than its own

ASSUME FdAssumption == Fds \subseteq Nat
ASSUME NoneAssumption == None \notin Conns \cup Fds
ASSUME ModeAssumption == {ForeignClose, CrossClose} \subseteq BOOLEAN

VARIABLES single,           \* no sub reactors: the acceptor shares this loop
          fd,               \* the descriptor of a connection, kept after its death
          accepted,         \* accepted and not yet given to AddSocketContext
          held,             \* connections the application keeps a shared_ptr of
          ctxs,             \* socket_ctxs_
          epoll,            \* the connections registered in the epoll set
          batch,            \* connections whose events are still to be handled
          cur,              \* cur_conn, while its handlers run
          todo,             \* the loop's queue of functions
          lpc,              \* where the loop is
          closing           \* history: closed by Close() after they were given to it

vars == <<single, fd, accepted, held, ctxs, epoll, batch, cur, todo, lpc, closing>>

Add(c) == <<"add", c>>
Remove(c) == <<"remove", c>>     \* names fd[c], a number; c only says whose it was
Tasks == {Add(c) : c \in Conns} \cup {Remove(c) : c \in Conns}

Queued == {todo[i] : i \in DOMAIN todo}

\* A connection lives while someone has a shared_ptr to it: the table, the
\* dispatching loop, the application, the acceptor, or a queued Add.  Its
\* descriptor is closed with the last of them (~Channel).
Open(c) == /\ fd[c] # None
           /\ \/ c \in held
              \/ c = cur
              \/ c = accepted
              \/ ctxs[fd[c]] = c
              \/ Add(c) \in Queued

\* The kernel hands out the lowest free number.
FreeFds == Fds \ {fd[c] : c \in {d \in Conns : Open(d)}}

Init == /\ single \in BOOLEAN
        /\ fd = [c \in Conns |-> None]
        /\ accepted = None
        /\ held = {}
        /\ ctxs = [f \in Fds |-> None]
        /\ epoll = {}
        /\ batch = {}
        /\ cur = None
        /\ todo = <<>>
        /\ lpc = "wait"
        /\ closing = {}

-----------------------------------------------------------------------------
(* The bodies of the functions given to RunInLoop.                         *)

\* The lambda of RemoveSocketContext(f).
DoRemove(f) == /\ ctxs' = [ctxs EXCEPT ![f] = None]
               /\ epoll' = epoll \ {ctxs[f]}

\* Mutant: the slot is not reset when epoll_ctl fails.
AddKeepingFailed(c) == \/ /\ ctxs[fd[c]] = None
                          /\ ctxs' = [ctxs EXCEPT ![fd[c]] = c]
                          /\ epoll' \in {epoll, epoll \cup {c}}
                       \/ UNCHANGED <<ctxs, epoll>>

\* The lambda of AddSocketContext(c); epoll_ctl may fail.
DoAdd(c) == \/ /\ ctxs[fd[c]] = None
               /\ ctxs' = [ctxs EXCEPT ![fd[c]] = c]
               /\ epoll' = epoll \cup {c}
            \/ UNCHANGED <<ctxs, epoll>>

\* Connection::Close() called on the loop's thread.
CloseInline(c) == /\ DoRemove(fd[c])
                  /\ closing' = IF ctxs[fd[c]] = c THEN closing \cup {c} ELSE closing

-----------------------------------------------------------------------------
(* The acceptor.                                                           *)

\* With one reactor the acceptor's event is one of the batch.
Accepting == single => lpc = "batch" /\ cur = None

\* accept() and make_shared<Connection>.
Accept(c) == /\ Accepting
             /\ accepted = None
             /\ fd[c] = None
             /\ \E f \in FreeFds : /\ \A g \in FreeFds : f <= g
                                   /\ fd' = [fd EXCEPT ![c] = f]
             /\ accepted' = c
             /\ UNCHANGED <<single, held, ctxs, epoll, batch, cur, todo, lpc, closing>>

\* AfterConnect may keep the connection.
AfterConnect == /\ accepted # None
                /\ held' = held \cup {accepted}
                /\ UNCHANGED <<single, fd, accepted, ctxs, epoll, batch, cur, todo, lpc, closing>>

\* Mutant: added by the acceptor's thread itself.
AddAtOnce == /\ accepted # None
             /\ accepted' = None
             /\ DoAdd(accepted)
             /\ UNCHANGED <<single, fd, held, batch, cur, todo, lpc, closing>>

\* AddSocketContext: runs at once on this loop's thread, else is posted.
AddAccepted == /\ accepted # None
               /\ accepted' = None
               /\ IF single
                  THEN DoAdd(accepted) /\ UNCHANGED todo
                  ELSE todo' = Append(todo, Add(accepted)) /\ UNCHANGED <<ctxs, epoll>>
               /\ UNCHANGED <<single, fd, held, batch, cur, lpc, closing>>

\* Mutant: removed by the calling thread itself.
CloseAtOnce(c) == /\ ForeignClose
                  /\ c \in held
                  /\ DoRemove(fd[c])
                  /\ UNCHANGED <<single, fd, accepted, held, batch, cur, todo, lpc, closing>>

\* Mutant: the removal jumps the queue.
CloseFirst(c) == /\ ForeignClose
                 /\ c \in held
                 /\ Remove(c) \notin Queued
                 /\ todo' = <<Remove(c)>> \o todo
                 /\ closing' = IF c = accepted THEN closing ELSE closing \cup {c}
                 /\ UNCHANGED <<single, fd, accepted, held, ctxs, epoll, batch, cur, lpc>>

\* Another thread that keeps the connection calls Close().  Bound: one of its
\* removals is queued at a time.
CloseFromOutside(c) == /\ ForeignClose
                       /\ c \in held
                       /\ Remove(c) \notin Queued
                       /\ todo' = Append(todo, Remove(c))
                       /\ closing' = IF c = accepted THEN closing ELSE closing \cup {c}
                       /\ UNCHANGED <<single, fd, accepted, held, ctxs, epoll, batch, cur, lpc>>

\* The application drops a shared_ptr (a session, a timer's closure).
Release(c) == /\ c \in held
              /\ held' = held \ {c}
              /\ UNCHANGED <<single, fd, accepted, ctxs, epoll, batch, cur, todo, lpc, closing>>

-----------------------------------------------------------------------------
(* The loop.                                                               *)

\* epoll_wait: some registered connections are ready, perhaps none (a wake-up,
\* a timer).
WaitReturns == /\ lpc = "wait"
               /\ batch' \in SUBSET epoll
               /\ lpc' = "batch"
               /\ UNCHANGED <<single, fd, accepted, held, ctxs, epoll, cur, todo, closing>>

\* The acceptor's own handler is over before the next event is looked at.
Handling == lpc = "batch" /\ cur = None /\ (single => accepted = None)

\* An event of c's descriptor: the table is asked by number, and what it says
\* is dereferenced.
Dispatch(c) == /\ Handling
               /\ c \in batch
               /\ batch' = batch \ {c}
               /\ cur' = ctxs[fd[c]]
               /\ lpc' = IF ctxs[fd[c]] = None THEN "crashed" ELSE "batch"
               /\ UNCHANGED <<single, fd, accepted, held, ctxs, epoll, todo, closing>>

\* EPOLLERR: removed, or skipped when errno still is EINTR from an earlier call.
DispatchError(c) == /\ Handling
                    /\ c \in batch
                    /\ batch' = batch \ {c}
                    /\ \/ UNCHANGED <<ctxs, epoll>>
                       \/ DoRemove(fd[c])
                    /\ UNCHANGED <<single, fd, accepted, held, cur, todo, lpc, closing>>

\* OnRecv keeps the connection ...
CallbackHolds == /\ cur # None
                 /\ held' = held \cup {cur}
                 /\ UNCHANGED <<single, fd, accepted, ctxs, epoll, batch, cur, todo, lpc, closing>>

\* ... or closes it, or another one it keeps.
CallbackCloses(c) == /\ cur # None
                     /\ \/ c = cur
                        \/ CrossClose /\ c \in held
                     /\ CloseInline(c)
                     /\ UNCHANGED <<single, fd, accepted, held, batch, cur, todo, lpc>>

\* The handlers returned: false from either removes the context.  (Updating the
\* interest set fails only for a descriptor that is not registered.)
HandlersReturn == /\ cur # None
                  /\ \/ UNCHANGED <<ctxs, epoll>>
                     \/ DoRemove(fd[cur])
                  /\ cur' = None
                  /\ UNCHANGED <<single, fd, accepted, held, batch, todo, lpc, closing>>

BatchDone == /\ Handling
             /\ batch = {}
             /\ lpc' = "run"
             /\ UNCHANGED <<single, fd, accepted, held, ctxs, epoll, batch, cur, todo, closing>>

\* DoPendingFuncs runs the head of the queue.
RunAdd(c) == /\ lpc = "run"
             /\ todo # <<>>
             /\ Head(todo) = Add(c)
             /\ todo' = Tail(todo)
             /\ DoAdd(c)
             /\ UNCHANGED <<single, fd, accepted, held, batch, cur, lpc, closing>>

RunRemove(c) == /\ lpc = "run"
                /\ todo # <<>>
                /\ Head(todo) = Remove(c)
                /\ todo' = Tail(todo)
                /\ DoRemove(fd[c])
                /\ UNCHANGED <<single, fd, accepted, held, batch, cur, lpc, closing>>

\* What was queued after the swap waits for the next pass.
FuncsDone == /\ lpc = "run"
             /\ lpc' = "timers"
             /\ UNCHANGED <<single, fd, accepted, held, ctxs, epoll, batch, cur, todo, closing>>

\* checkTimer: an expired timer closes a connection its closure keeps.
TimerCloses(c) == /\ lpc = "timers"
                  /\ c \in held
                  /\ CloseInline(c)
                  /\ UNCHANGED <<single, fd, accepted, held, batch, cur, todo, lpc>>

PassDone == /\ lpc = "timers"
            /\ lpc' = "wait"
            /\ UNCHANGED <<single, fd, accepted, held, ctxs, epoll, batch, cur, todo, closing>>

LoopNext == \/ WaitReturns \/ HandlersReturn \/ BatchDone \/ CallbackHolds
            \/ FuncsDone \/ PassDone
            \/ \E c \in Conns : \/ Dispatch(c) \/ DispatchError(c) \/ CallbackCloses(c)
                                \/ RunAdd(c) \/ RunRemove(c) \/ TimerCloses(c)

Next == \/ LoopNext
        \/ AfterConnect \/ AddAccepted
        \/ \E c \in Conns : Accept(c) \/ CloseFromOutside(c) \/ Release(c)

Spec == Init /\ [][Next]_vars

\* The loop's passes go on and every pass serves the queue (proved and checked
\* of EventLoop); the acceptor's callback returns.
FairSpec == /\ Spec
            /\ WF_vars(WaitReturns) /\ WF_vars(HandlersReturn) /\ WF_vars(BatchDone)
            /\ WF_vars(FuncsDone /\ todo = <<>>) /\ WF_vars(PassDone)
            /\ WF_vars(AddAccepted)
            /\ WF_vars(\E c \in Conns : Dispatch(c) \/ DispatchError(c))
            /\ SF_vars(\E c \in Conns : RunAdd(c) \/ RunRemove(c))

-----------------------------------------------------------------------------
(* Properties.                                                             *)

\* Type correctness.
TypeOK == /\ single \in BOOLEAN
          /\ fd \in [Conns -> Fds \cup {None}]
          /\ accepted \in Conns \cup {None}
          /\ held \in SUBSET Conns
          /\ ctxs \in [Fds -> Conns \cup {None}]
          /\ epoll \in SUBSET Conns
          /\ batch \in SUBSET Conns
          /\ cur \in Conns \cup {None}
          /\ todo \in Seq(Tasks)
          /\ lpc \in {"wait", "batch", "run", "timers", "crashed"}
          /\ closing \in SUBSET Conns

\* "Before a stream is removed its epoll watch is removed, so there is no need
\* to test for null" (event_loop.cc:49): an event not yet handled meets no empty
\* slot, and no other connection that got the number meanwhile.
EventsAreOwn == \A c \in batch : ctxs[fd[c]] = c

\* The table and the epoll set agree (AddSocketContext, RemoveSocketContext):
\* no connection is watched and unknown, or known and unwatched for ever.
WatchedIffKnown == epoll = {ctxs[f] : f \in Fds} \ {None}

\* A slot holds the connection of that number, and a connection that waits to
\* be added finds its slot free: AddSocketContext never returns silently
\* (event_loop.cc:91), which would close the connection.
SlotsAreOwn == /\ \A f \in Fds : ctxs[f] # None => fd[ctxs[f]] = f
               /\ \A c \in Conns : (c = accepted \/ Add(c) \in Queued)
                                     => ctxs[fd[c]] = None

\* The table, the epoll set and the descriptors tell the same.
TableAgrees == WatchedIffKnown /\ SlotsAreOwn

\* A queued removal, run late, finds the connection it was meant for, or none;
\* never one that got the number meanwhile.
HitsItsOwn(c) == (lpc = "run" /\ todo # <<>> /\ Head(todo) = Remove(c))
                    => ctxs[fd[c]] \in {c, None}

\* With sub reactors that holds: who gets the number is added behind it.
RemovesItsOwn == ~single => \A c \in Conns : HitsItsOwn(c)

\* How far a connection has come, which the code knows only by its number.
Stage(c) == CASE fd[c] = None -> "new"
              [] fd[c] # None /\ c = accepted -> "accepted"
              [] fd[c] # None /\ c # accepted /\ Add(c) \in Queued -> "queued"
              [] OTHER -> IF ctxs[fd[c]] = c THEN "known" ELSE "gone"

CT == INSTANCE ConnTable WITH Nobody <- None, stage <- [c \in Conns |-> Stage(c)],
                              ready <- batch, current <- cur,
                              asked <- {c \in Conns : Remove(c) \in Queued}

\* With sub reactors a table kept by numbers that are used again is as good as one
\* kept by the connections themselves: whatever is removed, added or dispatched by
\* number happens to the connection it was meant for.
ImplementsConnTable == /\ ~single => CT!Init
                       /\ [][~single => CT!Next \/ UNCHANGED CT!vars]_vars

\* A connection closed after it was added leaves the table.
CloseRemoves == \A c \in Conns : c \in closing ~> c \notin {ctxs[f] : f \in Fds}
=============================================================================
