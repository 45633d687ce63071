------------------------------- MODULE Reactor -------------------------------
(***************************************************************************)
(* Reactor and the listening side of TcpServer (core/reactor.cc and        *)
(* core/tcp_server.cc): the threads of the sub reactors, who ends and who  *)
(* joins them, and the acceptor on the main loop.                          *)
(*                                                                         *)
(* Of the loops it is used that a stopped one ends (EventLoop's StopEnds)  *)
(* and that a pass takes the queue under pending_mtx_.  The main thread    *)
(* makes the Reactor, listens, runs Start and destroys the Reactor when    *)
(* Start has returned, as the examples do.                                 *)
(***************************************************************************)
EXTENDS Integers, Sequences

CONSTANT N                  \* how many sub reactors

ASSUME NAssumption == N \in Nat

Subs == 1 .. N
Loops == 0 .. N             \* 0 is main_reactor

\* Who calls Stop(): a callback of the main loop; another thread, once the main
\* loop runs, that the application joins before it destroys the Reactor; a thread
\* that it does not, or that comes too early; a signal handler that interrupts the
\* main thread; a callback, or a handler, on the thread of the first sub reactor.
Callers == {"nobody", "callback", "thread", "stray", "signal", "sub"}

VARIABLES caller,           \* which of them it is
          mpc,              \* where the main thread is
          started,          \* the size of sub_threads_
          spc,              \* where the sub reactors' threads are
          quit,             \* quit_ of each loop
          owner,            \* the sub reactor whose pending_mtx_ the main thread holds, or 0
          turn,             \* cur_reactor_id_, modulo the number of loops
          stop,             \* the calls of Stop(): the caller's and the destructor's
          joined,           \* the threads that were joined
          terminated,       \* std::terminate was called
          inbox,            \* what is queued on the main loop about the acceptor
          acceptor,         \* is it in the main loop's table?
          unlistened        \* StopListen was called

vars == <<caller, mpc, started, spc, quit, owner, turn, stop, joined, terminated,
          inbox, acceptor, unlistened>>
threads == <<caller, mpc, started, spc, quit, owner, turn, stop, joined, terminated>>
listening == <<inbox, acceptor, unlistened>>

Init == /\ caller \in Callers
        /\ mpc = "listen"
        /\ started = 0
        /\ spc = [s \in Subs |-> "none"]
        /\ quit = [l \in Loops |-> FALSE]
        /\ owner = 0
        /\ turn = 0
        /\ stop = [x \in {"caller", "destructor"} |-> [at |-> "idle", next |-> 1]]
        /\ joined = {}
        /\ terminated = FALSE
        /\ inbox = <<>> /\ acceptor = "none" /\ unlistened = FALSE

\* A Stop() under way keeps its thread from anything else.
Under(x) == stop[x].at \notin {"idle", "done"}
MainFree == ~terminated /\ ~(caller \in {"callback", "signal"} /\ Under("caller"))
SubFree(s) == ~terminated /\ ~(caller = "sub" /\ s = 1 /\ Under("caller"))
At(p) == mpc = p /\ MainFree

-----------------------------------------------------------------------------
(* The main thread: StartListen, Start, the loop, the destructor.          *)

StartListen == /\ At("listen")
               /\ inbox' = Append(inbox, "add")
               /\ mpc' = "start"
               /\ UNCHANGED <<caller, started, spc, quit, owner, turn, stop, joined, terminated,
                              acceptor, unlistened>>

StartSub == /\ At("start")
            /\ started < N
            /\ started' = started + 1
            /\ spc' = [spc EXCEPT ![started'] = "test"]
            /\ UNCHANGED <<caller, mpc, quit, owner, turn, stop, joined, terminated, listening>>

StartMain == /\ At("start")
             /\ started = N
             /\ mpc' = "test"
             /\ UNCHANGED <<caller, started, spc, quit, owner, turn, stop, joined, terminated,
                            listening>>

\* while (!quit_)
MainTest == /\ At("test")
            /\ mpc' = IF quit[0] THEN "ended" ELSE "pass"
            /\ UNCHANGED <<caller, started, spc, quit, owner, turn, stop, joined, terminated,
                           listening>>

\* NextLoop, and AddSocketContext on that loop: its mutex is taken.
Accept == /\ At("pass")
          /\ acceptor = "watched"
          /\ owner = 0
          /\ N > 0
          /\ turn' = (turn + 1) % N
          /\ owner' = turn + 1
          /\ UNCHANGED <<caller, mpc, started, spc, quit, stop, joined, terminated, listening>>

Posted == /\ At("pass")
          /\ owner # 0
          /\ owner' = 0
          /\ UNCHANGED <<caller, mpc, started, spc, quit, turn, stop, joined, terminated, listening>>

\* accept() fails, for whatever reason: the acceptor is removed (tcp_server.cc:63).
AcceptFails == /\ At("pass")
               /\ acceptor = "watched"
               /\ owner = 0
               /\ acceptor' = "removed"
               /\ UNCHANGED <<threads, inbox, unlistened>>

\* Mutant: what was queued first has the last word.
PassEndsFirstWins ==
    /\ At("pass")
    /\ owner = 0
    /\ acceptor' = IF inbox = <<>> THEN acceptor
                   ELSE IF inbox[1] = "add" THEN "watched"
                   ELSE "removed"
    /\ inbox' = <<>>
    /\ mpc' = "test"
    /\ UNCHANGED <<caller, started, spc, quit, owner, turn, stop, joined, terminated, unlistened>>

\* The end of a pass: DoPendingFuncs.
PassEnds == /\ At("pass")
            /\ owner = 0
            /\ acceptor' = IF inbox = <<>> THEN acceptor
                           ELSE IF inbox[Len(inbox)] = "add" THEN "watched"
                           ELSE "removed"
            /\ inbox' = <<>>
            /\ mpc' = "test"
            /\ UNCHANGED <<caller, started, spc, quit, owner, turn, stop, joined, terminated,
                           unlistened>>

\* epoll_wait fails: Loop() returns though nobody stopped it.
LoopFails == /\ At("pass")
             /\ owner = 0
             /\ mpc' = "ended"
             /\ UNCHANGED <<caller, started, spc, quit, owner, turn, stop, joined, terminated,
                            listening>>

\* Start has returned; the application waits for a thread it knows of.
Destroy == /\ At("ended")
           /\ caller = "thread" => ~Under("caller")
           /\ mpc' = "destroy"
           /\ UNCHANGED <<caller, started, spc, quit, owner, turn, stop, joined, terminated,
                          listening>>

\* The members go: a std::thread that was not joined ends the program.
Destroyed == /\ At("destroy")
             /\ stop["destructor"].at = "done"
             /\ IF 1 .. started \subseteq joined THEN mpc' = "destroyed" /\ UNCHANGED terminated
                ELSE terminated' = TRUE /\ UNCHANGED mpc
             /\ UNCHANGED <<caller, started, spc, quit, owner, turn, stop, joined, listening>>

-----------------------------------------------------------------------------
(* The threads of the sub reactors.                                        *)

SubTest(s) == /\ SubFree(s)
              /\ spc[s] = "test"
              /\ spc' = [spc EXCEPT ![s] = IF quit[s] THEN "ended" ELSE "wait"]
              /\ UNCHANGED <<caller, mpc, started, quit, owner, turn, stop, joined, terminated,
                             listening>>

SubWakes(s) == /\ SubFree(s)
               /\ spc[s] = "wait"
               /\ spc' = [spc EXCEPT ![s] = "lock"]
               /\ UNCHANGED <<caller, mpc, started, quit, owner, turn, stop, joined, terminated,
                              listening>>

\* DoPendingFuncs takes the mutex.
SubServes(s) == /\ SubFree(s)
                /\ spc[s] = "lock"
                /\ owner # s
                /\ spc' = [spc EXCEPT ![s] = "test"]
                /\ UNCHANGED <<caller, mpc, started, quit, owner, turn, stop, joined, terminated,
                               listening>>

-----------------------------------------------------------------------------
(* Reactor::Stop.                                                          *)

\* When a caller may come; the destructor calls it too.
Comes == CASE caller = "callback" -> mpc = "pass" /\ owner = 0
           [] caller = "thread" -> mpc \in {"test", "pass"}
           [] caller = "stray" -> mpc # "destroyed"
           [] caller = "signal" -> mpc # "destroyed"
           [] caller = "sub" -> spc[1] = "lock"
           [] OTHER -> FALSE

Calls(x) == /\ ~terminated
            /\ IF x = "caller" THEN Comes ELSE At("destroy")

Goes(x, at, next) == stop' = [stop EXCEPT ![x] = [at |-> at, next |-> next]]

StopTest(x) == /\ Calls(x)
               /\ stop[x].at = "idle"
               /\ Goes(x, IF quit[0] THEN "done" ELSE "main", 1)
               /\ UNCHANGED <<caller, mpc, started, spc, quit, owner, turn, joined, terminated,
                              listening>>

StopMain(x) == /\ ~terminated
               /\ stop[x].at = "main"
               /\ quit' = [quit EXCEPT ![0] = TRUE]
               /\ Goes(x, "subs", 1)
               /\ UNCHANGED <<caller, mpc, started, spc, owner, turn, joined, terminated, listening>>

\* Mutant: the sub reactors are forgotten.
StopNoSubs(x) == /\ ~terminated
                 /\ stop[x].at = "subs"
                 /\ Goes(x, "join", 1)
                 /\ UNCHANGED <<caller, mpc, started, spc, quit, owner, turn, joined, terminated,
                                listening>>

StopSubs(x) == /\ ~terminated
               /\ stop[x].at = "subs"
               /\ IF stop[x].next \in Subs
                  THEN /\ quit' = [quit EXCEPT ![stop[x].next] = TRUE]
                       /\ Goes(x, "subs", stop[x].next + 1)
                  ELSE Goes(x, "join", 1) /\ UNCHANGED quit
               /\ UNCHANGED <<caller, mpc, started, spc, owner, turn, joined, terminated, listening>>

\* t.join() of a thread that was joined before, or by that thread itself, throws.
JoinThrows(x) == /\ ~terminated
                 /\ stop[x].at = "join"
                 /\ stop[x].next <= started
                 /\ stop[x].next \in joined \/ (caller = "sub" /\ x = "caller" /\ stop[x].next = 1)
                 /\ terminated' = TRUE
                 /\ UNCHANGED <<caller, mpc, started, spc, quit, owner, turn, stop, joined, listening>>

\* Mutant: the threads are detached.
DetachInstead(x) == /\ ~terminated
                    /\ stop[x].at = "join"
                    /\ stop[x].next <= started
                    /\ joined' = joined \cup {stop[x].next}
                    /\ Goes(x, "join", stop[x].next + 1)
                    /\ UNCHANGED <<caller, mpc, started, spc, quit, owner, turn, terminated, listening>>

Join(x) == /\ ~terminated
           /\ stop[x].at = "join"
           /\ stop[x].next <= started
           /\ spc[stop[x].next] = "ended"
           /\ stop[x].next \notin joined
           /\ joined' = joined \cup {stop[x].next}
           /\ Goes(x, "join", stop[x].next + 1)
           /\ UNCHANGED <<caller, mpc, started, spc, quit, owner, turn, terminated, listening>>

\* Mutant: Stop() returns without joining.
ReturnAtOnce(x) == /\ ~terminated
                   /\ stop[x].at = "join"
                   /\ Goes(x, "done", 1)
                   /\ UNCHANGED <<caller, mpc, started, spc, quit, owner, turn, joined, terminated,
                                  listening>>

StopReturns(x) == /\ ~terminated
                  /\ stop[x].at = "join"
                  /\ stop[x].next > started
                  /\ Goes(x, "done", 1)
                  /\ UNCHANGED <<caller, mpc, started, spc, quit, owner, turn, joined, terminated,
                                 listening>>

Stop(x) == StopTest(x) \/ StopMain(x) \/ StopSubs(x) \/ JoinThrows(x) \/ Join(x) \/ StopReturns(x)

-----------------------------------------------------------------------------
\* Mutant: the acceptor is looked for at once.
StopListenAtOnce == /\ mpc # "listen"
                    /\ ~unlistened
                    /\ unlistened' = TRUE
                    /\ acceptor' = IF acceptor = "watched" THEN "removed" ELSE acceptor
                    /\ UNCHANGED <<threads, inbox>>

\* From another thread, or before Start: the removal is queued.
StopListen == /\ mpc # "listen"
              /\ ~unlistened
              /\ unlistened' = TRUE
              /\ inbox' = Append(inbox, "remove")
              /\ UNCHANGED <<threads, acceptor>>

Main == StartListen \/ StartSub \/ StartMain \/ MainTest \/ Accept \/ Posted \/ PassEnds \/ Destroy
        \/ Destroyed
Sub(s) == SubTest(s) \/ SubWakes(s) \/ SubServes(s)

Next == \/ Main \/ AcceptFails \/ LoopFails \/ StopListen
        \/ \E s \in Subs : Sub(s)
        \/ \E x \in {"caller", "destructor"} : Stop(x)

Spec == Init /\ [][Next]_vars

\* The main thread and a Stop() that has begun go on; passes end; a stopped loop is
\* woken (EventLoop).  Nobody need call Stop().
Fairness == /\ WF_vars(Main) /\ SF_vars(PassEnds)
            /\ \A s \in Subs : WF_vars(SubTest(s)) /\ WF_vars(SubServes(s))
                               /\ WF_vars(quit[s] /\ SubWakes(s))
            /\ WF_vars(Under("caller") /\ Stop("caller"))
            /\ WF_vars(Stop("destructor"))

FairSpec == Spec /\ Fairness

-----------------------------------------------------------------------------
(* Properties.                                                             *)

TypeOK == /\ caller \in Callers
          /\ mpc \in {"listen", "start", "test", "pass", "ended", "destroy", "destroyed"}
          /\ started \in 0 .. N
          /\ spc \in [Subs -> {"none", "test", "wait", "lock", "ended"}]
          /\ quit \in [Loops -> BOOLEAN]
          /\ owner \in Loops
          /\ turn \in Loops
          /\ stop \in [{"caller", "destructor"} ->
                        [at : {"idle", "main", "subs", "join", "done"}, next : 1 .. N + 1]]
          /\ joined \subseteq Subs
          /\ {terminated, unlistened} \subseteq BOOLEAN
          /\ inbox \in Seq({"add", "remove"})
          /\ acceptor \in {"none", "watched", "removed"}

\* Where Stop() may be called: on the main loop's thread outside of its locks, or on
\* a thread the application waits for, once the loops run.  Not so in a signal
\* handler, which examples/http_test.cc calls it in.
Orderly == caller \in {"nobody", "callback", "thread"}

\* No thread is joined twice or by itself, and none is left to the destructor: the
\* program is not terminated by its own end, whether the main loop was stopped
\* or failed.
EndsInPeace == Orderly => ~terminated

\* Stop() returns when the threads of the sub reactors have ended, not before.
StopMeansEnded == (Orderly /\ stop["caller"].at = "done") => \A s \in 1 .. started : spc[s] = "ended"

\* Once Stop() is called, Start returns and the Reactor can be destroyed: nobody
\* waits for anybody who waits.
ServerEnds == (Orderly /\ stop["caller"].at # "idle") ~> mpc = "destroyed"

\* StopListen is never overtaken by StartListen's own addition, though both may wait
\* on a loop that does not run yet, nor by an acceptor whose accept() fails: either the
\* removal is the last word in the queue, or the acceptor is gone, or was never there.
RemovalIsLast == unlistened => IF inbox = <<>> THEN acceptor # "watched"
                                               ELSE inbox[Len(inbox)] = "remove"

\* StopListen holds however early it is called: in the end, and then for ever, the
\* acceptor is not in the loop, unless that has ended.
Unlistened == acceptor # "watched" \/ mpc \in {"ended", "destroy", "destroyed"}
StaysUnlistened == (Orderly /\ unlistened) ~> []Unlistened
==============================================================================
