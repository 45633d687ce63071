----------------------------- MODULE EventLoop -----------------------------
(***************************************************************************)
(* skyline::core::EventLoop (core/event_loop.{h,cc}): one thread, Loop,    *)
(* waits in epoll_wait and runs callbacks; any thread hands it functions   *)
(* through RunInLoop and ends it through Stop.  Modelled here: the loop's  *)
(* passes, the eventfd that wakes it, the queue pending_funcs_ with its    *)
(* mutex, tid_ and quit_, each at the granularity other threads can see.   *)
(* The table of socket contexts and what their handlers do is the module   *)
(* SocketLoop; here a socket event is a callback that may call RunInLoop   *)
(* and Stop.  tid_ is not atomic: a client that reads it while Loop()      *)
(* writes it reads an id that is not its own, whichever value it gets.     *)
(***************************************************************************)
EXTENDS Naturals, Sequences, FiniteSets

CONSTANTS Clients,      \* the threads that never run Loop()
          Loop,         \* the thread that calls Loop(), free to post before that
          NoThread,     \* std::thread::id(), and the holder of a free mutex
          MaxPosts,     \* bound: calls of RunInLoop per thread
          MaxAll        \* bound: calls of RunInLoop by all threads

Threads == Clients \cup {Loop}

ASSUME ThreadAssumption == Loop \notin Clients /\ NoThread \notin Threads
ASSUME MaxPostsAssumption == MaxPosts \in Nat

VARIABLES lpc,          \* where the loop thread is in Loop()
          batch,        \* events_ not handled yet in this pass
          tid,          \* tid_
          quit,         \* quit_
          wakeups,      \* the counter of wakeup_fd_
          mtx,          \* the thread that holds pending_mtx_
          pending,      \* pending_funcs_
          tmp,          \* the functions DoPendingFuncs took and has not run
          pc,           \* where a thread is in RunInLoop or Stop
          posted,       \* how many functions a thread has handed over
          ran           \* history: the functions run, in the order they finished

vars == <<lpc, batch, tid, quit, wakeups, mtx, pending, tmp, pc, posted, ran>>

\* The n-th function thread t hands to RunInLoop.
Task(t, n) == <<t, n>>
Tasks == {Task(t, n) : t \in Threads, n \in 1 .. MaxPosts}

\* One bit per kind of descriptor: several socket events are handled one
\* after the other while "socket" stays in the batch.
Events == {"wakeup", "socket"}

Init == /\ lpc = "off"
        /\ batch = {}
        /\ tid = NoThread
        /\ quit = FALSE
        /\ wakeups = 0
        /\ mtx = NoThread
        /\ pending = <<>>
        /\ tmp = <<>>
        /\ pc = [t \in Threads |-> "idle"]
        /\ posted = [t \in Threads |-> 0]
        /\ ran = <<>>

-----------------------------------------------------------------------------
(* RunInLoop and Stop, as any thread calls them.                           *)

\* The loop thread is inside a callback: a socket handler, a queued function,
\* a timer.
InCallback == \/ lpc = "batch" /\ "socket" \in batch
              \/ lpc = "run" /\ tmp # <<>>
              \/ lpc = "timers"

\* The loop thread calls the loop before Loop(), from a callback, or after it.
MayCall(t) == /\ pc[t] = "idle"
              /\ t = Loop => InCallback \/ lpc \in {"off", "done"}

Goto(t, loc) == pc' = [pc EXCEPT ![t] = loc]

\* Bound: every function handed over so far is run, taken or queued.
MorePosts == Len(ran) + Len(tmp) + Len(pending) < MaxAll

\* RunInLoop on the loop's own thread: the function runs at once, even when
\* older ones are queued.
RunInline(t) == /\ MayCall(t)
                /\ tid = t
                /\ posted[t] < MaxPosts
                /\ MorePosts
                /\ posted' = [posted EXCEPT ![t] = @ + 1]
                /\ ran' = Append(ran, Task(t, posted[t] + 1))
                /\ UNCHANGED <<lpc, batch, tid, quit, wakeups, mtx, pending, tmp, pc>>

\* Mutant: push_back without Wakeup().
PushSilently(t) == /\ MayCall(t)
                   /\ tid # t
                   /\ mtx = NoThread
                   /\ posted[t] < MaxPosts
                   /\ MorePosts
                   /\ mtx' = t
                   /\ posted' = [posted EXCEPT ![t] = @ + 1]
                   /\ pending' = Append(pending, Task(t, posted[t] + 1))
                   /\ Goto(t, "unlock")
                   /\ UNCHANGED <<lpc, batch, tid, quit, wakeups, tmp, ran>>

\* RunInLoop on another thread: lock, push_back ...
Push(t) == /\ MayCall(t)
           /\ tid # t
           /\ mtx = NoThread
           /\ posted[t] < MaxPosts
           /\ MorePosts
           /\ mtx' = t
           /\ posted' = [posted EXCEPT ![t] = @ + 1]
           /\ pending' = Append(pending, Task(t, posted[t] + 1))
           /\ Goto(t, "wake")
           /\ UNCHANGED <<lpc, batch, tid, quit, wakeups, tmp, ran>>

\* ... Wakeup() under the lock ...
Wake(t) == /\ pc[t] = "wake"
           /\ wakeups' = wakeups + 1
           /\ Goto(t, "unlock")
           /\ UNCHANGED <<lpc, batch, tid, quit, mtx, pending, tmp, posted, ran>>

\* ... and the lock_guard releases it.
Unlock(t) == /\ pc[t] = "unlock"
             /\ mtx' = NoThread
             /\ Goto(t, "idle")
             /\ UNCHANGED <<lpc, batch, tid, quit, wakeups, pending, tmp, posted, ran>>

\* Stop: nothing when quit_ is already set.
StopTest(t) == /\ MayCall(t)
               /\ ~quit
               /\ Goto(t, "quit")
               /\ UNCHANGED <<lpc, batch, tid, quit, wakeups, mtx, pending, tmp, posted, ran>>

\* Mutant: Stop without Wakeup().
StopSilently(t) == /\ pc[t] = "quit"
                   /\ quit' = TRUE
                   /\ Goto(t, "idle")
                   /\ UNCHANGED <<lpc, batch, tid, wakeups, mtx, pending, tmp, posted, ran>>

StopQuit(t) == /\ pc[t] = "quit"
               /\ quit' = TRUE
               /\ Goto(t, "stopWake")
               /\ UNCHANGED <<lpc, batch, tid, wakeups, mtx, pending, tmp, posted, ran>>

StopWake(t) == /\ pc[t] = "stopWake"
               /\ wakeups' = wakeups + 1
               /\ Goto(t, "idle")
               /\ UNCHANGED <<lpc, batch, tid, quit, mtx, pending, tmp, posted, ran>>

RunInLoop(t) == RunInline(t) \/ Push(t) \/ Wake(t) \/ Unlock(t)
Stop(t) == StopTest(t) \/ StopQuit(t) \/ StopWake(t)

-----------------------------------------------------------------------------
(* Loop().                                                                 *)

\* The loop thread is not inside a call of its own.
At(loc) == lpc = loc /\ pc[Loop] = "idle"

Enter == /\ At("off")
         /\ tid' = Loop
         /\ lpc' = "test"
         /\ UNCHANGED <<batch, quit, wakeups, mtx, pending, tmp, pc, posted, ran>>

\* while (!quit_)
TestQuit == /\ At("test")
            /\ lpc' = IF quit THEN "done" ELSE "wait"
            /\ UNCHANGED <<batch, tid, quit, wakeups, mtx, pending, tmp, pc, posted, ran>>

\* epoll_wait reports ready descriptors; with more than kMaxEvents of them
\* ready the wakeup descriptor may be left for the next pass.
WaitEvents == /\ At("wait")
              /\ batch' \in SUBSET Events \ {{}}
              /\ "wakeup" \in batch' => wakeups > 0
              /\ lpc' = "batch"
              /\ UNCHANGED <<tid, quit, wakeups, mtx, pending, tmp, pc, posted, ran>>

\* The timeout of the first timer passed with nothing ready.
WaitTimeout == /\ At("wait")
               /\ wakeups = 0
               /\ lpc' = "batch"
               /\ UNCHANGED <<batch, tid, quit, wakeups, mtx, pending, tmp, pc, posted, ran>>

\* A signal with nothing ready: EINTR, continue.
WaitInterrupted == /\ At("wait")
                   /\ wakeups = 0
                   /\ lpc' = "test"
                   /\ UNCHANGED <<batch, tid, quit, wakeups, mtx, pending, tmp, pc, posted, ran>>

\* Any other error: break.
WaitFails == /\ At("wait")
             /\ lpc' = "done"
             /\ UNCHANGED <<batch, tid, quit, wakeups, mtx, pending, tmp, pc, posted, ran>>

\* eventfd_read takes the whole counter.
ReadWakeup == /\ At("batch")
              /\ "wakeup" \in batch
              /\ wakeups' = 0
              /\ batch' = batch \ {"wakeup"}
              /\ UNCHANGED <<lpc, tid, quit, mtx, pending, tmp, pc, posted, ran>>

\* The last socket event of the batch has been handled.
SocketsHandled == /\ At("batch")
                  /\ "socket" \in batch
                  /\ batch' = batch \ {"socket"}
                  /\ UNCHANGED <<lpc, tid, quit, wakeups, mtx, pending, tmp, pc, posted, ran>>

\* Mutant: the queue is copied, not swapped.
CopyPending == /\ At("batch")
               /\ batch = {}
               /\ mtx = NoThread
               /\ tmp' = pending
               /\ lpc' = "run"
               /\ UNCHANGED <<batch, tid, quit, wakeups, mtx, pending, pc, posted, ran>>

\* DoPendingFuncs: lock, swap, unlock.
SwapPending == /\ At("batch")
               /\ batch = {}
               /\ mtx = NoThread
               /\ tmp' = pending
               /\ pending' = <<>>
               /\ lpc' = "run"
               /\ UNCHANGED <<batch, tid, quit, wakeups, mtx, pc, posted, ran>>

\* Mutant: the newest function first.
RunNewest == /\ At("run")
             /\ tmp # <<>>
             /\ ran' = Append(ran, tmp[Len(tmp)])
             /\ tmp' = SubSeq(tmp, 1, Len(tmp) - 1)
             /\ UNCHANGED <<lpc, batch, tid, quit, wakeups, mtx, pending, pc, posted>>

RunPending == /\ At("run")
              /\ tmp # <<>>
              /\ ran' = Append(ran, Head(tmp))
              /\ tmp' = Tail(tmp)
              /\ UNCHANGED <<lpc, batch, tid, quit, wakeups, mtx, pending, pc, posted>>

PendingDone == /\ At("run")
               /\ tmp = <<>>
               /\ lpc' = "timers"
               /\ UNCHANGED <<batch, tid, quit, wakeups, mtx, pending, tmp, pc, posted, ran>>

\* timer_.checkTimer(): its callbacks are calls of RunInLoop and Stop above.
CheckTimer == /\ At("timers")
              /\ lpc' = "test"
              /\ UNCHANGED <<batch, tid, quit, wakeups, mtx, pending, tmp, pc, posted, ran>>

Pass == \/ TestQuit \/ WaitFails \/ ReadWakeup \/ SocketsHandled
        \/ SwapPending \/ RunPending \/ PendingDone \/ CheckTimer

LoopStep == Enter \/ Pass \/ WaitEvents \/ WaitTimeout \/ WaitInterrupted

Next == LoopStep \/ \E t \in Threads : RunInLoop(t) \/ Stop(t)

Spec == Init /\ [][Next]_vars

\* The loop thread is scheduled; a call once begun is finished (nobody is
\* obliged to begin one); epoll_wait reports an eventfd that stays readable.
\* No timer, socket event or error is promised.
Fairness == /\ WF_vars(Enter)
            /\ WF_vars(\/ TestQuit \/ ReadWakeup \/ SocketsHandled \/ SwapPending
                       \/ RunPending \/ PendingDone \/ CheckTimer)
            /\ WF_vars(WaitEvents /\ wakeups > 0)
            /\ \A t \in Threads : WF_vars(Wake(t) \/ Unlock(t) \/ StopQuit(t) \/ StopWake(t))

FairSpec == Spec /\ Fairness

-----------------------------------------------------------------------------
(* Properties.                                                             *)

\* Type correctness of the loop's state.
TypeOK == /\ lpc \in {"off", "test", "wait", "batch", "run", "timers", "done"}
          /\ batch \in SUBSET Events
          /\ tid \in {NoThread, Loop}
          /\ quit \in BOOLEAN
          /\ wakeups \in Nat
          /\ mtx \in Threads \cup {NoThread}
          /\ pending \in Seq(Tasks)
          /\ tmp \in Seq(Tasks)
          /\ pc \in [Threads -> {"idle", "wake", "unlock", "quit", "stopWake"}]
          /\ posted \in [Threads -> 0 .. MaxPosts]
          /\ ran \in Seq(Tasks)

\* No wake-up is lost: whenever the loop is not already on its way to
\* DoPendingFuncs, a queued function is announced by the eventfd or its caller
\* is about to write it.  A read of the eventfd (event_loop.cc:47) that
\* swallowed the announcement of a function swapped out too early would leave
\* the loop asleep over a full queue.
PostsAnnounced ==
    pending # <<>> /\ lpc # "batch" => wakeups > 0 \/ \E t \in Threads : pc[t] = "wake"

\* Stop cannot be missed: a loop blocked in epoll_wait after quit_ was set has
\* an unread wake-up, or one is about to be written (event_loop.cc:79).
QuitAnnounced ==
    quit /\ lpc = "wait" => wakeups > 0 \/ \E t \in Threads : pc[t] = "stopWake"

\* Every function handed over is in exactly one place, once: run, swapped out
\* for running, or queued (RunInLoop and DoPendingFuncs, event_loop.cc:137).
Line == ran \o tmp \o pending
Handed == {f \in Tasks : f[2] <= posted[f[1]]}
ExactlyOnce ==
    /\ {Line[i] : i \in DOMAIN Line} = Handed
    /\ \A i, j \in DOMAIN Line : Line[i] = Line[j] => i = j

\* A thread other than the loop's gets its functions run in the order it
\* handed them over.  (The loop thread does not: what it queued before Loop()
\* is overtaken by what it runs inline, event_loop.cc:138.)
ClientOrder ==
    \A i, j \in DOMAIN Line :
        i < j /\ Line[i][1] = Line[j][1] /\ Line[i][1] \in Clients
            => Line[i][2] < Line[j][2]

\* The abstract queue this loop implements.
TQ == INSTANCE TaskQueue WITH todo <- tmp \o pending, closed <- lpc = "done"

\* RunInLoop keeps the promise of TaskQueue, fairness included: every queued
\* function is run, in its turn, unless the loop ends first.
ImplementsTaskQueue == TQ!FairSpec

\* A loop that was told to stop ends.
StopEnds == quit ~> lpc = "done"
=============================================================================
