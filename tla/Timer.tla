------------------------------- MODULE Timer -------------------------------
(***************************************************************************)
(* skyline::core::Timer (core/timer.{h,cc}), the timers of one event loop, *)
(* with the loop that sleeps until the first of them (event_loop.cc:36)    *)
(* and runs them (event_loop.cc:75).  The methods are critical sections of *)
(* _mtx, so each is a step; the callbacks of checkTimer run after the lock *)
(* is released, and any thread may add and delete timers between two of    *)
(* them.  EventLoop::AddTimer does not wake the loop.  The acceptor's      *)
(* thread does: it adds the timer of a new connection to the loop the      *)
(* connection is given to, and then hands the connection over              *)
(* (tcp_server.cc:161-162).  getID counts for all loops of the process     *)
(* under no common lock.                                                   *)
(***************************************************************************)
EXTENDS Naturals, Sequences, FiniteSets

CONSTANTS Delays,       \* the msec of addTimer, in ticks
          MaxNow,       \* bound: the last tick of the clock
          MaxCalls      \* bound: calls of addTimer on this loop

ASSUME DelayAssumption == Delays \subseteq Nat
ASSUME BoundAssumption == MaxNow \in Nat /\ MaxCalls \in Nat

VARIABLES now,          \* what getTick returns
          single,       \* the process has no other loop
          counter,      \* getID's static id
          timers,       \* _timers
          ids,          \* _ids: the expiry of the node last emplaced for an id
          lpc,          \* where the loop thread is
          batch,        \* the nodes moved to funcs and not run to their end
          deadline,     \* when epoll_wait returns at the latest: {} is never
          wakeups,      \* the loop's eventfd is readable
          acceptor,     \* the acceptor has added a timer and not handed over yet
          unheard,      \* history: the calls by other threads while the loop sleeps
          calls         \* history: the calls of addTimer, with what became of them

vars == <<now, single, counter, timers, ids, lpc, batch, deadline, wakeups, acceptor,
          unheard, calls>>
clock == <<now, single>>
others == <<acceptor, unheard>>

Nodes == [expire : Nat, id : Nat, call : 1 .. MaxCalls]
Calls == [id : Nat, msec : Delays, again : BOOLEAN, state : {"set", "fired", "cancelled"}]

\* The order of _timers.
Before(m, n) == \/ m.expire < n.expire
                \/ m.expire = n.expire /\ m.id < n.id

Init == /\ now = 0
        /\ single \in BOOLEAN
        /\ counter = 0
        /\ timers = {}
        /\ ids = <<>>
        /\ lpc = "pass"
        /\ batch = <<>>
        /\ deadline = {}
        /\ wakeups = FALSE
        /\ acceptor = "idle"
        /\ unheard = {}
        /\ calls = <<>>

Tick == /\ now < MaxNow
        /\ now' = now + 1
        /\ UNCHANGED <<single, counter, timers, ids, lpc, batch, deadline, wakeups, others, calls>>

\* getID.  Another loop's getID runs under another lock, and ++id is a read and
\* a later write: the write puts back the count, by any number of our own calls.
NextIds == IF single THEN {counter + 1} ELSE 1 .. counter + 1

-----------------------------------------------------------------------------
(* addTimer and delTimer.                                                  *)

\* A second node with the same key is not inserted.
Emplaced(n) == IF \E m \in timers : m.expire = n.expire /\ m.id = n.id
               THEN timers
               ELSE timers \cup {n}

Recorded(n) == [i \in DOMAIN ids \cup {n.id} |-> IF i = n.id THEN n.expire ELSE ids[i]]

AddTimer(msec, again) ==
    /\ Len(calls) < MaxCalls
    /\ now + msec <= MaxNow
    /\ \E id \in NextIds :
       LET node == [expire |-> now + msec, id |-> id, call |-> Len(calls) + 1]
       IN  /\ counter' = id
           /\ timers' = Emplaced(node)
           /\ ids' = Recorded(node)
           /\ calls' = Append(calls, [id |-> node.id, msec |-> msec, again |-> again,
                                      state |-> "set"])
    /\ UNCHANGED <<clock, lpc, batch, deadline, wakeups>>

\* The loop thread runs handlers, posted functions or a timer's callback.
InLoop == lpc \in {"pass", "callback"}

LoopAdds == \E msec \in Delays, again \in BOOLEAN :
    InLoop /\ AddTimer(msec, again) /\ UNCHANGED others

AcceptorAdds == \E msec \in Delays :
    /\ acceptor = "idle"
    /\ AddTimer(msec, FALSE)
    /\ acceptor' = "added"
    /\ UNCHANGED unheard

\* Any other thread, at any time: the loop is not woken.
OthersAdd == \E msec \in Delays :
    /\ AddTimer(msec, FALSE)
    /\ unheard' = IF lpc = "sleep" THEN unheard \cup {Len(calls) + 1} ELSE unheard
    /\ UNCHANGED acceptor

\* Mutant: the new connection is handed over without a wake-up.
HandOverSilently == /\ acceptor = "added"
                    /\ acceptor' = "idle"
                    /\ UNCHANGED <<clock, counter, timers, ids, lpc, batch, deadline, wakeups, unheard, calls>>

AcceptorHandsOver == /\ acceptor = "added"
                     /\ acceptor' = "idle"
                     /\ wakeups' = TRUE
                     /\ UNCHANGED <<clock, counter, timers, ids, lpc, batch, deadline, unheard, calls>>

\* The nodes delTimer(id) finds: none while the timer is being run.
Found(id) == {n \in timers : n.id = id /\ n.expire = ids[id]}

\* Mutant: a timer of the running batch counts as deleted.
DelTimerTaken(c) == /\ calls[c].state = "set"
                    /\ timers' = timers \ Found(calls[c].id)
                    /\ calls' = [calls EXCEPT ![c].state = "cancelled"]
                    /\ UNCHANGED <<clock, counter, ids, lpc, batch, deadline, wakeups, others>>

\* delTimer with the id call c returned; where it finds nothing it changes nothing.
DelTimer(c) == /\ Found(calls[c].id) # {}
               /\ timers' = timers \ Found(calls[c].id)
               /\ calls' = [calls EXCEPT ![c].state = "cancelled"]
               /\ UNCHANGED <<clock, counter, ids, lpc, batch, deadline, wakeups, others>>

-----------------------------------------------------------------------------
(* The loop: checkTimer, then timeToSleep and epoll_wait.                  *)

Due == {n \in timers : n.expire <= now}

\* The nodes of S as a sequence, in the order of _timers.
Sorted(S) == {s \in [1 .. Cardinality(S) -> S] :
                   \A i, j \in 1 .. Cardinality(S) : i < j => Before(s[i], s[j])}

\* Mutant: due nodes stay in _timers until their callbacks have run.
CheckTimerCopying == /\ lpc = "pass"
                     /\ batch' \in Sorted(Due)
                     /\ lpc' = "check"
                     /\ UNCHANGED <<clock, counter, timers, ids, deadline, wakeups, others, calls>>

\* Under the lock, from the first node up to one that is not due.
CheckTimer == /\ lpc = "pass"
              /\ batch' \in Sorted(Due)
              /\ timers' = timers \ Due
              /\ lpc' = "check"
              /\ UNCHANGED <<clock, counter, ids, deadline, wakeups, others, calls>>

Fire == /\ lpc = "check"
        /\ batch # <<>>
        /\ lpc' = "callback"
        /\ UNCHANGED <<clock, counter, timers, ids, batch, deadline, wakeups, others, calls>>

Fired == Head(batch).call

\* recurringWrapper sets its timer again after its function has returned,
\* whatever became of the timer meanwhile.
Renewed(c, n) == [n EXCEPT !.expire = now + calls[c].msec]

CallbackReturns ==
    /\ lpc = "callback"
    /\ lpc' = "check"
    /\ batch' = Tail(batch)
    /\ calls' = [calls EXCEPT ![Fired].state = "fired"]
    /\ IF calls[Fired].again
       THEN LET node == Renewed(Fired, Head(batch))
            IN  timers' = Emplaced(node) /\ ids' = Recorded(node)
       ELSE UNCHANGED <<timers, ids>>
    /\ UNCHANGED <<clock, counter, deadline, wakeups, others>>

Expiries == {n.expire : n \in timers}

\* Mutant: the last expiry in place of the first.
TimeToLast == {e \in Expiries : \A f \in Expiries : f <= e}

\* timeToSleep, as the moment epoll_wait gives up: the first expiry, which may
\* be past, never without a timer.
TimeToSleep == {e \in Expiries : \A f \in Expiries : e <= f}

Sleep == /\ lpc = "check"
         /\ batch = <<>>
         /\ deadline' = TimeToSleep
         /\ lpc' = "sleep"
         /\ UNCHANGED <<clock, counter, timers, ids, batch, wakeups, others, calls>>

Wake == /\ lpc = "sleep"
        /\ lpc' = "pass"
        /\ deadline' = {}
        /\ unheard' = {}
        /\ UNCHANGED <<clock, counter, timers, ids, batch, acceptor, calls>>

WakeByTimeout == Wake /\ (\E e \in deadline : e <= now) /\ UNCHANGED wakeups
WakeByEventfd == Wake /\ wakeups /\ wakeups' = FALSE
WakeBySocket == Wake /\ UNCHANGED wakeups

LoopStep == CheckTimer \/ Fire \/ CallbackReturns \/ Sleep \/ WakeByTimeout \/ WakeByEventfd

Next == \/ Tick
        \/ LoopAdds \/ OthersAdd \/ AcceptorAdds \/ AcceptorHandsOver
        \/ \E c \in DOMAIN calls : DelTimer(c)
        \/ LoopStep \/ WakeBySocket

Spec == Init /\ [][Next]_vars

\* The clock runs, the loop thread and the acceptor are scheduled; no timer is
\* promised to be added or deleted, no socket to be ready.
FairSpec == Spec /\ WF_vars(Tick) /\ WF_vars(LoopStep) /\ WF_vars(AcceptorHandsOver)

-----------------------------------------------------------------------------
(* Properties.                                                             *)

\* Type correctness of the timers and of the loop around them.
TypeOK == /\ now \in 0 .. MaxNow
          /\ single \in BOOLEAN
          /\ counter \in Nat
          /\ timers \subseteq Nodes
          /\ IsFiniteSet(timers)
          /\ DOMAIN ids \subseteq Nat
          /\ \A i \in DOMAIN ids : ids[i] \in Nat
          /\ lpc \in {"pass", "check", "callback", "sleep"}
          /\ batch \in Seq(Nodes)
          /\ lpc = "callback" => batch # <<>>
          /\ deadline \subseteq Nat
          /\ wakeups \in BOOLEAN
          /\ acceptor \in {"idle", "added"}
          /\ unheard \subseteq 1 .. MaxCalls
          /\ calls \in Seq(Calls)

\* A call of addTimer that still has a timer, or whose callback is yet to end.
Waiting(c) == {n \in timers : n.call = c}
Taken(c) == {i \in DOMAIN batch : batch[i].call = c}
Over(c) == \/ calls[c].state = "cancelled"
           \/ calls[c].state = "fired" /\ ~calls[c].again

\* With one loop every timer is in one place, once: waiting, in the batch that
\* is run, or over.  None is lost, none is run twice for one expiry, whatever
\* is added and deleted while callbacks run without the lock (timer.cc:67).
\* With several loops a lost update in getID (timer.cc:14) can break this.
OnePlace == single => \A c \in DOMAIN calls :
    Cardinality(Waiting(c)) + Cardinality(Taken(c)) + (IF Over(c) THEN 1 ELSE 0) = 1

\* With one loop, a timer that delTimer has found never runs afterwards, a
\* recurring one that is deleted in its own callback included: delTimer does
\* not find that one (timer.cc:52), and it is set again.
CancelledStaysCancelled ==
    [][\A c \in DOMAIN calls : single /\ calls[c].state = "cancelled" =>
           /\ calls'[c].state = "cancelled"
           /\ ~(lpc = "check" /\ lpc' = "callback" /\ Fired = c)]_vars

\* Timers run in the order they are due, and none before: nothing that still
\* waits is due before what is already in the batch (timer.cc:61-65), even when
\* a callback adds a timer with delay 0.
DueOrder == /\ \A i \in DOMAIN batch : batch[i].expire <= now
            /\ \A i, j \in DOMAIN batch : i < j => batch[i].expire <= batch[j].expire
            /\ \A i \in DOMAIN batch, n \in timers : batch[i].expire <= n.expire

\* The loop sleeps past no timer it could know of: epoll_wait gives up when the
\* first is due (event_loop.cc:36), or the eventfd is about to end the sleep, for
\* a timer the acceptor adds after timeToSleep was asked (tcp_server.cc:161).  Only
\* what another thread adds in that time waits for something else to end the
\* sleep, AddTimer having no Wakeup (event_loop.cc:130).
NoOversleep == lpc = "sleep" =>
    \A n \in timers : \/ \E e \in deadline : e <= n.expire
                      \/ wakeups \/ acceptor = "added"
                      \/ n.call \in unheard

\* The timers as TimerService has them, an id being the number of its call.
Alarms == [c \in DOMAIN calls |-> [due |-> ids[c], msec |-> calls[c].msec,
                                   again |-> calls[c].again, live |-> ~Over(c)]]
Running == IF lpc = "callback" THEN {Fired} ELSE {}

TS == INSTANCE TimerService WITH Ids <- 1 .. MaxCalls, alarms <- Alarms, running <- Running

\* With one loop, addTimer, delTimer and the passes of checkTimer keep the
\* promise of TimerService, though due timers are taken out in batches whose
\* callbacks run without the lock (timer.cc:57-85): every callback is run at its
\* time or later, before all that are due after it, never beside another and
\* never deleted; a recurring one comes back its whole period after it ended.
ImplementsTimerService ==
    (single => TS!Init) /\ [][single => TS!Next \/ UNCHANGED TS!vars]_vars

\* With one loop, every timer is run or deleted in the end, unless the loop does
\* not know of it and sleeps for ever: a timer that is heard of when the loop
\* wakes up is not unheard again.
Runs == \A c \in 1 .. MaxCalls :
    (single /\ c \in DOMAIN calls)
        ~> (c \in DOMAIN calls /\ (calls[c].state # "set" \/ c \in unheard))
=============================================================================
