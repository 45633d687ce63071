---------------------------- MODULE TimerProofs ----------------------------
(***************************************************************************)
(* Theorems about the timers of a loop, for all delays and any number of   *)
(* them: the loop sleeps until the first one, they run in the order they   *)
(* are due, each once, and never after they were deleted.                  *)
(***************************************************************************)
EXTENDS Timer, FiniteSetTheorems, SequenceTheorems, TLAPS

-----------------------------------------------------------------------------
(* Least elements.  The library has induction only for operators, but its  *)
(* theorem on finite subsets holds of the segments below the elements of a *)
(* set, and the smallest segment belongs to the least element.             *)

\* The least of a set of numbers.
LEMMA LeastNumber ==
  ASSUME NEW S, S \subseteq Nat, S # {}
  PROVE  \E n \in S : \A m \in S : n <= m
<1> DEFINE Below(n) == 0 .. (n - 1)
           Segments == {Below(n) : n \in S}
<1>1. Segments \subseteq FiniteSubsetsOf(Nat)
  <2>1. ASSUME NEW n \in S PROVE Below(n) \in FiniteSubsetsOf(Nat)
    <3>1. IsFiniteSet(Below(n)) BY FS_Interval
    <3>2. Below(n) \in SUBSET Nat OBVIOUS
    <3> HIDE DEF Below
    <3> QED BY <3>1, <3>2 DEF FiniteSubsetsOf
  <2> QED BY <2>1
<1>2. \E x \in Segments : \A y \in Segments : ~(<<y, x>> \in StrictSubsetOrdering(Nat))
  <2>1. Segments # {} OBVIOUS
  <2> HIDE DEF Segments
  <2> QED BY <1>1, <2>1, FS_StrictSubsetOrderingWellFounded, WFMin, Zenon
<1>3. PICK n \in S : \A m \in S : ~(<<Below(m), Below(n)>> \in StrictSubsetOrdering(Nat))
  BY <1>2
<1>4. ASSUME NEW m \in S, m < n PROVE FALSE
  <2>1. Below(m) \subseteq Below(n) /\ m \in Below(n) /\ m \notin Below(m) BY <1>4
  <2>2. Below(m) \in SUBSET Nat /\ Below(n) \in SUBSET Nat OBVIOUS
  <2> QED BY <2>1, <2>2, <1>3 DEF StrictSubsetOrdering
<1> QED BY <1>4

\* timeToSleep finds an expiry when there is a timer, and none is before it.
LEMMA FirstExpiry ==
  ASSUME timers \subseteq Nodes
  PROVE  /\ TimeToSleep \subseteq Nat
         /\ \A n \in timers : \E e \in TimeToSleep : e <= n.expire
<1>1. Expiries \subseteq Nat BY DEF Expiries, Nodes
<1>2. ASSUME NEW n \in timers PROVE \E e \in TimeToSleep : e <= n.expire
  <2>1. n.expire \in Expiries BY DEF Expiries
  <2>2. \E e \in Expiries : \A f \in Expiries : e <= f
    <3> HIDE DEF Expiries
    <3> QED BY <1>1, <2>1, LeastNumber
  <2> QED BY <2>1, <2>2 DEF TimeToSleep
<1> QED BY <1>1, <1>2 DEF TimeToSleep

-----------------------------------------------------------------------------
(* Type correctness.                                                       *)

\* Every node is of a call of addTimer; a batch is only kept while it is run.
Known == /\ \A n \in timers : n.call \in DOMAIN calls
         /\ \A i \in DOMAIN batch : batch[i].call \in DOMAIN calls
         /\ lpc \in {"pass", "sleep"} => batch = <<>>

TInv == TypeOK /\ Known

\* What the types of sequences say of their elements.
LEMMA Elements ==
  ASSUME TInv
  PROVE  /\ Len(calls) \in Nat /\ DOMAIN calls = 1 .. Len(calls)
         /\ \A c \in DOMAIN calls : calls[c] \in Calls /\ calls[c].msec \in Nat
         /\ Len(batch) \in Nat /\ DOMAIN batch = 1 .. Len(batch)
         /\ \A i \in DOMAIN batch : batch[i] \in Nodes
         /\ batch # <<>> => /\ Head(batch) = batch[1] /\ 1 \in DOMAIN batch
                            /\ Tail(batch) \in Seq(Nodes)
                            /\ DOMAIN Tail(batch) = 1 .. (Len(batch) - 1)
                            /\ \A i \in DOMAIN Tail(batch) : Tail(batch)[i] = batch[i + 1]
         /\ now \in Nat /\ MaxCalls \in Nat
<1>1. now \in Nat /\ calls \in Seq(Calls) /\ batch \in Seq(Nodes)
  BY BoundAssumption DEF TInv, TypeOK
<1>2. \A call \in Calls : call.msec \in Nat BY DelayAssumption DEF Calls
<1>3. /\ Len(calls) \in Nat /\ DOMAIN calls = 1 .. Len(calls)
      /\ \A c \in DOMAIN calls : calls[c] \in Calls
  BY <1>1, LenProperties
<1>4. /\ Len(batch) \in Nat /\ DOMAIN batch = 1 .. Len(batch)
      /\ \A i \in DOMAIN batch : batch[i] \in Nodes
  BY <1>1, LenProperties
<1>5. ASSUME batch # <<>>
      PROVE  /\ Head(batch) = batch[1] /\ 1 \in DOMAIN batch
             /\ Tail(batch) \in Seq(Nodes)
             /\ DOMAIN Tail(batch) = 1 .. (Len(batch) - 1)
             /\ \A i \in DOMAIN Tail(batch) : Tail(batch)[i] = batch[i + 1]
  <2>1. Len(batch) \in Nat \ {0} BY <1>1, <1>5, EmptySeq
  <2>2. Tail(batch) \in Seq(Nodes) /\ Len(Tail(batch)) = Len(batch) - 1
    BY <1>1, <1>5, HeadTailProperties
  <2>3. DOMAIN Tail(batch) = 1 .. (Len(batch) - 1) BY <2>2, LenProperties
  <2>4. \A i \in DOMAIN Tail(batch) : Tail(batch)[i] = batch[i + 1]
    BY <1>1, <1>5, <2>2, <2>3, HeadTailProperties
  <2> QED BY <1>1, <1>4, <2>1, <2>2, <2>3, <2>4
<1> QED BY <1>1, <1>2, <1>3, <1>4, <1>5, BoundAssumption

\* addTimer's changes of the two tables keep their types.
LEMMA TablesTyped ==
  ASSUME TInv, NEW n \in Nodes, timers' = Emplaced(n), ids' = Recorded(n)
  PROVE  /\ timers' \subseteq Nodes /\ IsFiniteSet(timers')
         /\ DOMAIN ids' \subseteq Nat /\ \A i \in DOMAIN ids' : ids'[i] \in Nat
<1>1. IsFiniteSet(timers \cup {n}) BY FS_AddElement DEF TInv, TypeOK
<1>2. timers' \subseteq Nodes /\ IsFiniteSet(timers') BY <1>1 DEF Emplaced, TInv, TypeOK
<1>3. n.id \in Nat /\ n.expire \in Nat BY DEF Nodes
<1> QED BY <1>2, <1>3 DEF Recorded, TInv, TypeOK

\* The node and the call that addTimer adds.
NewNode(id, msec) == [expire |-> now + msec, id |-> id, call |-> Len(calls) + 1]

\* addTimer makes one node, with an id getID may give.
LEMMA AddTimerAdds ==
  ASSUME TInv, NEW msec \in Delays, NEW again \in BOOLEAN, AddTimer(msec, again)
  PROVE  \E id \in NextIds :
           /\ id \in Nat /\ NewNode(id, msec) \in Nodes
           /\ counter' = id
           /\ timers' = Emplaced(NewNode(id, msec)) /\ ids' = Recorded(NewNode(id, msec))
           /\ calls' = Append(calls, [id |-> id, msec |-> msec, again |-> again, state |-> "set"])
           /\ calls' \in Seq(Calls) /\ DOMAIN calls' = 1 .. Len(calls) + 1
           /\ \A c \in DOMAIN calls : calls'[c] = calls[c]
           /\ calls'[Len(calls) + 1] = [id |-> id, msec |-> msec, again |-> again, state |-> "set"]
<1>1. NextIds \subseteq Nat BY DEF NextIds, TInv, TypeOK
<1>2. PICK id \in NextIds :
        /\ counter' = id
        /\ timers' = Emplaced(NewNode(id, msec)) /\ ids' = Recorded(NewNode(id, msec))
        /\ calls' = Append(calls, [id |-> id, msec |-> msec, again |-> again, state |-> "set"])
  BY DEF AddTimer, NewNode
<1>3. NewNode(id, msec) \in Nodes
  BY <1>1, Elements, DelayAssumption DEF NewNode, Nodes, AddTimer
<1>4. [id |-> id, msec |-> msec, again |-> again, state |-> "set"] \in Calls
  BY <1>1 DEF Calls
<1>5. calls \in Seq(Calls) BY DEF TInv, TypeOK
<1> QED BY <1>1, <1>2, <1>3, <1>4, <1>5

\* Any step but the three below leaves the tables to shrink at most.
LEMMA TInvHolds == Init => TInv
<1> SUFFICES ASSUME Init PROVE TInv OBVIOUS
<1>1. IsFiniteSet({}) BY FS_EmptySet
<1>2. DOMAIN <<>> = {} /\ <<>> \in Seq(Nodes) /\ <<>> \in Seq(Calls) BY EmptySeq
<1>3. now \in 0 .. MaxNow BY BoundAssumption DEF Init
<1>4. /\ timers \subseteq Nodes /\ IsFiniteSet(timers)
      /\ DOMAIN ids = {} /\ DOMAIN batch = {}
      /\ batch \in Seq(Nodes) /\ calls \in Seq(Calls)
  BY <1>1, <1>2 DEF Init
<1>5. TypeOK BY <1>3, <1>4 DEF Init, TypeOK
<1>6. Known BY <1>4 DEF Init, Known
<1> QED BY <1>5, <1>6 DEF TInv

LEMMA AddKeepsTypes ==
  ASSUME TInv, LoopAdds \/ OthersAdd \/ AcceptorAdds
  PROVE  TInv'
<1>1. PICK msec \in Delays, again \in BOOLEAN : AddTimer(msec, again)
  BY DEF LoopAdds, OthersAdd, AcceptorAdds
<1>2. PICK id \in NextIds :
           /\ id \in Nat /\ NewNode(id, msec) \in Nodes
           /\ counter' = id
           /\ timers' = Emplaced(NewNode(id, msec)) /\ ids' = Recorded(NewNode(id, msec))
           /\ calls' \in Seq(Calls) /\ DOMAIN calls' = 1 .. Len(calls) + 1
  BY <1>1, AddTimerAdds
<1>3. UNCHANGED <<now, single, lpc, batch, deadline, wakeups>> BY <1>1 DEF AddTimer, clock
<1>4. acceptor' \in {"idle", "added"} BY DEF LoopAdds, OthersAdd, AcceptorAdds, others, TInv, TypeOK
<1>5. unheard' \subseteq 1 .. MaxCalls
  <2>1. Len(calls) + 1 \in 1 .. MaxCalls BY <1>1, Elements DEF AddTimer
  <2> QED BY <2>1 DEF LoopAdds, OthersAdd, AcceptorAdds, others, TInv, TypeOK
<1>6. TypeOK' BY <1>2, <1>3, <1>4, <1>5, TablesTyped DEF TInv, TypeOK
<1>7. timers' \subseteq timers \cup {NewNode(id, msec)} BY <1>2 DEF Emplaced
<1>8. Known'
  <2>1. NewNode(id, msec).call = Len(calls) + 1 BY DEF NewNode
  <2> QED BY <1>2, <1>3, <1>7, <2>1, Elements DEF TInv, Known
<1> QED BY <1>6, <1>8 DEF TInv

LEMMA DelTimerKeepsTypes ==
  ASSUME TInv, NEW c \in DOMAIN calls, DelTimer(c)
  PROVE  TInv'
<1>1. timers' \subseteq timers /\ IsFiniteSet(timers')
  BY FS_Subset DEF DelTimer, TInv, TypeOK
<1>2. calls' \in Seq(Calls) /\ DOMAIN calls' = DOMAIN calls
  <2>1. calls' = [calls EXCEPT ![c].state = "cancelled"] BY DEF DelTimer
  <2>2. [calls[c] EXCEPT !.state = "cancelled"] \in Calls BY Elements DEF Calls
  <2> QED BY <2>1, <2>2, Elements DEF TInv, TypeOK
<1>3. TypeOK' BY <1>1, <1>2 DEF DelTimer, clock, others, TInv, TypeOK
<1>4. Known' BY <1>1, <1>2 DEF DelTimer, TInv, Known
<1> QED BY <1>3, <1>4 DEF TInv

\* The batch that checkTimer takes has all the nodes that are due, each once.
LEMMA BatchTaken ==
  ASSUME TInv, CheckTimer
  PROVE  /\ batch' \in Seq(Nodes)
         /\ \A i \in DOMAIN batch' : batch'[i] \in Due
         /\ \A i, j \in DOMAIN batch' : i < j => Before(batch'[i], batch'[j])
         /\ \A n \in Due : \E i \in DOMAIN batch' : batch'[i] = n
<1>1. Due \subseteq timers /\ Due \subseteq Nodes /\ IsFiniteSet(Due)
  BY FS_Subset DEF Due, TInv, TypeOK
<1> DEFINE k == Cardinality(Due)
<1>2. k \in Nat BY <1>1, FS_CardinalityType
<1>3. /\ batch' \in [1 .. k -> Due]
      /\ \A i, j \in 1 .. k : i < j => Before(batch'[i], batch'[j])
  BY DEF CheckTimer, Sorted
<1> HIDE DEF k
<1>4. batch' \in Seq(Nodes) BY <1>1, <1>2, <1>3
<1>5. batch' \in Injection(1 .. k, Due)
  <2>1. ASSUME NEW i \in 1 .. k, NEW j \in 1 .. k, batch'[i] = batch'[j] PROVE i = j
    <3>1. batch'[i] \in Nodes /\ ~Before(batch'[i], batch'[i])
      BY <1>1, <1>3 DEF Before, Nodes
    <3> QED BY <1>2, <1>3, <2>1, <3>1
  <2> QED BY <1>3, <2>1 DEF Injection, IsInjective
<1>6. Cardinality(1 .. k) = k BY <1>2, FS_Interval
<1>7. batch' \in Surjection(1 .. k, Due)
  BY <1>1, <1>5, <1>6, FS_Injection DEF k
<1>8. DOMAIN batch' = 1 .. k BY <1>3
<1>9. \A n \in Due : \E i \in DOMAIN batch' : batch'[i] = n
  BY <1>7, <1>8 DEF Surjection
<1> QED BY <1>3, <1>4, <1>8, <1>9

LEMMA CheckTimerKeepsTypes == ASSUME TInv, CheckTimer PROVE TInv'
<1>1. timers' \subseteq timers /\ IsFiniteSet(timers')
  BY FS_Subset DEF CheckTimer, TInv, TypeOK
<1>2. batch' \in Seq(Nodes) /\ \A i \in DOMAIN batch' : batch'[i] \in timers
  BY BatchTaken DEF Due
<1> QED BY <1>1, <1>2 DEF CheckTimer, clock, others, TInv, TypeOK, Known

\* What a callback that returns changes.
LEMMA CallbackEnds ==
  ASSUME TInv, CallbackReturns
  PROVE  /\ 1 \in DOMAIN batch /\ Fired = batch[1].call /\ Fired \in DOMAIN calls
         /\ batch' = Tail(batch) /\ lpc' = "check"
         /\ calls' \in Seq(Calls) /\ DOMAIN calls' = DOMAIN calls
         /\ \A c \in DOMAIN calls : c # Fired => calls'[c] = calls[c]
         /\ calls'[Fired] = [calls[Fired] EXCEPT !.state = "fired"]
         /\ Renewed(Fired, Head(batch)) \in Nodes
         /\ Renewed(Fired, Head(batch)).id = batch[1].id
         /\ Renewed(Fired, Head(batch)).call = batch[1].call
         /\ Renewed(Fired, Head(batch)).expire >= now
<1>1. batch # <<>> /\ 1 \in DOMAIN batch /\ Head(batch) = batch[1] /\ batch[1] \in Nodes
  BY Elements DEF CallbackReturns, TInv, TypeOK
<1>2. Fired = batch[1].call /\ Fired \in DOMAIN calls BY <1>1 DEF Fired, TInv, Known
<1>3. [calls[Fired] EXCEPT !.state = "fired"] \in Calls /\ calls[Fired].msec \in Nat
  BY <1>2, Elements DEF Calls
<1>4. calls' = [calls EXCEPT ![Fired].state = "fired"] BY DEF CallbackReturns
<1>5. calls' \in Seq(Calls) /\ DOMAIN calls' = DOMAIN calls
  BY <1>2, <1>3, <1>4, Elements DEF TInv, TypeOK
<1>6. now + calls[Fired].msec \in Nat /\ now + calls[Fired].msec >= now
  BY <1>3, Elements
<1> QED BY <1>1, <1>2, <1>4, <1>5, <1>6 DEF CallbackReturns, Renewed, Nodes

LEMMA CallbackKeepsTypes == ASSUME TInv, CallbackReturns PROVE TInv'
<1> DEFINE node == Renewed(Fired, Head(batch))
<1>1. /\ node \in Nodes /\ node.call \in DOMAIN calls'
      /\ calls' \in Seq(Calls) /\ DOMAIN calls' = DOMAIN calls
      /\ batch' = Tail(batch) /\ lpc' = "check" /\ batch # <<>>
  BY CallbackEnds, Elements
<1>2. /\ timers' \subseteq timers \cup {node} /\ timers' \subseteq Nodes
      /\ IsFiniteSet(timers')
      /\ DOMAIN ids' \subseteq Nat /\ \A i \in DOMAIN ids' : ids'[i] \in Nat
  <2>1. CASE calls[Fired].again
    <3>1. timers' = Emplaced(node) /\ ids' = Recorded(node) BY <2>1 DEF CallbackReturns
    <3> HIDE DEF node
    <3> QED BY <1>1, <3>1, TablesTyped DEF Emplaced
  <2>2. CASE ~calls[Fired].again
    BY <2>2 DEF CallbackReturns, TInv, TypeOK
  <2> QED BY <2>1, <2>2
<1> HIDE DEF node
<1>3. TypeOK' BY <1>1, <1>2, Elements DEF CallbackReturns, clock, others, TInv, TypeOK
<1>4. \A i \in DOMAIN batch' : batch'[i].call \in DOMAIN calls
  BY <1>1, Elements DEF TInv, Known
<1>5. Known' BY <1>1, <1>2, <1>4 DEF TInv, Known
<1> QED BY <1>3, <1>5 DEF TInv

LEMMA TypesKept == ASSUME TInv, [Next]_vars PROVE TInv'
<1>1. CASE Tick BY <1>1, BoundAssumption DEF Tick, others, TInv, TypeOK, Known
<1>2. CASE AcceptorHandsOver BY <1>2 DEF AcceptorHandsOver, clock, TInv, TypeOK, Known
<1>3. CASE Fire BY <1>3 DEF Fire, clock, others, TInv, TypeOK, Known
<1>4. CASE Sleep BY <1>4, FirstExpiry DEF Sleep, clock, others, TInv, TypeOK, Known
<1>5. CASE WakeByTimeout \/ WakeByEventfd \/ WakeBySocket
  BY <1>5 DEF Wake, WakeByTimeout, WakeByEventfd, WakeBySocket, clock, TInv, TypeOK, Known
<1>6. CASE UNCHANGED vars BY <1>6 DEF vars, TInv, TypeOK, Known
<1> QED BY <1>1, <1>2, <1>3, <1>4, <1>5, <1>6, AddKeepsTypes, DelTimerKeepsTypes,
           CheckTimerKeepsTypes, CallbackKeepsTypes DEF Next, LoopStep

LEMMA AlwaysTInv == Spec => []TInv
  BY TInvHolds, TypesKept, PTL DEF Spec

-----------------------------------------------------------------------------
(* Sleeping and the order of the batch.                                    *)

\* The steps that add nodes: where they come from, and when they are due.
LEMMA TimersGrow ==
  ASSUME TInv, [Next]_vars, NEW n \in timers', n \notin timers
  PROVE  /\ n.expire \in Nat /\ n.expire >= now
         /\ \/ LoopAdds \/ OthersAdd \/ AcceptorAdds
            \/ CallbackReturns
<1>1. CASE LoopAdds \/ OthersAdd \/ AcceptorAdds
  <2>1. PICK msec \in Delays, again \in BOOLEAN : AddTimer(msec, again)
    BY <1>1 DEF LoopAdds, OthersAdd, AcceptorAdds
  <2>2. PICK id \in NextIds : timers' = Emplaced(NewNode(id, msec))
    BY <2>1, AddTimerAdds
  <2>3. n = NewNode(id, msec) BY <2>2 DEF Emplaced
  <2>4. n.expire = now + msec BY <2>3 DEF NewNode
  <2> QED BY <1>1, <2>4, Elements, DelayAssumption
<1>2. CASE CallbackReturns
  <2>1. n = Renewed(Fired, Head(batch)) BY <1>2 DEF CallbackReturns, Emplaced
  <2> QED BY <1>2, <2>1, CallbackEnds DEF Nodes
<1>3. CASE \E c \in DOMAIN calls : DelTimer(c) BY <1>3 DEF DelTimer
<1>4. CASE CheckTimer BY <1>4 DEF CheckTimer
<1>5. CASE Tick \/ AcceptorHandsOver \/ Fire \/ Sleep BY <1>5 DEF Tick, AcceptorHandsOver, Fire, Sleep
<1>6. CASE WakeByTimeout \/ WakeByEventfd \/ WakeBySocket
  BY <1>6 DEF WakeByTimeout, WakeByEventfd, WakeBySocket, Wake
<1>7. CASE UNCHANGED vars BY <1>7 DEF vars
<1> QED BY <1>1, <1>2, <1>3, <1>4, <1>5, <1>6, <1>7 DEF Next, LoopStep

\* epoll_wait was told of every timer there was, and the acceptor, when it adds
\* one while the loop sleeps, wakes it.
LEMMA SleepKept == ASSUME TInv, NoOversleep, [Next]_vars PROVE NoOversleep'
<1> SUFFICES ASSUME lpc' = "sleep", NEW n \in timers'
             PROVE  \/ \E e \in deadline' : e <= n.expire
                    \/ wakeups' \/ acceptor' = "added"
                    \/ n.call \in unheard'
  BY DEF NoOversleep
<1>1. CASE Sleep
  BY <1>1, FirstExpiry DEF Sleep, TInv, TypeOK
<1>2. CASE AcceptorAdds BY <1>2 DEF AcceptorAdds
<1>3. CASE AcceptorHandsOver BY <1>3 DEF AcceptorHandsOver
<1>4. CASE \/ LoopAdds \/ CallbackReturns \/ CheckTimer \/ Fire
           \/ WakeByTimeout \/ WakeByEventfd \/ WakeBySocket
  <2>1. lpc' # "sleep"
    BY <1>4 DEF LoopAdds, AddTimer, InLoop, CallbackReturns, CheckTimer, Fire,
                WakeByTimeout, WakeByEventfd, WakeBySocket, Wake
  <2> QED BY <2>1
<1>5. CASE \E c \in DOMAIN calls : DelTimer(c)
  BY <1>5 DEF DelTimer, others, NoOversleep
<1>6. CASE Tick \/ UNCHANGED vars BY <1>6 DEF Tick, others, vars, NoOversleep
<1>7. CASE OthersAdd
  <2>1. PICK msec \in Delays : AddTimer(msec, FALSE) BY <1>7 DEF OthersAdd
  <2>2. UNCHANGED <<lpc, deadline, wakeups, acceptor>>
    BY <1>7, <2>1 DEF OthersAdd, AddTimer
  <2>3. unheard' = unheard \cup {Len(calls) + 1} BY <1>7, <2>2 DEF OthersAdd
  <2>4. n \in timers \/ n.call = Len(calls) + 1
    <3>1. PICK id \in NextIds : timers' = Emplaced(NewNode(id, msec))
      BY <2>1, AddTimerAdds
    <3> QED BY <3>1 DEF Emplaced, NewNode
  <2> QED BY <2>2, <2>3, <2>4 DEF NoOversleep
<1> QED BY <1>1, <1>2, <1>3, <1>4, <1>5, <1>6, <1>7 DEF Next, LoopStep

\* Whatever delays the timers have and however many there are, the loop sleeps
\* past none but those that other threads than the acceptor's add while it sleeps
\* (event_loop.cc:36 and :130, timer.cc:70-75, tcp_server.cc:161).
THEOREM NeverOversleeps == Spec => []NoOversleep
<1>1. Init => NoOversleep BY DEF Init, NoOversleep
<1>2. TInv /\ NoOversleep /\ [Next]_vars => NoOversleep' BY SleepKept
<1> QED BY <1>1, <1>2, AlwaysTInv, PTL DEF Spec

LEMMA OrderKept == ASSUME TInv, DueOrder, [Next]_vars PROVE DueOrder'
<1>1. now' \in Nat /\ now' >= now /\ now \in Nat
  <2>1. CASE Tick BY <2>1, Elements DEF Tick
  <2>2. CASE ~Tick
    BY <2>2, Elements DEF Next, LoopAdds, OthersAdd, AcceptorAdds, AddTimer, AcceptorHandsOver, DelTimer,
          LoopStep, CheckTimer, Fire, CallbackReturns, Sleep, Wake, WakeByTimeout,
          WakeByEventfd, WakeBySocket, clock, vars
  <2> QED BY <2>1, <2>2
<1>2. /\ \A i \in DOMAIN batch : batch[i].expire \in Nat
      /\ \A n \in timers : n.expire \in Nat
  BY Elements DEF TInv, TypeOK, Nodes
<1>3. CASE CheckTimer
  <2>1. /\ \A i \in DOMAIN batch' : batch'[i] \in Due
        /\ \A i, j \in DOMAIN batch' : i < j => Before(batch'[i], batch'[j])
    BY <1>3, BatchTaken
  <2>2. timers' = timers \ Due /\ now' = now BY <1>3 DEF CheckTimer, clock
  <2>3. \A n \in timers' : n.expire > now BY <1>1, <1>2, <2>2 DEF Due
  <2>4. \A i \in DOMAIN batch' : batch'[i].expire <= now /\ batch'[i].expire \in Nat
    BY <1>2, <2>1 DEF Due
  <2>5. \A i, j \in DOMAIN batch' : i < j => batch'[i].expire <= batch'[j].expire
    BY <2>1, <2>4 DEF Before
  <2>6. \A i \in DOMAIN batch', n \in timers' : batch'[i].expire <= n.expire
    BY <1>1, <1>2, <2>2, <2>3, <2>4
  <2> QED BY <2>2, <2>4, <2>5, <2>6 DEF DueOrder
<1>4. CASE ~CheckTimer
  <2>1. batch' = batch \/ (batch' = Tail(batch) /\ batch # <<>>)
    <3>1. CASE CallbackReturns BY <3>1, Elements DEF CallbackReturns, TInv, TypeOK
    <3>2. CASE ~CallbackReturns
      BY <1>4, <3>2 DEF Next, Tick, LoopAdds, OthersAdd, AcceptorAdds, AddTimer, AcceptorHandsOver,
            DelTimer, LoopStep, Fire, Sleep, Wake, WakeByTimeout, WakeByEventfd,
            WakeBySocket, vars
    <3> QED BY <3>1, <3>2
  <2>2. /\ \A i \in DOMAIN batch' : \E k \in DOMAIN batch : batch'[i] = batch[k]
        /\ \A i, j \in DOMAIN batch' : i < j =>
             \E k, l \in DOMAIN batch : k < l /\ batch'[i] = batch[k] /\ batch'[j] = batch[l]
    <3>1. CASE batch' = batch BY <3>1
    <3>2. CASE batch' = Tail(batch) /\ batch # <<>>
      <4>1. \A i \in DOMAIN batch' : /\ i \in Nat /\ i + 1 \in DOMAIN batch
                                     /\ batch'[i] = batch[i + 1]
        BY <3>2, Elements
      <4>2. \A i, j \in DOMAIN batch' : i < j => i + 1 < j + 1 BY <4>1
      <4> QED BY <4>1, <4>2
    <3> QED BY <2>1, <3>1, <3>2
  <2>3. \A n \in timers' : n \in timers \/ (n.expire \in Nat /\ n.expire >= now)
    BY TimersGrow
  <2>4. \A i \in DOMAIN batch' : batch'[i].expire <= now' /\ batch'[i].expire <= now
    BY <1>1, <1>2, <2>2 DEF DueOrder
  <2>5. \A i, j \in DOMAIN batch' : i < j => batch'[i].expire <= batch'[j].expire
    BY <2>2 DEF DueOrder
  <2>6. \A i \in DOMAIN batch', n \in timers' : batch'[i].expire <= n.expire
    <3> SUFFICES ASSUME NEW i \in DOMAIN batch', NEW n \in timers'
                 PROVE  batch'[i].expire <= n.expire
      OBVIOUS
    <3>1. CASE n \in timers BY <2>2, <3>1 DEF DueOrder
    <3>2. CASE n \notin timers
      <4>1. n.expire \in Nat /\ n.expire >= now BY <2>3, <3>2
      <4>2. batch'[i].expire \in Nat /\ batch'[i].expire <= now BY <1>2, <2>2, <2>4
      <4> QED BY <1>1, <4>1, <4>2
    <3> QED BY <3>1, <3>2
  <2> QED BY <2>4, <2>5, <2>6 DEF DueOrder
<1> QED BY <1>3, <1>4

\* Timers are run in the order in which they are due and none too early, and
\* nothing that a callback adds overtakes the batch (timer.cc:57-66).
THEOREM RunsInOrder == Spec => []DueOrder
<1>1. Init => DueOrder
  <2>1. DOMAIN <<>> = {} BY EmptySeq
  <2> QED BY <2>1 DEF Init, DueOrder
<1>2. TInv /\ DueOrder /\ [Next]_vars => DueOrder' BY OrderKept
<1> QED BY <1>1, <1>2, AlwaysTInv, PTL DEF Spec

-----------------------------------------------------------------------------
(* With one loop each timer is in one place.                               *)

\* getID gives every call its own number: nobody else counts.
OwnIds == /\ counter = Len(calls)
          /\ \A c \in DOMAIN calls : calls[c].id = c
          /\ \A n \in timers : n.id = n.call /\ n.id \in DOMAIN ids /\ ids[n.id] = n.expire
          /\ \A i \in DOMAIN batch : batch[i].id = batch[i].call

Waits(c) == \E n \in timers : n.call = c
IsTaken(c) == \E i \in DOMAIN batch : batch[i].call = c

\* No call has two nodes, and those that have none are over.
InOnePlace(c) == /\ Waits(c) => ~IsTaken(c) /\ ~Over(c)
                 /\ IsTaken(c) => ~Over(c)
                 /\ Waits(c) \/ IsTaken(c) \/ Over(c)

Apart == /\ \A m, n \in timers : m.call = n.call => m = n
         /\ \A i, j \in DOMAIN batch : batch[i].call = batch[j].call => i = j
         /\ \A c \in DOMAIN calls : InOnePlace(c)

PInv == TInv /\ (single => OwnIds /\ Apart)

LEMMA PlaceHolds == Init => PInv
<1> SUFFICES ASSUME Init PROVE PInv OBVIOUS
<1>1. DOMAIN <<>> = {} /\ Len(<<>>) = 0 BY EmptySeq
<1>2. OwnIds BY <1>1 DEF Init, OwnIds
<1>3. Apart BY <1>1 DEF Init, Apart, InOnePlace
<1> QED BY <1>2, <1>3, TInvHolds DEF PInv

LEMMA AddKeepsPlaces ==
  ASSUME PInv, single, LoopAdds \/ OthersAdd \/ AcceptorAdds
  PROVE  OwnIds' /\ Apart'
<1>1. PICK msec \in Delays, again \in BOOLEAN : AddTimer(msec, again)
  BY DEF LoopAdds, OthersAdd, AcceptorAdds
<1> DEFINE k == Len(calls) + 1
           node == NewNode(k, msec)
<1>2. TInv /\ OwnIds /\ Apart BY DEF PInv
<1>3. DOMAIN calls = 1 .. Len(calls) /\ Len(calls) \in Nat /\ k \notin DOMAIN calls
  BY <1>2, Elements
<1>4. NextIds = {k} BY <1>2 DEF NextIds, OwnIds
<1>5. /\ counter' = k /\ node.id = k /\ node.call = k
      /\ timers' = Emplaced(node) /\ ids' = Recorded(node)
      /\ DOMAIN calls' = 1 .. k /\ Len(calls') = k
      /\ \A c \in DOMAIN calls : calls'[c] = calls[c]
      /\ calls'[k].id = k /\ calls'[k].state = "set"
  <2>1. PICK id \in NextIds :
           /\ counter' = id
           /\ timers' = Emplaced(NewNode(id, msec)) /\ ids' = Recorded(NewNode(id, msec))
           /\ calls' \in Seq(Calls) /\ DOMAIN calls' = 1 .. Len(calls) + 1
           /\ \A c \in DOMAIN calls : calls'[c] = calls[c]
           /\ calls'[Len(calls) + 1] = [id |-> id, msec |-> msec, again |-> again, state |-> "set"]
    BY <1>1, <1>2, AddTimerAdds
  <2>2. id = k BY <1>4, <2>1
  <2>3. Len(calls') \in Nat /\ DOMAIN calls' = 1 .. Len(calls') BY <2>1, LenProperties
  <2>4. Len(calls') = k BY <1>3, <2>1, <2>3
  <2>5. node.id = k /\ node.call = k BY DEF NewNode
  <2> QED BY <2>1, <2>2, <2>4, <2>5
<1>6. UNCHANGED batch BY <1>1 DEF AddTimer
<1> HIDE DEF k, node
<1>7. \A n \in timers : n.id # k /\ n.call # k
  BY <1>2, <1>3 DEF OwnIds, TInv, Known
<1>8. timers' = timers \cup {node} BY <1>5, <1>7 DEF Emplaced
<1>9. OwnIds'
  <2>1. \A c \in DOMAIN calls' : calls'[c].id = c
    BY <1>2, <1>3, <1>5 DEF OwnIds, k
  <2>2. \A n \in timers' : n.id = n.call /\ n.id \in DOMAIN ids' /\ ids'[n.id] = n.expire
    BY <1>2, <1>5, <1>7, <1>8 DEF OwnIds, Recorded
  <2> QED BY <1>2, <1>5, <1>6, <2>1, <2>2 DEF OwnIds
<1>10. Apart'
  <2>1. \A m, n \in timers' : m.call = n.call => m = n
    BY <1>2, <1>5, <1>7, <1>8 DEF Apart
  <2>2. ASSUME NEW c \in DOMAIN calls' PROVE InOnePlace(c)'
    <3>1. CASE c \in DOMAIN calls
      <4>1. c # k /\ calls'[c] = calls[c] BY <1>3, <1>5, <3>1
      <4>2. Waits(c)' <=> Waits(c) BY <1>5, <1>8, <4>1 DEF Waits
      <4>3. IsTaken(c)' <=> IsTaken(c) BY <1>6 DEF IsTaken
      <4>4. Over(c)' <=> Over(c) BY <4>1 DEF Over
      <4>5. InOnePlace(c) BY <1>2, <3>1 DEF Apart
      <4> QED BY <4>2, <4>3, <4>4, <4>5 DEF InOnePlace
    <3>2. CASE c \notin DOMAIN calls
      <4>1. c = k BY <1>3, <1>5, <3>2 DEF k
      <4>2. Waits(c)' BY <1>5, <1>8, <4>1 DEF Waits
      <4>3. ~IsTaken(c)' BY <1>2, <1>6, <3>2 DEF IsTaken, TInv, Known
      <4>4. ~Over(c)' BY <1>5, <4>1 DEF Over
      <4> QED BY <4>2, <4>3, <4>4 DEF InOnePlace
    <3> QED BY <3>1, <3>2
  <2> QED BY <1>2, <1>6, <2>1, <2>2 DEF Apart
<1> QED BY <1>9, <1>10

LEMMA SameLength ==
  ASSUME NEW S, NEW s \in Seq(S), NEW t \in Seq(S), DOMAIN s = DOMAIN t
  PROVE  Len(s) = Len(t)
<1>1. /\ Len(s) \in Nat /\ DOMAIN s = 1 .. Len(s)
      /\ Len(t) \in Nat /\ DOMAIN t = 1 .. Len(t)
  BY LenProperties
<1> DEFINE m == Len(s)
           n == Len(t)
<1>2. m \in Nat /\ n \in Nat /\ 1 .. m = 1 .. n BY <1>1
<1> HIDE DEF m, n
<1>3. ~(m < n) /\ ~(n < m)
  <2>1. m < n => n \in 1 .. n /\ n \notin 1 .. m BY <1>2
  <2>2. n < m => m \in 1 .. m /\ m \notin 1 .. n BY <1>2
  <2> QED BY <1>2, <2>1, <2>2
<1>4. m = n BY <1>2, <1>3
<1> QED BY <1>4 DEF m, n

\* delTimer finds exactly the node of the call it is given the id of.
LEMMA DelTimerKeepsPlaces ==
  ASSUME PInv, single, NEW c \in DOMAIN calls, DelTimer(c)
  PROVE  OwnIds' /\ Apart' /\ Waits(c)
<1>1. TInv /\ OwnIds /\ Apart BY DEF PInv
<1>2. calls[c].id = c BY <1>1 DEF OwnIds
<1>3. Found(c) = {n \in timers : n.call = c} BY <1>1 DEF Found, OwnIds
<1>4. timers' = timers \ Found(c) /\ Found(c) # {} BY <1>2 DEF DelTimer
<1>5. UNCHANGED <<batch, ids, counter>> BY DEF DelTimer
<1>6. /\ DOMAIN calls' = DOMAIN calls /\ Len(calls') = Len(calls)
      /\ \A d \in DOMAIN calls : d # c => calls'[d] = calls[d]
      /\ calls'[c].id = calls[c].id /\ calls'[c].state = "cancelled"
  <2>1. calls' = [calls EXCEPT ![c].state = "cancelled"] BY DEF DelTimer
  <2>2. calls[c] \in Calls /\ calls \in Seq(Calls) BY <1>1, Elements DEF TInv, TypeOK
  <2>3. [calls[c] EXCEPT !.state = "cancelled"] \in Calls BY <2>2 DEF Calls
  <2>4. /\ [calls[c] EXCEPT !.state = "cancelled"].id = calls[c].id
        /\ [calls[c] EXCEPT !.state = "cancelled"].state = "cancelled"
    BY <2>2 DEF Calls
  <2>5. /\ calls' \in Seq(Calls) /\ DOMAIN calls' = DOMAIN calls
        /\ \A d \in DOMAIN calls : d # c => calls'[d] = calls[d]
        /\ calls'[c] = [calls[c] EXCEPT !.state = "cancelled"]
    BY <1>1, <2>1, <2>2, <2>3, Elements
  <2> QED BY <2>2, <2>4, <2>5, SameLength
<1>7. Waits(c) BY <1>3, <1>4 DEF Waits
<1>8. OwnIds'
  <2>1. \A d \in DOMAIN calls' : calls'[d].id = d BY <1>1, <1>6 DEF OwnIds
  <2> QED BY <1>1, <1>4, <1>5, <1>6, <2>1 DEF OwnIds
<1>9. Apart'
  <2>1. ASSUME NEW d \in DOMAIN calls' PROVE InOnePlace(d)'
    <3>1. InOnePlace(d) /\ d \in DOMAIN calls BY <1>1, <1>6 DEF Apart
    <3>2. IsTaken(d)' <=> IsTaken(d) BY <1>5 DEF IsTaken
    <3>3. CASE d = c
      <4>1. ~Waits(d)' /\ ~IsTaken(d) BY <1>3, <1>4, <1>7, <3>1, <3>3 DEF Waits, InOnePlace
      <4>2. Over(d)' BY <1>6, <3>3 DEF Over
      <4> QED BY <3>2, <4>1, <4>2 DEF InOnePlace
    <3>4. CASE d # c
      <4>1. Waits(d)' <=> Waits(d) BY <1>3, <1>4, <3>4 DEF Waits
      <4>2. Over(d)' <=> Over(d) BY <1>6, <3>1, <3>4 DEF Over
      <4> QED BY <3>1, <3>2, <4>1, <4>2 DEF InOnePlace
    <3> QED BY <3>3, <3>4
  <2> QED BY <1>1, <1>4, <1>5, <2>1 DEF Apart
<1> QED BY <1>7, <1>8, <1>9

\* A node that is due goes from the one place to the other.
LEMMA CheckTimerKeepsPlaces ==
  ASSUME PInv, single, CheckTimer
  PROVE  OwnIds' /\ Apart'
<1>1. TInv /\ OwnIds /\ Apart BY DEF PInv
<1>2. /\ \A i \in DOMAIN batch' : batch'[i] \in Due
      /\ \A i, j \in DOMAIN batch' : i < j => Before(batch'[i], batch'[j])
      /\ \A n \in Due : \E i \in DOMAIN batch' : batch'[i] = n
      /\ batch' \in Seq(Nodes)
  BY <1>1, BatchTaken
<1>3. timers' = timers \ Due /\ Due \subseteq timers /\ UNCHANGED <<counter, ids, calls>>
  BY DEF CheckTimer, Due
<1>4. batch = <<>> BY <1>1 DEF TInv, Known, CheckTimer
<1>5. ASSUME NEW i \in DOMAIN batch', NEW j \in DOMAIN batch', batch'[i].call = batch'[j].call
      PROVE  i = j
  <2>1. batch'[i] = batch'[j] BY <1>1, <1>2, <1>3, <1>5 DEF Apart
  <2>2. batch'[i] \in Nodes BY <1>1, <1>2, <1>3 DEF TInv, TypeOK
  <2>3. ~Before(batch'[i], batch'[i]) BY <2>2 DEF Before, Nodes
  <2>4. i \in Nat /\ j \in Nat BY <1>2, LenProperties
  <2> QED BY <1>2, <2>1, <2>3, <2>4
<1>6. OwnIds' BY <1>1, <1>2, <1>3 DEF OwnIds
<1>7. ASSUME NEW c \in DOMAIN calls' PROVE InOnePlace(c)'
  <2>1. InOnePlace(c) BY <1>1, <1>3 DEF Apart
  <2>2. ~IsTaken(c)
    <3>1. DOMAIN <<>> = {} BY EmptySeq
    <3> QED BY <1>4, <3>1 DEF IsTaken
  <2>3. Over(c)' <=> Over(c) BY <1>3 DEF Over
  <2>4. Waits(c) <=> Waits(c)' \/ IsTaken(c)' BY <1>2, <1>3 DEF Waits, IsTaken
  <2>5. ~(Waits(c)' /\ IsTaken(c)') BY <1>1, <1>2, <1>3 DEF Waits, IsTaken, Apart
  <2> QED BY <2>1, <2>2, <2>3, <2>4, <2>5 DEF InOnePlace
<1>8. Apart' BY <1>1, <1>3, <1>5, <1>7 DEF Apart
<1> QED BY <1>6, <1>8

\* A recurring timer goes back, any other is over.
LEMMA CallbackKeepsPlaces ==
  ASSUME PInv, single, CallbackReturns
  PROVE  OwnIds' /\ Apart'
<1>1. TInv /\ OwnIds /\ Apart BY DEF PInv
<1>0. PICK f \in DOMAIN calls : f = Fired BY <1>1, CallbackEnds
<1> DEFINE node == Renewed(Fired, Head(batch))
<1>2. /\ 1 \in DOMAIN batch /\ f = batch[1].call /\ f \in DOMAIN calls
      /\ batch' = Tail(batch) /\ batch # <<>>
      /\ calls' \in Seq(Calls) /\ DOMAIN calls' = DOMAIN calls
      /\ \A c \in DOMAIN calls : c # f => calls'[c] = calls[c]
      /\ calls'[f] = [calls[f] EXCEPT !.state = "fired"]
      /\ node.id = batch[1].id /\ node.call = f
  BY <1>0, <1>1, CallbackEnds, EmptySeq
<1>3. batch[1].id = f BY <1>1, <1>2 DEF OwnIds
<1>4. /\ calls[f] \in Calls
      /\ calls'[f].id = calls[f].id /\ calls'[f].again = calls[f].again
      /\ calls'[f].state = "fired"
  BY <1>1, <1>2, Elements DEF Calls
<1>5. IF calls[f].again THEN timers' = Emplaced(node) /\ ids' = Recorded(node)
                        ELSE UNCHANGED <<timers, ids>>
  BY <1>0 DEF CallbackReturns
<1>6. UNCHANGED counter BY DEF CallbackReturns
<1> HIDE DEF node
<1>7. IsTaken(f) /\ ~Waits(f) /\ ~Over(f)
  BY <1>1, <1>2 DEF IsTaken, Apart, InOnePlace
<1>8. \A n \in timers : n.id # f /\ n.call # f BY <1>1, <1>7 DEF Waits, OwnIds
<1>9. timers' = timers \cup (IF calls[f].again THEN {node} ELSE {})
  BY <1>2, <1>3, <1>5, <1>8 DEF Emplaced
<1>10. /\ \A i \in DOMAIN batch' : /\ i \in Nat /\ i + 1 \in DOMAIN batch
                                   /\ i + 1 # 1 /\ batch'[i] = batch[i + 1]
       /\ \A i \in DOMAIN batch : i = 1 \/ (i - 1 \in DOMAIN batch' /\ batch'[i - 1] = batch[i])
  <2>1. /\ Len(batch) \in Nat /\ DOMAIN batch = 1 .. Len(batch)
        /\ DOMAIN batch' = 1 .. (Len(batch) - 1)
        /\ \A i \in DOMAIN batch' : batch'[i] = batch[i + 1]
    BY <1>1, <1>2, Elements
  <2>2. \A i \in DOMAIN batch' : i \in Nat /\ i + 1 \in DOMAIN batch /\ i + 1 # 1 BY <2>1
  <2>3. ASSUME NEW i \in DOMAIN batch, i # 1
        PROVE  i - 1 \in DOMAIN batch' /\ batch'[i - 1] = batch[i]
    <3>1. i - 1 \in DOMAIN batch' /\ i = (i - 1) + 1 BY <2>1, <2>3
    <3> QED BY <2>1, <3>1
  <2> QED BY <2>1, <2>2, <2>3
<1>11. OwnIds'
  <2>1. Len(calls') = Len(calls) BY <1>1, <1>2, SameLength DEF TInv, TypeOK
  <2>2. \A c \in DOMAIN calls' : calls'[c].id = c BY <1>1, <1>2, <1>4 DEF OwnIds
  <2>3. ASSUME NEW n \in timers'
        PROVE  n.id = n.call /\ n.id \in DOMAIN ids' /\ ids'[n.id] = n.expire
    <3>1. CASE calls[f].again
      BY <1>1, <1>2, <1>3, <1>5, <1>8, <1>9, <3>1 DEF OwnIds, Recorded
    <3>2. CASE ~calls[f].again
      BY <1>1, <1>5, <1>9, <3>2 DEF OwnIds
    <3> QED BY <3>1, <3>2
  <2>4. \A i \in DOMAIN batch' : batch'[i].id = batch'[i].call BY <1>1, <1>10 DEF OwnIds
  <2> QED BY <1>1, <1>6, <2>1, <2>2, <2>3, <2>4 DEF OwnIds
<1>12. \A m, n \in timers' : m.call = n.call => m = n
  BY <1>1, <1>2, <1>8, <1>9 DEF Apart
<1>13. \A i, j \in DOMAIN batch' : batch'[i].call = batch'[j].call => i = j
  BY <1>1, <1>10 DEF Apart
<1>14. ASSUME NEW c \in DOMAIN calls' PROVE InOnePlace(c)'
  <2>1. c \in DOMAIN calls /\ InOnePlace(c) BY <1>1, <1>2 DEF Apart
  <2>2. CASE c = f
    <3>1. ~IsTaken(f)'
      BY <1>1, <1>2, <1>10 DEF IsTaken, Apart
    <3>2. Waits(f)' <=> calls[f].again BY <1>2, <1>8, <1>9 DEF Waits
    <3>3. Over(f)' <=> ~calls[f].again BY <1>4 DEF Over
    <3> QED BY <2>2, <3>1, <3>2, <3>3 DEF InOnePlace
  <2>3. CASE c # f
    <3>1. IsTaken(c)' <=> IsTaken(c)
      <4>1. IsTaken(c)' => IsTaken(c) BY <1>10 DEF IsTaken
      <4>2. ASSUME NEW i \in DOMAIN batch, batch[i].call = c PROVE IsTaken(c)'
        <5>1. i - 1 \in DOMAIN batch' /\ batch'[i - 1] = batch[i]
          BY <1>2, <1>10, <2>3, <4>2
        <5> QED BY <4>2, <5>1 DEF IsTaken
      <4> QED BY <4>1, <4>2 DEF IsTaken
    <3>2. Waits(c)' <=> Waits(c) BY <1>2, <1>9, <2>3 DEF Waits
    <3>3. Over(c)' <=> Over(c) BY <1>2, <2>1, <2>3 DEF Over
    <3> QED BY <2>1, <3>1, <3>2, <3>3 DEF InOnePlace
  <2> QED BY <2>2, <2>3
<1> QED BY <1>11, <1>12, <1>13, <1>14 DEF Apart

LEMMA PlacesKept == ASSUME PInv, [Next]_vars PROVE PInv'
<1>1. TInv' BY TypesKept DEF PInv
<1>2. single' = single
  BY DEF Next, Tick, LoopAdds, OthersAdd, AcceptorAdds, AddTimer, AcceptorHandsOver, DelTimer,
         LoopStep, CheckTimer, Fire, CallbackReturns, Sleep, Wake, WakeByTimeout,
         WakeByEventfd, WakeBySocket, clock, vars
<1>3. ASSUME single PROVE OwnIds' /\ Apart'
  <2>1. CASE \/ Tick \/ AcceptorHandsOver \/ Fire \/ Sleep
             \/ WakeByTimeout \/ WakeByEventfd \/ WakeBySocket \/ UNCHANGED vars
    <3>1. UNCHANGED <<counter, timers, ids, batch, calls>>
      BY <2>1 DEF Tick, AcceptorHandsOver, Fire, Sleep, WakeByTimeout, WakeByEventfd,
                  WakeBySocket, Wake, vars
    <3>2. OwnIds /\ Apart BY <1>3 DEF PInv
    <3>3. OwnIds' BY <3>1, <3>2 DEF OwnIds
    <3>4. Apart' BY <3>1, <3>2 DEF Apart, InOnePlace, Waits, IsTaken, Over
    <3> QED BY <3>3, <3>4
  <2> QED BY <1>3, <2>1, AddKeepsPlaces, DelTimerKeepsPlaces, CheckTimerKeepsPlaces,
             CallbackKeepsPlaces DEF Next, LoopStep
<1> QED BY <1>1, <1>2, <1>3 DEF PInv

LEMMA AlwaysPInv == Spec => []PInv
  BY PlaceHolds, PlacesKept, PTL DEF Spec

\* One place, counted.
LEMMA Counted ==
  ASSUME PInv, single, NEW c \in DOMAIN calls
  PROVE  Cardinality(Waiting(c)) + Cardinality(Taken(c)) + (IF Over(c) THEN 1 ELSE 0) = 1
<1>1. InOnePlace(c) /\ Apart BY DEF PInv, Apart
<1>2. Cardinality(Waiting(c)) = IF Waits(c) THEN 1 ELSE 0
  <2>1. CASE Waits(c)
    <3>1. PICK n \in timers : n.call = c BY <2>1 DEF Waits
    <3>2. Waiting(c) = {n} BY <1>1, <3>1 DEF Waiting, Apart
    <3> QED BY <2>1, <3>2, FS_Singleton
  <2>2. CASE ~Waits(c)
    <3>1. Waiting(c) = {} BY <2>2 DEF Waiting, Waits
    <3> QED BY <2>2, <3>1, FS_EmptySet
  <2> QED BY <2>1, <2>2
<1>3. Cardinality(Taken(c)) = IF IsTaken(c) THEN 1 ELSE 0
  <2>1. CASE IsTaken(c)
    <3>1. PICK i \in DOMAIN batch : batch[i].call = c BY <2>1 DEF IsTaken
    <3>2. Taken(c) = {i} BY <1>1, <3>1 DEF Taken, Apart
    <3> QED BY <2>1, <3>2, FS_Singleton
  <2>2. CASE ~IsTaken(c)
    <3>1. Taken(c) = {} BY <2>2 DEF Taken, IsTaken
    <3> QED BY <2>2, <3>1, FS_EmptySet
  <2> QED BY <2>1, <2>2
<1> QED BY <1>1, <1>2, <1>3 DEF InOnePlace

\* With one loop no timer is lost and none has two nodes, whatever is added and
\* deleted while callbacks run without the lock (timer.cc:47-85).
THEOREM OnePlaceEach == Spec => []OnePlace
<1>1. PInv => OnePlace BY Counted DEF OnePlace
<1> QED BY <1>1, AlwaysPInv, PTL

\* With one loop a timer that delTimer found does not run any more, and is not
\* set again, though callbacks run without the lock (timer.cc:47-68).
THEOREM DeletedForGood == Spec => CancelledStaysCancelled
<1>1. ASSUME PInv, [Next]_vars, NEW c \in DOMAIN calls, single, calls[c].state = "cancelled"
      PROVE  /\ calls'[c].state = "cancelled"
             /\ ~(lpc = "check" /\ lpc' = "callback" /\ Fired = c)
  <2>1. TInv /\ Apart /\ InOnePlace(c) BY <1>1 DEF PInv, Apart
  <2>2. ~Waits(c) /\ ~IsTaken(c) BY <1>1, <2>1 DEF InOnePlace, Over
  <2>3. \/ LoopAdds \/ OthersAdd \/ AcceptorAdds \/ CallbackReturns
        \/ \E d \in DOMAIN calls : DelTimer(d)
        \/ UNCHANGED calls
    BY <1>1 DEF Next, Tick, AcceptorHandsOver, LoopStep, CheckTimer, Fire, Sleep, Wake,
                WakeByTimeout, WakeByEventfd, WakeBySocket, vars
  <2>4. calls'[c].state = "cancelled"
    <3>1. CASE LoopAdds \/ OthersAdd \/ AcceptorAdds
      <4>1. PICK msec \in Delays, again \in BOOLEAN : AddTimer(msec, again)
        BY <3>1 DEF LoopAdds, OthersAdd, AcceptorAdds
      <4>2. calls'[c] = calls[c] BY <2>1, <4>1, AddTimerAdds
      <4> QED BY <1>1, <4>2
    <3>2. CASE CallbackReturns
      <4>1. c # Fired BY <2>1, <2>2, <3>2, CallbackEnds DEF IsTaken
      <4> QED BY <1>1, <2>1, <3>2, <4>1, CallbackEnds
    <3>3. CASE \E d \in DOMAIN calls : DelTimer(d)
      <4>1. PICK d \in DOMAIN calls : calls' = [calls EXCEPT ![d].state = "cancelled"]
        BY <3>3 DEF DelTimer
      <4>2. calls[d] \in Calls BY <2>1, Elements
      <4>3. calls'[c] = IF c = d THEN [calls[c] EXCEPT !.state = "cancelled"] ELSE calls[c]
        BY <4>1
      <4> QED BY <1>1, <4>2, <4>3 DEF Calls
    <3>4. CASE UNCHANGED calls BY <1>1, <3>4
    <3> QED BY <2>3, <3>1, <3>2, <3>3, <3>4
  <2>5. ASSUME lpc = "check", lpc' = "callback" PROVE Fired # c
    <3>1. batch # <<>>
      BY <1>1, <2>5 DEF Next, Tick, LoopAdds, OthersAdd, AcceptorAdds, AddTimer, AcceptorHandsOver,
            DelTimer, LoopStep, CheckTimer, Fire, CallbackReturns, Sleep, Wake,
            WakeByTimeout, WakeByEventfd, WakeBySocket, vars
    <3>2. Head(batch) = batch[1] /\ 1 \in DOMAIN batch BY <2>1, <3>1, Elements
    <3> QED BY <2>2, <3>2 DEF Fired, IsTaken
  <2> QED BY <2>4, <2>5
<1>2. PInv /\ [Next]_vars =>
        [\A c \in DOMAIN calls : single /\ calls[c].state = "cancelled" =>
           /\ calls'[c].state = "cancelled"
           /\ ~(lpc = "check" /\ lpc' = "callback" /\ Fired = c)]_vars
  BY <1>1
<1> QED BY <1>2, AlwaysPInv, PTL DEF Spec, CancelledStaysCancelled

-----------------------------------------------------------------------------
(* The timers implement TimerService.                                      *)

\* _ids has the expiry of every call, and that of a node in the batch is still
\* there when its callback runs.
Timed == /\ \A c \in DOMAIN calls : c \in DOMAIN ids
         /\ \A i \in DOMAIN batch : ids[batch[i].call] = batch[i].expire

LEMMA TimedKept == ASSUME PInv, single, Timed, [Next]_vars PROVE Timed'
<1>1. TInv /\ OwnIds /\ Apart BY DEF PInv
<1>2. CASE LoopAdds \/ OthersAdd \/ AcceptorAdds
  <2>1. PICK msec \in Delays, again \in BOOLEAN : AddTimer(msec, again)
    BY <1>2 DEF LoopAdds, OthersAdd, AcceptorAdds
  <2>2. NextIds = {Len(calls) + 1} BY <1>1 DEF NextIds, OwnIds
  <2>3. /\ ids' = Recorded(NewNode(Len(calls) + 1, msec))
        /\ DOMAIN calls' = 1 .. Len(calls) + 1
    BY <1>1, <2>1, <2>2, AddTimerAdds
  <2>4. NewNode(Len(calls) + 1, msec).id = Len(calls) + 1 BY DEF NewNode
  <2>5. /\ DOMAIN ids' = DOMAIN ids \cup {Len(calls) + 1}
        /\ \A i \in DOMAIN ids : i # Len(calls) + 1 => ids'[i] = ids[i]
    BY <2>3, <2>4 DEF Recorded
  <2>6. /\ DOMAIN calls' = DOMAIN calls \cup {Len(calls) + 1}
        /\ Len(calls) + 1 \notin DOMAIN calls
    BY <1>1, <2>3, Elements
  <2>7. UNCHANGED batch /\ \A i \in DOMAIN batch : batch[i].call \in DOMAIN calls
    BY <1>1, <2>1 DEF AddTimer, TInv, Known
  <2> QED BY <2>5, <2>6, <2>7 DEF Timed
<1>3. CASE CheckTimer
  <2>1. \A i \in DOMAIN batch' : batch'[i] \in timers BY <1>1, <1>3, BatchTaken DEF Due
  <2> QED BY <1>1, <1>3, <2>1 DEF CheckTimer, OwnIds, Timed
<1>4. CASE CallbackReturns
  <2>1. PICK f \in DOMAIN calls : f = Fired BY <1>1, <1>4, CallbackEnds
  <2>2. /\ 1 \in DOMAIN batch /\ batch[1].call = f /\ batch[1].id = f
        /\ batch' = Tail(batch) /\ batch # <<>> /\ DOMAIN calls' = DOMAIN calls
    BY <1>1, <1>4, <2>1, CallbackEnds, EmptySeq DEF OwnIds
  <2>3. DOMAIN ids' = DOMAIN ids /\ \A i \in DOMAIN ids : i # f => ids'[i] = ids[i]
    <3> DEFINE node == Renewed(Fired, Head(batch))
    <3>1. node.id = f BY <1>1, <1>4, <2>2, CallbackEnds
    <3>2. ids' = ids \/ ids' = Recorded(node) BY <1>4 DEF CallbackReturns
    <3> HIDE DEF node
    <3> QED BY <2>1, <3>1, <3>2 DEF Recorded, Timed
  <2>4. ASSUME NEW i \in DOMAIN batch'
        PROVE  batch'[i].call \in DOMAIN ids /\ batch'[i].call # f
               /\ ids[batch'[i].call] = batch'[i].expire
    <3>1. i \in Nat /\ i + 1 \in DOMAIN batch /\ batch'[i] = batch[i + 1] /\ i + 1 # 1
      BY <1>1, <2>2, Elements
    <3> QED BY <1>1, <2>2, <3>1 DEF Timed, Apart, TInv, Known
  <2> QED BY <2>2, <2>3, <2>4 DEF Timed
<1>5. CASE \E c \in DOMAIN calls : DelTimer(c)
  <2>1. DOMAIN calls' = DOMAIN calls /\ UNCHANGED <<ids, batch>> BY <1>5 DEF DelTimer
  <2> QED BY <2>1 DEF Timed
<1>6. CASE \/ Tick \/ AcceptorHandsOver \/ Fire \/ Sleep
           \/ WakeByTimeout \/ WakeByEventfd \/ WakeBySocket \/ UNCHANGED vars
  <2>1. UNCHANGED <<ids, batch, calls>>
    BY <1>6 DEF Tick, AcceptorHandsOver, Fire, Sleep, WakeByTimeout, WakeByEventfd,
                WakeBySocket, Wake, vars
  <2> QED BY <2>1 DEF Timed
<1> QED BY <1>2, <1>3, <1>4, <1>5, <1>6 DEF Next, LoopStep

\* What the steps below rest on, with one loop.
Served == TInv /\ OwnIds /\ Apart /\ DueOrder /\ Timed

\* The alarm of a call.
LEMMA AlarmOf ==
  ASSUME NEW c \in DOMAIN calls
  PROVE  /\ c \in DOMAIN Alarms
         /\ Alarms[c].due = ids[c] /\ Alarms[c].msec = calls[c].msec
         /\ Alarms[c].again = calls[c].again /\ Alarms[c].live = ~Over(c)
         /\ c \in TS!Live <=> ~Over(c)
BY DEF Alarms, TS!Live

\* addTimer sets an alarm under an id of its own.
LEMMA AddsAlarm ==
  ASSUME Served, single, LoopAdds \/ OthersAdd \/ AcceptorAdds
  PROVE  TS!Next
<1>1. PICK msec \in Delays, again \in BOOLEAN : AddTimer(msec, again)
  BY DEF LoopAdds, OthersAdd, AcceptorAdds
<1>2. TInv /\ Timed BY DEF Served
<1>3. PICK k \in Nat : k = Len(calls) + 1 /\ k \notin DOMAIN calls /\ k \in 1 .. MaxCalls
                       /\ DOMAIN calls \cup {k} = 1 .. Len(calls) + 1
  BY <1>1, <1>2, Elements DEF AddTimer
<1>4. NextIds = {k} BY <1>3 DEF NextIds, Served, OwnIds
<1>5. /\ ids' = Recorded(NewNode(k, msec))
      /\ DOMAIN calls' = DOMAIN calls \cup {k}
      /\ \A c \in DOMAIN calls : calls'[c] = calls[c]
      /\ calls'[k] = [id |-> k, msec |-> msec, again |-> again, state |-> "set"]
  BY <1>1, <1>2, <1>3, <1>4, AddTimerAdds
<1>6. /\ ids'[k] = now + msec
      /\ \A c \in DOMAIN calls : ids'[c] = ids[c]
  BY <1>2, <1>3, <1>5 DEF Recorded, NewNode, Timed
<1>7. /\ \A c \in DOMAIN calls : Over(c)' = Over(c)
      /\ ~Over(k)'
  BY <1>5 DEF Over
<1>8. Alarms' = [d \in DOMAIN Alarms \cup {k} |->
                    IF d = k THEN TS!Alarm(msec, again) ELSE Alarms[d]]
  <2>1. Alarms'[k] = TS!Alarm(msec, again)
    <3>1. (~Over(k)') = TRUE BY <1>7 DEF Over
    <3>2. Alarms'[k] = [due |-> ids'[k], msec |-> msec, again |-> again, live |-> ~Over(k)']
      BY <1>5 DEF Alarms
    <3> QED BY <1>6, <3>1, <3>2 DEF TS!Alarm
  <2>2. \A d \in DOMAIN calls : Alarms'[d] = Alarms[d] BY <1>5, <1>6, <1>7 DEF Alarms
  <2>3. DOMAIN Alarms' = DOMAIN Alarms \cup {k} /\ DOMAIN Alarms = DOMAIN calls
    BY <1>5 DEF Alarms
  <2>4. Alarms' = [d \in DOMAIN Alarms' |-> Alarms'[d]] BY DEF Alarms
  <2> QED BY <1>3, <2>1, <2>2, <2>3, <2>4
<1>9. UNCHANGED <<now, Running>> BY <1>1 DEF AddTimer, clock, Running, Fired
<1>10. k \notin DOMAIN Alarms BY <1>3 DEF Alarms
<1>11. TS!Add(k, msec, again) BY <1>8, <1>9, <1>10 DEF TS!Add
<1> QED BY <1>3, <1>11 DEF TS!Next

\* delTimer finds only what is neither over nor being run.
LEMMA DeletesAlarm ==
  ASSUME Served, single, NEW c \in DOMAIN calls, DelTimer(c)
  PROVE  TS!Next
<1>1. TInv /\ OwnIds /\ Apart BY DEF Served
<1>2. Waits(c) /\ ~IsTaken(c) /\ ~Over(c)
  BY <1>1, DelTimerKeepsPlaces DEF PInv, Apart, InOnePlace
<1>3. /\ DOMAIN calls' = DOMAIN calls
      /\ \A d \in DOMAIN calls : d # c => calls'[d] = calls[d]
      /\ calls'[c] = [calls[c] EXCEPT !.state = "cancelled"] /\ calls[c] \in Calls
  BY <1>1, Elements DEF DelTimer
<1>4. /\ \A d \in DOMAIN calls : d # c => Over(d)' = Over(d)
      /\ Over(c)' /\ calls'[c].msec = calls[c].msec /\ calls'[c].again = calls[c].again
  BY <1>3 DEF Over, Calls
<1>5. Alarms' = [Alarms EXCEPT ![c].live = FALSE] BY <1>3, <1>4 DEF Alarms, DelTimer
<1>6. UNCHANGED <<now, Running>> BY DEF DelTimer, clock, Running, Fired
<1>7. c \notin Running
  <2>1. lpc = "callback" => 1 \in DOMAIN batch /\ Fired = batch[1].call
    BY <1>1, Elements DEF TInv, TypeOK, Fired
  <2> QED BY <1>2, <2>1 DEF Running, IsTaken
<1>8. TS!Delete(c) BY <1>2, <1>5, <1>6, <1>7, AlarmOf DEF TS!Delete
<1>9. c \in 1 .. MaxCalls
  BY <1>1, <1>2 DEF Waits, TInv, TypeOK, Nodes
<1> QED BY <1>8, <1>9 DEF TS!Next

\* The first of the batch is a live alarm, and no other is due before it.
LEMMA RunsAlarm == ASSUME Served, single, Fire PROVE TS!Next
<1>1. TInv /\ OwnIds /\ Apart /\ DueOrder /\ Timed BY DEF Served
<1>2. PICK f \in DOMAIN calls : /\ 1 \in DOMAIN batch /\ batch[1] \in Nodes
                                /\ f = batch[1].call /\ f = Fired
  BY <1>1, Elements DEF Fire, Fired, TInv, Known
<1>3. IsTaken(f) /\ ~Over(f) BY <1>1, <1>2 DEF IsTaken, Apart, InOnePlace
<1>4. Alarms[f].due = batch[1].expire
  <2>1. Alarms[f].due = ids[f] BY AlarmOf
  <2> QED BY <1>1, <1>2, <2>1 DEF Timed
<1>5. ASSUME NEW d \in TS!Live PROVE Alarms[f].due <= Alarms[d].due
  <2>1. d \in DOMAIN calls /\ Alarms[d].due = ids[d] /\ ~Over(d)
    BY <1>5 DEF TS!Live, Alarms
  <2>2. CASE Waits(d)
    <3>1. PICK n \in timers : n.call = d BY <2>2 DEF Waits
    <3>2. ids[d] = n.expire BY <1>1, <3>1 DEF OwnIds
    <3> QED BY <1>1, <1>2, <1>4, <2>1, <3>2 DEF DueOrder
  <2>3. CASE IsTaken(d)
    <3>1. PICK i \in DOMAIN batch : batch[i].call = d BY <2>3 DEF IsTaken
    <3>2. ids[d] = batch[i].expire BY <1>1, <3>1 DEF Timed
    <3>3. i = 1 \/ 1 < i BY <1>1, Elements
    <3>4. batch[1].expire <= batch[i].expire
      BY <1>1, <1>2, <3>3 DEF DueOrder, Nodes
    <3> QED BY <1>4, <2>1, <3>2, <3>4
  <2> QED BY <1>1, <2>1, <2>2, <2>3 DEF Apart, InOnePlace
<1>6. Running = {} /\ Running' = {f} /\ UNCHANGED <<now, Alarms>>
  BY <1>2 DEF Fire, clock, Running, Fired, Alarms, Over
<1>7. Alarms[f].due <= now BY <1>1, <1>2, <1>4 DEF DueOrder
<1>8. TS!Run(f) BY <1>2, <1>3, <1>5, <1>6, <1>7, AlarmOf DEF TS!Run
<1> QED BY <1>2, <1>8 DEF TS!Next, Nodes

\* A callback that returns ends its alarm, or sets it a period from now.
LEMMA ReturnsAlarm == ASSUME Served, single, CallbackReturns PROVE TS!Next
<1>1. TInv /\ OwnIds /\ Apart /\ Timed BY DEF Served
<1>2. PICK f \in DOMAIN calls :
        /\ f = Fired /\ 1 \in DOMAIN batch /\ batch[1].call = f /\ batch[1].id = f
        /\ lpc' = "check" /\ DOMAIN calls' = DOMAIN calls
        /\ \A c \in DOMAIN calls : c # f => calls'[c] = calls[c]
        /\ calls'[f] = [calls[f] EXCEPT !.state = "fired"]
        /\ calls[f] \in Calls
  <2>1. /\ Fired \in DOMAIN calls /\ 1 \in DOMAIN batch /\ batch[1].call = Fired
        /\ lpc' = "check" /\ DOMAIN calls' = DOMAIN calls
        /\ \A c \in DOMAIN calls : c # Fired => calls'[c] = calls[c]
        /\ calls'[Fired] = [calls[Fired] EXCEPT !.state = "fired"]
    BY <1>1, CallbackEnds
  <2>2. batch[1].id = Fired BY <1>1, <2>1 DEF OwnIds
  <2>3. calls[Fired] \in Calls BY <1>1, <2>1, Elements
  <2> QED BY <2>1, <2>2, <2>3
<1> DEFINE node == Renewed(f, Head(batch))
<1>3. node.id = f /\ node.expire = now + calls[f].msec
  <2>1. Head(batch) \in Nodes BY <1>1, <1>2, Elements, EmptySeq DEF CallbackReturns, TInv, TypeOK
  <2> QED BY <1>1, <1>2, <2>1, CallbackEnds DEF Renewed, Nodes
<1>4. IF calls[f].again THEN ids' = Recorded(node) ELSE ids' = ids
  BY <1>2 DEF CallbackReturns
<1> HIDE DEF node
<1>5. /\ \A c \in DOMAIN calls : c # f => ids'[c] = ids[c]
      /\ ids'[f] = IF calls[f].again THEN now + calls[f].msec ELSE ids[f]
  BY <1>1, <1>2, <1>3, <1>4 DEF Recorded, Timed
<1>6. /\ \A c \in DOMAIN calls : c # f => Over(c)' = Over(c)
      /\ Over(f)' = ~calls[f].again
      /\ calls'[f].msec = calls[f].msec /\ calls'[f].again = calls[f].again
  BY <1>2 DEF Over, Calls
<1>7. IsTaken(f) /\ ~Over(f) BY <1>1, <1>2 DEF IsTaken, Apart, InOnePlace
<1>8. Alarms' = [Alarms EXCEPT ![f] =
                    IF Alarms[f].again THEN TS!Alarm(Alarms[f].msec, TRUE)
                                       ELSE [Alarms[f] EXCEPT !.live = FALSE]]
  <2>1. CASE calls[f].again
    <3>1. Alarms[f].again /\ Alarms[f].msec = calls[f].msec BY <2>1, AlarmOf
    <3>2. /\ ids'[f] = now + calls[f].msec
          /\ calls'[f].again = TRUE /\ (~Over(f)') = TRUE
      BY <1>2, <1>5, <1>6, <2>1 DEF Calls, Over
    <3>3. Alarms'[f] = TS!Alarm(calls[f].msec, TRUE)
      BY <1>2, <1>6, <3>2 DEF Alarms, TS!Alarm
    <3>4. \A c \in DOMAIN calls : c # f => Alarms'[c] = Alarms[c]
      BY <1>2, <1>5, <1>6 DEF Alarms
    <3>5. DOMAIN Alarms' = DOMAIN calls /\ DOMAIN Alarms = DOMAIN calls
          /\ Alarms' = [c \in DOMAIN calls |-> Alarms'[c]]
      BY <1>2 DEF Alarms
    <3> QED BY <3>1, <3>3, <3>4, <3>5
  <2>2. CASE ~calls[f].again
    BY <1>2, <1>5, <1>6, <2>2 DEF Alarms
  <2> QED BY <2>1, <2>2
<1>9. Running = {f} /\ Running' = {} /\ UNCHANGED now
  BY <1>2 DEF CallbackReturns, Running, clock
<1>10. TS!Return(f) BY <1>8, <1>9 DEF TS!Return
<1>11. f \in 1 .. MaxCalls BY <1>1, <1>2, Elements DEF Nodes
<1> QED BY <1>10, <1>11 DEF TS!Next

\* Each step of the timers is a step of TimerService or none.
LEMMA ServesStep ==
  ASSUME Served, single, [Next]_vars
  PROVE  TS!Next \/ UNCHANGED TS!vars
<1>1. CASE Tick
  <2>1. TS!Tick BY <1>1 DEF Tick, TS!Tick, Alarms, Over, Running, Fired
  <2> QED BY <2>1 DEF TS!Next
<1>2. CASE \/ AcceptorHandsOver \/ Sleep
           \/ WakeByTimeout \/ WakeByEventfd \/ WakeBySocket \/ UNCHANGED vars
  <2>1. UNCHANGED <<now, ids, calls>> /\ (lpc = "callback" <=> lpc' = "callback")
        /\ UNCHANGED batch
    BY <1>2 DEF AcceptorHandsOver, Sleep, WakeByTimeout, WakeByEventfd, WakeBySocket, Wake,
                clock, vars
  <2> QED BY <2>1 DEF TS!vars, Alarms, Over, Running, Fired
<1>3. CASE CheckTimer
  <2>1. UNCHANGED <<now, ids, calls>> /\ lpc = "pass" /\ lpc' = "check"
    BY <1>3 DEF CheckTimer, clock
  <2> QED BY <2>1 DEF TS!vars, Alarms, Over, Running
<1> QED BY <1>1, <1>2, <1>3, AddsAlarm, DeletesAlarm, RunsAlarm, ReturnsAlarm
        DEF Next, LoopStep

\* The timers of a process with one loop implement TimerService: from outside,
\* the set of nodes, the map of ids and the batches are alarms that ring when
\* they are due, in that order, one at a time and never once deleted
\* (timer.cc:29-85).
THEOREM TimersServe == Spec => ImplementsTimerService
<1> DEFINE TimedInv == single => Timed
           Step == single => TS!Next \/ UNCHANGED TS!vars
<1>1. Init => (single => TS!Init)
  <2>1. DOMAIN <<>> = {} BY EmptySeq
  <2>2. \A f : DOMAIN f = {} /\ f = [c \in DOMAIN f |-> f[c]] => f = <<>>
    OBVIOUS
  <2> QED BY <2>1, <2>2 DEF Init, TS!Init, Alarms, Running
<1>2. Init => TimedInv
  <2>1. DOMAIN <<>> = {} BY EmptySeq
  <2> QED BY <2>1 DEF Init, Timed
<1>3. PInv /\ TimedInv /\ [Next]_vars => TimedInv'
  <2>1. PInv /\ [Next]_vars => single' = single
    BY DEF Next, Tick, LoopAdds, OthersAdd, AcceptorAdds, AddTimer, AcceptorHandsOver, DelTimer,
         LoopStep, CheckTimer, Fire, CallbackReturns, Sleep, Wake, WakeByTimeout,
         WakeByEventfd, WakeBySocket, clock, vars
  <2> QED BY <2>1, TimedKept
<1>4. PInv /\ DueOrder /\ TimedInv /\ [Next]_vars => [Step]_vars
  BY ServesStep DEF Served, PInv
<1> HIDE DEF TimedInv
<1>5. Spec => []TimedInv BY <1>2, <1>3, AlwaysPInv, PTL DEF Spec
<1> QED BY <1>1, <1>4, <1>5, AlwaysPInv, RunsInOrder, PTL DEF Spec, ImplementsTimerService
-----------------------------------------------------------------------------
(* There is always a batch to take: _timers is a set in a total order.     *)

KeysDiffer(S) == \A m, n \in S : m.expire = n.expire /\ m.id = n.id => m = n

\* A set of nodes has a last one.
LEMMA LastNode ==
  ASSUME NEW S, IsFiniteSet(S), S \subseteq Nodes, S # {}, KeysDiffer(S)
  PROVE  \E n \in S : \A m \in S \ {n} : Before(m, n)
<1> DEFINE After(n) == {m \in S : Before(n, m)}
           Tails == {After(n) : n \in S}
<1>1. Tails \subseteq FiniteSubsetsOf(S)
  <2>1. \A n \in S : After(n) \in SUBSET S /\ IsFiniteSet(After(n)) BY FS_Subset
  <2> HIDE DEF After
  <2> QED BY <2>1 DEF FiniteSubsetsOf
<1>2. \E x \in Tails : \A y \in Tails : ~(<<y, x>> \in StrictSubsetOrdering(S))
  <2>1. Tails # {} OBVIOUS
  <2> HIDE DEF Tails
  <2> QED BY <1>1, <2>1, FS_StrictSubsetOrderingWellFounded, WFMin, Zenon
<1>3. PICK n \in S : \A m \in S : ~(<<After(m), After(n)>> \in StrictSubsetOrdering(S))
  BY <1>2
<1>4. \A m \in S : m.expire \in Nat /\ m.id \in Nat BY DEF Nodes
<1>5. ASSUME NEW m \in S, Before(n, m) PROVE FALSE
  <2>1. After(m) \subseteq After(n) BY <1>4, <1>5 DEF Before
  <2>2. m \in After(n) /\ m \notin After(m) BY <1>4, <1>5 DEF Before
  <2>3. After(m) \in SUBSET S /\ After(n) \in SUBSET S OBVIOUS
  <2> QED BY <2>1, <2>2, <2>3, <1>3 DEF StrictSubsetOrdering
<1>6. \A m \in S \ {n} : Before(m, n) BY <1>4, <1>5 DEF Before, KeysDiffer
<1> QED BY <1>6

LEMMA SortedWithLast ==
  ASSUME NEW S, IsFiniteSet(S), NEW n \in S, \A m \in S \ {n} : Before(m, n),
         NEW s \in Sorted(S \ {n})
  PROVE  Sorted(S) # {}
<1> DEFINE k == Cardinality(S)
           t == [i \in 1 .. k |-> IF i = k THEN n ELSE s[i]]
<1>1. k \in Nat /\ Cardinality(S \ {n}) = k - 1 /\ k - 1 \in Nat
  <2>1. IsFiniteSet(S \ {n}) /\ Cardinality(S \ {n}) = k - 1 BY FS_RemoveElement
  <2>2. k \in Nat BY FS_CardinalityType
  <2>3. Cardinality(S \ {n}) \in Nat
    <3> HIDE DEF k
    <3> QED BY <2>1, FS_CardinalityType
  <2> QED BY <2>1, <2>2, <2>3
<1>2. /\ s \in [1 .. (k - 1) -> S \ {n}]
      /\ \A i, j \in 1 .. (k - 1) : i < j => Before(s[i], s[j])
  BY <1>1 DEF Sorted
<1>3. \A i \in 1 .. k : i = k \/ i \in 1 .. (k - 1)
  <2> HIDE DEF k
  <2> QED BY <1>1
<1>4. t \in [1 .. k -> S] BY <1>2, <1>3
<1>5. ASSUME NEW i \in 1 .. k, NEW j \in 1 .. k, i < j PROVE Before(t[i], t[j])
  <2>1. i # k /\ i \in 1 .. (k - 1)
    <3> HIDE DEF k
    <3> QED BY <1>1, <1>5
  <2>2. t[i] = s[i] /\ s[i] \in S \ {n} BY <1>2, <2>1
  <2>3. CASE j = k BY <2>2, <2>3
  <2>4. CASE j # k BY <1>2, <1>3, <1>5, <2>1, <2>2, <2>4
  <2> QED BY <2>3, <2>4
<1>6. t \in Sorted(S) BY <1>4, <1>5 DEF Sorted
<1> QED BY <1>6

\* By induction: a smallest set that cannot be sorted would have a last node,
\* and without it it can.
LEMMA Sortable ==
  ASSUME NEW S, IsFiniteSet(S), S \subseteq Nodes, KeysDiffer(S)
  PROVE  Sorted(S) # {}
<1> DEFINE Bad == {T \in SUBSET S : Sorted(T) = {}}
<1> SUFFICES ASSUME Bad # {} PROVE FALSE OBVIOUS
<1>1. \A T \in SUBSET S : IsFiniteSet(T) BY FS_Subset
<1>2. Bad \subseteq FiniteSubsetsOf(S) BY <1>1 DEF FiniteSubsetsOf
<1>3. \E T \in Bad : \A U \in Bad : ~(<<U, T>> \in StrictSubsetOrdering(S))
  <2> HIDE DEF Bad
  <2> QED BY <1>2, FS_StrictSubsetOrderingWellFounded, WFMin, Zenon
<1>4. PICK T \in Bad : \A U \in Bad : ~(<<U, T>> \in StrictSubsetOrdering(S)) BY <1>3
<1>5. T \in SUBSET S /\ IsFiniteSet(T) /\ Sorted(T) = {} BY <1>1, <1>4
<1>6. T # {}
  <2>1. SUFFICES ASSUME T = {} PROVE FALSE OBVIOUS
  <2>2. Cardinality(T) = 0 BY <2>1, FS_EmptySet
  <2>3. 1 .. Cardinality(T) = {} BY <2>2
  <2>4. [i \in {} |-> i] \in [1 .. Cardinality(T) -> T] BY <2>3
  <2>5. [i \in {} |-> i] \in Sorted(T) BY <2>3, <2>4 DEF Sorted
  <2> QED BY <1>5, <2>5
<1>7. PICK n \in T : \A m \in T \ {n} : Before(m, n)
  BY <1>5, <1>6, LastNode DEF KeysDiffer
<1>8. <<T \ {n}, T>> \in StrictSubsetOrdering(S) BY <1>5, <1>7 DEF StrictSubsetOrdering
<1>9. Sorted(T \ {n}) # {} BY <1>4, <1>5, <1>8
<1> QED BY <1>5, <1>7, <1>9, SortedWithLast

LEMMA KeysKept == ASSUME TInv, KeysDiffer(timers), [Next]_vars PROVE KeysDiffer(timers)'
<1>1. CASE LoopAdds \/ OthersAdd \/ AcceptorAdds
  <2>1. PICK msec \in Delays, again \in BOOLEAN : AddTimer(msec, again)
    BY <1>1 DEF LoopAdds, OthersAdd, AcceptorAdds
  <2>2. PICK id \in NextIds : timers' = Emplaced(NewNode(id, msec)) BY <2>1, AddTimerAdds
  <2> QED BY <2>2 DEF Emplaced, KeysDiffer
<1>2. CASE CallbackReturns BY <1>2 DEF CallbackReturns, Emplaced, KeysDiffer
<1>3. CASE ~(LoopAdds \/ OthersAdd \/ AcceptorAdds \/ CallbackReturns)
  <2>1. timers' \subseteq timers BY <1>3, TimersGrow
  <2> QED BY <2>1 DEF KeysDiffer
<1> QED BY <1>1, <1>2, <1>3

\* checkTimer always has its batch, however many timers are due: those that are
\* can be taken in the one order _timers has (timer.cc:60-66).
THEOREM BatchThere == Spec => [](Sorted(Due) # {})
<1>1. Init => KeysDiffer(timers) BY DEF Init, KeysDiffer
<1>2. TInv /\ KeysDiffer(timers) /\ [Next]_vars => KeysDiffer(timers)' BY KeysKept
<1>3. TInv /\ KeysDiffer(timers) => Sorted(Due) # {}
  <2> SUFFICES ASSUME TInv, KeysDiffer(timers) PROVE Sorted(Due) # {} OBVIOUS
  <2>1. Due \in SUBSET timers BY DEF Due
  <2>2. IsFiniteSet(Due) /\ Due \subseteq Nodes BY <2>1, FS_Subset DEF TInv, TypeOK
  <2>3. KeysDiffer(Due) BY <2>1 DEF KeysDiffer
  <2> QED BY <2>2, <2>3, Sortable
<1> QED BY <1>1, <1>2, <1>3, AlwaysTInv, PTL DEF Spec
=============================================================================
