----------------------------- MODULE ReactorProofs -----------------------------
(***************************************************************************)
(* Theorems about the joins of Reactor, for any number of sub reactors:    *)
(* called by a callback of the main loop, by a thread that is waited for,  *)
(* or by the destructor alone, Stop() joins every thread once and returns  *)
(* when they have ended.  And StopListen removes the acceptor for good.    *)
(***************************************************************************)
EXTENDS Reactor, TLAPS

Calling == {"caller", "destructor"}

\* The types of what the joins depend on.
Types == /\ caller \in Callers
         /\ mpc \in {"listen", "start", "test", "pass", "ended", "destroy", "destroyed"}
         /\ started \in 0 .. N
         /\ spc \in [Subs -> {"none", "test", "wait", "lock", "ended"}]
         /\ quit \in [Loops -> BOOLEAN]
         /\ stop \in [Calling -> [at : {"idle", "main", "subs", "join", "done"}, next : 1 .. N + 1]]
         /\ joined \subseteq Subs

\* The application calls Stop() while the loops run, the destructor afterwards:
\* never both at once.
Phases == /\ stop["destructor"].at # "idle" => mpc \in {"destroy", "destroyed"}
          /\ mpc \in {"destroy", "destroyed"} => stop["caller"].at \in {"idle", "done"}
          /\ stop["caller"].at # "idle" => mpc \notin {"listen", "start"}
          /\ mpc \notin {"listen", "start"} => started = N
          /\ caller = "nobody" => stop["caller"].at = "idle"

\* The main loop's quit_ tells whether a call has passed the test.
Quits == /\ ~quit[0] => joined = {} /\ \A x \in Calling : stop[x].at \in {"idle", "main"}
         /\ \A x \in Calling : stop[x].at = "main" => ~quit[0]
         /\ quit[0] => \E x \in Calling : stop[x].at \notin {"idle", "main"}

\* How many threads each call has joined; the second call has none to join.
Joins == /\ \A x \in Calling : /\ stop[x].at = "subs" => joined = {}
                               /\ stop[x].at = "join" => /\ joined = 1 .. stop[x].next - 1
                                                         /\ stop[x].next <= started + 1
                               /\ stop[x].at = "done" => joined = 1 .. started
         /\ stop["caller"].at = "done" => stop["destructor"].at \in {"idle", "done"}
         /\ \A s \in joined : spc[s] = "ended"

IInv == Types /\ (Orderly => Phases /\ Quits /\ Joins /\ ~terminated)

-----------------------------------------------------------------------------
LEMMA InitHolds == Init => IInv
<1> SUFFICES ASSUME Init PROVE IInv OBVIOUS
<1> USE NAssumption DEF Init, Calling
<1>1. Types BY DEF Types, Callers, Subs, Loops
<1>2. Phases BY DEF Phases
<1>3. Quits BY DEF Quits, Loops
<1>4. Joins BY DEF Joins
<1> QED BY <1>1, <1>2, <1>3, <1>4 DEF IInv

\* A step of the main thread, of a sub reactor's or of listening joins nobody.
LEMMA ThreadSteps ==
  ASSUME IInv, Main \/ AcceptFails \/ LoopFails \/ StopListen \/ (\E s \in Subs : Sub(s))
  PROVE  IInv'
<1> USE NAssumption DEF IInv, Types, Orderly, Calling, Subs, listening, threads, At, MainFree, Under
<1>1. CASE StartListen
  BY <1>1 DEF StartListen, Phases, Quits, Joins
<1>2. CASE StartSub
  BY <1>2 DEF StartSub, Phases, Quits, Joins
<1>3. CASE StartMain
  BY <1>3 DEF StartMain, Phases, Quits, Joins
<1>4. CASE MainTest
  BY <1>4 DEF MainTest, Phases, Quits, Joins
<1>5. CASE Accept
  BY <1>5 DEF Accept, Phases, Quits, Joins
<1>6. CASE Posted
  BY <1>6 DEF Posted, Phases, Quits, Joins
<1>7. CASE PassEnds
  BY <1>7 DEF PassEnds, Phases, Quits, Joins
<1>8. CASE Destroy
  BY <1>8 DEF Destroy, Phases, Quits, Joins
<1>9. CASE Destroyed
  BY <1>9 DEF Destroyed, Phases, Quits, Joins
<1>10. CASE AcceptFails
  BY <1>10 DEF AcceptFails, Phases, Quits, Joins
<1>11. CASE LoopFails
  BY <1>11 DEF LoopFails, Phases, Quits, Joins
<1>12. CASE StopListen
  BY <1>12 DEF StopListen, Phases, Quits, Joins
<1>13. ASSUME NEW s \in Subs, Sub(s) PROVE IInv'
  <2>1. CASE SubTest(s) BY <2>1 DEF SubTest, Phases, Quits, Joins
  <2>2. CASE SubWakes(s) BY <2>2 DEF SubWakes, Phases, Quits, Joins
  <2>3. CASE SubServes(s) BY <2>3 DEF SubServes, Phases, Quits, Joins
  <2> QED BY <1>13, <2>1, <2>2, <2>3 DEF Sub
<1> QED BY <1>1, <1>2, <1>3, <1>4, <1>5, <1>6, <1>7, <1>8, <1>9, <1>10, <1>11, <1>12, <1>13 DEF Main

\* One call of Stop() goes on, the other stays where it is.
LEMMA GoesOn ==
  ASSUME Types, NEW x \in Calling, NEW at \in {"idle", "main", "subs", "join", "done"},
         NEW next \in 1 .. N + 1, Goes(x, at, next)
  PROVE  /\ stop' \in [Calling -> [at : {"idle", "main", "subs", "join", "done"}, next : 1 .. N + 1]]
         /\ stop'[x].at = at /\ stop'[x].next = next
         /\ \A y \in Calling : y # x => stop'[y] = stop[y]
  BY DEF Types, Goes

\* While one call is past the test, the other has not begun or is over.
LEMMA OneAtATime ==
  ASSUME IInv, Orderly, NEW x \in Calling, NEW y \in Calling, y # x,
         stop[x].at \in {"main", "subs", "join"}
  PROVE  stop[y].at = "idle"
  BY DEF IInv, Calling, Phases, Quits, Joins

LEMMA StopSteps ==
  ASSUME IInv, NEW x \in Calling, Stop(x)
  PROVE  IInv'
<1> USE NAssumption DEF IInv, Types, Orderly, Subs, listening
<1>1. CASE StopTest(x)
  BY <1>1 DEF StopTest, Calling, Goes, Calls, Comes, At, Phases, Quits, Joins
<1>2. CASE StopMain(x)
  <2>1. UNCHANGED <<caller, mpc, started, spc, joined, terminated>>
    BY <1>2 DEF StopMain
  <2>2. quit' \in [Loops -> BOOLEAN] /\ quit'[0] /\ stop[x].at = "main"
    BY <1>2 DEF StopMain, Loops
  <2>3. 1 \in 1 .. N + 1 OBVIOUS
  <2>4. /\ stop' \in [Calling -> [at : {"idle", "main", "subs", "join", "done"}, next : 1 .. N + 1]]
        /\ stop'[x].at = "subs"
        /\ \A y \in Calling : y # x => stop'[y] = stop[y]
    BY <1>2, <2>3, GoesOn DEF StopMain
  <2>5. Types' BY <2>1, <2>2, <2>4
  <2>6. ASSUME Orderly PROVE Phases' /\ Quits' /\ Joins' /\ ~terminated'
    <3>1. \A y \in Calling : y # x => stop[y].at = "idle" BY <2>2, <2>6, OneAtATime
    <3>2. joined = {} BY <2>2, <2>6 DEF Quits
    <3>3. Phases' BY <2>1, <2>2, <2>4, <2>6 DEF Phases, Calling
    <3>4. Quits' BY <2>2, <2>4, <3>1 DEF Quits
    <3>5. Joins' BY <2>1, <2>4, <3>1, <3>2 DEF Joins, Calling
    <3> QED BY <2>1, <2>6, <3>3, <3>4, <3>5
  <2> QED BY <2>1, <2>5, <2>6
<1>3. CASE StopSubs(x)
  <2>1. UNCHANGED <<caller, mpc, started, spc, joined, terminated>> /\ stop[x].at = "subs"
    BY <1>3 DEF StopSubs
  <2>2. quit' \in [Loops -> BOOLEAN] /\ quit'[0] = quit[0]
    <3>1. CASE stop[x].next \in Subs
      <4>1. quit' = [quit EXCEPT ![stop[x].next] = TRUE] BY <1>3, <3>1 DEF StopSubs
      <4>2. 0 \in Loops /\ stop[x].next # 0 /\ quit \in [Loops -> BOOLEAN]
        BY <3>1 DEF Loops
      <4> QED BY <4>1, <4>2, Zenon
    <3>2. CASE stop[x].next \notin Subs
      BY <1>3, <3>2 DEF StopSubs
    <3> QED BY <3>1, <3>2
  <2>3. PICK at \in {"subs", "join"}, next \in 1 .. N + 1 :
          Goes(x, at, next) /\ (at = "join" => next = 1)
    <3>1. CASE stop[x].next \in Subs
      <4>1. stop[x].next + 1 \in 1 .. N + 1 BY <3>1
      <4> QED BY <1>3, <3>1, <4>1 DEF StopSubs
    <3>2. CASE stop[x].next \notin Subs
      <4>1. 1 \in 1 .. N + 1 OBVIOUS
      <4> QED BY <1>3, <3>2, <4>1 DEF StopSubs
    <3> QED BY <3>1, <3>2
  <2>4. /\ stop' \in [Calling -> [at : {"idle", "main", "subs", "join", "done"}, next : 1 .. N + 1]]
        /\ stop'[x].at = at /\ stop'[x].next = next
        /\ \A y \in Calling : y # x => stop'[y] = stop[y]
    BY <2>3, GoesOn
  <2>5. Types' BY <2>1, <2>2, <2>4
  <2>6. ASSUME Orderly PROVE Phases' /\ Quits' /\ Joins' /\ ~terminated'
    <3>1. \A y \in Calling : y # x => stop[y].at = "idle" BY <2>1, <2>6, OneAtATime
    <3>2. joined = {} /\ quit[0] BY <2>1, <2>6 DEF Quits, Joins
    <3>3. Phases' BY <2>1, <2>3, <2>4, <2>6 DEF Phases, Calling
    <3>4. Quits' BY <2>2, <2>3, <2>4, <3>1, <3>2 DEF Quits
    <3>5. Joins' BY <2>1, <2>3, <2>4, <2>6, <3>1, <3>2 DEF Joins, Calling
    <3> QED BY <2>1, <2>6, <3>3, <3>4, <3>5
  <2> QED BY <2>1, <2>5, <2>6
<1>4. CASE JoinThrows(x)
  BY <1>4 DEF JoinThrows, Phases, Quits, Joins
<1>5. CASE Join(x)
  <2>1. /\ UNCHANGED <<caller, mpc, started, spc, quit, terminated>>
        /\ stop[x].at = "join" /\ stop[x].next \in Subs /\ stop[x].next <= started
        /\ joined' = joined \cup {stop[x].next} /\ spc[stop[x].next] = "ended"
    BY <1>5 DEF Join
  <2>2. stop[x].next + 1 \in 1 .. N + 1 BY <2>1
  <2>3. /\ stop' \in [Calling -> [at : {"idle", "main", "subs", "join", "done"}, next : 1 .. N + 1]]
        /\ stop'[x].at = "join" /\ stop'[x].next = stop[x].next + 1
        /\ \A y \in Calling : y # x => stop'[y] = stop[y]
    BY <1>5, <2>2, GoesOn DEF Join
  <2>4. Types' BY <2>1, <2>3
  <2>5. ASSUME Orderly PROVE Phases' /\ Quits' /\ Joins' /\ ~terminated'
    <3>1. \A y \in Calling : y # x => stop[y].at = "idle" BY <2>1, <2>5, OneAtATime
    <3>2. joined = 1 .. stop[x].next - 1 /\ quit[0] BY <2>1, <2>5 DEF Quits, Joins
    <3>3. joined' = 1 .. stop'[x].next - 1 BY <2>1, <2>3, <3>2
    <3>4. Phases' BY <2>1, <2>3, <2>5 DEF Phases, Calling
    <3>5. Quits' BY <2>1, <2>3, <3>1, <3>2 DEF Quits
    <3>6. Joins' BY <2>1, <2>3, <2>5, <3>1, <3>3 DEF Joins, Calling
    <3> QED BY <2>1, <2>5, <3>4, <3>5, <3>6
  <2> QED BY <2>1, <2>4, <2>5
<1>6. CASE StopReturns(x)
  BY <1>6 DEF StopReturns, Goes, Calling, Phases, Quits, Joins
<1> QED BY <1>1, <1>2, <1>3, <1>4, <1>5, <1>6 DEF Stop

LEMMA Invariance == Spec => []IInv
<1>1. Init => IInv BY InitHolds
<1>2. ASSUME IInv, [Next]_vars PROVE IInv'
  <2>1. CASE UNCHANGED vars
    BY <1>2, <2>1 DEF vars, IInv, Types, Orderly, Phases, Quits, Joins
  <2> QED BY <1>2, <2>1, ThreadSteps, StopSteps DEF Next, Calling
<1> QED BY <1>1, <1>2, PTL DEF Spec

-----------------------------------------------------------------------------
\* Whoever of the orderly callers stops the reactor, or nobody, the program is
\* not terminated by std::thread: no thread is joined twice (reactor.cc:27, which
\* the destructor runs again), and none is left unjoined.
THEOREM Peace == Spec => []EndsInPeace
<1>1. IInv => EndsInPeace BY DEF IInv, EndsInPeace
<1> QED BY <1>1, Invariance, PTL

\* When Stop() has returned to the application, the threads have ended.
THEOREM StopJoins == Spec => []StopMeansEnded
<1>1. IInv => StopMeansEnded
  BY NAssumption DEF IInv, StopMeansEnded, Types, Joins, Calling, Subs
<1> QED BY <1>1, Invariance, PTL

-----------------------------------------------------------------------------
(* Listening.                                                              *)

\* The queue is a queue, and StopListen comes after StartListen: there is nothing
\* left that would add the acceptor.
Listening == /\ inbox \in Seq({"add", "remove"})
             /\ unlistened => mpc # "listen"
             /\ RemovalIsLast

LEMMA ListeningKept == Listening /\ [Next]_vars => Listening'
<1> SUFFICES ASSUME Listening, [Next]_vars PROVE Listening' OBVIOUS
<1> USE DEF Listening, RemovalIsLast, threads, listening
<1>1. CASE StartListen BY <1>1 DEF StartListen, At
<1>2. CASE PassEnds BY <1>2 DEF PassEnds, At
<1>3. CASE AcceptFails BY <1>3 DEF AcceptFails
<1>4. CASE StopListen BY <1>4 DEF StopListen
<1>5. CASE StartSub \/ StartMain \/ MainTest \/ Accept \/ Posted \/ Destroy \/ Destroyed \/ LoopFails
  BY <1>5 DEF StartSub, StartMain, MainTest, Accept, Posted, Destroy, Destroyed, LoopFails, At
<1>6. CASE \E s \in Subs : Sub(s) BY <1>6 DEF Sub, SubTest, SubWakes, SubServes
<1>7. CASE \E x \in {"caller", "destructor"} : Stop(x)
  BY <1>7 DEF Stop, StopTest, StopMain, StopSubs, JoinThrows, Join, StopReturns
<1>8. CASE UNCHANGED vars BY <1>8 DEF vars
<1> QED BY <1>1, <1>2, <1>3, <1>4, <1>5, <1>6, <1>7, <1>8 DEF Next, Main

\* Once StopListen was called, whoever called it and however early, the acceptor is
\* out of the loop, or goes with the queue: nothing that comes later brings it back.
THEOREM RemovalWins == Spec => []RemovalIsLast
<1>1. Init => Listening BY DEF Init, Listening, RemovalIsLast
<1>2. Listening => RemovalIsLast BY DEF Listening
<1> QED BY <1>1, <1>2, ListeningKept, PTL DEF Spec
================================================================================
