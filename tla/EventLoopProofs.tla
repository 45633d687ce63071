-------------------------- MODULE EventLoopProofs --------------------------
(***************************************************************************)
(* Theorems about the event loop for every set of clients and every bound  *)
(* on their posts: types, no lost wake-up, no batch cut short, every       *)
(* function in one place, and that the loop implements TaskQueue.          *)
(***************************************************************************)
EXTENDS EventLoop, SequenceTheorems, TLAPS

\* The loop's steps and the callers' steps, one name each.
LEMMA NextCases ==
  ASSUME Next
  PROVE  \/ Enter \/ TestQuit \/ WaitEvents \/ WaitTimeout \/ WaitInterrupted \/ WaitFails
         \/ ReadWakeup \/ SocketsHandled \/ SwapPending \/ RunPending \/ PendingDone
         \/ CheckTimer
         \/ \E t \in Threads : \/ RunInline(t) \/ Push(t) \/ Wake(t) \/ Unlock(t)
                               \/ StopTest(t) \/ StopQuit(t) \/ StopWake(t)
  BY DEF Next, LoopStep, Pass, RunInLoop, Stop

-----------------------------------------------------------------------------
(* Types.                                                                  *)

LEMMA TaskType ==
  ASSUME TypeOK, NEW t \in Threads, posted[t] < MaxPosts
  PROVE  /\ posted[t] + 1 \in 1 .. MaxPosts
         /\ Task(t, posted[t] + 1) \in Tasks
  BY MaxPostsAssumption DEF TypeOK, Tasks, Task

LEMMA InitTypes ==
  ASSUME Init
  PROVE  TypeOK
<1>1. posted \in [Threads -> 0 .. MaxPosts] BY MaxPostsAssumption DEF Init
<1>2. pc \in [Threads -> {"idle", "wake", "unlock", "quit", "stopWake"}] BY DEF Init
<1>3. batch \in SUBSET Events BY DEF Init
<1>4. <<>> \in Seq(Tasks) BY EmptySeq
<1> QED BY <1>1, <1>2, <1>3, <1>4 DEF Init, TypeOK

LEMMA NextTypes ==
  ASSUME TypeOK, [Next]_vars
  PROVE  TypeOK'
<1> USE ThreadAssumption, MaxPostsAssumption DEF TypeOK
<1>1. CASE Enter BY <1>1 DEF Enter
<1>2. CASE TestQuit BY <1>2 DEF TestQuit
<1>3. CASE WaitEvents BY <1>3 DEF WaitEvents
<1>4. CASE WaitTimeout BY <1>4 DEF WaitTimeout
<1>5. CASE WaitInterrupted BY <1>5 DEF WaitInterrupted
<1>6. CASE WaitFails BY <1>6 DEF WaitFails
<1>7. CASE ReadWakeup BY <1>7 DEF ReadWakeup, Events
<1>8. CASE SocketsHandled BY <1>8 DEF SocketsHandled, Events
<1>9. CASE SwapPending BY <1>9 DEF SwapPending
<1>10. CASE RunPending BY <1>10 DEF RunPending
<1>11. CASE PendingDone BY <1>11 DEF PendingDone
<1>12. CASE CheckTimer BY <1>12 DEF CheckTimer
<1>13. ASSUME NEW t \in Threads, RunInline(t) PROVE TypeOK'
  BY <1>13, TaskType DEF RunInline
<1>14. ASSUME NEW t \in Threads, Push(t) PROVE TypeOK'
  BY <1>14, TaskType DEF Push, Goto
<1>15. ASSUME NEW t \in Threads, Wake(t) PROVE TypeOK'
  BY <1>15 DEF Wake, Goto
<1>16. ASSUME NEW t \in Threads, Unlock(t) PROVE TypeOK'
  BY <1>16 DEF Unlock, Goto
<1>17. ASSUME NEW t \in Threads, StopTest(t) PROVE TypeOK'
  BY <1>17 DEF StopTest, Goto
<1>18. ASSUME NEW t \in Threads, StopQuit(t) PROVE TypeOK'
  BY <1>18 DEF StopQuit, Goto
<1>19. ASSUME NEW t \in Threads, StopWake(t) PROVE TypeOK'
  BY <1>19 DEF StopWake, Goto
<1>20. CASE UNCHANGED vars BY <1>20 DEF vars
<1> QED BY <1>1, <1>2, <1>3, <1>4, <1>5, <1>6, <1>7, <1>8, <1>9, <1>10, <1>11, <1>12,
           <1>13, <1>14, <1>15, <1>16, <1>17, <1>18, <1>19, <1>20, NextCases

\* Every state of the loop is well typed.
THEOREM Typing == Spec => []TypeOK
<1>1. TypeOK /\ [Next]_vars => TypeOK' BY NextTypes
<1> QED BY InitTypes, <1>1, PTL DEF Spec

-----------------------------------------------------------------------------
(* Wake-ups.                                                               *)

Announced == PostsAnnounced /\ QuitAnnounced

LEMMA InitAnnounced == Init => Announced
  BY DEF Init, Announced, PostsAnnounced, QuitAnnounced

LEMMA NextAnnounced ==
  ASSUME TypeOK, Announced, [Next]_vars
  PROVE  Announced'
<1> USE DEF TypeOK, Announced, PostsAnnounced, QuitAnnounced
<1>1. CASE Enter BY <1>1 DEF Enter, At
<1>2. CASE TestQuit BY <1>2 DEF TestQuit, At
<1>3. CASE WaitEvents BY <1>3 DEF WaitEvents, At
<1>4. CASE WaitTimeout BY <1>4 DEF WaitTimeout, At
<1>5. CASE WaitInterrupted BY <1>5 DEF WaitInterrupted, At
<1>6. CASE WaitFails BY <1>6 DEF WaitFails, At
<1>7. CASE ReadWakeup BY <1>7 DEF ReadWakeup, At
<1>8. CASE SocketsHandled BY <1>8 DEF SocketsHandled, At
<1>9. CASE SwapPending BY <1>9 DEF SwapPending, At
<1>10. CASE RunPending BY <1>10 DEF RunPending, At
<1>11. CASE PendingDone BY <1>11 DEF PendingDone, At
<1>12. CASE CheckTimer BY <1>12 DEF CheckTimer, At
<1>13. ASSUME NEW t \in Threads, RunInline(t) PROVE Announced'
  BY <1>13 DEF RunInline
<1>14. ASSUME NEW t \in Threads, Push(t) PROVE Announced'
  <2>1. pc'[t] = "wake" BY <1>14 DEF Push, Goto
  <2>2. \A u \in Threads : pc[u] = "stopWake" => pc'[u] = "stopWake"
    BY <1>14 DEF Push, Goto, MayCall
  <2> QED BY <1>14, <2>1, <2>2 DEF Push
<1>15. ASSUME NEW t \in Threads, Wake(t) PROVE Announced'
  BY <1>15 DEF Wake, Goto
<1>16. ASSUME NEW t \in Threads, Unlock(t) PROVE Announced'
  BY <1>16 DEF Unlock, Goto
<1>17. ASSUME NEW t \in Threads, StopTest(t) PROVE Announced'
  BY <1>17 DEF StopTest, Goto, MayCall
<1>18. ASSUME NEW t \in Threads, StopQuit(t) PROVE Announced'
  <2>1. pc'[t] = "stopWake" BY <1>18 DEF StopQuit, Goto
  <2>2. \A u \in Threads : pc[u] = "wake" => pc'[u] = "wake"
    BY <1>18 DEF StopQuit, Goto
  <2> QED BY <1>18, <2>1, <2>2 DEF StopQuit
<1>19. ASSUME NEW t \in Threads, StopWake(t) PROVE Announced'
  BY <1>19 DEF StopWake, Goto
<1>20. CASE UNCHANGED vars BY <1>20 DEF vars
<1> QED BY <1>1, <1>2, <1>3, <1>4, <1>5, <1>6, <1>7, <1>8, <1>9, <1>10, <1>11, <1>12,
           <1>13, <1>14, <1>15, <1>16, <1>17, <1>18, <1>19, <1>20, NextCases

\* No wake-up is lost, neither of a queued function nor of Stop: RunInLoop and
\* Stop write the eventfd after what they announce, and the loop reads it
\* before it looks.
THEOREM NoLostWakeup == Spec => [](PostsAnnounced /\ QuitAnnounced)
<1>1. TypeOK /\ Announced /\ [Next]_vars => Announced' BY NextAnnounced
<1> QED BY InitAnnounced, <1>1, Typing, PTL DEF Spec, Announced

-----------------------------------------------------------------------------
(* The batch that is being run.                                            *)

\* tmp is a local variable of DoPendingFuncs.
TmpIsLocal == lpc # "run" => tmp = <<>>

LEMMA AlwaysTmpIsLocal == Spec => []TmpIsLocal
<1>1. Init => TmpIsLocal BY DEF Init, TmpIsLocal
<1>2. ASSUME TypeOK, TmpIsLocal, [Next]_vars PROVE TmpIsLocal'
  <2> USE <1>2 DEF TmpIsLocal
  <2>1. CASE Enter BY <2>1 DEF Enter, At
  <2>2. CASE TestQuit BY <2>2 DEF TestQuit, At
  <2>3. CASE WaitEvents \/ WaitTimeout \/ WaitInterrupted \/ WaitFails
    BY <2>3 DEF WaitEvents, WaitTimeout, WaitInterrupted, WaitFails, At
  <2>4. CASE ReadWakeup \/ SocketsHandled BY <2>4 DEF ReadWakeup, SocketsHandled, At
  <2>5. CASE SwapPending \/ RunPending BY <2>5 DEF SwapPending, RunPending, At
  <2>6. CASE PendingDone \/ CheckTimer BY <2>6 DEF PendingDone, CheckTimer, At
  <2>7. ASSUME NEW t \in Threads, RunInline(t) \/ Push(t) \/ Wake(t) \/ Unlock(t)
        PROVE  TmpIsLocal'
    BY <2>7 DEF RunInline, Push, Wake, Unlock
  <2>8. ASSUME NEW t \in Threads, StopTest(t) \/ StopQuit(t) \/ StopWake(t)
        PROVE  TmpIsLocal'
    BY <2>8 DEF StopTest, StopQuit, StopWake
  <2>9. CASE UNCHANGED vars BY <2>9 DEF vars
  <2> QED BY <2>1, <2>2, <2>3, <2>4, <2>5, <2>6, <2>7, <2>8, <2>9, NextCases
<1>3. TypeOK /\ TmpIsLocal /\ [Next]_vars => TmpIsLocal' BY <1>2
<1> QED BY <1>1, <1>3, Typing, PTL DEF Spec

-----------------------------------------------------------------------------
(* The line of functions: run, swapped out, queued.                        *)

\* Concatenation, regrouped.
LEMMA Regroup ==
  ASSUME NEW S, NEW s \in Seq(S), NEW t \in Seq(S), NEW u \in Seq(S)
  PROVE  (s \o t) \o u = s \o (t \o u)
  BY ConcatAssociative

\* The elements of a sequence with one more element x after its prefix s.
LEMMA Insertion ==
  ASSUME NEW S, NEW s \in Seq(S), NEW u \in Seq(S), NEW x \in S
  PROVE  /\ s \o u \in Seq(S)
         /\ Append(s, x) \o u \in Seq(S)
         /\ Len(Append(s, x) \o u) = Len(s \o u) + 1
         /\ Len(s) \in 0 .. Len(s \o u)
         /\ \A i \in 1 .. Len(s \o u) + 1 :
               (Append(s, x) \o u)[i] = IF i <= Len(s) THEN (s \o u)[i]
                                        ELSE IF i = Len(s) + 1 THEN x
                                        ELSE (s \o u)[i - 1]
<1>1. Append(s, x) \in Seq(S) /\ Len(Append(s, x)) = Len(s) + 1 BY AppendProperties
<1>2. Len(s) \in Nat /\ Len(u) \in Nat BY LenProperties
<1>3. /\ s \o u \in Seq(S)
      /\ Len(s \o u) = Len(s) + Len(u)
      /\ \A i \in 1 .. Len(s) + Len(u) :
            (s \o u)[i] = IF i <= Len(s) THEN s[i] ELSE u[i - Len(s)]
  BY ConcatProperties
<1>4. /\ Append(s, x) \o u \in Seq(S)
      /\ Len(Append(s, x) \o u) = Len(s) + 1 + Len(u)
      /\ \A i \in 1 .. Len(s) + 1 + Len(u) :
            (Append(s, x) \o u)[i] = IF i <= Len(s) + 1 THEN Append(s, x)[i]
                                     ELSE u[i - (Len(s) + 1)]
  BY <1>1, ConcatProperties
<1>5. ASSUME NEW i \in 1 .. Len(s \o u) + 1
      PROVE  (Append(s, x) \o u)[i] = IF i <= Len(s) THEN (s \o u)[i]
                                      ELSE IF i = Len(s) + 1 THEN x
                                      ELSE (s \o u)[i - 1]
  <2>1. CASE i <= Len(s)
    <3>1. Append(s, x)[i] = s[i] BY <1>2, <2>1, AppendProperties
    <3> QED BY <1>2, <1>3, <1>4, <2>1, <3>1
  <2>2. CASE i = Len(s) + 1
    <3>1. Append(s, x)[i] = x BY <2>2, AppendProperties
    <3> QED BY <1>2, <1>3, <1>4, <2>2, <3>1
  <2>3. CASE i > Len(s) + 1
    <3>1. i - 1 \in 1 .. Len(s) + Len(u) /\ ~(i - 1 <= Len(s)) BY <1>2, <1>3, <2>3
    <3>2. (s \o u)[i - 1] = u[(i - 1) - Len(s)] BY <1>3, <3>1
    <3>3. (Append(s, x) \o u)[i] = u[i - (Len(s) + 1)] BY <1>2, <1>3, <1>4, <2>3
    <3> QED BY <1>2, <2>3, <3>2, <3>3
  <2> QED BY <1>2, <2>1, <2>2, <2>3
<1> QED BY <1>2, <1>3, <1>4, <1>5

\* Moving the head of a sequence to the end of the one before it.
LEMMA MoveHead ==
  ASSUME NEW S, NEW s \in Seq(S), NEW u \in Seq(S), u # <<>>
  PROVE  /\ Append(s, Head(u)) \in Seq(S) /\ Tail(u) \in Seq(S)
         /\ Append(s, Head(u)) \o Tail(u) = s \o u
<1>1. Head(u) \in S /\ Tail(u) \in Seq(S) BY HeadTailProperties
<1>2. u = <<Head(u)>> \o Tail(u)
  <2>1. Len(u) \in Nat \ {0} BY EmptySeq
  <2>2. Len(Tail(u)) = Len(u) - 1 /\ \A i \in 1 .. Len(Tail(u)) : Tail(u)[i] = u[i + 1]
    BY HeadTailProperties
  <2>3. <<Head(u)>> \in Seq(S) /\ Len(<<Head(u)>>) = 1 /\ <<Head(u)>>[1] = u[1]
    BY <1>1
  <2>4. /\ <<Head(u)>> \o Tail(u) \in Seq(S)
        /\ Len(<<Head(u)>> \o Tail(u)) = Len(u)
    BY <1>1, <2>1, <2>2, <2>3, ConcatProperties
  <2>5. \A i \in 1 .. Len(u) : (<<Head(u)>> \o Tail(u))[i] = u[i]
    BY <1>1, <2>1, <2>2, <2>3, ConcatProperties
  <2> QED BY <2>4, <2>5, SeqEqual
<1>3. <<Head(u)>> \in Seq(S) BY <1>1
<1>4. Append(s, Head(u)) = s \o <<Head(u)>> BY <1>1, AppendIsConcat
<1> QED BY <1>1, <1>2, <1>3, <1>4, AppendProperties, ConcatAssociative

\* Head and tail of a concatenation.
LEMMA HeadTailOfConcat ==
  ASSUME NEW S, NEW s \in Seq(S), NEW u \in Seq(S), s # <<>>
  PROVE  /\ s \o u # <<>>
         /\ Head(s \o u) = Head(s)
         /\ Tail(s \o u) = Tail(s) \o u
<1>1. Len(s) \in Nat \ {0} /\ Len(u) \in Nat BY EmptySeq, LenProperties
<1>2. /\ s \o u \in Seq(S) /\ Len(s \o u) = Len(s) + Len(u)
      /\ \A i \in 1 .. Len(s) + Len(u) :
            (s \o u)[i] = IF i <= Len(s) THEN s[i] ELSE u[i - Len(s)]
  BY ConcatProperties
<1>3. s \o u # <<>> BY <1>1, <1>2, EmptySeq
<1>4. Head(s \o u) = Head(s)
  <2>1. (s \o u)[1] = s[1] BY <1>1, <1>2
  <2> QED BY <1>3, <2>1
<1>5. /\ Tail(s) \in Seq(S) /\ Len(Tail(s)) = Len(s) - 1
      /\ \A i \in 1 .. Len(Tail(s)) : Tail(s)[i] = s[i + 1]
  BY HeadTailProperties
<1>6. /\ Tail(s \o u) \in Seq(S) /\ Len(Tail(s \o u)) = Len(s) + Len(u) - 1
      /\ \A i \in 1 .. Len(s) + Len(u) - 1 : Tail(s \o u)[i] = (s \o u)[i + 1]
  BY <1>2, <1>3, HeadTailProperties
<1>7. /\ Tail(s) \o u \in Seq(S) /\ Len(Tail(s) \o u) = Len(s) - 1 + Len(u)
      /\ \A i \in 1 .. Len(s) - 1 + Len(u) :
            (Tail(s) \o u)[i] = IF i <= Len(s) - 1 THEN Tail(s)[i]
                                ELSE u[i - (Len(s) - 1)]
  BY <1>5, ConcatProperties
<1>8. ASSUME NEW i \in 1 .. Len(s) + Len(u) - 1 PROVE Tail(s \o u)[i] = (Tail(s) \o u)[i]
  <2>1. CASE i <= Len(s) - 1 BY <1>1, <1>2, <1>5, <1>6, <1>7, <2>1
  <2>2. CASE ~(i <= Len(s) - 1)
    <3>1. (Tail(s) \o u)[i] = u[i - (Len(s) - 1)] BY <1>1, <1>7, <2>2
    <3>2. (s \o u)[i + 1] = u[(i + 1) - Len(s)] BY <1>1, <1>2, <2>2
    <3>3. (i + 1) - Len(s) = i - (Len(s) - 1) BY <1>1
    <3> QED BY <1>6, <3>1, <3>2, <3>3
  <2> QED BY <2>1, <2>2
<1>9. Tail(s \o u) = Tail(s) \o u BY <1>1, <1>6, <1>7, <1>8, SeqEqual
<1> QED BY <1>3, <1>4, <1>9

LineInv == ExactlyOnce /\ ClientOrder

\* The functions handed over, when thread t hands over one more.
LEMMA HandedOneMore ==
  ASSUME TypeOK, NEW t \in Threads, posted[t] < MaxPosts,
         posted' = [posted EXCEPT ![t] = @ + 1]
  PROVE  /\ Handed' = Handed \cup {Task(t, posted[t] + 1)}
         /\ Task(t, posted[t] + 1) \notin Handed
         /\ \A f \in Handed : f[1] = t => f[2] < posted[t] + 1
<1> DEFINE x == Task(t, posted[t] + 1)
<1>1. x \in Tasks /\ x[1] = t /\ x[2] = posted[t] + 1 BY TaskType DEF Task
<1>2. posted \in [Threads -> 0 .. MaxPosts] BY DEF TypeOK
<1>3. \A f \in Tasks : /\ f[1] \in Threads /\ f[2] \in 1 .. MaxPosts
                       /\ f = Task(f[1], f[2])
  BY DEF Tasks, Task
<1>4. x \notin Handed BY <1>1, <1>2, MaxPostsAssumption DEF Handed
<1>5. \A f \in Handed : f[1] = t => f[2] < posted[t] + 1
  BY <1>2, <1>3, MaxPostsAssumption DEF Handed
<1>6. ASSUME NEW f \in Tasks PROVE f[2] <= posted'[f[1]] <=> f[2] <= posted[f[1]] \/ f = x
  <2>1. CASE f[1] = t
    <3>1. posted'[f[1]] = posted[t] + 1 BY <1>2, <2>1
    <3>2. f[2] = posted[t] + 1 <=> f = x BY <1>1, <1>3, <2>1
    <3>3. f[2] \in Nat /\ posted[t] \in Nat BY <1>2, <1>3, MaxPostsAssumption
    <3> QED BY <2>1, <3>1, <3>2, <3>3
  <2>2. CASE f[1] # t
    <3>1. posted'[f[1]] = posted[f[1]] BY <1>2, <1>3, <2>2
    <3> QED BY <1>1, <2>2, <3>1
  <2> QED BY <2>1, <2>2
<1>7. Handed' = {f \in Tasks : f[2] <= posted'[f[1]]} BY DEF Handed
<1>8. Handed' = Handed \cup {x} BY <1>1, <1>6, <1>7 DEF Handed
<1> QED BY <1>4, <1>5, <1>8

\* One more function, put anywhere by the loop thread, at the end by the others.
LEMMA LineOneMore ==
  ASSUME TypeOK, LineInv, NEW t \in Threads, posted[t] < MaxPosts,
         posted' = [posted EXCEPT ![t] = @ + 1],
         NEW s \in Seq(Tasks), NEW u \in Seq(Tasks),
         Line = s \o u, Line' = Append(s, Task(t, posted[t] + 1)) \o u,
         t = Loop \/ u = <<>>
  PROVE  LineInv'
<1> DEFINE x == Task(t, posted[t] + 1)
           old(i) == IF i <= Len(s) THEN i ELSE i - 1
<1>1. x \in Tasks /\ x[1] = t /\ x[2] = posted[t] + 1 BY TaskType DEF Task
<1>2. /\ Line \in Seq(Tasks) /\ Line' \in Seq(Tasks)
      /\ Len(Line') = Len(Line) + 1
      /\ Len(s) \in 0 .. Len(Line)
      /\ \A i \in 1 .. Len(Line) + 1 :
            Line'[i] = IF i <= Len(s) THEN Line[i]
                       ELSE IF i = Len(s) + 1 THEN x ELSE Line[i - 1]
  BY <1>1, Insertion
<1>3. /\ Len(Line) \in Nat
      /\ DOMAIN Line = 1 .. Len(Line)
      /\ DOMAIN Line' = 1 .. Len(Line) + 1
  BY <1>2, LenProperties
<1>4. \A i \in DOMAIN Line' : i # Len(s) + 1 => /\ old(i) \in DOMAIN Line
                                                 /\ Line'[i] = Line[old(i)]
  BY <1>2, <1>3
<1>5. Len(s) + 1 \in DOMAIN Line' /\ Line'[Len(s) + 1] = x BY <1>2, <1>3
<1>6. /\ \A a, b \in DOMAIN Line : Line[a] = Line[b] => a = b
      /\ \A a, b \in DOMAIN Line :
            a < b /\ Line[a][1] = Line[b][1] /\ Line[a][1] \in Clients
                => Line[a][2] < Line[b][2]
  BY DEF LineInv, ExactlyOnce, ClientOrder
<1>7. \A i \in DOMAIN Line : Line[i] \in Handed BY DEF LineInv, ExactlyOnce
<1>8. /\ Handed' = Handed \cup {x} /\ x \notin Handed
      /\ \A f \in Handed : f[1] = t => f[2] < posted[t] + 1
  BY HandedOneMore
<1>9. {Line'[i] : i \in DOMAIN Line'} = Handed'
  <2>1. \A i \in DOMAIN Line' : Line'[i] \in Handed \cup {x} BY <1>4, <1>5, <1>7
  <2>2. ASSUME NEW f \in Handed PROVE \E i \in DOMAIN Line' : Line'[i] = f
    <3>1. PICK k \in DOMAIN Line : Line[k] = f BY DEF LineInv, ExactlyOnce
    <3>2. CASE k <= Len(s)
      <4>1. k \in DOMAIN Line' /\ Line'[k] = Line[k] BY <1>2, <1>3, <3>2
      <4> QED BY <3>1, <4>1
    <3>3. CASE k > Len(s)
      <4>1. k + 1 \in DOMAIN Line' /\ k + 1 # Len(s) + 1 /\ ~(k + 1 <= Len(s))
        BY <1>2, <1>3, <3>3
      <4>2. Line'[k + 1] = Line[(k + 1) - 1] BY <1>2, <1>3, <4>1
      <4>3. (k + 1) - 1 = k BY <1>3
      <4> QED BY <3>1, <4>1, <4>2, <4>3
    <3> QED BY <1>2, <1>3, <3>2, <3>3
  <2> QED BY <1>5, <1>8, <2>1, <2>2
<1>10. ASSUME NEW i \in DOMAIN Line', NEW j \in DOMAIN Line', i < j
       PROVE  /\ Line'[i] # Line'[j]
              /\ Line'[i][1] = Line'[j][1] /\ Line'[i][1] \in Clients
                    => Line'[i][2] < Line'[j][2]
  <2>1. CASE i # Len(s) + 1 /\ j # Len(s) + 1
    <3>1. /\ old(i) \in DOMAIN Line /\ old(j) \in DOMAIN Line
          /\ Line'[i] = Line[old(i)] /\ Line'[j] = Line[old(j)]
      BY <1>4, <2>1
    <3>2. old(i) < old(j) BY <1>2, <1>3, <1>10, <2>1
    <3>3. old(i) # old(j) BY <1>3, <3>1, <3>2
    <3>4. Line'[i] # Line'[j] BY <1>6, <3>1, <3>3
    <3>5. Line[old(i)][1] = Line[old(j)][1] /\ Line[old(i)][1] \in Clients
             => Line[old(i)][2] < Line[old(j)][2]
      <4>1. \A a, b \in DOMAIN Line : ClientOrder!(a, b) BY DEF LineInv, ClientOrder
      <4> HIDE DEF old
      <4> QED BY <3>1, <3>2, <4>1
    <3> QED BY <3>1, <3>4, <3>5
  <2>2. CASE i = Len(s) + 1
    <3>1. j # Len(s) + 1 BY <1>2, <1>3, <1>10, <2>2
    <3>2. Line'[j] \in Handed BY <1>4, <1>7, <3>1
    <3>3. u # <<>>
      <4>1. SUFFICES ASSUME u = <<>> PROVE FALSE OBVIOUS
      <4>2. Line = s BY <4>1, ConcatEmptySeq
      <4> QED BY <1>3, <1>10, <2>2, <4>2
    <3>4. t = Loop BY <3>3
    <3> QED BY <1>1, <1>5, <1>8, <2>2, <3>2, <3>4, ThreadAssumption
  <2>3. CASE j = Len(s) + 1
    <3>1. i # Len(s) + 1 BY <1>2, <1>3, <1>10, <2>3
    <3>2. Line'[i] \in Handed BY <1>4, <1>7, <3>1
    <3> QED BY <1>1, <1>5, <1>8, <2>3, <3>2
  <2> QED BY <2>1, <2>2, <2>3
<1>11. \A i, j \in DOMAIN Line' : i # j => i < j \/ j < i BY <1>3
<1>12. ExactlyOnce'
  <2>1. \A i, j \in DOMAIN Line' : Line'[i] = Line'[j] => i = j BY <1>10, <1>11
  <2> QED BY <1>9, <2>1 DEF ExactlyOnce
<1>13. ClientOrder' BY <1>10 DEF ClientOrder
<1> QED BY <1>12, <1>13 DEF LineInv

LEMMA InitLine == Init => LineInv
<1> SUFFICES ASSUME Init PROVE LineInv OBVIOUS
<1>1. Line = <<>> BY ConcatEmptySeq, EmptySeq DEF Init, Line
<1>2. DOMAIN Line = {} BY <1>1
<1>3. Handed = {}
  <2>1. \A f \in Tasks : f[1] \in Threads /\ f[2] \in 1 .. MaxPosts BY DEF Tasks, Task
  <2> QED BY <2>1, MaxPostsAssumption DEF Init, Handed
<1> QED BY <1>2, <1>3 DEF LineInv, ExactlyOnce, ClientOrder

\* Whatever leaves the three sequences' concatenation and posted alone.
LEMMA LineSame ==
  ASSUME LineInv, Line' = Line, posted' = posted
  PROVE  LineInv'
  BY DEF LineInv, ExactlyOnce, ClientOrder, Handed

LEMMA NextLine ==
  ASSUME TypeOK, TmpIsLocal, LineInv, [Next]_vars
  PROVE  LineInv'
<1>1. ran \in Seq(Tasks) /\ tmp \in Seq(Tasks) /\ pending \in Seq(Tasks) BY DEF TypeOK
<1>2. Line = ran \o (tmp \o pending)
  <2>1. (ran \o tmp) \o pending = ran \o (tmp \o pending) BY ONLY <1>1, Regroup
  <2> QED BY ONLY <2>1 DEF Line
<1>3. tmp \o pending \in Seq(Tasks) /\ Line \in Seq(Tasks)
  BY <1>1, <1>2, ConcatProperties
<1>4. CASE UNCHANGED <<ran, tmp, pending, posted>> BY <1>4, LineSame DEF Line
<1>5. ASSUME NEW t \in Threads, RunInline(t) PROVE LineInv'
  <2> DEFINE x == Task(t, posted[t] + 1)
  <2>1. t = Loop BY <1>5, ThreadAssumption DEF RunInline, TypeOK
  <2>2. x \in Tasks BY <1>5, TaskType DEF RunInline
  <2>3. ran' = Append(ran, x) /\ UNCHANGED <<tmp, pending>> BY <1>5 DEF RunInline
  <2>4. Append(ran, x) \in Seq(Tasks) BY <1>1, <2>2, AppendProperties
  <2>5. Line' = Append(ran, x) \o (tmp \o pending)
    <3>1. Line' = (Append(ran, x) \o tmp) \o pending BY ONLY <2>3 DEF Line
    <3> QED BY ONLY <1>1, <2>4, <3>1, Regroup
  <2>6. posted[t] < MaxPosts /\ posted' = [posted EXCEPT ![t] = @ + 1]
    BY <1>5 DEF RunInline
  <2> QED BY <1>1, <1>2, <1>3, <2>1, <2>5, <2>6, LineOneMore
<1>6. ASSUME NEW t \in Threads, Push(t) PROVE LineInv'
  <2> DEFINE x == Task(t, posted[t] + 1)
  <2>1. x \in Tasks BY <1>6, TaskType DEF Push
  <2>2. pending' = Append(pending, x) /\ UNCHANGED <<ran, tmp>> BY <1>6 DEF Push
  <2>3. <<x>> \in Seq(Tasks) BY <2>1
  <2>4. ran \o tmp \in Seq(Tasks) BY <1>1, ConcatProperties
  <2>5. Line' = (ran \o tmp) \o (pending \o <<x>>)
    BY <1>1, <2>1, <2>2, AppendIsConcat DEF Line
  <2>6. Line' = Line \o <<x>>
    <3>1. Line' = ((ran \o tmp) \o pending) \o <<x>>
      BY ONLY <1>1, <2>3, <2>4, <2>5, Regroup
    <3> QED BY ONLY <3>1 DEF Line
  <2>7. Line' = Append(Line, x) BY <1>3, <2>1, <2>6, AppendIsConcat
  <2>8. Append(Line, x) \in Seq(Tasks) BY <1>3, <2>1, AppendProperties
  <2>9. Line = Line \o <<>> /\ Line' = Append(Line, x) \o <<>>
    BY <1>3, <2>7, <2>8, ConcatEmptySeq
  <2>10. posted[t] < MaxPosts /\ posted' = [posted EXCEPT ![t] = @ + 1]
    BY <1>6 DEF Push
  <2>11. <<>> \in Seq(Tasks) BY EmptySeq
  <2> HIDE DEF x
  <2> QED BY <1>3, <2>9, <2>10, <2>11, LineOneMore DEF x
<1>7. CASE SwapPending
  <2>1. /\ tmp = <<>> /\ tmp' = pending /\ pending' = <<>>
        /\ ran' = ran /\ posted' = posted
    BY <1>7 DEF SwapPending, At, TmpIsLocal
  <2>2. Line = ran \o pending BY <1>1, <2>1, ConcatEmptySeq DEF Line
  <2>3. Line' = ran \o pending
    <3>1. ran \o pending \in Seq(Tasks) BY <1>1, ConcatProperties
    <3> QED BY <2>1, <3>1, ConcatEmptySeq DEF Line
  <2> QED BY <2>1, <2>2, <2>3, LineSame
<1>8. CASE RunPending
  <2>1. /\ tmp # <<>> /\ ran' = Append(ran, Head(tmp)) /\ tmp' = Tail(tmp)
        /\ UNCHANGED <<pending, posted>>
    BY <1>8 DEF RunPending
  <2>2. Append(ran, Head(tmp)) \o Tail(tmp) = ran \o tmp BY <1>1, <2>1, MoveHead
  <2>3. Line' = Line BY <2>1, <2>2 DEF Line
  <2> QED BY <2>1, <2>3, LineSame
<1> QED BY <1>4, <1>5, <1>6, <1>7, <1>8, NextCases
        DEF Enter, TestQuit, WaitEvents, WaitTimeout, WaitInterrupted, WaitFails,
            ReadWakeup, SocketsHandled, PendingDone, CheckTimer, Wake, Unlock,
            StopTest, StopQuit, StopWake, vars

\* No function handed to RunInLoop is lost, run twice, or overtaken by a later
\* one of the same client thread.
THEOREM LineTheorem == Spec => [](ExactlyOnce /\ ClientOrder)
<1>1. TypeOK /\ TmpIsLocal /\ LineInv /\ [Next]_vars => LineInv' BY NextLine
<1> QED BY InitLine, <1>1, Typing, AlwaysTmpIsLocal, PTL DEF Spec, LineInv

-----------------------------------------------------------------------------
(* The loop implements TaskQueue.                                          *)

\* A function being handed over is neither run nor on its way.
LEMMA NewIsFresh ==
  ASSUME TypeOK, LineInv, NEW t \in Threads, posted[t] < MaxPosts
  PROVE  TQ!Fresh(Task(t, posted[t] + 1))
<1> DEFINE x == Task(t, posted[t] + 1)
           todo == tmp \o pending
<1>1. ran \in Seq(Tasks) /\ tmp \in Seq(Tasks) /\ pending \in Seq(Tasks) BY DEF TypeOK
<1>2. todo \in Seq(Tasks) BY <1>1, ConcatProperties
<1>3. Line = ran \o todo
  <2>1. (ran \o tmp) \o pending = ran \o (tmp \o pending) BY ONLY <1>1, Regroup
  <2> QED BY ONLY <2>1 DEF Line
<1>4. x \notin Handed
  <2>1. x[1] = t /\ x[2] = posted[t] + 1 BY DEF Task
  <2>2. posted[t] \in Nat BY MaxPostsAssumption DEF TypeOK
  <2> QED BY <2>1, <2>2 DEF Handed
<1>5. \A i \in DOMAIN Line : Line[i] # x BY <1>4 DEF LineInv, ExactlyOnce
<1>6. /\ Len(ran) \in Nat /\ Len(todo) \in Nat
      /\ DOMAIN ran = 1 .. Len(ran) /\ DOMAIN todo = 1 .. Len(todo)
  BY <1>1, <1>2, LenProperties
<1>7. /\ ran \o todo \in Seq(Tasks)
      /\ Len(ran \o todo) = Len(ran) + Len(todo)
      /\ \A i \in 1 .. Len(ran) + Len(todo) :
            (ran \o todo)[i] = IF i <= Len(ran) THEN ran[i] ELSE todo[i - Len(ran)]
  BY <1>1, <1>2, ConcatProperties
<1>8. DOMAIN Line = 1 .. Len(ran) + Len(todo) BY <1>3, <1>7, LenProperties
<1> HIDE DEF x, todo
<1>9. \A i \in DOMAIN ran : ran[i] # x BY <1>3, <1>5, <1>6, <1>7, <1>8
<1>10. ASSUME NEW i \in DOMAIN todo PROVE todo[i] # x
  <2>1. i + Len(ran) \in DOMAIN Line /\ ~(i + Len(ran) <= Len(ran)) BY <1>6, <1>8
  <2>2. Line[i + Len(ran)] = todo[(i + Len(ran)) - Len(ran)] BY <1>3, <1>7, <1>8, <2>1
  <2>3. (i + Len(ran)) - Len(ran) = i BY <1>6
  <2> QED BY <1>5, <2>1, <2>2, <2>3
<1> QED BY <1>9, <1>10 DEF TQ!Fresh, TQ!Elems, todo, x

LEMMA StepImplements ==
  ASSUME TypeOK, TmpIsLocal, LineInv, [Next]_vars
  PROVE  [TQ!Next]_(TQ!vars)
<1> USE DEF TQ!vars
<1>1. ran \in Seq(Tasks) /\ tmp \in Seq(Tasks) /\ pending \in Seq(Tasks) BY DEF TypeOK
<1>2. CASE UNCHANGED <<ran, tmp, pending>> /\ (lpc' = "done" <=> lpc = "done") BY <1>2
<1>3. CASE TestQuit
  <2>1. CASE quit
    <3>1. TQ!Close BY <1>3, <2>1 DEF TestQuit, At, TQ!Close
    <3> QED BY <3>1 DEF TQ!Next
  <2>2. CASE ~quit BY <1>2, <1>3, <2>2 DEF TestQuit, At
  <2> QED BY <2>1, <2>2
<1>4. CASE WaitFails
  <2>1. TQ!Close BY <1>4 DEF WaitFails, At, TQ!Close
  <2> QED BY <2>1 DEF TQ!Next
<1>5. CASE SwapPending
  <2>1. /\ tmp = <<>> /\ tmp' = pending /\ pending' = <<>> /\ ran' = ran
        /\ lpc = "batch" /\ lpc' = "run"
    BY <1>5 DEF SwapPending, At, TmpIsLocal
  <2>2. tmp' \o pending' = tmp \o pending BY <1>1, <2>1, ConcatEmptySeq
  <2> QED BY <2>1, <2>2
<1>6. CASE RunPending
  <2>1. /\ tmp # <<>> /\ ran' = Append(ran, Head(tmp)) /\ tmp' = Tail(tmp)
        /\ UNCHANGED <<pending, lpc>> /\ lpc = "run"
    BY <1>6 DEF RunPending, At
  <2>2. /\ tmp \o pending # <<>>
        /\ Head(tmp \o pending) = Head(tmp)
        /\ Tail(tmp \o pending) = Tail(tmp) \o pending
    BY <1>1, <2>1, HeadTailOfConcat
  <2>3. TQ!RunNext BY <2>1, <2>2 DEF TQ!RunNext
  <2> QED BY <2>3 DEF TQ!Next
<1>7. ASSUME NEW t \in Threads, RunInline(t) PROVE [TQ!Next]_(TQ!vars)
  <2>1. TQ!RunNow(Task(t, posted[t] + 1))
    BY <1>7, NewIsFresh DEF RunInline, TQ!RunNow
  <2> QED BY <1>7, <2>1, TaskType DEF TQ!Next, RunInline
<1>8. ASSUME NEW t \in Threads, Push(t) PROVE [TQ!Next]_(TQ!vars)
  <2> DEFINE x == Task(t, posted[t] + 1)
  <2>1. x \in Tasks BY <1>8, TaskType DEF Push
  <2>2. /\ pending' = Append(pending, x) /\ UNCHANGED <<ran, tmp, lpc>> /\ TQ!Fresh(x)
    BY <1>8, NewIsFresh DEF Push
  <2> HIDE DEF x
  <2>3. <<x>> \in Seq(Tasks) /\ tmp \o pending \in Seq(Tasks)
    BY <1>1, <2>1, ConcatProperties
  <2>4. tmp \o Append(pending, x) = Append(tmp \o pending, x)
    BY <1>1, <2>1, <2>3, AppendIsConcat, ConcatAssociative
  <2>5. TQ!Post(x) BY <2>2, <2>4 DEF TQ!Post
  <2> QED BY <2>1, <2>5 DEF TQ!Next
<1> QED BY <1>2, <1>3, <1>4, <1>5, <1>6, <1>7, <1>8, NextCases
        DEF Enter, WaitEvents, WaitTimeout, WaitInterrupted, ReadWakeup, SocketsHandled,
            PendingDone, CheckTimer, Wake, Unlock, StopTest, StopQuit, StopWake, vars, At

\* EventLoop implements TaskQueue: what RunInLoop, DoPendingFuncs and Loop() do
\* to pending_funcs_ and its swapped-out batch looks from outside like one
\* queue, fed at its end, served at its head, and closed when Loop() returns.
THEOREM Implements == Spec => TQ!Spec
<1>1. Init => TQ!Init
  <2>1. <<>> \o <<>> = <<>> BY EmptySeq, ConcatEmptySeq
  <2> QED BY <2>1 DEF Init, TQ!Init
<1>2. TypeOK /\ TmpIsLocal /\ LineInv /\ [Next]_vars => [TQ!Next]_(TQ!vars)
  BY StepImplements
<1>3. Spec => []LineInv BY LineTheorem DEF LineInv
<1> QED BY <1>1, <1>2, <1>3, Typing, AlwaysTmpIsLocal, PTL DEF Spec, TQ!Spec
=============================================================================
