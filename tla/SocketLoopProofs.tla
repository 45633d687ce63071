---------------------------- MODULE SocketLoopProofs ----------------------------
(***************************************************************************)
(* Theorems about SocketLoop, for any connections and descriptor numbers:  *)
(* the table, the epoll set and the descriptors agree; an event is handled *)
(* by the connection it is for; a queued removal finds its own.            *)
(***************************************************************************)
EXTENDS SocketLoop, TLAPS

-----------------------------------------------------------------------------
(* Tasks and queues.                                                       *)

LEMMA TaskFacts ==
  /\ \A c, d : Add(c) = Add(d) => c = d
  /\ \A c, d : Remove(c) = Remove(d) => c = d
  /\ \A c, d : Add(c) # Remove(d)
  /\ \A c \in Conns : Add(c) \in Tasks /\ Remove(c) \in Tasks
  BY DEF Add, Remove, Tasks

Elems(q) == {q[i] : i \in DOMAIN q}

\* Nothing is queued twice.
OnceIn(q) == \A i, j \in 1 .. Len(q) : q[i] = q[j] => i = j

\* No addition under the number of a connection waits before its removal.
BehindIn(q) == \A c, d \in Conns : \A h, i \in 1 .. Len(q) :
                 h < i /\ q[h] = Add(d) /\ q[i] = Remove(c) /\ fd[d] = fd[c] => d = c

LEMMA AppendFacts ==
  ASSUME NEW q \in Seq(Tasks), NEW t \in Tasks
  PROVE  /\ Append(q, t) \in Seq(Tasks)
         /\ Elems(Append(q, t)) = Elems(q) \cup {t}
         /\ OnceIn(q) /\ t \notin Elems(q) => OnceIn(Append(q, t))
         /\ BehindIn(q) /\ (\A c, d \in Conns : t = Remove(c) /\ Add(d) \in Elems(q) /\ fd[d] = fd[c]
                               => d = c)
              => BehindIn(Append(q, t))
<1>1. /\ Append(q, t) \in Seq(Tasks) /\ Len(Append(q, t)) = Len(q) + 1 /\ Len(q) \in Nat
      /\ \A i \in 1 .. Len(q) : Append(q, t)[i] = q[i]
      /\ Append(q, t)[Len(q) + 1] = t
  OBVIOUS
<1>2. DOMAIN q = 1 .. Len(q) /\ DOMAIN Append(q, t) = 1 .. Len(q) + 1 BY <1>1
<1> DEFINE r == Append(q, t)
<1> HIDE DEF r
<1>3. /\ Len(r) = Len(q) + 1 /\ Len(q) \in Nat /\ r[Len(q) + 1] = t
      /\ \A i \in 1 .. Len(q) : r[i] = q[i]
      /\ DOMAIN r = 1 .. Len(q) + 1
  BY <1>1, <1>2 DEF r
<1>4. Elems(r) = Elems(q) \cup {t} BY <1>2, <1>3 DEF Elems
<1>5. \A i \in 1 .. Len(q) : q[i] \in Elems(q) BY <1>2 DEF Elems
<1>6. ASSUME OnceIn(q), t \notin Elems(q) PROVE OnceIn(r)
  BY <1>3, <1>5, <1>6 DEF OnceIn
<1>7. ASSUME BehindIn(q), \A c, d \in Conns : t = Remove(c) /\ Add(d) \in Elems(q) /\ fd[d] = fd[c]
                            => d = c
      PROVE BehindIn(r)
  BY <1>3, <1>5, <1>7 DEF BehindIn
<1> QED BY <1>1, <1>4, <1>6, <1>7 DEF r

LEMMA TailFacts ==
  ASSUME NEW q \in Seq(Tasks), q # <<>>
  PROVE  /\ Tail(q) \in Seq(Tasks)
         /\ Elems(Tail(q)) \subseteq Elems(q)
         /\ Head(q) \in Elems(q)
         /\ OnceIn(q) => OnceIn(Tail(q))
         /\ BehindIn(q) => BehindIn(Tail(q))
         /\ OnceIn(q) => Head(q) \notin Elems(Tail(q))
         /\ \A c, d \in Conns : BehindIn(q) /\ Head(q) = Add(d) /\ Remove(c) \in Elems(Tail(q))
                                /\ fd[d] = fd[c] => d = c
<1>1. /\ Tail(q) \in Seq(Tasks) /\ Len(Tail(q)) = Len(q) - 1 /\ Len(q) \in Nat /\ Len(q) > 0
      /\ \A i \in 1 .. Len(q) - 1 : Tail(q)[i] = q[i + 1]
      /\ Head(q) = q[1]
  OBVIOUS
<1> DEFINE r == Tail(q)
<1>2. DOMAIN q = 1 .. Len(q) /\ DOMAIN r = 1 .. Len(q) - 1 BY <1>1
<1> HIDE DEF r
<1>3. /\ Len(r) = Len(q) - 1 /\ Len(q) \in Nat /\ Len(q) > 0
      /\ \A i \in 1 .. Len(r) : r[i] = q[i + 1] /\ i + 1 \in 1 .. Len(q)
      /\ DOMAIN r = 1 .. Len(r)
  BY <1>1, <1>2 DEF r
<1>4. Elems(r) \subseteq Elems(q) /\ Head(q) \in Elems(q)
  <2>1. Elems(r) \subseteq Elems(q) BY <1>2, <1>3 DEF Elems
  <2>2. 1 \in DOMAIN q BY <1>2, <1>3
  <2> QED BY <1>1, <2>1, <2>2 DEF Elems
<1>5. OnceIn(q) => OnceIn(r) BY <1>3 DEF OnceIn
<1>6. BehindIn(q) => BehindIn(r) BY <1>3 DEF BehindIn
<1>7. ASSUME OnceIn(q), Head(q) \in Elems(r) PROVE FALSE
  <2>1. PICK i \in 1 .. Len(r) : r[i] = Head(q) BY <1>3, <1>7 DEF Elems
  <2>2. q[i + 1] = q[1] /\ {1, i + 1} \subseteq 1 .. Len(q) /\ i + 1 # 1
    BY <1>1, <1>3, <2>1
  <2> QED BY <1>7, <2>2 DEF OnceIn
<1>8. ASSUME NEW c \in Conns, NEW d \in Conns, BehindIn(q), Head(q) = Add(d),
             Remove(c) \in Elems(r), fd[d] = fd[c]
      PROVE  d = c
  <2>1. PICK i \in 1 .. Len(r) : r[i] = Remove(c) BY <1>3, <1>8 DEF Elems
  <2>2. q[i + 1] = Remove(c) /\ q[1] = Add(d) /\ {1, i + 1} \subseteq 1 .. Len(q) /\ 1 < i + 1
    BY <1>1, <1>3, <1>8, <2>1
  <2> QED BY <1>8, <2>2 DEF BehindIn
<1> QED BY <1>1, <1>4, <1>5, <1>6, <1>7, <1>8 DEF r
-----------------------------------------------------------------------------
(* The invariant.                                                          *)

Types == /\ single \in BOOLEAN
         /\ fd \in [Conns -> Fds \cup {None}]
         /\ accepted \in Conns \cup {None}
         /\ held \subseteq Conns
         /\ ctxs \in [Fds -> Conns \cup {None}]
         /\ epoll \subseteq Conns
         /\ batch \subseteq Conns
         /\ cur \in Conns \cup {None}
         /\ todo \in Seq(Tasks)
         /\ lpc \in {"wait", "batch", "run", "timers", "crashed"}

\* Whoever has to do with a connection has one that was accepted.
InUse(c) == \/ c \in held \cup batch
            \/ c \in {accepted, cur}
            \/ {Add(c), Remove(c)} \cap Queued # {}
            \/ \E f \in Fds : ctxs[f] = c
Numbered == \A c \in Conns : InUse(c) => fd[c] # None

\* Two open connections have two numbers.
Distinct == \A c, d \in Conns : Open(c) /\ Open(d) /\ fd[c] = fd[d] => c = d

\* Each connection is added once; nobody asks again for what is asked for.
Once == OnceIn(todo) /\ \A c \in Conns : c = accepted => Add(c) \notin Queued

\* Events wait only while the loop handles them, and for what is in the table.
Batch == /\ lpc \notin {"batch", "crashed"} => batch = {}
         /\ cur # None => lpc = "batch"
         /\ ~CrossClose => EventsAreOwn /\ cur \notin batch

\* A queued removal meets the connection it is for, or none.
Removals == ~single => /\ BehindIn(todo)
                       /\ \A c \in Conns : Remove(c) \in Queued => ctxs[fd[c]] \in {c, None}

IInv == Types /\ Numbered /\ Distinct /\ TableAgrees /\ Once /\ Batch /\ Removals

LEMMA InitHolds == Init => IInv
<1> SUFFICES ASSUME Init PROVE IInv OBVIOUS
<1> USE NoneAssumption DEF Init
<1>1. Types BY DEF Types
<1>2. Queued = {} BY DEF Queued
<1>3. Numbered BY <1>2 DEF Numbered, InUse
<1>4. Distinct BY DEF Distinct, Open
<1>5. TableAgrees BY <1>2 DEF TableAgrees, WatchedIffKnown, SlotsAreOwn
<1>6. Once BY <1>2 DEF Once, OnceIn
<1>7. Batch BY DEF Batch, EventsAreOwn
<1>8. Removals BY <1>2 DEF Removals, BehindIn
<1> QED BY <1>1, <1>3, <1>4, <1>5, <1>6, <1>7, <1>8 DEF IInv

-----------------------------------------------------------------------------
(* What several steps have in common.                                      *)

\* An open connection in the table is there under its number only.
LEMMA Slot ==
  ASSUME IInv, NEW f \in Fds, ctxs[f] # None
  PROVE  ctxs[f] \in Conns /\ fd[ctxs[f]] = f /\ Open(ctxs[f]) /\ ctxs[f] \in epoll
  BY NoneAssumption DEF IInv, Types, TableAgrees, SlotsAreOwn, WatchedIffKnown, Open

\* Nobody gets hold of a connection that nobody had.
LEMMA NothingNew ==
  ASSUME IInv, fd' = fd, \A c \in Conns : (Open(c)' => Open(c)) /\ (InUse(c)' => InUse(c))
  PROVE  Numbered' /\ Distinct'
  BY DEF IInv, Numbered, Distinct

\* A removal from the table.
LEMMA Removing ==
  ASSUME IInv, NEW f \in Fds, DoRemove(f), UNCHANGED <<single, fd, accepted, held>>,
         todo' = todo \/ (todo # <<>> /\ todo' = Tail(todo)),
         batch' \subseteq batch, cur' \in {cur, None}
  PROVE  /\ ctxs' \in [Fds -> Conns \cup {None}] /\ epoll' \subseteq Conns /\ todo' \in Seq(Tasks)
         /\ Numbered' /\ Distinct' /\ TableAgrees' /\ Once' /\ Removals'
         /\ \A c \in Conns : Open(c) /\ fd[c] # f => ctxs'[fd[c]] = ctxs[fd[c]]
<1> USE NoneAssumption DEF IInv
<1>1. /\ ctxs' = [ctxs EXCEPT ![f] = None] /\ epoll' = epoll \ {ctxs[f]}
      /\ ctxs' \in [Fds -> Conns \cup {None}] /\ epoll' \subseteq Conns
  BY DEF DoRemove, Types
<1>2. todo' \in Seq(Tasks) /\ Queued' \subseteq Queued
      /\ (OnceIn(todo) => OnceIn(todo')) /\ (BehindIn(todo) => BehindIn(todo)')
  <2>1. CASE todo' = todo BY <2>1 DEF Types, Queued, BehindIn
  <2>2. CASE todo # <<>> /\ todo' = Tail(todo)
    BY <2>2, TailFacts DEF Types, Queued, Elems, BehindIn
  <2> QED BY <2>1, <2>2
<1>3. \A g \in Fds : ctxs'[g] = IF g = f THEN None ELSE ctxs[g] BY <1>1 DEF Types
<1>4. ASSUME NEW c \in Conns PROVE (Open(c)' => Open(c)) /\ (InUse(c)' => InUse(c))
  BY <1>2, <1>3 DEF Open, InUse, Types
<1>5. Numbered' /\ Distinct' BY <1>4, NothingNew
<1>6. WatchedIffKnown' BY <1>1, <1>3, Slot DEF TableAgrees, WatchedIffKnown
<1>7. SlotsAreOwn' BY <1>2, <1>3 DEF TableAgrees, SlotsAreOwn, Types, Numbered, InUse
<1>8. Once' BY <1>2 DEF Once
<1>9. Removals' BY <1>2, <1>3 DEF Removals, Types, Numbered, InUse
<1>10. \A c \in Conns : Open(c) /\ fd[c] # f => ctxs'[fd[c]] = ctxs[fd[c]]
  BY <1>3 DEF Open, Types
<1> QED BY <1>1, <1>2, <1>5, <1>6, <1>7, <1>8, <1>9, <1>10 DEF TableAgrees

\* An addition to the table of a connection that waits for it.
LEMMA Adding ==
  ASSUME IInv, NEW c \in Conns, c = accepted \/ Add(c) \in Queued, DoAdd(c),
         UNCHANGED <<single, fd, held, batch, cur, lpc>>,
         todo' \in Seq(Tasks), Queued' \subseteq Queued, OnceIn(todo)',
         accepted' \in {accepted, None}, accepted' # c, Add(c) \notin Queued',
         ~single => /\ BehindIn(todo)'
                    /\ \A d \in Conns : Remove(d) \in Queued' /\ fd[d] = fd[c] => d = c
  PROVE  IInv'
<1> USE NoneAssumption DEF IInv
<1>1. Open(c) /\ fd[c] \in Fds /\ ctxs[fd[c]] = None
  BY DEF Numbered, InUse, Open, Types, TableAgrees, SlotsAreOwn
<1>2. CASE UNCHANGED <<ctxs, epoll>>
  <2>1. Types' BY <1>2 DEF Types
  <2>2. Numbered' /\ Distinct' BY <1>2, NothingNew DEF Open, InUse
  <2>3. TableAgrees' BY <1>2 DEF TableAgrees, WatchedIffKnown, SlotsAreOwn
  <2>4. Once' BY DEF Once, Types
  <2>5. Batch' BY <1>2 DEF Batch, EventsAreOwn
  <2>6. Removals' BY <1>2 DEF Removals
  <2> QED BY <2>1, <2>2, <2>3, <2>4, <2>5, <2>6
<1>3. CASE ctxs' = [ctxs EXCEPT ![fd[c]] = c] /\ epoll' = epoll \cup {c}
  <2>1. Types' BY <1>3 DEF Types
  <2>2. \A g \in Fds : ctxs'[g] = IF g = fd[c] THEN c ELSE ctxs[g] BY <1>1, <1>3 DEF Types
  <2>3. ASSUME NEW d \in Conns PROVE (Open(d)' => Open(d)) /\ (InUse(d)' => InUse(d))
    BY <1>1, <2>2 DEF Open, InUse, Types
  <2>4. Numbered' /\ Distinct' BY <2>3, NothingNew
  <2>5. WatchedIffKnown' BY <1>1, <1>3, <2>2 DEF TableAgrees, WatchedIffKnown
  <2>6. SlotsAreOwn'
    <3>1. ASSUME NEW d \in Conns, d = accepted' \/ Add(d) \in Queued' PROVE ctxs'[fd[d]] = None
      <4>1. d # c /\ Open(d) /\ fd[d] \in Fds /\ ctxs[fd[d]] = None
        BY <3>1 DEF Numbered, InUse, Open, Types, TableAgrees, SlotsAreOwn
      <4>2. fd[d] # fd[c] BY <1>1, <4>1 DEF Distinct
      <4> QED BY <2>2, <4>1, <4>2
    <3> QED BY <2>2, <3>1 DEF TableAgrees, SlotsAreOwn
  <2>7. Once' BY DEF Once, Types
  <2>8. Batch'
    <3>1. ASSUME EventsAreOwn, NEW d \in batch PROVE ctxs'[fd[d]] = d
      BY <1>1, <2>2, <3>1 DEF EventsAreOwn, Types, Numbered, InUse
    <3> QED BY <3>1 DEF Batch, EventsAreOwn
  <2>9. Removals'
    <3>1. ASSUME ~single, NEW d \in Conns, Remove(d) \in Queued' PROVE ctxs'[fd[d]] \in {d, None}
      BY <2>2, <3>1 DEF Removals, Numbered, InUse, Types
    <3> QED BY <3>1 DEF Removals
  <2> QED BY <2>1, <2>4, <2>5, <2>6, <2>7, <2>8, <2>9 DEF TableAgrees
<1> QED BY <1>2, <1>3 DEF DoAdd

\* The table stays as it is.
LEMMA TableStays ==
  ASSUME IInv, UNCHANGED <<single, fd, ctxs, epoll, todo>>, accepted' = accepted,
         held' \subseteq held \cup ({accepted, cur} \ {None}),
         batch' \subseteq batch \cup epoll, cur' \in {ctxs[f] : f \in Fds} \cup {cur, None},
         lpc' \in {"wait", "batch", "run", "timers", "crashed"}
  PROVE  Types' /\ Numbered' /\ Distinct' /\ TableAgrees' /\ Once' /\ Removals'
<1> USE NoneAssumption DEF IInv
<1>1. Types' BY DEF Types
<1>2. Queued' = Queued BY DEF Queued
<1>3. ASSUME NEW c \in Conns PROVE Open(c)' => Open(c)
  <2>1. \A f \in Fds : ctxs[f] = c => ctxs[fd[c]] = c BY Slot
  <2> QED BY <1>2, <2>1 DEF Open
<1>4. ASSUME NEW c \in Conns PROVE InUse(c)' => InUse(c)
  BY <1>2 DEF InUse, TableAgrees, WatchedIffKnown
<1>5. Numbered' /\ Distinct' BY <1>3, <1>4, NothingNew
<1>6. TableAgrees' BY <1>2 DEF TableAgrees, WatchedIffKnown, SlotsAreOwn
<1>7. Once' /\ Removals' BY <1>2 DEF Once, Removals, OnceIn, BehindIn
<1> QED BY <1>1, <1>5, <1>6, <1>7
-----------------------------------------------------------------------------
(* The steps.                                                              *)

\* The acceptor.
LEMMA AcceptKeeps == ASSUME IInv, NEW c \in Conns, Accept(c) PROVE IInv'
<1> USE NoneAssumption DEF IInv
<1>1. PICK f \in Fds : f \in FreeFds /\ fd' = [fd EXCEPT ![c] = f]
  BY DEF Accept, FreeFds
<1>2. /\ ~InUse(c) /\ fd[c] = None /\ accepted = None /\ accepted' = c
      /\ UNCHANGED <<single, held, ctxs, epoll, batch, cur, todo, lpc>>
  BY DEF Accept, Numbered
<1>3. /\ \A d \in Conns : d # c => fd'[d] = fd[d]
      /\ fd'[c] = f /\ f # None /\ f \in Fds
      /\ fd' \in [Conns -> Fds \cup {None}]
  BY <1>1 DEF Types
<1>4. \A d \in Conns : Open(d) => fd[d] # f BY <1>1 DEF FreeFds
<1>5. Queued' = Queued BY <1>2 DEF Queued
<1>6. ctxs[f] = None BY <1>4, Slot
<1>7. ASSUME NEW d \in Conns, d # c
      PROVE (Open(d)' => Open(d)) /\ (InUse(d)' => InUse(d)) /\ fd'[d] = fd[d]
  BY <1>2, <1>3, <1>5, <1>7 DEF Open, InUse
<1>8. Types' BY <1>2, <1>3 DEF Types
<1>9. Numbered' BY <1>3, <1>7 DEF Numbered
<1>10. Distinct' BY <1>3, <1>4, <1>7 DEF Distinct
<1>11. TableAgrees'
  <2>1. WatchedIffKnown' BY <1>2 DEF TableAgrees, WatchedIffKnown
  <2>2. \A g \in Fds : ctxs'[g] # None => fd'[ctxs'[g]] = g
    BY <1>2, <1>3, Slot DEF InUse
  <2>3. \A d \in Conns : (d = accepted' \/ Add(d) \in Queued') => ctxs'[fd'[d]] = None
    BY <1>2, <1>3, <1>5, <1>6, <1>7 DEF TableAgrees, SlotsAreOwn, InUse
  <2> QED BY <2>1, <2>2, <2>3 DEF TableAgrees, SlotsAreOwn
<1>12. Once' BY <1>2, <1>5 DEF Once, InUse
<1>13. Batch'
  <2>1. \A d \in batch : fd'[d] = fd[d] BY <1>2, <1>7 DEF InUse, Types
  <2>2. EventsAreOwn => EventsAreOwn' BY <1>2, <2>1 DEF EventsAreOwn
  <2> QED BY <1>2, <2>2 DEF Batch
<1>14. Removals'
  <2>1. ASSUME NEW d \in Conns, Add(d) \in Queued \/ Remove(d) \in Queued
        PROVE fd'[d] = fd[d]
    BY <1>2, <1>7, <2>1 DEF InUse
  <2>2. \A d \in Conns : \A i \in 1 .. Len(todo) :
          todo[i] \in {Add(d), Remove(d)} => todo[i] \in Queued
    <3>1. DOMAIN todo = 1 .. Len(todo) BY DEF Types
    <3> QED BY <3>1 DEF Queued
  <2>3. BehindIn(todo) => BehindIn(todo)' BY <1>2, <2>1, <2>2 DEF BehindIn
  <2> QED BY <1>2, <1>5, <2>1, <2>3 DEF Removals
<1> QED BY <1>8, <1>9, <1>10, <1>11, <1>12, <1>13, <1>14

\* Something is posted.
LEMMA Posting ==
  ASSUME IInv, NEW t \in Tasks, todo' = Append(todo, t), fd' = fd, t \notin Queued
  PROVE  /\ todo' \in Seq(Tasks) /\ Queued' = Queued \cup {t}
         /\ OnceIn(todo)'
         /\ (\A c, d \in Conns : t = Remove(c) /\ Add(d) \in Queued /\ fd[d] = fd[c] => d = c)
              => (BehindIn(todo) => BehindIn(todo)')
<1>1. todo \in Seq(Tasks) /\ OnceIn(todo) BY DEF IInv, Types, Once
<1>2. Queued = Elems(todo) /\ Queued' = Elems(todo)' BY DEF Queued, Elems
<1>3. todo' \in Seq(Tasks) /\ Queued' = Queued \cup {t} /\ OnceIn(todo')
  BY <1>1, <1>2, AppendFacts DEF Elems
<1>4. BehindIn(Append(todo, t)) => BehindIn(todo)' BY DEF BehindIn
<1> QED BY <1>1, <1>2, <1>3, <1>4, AppendFacts

LEMMA AddAcceptedKeeps == ASSUME IInv, AddAccepted PROVE IInv'
<1> USE NoneAssumption DEF IInv
<1>1. accepted \in Conns /\ accepted' = None /\ Add(accepted) \notin Queued
  BY DEF AddAccepted, Types, Once
<1>2. CASE single
  <2>1. DoAdd(accepted) /\ UNCHANGED <<single, fd, held, batch, cur, todo, lpc>>
    BY <1>2 DEF AddAccepted
  <2>2. Queued' = Queued /\ todo' \in Seq(Tasks) /\ OnceIn(todo)'
    BY <2>1 DEF Queued, Types, Once, OnceIn
  <2> QED BY <1>1, <1>2, <2>1, <2>2, Adding
<1>3. CASE ~single
  <2>1. /\ todo' = Append(todo, Add(accepted))
        /\ UNCHANGED <<single, fd, held, ctxs, epoll, batch, cur, lpc>>
    BY <1>3 DEF AddAccepted
  <2>2. /\ todo' \in Seq(Tasks) /\ Queued' = Queued \cup {Add(accepted)}
        /\ OnceIn(todo)' /\ (BehindIn(todo) => BehindIn(todo)')
    BY <1>1, <2>1, Posting, TaskFacts
  <2>3. Types' BY <1>1, <2>1, <2>2 DEF Types
  <2>4. \A c \in Conns : (Open(c)' => Open(c)) /\ (InUse(c)' => InUse(c))
    BY <1>1, <2>1, <2>2, TaskFacts DEF Open, InUse
  <2>5. Numbered' /\ Distinct' BY <2>1, <2>4, NothingNew
  <2>6. TableAgrees'
    BY <1>1, <2>1, <2>2, TaskFacts DEF TableAgrees, WatchedIffKnown, SlotsAreOwn
  <2>7. Once' BY <1>1, <2>2 DEF Once
  <2>8. Batch' BY <2>1 DEF Batch, EventsAreOwn
  <2>9. Removals' BY <2>1, <2>2, TaskFacts DEF Removals
  <2> QED BY <2>3, <2>5, <2>6, <2>7, <2>8, <2>9
<1> QED BY <1>2, <1>3

\* Another thread closes a connection it keeps.
LEMMA CloseFromOutsideKeeps == ASSUME IInv, NEW c \in Conns, CloseFromOutside(c) PROVE IInv'
<1> USE NoneAssumption DEF IInv
<1>1. /\ c \in held /\ Remove(c) \notin Queued /\ todo' = Append(todo, Remove(c))
      /\ UNCHANGED <<single, fd, accepted, held, ctxs, epoll, batch, cur, lpc>>
  BY DEF CloseFromOutside
<1>2. Open(c) /\ fd[c] \in Fds BY <1>1 DEF Numbered, InUse, Open, Types
<1>3. \A d \in Conns : Add(d) \in Queued /\ fd[d] = fd[c] => d = c
  BY <1>2 DEF Distinct, Numbered, InUse, Open
<1>4. /\ todo' \in Seq(Tasks) /\ Queued' = Queued \cup {Remove(c)}
      /\ OnceIn(todo)' /\ (BehindIn(todo) => BehindIn(todo)')
  BY <1>1, <1>3, Posting, TaskFacts
<1>5. Types' BY <1>1, <1>4 DEF Types
<1>6. \A d \in Conns : (Open(d)' => Open(d)) /\ (InUse(d)' => InUse(d))
  BY <1>1, <1>4, TaskFacts DEF Open, InUse
<1>7. Numbered' /\ Distinct' BY <1>1, <1>6, NothingNew
<1>8. TableAgrees' BY <1>1, <1>4, TaskFacts DEF TableAgrees, WatchedIffKnown, SlotsAreOwn
<1>9. Once' BY <1>1, <1>4, TaskFacts DEF Once
<1>10. Batch' BY <1>1 DEF Batch, EventsAreOwn
<1>11. ctxs[fd[c]] \in {c, None} BY <1>2, Slot DEF Distinct
<1>12. Removals' BY <1>1, <1>4, <1>11, TaskFacts DEF Removals
<1> QED BY <1>5, <1>7, <1>8, <1>9, <1>10, <1>12

\* The loop runs a queued function.
LEMMA RunAddKeeps == ASSUME IInv, NEW c \in Conns, RunAdd(c) PROVE IInv'
<1> USE DEF IInv
<1>1. /\ todo # <<>> /\ Head(todo) = Add(c) /\ todo' = Tail(todo) /\ DoAdd(c)
      /\ UNCHANGED <<single, fd, accepted, held, batch, cur, lpc>>
  BY DEF RunAdd
<1>2. /\ todo' \in Seq(Tasks) /\ Queued' \subseteq Queued /\ Add(c) \in Queued /\ Add(c) \notin Queued'
      /\ OnceIn(todo)' /\ (BehindIn(todo) => BehindIn(todo)')
      /\ \A d \in Conns : BehindIn(todo) /\ Remove(d) \in Queued' /\ fd[d] = fd[c] => d = c
  BY <1>1, TailFacts DEF Types, Once, Queued, Elems, BehindIn, OnceIn
<1>3. accepted' # c BY <1>1, <1>2 DEF Once
<1> QED BY <1>1, <1>2, <1>3, Adding DEF Removals

LEMMA RunRemoveKeeps == ASSUME IInv, NEW c \in Conns, RunRemove(c) PROVE IInv'
<1> USE DEF IInv
<1>1. /\ todo # <<>> /\ Head(todo) = Remove(c) /\ todo' = Tail(todo) /\ DoRemove(fd[c])
      /\ UNCHANGED <<single, fd, accepted, held, batch, cur, lpc>> /\ lpc = "run"
  BY DEF RunRemove
<1>2. fd[c] \in Fds BY <1>1, TailFacts DEF Types, Numbered, InUse, Queued, Elems
<1>3. Batch' BY <1>1 DEF Batch, EventsAreOwn
<1> QED BY <1>1, <1>2, <1>3, Removing DEF Types

\* A removal leaves the events of other connections.
LEMMA EventsStay ==
  ASSUME IInv, NEW c \in Conns, Open(c), DoRemove(fd[c]), fd' = fd,
         EventsAreOwn, batch' \subseteq batch \ {c}
  PROVE  EventsAreOwn'
<1> USE NoneAssumption DEF IInv
<1>1. ASSUME NEW d \in batch' PROVE ctxs'[fd[d]] = d
  <2>1. d \in Conns /\ d # c /\ ctxs[fd[d]] = d /\ fd[d] \in Fds
    BY DEF Types, EventsAreOwn, Numbered, InUse
  <2>2. fd[d] # fd[c] BY <2>1 DEF Open, Distinct
  <2> QED BY <2>1, <2>2 DEF DoRemove, Types
<1> QED BY <1>1 DEF EventsAreOwn

\* Errors, callbacks and timers remove connections.
LEMMA DispatchErrorKeeps == ASSUME IInv, NEW c \in Conns, DispatchError(c) PROVE IInv'
<1> USE NoneAssumption DEF IInv
<1>1. /\ c \in batch /\ batch' = batch \ {c} /\ cur = None /\ lpc = "batch"
      /\ UNCHANGED <<single, fd, accepted, held, cur, todo, lpc>>
  BY DEF DispatchError, Handling
<1>2. CASE UNCHANGED <<ctxs, epoll>>
  <2>1. Types' /\ Numbered' /\ Distinct' /\ TableAgrees' /\ Once' /\ Removals'
    BY <1>1, <1>2, TableStays
  <2>2. Batch' BY <1>1, <1>2 DEF Batch, EventsAreOwn, Types
  <2> QED BY <2>1, <2>2
<1>3. CASE DoRemove(fd[c])
  <2>1. fd[c] \in Fds BY <1>1 DEF Types, Numbered, InUse
  <2>2. /\ ctxs' \in [Fds -> Conns \cup {None}] /\ epoll' \subseteq Conns /\ todo' \in Seq(Tasks)
        /\ Numbered' /\ Distinct' /\ TableAgrees' /\ Once' /\ Removals'
    BY <1>1, <1>3, <2>1, Removing
  <2>3. Types' BY <1>1, <2>2 DEF Types
  <2>4. EventsAreOwn => Open(c) BY <1>1, <2>1 DEF EventsAreOwn, Open
  <2>5. EventsAreOwn => EventsAreOwn' BY <1>1, <1>3, <2>4, EventsStay
  <2>6. Batch' BY <1>1, <2>5 DEF Batch, Types
  <2> QED BY <2>2, <2>3, <2>6
<1> QED BY <1>2, <1>3 DEF DispatchError

LEMMA CallbackClosesKeeps == ASSUME IInv, NEW c \in Conns, CallbackCloses(c) PROVE IInv'
<1> USE NoneAssumption DEF IInv
<1>1. /\ cur # None /\ (c = cur \/ (CrossClose /\ c \in held)) /\ DoRemove(fd[c])
      /\ UNCHANGED <<single, fd, accepted, held, batch, cur, todo, lpc>>
  BY DEF CallbackCloses, CloseInline
<1>2. fd[c] \in Fds /\ Open(c) BY <1>1 DEF Types, Numbered, InUse, Open
<1>3. /\ ctxs' \in [Fds -> Conns \cup {None}] /\ epoll' \subseteq Conns /\ todo' \in Seq(Tasks)
      /\ Numbered' /\ Distinct' /\ TableAgrees' /\ Once' /\ Removals'
  BY <1>1, <1>2, Removing
<1>4. Types' BY <1>1, <1>3 DEF Types
<1>5. Batch'
  <2>1. ASSUME ~CrossClose PROVE EventsAreOwn'
    <3>1. c = cur /\ batch' \subseteq batch \ {c} /\ EventsAreOwn BY <1>1, <2>1 DEF Batch
    <3> QED BY <1>1, <1>2, <3>1, EventsStay
  <2> QED BY <1>1, <2>1 DEF Batch
<1> QED BY <1>3, <1>4, <1>5

LEMMA TimerClosesKeeps == ASSUME IInv, NEW c \in Conns, TimerCloses(c) PROVE IInv'
<1> USE DEF IInv
<1>1. /\ lpc = "timers" /\ c \in held /\ DoRemove(fd[c])
      /\ UNCHANGED <<single, fd, accepted, held, batch, cur, todo, lpc>>
  BY DEF TimerCloses, CloseInline
<1>2. fd[c] \in Fds BY <1>1 DEF Types, Numbered, InUse
<1>3. /\ ctxs' \in [Fds -> Conns \cup {None}] /\ epoll' \subseteq Conns /\ todo' \in Seq(Tasks)
      /\ Numbered' /\ Distinct' /\ TableAgrees' /\ Once' /\ Removals'
  BY <1>1, <1>2, Removing
<1>4. Types' BY <1>1, <1>3 DEF Types
<1>5. Batch' BY <1>1 DEF Batch, EventsAreOwn
<1> QED BY <1>3, <1>4, <1>5

LEMMA HandlersReturnKeeps == ASSUME IInv, HandlersReturn PROVE IInv'
<1> USE NoneAssumption DEF IInv
<1>1. /\ cur # None /\ cur' = None /\ cur \in Conns
      /\ UNCHANGED <<single, fd, accepted, held, batch, todo, lpc>>
  BY DEF HandlersReturn, Types
<1>2. CASE UNCHANGED <<ctxs, epoll>>
  <2>1. Types' /\ Numbered' /\ Distinct' /\ TableAgrees' /\ Once' /\ Removals'
    BY <1>1, <1>2, TableStays DEF Types
  <2>2. Batch' BY <1>1, <1>2 DEF Batch, EventsAreOwn, Types
  <2> QED BY <2>1, <2>2
<1>3. CASE DoRemove(fd[cur])
  <2>1. fd[cur] \in Fds /\ Open(cur) BY <1>1 DEF Types, Numbered, InUse, Open
  <2>2. /\ ctxs' \in [Fds -> Conns \cup {None}] /\ epoll' \subseteq Conns /\ todo' \in Seq(Tasks)
        /\ Numbered' /\ Distinct' /\ TableAgrees' /\ Once' /\ Removals'
    BY <1>1, <1>3, <2>1, Removing
  <2>3. Types' BY <1>1, <2>2 DEF Types
  <2>4. ASSUME ~CrossClose PROVE EventsAreOwn' /\ cur' \notin batch'
    <3>1. batch' \subseteq batch \ {cur} /\ EventsAreOwn BY <1>1, <2>4 DEF Batch
    <3> QED BY <1>1, <1>3, <2>1, <3>1, EventsStay DEF Types
  <2>5. Batch' BY <1>1, <2>4 DEF Batch
  <2> QED BY <2>2, <2>3, <2>5
<1> QED BY <1>2, <1>3 DEF HandlersReturn

\* The steps that leave the table as it is.
LEMMA OthersKeep ==
  ASSUME IInv,
         \/ AfterConnect \/ WaitReturns \/ CallbackHolds \/ BatchDone \/ FuncsDone \/ PassDone
         \/ UNCHANGED vars
         \/ \E c \in Conns : Release(c) \/ Dispatch(c)
  PROVE  IInv'
<1> USE NoneAssumption DEF IInv
<1>1. CASE AfterConnect \/ CallbackHolds \/ UNCHANGED vars \/ \E c \in Conns : Release(c)
  <2>1. /\ UNCHANGED <<single, fd, accepted, ctxs, epoll, batch, cur, todo, lpc>>
        /\ held' \subseteq held \cup ({accepted, cur} \ {None})
    BY <1>1 DEF AfterConnect, CallbackHolds, vars, Release
  <2>2. Types' /\ Numbered' /\ Distinct' /\ TableAgrees' /\ Once' /\ Removals'
    BY <2>1, TableStays DEF Types
  <2>3. Batch' BY <2>1 DEF Batch, EventsAreOwn
  <2> QED BY <2>2, <2>3
<1>2. CASE WaitReturns
  <2>1. /\ UNCHANGED <<single, fd, accepted, held, ctxs, epoll, cur, todo>>
        /\ batch' \subseteq epoll /\ lpc = "wait" /\ lpc' = "batch"
    BY <1>2 DEF WaitReturns
  <2>2. Types' /\ Numbered' /\ Distinct' /\ TableAgrees' /\ Once' /\ Removals'
    BY <2>1, TableStays
  <2>3. EventsAreOwn'
    BY <2>1 DEF EventsAreOwn, TableAgrees, WatchedIffKnown, SlotsAreOwn
  <2>4. Batch' BY <2>1, <2>3 DEF Batch, Types
  <2> QED BY <2>2, <2>4
<1>3. ASSUME NEW c \in Conns, Dispatch(c) PROVE IInv'
  <2>1. /\ UNCHANGED <<single, fd, accepted, held, ctxs, epoll, todo>>
        /\ c \in batch /\ batch' = batch \ {c} /\ cur' = ctxs[fd[c]] /\ lpc = "batch"
        /\ lpc' = IF cur' = None THEN "crashed" ELSE "batch"
    BY <1>3 DEF Dispatch, Handling
  <2>2. fd[c] \in Fds BY <2>1 DEF Types, Numbered, InUse
  <2>3. Types' /\ Numbered' /\ Distinct' /\ TableAgrees' /\ Once' /\ Removals'
    BY <2>1, <2>2, TableStays
  <2>4. Batch' BY <2>1 DEF Batch, EventsAreOwn
  <2> QED BY <2>3, <2>4
<1>4. CASE BatchDone \/ FuncsDone \/ PassDone
  <2>1. /\ UNCHANGED <<single, fd, accepted, held, ctxs, epoll, batch, cur, todo>>
        /\ batch = {} /\ cur = None /\ lpc' \in {"run", "timers", "wait"}
    BY <1>4 DEF BatchDone, FuncsDone, PassDone, Handling, Batch
  <2>2. Types' /\ Numbered' /\ Distinct' /\ TableAgrees' /\ Once' /\ Removals'
    BY <2>1, TableStays
  <2>3. Batch' BY <2>1 DEF Batch, EventsAreOwn
  <2> QED BY <2>2, <2>3
<1> QED BY <1>1, <1>2, <1>3, <1>4

-----------------------------------------------------------------------------
(* The theorems.                                                           *)

LEMMA Invariance == ASSUME IInv, [Next]_vars PROVE IInv'
<1>1. CASE LoopNext
  <2>1. ASSUME NEW c \in Conns, \/ Dispatch(c) \/ DispatchError(c) \/ CallbackCloses(c)
                                \/ RunAdd(c) \/ RunRemove(c) \/ TimerCloses(c)
        PROVE IInv'
    BY <2>1, OthersKeep, DispatchErrorKeeps, CallbackClosesKeeps, RunAddKeeps, RunRemoveKeeps,
       TimerClosesKeeps
  <2> QED BY <1>1, <2>1, HandlersReturnKeeps, OthersKeep DEF LoopNext
<1>2. CASE AfterConnect \/ AddAccepted \/ UNCHANGED vars
  BY <1>2, AddAcceptedKeeps, OthersKeep
<1>3. ASSUME NEW c \in Conns, Accept(c) \/ CloseFromOutside(c) \/ Release(c) PROVE IInv'
  BY <1>3, AcceptKeeps, CloseFromOutsideKeeps, OthersKeep
<1> QED BY <1>1, <1>2, <1>3 DEF Next

LEMMA AlwaysIInv == Spec => []IInv
  BY InitHolds, Invariance, PTL DEF Spec

\* The table of contexts, the epoll set and the descriptors tell the same, though
\* numbers are used again: a slot holds the connection of its number, watched by
\* epoll, and one that waits to be added finds its slot free (event_loop.cc:88-117).
THEOREM Agreement == Spec => []TableAgrees
  BY AlwaysIInv, PTL DEF IInv

\* Unless callbacks close other connections than their own, an event that was
\* returned by epoll_wait is handled by the connection it is for, whatever the
\* handlers of the batch have closed before (event_loop.cc:48-53).
THEOREM EventsFindTheirOwn == ASSUME ~CrossClose PROVE Spec => []EventsAreOwn
<1>1. IInv => EventsAreOwn BY DEF IInv, Batch
<1> QED BY <1>1, AlwaysIInv, PTL

\* With sub reactors a queued removal, which names a number, removes the connection
\* it was meant for or none (event_loop.cc:106-117).
THEOREM RemovalsFindTheirOwn == Spec => []RemovesItsOwn
<1>1. IInv => RemovesItsOwn
  <2> SUFFICES ASSUME IInv, ~single, NEW c \in Conns, todo # <<>>, Head(todo) = Remove(c)
               PROVE  ctxs[fd[c]] \in {c, None}
    BY DEF RemovesItsOwn, HitsItsOwn
  <2>1. Remove(c) \in Queued BY TailFacts DEF IInv, Types, Queued, Elems
  <2> QED BY <2>1 DEF IInv, Removals
<1> QED BY <1>1, AlwaysIInv, PTL

-----------------------------------------------------------------------------
(* The table implements ConnTable.                                         *)

\* What a stage depends on.
LEMMA SameStage ==
  ASSUME NEW c \in Conns, fd'[c] = fd[c], c = accepted' <=> c = accepted,
         Add(c) \in Queued' <=> Add(c) \in Queued,
         ctxs'[fd[c]] = c <=> ctxs[fd[c]] = c
  PROVE  Stage(c)' = Stage(c)
  BY DEF Stage

\* What is in the table is neither with the acceptor nor queued.
LEMMA KnownStage ==
  ASSUME IInv, NEW c \in Conns, NEW f \in Fds, ctxs[f] = c
  PROVE  fd[c] = f /\ Stage(c) = "known"
<1>1. c # None BY NoneAssumption
<1>2. fd[c] = f /\ ctxs[fd[c]] = c /\ fd[c] # None BY <1>1, Slot, NoneAssumption
<1>3. c # accepted /\ Add(c) \notin Queued BY <1>1, <1>2 DEF IInv, TableAgrees, SlotsAreOwn
<1> QED BY <1>2, <1>3 DEF Stage

\* What is asked for depends on the queue alone.
LEMMA SameAsked ==
  ASSUME \A c \in Conns : Remove(c) \in Queued' <=> Remove(c) \in Queued
  PROVE  UNCHANGED {c \in Conns : Remove(c) \in Queued}
  OBVIOUS

\* One connection comes further, the others stay.
LEMMA MovesOne ==
  ASSUME NEW c \in Conns, NEW from, NEW to, Stage(c) = from, Stage(c)' = to,
         \A d \in Conns \ {c} : Stage(d)' = Stage(d)
  PROVE  CT!Moves(c, from, to)
<1> DEFINE new == [d \in Conns |-> Stage(d)']
           old == [d \in Conns |-> Stage(d)]
<1>1. new = [old EXCEPT ![c] = to]
  <2>1. \A d \in Conns : new[d] = [old EXCEPT ![c] = to][d] OBVIOUS
  <2> QED BY <2>1
<1> QED BY <1>1 DEF CT!Moves

LEMMA NobodyMoves ==
  ASSUME \A d \in Conns : Stage(d)' = Stage(d)
  PROVE  UNCHANGED [c \in Conns |-> Stage(c)]
  OBVIOUS

\* The number of an open connection has its own slot, or an empty one.
LEMMA OwnSlot ==
  ASSUME IInv, NEW c \in Conns, Open(c)
  PROVE  fd[c] \in Fds /\ ctxs[fd[c]] \in {c, None}
<1>1. fd[c] \in Fds BY DEF Open, IInv, Types
<1>2. ASSUME ctxs[fd[c]] # None PROVE ctxs[fd[c]] = c
  <2>1. PICK d \in Conns : d = ctxs[fd[c]] /\ fd[d] = fd[c] /\ Open(d) BY <1>1, <1>2, Slot
  <2> QED BY <2>1 DEF IInv, Distinct
<1> QED BY <1>1, <1>2

\* The removal of a number that is a connection's own, or nobody's.
LEMMA RemovedOne ==
  ASSUME IInv, NEW c \in Conns, fd[c] \in Fds, ctxs[fd[c]] \in {c, None}, DoRemove(fd[c]),
         fd' = fd, accepted' = accepted,
         \A d \in Conns : Add(d) \in Queued' <=> Add(d) \in Queued
  PROVE  \/ Stage(c) # "known" /\ UNCHANGED [d \in Conns |-> Stage(d)]
         \/ CT!Moves(c, "known", "gone")
<1>1. \A g \in Fds : ctxs'[g] = IF g = fd[c] THEN None ELSE ctxs[g]
  BY DEF DoRemove, IInv, Types
<1>2. ASSUME NEW d \in Conns, d # c \/ ctxs[fd[c]] = None PROVE Stage(d)' = Stage(d)
  <2>1. CASE fd[d] = None BY <2>1 DEF Stage
  <2>2. CASE fd[d] # None
    <3>1. fd[d] \in Fds BY <2>2 DEF IInv, Types
    <3>2. ctxs'[fd[d]] = d <=> ctxs[fd[d]] = d BY <1>1, <1>2, <3>1, NoneAssumption
    <3> QED BY <3>2, SameStage
  <2> QED BY <2>1, <2>2
<1>3. CASE ctxs[fd[c]] = None
  <2>1. Stage(c) # "known" BY <1>3, NoneAssumption DEF Stage
  <2> QED BY <1>2, <1>3, <2>1, NobodyMoves
<1>4. CASE ctxs[fd[c]] = c
  <2>1. Stage(c) = "known" BY <1>4, KnownStage
  <2>2. Stage(c)' = "gone"
    <3>1. fd[c] # None /\ c # accepted /\ Add(c) \notin Queued
      BY <1>4, NoneAssumption DEF IInv, TableAgrees, SlotsAreOwn
    <3>2. ctxs'[fd[c]] # c BY <1>1, NoneAssumption
    <3> QED BY <3>1, <3>2 DEF Stage
  <2> QED BY <1>2, <2>1, <2>2, MovesOne
<1> QED BY <1>3, <1>4

\* Taking the head of the queue takes nothing else.
LEMMA HeadTaken ==
  ASSUME NEW q \in Seq(Tasks), q # <<>>
  PROVE  Elems(q) = Elems(Tail(q)) \cup {Head(q)}
<1>1. /\ Len(Tail(q)) = Len(q) - 1 /\ Len(q) \in Nat /\ Head(q) = q[1]
      /\ DOMAIN q = 1 .. Len(q) /\ DOMAIN Tail(q) = 1 .. Len(q) - 1
      /\ \A i \in 1 .. Len(q) - 1 : Tail(q)[i] = q[i + 1]
  OBVIOUS
<1>2. ASSUME NEW i \in 1 .. Len(q) PROVE q[i] \in Elems(Tail(q)) \cup {Head(q)}
  <2>1. CASE i = 1 BY <1>1, <2>1
  <2>2. CASE i # 1
    <3>1. i - 1 \in 1 .. Len(q) - 1 /\ (i - 1) + 1 = i BY <1>1, <2>2
    <3>2. Tail(q)[i - 1] = q[i] BY <1>1, <3>1
    <3> QED BY <1>1, <3>1, <3>2 DEF Elems
  <2> QED BY <2>1, <2>2
<1>3. Elems(q) \subseteq Elems(Tail(q)) \cup {Head(q)} BY <1>1, <1>2 DEF Elems
<1> QED BY <1>3, TailFacts

LEMMA AcceptorServes ==
  ASSUME IInv, ~single, AddAccepted \/ \E c \in Conns : Accept(c)
  PROVE  CT!Next
<1>1. ASSUME NEW c \in Conns, Accept(c) PROVE CT!Accept(c)
  <2>1. /\ accepted = None /\ fd[c] = None /\ accepted' = c /\ UNCHANGED <<todo, ctxs, batch, cur>>
        /\ \E f \in Fds : fd' = [fd EXCEPT ![c] = f]
    BY <1>1 DEF Accept, FreeFds
  <2>2. Queued' = Queued BY <2>1 DEF Queued
  <2>3. fd'[c] # None /\ \A d \in Conns \ {c} : fd'[d] = fd[d]
    BY <2>1, NoneAssumption DEF IInv, Types
  <2>4. Stage(c) = "new" BY <2>1 DEF Stage
  <2>5. Stage(c)' = "accepted" BY <2>1, <2>3 DEF Stage
  <2>6. ASSUME NEW d \in Conns \ {c} PROVE Stage(d)' = Stage(d)
    BY <2>1, <2>2, <2>3, SameStage, NoneAssumption
  <2>7. CT!Moves(c, "new", "accepted") BY <2>4, <2>5, <2>6, MovesOne
  <2>8. UNCHANGED {d \in Conns : Remove(d) \in Queued} BY <2>2, SameAsked
  <2> QED BY <2>1, <2>7, <2>8 DEF CT!Accept
<1>2. ASSUME AddAccepted PROVE \E c \in Conns : CT!Post(c)
  <2>1. PICK c \in Conns : c = accepted BY <1>2, NoneAssumption DEF AddAccepted, IInv, Types
  <2>2. /\ accepted' = None /\ todo' = Append(todo, Add(c))
        /\ UNCHANGED <<fd, ctxs, epoll, batch, cur>>
    BY <1>2, <2>1 DEF AddAccepted
  <2>3. Queued' = Queued \cup {Add(c)} BY <2>1, <2>2, Posting, TaskFacts DEF IInv, Once
  <2>4. fd[c] # None BY <2>1 DEF IInv, Numbered, InUse
  <2>5. Stage(c) = "accepted" BY <2>1, <2>4 DEF Stage
  <2>6. Stage(c)' = "queued" BY <2>2, <2>3, <2>4, NoneAssumption DEF Stage
  <2>7. ASSUME NEW d \in Conns \ {c} PROVE Stage(d)' = Stage(d)
    <3>1. Add(d) # Add(c) BY TaskFacts
    <3> QED BY <2>1, <2>2, <2>3, <3>1, SameStage, NoneAssumption
  <2>8. CT!Moves(c, "accepted", "queued") BY <2>5, <2>6, <2>7, MovesOne
  <2>9. UNCHANGED {d \in Conns : Remove(d) \in Queued} BY <2>3, TaskFacts, SameAsked
  <2> QED BY <2>2, <2>8, <2>9 DEF CT!Post
<1> QED BY <1>1, <1>2 DEF CT!Next

\* The functions of the queue.
LEMMA QueueServes ==
  ASSUME IInv, ~single, NEW c \in Conns, RunAdd(c) \/ RunRemove(c)
  PROVE  CT!Next \/ UNCHANGED CT!vars
<1>1. /\ lpc = "run" /\ todo # <<>> /\ todo' = Tail(todo) /\ todo \in Seq(Tasks)
      /\ UNCHANGED <<fd, accepted, batch, cur>>
  BY DEF RunAdd, RunRemove, IInv, Types
<1>2. Queued = Queued' \cup {Head(todo)}
  BY <1>1, HeadTaken DEF Queued, Elems
<1>3. batch = {} BY <1>1 DEF IInv, Batch
<1>4. ASSUME RunAdd(c) PROVE CT!Enter(c)
  <2>1. Head(todo) = Add(c) /\ DoAdd(c) BY <1>4 DEF RunAdd
  <2>2. Add(c) \in Queued /\ Add(c) \notin Queued'
    BY <1>1, <1>2, <2>1, TailFacts DEF IInv, Once, Queued, Elems
  <2>3. c # accepted /\ fd[c] # None /\ ctxs[fd[c]] = None /\ fd[c] \in Fds
    BY <2>2 DEF IInv, Once, Numbered, InUse, TableAgrees, SlotsAreOwn, Types
  <2>4. Stage(c) = "queued" BY <2>2, <2>3 DEF Stage
  <2>5. ctxs' = ctxs \/ ctxs' = [ctxs EXCEPT ![fd[c]] = c] BY <2>1 DEF DoAdd
  <2>6. Stage(c)' \in {"known", "gone"} BY <1>1, <2>2, <2>3 DEF Stage
  <2>7. ASSUME NEW d \in Conns \ {c} PROVE Stage(d)' = Stage(d)
    <3>1. Add(d) \in Queued' <=> Add(d) \in Queued BY <1>2, <2>1, TaskFacts
    <3>2. CASE fd[d] = None BY <1>1, <3>2 DEF Stage
    <3>3. CASE fd[d] # None
      <4>1. fd[d] \in Fds BY <3>3 DEF IInv, Types
      <4>2. ctxs'[fd[d]] = d <=> ctxs[fd[d]] = d
        BY <2>3, <2>5, <4>1, NoneAssumption DEF IInv, Types
      <4> QED BY <1>1, <3>1, <4>2, SameStage
    <3> QED BY <3>2, <3>3
  <2>8. CT!Moves(c, "queued", "known") \/ CT!Moves(c, "queued", "gone")
    BY <2>4, <2>6, <2>7, MovesOne
  <2>9. UNCHANGED {d \in Conns : Remove(d) \in Queued} BY <1>2, <2>1, TaskFacts, SameAsked
  <2> QED BY <1>1, <2>8, <2>9 DEF CT!Enter
<1>5. ASSUME RunRemove(c) PROVE CT!Remove(c)
  <2>1. Head(todo) = Remove(c) /\ DoRemove(fd[c]) BY <1>5 DEF RunRemove
  <2>2. Remove(c) \in Queued BY <1>2, <2>1
  <2>3. fd[c] \in Fds /\ ctxs[fd[c]] \in {c, None}
    BY <2>2 DEF IInv, Removals, Numbered, InUse, Types
  <2>4. \A d \in Conns : Add(d) \in Queued' <=> Add(d) \in Queued BY <1>2, <2>1, TaskFacts
  <2>5. \/ Stage(c) # "known" /\ UNCHANGED [d \in Conns |-> Stage(d)]
        \/ CT!Moves(c, "known", "gone")
    BY <1>1, <2>1, <2>3, <2>4, RemovedOne
  <2>6. Remove(c) \notin Queued'
    BY <1>1, <2>1, TailFacts DEF IInv, Once, Queued, Elems
  <2>7. {d \in Conns : Remove(d) \in Queued}' = {d \in Conns : Remove(d) \in Queued} \ {c}
    BY <1>2, <2>1, <2>6, TaskFacts
  <2>8. CT!Moves(c, "known", "gone") => Stage(c) = "known" BY DEF CT!Moves
  <2>9. IF Stage(c) = "known" THEN CT!Moves(c, "known", "gone")
                             ELSE UNCHANGED [d \in Conns |-> Stage(d)]
    BY <2>5, <2>8
  <2>10. [d \in Conns |-> Stage(d)][c] = Stage(c) OBVIOUS
  <2> QED BY <1>1, <1>3, <2>2, <2>7, <2>9, <2>10 DEF CT!Remove
<1> QED BY <1>4, <1>5 DEF CT!Next

\* Closing by a callback or by a timer.
LEMMA ClosingServes ==
  ASSUME IInv, ~CrossClose, NEW c \in Conns, CallbackCloses(c) \/ TimerCloses(c)
  PROVE  CT!Next \/ UNCHANGED CT!vars
<1>1. DoRemove(fd[c]) /\ UNCHANGED <<fd, accepted, batch, cur, todo>>
  BY DEF CallbackCloses, TimerCloses, CloseInline
<1>2. c \notin batch /\ c \in held \cup {cur}
  BY DEF CallbackCloses, TimerCloses, IInv, Batch
<1>3. Open(c) BY <1>2 DEF Open, IInv, Numbered, InUse
<1>4. Queued' = Queued BY <1>1 DEF Queued
<1>5. \/ UNCHANGED [d \in Conns |-> Stage(d)]
      \/ CT!Moves(c, "known", "gone")
  BY <1>1, <1>3, <1>4, OwnSlot, RemovedOne
<1>6. UNCHANGED {d \in Conns : Remove(d) \in Queued} BY <1>4, SameAsked
<1> QED BY <1>1, <1>2, <1>5, <1>6 DEF CT!Leave, CT!Next, CT!vars

\* The events.
LEMMA EventsServe ==
  ASSUME IInv, ~CrossClose,
         WaitReturns \/ HandlersReturn \/ \E c \in Conns : Dispatch(c) \/ DispatchError(c)
  PROVE  CT!Next
<1>1. UNCHANGED <<fd, accepted, todo>>
  BY DEF WaitReturns, HandlersReturn, Dispatch, DispatchError
<1>2. Queued' = Queued BY <1>1 DEF Queued
<1>3. ASSUME ctxs' = ctxs PROVE UNCHANGED [c \in Conns |-> Stage(c)]
  BY <1>1, <1>2, <1>3, SameStage, NobodyMoves
<1>4. UNCHANGED {c \in Conns : Remove(c) \in Queued} BY <1>2, SameAsked
<1>5. ASSUME WaitReturns PROVE CT!Report
  <2>1. batch' \subseteq epoll /\ lpc = "wait" /\ UNCHANGED <<ctxs, cur>> BY <1>5 DEF WaitReturns
  <2>2. batch = {} /\ cur = None BY <2>1 DEF IInv, Batch
  <2>3. ASSUME NEW c \in epoll PROVE c \in Conns /\ Stage(c) = "known"
    BY KnownStage DEF IInv, Types, TableAgrees, WatchedIffKnown
  <2> QED BY <1>3, <1>4, <2>1, <2>2, <2>3 DEF CT!Report, CT!Known
<1>6. ASSUME NEW c \in Conns, Dispatch(c) PROVE CT!Handle(c)
  <2>1. c \in batch /\ batch' = batch \ {c} /\ cur = None /\ cur' = ctxs[fd[c]] /\ ctxs' = ctxs
    BY <1>6 DEF Dispatch, Handling
  <2>2. cur' = c BY <2>1 DEF IInv, Batch, EventsAreOwn
  <2> QED BY <1>3, <1>4, <2>1, <2>2 DEF CT!Handle
<1>7. ASSUME NEW c \in Conns, DispatchError(c) PROVE CT!Fail(c)
  <2>1. /\ c \in batch /\ batch' = batch \ {c} /\ cur = None /\ cur' = cur
        /\ ctxs' = ctxs \/ DoRemove(fd[c])
    BY <1>7 DEF DispatchError, Handling
  <2>2. ctxs[fd[c]] = c /\ fd[c] \in Fds
    BY <2>1 DEF IInv, Batch, EventsAreOwn, Numbered, InUse, Types
  <2>3. \/ UNCHANGED [d \in Conns |-> Stage(d)]
        \/ CT!Moves(c, "known", "gone")
    BY <1>1, <1>2, <1>3, <2>1, <2>2, RemovedOne
  <2> QED BY <1>4, <2>1, <2>3 DEF CT!Fail
<1>8. ASSUME HandlersReturn PROVE CT!Return
  <2>1. PICK c \in Conns : c = cur BY <1>8 DEF HandlersReturn, IInv, Types
  <2>2. cur # None /\ cur' = None /\ batch' = batch /\ (ctxs' = ctxs \/ DoRemove(fd[c]))
    BY <1>8, <2>1 DEF HandlersReturn
  <2>3. Open(c) BY <2>1 DEF Open, IInv, Numbered, InUse
  <2>4. \/ UNCHANGED [d \in Conns |-> Stage(d)]
        \/ CT!Moves(c, "known", "gone")
    BY <1>1, <1>2, <1>3, <2>2, <2>3, OwnSlot, RemovedOne
  <2> QED BY <1>4, <2>1, <2>2, <2>4 DEF CT!Return
<1> QED BY <1>5, <1>6, <1>7, <1>8 DEF CT!Next

\* The rest is not seen.
LEMMA UnseenServes ==
  ASSUME IInv,
         \/ AfterConnect \/ CallbackHolds \/ BatchDone \/ FuncsDone \/ PassDone \/ UNCHANGED vars
         \/ \E c \in Conns : Release(c)
  PROVE  UNCHANGED CT!vars
<1>1. UNCHANGED <<fd, accepted, ctxs, batch, cur>>
  BY DEF AfterConnect, CallbackHolds, BatchDone, FuncsDone, PassDone, Release, vars
<1>2. Queued' = Queued
  BY DEF AfterConnect, CallbackHolds, BatchDone, FuncsDone, PassDone, Release, vars, Queued
<1>3. UNCHANGED [c \in Conns |-> Stage(c)] BY <1>1, <1>2, SameStage, NobodyMoves
<1>4. UNCHANGED {c \in Conns : Remove(c) \in Queued} BY <1>2, SameAsked
<1> QED BY <1>1, <1>3, <1>4 DEF CT!vars

\* Another thread closes: its removal is all that is new.
LEMMA AskingServes ==
  ASSUME IInv, NEW c \in Conns, CloseFromOutside(c)
  PROVE  CT!Ask(c)
<1>1. /\ c \in held /\ todo' = Append(todo, Remove(c)) /\ Remove(c) \notin Queued
      /\ UNCHANGED <<fd, accepted, ctxs, batch, cur>>
  BY DEF CloseFromOutside
<1>2. Queued' = Queued \cup {Remove(c)} BY <1>1, Posting, TaskFacts
<1>3. \A d \in Conns : Add(d) \in Queued' <=> Add(d) \in Queued BY <1>2, TaskFacts
<1>4. UNCHANGED [d \in Conns |-> Stage(d)] BY <1>1, <1>3, SameStage, NobodyMoves
<1>5. {d \in Conns : Remove(d) \in Queued}' = {d \in Conns : Remove(d) \in Queued} \cup {c}
  BY <1>2, TaskFacts
<1>6. fd[c] # None BY <1>1 DEF IInv, Numbered, InUse
<1>7. [d \in Conns |-> Stage(d)][c] # "new" BY <1>6 DEF Stage
<1> QED BY <1>1, <1>4, <1>5, <1>7 DEF CT!Ask

LEMMA TableServes ==
  ASSUME IInv, ~CrossClose, [Next]_vars, ~single
  PROVE  CT!Next \/ UNCHANGED CT!vars
<1>1. CASE LoopNext
  <2>1. ASSUME NEW c \in Conns, \/ Dispatch(c) \/ DispatchError(c) \/ CallbackCloses(c)
                                \/ RunAdd(c) \/ RunRemove(c) \/ TimerCloses(c)
        PROVE CT!Next \/ UNCHANGED CT!vars
    BY <2>1, EventsServe, ClosingServes, QueueServes
  <2> QED BY <1>1, <2>1, EventsServe, UnseenServes DEF LoopNext
<1>2. CASE AfterConnect \/ AddAccepted \/ UNCHANGED vars BY <1>2, AcceptorServes, UnseenServes
<1>3. ASSUME NEW c \in Conns, Accept(c) \/ CloseFromOutside(c) \/ Release(c)
      PROVE  CT!Next \/ UNCHANGED CT!vars
  <2>1. CASE CloseFromOutside(c) BY <2>1, AskingServes DEF CT!Next
  <2> QED BY <1>3, <2>1, AcceptorServes, UnseenServes
<1> QED BY <1>1, <1>2, <1>3 DEF Next

\* A sub reactor's table, kept by numbers that the kernel gives out again, is as good as
\* one kept by the connections themselves: what is added, removed or dispatched by
\* number happens to the connection that was meant, once and in its turn
\* (event_loop.cc:42-73, 88-128).
THEOREM NumbersAreAsGood == ASSUME ~CrossClose PROVE Spec => ImplementsConnTable
<1>1. Init => CT!Init
  <2> SUFFICES ASSUME Init PROVE CT!Init OBVIOUS
  <2>1. \A c \in Conns : Stage(c) = "new" BY DEF Init, Stage
  <2>2. Queued = {} BY DEF Init, Queued
  <2> QED BY <2>1, <2>2 DEF Init, CT!Init
<1>2. IInv /\ [Next]_vars => [~single => CT!Next \/ UNCHANGED CT!vars]_vars
  BY TableServes
<1> QED BY <1>1, <1>2, AlwaysIInv, PTL DEF Spec, ImplementsConnTable
==============================================================================
