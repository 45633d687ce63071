---------------------------- MODULE HttpServerProofs ----------------------------
(***************************************************************************)
(* Theorems about HttpServer, for any connections, descriptor numbers and  *)
(* patterns: of short connections that are handed over before their timer  *)
(* is due, OnRecv and the acceptor find the session they look up, and it   *)
(* is their own; of all, the servlet that is found is the one that should  *)
(* answer, however the tables change.                                      *)
(***************************************************************************)
EXTENDS HttpServer, FiniteSetTheorems, SequenceTheorems, TLAPS

\* The types of what the sessions depend on.
Types == /\ fd \in [Conns -> Fds \cup {None}]
         /\ ctxs \subseteq Conns /\ queued \subseteq Conns
         /\ sessions \in [Fds -> HttpSessions \cup {None}]
         /\ timers \subseteq Timers
         /\ apc \in {"idle", "timer", "store", "add", "crashed"}
         /\ lpc \in {"idle", "match", "load", "handle", "respond", "crashed", "undefined"}
         /\ accepted \in Conns \cup {None} /\ cur \in Conns \cup {None}

First(c) == [conn |-> c, nth |-> 0]

\* Only first timers; a connection someone holds has a number, and no other has it.
Numbers == /\ \A t \in timers : t.nth = 0
           /\ \A c \in Conns : Held(c) => fd[c] # None
           /\ \A c, d \in Conns : Held(c) /\ Held(d) /\ fd[c] = fd[d] => c = d

\* A connection is with the acceptor, queued or in the table; OnRecv's is in the table.
Places == /\ ctxs \cap queued = {}
          /\ accepted \notin ctxs \cup queued
          /\ apc = "idle" <=> accepted = None
          /\ lpc \in {"match", "load", "handle", "respond"} => cur \in ctxs
          /\ lpc = "idle" => cur = None

\* The session of a connection that lives, and what becomes of those that were left.
Sessions == /\ \A c \in ctxs \cup queued : SessionOf(c) = Session(c, 0, TRUE)
            /\ apc \in {"timer", "store"} => SessionOf(accepted) = Session(accepted, 0, FALSE)
            /\ apc = "add" => SessionOf(accepted) = Session(accepted, 0, TRUE)
            /\ apc \in {"store", "add"} => First(accepted) \in timers
            /\ \A f \in Fds : sessions[f] # None =>
                 LET s == sessions[f]
                 IN  /\ fd[s.conn] = f /\ s.nth = 0
                     /\ s.conn = accepted \/ (s.timed /\ First(s.conn) \in timers)

Alive == lpc # "crashed" /\ apc # "crashed"

IInv == Ordinary => Types /\ Numbers /\ Places /\ Sessions /\ Alive

LEMMA InitHolds == Init => IInv
<1> SUFFICES ASSUME Init PROVE IInv OBVIOUS
<1> USE ServerAssumption DEF Init
<1>1. Types BY DEF Types
<1>2. Numbers BY DEF Numbers, Held
<1>3. Places BY DEF Places
<1>4. Sessions BY DEF Sessions
<1> QED BY <1>1, <1>2, <1>3, <1>4 DEF IInv, Alive

\* A session is there, and a connection that someone holds has a number.
LEMMA Theirs ==
  ASSUME IInv, Ordinary
  PROVE  /\ \A c \in Conns, timed \in BOOLEAN :
              /\ Session(c, 0, timed) \in HttpSessions /\ Session(c, 0, timed) # None
              /\ Session(c, 0, timed).conn = c /\ Session(c, 0, timed).nth = 0
              /\ Session(c, 0, timed).timed = timed
              /\ TimerOf(Session(c, 0, TRUE)) = {First(c)}
         /\ \A c \in Conns : /\ Held(c) => fd[c] \in Fds
                             /\ fd[c] \in Fds => sessions[fd[c]] = SessionOf(c)
         /\ \A t \in timers : t = First(t.conn) /\ t.conn \in Conns /\ Held(t.conn)
         /\ accepted # None => accepted \in Conns /\ Held(accepted)
         /\ \A c \in ctxs \cup queued : c \in Conns /\ Held(c) /\ c # accepted
<1> USE ServerAssumption, SessionAssumption DEF IInv
<1>1. ASSUME NEW c \in Conns, NEW timed \in BOOLEAN
      PROVE  /\ Session(c, 0, timed) \in HttpSessions /\ Session(c, 0, timed) # None
             /\ Session(c, 0, timed).conn = c /\ Session(c, 0, timed).nth = 0
             /\ Session(c, 0, timed).timed = timed
             /\ TimerOf(Session(c, 0, TRUE)) = {First(c)}
  BY DEF Session, HttpSessions, TimerOf, First
<1>2. ASSUME NEW c \in Conns
      PROVE  (Held(c) => fd[c] \in Fds) /\ (fd[c] \in Fds => sessions[fd[c]] = SessionOf(c))
  BY DEF Numbers, Types, SessionOf
<1>3. ASSUME NEW t \in timers PROVE t = First(t.conn) /\ t.conn \in Conns /\ Held(t.conn)
  BY DEF Types, Numbers, Timers, First, Held, Holds
<1>4. accepted # None => accepted \in Conns /\ Held(accepted)
  BY DEF Types, Held
<1>5. \A c \in ctxs \cup queued : c \in Conns /\ Held(c) /\ c # accepted
  BY DEF Types, Held, Places
<1> QED BY <1>1, <1>2, <1>3, <1>4, <1>5

\* When a session ends with its timer, those of the other connections stay.
LEMMA SessionEnds ==
  ASSUME IInv, Ordinary, NEW c \in Conns, Held(c), c \notin queued, c # accepted,
         sessions' = [sessions EXCEPT ![fd[c]] = None], timers' = timers \ {First(c)},
         ctxs' \subseteq ctxs \ {c}, UNCHANGED <<fd, queued, apc, accepted>>,
         cur' \in {cur, None}
  PROVE  Numbers' /\ Sessions'
<1> USE ServerAssumption DEF IInv
<1>1. ASSUME NEW d \in Conns, Held(d), d # c
      PROVE  /\ fd[d] \in Fds /\ fd[c] \in Fds /\ fd[d] # fd[c] /\ First(d) # First(c)
             /\ sessions'[fd[d]] = sessions[fd[d]]
  BY <1>1, Theirs DEF Numbers, Types, First
<1>2. \A d \in ctxs' \cup queued' : SessionOf(d)' = Session(d, 0, TRUE)
  <2>1. ASSUME NEW d \in ctxs' \cup queued' PROVE SessionOf(d)' = Session(d, 0, TRUE)
    <3>1. d \in Conns /\ Held(d) /\ d # c /\ d \in ctxs \cup queued BY Theirs
    <3>2. SessionOf(d) = Session(d, 0, TRUE) BY <3>1 DEF Sessions
    <3>3. SessionOf(d)' = SessionOf(d) BY <1>1, <3>1, Theirs DEF SessionOf
    <3> QED BY <3>2, <3>3
  <2> QED BY <2>1
<1>3. /\ apc' \in {"timer", "store"} => SessionOf(accepted)' = Session(accepted', 0, FALSE)
      /\ apc' = "add" => SessionOf(accepted)' = Session(accepted', 0, TRUE)
      /\ apc' \in {"store", "add"} => First(accepted') \in timers'
  <2>1. CASE accepted = None BY <2>1 DEF Places
  <2>2. CASE accepted # None
    <3>1. accepted \in Conns /\ Held(accepted) BY <2>2, Theirs
    <3>2. SessionOf(accepted)' = SessionOf(accepted) /\ First(accepted) # First(c)
      BY <1>1, <3>1 DEF SessionOf
    <3> QED BY <3>2 DEF Sessions
  <2> QED BY <2>1, <2>2
<1>4. ASSUME NEW f \in Fds, sessions'[f] # None
      PROVE  LET s == sessions'[f]
             IN  /\ fd'[s.conn] = f /\ s.nth = 0
                 /\ s.conn = accepted' \/ (s.timed /\ First(s.conn) \in timers')
  <2>1. sessions'[f] = sessions[f] /\ f # fd[c] BY <1>4, Theirs DEF Types
  <2>2. sessions[f].conn # c BY <1>4, <2>1 DEF Sessions
  <2>3. First(sessions[f].conn) # First(c) BY <2>2 DEF First
  <2> QED BY <1>4, <2>1, <2>3 DEF Sessions
<1>5. \A d \in Conns : Held(d)' => Held(d) BY DEF Held, Types
<1>6. Numbers' BY <1>5 DEF Numbers
<1> QED BY <1>2, <1>3, <1>4, <1>6 DEF Sessions

\* OnRecv finds the session of its connection.
LEMMA Finds ==
  ASSUME IInv, Ordinary, NEW c \in ctxs
  PROVE  /\ c \in Conns /\ Held(c) /\ c \notin queued /\ c # accepted
         /\ SessionOf(c) # None /\ SessionOf(c).conn = c /\ TimerOf(SessionOf(c)) = {First(c)}
<1>1. c \in Conns /\ Held(c) /\ c \notin queued /\ c # accepted
  BY Theirs DEF IInv, Places
<1>2. SessionOf(c) = Session(c, 0, TRUE) BY DEF IInv, Sessions
<1> QED BY <1>1, <1>2, Theirs

\* Steps that touch no session leave every connection with its own.
LEMMA SessionsStay ==
  ASSUME IInv, Ordinary, UNCHANGED <<fd, sessions, timers, apc, accepted>>,
         ctxs' \cup queued' \subseteq ctxs \cup queued, cur' \in ctxs \cup {cur, None}
  PROVE  Numbers' /\ Sessions'
<1> USE ServerAssumption DEF IInv
<1>1. \A c \in Conns : Held(c)' => Held(c) BY DEF Held, Types
<1>2. Numbers' BY <1>1 DEF Numbers
<1>3. Sessions' BY DEF Sessions, SessionOf
<1> QED BY <1>2, <1>3

-----------------------------------------------------------------------------
(* The acceptor.                                                           *)

LEMMA AcceptKeeps == ASSUME IInv, NEW c \in Conns, Accept(c) PROVE IInv'
<1> SUFFICES ASSUME Ordinary PROVE IInv'
  BY DEF IInv, Ordinary, Modes, Accept
<1> USE ServerAssumption DEF IInv
<1>1. Types'
  <2>1. PICK f \in Fds : /\ fd' = [fd EXCEPT ![c] = f]
                          /\ sessions' = [sessions EXCEPT ![f] = Session(c, 0, FALSE)]
    BY DEF Accept, FreeFds
  <2>2. Session(c, 0, FALSE) \in HttpSessions BY Theirs
  <2>3. fd' \in [Conns -> Fds \cup {None}] BY <2>1 DEF Types
  <2>4. sessions' \in [Fds -> HttpSessions \cup {None}] BY <2>1, <2>2 DEF Types
  <2> QED BY <2>3, <2>4 DEF Accept, Types
<1>2. Numbers'
  BY DEF Accept, FreeFds, Numbers, Types, Held, Places
<1>3. Places'
  BY DEF Accept, Numbers, Places, Held
<1>4. Sessions'
  <2>1. PICK f \in Fds : /\ fd' = [fd EXCEPT ![c] = f] /\ f \in FreeFds
                          /\ sessions' = [sessions EXCEPT ![f] = Session(c, 0, FALSE)]
    BY DEF Accept, FreeFds
  <2>2. /\ fd[c] = None /\ ~Held(c) /\ accepted' = c /\ apc' = "timer" /\ accepted = None
        /\ UNCHANGED <<ctxs, queued, timers>>
    BY DEF Accept, Numbers, Places
  <2>3. ASSUME NEW d \in Conns, Held(d)
        PROVE  d # c /\ fd'[d] = fd[d] /\ fd[d] # f /\ fd[d] \in Fds
               /\ sessions'[fd[d]] = sessions[fd[d]]
    <3>1. fd[d] \in Fds /\ fd[d] # None /\ d # c BY <2>2, <2>3, Theirs
    <3>2. fd[d] # f BY <2>1, <2>3, <3>1 DEF FreeFds
    <3> QED BY <2>1, <3>1, <3>2 DEF Types
  <2>4. \A d \in ctxs' \cup queued' : SessionOf(d)' = Session(d, 0, TRUE)
    <3> SUFFICES ASSUME NEW d \in ctxs \cup queued PROVE SessionOf(d)' = Session(d, 0, TRUE)
      BY <2>2
    <3>1. d \in Conns /\ Held(d) BY Theirs
    <3>2. SessionOf(d)' = SessionOf(d) BY <2>3, <3>1 DEF SessionOf
    <3> QED BY <3>2 DEF Sessions
  <2>5. SessionOf(accepted)' = Session(accepted', 0, FALSE)
    BY <2>1, <2>2 DEF Types, SessionOf
  <2>6. ASSUME NEW g \in Fds, sessions'[g] # None
        PROVE  LET s == sessions'[g]
               IN  /\ fd'[s.conn] = g /\ s.nth = 0
                   /\ s.conn = accepted' \/ (s.timed /\ First(s.conn) \in timers')
    <3>1. CASE g = f
      <4>1. sessions'[g] = Session(c, 0, FALSE) /\ fd'[c] = g BY <2>1, <3>1 DEF Types
      <4>2. Session(c, 0, FALSE).conn = c /\ Session(c, 0, FALSE).nth = 0
        BY Theirs
      <4> QED BY <2>2, <4>1, <4>2
    <3>2. CASE g # f
      <4>1. sessions'[g] = sessions[g] BY <2>1, <3>2 DEF Types
      <4>2. sessions[g] \in HttpSessions BY <2>6, <4>1 DEF Types
      <4>3. sessions[g].conn \in Conns BY <4>2 DEF HttpSessions
      <4>4. fd[sessions[g].conn] = g /\ g # None BY <2>6, <4>1 DEF Sessions
      <4>5. sessions[g].conn # c BY <2>2, <4>4
      <4>6. fd'[sessions[g].conn] = g BY <2>1, <4>3, <4>4, <4>5 DEF Types
      <4> QED BY <2>2, <2>6, <4>1, <4>3, <4>6 DEF Sessions
    <3> QED BY <3>1, <3>2
  <2> QED BY <2>2, <2>4, <2>5, <2>6 DEF Sessions
<1>5. Alive' BY DEF Accept, Alive
<1> QED BY <1>1, <1>2, <1>3, <1>4, <1>5

LEMMA StartTimerKeeps == ASSUME IInv, StartTimer PROVE IInv'
<1> SUFFICES ASSUME Ordinary PROVE IInv'
  BY DEF IInv, Ordinary, Modes, StartTimer
<1> USE DEF IInv
<1>1. accepted \in Conns /\ Held(accepted) BY Theirs DEF StartTimer, Places
<1>2. timers' = timers \cup {First(accepted)} BY DEF StartTimer, First
<1>3. First(accepted) \in Timers /\ First(accepted).nth = 0 /\ First(accepted).conn = accepted
  BY <1>1, ServerAssumption DEF First, Timers
<1>4. Types' BY <1>2, <1>3 DEF StartTimer, Types
<1>5. Numbers'
  <2>1. \A c \in Conns : Held(c)' => Held(c)
    BY <1>1, <1>2, <1>3 DEF StartTimer, Held
  <2> QED BY <1>2, <1>3, <2>1 DEF StartTimer, Numbers
<1>6. Places' /\ Alive' BY DEF StartTimer, Places, Alive
<1>7. Sessions' BY <1>2 DEF StartTimer, Sessions, SessionOf
<1> QED BY <1>4, <1>5, <1>6, <1>7

LEMMA StoreTimerKeeps == ASSUME IInv, StoreTimer PROVE IInv'
<1> SUFFICES ASSUME Ordinary PROVE IInv'
  BY DEF IInv, Ordinary, StoreTimer, Modes
<1> USE DEF IInv
<1>1. /\ accepted \in Conns /\ Held(accepted) /\ fd[accepted] \in Fds
      /\ sessions[fd[accepted]] = Session(accepted, 0, FALSE)
  BY Theirs DEF StoreTimer, Places, Sessions, SessionOf
<1>2. sessions[fd[accepted]] # None BY <1>1, Theirs
<1>3. /\ apc' = "add" /\ UNCHANGED <<fd, ctxs, queued, timers, accepted, lpc, cur>>
      /\ sessions' = [sessions EXCEPT ![fd[accepted]] = Session(accepted, 0, TRUE)]
  BY <1>1, <1>2, Theirs DEF StoreTimer
<1>4. Types' BY <1>1, <1>3, Theirs DEF Types
<1>5. Numbers' BY <1>3 DEF Numbers, Held
<1>6. Places' BY <1>3 DEF Places, StoreTimer
<1>7. Sessions'
  <2>1. \A d \in ctxs' \cup queued' : SessionOf(d)' = Session(d, 0, TRUE)
    <3> SUFFICES ASSUME NEW d \in ctxs \cup queued PROVE SessionOf(d)' = Session(d, 0, TRUE)
      BY <1>3
    <3>1. d \in Conns /\ Held(d) /\ d # accepted /\ fd[d] \in Fds BY Theirs
    <3>2. fd[d] # fd[accepted] BY <1>1, <3>1 DEF Numbers
    <3> QED BY <1>3, <3>1, <3>2 DEF Sessions, SessionOf, Types
  <2>2. SessionOf(accepted)' = Session(accepted', 0, TRUE) /\ First(accepted') \in timers'
    BY <1>1, <1>3 DEF SessionOf, Types, Sessions, StoreTimer
  <2>3. ASSUME NEW g \in Fds, sessions'[g] # None
        PROVE  LET s == sessions'[g]
               IN  /\ fd'[s.conn] = g /\ s.nth = 0
                   /\ s.conn = accepted' \/ (s.timed /\ First(s.conn) \in timers')
    <3>1. CASE g = fd[accepted] BY <1>1, <1>3, <3>1, Theirs DEF Types
    <3>2. CASE g # fd[accepted]
      <4>1. sessions'[g] = sessions[g] BY <1>1, <1>3, <3>2 DEF Types
      <4>2. LET s == sessions[g]
            IN  /\ fd[s.conn] = g /\ s.nth = 0
                /\ s.conn = accepted \/ (s.timed /\ First(s.conn) \in timers)
        BY <2>3, <4>1 DEF Sessions
      <4>3. UNCHANGED <<fd, timers, accepted>> BY <1>3
      <4> QED BY <4>1, <4>2, <4>3
    <3> QED BY <3>1, <3>2
  <2> QED BY <1>3, <2>1, <2>2, <2>3 DEF Sessions
<1>8. Alive' BY <1>3 DEF Alive
<1> QED BY <1>4, <1>5, <1>6, <1>7, <1>8

LEMMA HandOverKeeps == ASSUME IInv, HandOver PROVE IInv'
<1> SUFFICES ASSUME Ordinary PROVE IInv'
  BY DEF IInv, Ordinary, Modes, HandOver
<1> USE ServerAssumption DEF IInv
<1>1. Types'
  BY Theirs DEF HandOver, Types, Places
<1>2. Numbers'
  BY DEF HandOver, Numbers, Types, Held, Places
<1>3. Places'
  BY DEF HandOver, Places, Types
<1>4. Sessions'
  <2>1. /\ accepted \in Conns /\ SessionOf(accepted) = Session(accepted, 0, TRUE)
        /\ First(accepted) \in timers
    BY Theirs DEF HandOver, Sessions, Places
  <2>2. /\ UNCHANGED <<fd, sessions, timers>> /\ apc' = "idle" /\ accepted' = None
        /\ ctxs' \cup queued' \subseteq ctxs \cup queued \cup {accepted}
    BY DEF HandOver
  <2>3. \A d \in ctxs' \cup queued' : SessionOf(d)' = Session(d, 0, TRUE)
    BY <2>1, <2>2 DEF Sessions, SessionOf
  <2>4. ASSUME NEW g \in Fds, sessions[g] # None
        PROVE  /\ fd[sessions[g].conn] = g /\ sessions[g].nth = 0
               /\ sessions[g].timed /\ First(sessions[g].conn) \in timers
    <3>1. CASE sessions[g].conn = accepted
      <4>1. sessions[g] = Session(accepted, 0, TRUE)
        BY <2>1, <2>4, <3>1 DEF Sessions, SessionOf
      <4>2. sessions[g].conn = accepted /\ sessions[g].nth = 0 /\ sessions[g].timed
        BY <2>1, <4>1, Theirs
      <4>3. fd[sessions[g].conn] = g BY <2>4 DEF Sessions
      <4> QED BY <2>1, <4>2, <4>3
    <3>2. CASE sessions[g].conn # accepted
      BY <2>4, <3>2 DEF Sessions
    <3> QED BY <3>1, <3>2
  <2> QED BY <2>2, <2>3, <2>4 DEF Sessions
<1>5. Alive' BY DEF HandOver, Alive
<1> QED BY <1>1, <1>2, <1>3, <1>4, <1>5

-----------------------------------------------------------------------------
(* The loop.                                                               *)

LEMMA RecvErrorKeeps == ASSUME IInv, NEW c \in Conns, RecvError(c) PROVE IInv'
<1> SUFFICES ASSUME Ordinary PROVE IInv'
  BY DEF IInv, Ordinary, Modes, RecvError
<1> USE DEF IInv
<1>1. Types' BY DEF RecvError, Receives, Types
<1>2. Numbers' /\ Sessions' BY Finds, SessionEnds DEF RecvError, Receives
<1>3. Places' /\ Alive' BY DEF RecvError, Receives, Places, Alive
<1> QED BY <1>1, <1>2, <1>3

LEMMA RespondClosingKeeps == ASSUME IInv, NEW sent \in Sent, RespondClosing(sent) PROVE IInv'
<1> SUFFICES ASSUME Ordinary PROVE IInv'
  BY DEF IInv, Ordinary, Modes, RespondClosing
<1> USE DEF IInv
<1>1. Types' BY DEF RespondClosing, Types
<1>2. cur \in ctxs BY DEF RespondClosing, Places
<1>3. Numbers' /\ Sessions'
  BY <1>2, Finds, SessionEnds DEF RespondClosing, Own, SessionOf
<1>4. Places' /\ Alive' BY DEF RespondClosing, Places, Alive
<1> QED BY <1>1, <1>3, <1>4

LEMMA FireKeeps == ASSUME IInv, NEW t \in Timers, Fire(t) PROVE IInv'
<1> SUFFICES ASSUME Ordinary PROVE IInv'
  BY DEF IInv, Ordinary, Modes, Fire
<1> USE DEF IInv
<1>1. /\ t.conn \in Conns /\ Held(t.conn) /\ t = First(t.conn) /\ Closes(t) = {t.conn}
  BY Theirs DEF Fire, Numbers, Closes, Holds
<1>2. t.conn \notin queued /\ t.conn # accepted BY DEF Fire, HandingOver, Ordinary
<1>3. /\ sessions' = [sessions EXCEPT ![fd[t.conn]] = None]
      /\ ctxs' = {d \in ctxs : fd[d] # fd[t.conn]}
  BY <1>1 DEF Fire
<1>4. Types' BY <1>3 DEF Fire, Types
<1>5. Numbers' /\ Sessions' BY <1>1, <1>2, <1>3, SessionEnds DEF Fire
<1>6. Places' /\ Alive' BY <1>3 DEF Fire, Places, Alive
<1> QED BY <1>4, <1>5, <1>6

\* The steps that touch no session.
LEMMA OthersKeep ==
  ASSUME IInv,
         \/ \E c \in Conns : \/ AddSocketContext(c) \/ RecvPart(c) \/ RecvRequest(c)
                            \/ WriteEvent(c) \/ PeerCloses(c)
         \/ Match \/ Load \/ UseAfterFree \/ Handled \/ ChangeServlets \/ UNCHANGED vars
  PROVE  IInv'
<1> SUFFICES ASSUME Ordinary' PROVE IInv' BY DEF IInv
<1> USE DEF IInv, Ordinary, Modes, Types, Places, Alive
<1>1. ASSUME NEW c \in Conns, AddSocketContext(c) PROVE IInv'
  BY <1>1, SessionsStay DEF AddSocketContext
<1>2. ASSUME NEW c \in Conns, RecvPart(c) PROVE IInv'
  BY <1>2, SessionsStay DEF RecvPart
<1>3. ASSUME NEW c \in Conns, RecvRequest(c) PROVE IInv'
  BY <1>3, SessionsStay DEF RecvRequest, Receives
<1>4. ASSUME NEW c \in Conns, WriteEvent(c) PROVE IInv'
  BY <1>4, SessionsStay DEF WriteEvent, Receives
<1>5. ASSUME NEW c \in Conns, PeerCloses(c) PROVE IInv'
  BY <1>5, SessionsStay DEF PeerCloses, Receives
<1>6. CASE Match \/ Load \/ UseAfterFree \/ Handled
  <2>1. /\ UNCHANGED <<single, keepalive, prompt, fd, ctxs, queued, sessions, timers>>
        /\ UNCHANGED <<apc, accepted, cur>>
        /\ lpc \in {"match", "load", "handle"}
        /\ lpc' \in {"load", "handle", "respond", "undefined"}
    BY <1>6 DEF Match, Load, UseAfterFree, Handled
  <2> QED BY <2>1, SessionsStay
<1>7. CASE ChangeServlets \/ UNCHANGED vars
  <2>1. /\ UNCHANGED <<single, keepalive, prompt, fd, ctxs, queued, sessions, timers>>
        /\ UNCHANGED <<apc, accepted, lpc, cur>>
    BY <1>7 DEF ChangeServlets, vars, server
  <2> QED BY <2>1, SessionsStay
<1> QED BY <1>1, <1>2, <1>3, <1>4, <1>5, <1>6, <1>7

\* OnRecv never looks up a session that is not there.
LEMMA NothingUnknown == ASSUME IInv, Ordinary, NEW c \in Conns, RecvNothing(c) PROVE FALSE
  BY Finds DEF RecvNothing, Receives

-----------------------------------------------------------------------------
LEMMA Invariance == ASSUME IInv, [Next]_vars PROVE IInv'
<1>1. ASSUME NEW c \in Conns, Accept(c) \/ AddSocketContext(c) \/ Event(c) PROVE IInv'
  <2>1. CASE RecvNothing(c)
    BY <2>1, NothingUnknown DEF IInv, Ordinary, Modes, RecvNothing
  <2> QED BY <1>1, <2>1, AcceptKeeps, OthersKeep, RecvErrorKeeps DEF Event
<1>2. CASE Acceptor
  BY <1>2, StartTimerKeeps, StoreTimerKeeps, HandOverKeeps DEF Acceptor
<1>3. CASE Handler
  <2>1. ASSUME NEW sent \in Sent, RespondKeeping(sent) PROVE IInv'
    BY <2>1 DEF RespondKeeping, Modes, IInv, Ordinary
  <2> QED BY <1>3, <2>1, OthersKeep, RespondClosingKeeps DEF Handler, Respond
<1>4. ASSUME NEW t \in Timers, Fire(t) PROVE IInv'
  BY <1>4, FireKeeps
<1>5. CASE ChangeServlets \/ UNCHANGED vars
  BY <1>5, OthersKeep
<1> QED BY <1>1, <1>2, <1>3, <1>4, <1>5 DEF Next

LEMMA AlwaysIInv == Spec => []IInv
  BY InitHolds, Invariance, PTL DEF Spec

\* Of short connections, each handed over before its timer is due: OnRecv and
\* AfterConnect find the session they look up (http_server.cc:15, 27), however
\* additions, events, closing timers and numbers that are used again fall together,
\* a timer that runs late and behind other connections' events among them.
THEOREM SessionsAreThere == Spec => []NoNullSession
<1>1. IInv => NoNullSession BY DEF IInv, NoNullSession, Alive
<1> QED BY <1>1, AlwaysIInv, PTL

\* Of the same connections: the session found is the connection's own, and a session that was left has a
\* timer that will close it: http_sessions_ does not grow for ever.
THEOREM SessionsBelong == Spec => []SessionsAreOwn
<1>1. IInv => SessionsAreOwn
  <2> SUFFICES ASSUME IInv, Ordinary PROVE SessionsAreOwn
    BY DEF SessionsAreOwn
  <2>1. \A c \in ctxs : SessionOf(c) # None /\ SessionOf(c).conn = c BY Finds
  <2>2. ASSUME NEW f \in Fds, sessions[f] # None, sessions[f].conn # accepted
        PROVE  sessions[f].timed /\ TimerOf(sessions[f]) \subseteq timers
    BY <2>2 DEF IInv, Sessions, TimerOf, First
  <2> QED BY <2>1, <2>2 DEF SessionsAreOwn
<1> QED BY <1>1, AlwaysIInv, PTL

-----------------------------------------------------------------------------
(* The servlets: which one is found for a request.  Nothing here depends on  *)
(* the mode: it holds of keep-alive, too.                                    *)

Entries == [uri : Globs, servlet : Nat]

\* The types of the tables.
Tables == /\ adds \in Nat /\ default \in Nat
          /\ datas \in [Paths -> Nat \cup {NoServlet}]
          /\ globs \in Seq(Entries)
          /\ routes \in [Paths \cup Globs -> Nat \cup {NoServlet}]

\* The vector is in the order of registration ...
Order == \A i, j \in DOMAIN globs : i < j => globs[i].servlet < globs[j].servlet

\* ... and the tables hold what was registered and not deleted, each once.
Routes == /\ \A p \in Paths : datas[p] = routes[p]
          /\ \A i \in DOMAIN globs : /\ globs[i].servlet <= adds
                                     /\ routes[globs[i].uri] = globs[i].servlet
          /\ \A g \in Globs : routes[g] # NoServlet => \E i \in DOMAIN globs : globs[i].uri = g

RInv == Tables /\ Order /\ Routes

\* The least of a set of numbers.
LEMMA LeastNumber ==
  ASSUME NEW S, S \subseteq Nat, S # {}
  PROVE  \E n \in S : \A m \in S : n <= m
<1> DEFINE Below(n) == 0 .. (n - 1)
           Segments == {Below(n) : n \in S}
<1>1. Segments \subseteq FiniteSubsetsOf(Nat)
  <2>1. ASSUME NEW n \in S PROVE Below(n) \in FiniteSubsetsOf(Nat)
    <3>1. IsFiniteSet(Below(n)) BY FS_Interval
    <3>2. Below(n) \in SUBSET Nat OBVIOUS
    <3> HIDE DEF Below
    <3> QED BY <3>1, <3>2 DEF FiniteSubsetsOf
  <2> QED BY <2>1
<1>2. \E x \in Segments : \A y \in Segments : ~(<<y, x>> \in StrictSubsetOrdering(Nat))
  <2>1. Segments # {} OBVIOUS
  <2> HIDE DEF Segments
  <2> QED BY <1>1, <2>1, FS_StrictSubsetOrderingWellFounded, WFMin, Zenon
<1>3. PICK n \in S : \A m \in S : ~(<<Below(m), Below(n)>> \in StrictSubsetOrdering(Nat))
  BY <1>2
<1>4. ASSUME NEW m \in S, m < n PROVE FALSE
  <2>1. Below(m) \subseteq Below(n) /\ m \in Below(n) /\ m \notin Below(m) BY <1>4
  <2>2. Below(m) \in SUBSET Nat /\ Below(n) \in SUBSET Nat OBVIOUS
  <2> QED BY <2>1, <2>2, <1>3 DEF StrictSubsetOrdering
<1> QED BY <1>4

\* The entries for g: one at most, whose removal closes the gap.
LEMMA WithoutOne ==
  ASSUME globs \in Seq(Entries), NEW g \in Globs
  PROVE  \/ Without(g) = globs /\ \A i \in DOMAIN globs : globs[i].uri # g
         \/ \E k \in DOMAIN globs : globs[k].uri = g /\ Without(g) = RemoveAt(globs, k)
<1>1. Len(globs) \in Nat /\ DOMAIN globs = 1 .. Len(globs) BY LenProperties
<1> DEFINE I == {i \in 1 .. Len(globs) : globs[i].uri = g}
<1>2. CASE I = {}
  <2>1. Without(g) = globs BY <1>2 DEF Without, RemoveFirstMatch
  <2> QED BY <1>1, <1>2, <2>1
<1>3. CASE I # {}
  <2>1. Without(g) = RemoveAt(globs, Min(I))
    BY <1>3 DEF Without, RemoveFirstMatch, SelectInSeq
  <2>2. Min(I) \in I
    <3>1. I \subseteq Nat BY <1>1
    <3> HIDE DEF I
    <3>2. \E n \in I : \A m \in I : n <= m BY <1>3, <3>1, LeastNumber
    <3> QED BY <3>2 DEF Min
  <2> QED BY <1>1, <2>1, <2>2
<1> QED BY <1>2, <1>3

\* A sequence without its k-th element.
LEMMA RemoveAtIs ==
  ASSUME NEW S, NEW s \in Seq(S), NEW k \in 1 .. Len(s)
  PROVE  /\ RemoveAt(s, k) \in Seq(S) /\ Len(RemoveAt(s, k)) = Len(s) - 1
         /\ \A i \in 1 .. (Len(s) - 1) : RemoveAt(s, k)[i] = IF i < k THEN s[i] ELSE s[i + 1]
<1> DEFINE n == Len(s)
           A == SubSeq(s, 1, k - 1)
           B == SubSeq(s, k + 1, n)
<1>1. n \in Nat /\ k \in Nat /\ 1 <= k /\ k <= n BY LenProperties
<1>2. A \in Seq(S) /\ Len(A) = k - 1 /\ \A i \in 1 .. (k - 1) : A[i] = s[i]
  BY <1>1, SubSeqProperties
<1>3. B \in Seq(S) /\ Len(B) = n - k /\ \A i \in 1 .. (n - k) : B[i] = s[k + i]
  BY <1>1, SubSeqProperties
<1>4. RemoveAt(s, k) = A \o B BY DEF RemoveAt
<1> HIDE DEF n, A, B
<1>5. /\ A \o B \in Seq(S) /\ Len(A \o B) = n - 1
      /\ \A i \in 1 .. (n - 1) : (A \o B)[i] = IF i <= k - 1 THEN A[i] ELSE B[i - (k - 1)]
  BY <1>1, <1>2, <1>3, ConcatProperties
<1>6. ASSUME NEW i \in 1 .. (n - 1) PROVE (A \o B)[i] = IF i < k THEN s[i] ELSE s[i + 1]
  <2>1. CASE i < k BY <1>1, <1>2, <1>5, <2>1
  <2>2. CASE ~(i < k)
    <3>1. i - (k - 1) \in 1 .. (n - k) /\ k + (i - (k - 1)) = i + 1 BY <1>1, <2>2
    <3>2. B[i - (k - 1)] = s[i + 1] BY <1>3, <3>1
    <3> QED BY <1>1, <1>5, <2>2, <3>2
  <2> QED BY <2>1, <2>2
<1> QED BY <1>4, <1>5, <1>6 DEF n

\* What is left when the entries for g are gone: all the others, in their order.
LEMMA WithoutKeeps ==
  ASSUME RInv, NEW g \in Globs
  PROVE  \E h \in [DOMAIN Without(g) -> DOMAIN globs] :
           /\ Without(g) \in Seq(Entries)
           /\ \A i \in DOMAIN Without(g) : Without(g)[i] = globs[h[i]] /\ globs[h[i]].uri # g
           /\ \A i, j \in DOMAIN Without(g) : i < j => h[i] < h[j]
           /\ \A k \in DOMAIN globs : globs[k].uri # g => \E i \in DOMAIN Without(g) : h[i] = k
<1> USE DispatchAssumption DEF RInv, Tables
<1>1. Len(globs) \in Nat /\ DOMAIN globs = 1 .. Len(globs) BY LenProperties
<1>2. CASE Without(g) = globs /\ \A i \in DOMAIN globs : globs[i].uri # g
  <2> DEFINE h == [i \in DOMAIN globs |-> i]
  <2>1. h \in [DOMAIN Without(g) -> DOMAIN globs] BY <1>2
  <2> QED BY <1>2, <2>1
<1>3. CASE \E k \in DOMAIN globs : globs[k].uri = g /\ Without(g) = RemoveAt(globs, k)
  <2>1. PICK k \in DOMAIN globs : globs[k].uri = g /\ Without(g) = RemoveAt(globs, k)
    BY <1>3
  <2> DEFINE W == Without(g)
             h == [i \in 1 .. (Len(globs) - 1) |-> IF i < k THEN i ELSE i + 1]
  <2>2. k \in 1 .. Len(globs) BY <1>1, <2>1
  <2>3. W = RemoveAt(globs, k) BY <2>1
  <2>4. /\ W \in Seq(Entries) /\ DOMAIN W = 1 .. (Len(globs) - 1)
        /\ \A i \in 1 .. (Len(globs) - 1) : W[i] = IF i < k THEN globs[i] ELSE globs[i + 1]
    <3> DEFINE V == RemoveAt(globs, k)
    <3>1. /\ V \in Seq(Entries) /\ DOMAIN V = 1 .. (Len(globs) - 1)
          /\ \A i \in 1 .. (Len(globs) - 1) : V[i] = IF i < k THEN globs[i] ELSE globs[i + 1]
      BY <2>2, RemoveAtIs, LenProperties
    <3> HIDE DEF W, V
    <3>2. W = V BY <2>3 DEF V
    <3> QED BY <3>1, <3>2
  <2> HIDE DEF W
  <2>5. ASSUME NEW i \in DOMAIN W PROVE W[i] = globs[h[i]]
    <3>1. CASE i < k BY <2>4, <3>1
    <3>2. CASE ~(i < k) BY <2>4, <3>2
    <3> QED BY <3>1, <3>2
  <2>6. h \in [DOMAIN W -> DOMAIN globs]
    BY <1>1, <2>2, <2>4
  <2>7. \A i, j \in DOMAIN W : i < j => h[i] < h[j]
    BY <2>2, <2>4, <1>1
  <2>8. ASSUME NEW m \in DOMAIN globs, m # k PROVE \E i \in DOMAIN W : h[i] = m
    <3>1. CASE m < k
      <4>1. m \in DOMAIN W /\ h[m] = m BY <1>1, <2>2, <2>4, <3>1
      <4> QED BY <4>1
    <3>2. CASE ~(m < k)
      <4>1. m - 1 \in DOMAIN W /\ h[m - 1] = m BY <1>1, <2>2, <2>4, <2>8, <3>2
      <4> QED BY <4>1
    <3> QED BY <3>1, <3>2
  <2>9. ASSUME NEW i \in DOMAIN W PROVE globs[h[i]].uri # g
    <3>1. h[i] # k BY <1>1, <2>2, <2>4
    <3>2. h[i] \in DOMAIN globs BY <2>6
    <3>3. globs[h[i]].servlet # globs[k].servlet
      <4>1. h[i] < k \/ k < h[i] BY <1>1, <2>2, <3>1, <3>2
      <4>2. globs[h[i]] \in Entries /\ globs[k] \in Entries BY <1>1, <2>2, <3>2, ElementOfSeq
      <4> QED BY <2>1, <3>2, <4>1, <4>2 DEF Order, Entries
    <3> QED BY <2>1, <3>2, <3>3 DEF Routes
  <2> HIDE DEF h
  <2>10. \A m \in DOMAIN globs : globs[m].uri # g => \E i \in DOMAIN W : h[i] = m
    BY <2>1, <2>8
  <2>11. /\ W \in Seq(Entries)
         /\ \A i \in DOMAIN W : W[i] = globs[h[i]] /\ globs[h[i]].uri # g
    BY <2>4, <2>5, <2>9
  <2>12. \E f \in [DOMAIN W -> DOMAIN globs] :
           /\ W \in Seq(Entries)
           /\ \A i \in DOMAIN W : W[i] = globs[f[i]] /\ globs[f[i]].uri # g
           /\ \A i, j \in DOMAIN W : i < j => f[i] < f[j]
           /\ \A m \in DOMAIN globs : globs[m].uri # g => \E i \in DOMAIN W : f[i] = m
    <3> WITNESS h \in [DOMAIN W -> DOMAIN globs]
    <3> QED BY <2>7, <2>10, <2>11
  <2> QED BY <2>12 DEF W
<1> QED BY <1>2, <1>3, WithoutOne

\* An entry of the vector, and what the tables say of it.
LEMMA EntryIs ==
  ASSUME RInv, NEW i \in DOMAIN globs
  PROVE  /\ globs[i] \in Entries /\ globs[i].uri \in Globs /\ globs[i].servlet \in Nat
         /\ globs[i].servlet <= adds /\ routes[globs[i].uri] = globs[i].servlet
<1>1. globs[i] \in Entries BY LenProperties, ElementOfSeq DEF RInv, Tables
<1> QED BY <1>1 DEF RInv, Routes, Entries

LEMMA addGlobServletKeeps == ASSUME RInv, NEW g \in Globs, addGlobServlet(g) PROVE RInv'
<1> USE DispatchAssumption
<1> DEFINE W == Without(g)
           new == [uri |-> g, servlet |-> adds']
<1>1. /\ adds \in Nat /\ adds' = adds + 1 /\ new \in Entries
      /\ routes' = [routes EXCEPT ![g] = adds'] /\ globs' = Append(W, new)
      /\ UNCHANGED <<datas, default>>
  BY DEF addGlobServlet, Registers, RInv, Tables, Entries
<1>2. PICK h \in [DOMAIN W -> DOMAIN globs] :
        /\ W \in Seq(Entries)
        /\ \A i \in DOMAIN W : W[i] = globs[h[i]] /\ globs[h[i]].uri # g
        /\ \A i, j \in DOMAIN W : i < j => h[i] < h[j]
        /\ \A k \in DOMAIN globs : globs[k].uri # g => \E i \in DOMAIN W : h[i] = k
  BY WithoutKeeps
<1> HIDE DEF W, new
<1>3. Len(W) \in Nat /\ DOMAIN W = 1 .. Len(W) BY <1>2, LenProperties
<1>4. /\ globs' \in Seq(Entries) /\ DOMAIN globs' = 1 .. (Len(W) + 1)
      /\ \A i \in DOMAIN W : globs'[i] = globs[h[i]] /\ globs[h[i]].uri # g
      /\ globs'[Len(W) + 1] = new
  <2>1. /\ globs' \in Seq(Entries) /\ Len(globs') = Len(W) + 1
        /\ \A i \in 1 .. Len(W) : globs'[i] = W[i]
        /\ globs'[Len(W) + 1] = new
    BY <1>1, <1>2, AppendProperties
  <2> QED BY <1>2, <1>3, <2>1, LenProperties
<1>5. new.uri = g /\ new.servlet = adds + 1 BY <1>1 DEF new
<1>6. Tables' BY <1>1, <1>4 DEF RInv, Tables
<1>7. ASSUME NEW i \in DOMAIN W
      PROVE  /\ globs'[i].servlet = globs[h[i]].servlet /\ globs'[i].uri = globs[h[i]].uri
             /\ h[i] \in DOMAIN globs /\ globs'[i].servlet \in Nat /\ globs'[i].servlet <= adds
             /\ globs'[i].uri \in Globs /\ globs'[i].uri # g
             /\ routes[globs'[i].uri] = globs'[i].servlet
  BY <1>2, <1>4, EntryIs
<1>8. Order'
  <2> SUFFICES ASSUME NEW i \in DOMAIN globs', NEW j \in DOMAIN globs', i < j
               PROVE  globs'[i].servlet < globs'[j].servlet
    BY DEF Order
  <2>1. i \in DOMAIN W BY <1>3, <1>4
  <2>2. CASE j \in DOMAIN W
    <3>1. h[i] < h[j] BY <1>2, <2>1, <2>2
    <3> QED BY <1>7, <2>1, <2>2, <3>1 DEF RInv, Order
  <2>3. CASE j = Len(W) + 1 BY <1>1, <1>4, <1>5, <1>7, <2>1, <2>3
  <2> QED BY <1>3, <1>4, <2>2, <2>3
<1>9. Routes'
  <2>1. \A u \in Paths \cup Globs : routes'[u] = IF u = g THEN adds' ELSE routes[u]
    BY <1>1 DEF RInv, Tables
  <2>2. \A p \in Paths : datas'[p] = routes'[p] BY <1>1, <2>1 DEF RInv, Routes
  <2>3. ASSUME NEW i \in DOMAIN globs'
        PROVE  globs'[i].servlet <= adds' /\ routes'[globs'[i].uri] = globs'[i].servlet
    <3>1. CASE i \in DOMAIN W BY <1>1, <1>7, <2>1, <3>1
    <3>2. CASE i = Len(W) + 1 BY <1>1, <1>4, <1>5, <2>1, <3>2
    <3> QED BY <1>3, <1>4, <3>1, <3>2
  <2>4. ASSUME NEW u \in Globs, routes'[u] # NoServlet
        PROVE  \E i \in DOMAIN globs' : globs'[i].uri = u
    <3>1. CASE u = g
      <4>1. Len(W) + 1 \in DOMAIN globs' BY <1>3, <1>4
      <4> QED BY <1>4, <1>5, <3>1, <4>1
    <3>2. CASE u # g
      <4>1. PICK k \in DOMAIN globs : globs[k].uri = u BY <2>1, <2>4, <3>2 DEF RInv, Routes
      <4>2. PICK i \in DOMAIN W : h[i] = k BY <1>2, <3>2, <4>1
      <4>3. i \in DOMAIN globs' BY <1>3, <1>4
      <4> QED BY <1>7, <4>1, <4>2, <4>3
    <3> QED BY <3>1, <3>2
  <2> QED BY <2>2, <2>3, <2>4 DEF Routes
<1> QED BY <1>6, <1>8, <1>9 DEF RInv

LEMMA delGlobServletKeeps == ASSUME RInv, NEW g \in Globs, delGlobServlet(g) PROVE RInv'
<1> USE DispatchAssumption
<1> DEFINE W == Without(g)
<1>1. /\ adds \in Nat /\ routes' = [routes EXCEPT ![g] = NoServlet] /\ globs' = W
      /\ UNCHANGED <<datas, default, adds>>
  BY DEF delGlobServlet, Deletes, RInv, Tables
<1>2. PICK h \in [DOMAIN W -> DOMAIN globs] :
        /\ W \in Seq(Entries)
        /\ \A i \in DOMAIN W : W[i] = globs[h[i]] /\ globs[h[i]].uri # g
        /\ \A i, j \in DOMAIN W : i < j => h[i] < h[j]
        /\ \A k \in DOMAIN globs : globs[k].uri # g => \E i \in DOMAIN W : h[i] = k
  BY WithoutKeeps
<1> HIDE DEF W
<1>3. Tables' BY <1>1, <1>2 DEF RInv, Tables
<1>4. ASSUME NEW i \in DOMAIN W
      PROVE  /\ globs'[i].servlet = globs[h[i]].servlet /\ globs'[i].uri = globs[h[i]].uri
             /\ h[i] \in DOMAIN globs /\ globs'[i].servlet <= adds
             /\ globs'[i].uri \in Globs /\ globs'[i].uri # g
             /\ routes[globs'[i].uri] = globs'[i].servlet
  BY <1>1, <1>2, EntryIs
<1>5. Order' BY <1>1, <1>2, <1>4 DEF RInv, Order
<1>6. Routes'
  <2>1. \A u \in Paths \cup Globs : routes'[u] = IF u = g THEN NoServlet ELSE routes[u]
    BY <1>1 DEF RInv, Tables
  <2>2. \A p \in Paths : datas'[p] = routes'[p] BY <1>1, <2>1 DEF RInv, Routes
  <2>3. \A i \in DOMAIN globs' : /\ globs'[i].servlet <= adds'
                                 /\ routes'[globs'[i].uri] = globs'[i].servlet
    BY <1>1, <1>4, <2>1
  <2>4. ASSUME NEW u \in Globs, routes'[u] # NoServlet
        PROVE  \E i \in DOMAIN globs' : globs'[i].uri = u
    <3>1. u # g /\ routes[u] # NoServlet BY <2>1, <2>4
    <3>2. PICK k \in DOMAIN globs : globs[k].uri = u BY <3>1 DEF RInv, Routes
    <3>3. PICK i \in DOMAIN W : h[i] = k BY <1>2, <3>1, <3>2
    <3> QED BY <1>1, <1>4, <3>2, <3>3
  <2> QED BY <2>2, <2>3, <2>4 DEF Routes
<1> QED BY <1>3, <1>5, <1>6 DEF RInv

LEMMA PathKeeps == ASSUME RInv, NEW p \in Paths, addServlet(p) \/ delServlet(p) PROVE RInv'
<1> USE DispatchAssumption
<1>1. PICK n \in Nat \cup {NoServlet} :
        /\ datas' = [datas EXCEPT ![p] = n] /\ routes' = [routes EXCEPT ![p] = n]
        /\ adds' \in Nat /\ adds <= adds' /\ UNCHANGED <<globs, default>>
  BY DEF addServlet, delServlet, Registers, Deletes, RInv, Tables
<1>2. Tables' BY <1>1 DEF RInv, Tables
<1>3. Order' BY <1>1 DEF RInv, Order
<1>4. \A u \in Globs : routes'[u] = routes[u] BY <1>1 DEF RInv, Tables
<1>5. \A q \in Paths : datas'[q] = routes'[q] BY <1>1 DEF RInv, Tables, Routes
<1>6. ASSUME NEW i \in DOMAIN globs
      PROVE  globs[i].servlet <= adds' /\ routes'[globs[i].uri] = globs[i].servlet
  BY <1>1, <1>4, EntryIs DEF RInv, Tables
<1>7. Routes' BY <1>1, <1>4, <1>5, <1>6 DEF RInv, Routes
<1> QED BY <1>2, <1>3, <1>7 DEF RInv

LEMMA setDefaultKeeps == ASSUME RInv, setDefault PROVE RInv'
<1>1. adds \in Nat /\ adds' = adds + 1 /\ default' = adds' /\ UNCHANGED <<datas, globs, routes>>
  BY DEF setDefault, RInv, Tables
<1>2. Tables' BY <1>1 DEF RInv, Tables
<1>3. Order' BY <1>1 DEF RInv, Order
<1>4. \A i \in DOMAIN globs : globs[i].servlet <= adds' BY <1>1, EntryIs
<1>5. Routes' BY <1>1, <1>4 DEF RInv, Routes
<1> QED BY <1>2, <1>3, <1>5 DEF RInv

\* Steps of the server itself leave the tables alone.
LEMMA ServerKeeps ==
  ASSUME RInv, UNCHANGED <<datas, globs, default, adds, routes>>
  PROVE  RInv'
BY DEF RInv, Tables, Order, Routes

LEMMA TablesStay ==
  ASSUME [Next]_vars
  PROVE  ChangeServlets \/ UNCHANGED <<datas, globs, default, adds, routes>>
<1> USE DEF dispatch
<1>1. ASSUME NEW c \in Conns, Accept(c) \/ AddSocketContext(c) \/ Event(c)
      PROVE  UNCHANGED dispatch
  BY <1>1 DEF Accept, AddSocketContext, Event, RecvNothing, RecvPart, RecvError, RecvRequest,
              WriteEvent, PeerCloses
<1>2. ASSUME Acceptor PROVE UNCHANGED dispatch
  BY <1>2 DEF Acceptor, StartTimer, StoreTimer, HandOver
<1>3. ASSUME Handler PROVE UNCHANGED <<datas, globs, default, adds, routes>>
  BY <1>3 DEF Handler, Match, Load, UseAfterFree, Handled, Respond, RespondKeeping, RespondClosing,
              getMatchedServlet, LoadServlet, ServletReturns
<1>4. ASSUME NEW t \in Timers, Fire(t) PROVE UNCHANGED dispatch BY <1>4 DEF Fire
<1> QED BY <1>1, <1>2, <1>3, <1>4 DEF Next, vars

LEMMA AlwaysRInv == Spec => []RInv
<1> USE DispatchAssumption
<1>1. Init => RInv
  <2> SUFFICES ASSUME Init PROVE RInv OBVIOUS
  <2>1. globs \in Seq(Entries) /\ DOMAIN globs = {} BY DEF Init, DispatchInit
  <2> QED BY <2>1 DEF Init, DispatchInit, RInv, Tables, Order, Routes
<1>2. ASSUME RInv, [Next]_vars PROVE RInv'
  <2>1. CASE ChangeServlets
    BY <1>2, <2>1, PathKeeps, addGlobServletKeeps, delGlobServletKeeps, setDefaultKeeps
    DEF ChangeServlets, Configure
  <2> QED BY <1>2, <2>1, TablesStay, ServerKeeps
<1> QED BY <1>1, <1>2, PTL DEF Spec

\* Whatever was registered, replaced and deleted, in whatever order: the path
\* itself, else the pattern that was registered longest ago, else the default
\* answers (servlet.cc:92-107).
THEOREM RequestsAreRouted == Spec => []Routed
<1>1. ASSUME RInv, NEW p \in Paths PROVE Matched(p).servlet = Expected(p)
  <2> USE DispatchAssumption
  <2> DEFINE M == MatchingAt(p)
             R == Rivals(p)
  <2>1. Len(globs) \in Nat /\ DOMAIN globs = 1 .. Len(globs)
    BY <1>1, LenProperties DEF RInv, Tables
  <2>2. datas[p] = routes[p] BY <1>1 DEF RInv, Routes
  <2>3. R = {globs[i].servlet : i \in M}
    <3>1. ASSUME NEW g \in Globs, routes[g] # NoServlet, <<g, p>> \in Matches
          PROVE  \E i \in M : routes[g] = globs[i].servlet
      <4>1. PICK i \in DOMAIN globs : globs[i].uri = g BY <1>1, <3>1 DEF RInv, Routes
      <4> QED BY <1>1, <3>1, <4>1, EntryIs DEF MatchingAt
    <3>2. ASSUME NEW i \in M
          PROVE  \E g \in Globs : /\ routes[g] # NoServlet /\ <<g, p>> \in Matches
                                  /\ routes[g] = globs[i].servlet
      <4>1. i \in DOMAIN globs /\ <<globs[i].uri, p>> \in Matches BY DEF MatchingAt
      <4> QED BY <1>1, <4>1, EntryIs
    <3>3. \A n \in R : \E i \in M : n = globs[i].servlet BY <3>1 DEF Rivals
    <3>4. \A i \in M : globs[i].servlet \in R BY <3>2 DEF Rivals
    <3> HIDE DEF R, M
    <3> QED BY <3>3, <3>4
  <2>4. CASE datas[p] # NoServlet BY <2>2, <2>4 DEF Matched, Expected
  <2>5. CASE datas[p] = NoServlet /\ M = {}
    <3>1. R = {} BY <2>3, <2>5
    <3> QED BY <2>2, <2>5, <3>1 DEF Matched, Expected
  <2>6. CASE datas[p] = NoServlet /\ M # {}
    <3>1. M \subseteq DOMAIN globs /\ M \subseteq Nat BY <2>1 DEF MatchingAt
    <3>2. PICK m \in M : \A i \in M : m <= i BY <2>6, <3>1, LeastNumber
    <3>3. FirstOf(M) = m
      <4>1. \A i \in M : (\A j \in M : i <= j) => i = m BY <3>1, <3>2
      <4> HIDE DEF M
      <4> QED BY <3>2, <4>1 DEF FirstOf
    <3>4. globs[m].servlet \in R /\ R # {} BY <2>3
    <3>5. ASSUME NEW n \in R PROVE n \in Nat /\ globs[m].servlet \in Nat /\ globs[m].servlet <= n
      <4>1. PICK i \in M : n = globs[i].servlet BY <2>3
      <4>2. i \in DOMAIN globs /\ m \in DOMAIN globs /\ (m < i \/ m = i) BY <3>1, <3>2
      <4>3. globs[i].servlet \in Nat /\ globs[m].servlet \in Nat BY <1>1, <4>2, EntryIs
      <4> QED BY <1>1, <4>1, <4>2, <4>3 DEF RInv, Order
    <3>6. FirstOf(R) = globs[m].servlet
      <4>1. \A i \in R : (\A j \in R : i <= j) => i = globs[m].servlet BY <3>4, <3>5
      <4> HIDE DEF R
      <4> QED BY <3>4, <3>5, <4>1 DEF FirstOf
    <3> QED BY <2>2, <2>6, <3>3, <3>4, <3>6 DEF Matched, Expected
  <2> QED BY <2>4, <2>5, <2>6
<1>2. RInv => Routed BY <1>1 DEF Routed
<1> QED BY <1>2, AlwaysRInv, PTL

==============================================================================
