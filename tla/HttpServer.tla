------------------------------ MODULE HttpServer ------------------------------
(***************************************************************************)
(* HttpServer (http/http_server.cc) over one loop of its connections: the  *)
(* map of sessions, keyed by descriptor numbers that are used again, the   *)
(* closing timers and keep-alive, with the servlets of ServletDispatch.    *)
(*                                                                         *)
(* Of the loop it is used that additions, events and timers run one after  *)
(* the other on its thread (SocketLoop, EventLoop), of the timers that     *)
(* each runs once unless removed (Timer), of the session only whether the  *)
(* bytes so far are part of a request, a whole one, or an error            *)
(* (HttpSession).  An event reaches the connection it is for (SocketLoop's *)
(* EventsAreOwn).                                                          *)
(***************************************************************************)
EXTENDS ServletDispatch

CONSTANTS Conns,            \* the connections ever accepted
          Fds,              \* descriptor numbers
          None,             \* no connection, no session
          MaxRequests       \* how many requests a connection brings

ASSUME ServerAssumption == /\ Fds \subseteq Nat
                           /\ None \notin Conns \cup Fds
                           /\ MaxRequests \in Nat

\* A session: its connection, how many it had before, and whether its timer is stored.
HttpSessions == [conn : Conns, nth : 0 .. MaxRequests, timed : BOOLEAN]

ASSUME SessionAssumption == None \notin HttpSessions

VARIABLES single,           \* no sub reactors: the acceptor runs on the loop's thread
          keepalive,        \* is_keepalive
          prompt,           \* half a second is longer than to hand a connection over
          fd,               \* the descriptor of a connection, kept after its death
          ctxs,             \* the connections in the loop's table
          queued,           \* the connections that wait there to be added
          sessions,         \* http_sessions_
          timers,           \* the closing timers that wait
          apc, accepted,    \* where the acceptor is, and its connection
          lpc, cur,         \* where OnRecv is, and its connection
          named,            \* the connections OnRecv was called for
          unsent            \* those with a remainder in write_buffer_

server == <<single, keepalive, prompt, fd, ctxs, queued, sessions, timers, apc, accepted,
            lpc, cur, named, unsent>>
vars == <<server, dispatch>>

\* The n-th timer of a connection, which its n-th session is closed by.  The first
\* holds the connection (http_server.cc:16); those of keep-alive have a reference
\* to OnRecv's parameter (:58), which is gone when they fire.
Timers == [conn : Conns, nth : 0 .. MaxRequests]
Holds(t) == t.nth = 0

\* A connection lives while someone has a shared_ptr to it.
Held(c) == \/ c \in ctxs \cup queued
           \/ c \in {accepted, cur}
           \/ \E t \in timers : t.conn = c /\ Holds(t)

FreeFds == Fds \ {fd[c] : c \in {d \in Conns : fd[d] # None /\ Held(d)}}

Session(c, n, timed) == [conn |-> c, nth |-> n, timed |-> timed]

Init == /\ single \in BOOLEAN
        /\ keepalive \in BOOLEAN
        /\ prompt \in BOOLEAN
        /\ fd = [c \in Conns |-> None]
        /\ ctxs = {} /\ queued = {}
        /\ sessions = [f \in Fds |-> None]
        /\ timers = {}
        /\ apc = "idle" /\ accepted = None
        /\ lpc = "idle" /\ cur = None
        /\ named = {}
        /\ unsent = {}
        /\ DispatchInit

Modes == <<single, keepalive, prompt>>

-----------------------------------------------------------------------------
(* The acceptor: StartListen's callback (tcp_server.cc:155) and AfterConnect. *)

AcceptorTurn == single => lpc = "idle"
LoopTurn == single => apc = "idle"

\* accept, the Connection and its session.
Accept(c) ==
    /\ AcceptorTurn
    /\ apc = "idle"
    /\ fd[c] = None
    /\ \E f \in FreeFds : /\ \A g \in FreeFds : f <= g
                          /\ fd' = [fd EXCEPT ![c] = f]
                          /\ sessions' = [sessions EXCEPT ![f] = Session(c, 0, FALSE)]
    /\ accepted' = c
    /\ apc' = "timer"
    /\ UNCHANGED <<Modes, ctxs, queued, timers, lpc, cur, named, unsent, dispatch>>

StartTimer ==
    /\ apc = "timer"
    /\ timers' = timers \cup {[conn |-> accepted, nth |-> 0]}
    /\ apc' = "store"
    /\ UNCHANGED <<Modes, fd, ctxs, queued, sessions, accepted, lpc, cur, named, unsent, dispatch>>

\* The session is looked up again; there may be none any more.
StoreTimer ==
    /\ apc = "store"
    /\ IF sessions[fd[accepted]] = None
       THEN apc' = "crashed" /\ UNCHANGED sessions
       ELSE /\ apc' = "add"
            /\ sessions' = [sessions EXCEPT ![fd[accepted]] = Session(@.conn, @.nth, TRUE)]
    /\ UNCHANGED <<Modes, fd, ctxs, queued, timers, accepted, lpc, cur, named, unsent, dispatch>>

\* AddSocketContext, at once on the loop's thread, later from another.
HandOver ==
    /\ apc = "add"
    /\ IF single THEN ctxs' \in {ctxs, ctxs \cup {accepted}} /\ UNCHANGED queued
       ELSE queued' = queued \cup {accepted} /\ UNCHANGED ctxs
    /\ accepted' = None
    /\ apc' = "idle"
    /\ UNCHANGED <<Modes, fd, sessions, timers, lpc, cur, named, unsent, dispatch>>

\* The queued function; epoll_ctl may fail.
AddSocketContext(c) ==
    /\ lpc = "idle"
    /\ c \in queued
    /\ queued' = queued \ {c}
    /\ ctxs' \in {ctxs, ctxs \cup {c}}
    /\ UNCHANGED <<Modes, fd, sessions, timers, apc, accepted, lpc, cur, named, unsent, dispatch>>

-----------------------------------------------------------------------------
(* OnRecv.                                                                 *)

Receives(c) == /\ LoopTurn
               /\ lpc = "idle"
               /\ c \in ctxs

\* Where OnRecv's parameter was matters only to the timers of keep-alive.
Named(c) == IF keepalive THEN named \cup {c} ELSE named

Own == sessions[fd[cur]]
SessionOf(c) == sessions[fd[c]]
TimerOf(session) == IF session.timed THEN {[conn |-> session.conn, nth |-> session.nth]} ELSE {}

\* cur_session is empty.
RecvNothing(c) ==
    /\ Receives(c)
    /\ SessionOf(c) = None
    /\ lpc' = "crashed"
    /\ UNCHANGED <<Modes, fd, ctxs, queued, sessions, timers, apc, accepted, cur, named, unsent, dispatch>>

RecvPart(c) ==
    /\ Receives(c)
    /\ SessionOf(c) # None
    /\ named' = Named(c)
    /\ UNCHANGED <<Modes, fd, ctxs, queued, sessions, timers, apc, accepted, lpc, cur, unsent, dispatch>>

\* Mutant: the timer goes, the connection stays.
RecvErrorOpen(c) ==
    /\ Receives(c)
    /\ SessionOf(c) # None
    /\ timers' = timers \ TimerOf(SessionOf(c))
    /\ sessions' = [sessions EXCEPT ![fd[c]] = None]
    /\ named' = Named(c)
    /\ UNCHANGED <<Modes, fd, ctxs, queued, apc, accepted, lpc, cur, unsent, dispatch>>

RecvError(c) ==
    /\ Receives(c)
    /\ SessionOf(c) # None
    /\ timers' = timers \ TimerOf(SessionOf(c))
    /\ sessions' = [sessions EXCEPT ![fd[c]] = None]
    /\ ctxs' = ctxs \ {c}
    /\ named' = Named(c)
    /\ UNCHANGED <<Modes, fd, queued, apc, accepted, lpc, cur, unsent, dispatch>>

RecvRequest(c) ==
    /\ Receives(c)
    /\ SessionOf(c) # None
    /\ SessionOf(c).nth < MaxRequests
    /\ cur' = c
    /\ lpc' = "match"
    /\ named' = Named(c)
    /\ UNCHANGED <<Modes, fd, ctxs, queued, sessions, timers, apc, accepted, unsent, dispatch>>

\* dispatch.handle in three steps.
Match == /\ lpc = "match"
         /\ \E p \in Paths : getMatchedServlet(p)
         /\ lpc' = "load"
         /\ UNCHANGED <<Modes, fd, ctxs, queued, sessions, timers, apc, accepted, cur, named, unsent>>

Load == /\ lpc = "load"
        /\ LoadServlet
        /\ lpc' = "handle"
        /\ UNCHANGED <<Modes, fd, ctxs, queued, sessions, timers, apc, accepted, cur, named, unsent>>

\* A servlet is destroyed under the request: it may be run all the same, by Load
\* and Handled, or the program ends here.
UseAfterFree == /\ lpc \in {"load", "handle"}
                /\ Dangling
                /\ lpc' = "undefined"
                /\ UNCHANGED <<Modes, fd, ctxs, queued, sessions, timers, apc, accepted, cur,
                               named, unsent, dispatch>>

Handled == /\ lpc = "handle"
           /\ ServletReturns
           /\ lpc' = "respond"
           /\ UNCHANGED <<Modes, fd, ctxs, queued, sessions, timers, apc, accepted, cur, named, unsent>>

\* SendMassage: all of it, a part of it with the rest in write_buffer_, or Close().
Sent == {"all", "part", "failed"}
AfterSend(sent) == [left |-> IF sent = "part" THEN unsent \cup {cur} ELSE unsent,
                    open |-> IF sent = "failed" THEN ctxs \ {cur} ELSE ctxs]

\* A request with `connection: keep-alive': a new session and a new timer, also
\* when SendMassage has closed the connection.
RespondKeeping(sent) ==
    LET next == Session(cur, Own.nth + 1, TRUE)
    IN  /\ lpc = "respond"
        /\ keepalive
        /\ timers' = (timers \ TimerOf(Own)) \cup TimerOf(next)
        /\ sessions' = [sessions EXCEPT ![fd[cur]] = next]
        /\ ctxs' = AfterSend(sent).open
        /\ unsent' = AfterSend(sent).left
        /\ lpc' = "idle" /\ cur' = None
        /\ UNCHANGED <<Modes, fd, queued, apc, accepted, named, dispatch>>

\* Mutant: the session stays with its connection's number.
RespondClosingOnly(sent) ==
    /\ lpc = "respond"
    /\ timers' = timers \ TimerOf(Own)
    /\ ctxs' = ctxs \ {cur}
    /\ unsent' = AfterSend(sent).left
    /\ lpc' = "idle" /\ cur' = None
    /\ UNCHANGED <<Modes, fd, queued, sessions, apc, accepted, named, dispatch>>

RespondClosing(sent) ==
    /\ lpc = "respond"
    /\ timers' = timers \ TimerOf(Own)
    /\ sessions' = [sessions EXCEPT ![fd[cur]] = None]
    /\ ctxs' = ctxs \ {cur}
    /\ unsent' = AfterSend(sent).left
    /\ lpc' = "idle" /\ cur' = None
    /\ UNCHANGED <<Modes, fd, queued, apc, accepted, named, dispatch>>

Respond == \E sent \in Sent : RespondKeeping(sent) \/ RespondClosing(sent)

-----------------------------------------------------------------------------
(* The other things the loop does.                                         *)

\* HandleWriteEvent sends the rest, or fails (SocketContext, Connection).
WriteEvent(c) ==
    /\ Receives(c)
    /\ c \in unsent
    /\ \/ unsent' = unsent \ {c} /\ UNCHANGED ctxs
       \/ ctxs' = ctxs \ {c} /\ UNCHANGED unsent
    /\ UNCHANGED <<Modes, fd, queued, sessions, timers, apc, accepted, lpc, cur, named, dispatch>>

\* The peer closes: the loop removes the connection; its session and timer stay.
PeerCloses(c) ==
    /\ Receives(c)
    /\ ctxs' = ctxs \ {c}
    /\ UNCHANGED <<Modes, fd, queued, sessions, timers, apc, accepted, lpc, cur, named, unsent, dispatch>>

\* Whom a timer closes.  What the reference to a dead parameter finds is undefined;
\* where OnRecv's parameters were is likely to be the last one's.
Closes(t) == IF Holds(t) THEN {t.conn} ELSE named

HandingOver(c) == c = accepted \/ c \in queued

\* Mutant: the session goes, the connection stays.
FireResetOnly(t) ==
    /\ LoopTurn
    /\ lpc = "idle"
    /\ t \in timers
    /\ prompt => ~HandingOver(t.conn)
    /\ timers' = timers \ {t}
    /\ \E c \in Closes(t) : sessions' = [sessions EXCEPT ![fd[c]] = None]
    /\ UNCHANGED <<Modes, fd, ctxs, queued, apc, accepted, lpc, cur, named, unsent, dispatch>>

Fire(t) ==
    /\ LoopTurn
    /\ lpc = "idle"
    /\ t \in timers
    /\ prompt => ~HandingOver(t.conn)
    /\ timers' = timers \ {t}
    /\ \E c \in Closes(t) : /\ sessions' = [sessions EXCEPT ![fd[c]] = None]
                            /\ ctxs' = {d \in ctxs : fd[d] # fd[c]}
    /\ UNCHANGED <<Modes, fd, queued, apc, accepted, lpc, cur, named, unsent, dispatch>>

-----------------------------------------------------------------------------
(* The application registers, replaces and deletes servlets before it        *)
(* listens, and later, from any thread.                                      *)

ChangeServlets == /\ Configure
                  /\ UNCHANGED server

Acceptor == StartTimer \/ StoreTimer \/ HandOver
Handler == Match \/ Load \/ UseAfterFree \/ Handled \/ Respond
Event(c) == RecvNothing(c) \/ RecvPart(c) \/ RecvError(c) \/ RecvRequest(c) \/ WriteEvent(c)
            \/ PeerCloses(c)

Next == \/ \E c \in Conns : Accept(c) \/ AddSocketContext(c) \/ Event(c)
        \/ Acceptor \/ Handler
        \/ \E t \in Timers : Fire(t)
        \/ ChangeServlets

Spec == Init /\ [][Next]_vars

LoopWork == \/ Handler
            \/ \E c \in Conns : AddSocketContext(c)
            \/ \E t \in Timers : Fire(t)

\* The acceptor goes on, servlets return, and the loop's passes run what is queued
\* and the timers that are due.  Nobody need send anything.
Fairness == WF_vars(Acceptor) /\ WF_vars(LoopWork)

FairSpec == Spec /\ Fairness

-----------------------------------------------------------------------------
(* Properties.                                                             *)

TypeOK == /\ {single, keepalive, prompt} \subseteq BOOLEAN
          /\ fd \in [Conns -> Fds \cup {None}]
          /\ ctxs \subseteq Conns /\ queued \subseteq Conns
          /\ sessions \in [Fds -> HttpSessions \cup {None}]
          /\ timers \subseteq Timers
          /\ apc \in {"idle", "timer", "store", "add", "crashed"}
          /\ lpc \in {"idle", "match", "load", "handle", "respond", "crashed",
                      "undefined"}
          /\ accepted \in Conns \cup {None} /\ cur \in Conns \cup {None}
          /\ named \subseteq Conns /\ unsent \subseteq Conns

\* What is said of short connections, handed over in less than half a second.
Ordinary == prompt /\ ~keepalive

\* The session that is looked up is there, in OnRecv and in AfterConnect.
NoNullSession == Ordinary => lpc # "crashed" /\ apc # "crashed"

\* Every connection in the table has its own session, never one that was left
\* under its number, and every session a timer that will close it.
SessionsAreOwn == Ordinary =>
    /\ \A c \in ctxs : SessionOf(c) # None /\ SessionOf(c).conn = c
    /\ \A f \in Fds : LET s == sessions[f]
                      IN  s = None \/ s.conn = accepted \/ (s.timed /\ TimerOf(s) \subseteq timers)

\* "Adds a closing timer for it" (http_server.cc:12, 54): a timer closes the connection
\* it was made for.
TimersCloseTheirOwn == \A t \in timers : Closes(t) \subseteq {t.conn}

\* "Turns the response into a string and sends it" (http_server.cc:45): when OnRecv
\* returns, a response that was not sent whole has a connection left to send it.
AnswersWhole == [][lpc = "respond" /\ lpc' = "idle" => unsent' \subseteq unsent \cup ctxs']_vars

\* Idle or not, answered or not, every connection is closed in the end, unless a
\* servlet was destroyed under a request.
ClosedInTheEnd ==
    \A c \in Conns : (Ordinary /\ fd[c] # None) ~> (~Held(c) \/ lpc = "undefined")
==============================================================================
