# A verification of skyline-webserver in TLA+

skyline-webserver is a C++20 web server: a main/sub reactor network core
(`src/skyline/core`), an HTTP layer on top of it (`src/skyline/http`) and a
logging library (`src/skyline/logger`). This directory holds TLA+ models of its
components, the TLC runs that check them on small instances, and theorems about
them whose proofs TLAPS checks.

## 1. The system

| component | state it keeps | operations | talks to | module |
|---|---|---|---|---|
| `EventLoop` (core/event_loop) | `quit_`, `tid_`, eventfd, `pending_funcs_` + mutex, `socket_ctxs_`, epoll set, `Timer` | `Loop`, `Stop`, `Wakeup`, `RunInLoop`, `Add/Update/RemoveSocketContext`, `AddTimer` | any thread posts functions; the loop thread calls socket contexts and timers | `EventLoop`, `SocketLoop`, `ConnTable`, `TaskQueue` |
| `Reactor` (core/reactor) | main loop, sub loops, their threads, round-robin counter | `Start`, `Stop`, `NextLoop`, destructor | owns the loops | `Reactor` |
| `TcpServer`, `Acceptor`, `Connection` (core/tcp_server) | listening fd; per connection read and write buffers, interest set | `StartListen`, `StopListen`, `HandleReadEvent`, `SendMassage`, `Close` | kernel sockets, loops, `OnRecv` of the subclass | `Reactor`, `SocketLoop`, `Connection` |
| `SocketContext`, `Channel` | fd, `write_buffer_`, `events` | `HandleWriteEvent`, closing the fd in the destructor | `EventLoop` | `Connection`, `SocketLoop` |
| `Buffer` (core/buffer) | byte string, read index | `Read`, `ReadAll`, `Write`, `WriteAll` | `Connection` | sequences in `Connection` |
| `Timer` (core/timer) | set of nodes ordered by expiry, map of ids, a static id counter | `addTimer`, `delTimer`, `checkTimer`, `timeToSleep` | `EventLoop` | `Timer`, `TimerService` |
| `HttpServer` (http/http_server) | session map by descriptor number, closing timers | `AfterConnect`, `OnRecv` | `TcpServer`, `Timer`, sessions, servlets | `HttpServer` |
| `HttpSession` (http/http_session) | buffer, request under construction | `Parse`, `TryGet` | parser | `HttpSession` |
| parsers (http/http_parser, http11_parser.rl.cc, httpclient_parser.rl.cc) | machine state, marks in the buffer, cumulative `nread` | `execute`, the callbacks | `HttpSession` | `RequestTable`, `ResponseTable`, `HttpParsers`, `HttpHead` |
| `ServletDispatch` (http/servlet) | exact and glob servlet tables, default servlet, shared mutex | `add*`, `del*`, `setDefault`, `getMatchedServlet`, `handle` | `HttpServer` | `ServletDispatch` |
| `AsyncAppender` (logger/async_log) | current, next and spare buffers, list of full buffers, writer thread, `_stop` | `log`, `stop`, the writer loop | logging threads, `append`/`flush` of the subclass | `AsyncAppender`, `LogPipe` |
| `AsyncRollFileAppender` | file name, size | `append`, `flush`, `rollFile` | file system | none |
| `Logger`, `LogFormatter`, `LoggerManager` (logger/log) | appenders, parsed pattern, logger map | `log`, `format`, `getLogger` | appenders | none |

How they interact: the main loop's acceptor makes a `Connection` for each
accepted descriptor, calls `AfterConnect` on its own thread, and gives the
connection to the next sub loop (`AddSocketContext`, posted through `RunInLoop`). From
then on the connection lives on its loop's thread: events, posted functions and
timers run there one after the other. What other threads may do to a loop is
exactly: `RunInLoop` (and what posts through it), `Stop`, `AddTimer`,
`RemoveTimer`.

What is hard in each, and what makes it correct:

* **EventLoop.** Other threads push and write the eventfd under a mutex, the
  loop reads the eventfd outside of it. Correct: no function is lost, doubled or
  overtaken, no wake-up is lost, Stop ends the loop.
* **The table of contexts.** Descriptor numbers are used again; events of a batch and
  queued functions name a connection by its number after the world has moved on.
  Correct: an event or a removal reaches the connection it is about, or none.
* **Reactor.** `Stop` is called by callbacks, by other threads and by the destructor, and
  joins threads that take mutexes. Correct: every thread is joined once, by another one, and
  nobody waits for ever.
* **Connection.** Edge-triggered epoll: one read or one interest bit forgotten
  and the connection hangs. Correct: no edge is lost, the stream arrives whole
  and in order, all input is seen.
* **Timer.** Callbacks run outside the lock; timers are added and deleted by them,
  by the acceptor's thread and by any other. Correct: each timer is in one place,
  runs in order and never after it was deleted; the loop sleeps past none it can know of.
* **HttpServer.** Sessions and timers outlive connections, and are found by numbers that
  are used again. Correct: a connection finds its own session, has a timer, and goes in the
  end; what was to be sent is sent.
* **ServletDispatch.** A reference into a table outlives the table's lock. Correct: a request
  reaches the servlet registered for it.
* **HttpSession.** A request comes in pieces cut anywhere. Correct: the
  requests that were sent come out, and none before it was sent.
* **Parsers.** Two generated machines of 350 and 120 states, with positions kept from one
  state to another. Correct: what is reported begins at its own mark and ends where it ends,
  in the order of the grammar; no input is accepted into a dead end.
* **AsyncAppender.** Buffers are exchanged by pointer between threads. Correct: no empty
  pointer is dereferenced, nothing accepted is lost or out of order, stop ends the
  thread.

## 2. Plan

Done: `TaskQueue` and `EventLoop` (with proofs), `LogPipe` and `AsyncAppender` (with proofs),
`ConnTable` and `SocketLoop` (with proofs), `Connection` (with proofs), `TimerService` and `Timer` (with proofs), `HttpSession`
(with proofs), the parsers (`Ragel`, `RequestTable`, `ResponseTable`, `HttpParsers`, `HttpHead`),
`ServletDispatch` and `HttpServer` (with proofs), `Reactor` (with proofs).

What is left, the most important first: `AsyncRollFileAppender` on top of `AsyncAppender`; the
formatter's pattern; theorems about the parsers, whose safety properties are the only ones that have
none (section 5 says why they come last).

The number of runs is kept small: a new module takes the place of the weakest
run rather than adding a second one that asks the same thing.

## 3. The modules

Every module says at its top which file it models. State names are the
source's, without the trailing underscore where that reads better; each action
bears the name of the function or of the part of it that is atomic. The operators that
begin with "Mutant:" in their comment are not part of any specification: they
are the bugs the properties are measured against.

**TaskQueue.** What `RunInLoop` promises, without threads: a queue served in order
until it is closed, and an owner that may run its own functions at once.

**EventLoop** (event_loop.cc:33-85, 137-156). `lpc` is the loop thread's place in
`Loop()`, `pc` that of a thread in `RunInLoop` (lock and push, Wakeup, unlock) or
`Stop` (test, set, Wakeup). `batch` has one bit per kind of descriptor: the
eventfd and "some sockets". Callbacks (socket handlers, posted functions, timers) may
call `RunInLoop` and `Stop` on the loop's own thread. The history `ran` records
what was run. `tid_` is read and written without a lock; a client never reads its own
id from it, whatever the race yields, so the choice is invisible.

**ConnTable.** What the loop of a sub reactor promises the connections in its table, told
without descriptor numbers: each goes once from the acceptor through the queue into the table and out
of it, its events are handled by itself while it is there, and it does not leave while one of them
waits. `SocketLoop` implements it when there are sub reactors: `Stage` says how far a connection has
come, `ready` is the batch, `current` the context whose handlers run, `asked` has the connections
whose removal is queued: that removal, when it is run, takes the connection it was asked for out of the
table, or finds it gone, and touches no other. With one reactor the code does not keep the promise:
an addition made at once passes a removal in the queue.

**SocketLoop** (event_loop.cc:88-128, tcp_server.cc, channel.cc). A connection's
descriptor stays open while anyone has a `shared_ptr` to it (`Open`); the kernel hands
out the lowest free number. `todo` is the queue, served as `TaskQueue` says.
`single` chooses between one reactor (the acceptor on this loop, its additions
inline) and sub reactors (posted). The constants `ForeignClose` and `CrossClose` say
what the application does: other threads close connections they keep; a
callback closes another connection than its own. An event that meets an empty slot ends the program
(`lpc = "crashed"`).

**Reactor** (reactor.cc; tcp_server.cc:57-67, 151-169). The main thread from `StartListen`
to the destructor (`mpc`), the sub reactors' threads (`spc`), and the calls of `Stop` by the
application and by the destructor (`stop`), loop by loop and thread by thread. Of a loop only
`quit_`, the test of it and the mutex of its queue are left. `caller` says on which
thread the application calls `Stop`; `Orderly` are those of its values for which the
properties are stated. `inbox` is what is queued on the main loop about the acceptor.

**Connection** (tcp_server.cc:83-135, socket_context.cc, event_loop.cc:36-73,
106-117). One descriptor between epoll and a peer. `armed` is the place in
epoll's ready list: set by arriving input, by space in a full send buffer and by
`EPOLL_CTL_MOD` of a ready descriptor, cleared by `epoll_wait`. Output is numbered in
the order `SendMassage` took it, because the code can change that order. `calm` selects the
peer that waits for each answer (and no other sender); otherwise requests are
pipelined and other code of the loop's thread sends too (`IntruderSends`).

**TimerService.** What the timers of one loop promise, without lock, nodes, batches or the loop's
sleep: alarms that ring when they are due, the earliest first and one at a time, until they
are over; deleted, they never ring. `Timer` implements it when `single`: an alarm is a call of
`addTimer`, due at its node's expiry, whether the node is in `_timers` or taken into a batch, and
live as long as it is set; the moment `checkTimer` takes a batch is a stutter.

**Timer** (timer.cc, timer.h; event_loop.cc:33-77 and 130-135; tcp_server.cc:161).
The clock is a variable with a `Tick`. The methods are critical sections, one step each;
the callbacks of `checkTimer` are two steps (`Fire`, `CallbackReturns`) between which any
thread adds and deletes. `deadline` is the moment `epoll_wait` gives up. What is due is taken at once, as one of the
sequences that have it in the order of `_timers` (`Sorted`); there always is one. Timers are added
by the loop itself, by the acceptor, whose new connection wakes the loop, and by any other thread
(`OthersAdd`), after which nobody wakes it: `unheard` has those that were added to a sleeping loop. `single`
says that no other loop of the process races for the id counter.

**HttpServer** over **ServletDispatch** (http_server.cc, servlet.cc). One loop's connections,
the acceptor in four steps (session, timer, `timer_id`, handing over), `OnRecv` in the steps
of the dispatcher, and the timers that fire between. `sessions` is keyed by number as in the
code, `Held` says who has a `shared_ptr`, and a number is free when nobody has. Of the session
it is only told whether the bytes so far are a part, a whole request or an error; of
`SendMassage` whether it sent all, a part, or failed. `prompt` says that handing a connection
over takes less than the half second of its timer; `keepalive` is `is_keepalive`. The
dispatcher's methods are critical sections; `ref` is the reference `getMatchedServlet` returned
and becomes "lost" when what it refers to moves or goes. The tables change at any time, also while a
request is handled (`ChangeServlets`): a lost reference finds any servlet there ever was, and a
request whose servlet was destroyed goes on or ends the program (`UseAfterFree`). Servlets are numbered in the
order of registration, `routes` is the history the routing is compared with. Paths and patterns
are values apart, also where they would be spelled alike, since they name entries of two tables.

**HttpSession** (http_session.cc, http_parser.cc:82-103, the frame of
`http_parser_execute`). A byte is its request and its place in it; of the grammar only
that a head ends at the first empty line the parser is given (`EmptyLine`), and that a byte out of
place is an error or goes unnoticed. A head as sent has its empty line at its end
(`HeadAssumption`); one of which bytes were erased may have another, earlier, and its
content-length may be missed (`Lengths`). Where the session erases
and where the parser starts is exactly the code's arithmetic with `nread`.

**RequestTable, ResponseTable** (http11_parser.rl.cc, httpclient_parser.rl.cc) are the
machines, every state with its own number and every move with its actions, in the
vocabulary of **Ragel**; parts the generator has written twice (the addresses of requests and
of JSON messages, the positions of `::`) are one definition here, shifted or parameterised.
Bytes that no state tells apart are one value (44 classes). **HttpParsers** runs either
machine on any bytes, keeps for each mark what has passed since it was set (not its
distance), calls the callbacks, and reads addresses in brackets a second time the way RFC 3986
takes them apart. **HttpHead** is the abstract parser: elements reported in the order of the
grammar. A message in one piece is all they see; what happens between two pieces is
`HttpSession`'s question.

**LogPipe.** What an asynchronous appender promises, without buffers, mutex and pointers: a message
is taken into the pipe or, for its size, refused, and the pipe comes out at its other end in pieces.
Of `AsyncAppender` the pipe is `toWrite \o full \o current.text`: what the writer has in its hands,
the full buffers and the one that is filled. The exchange of the pointers is a stutter.

**AsyncAppender** (async_log.cc:22-120). A critical section is one action. `wait_for` may
return at any time, so `notify_one` changes nothing and no timeout is needed beside
fairness. A message is its sender, number and size.

**EventLoopProofs, AsyncAppenderProofs, SocketLoopProofs, ConnectionProofs, ReactorProofs,
TimerProofs, HttpSessionProofs** and **HttpServerProofs** (which is about `ServletDispatch`, too)
hold the theorems.

## 4. The runs

| run | bounds | what it shows |
|---|---|---|
| `el` | 2 clients and the loop's thread, 2 posts each, 3 in all, any number of stops | the safety of the queue, that it implements `TaskQueue` with its fairness, that Stop ends the loop |
| `appender` | 2 logging threads with 2 messages of 1-3 units, buffers of 2, one `stop()` | pointers, order, completeness, that it implements `LogPipe`, and that all is written in the end |
| `sock` | 3 connections over 2 numbers, both set-ups of the reactors | events, removals and slots belong to their connection, with sub reactors that it implements `ConnTable`; what is closed leaves the table |
| `reactor` | 2 sub reactors, every caller of `Stop`, one `StopListen` | the joins: once each, before `Stop` returns, and to an end; `StopListen` holds, its removal being the queue's last word |
| `con` | 2 units of input, messages of up to 4, send buffer of 2, 1 other message | no edge lost, the stream in order, nothing twice or missing whoever sends, requests answered, the buffer drained |
| `con_fin` | input and end of stream together | a finding: the last data is dropped |
| `timer` | delays 0 and 1, clock up to 1, 3 timers | one place, order, deletion, no sleeping past a timer the loop can know of, that they implement `TimerService`, each one run once it is known |
| `server` | 2 connections over 2 numbers, 1 request each, 2 paths, 2 patterns; 4 registrations before the first connection, 2 beside connections | sessions and timers belong to their connection; everything is closed in the end, unless a servlet is destroyed under a request; a request reaches the servlet that should answer it |
| `server_short` | the same without registrations | a finding: the rest of a short connection's response is dropped |
| `session` | 2 requests, heads of 8 bytes with 4 line ends, one a CR LF, bodies of up to 2 | the same requests however bodies are cut |
| `session_cut` | 1 request, head of 5 bytes with 3 line ends | a finding: a head in two pieces trips the parser's assertion |
| `parsers` | none: every state, every class of bytes, heads of any length | marks, fields, addresses, no dead ends, and the order of `HttpHead` |

What an abstract specification already says is not checked a second time: `InOrder` and
`OnlyOversizedDropped` are in `LogPipe`, `DueOrder` and `CancelledStaysCancelled` in `TimerService`,
`RemovesItsOwn` in `ConnTable`. They are stated by theorems of their own, `DueOrder` also for loops
that race for the id counter.

Why the bounds are enough for what they are for: the queue needs two functions of one
thread (order), two threads (interleaving) and a post during a batch (three). The buffers
of the appender need a message that does not fit beside another (1+2), one that never
fits (3), and enough of them to have the next buffer missing. A number is used again as
soon as a connection comes after another has died: the lowest free number is taken. One sub
reactor can be joined while the other still runs. A message must be larger than the
send buffer by more than its capacity (4 > 2) to need two write events. Three
timers are one that runs, one in the batch behind it and one added meanwhile; one
tick tells what is due from what is not (the safety properties also hold with a clock
up to 2, 1.9 million states). Two
registrations are enough to have the servlet of a request replaced or its reference moved, while there
are connections (`MaxAddsServed`); a pattern that matches more than another, and four registrations, are
enough to have two patterns in either order, one of them renewed, and a path or the default beside them.
The proof of `RequestsAreRouted` has no such bounds. A head with a
line end before its last, a body that begins with a line feed and a second request are
all the cuts that differ. In `el`, `MaxAll` only bounds the calls of `RunInLoop`. In
`parsers` what is read of an address is counted only as far as its limits (five digits, 999).

`CHECK_DEADLOCK FALSE` is said where the program may stop: a loop that has ended, a
writer that has ended, connections that are all closed, a peer that has nothing left to
send, a parser that has reported its head.

### Fairness

* `EventLoop`: the loop thread is scheduled; a call that has begun goes on; `epoll_wait`
  reports an eventfd that stays readable. Nothing is promised about socket events,
  timers or errors, and nobody need call `Stop`.
* `AsyncAppender`: the writer thread is scheduled (its `wait_for` ends after
  `kFlushInterval`) and a stop once begun goes on. Nobody need log or stop.
* `SocketLoop`: the loop's steps, one by one; the functions at the head of the queue are
  run strongly fairly, since every pass serves the queue (what `EventLoop` shows).
* `Reactor`: the main thread and a `Stop` that has begun go on; a pass ends, also when
  accepting never does (strongly fair, as the acceptor handles one event per pass); a
  loop that was stopped is woken (what `EventLoop` shows). Nobody need stop anything.
* `Connection`: the loop runs and the peer receives what it is sent; the peer need not
  send.
* `Timer`: the clock ticks, the loop runs, the acceptor finishes its callback.
* `HttpServer`: the acceptor goes on, servlets return, the loop runs what is queued and the
  timers that are due (what `EventLoop` and `Timer` show). Peers need do nothing.

### What the runs found

* `session_cut`: `nread` counts over all calls of `execute`, the session erases what is
  parsed and passes offset 0 again; the second piece of a head therefore trips
  `assert(parser->nread <= len)`; with assertions off, bytes that were never parsed are
  erased. Only a head that comes whole with its first line is safe (`Understood`).
* `con_fin`: data read in the same event as the end of the stream never reaches `OnRecv`.
* `server_short`: for a short connection, the default, `OnRecv` closes at once after
  `SendMassage`; what the socket did not take is dropped with the write buffer.

Where a property is stated for less than every program, it fails for the rest:

* `EventsAreOwn` fails with `CrossClose = TRUE`: a callback that closes another connection of
  its loop leaves an empty slot for an event of the same batch, which is dereferenced
  (event_loop.cc:49 says that this needs no test). The run has callbacks that close their own only.
* `NoOversleep` and `Runs` except what threads other than the acceptor's add while the loop sleeps:
  `EventLoop::AddTimer` (event_loop.cc:130-133) wakes nobody, so such a timer is slept past, for ever
  when nothing else ends the sleep. No comment promises more.
* `RemovesItsOwn` is about sub reactors. With one reactor an accepted connection is added at
  once, before the removal of its number's last owner that is still queued.
* `NoNullSession` and `SessionsAreOwn` fail without `prompt` (the timer may fire before the
  connection is added, which then has no session) and with `keepalive`: the second timer of a
  connection has a reference to `OnRecv`'s parameter (http_server.cc:58), which is gone when it
  fires; it may close any connection (`TimersCloseTheirOwn`).
* `EndsInPeace` and `ServerEnds` fail for the callers that are not `Orderly`: `Stop` in a signal
  handler, as examples/http_test.cc:17 has it, on the main thread while it holds a sub loop's
  mutex waits for ever, and on a sub reactor's thread joins itself.
* `StreamWhole` and `Answered` are for a peer that waits for its answers; a second message, sent
  while the first has a remainder, overtakes it or closes the connection (tcp_server.cc:124), and EAGAIN in
  the write event, whose space another message has taken, closes it as well (socket_context.cc:12).
  `UnitsOnce` says what is kept then.
* `Understood` and `FirstIntact` are for heads that end in the piece that ends their first line. Of
  others a piece without a line end makes the session erase bytes that were never parsed
  (http_session.cc:15-16), and the parser, still at the beginning of a line, takes what ends the torn line for the
  empty line (http11_parser.rl.cc:371-373, 511-513, 594-596): a request is handed out whose head the
  peer has not ended. The model has these steps (`EmptyLine`).
* That the writer thread has ended when `stop()` returns is no property here: `stop()` tests and sets
  `_stop` without a lock and joins only when it found it unset (async_log.cc:114-120), so the second of two
  callers returns early, or both join. The run has one caller, which returns in the end (`NobodyWaits`).
* `ClosedInTheEnd` ends where a servlet is destroyed under its request (servlet.cc:96): replacing or
  deleting it, or changing the patterns, while requests are handled is undefined behaviour, which the
  mutex of each method does not prevent and no comment excludes.
* `NobodyWaits` and `LogPipe` promise nothing of what `stop()` leaves: called while the writer
  writes, full buffers stay unwritten.
* What a peer sends ahead is taken for the end of a body (http_session.cc:26):
  `FirstIntact` says what is still kept then, and no document promises more.

What the parsers accept beside the grammar, as the tables show and no document denies: names of
request fields may hold line ends; a reason may begin with CR; a response whose transfer-encoding,
content-length or connection is empty ends in the states 121 to 123, which isFinished does not
know; groups of an address may repeat without bound before `]`; the bytes 2 to 6 stand where
the grammar meant repetition counts. In a response line that follows an empty known header the
line is read as that header's value and as a name at once; `FieldWhole` leaves those two states out.

## 5. The proofs

For every set of threads, every bound and every size, from the assumptions the modules name
(the threads are distinct, sizes are naturals, the empty pointer is no buffer):

* **EventLoop** (`EventLoopProofs`). `Typing`. `NoLostWakeup`: `PostsAnnounced` is not
  inductive by itself with Stop's part, so it is proved with `QuitAnnounced` (a loop
  blocked in `epoll_wait` after `quit_` was set has a wake-up coming) as the invariant
  `Announced`. `LineTheorem`: the concatenation of what was run, what is
  being run and what is queued contains every function handed over exactly once and each
  client's in order; each step either leaves that line alone, moves its parts' borders
  (lemmas `MoveHead`, `HeadTailOfConcat`) or inserts one fresh element (`Insertion`).
  `Implements`: each step is a step of `TaskQueue` or a stutter; the freshness of a posted
  function comes from `LineInv`.
* **AsyncAppender** (`AsyncAppenderProofs`). `Safety`: the inductive invariant is
  `TypeOK`, `Spares` (a spare buffer is empty or clean), `CurrentThere`, `NextThere` and
  `OnlyOversizedDropped`; `Spares` is what makes "a message is dropped only for its size"
  inductive. `DropsOnlyOversized` says that much alone. `PipelineTheorem`: `InOrder`, with `NothingHeld` (the writer's hands are empty
  outside "write"). `AppenderIsPipe`: each step is a step of `LogPipe` or a stutter.
  That the exchange leaves the pipe alone is that concatenation is associative (`Regroup`,
  `ExchangeKeepsPipe`); that what is written is a prefix of the pipe needs `NothingHeld`, that a
  refused message is larger than a buffer needs `Spares`.
* **Connection** (`ConnectionProofs`). The inductive invariant is `TypeOK`,
  `EventsAtHand` (events are only kept between `epoll_wait` and the handlers), `Announced`
  (readable input is armed, or the read event is at hand, or reading is under way),
  `Turns` (a calm peer's request that is not answered finds no output under way),
  `NoLostEdge`'s parts, `StreamInOrder` and `OnlyEofCloses`. `Turns` is why a message
  never meets a remainder. For senders that do not wait there is `NothingTwiceNorLost`: what is received,
  under way and left to send holds every unit taken once, and all of them unless the connection is
  closed (`OnceConcat` says when a concatenation holds nothing twice, `SlipsIn` that a message may
  slip in between). Concatenation is kept behind an operator with its laws as
  lemmas (`CatFacts`, `MoveFirst`).
* **SocketLoop** (`SocketLoopProofs`). `Agreement`, `EventsFindTheirOwn` (for applications whose
  callbacks close no other connection) and `RemovalsFindTheirOwn`. `TableAgrees` is inductive with
  `Distinct` (two open connections have two numbers: the kernel gives out free ones, and
  whoever gets hold of a connection got it from somebody who had it, lemma `NothingNew`), `Numbered`
  and `Once` (nothing is queued twice, and nothing that is still with the acceptor). `Batch` says when events wait, `Removals` that behind an
  addition no removal of another connection's under the same number is queued (`BehindIn`, with
  the laws of appending and of taking the head as lemmas). `NumbersAreAsGood`, for applications whose
  callbacks close no other connection: each step is a step of `ConnTable` or a stutter. A slot that
  is emptied under a number is the connection's own (`OwnSlot`, from `Distinct`; `Removals` when the
  removal waited in the queue), so one connection moves (`MovesOne`, `RemovedOne`) or none does
  (`NobodyMoves`). That the removal which is run is no longer asked for rests on the module's bound of one
  queued removal per connection (`Once`); that it hits no other does not.
* **Reactor** (`ReactorProofs`), from `N` being a natural number. `Peace` and `StopJoins`: for the
  callers of `Orderly` the inductive invariant has the types of what the joins depend on
  (`Types`), that the application's call of `Stop` and the destructor's are never under way
  together (`Phases`), that `quit_` of the main loop tells whether a call has passed the test
  (`Quits`: the second call returns at once because the first is over), and how many threads each
  call has joined so far (`Joins`). `OneAtATime` is the lemma the cases of `Stop` rest on.
  `RemovalWins`, for every caller: `RemovalIsLast` with the fact that nobody listens twice (`Listening`).
* **HttpServer** (`HttpServerProofs`), from the empty session being no session and descriptors
  being numbers. `SessionsAreThere` and `SessionsBelong`, for connections that are not kept alive and are
  handed over before their timer is due: the inductive invariant says that two
  connections somebody holds never have the same number (`Numbers`; a timer that waits holds its
  connection, which is why a number cannot be used again while the old session is there), that a
  connection is with the acceptor, queued or in the table but never in two places (`Places`),
  and whose session is under each number and which timer waits for it (`Sessions`).
  `SessionEnds` is the lemma of the three ways a session ends (an error, an answer, its timer).
* **ServletDispatch** (`HttpServerProofs`), for any paths, patterns and matches, in every mode of the
  server. `RequestsAreRouted`: what the tables hold is what was registered and not deleted, each
  once (`Routes`), and the vector of patterns is in the order of registration (`Order`), so that the
  pattern `find_if` meets first is the one registered longest ago; the lemmas say what erasing
  from the vector keeps.
* **Timer** (`TimerProofs`), from delays and bounds being naturals. `NeverOversleeps` (but for
  what other threads add to a sleeping loop) and `RunsInOrder` need of the rest only the types and that a batch is kept while it is run
  (`Known`). `OnePlaceEach` and `DeletedForGood` are for one loop, where ids are the numbers of
  the calls and `_ids` has the expiry of every node that waits (`OwnIds`: otherwise `delTimer` would
  miss, or hit another); no call has two nodes and those with none are over (`Apart`). `BatchThere`:
  the order of `_timers` can always be written down, by taking the last of what is due and then the
  others (`SortedWithLast`); two nodes never have the same key. `TimersServe`: each step is a step of
  `TimerService` or a stutter; beside `OwnIds` and `Apart` it needs that `_ids` keeps the expiry a
  timer was set for while it is taken and not run (`Timed`), and `DueOrder` for the alarm that rings
  being the first that is due.
* **HttpSession** (`HttpSessionProofs`), from sizes being naturals, lines being at least two bytes
  into the head and ending with it, and the empty line of a head as sent being its last. The inductive
  invariant is `TypeOK`; `Trailing` (while the session is open its buffer is the end of what was sent, so
  what the parser sees is the stream, though not from where it thinks); and `InStep` (a session that has
  lost nothing so far holds exactly the next request's bytes: none of its lines, or all of them and not
  all of its body) for `FirstRequestIntact` and `PoliteUnderstood`. `StopsAtHead` says that the parser
  stops where the head ends when it was given nothing else. `Outcomes` lists what a call of `OnRecv` can
  do and `InStepDoes` what is left of that in step.

Induction over numbers is done by the smallest counterexample: `LeastNumber` (a set of numbers that is
not empty has a least element) is proved from the library's theorem on finite subsets, in each module that
needs it. That is how `End` of `HttpSession`, defined by recursion, is shown to have
values and to rise, and `Sorted` of `Timer` to be never empty.

Only model-checked: all liveness (`StopEnds`, the fairness of `ImplementsTaskQueue`,
`NobodyWaits`, `CloseRemoves`, `Answered`, `NothingStays`, `Runs`, `ClosedInTheEnd`,
`ServerEnds`, `StaysUnlistened`), which TLAPS's installed provers do not reach; and the parsers
(`CleanElements`, `FieldWhole`, `NoTrap`, `AddressParts` and the order of `HttpHead`), which are
facts about two tables of 470 states without a parameter: TLC sees every state there is, and a proof would
only enumerate them again. Every other safety property and action property of a passing run is
stated by a theorem.

## 6. What is not modelled

The HTTP messages (data and formatting), the capacity and the indices of the buffers (they decide
how memory is used), which file the asynchronous appender writes to and when it rolls, the
logger's levels and formatting, the logging macros and the system logger (no state of the
server), the examples (they show how the library is called), and undefined behaviour that leaves
no state to speak of: data races inside standard containers (`http_sessions_`, `kLoggers`), and
the message `SendMassage` captures by reference when it is called from another thread. Those the
server meets are listed as hazards in PROJECT.json, each at its line. In `HttpServer` several
loops that share the map of sessions are left out for the same reason. Reading ends with EAGAIN or the end
of the stream: other errors of `read` are retried by the code for ever. The system is modelled
where its standard containers and the kernel behave as documented; `epoll_ctl` may fail where the
code looks at the result.
