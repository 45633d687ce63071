--------------------------- MODULE AsyncAppender ---------------------------
(***************************************************************************)
(* skyline::logger::AsyncAppender (logger/async_log.{h,cc}): logging       *)
(* threads copy messages into a fixed buffer under a mutex; one writer     *)
(* thread exchanges full buffers for spare ones under the same mutex and   *)
(* hands them to append() and flush() of the subclass.  A critical section *)
(* is one action.  notify_one only makes a wait_for return early; since it *)
(* may return at any time (timeout, spurious wake-up), Exchange from "wait"*)
(* needs no notification and notify_one changes nothing here.              *)
(* The bytes of a message are abstracted to its sender, number and size;   *)
(* the list _buffers to the messages in it and the number of buffers.      *)
(***************************************************************************)
EXTENDS Naturals, Sequences

CONSTANTS Loggers,      \* threads that call log()
          Stoppers,     \* threads that call stop(), once each
          Null,         \* an empty unique_ptr
          Cap,          \* kFixedBufferSize
          Sizes,        \* the sizes of formatted messages
          MaxLogs       \* bound: messages per logging thread

Messages == [from : Loggers, n : 1 .. MaxLogs, size : Sizes]
FixedBuffers == [text : Seq(Messages), len : 0 .. Cap]

ASSUME CapAssumption == Cap \in Nat /\ MaxLogs \in Nat /\ Sizes \subseteq Nat \ {0}
ASSUME NullAssumption == Null \notin FixedBuffers

VARIABLES current,      \* _current_buffer
          next,         \* _next_buffer
          full,         \* the messages in _buffers, in order
          nfull,        \* _buffers.size()
          tmp,          \* the writer's tmp_buffer
          toWrite,      \* the messages in the writer's buffers_to_write
          wpc,          \* where the writer thread is
          stopped,      \* _stop
          spc,          \* where a stopping thread is in stop()
          file,         \* what the subclass was given, in order
          sent,         \* how many messages a thread has logged
          logged,       \* history: the messages a buffer took, in order
          dropped       \* history: the messages no buffer took

buffers == <<current, next, full, nfull, tmp, toWrite>>
history == <<sent, logged, dropped>>
vars == <<buffers, wpc, stopped, spc, file, history>>

-----------------------------------------------------------------------------
(* FixedBuffer.                                                            *)

Empty == [text |-> <<>>, len |-> 0]
Fits(b, m) == m.size <= Cap - b.len
Write(b, m) == [text |-> Append(b.text, m), len |-> b.len + m.size]

-----------------------------------------------------------------------------
Init == /\ current = Empty
        /\ next = Empty
        /\ full = <<>> /\ nfull = 0
        /\ tmp = Empty
        /\ toWrite = <<>>
        /\ wpc = "test"
        /\ stopped = FALSE
        /\ spc = [s \in Stoppers |-> "idle"]
        /\ file = <<>>
        /\ sent = [t \in Loggers |-> 0]
        /\ logged = <<>> /\ dropped = {}

(* log()                                                                   *)

\* The message fits into the current buffer.
LogInto(t, m) == /\ Fits(current, m)
                 /\ current' = Write(current, m)
                 /\ logged' = Append(logged, m)
                 /\ UNCHANGED <<next, full, nfull, tmp, toWrite, dropped>>

\* It does not: the current buffer is full, the next one (or a new one) takes
\* its place and the message, if the message fits at all.
Fresh == IF next # Null THEN next ELSE Empty
LogRotating(t, m) == /\ ~Fits(current, m)
                     /\ full' = full \o current.text
                     /\ nfull' = nfull + 1
                     /\ next' = Null
                     /\ \/ /\ Fits(Fresh, m)
                           /\ current' = Write(Fresh, m)
                           /\ logged' = Append(logged, m)
                           /\ UNCHANGED dropped
                        \/ /\ ~Fits(Fresh, m)
                           /\ current' = Fresh
                           /\ dropped' = dropped \cup {m}
                           /\ UNCHANGED logged
                     /\ UNCHANGED <<tmp, toWrite>>

Log(t) == /\ sent[t] < MaxLogs
          /\ sent' = [sent EXCEPT ![t] = @ + 1]
          /\ \E size \in Sizes :
                LET m == [from |-> t, n |-> sent[t] + 1, size |-> size]
                IN  LogInto(t, m) \/ LogRotating(t, m)
          /\ UNCHANGED <<wpc, stopped, spc, file>>

(* The writer thread.                                                      *)

\* while (!_stop)
TestStop == /\ wpc = "test"
            /\ wpc' = IF stopped THEN "exit" ELSE "lock"
            /\ UNCHANGED <<buffers, stopped, spc, file, history>>

\* Nothing full: wait_for, which releases the mutex.
Wait == /\ wpc = "lock"
        /\ nfull = 0
        /\ wpc' = "wait"
        /\ UNCHANGED <<buffers, stopped, spc, file, history>>

\* The writer holds the mutex and decides what to write.
Deciding == \/ wpc = "lock" /\ nfull > 0
            \/ wpc = "wait"

\* Mutant: a timeout alone does not send the current buffer.
ExchangeOnStop == /\ Deciding
                  /\ stopped
                  /\ current.len > 0
                  /\ toWrite' = full \o current.text
                  /\ full' = <<>> /\ nfull' = 0
                  /\ current' = tmp
                  /\ tmp' = Null
                  /\ wpc' = "write"
                  /\ UNCHANGED <<next, stopped, spc, file, history>>

\* Mutant: the current buffer goes in front of the full ones.
ExchangeCurrentFirst == /\ Deciding
                        /\ nfull = 0 \/ stopped
                        /\ current.len > 0
                        /\ toWrite' = current.text \o full
                        /\ full' = <<>> /\ nfull' = 0
                        /\ current' = tmp
                        /\ tmp' = Null
                        /\ wpc' = "write"
                        /\ UNCHANGED <<next, stopped, spc, file, history>>

\* Timeout or stop: the current buffer goes too, whatever it holds.
ExchangeCurrent == /\ Deciding
                   /\ nfull = 0 \/ stopped
                   /\ current.len > 0
                   /\ toWrite' = full \o current.text
                   /\ full' = <<>> /\ nfull' = 0
                   /\ current' = tmp
                   /\ tmp' = Null
                   /\ wpc' = "write"
                   /\ UNCHANGED <<next, stopped, spc, file, history>>

\* Only the full buffers go; a missing next buffer is replaced.
ExchangeFull == /\ Deciding
                /\ nfull > 0
                /\ stopped => current.len = 0
                /\ toWrite' = full
                /\ full' = <<>> /\ nfull' = 0
                /\ IF ~stopped /\ next = Null
                   THEN next' = tmp /\ tmp' = Null
                   ELSE UNCHANGED <<next, tmp>>
                /\ wpc' = "write"
                /\ UNCHANGED <<current, stopped, spc, file, history>>

\* Nothing at all: continue.
ExchangeNothing == /\ Deciding
                   /\ nfull = 0
                   /\ current.len = 0
                   /\ wpc' = "test"
                   /\ UNCHANGED <<buffers, stopped, spc, file, history>>

\* Mutant: the spare buffer is not given back.
PersistKeepingNone == /\ wpc = "write"
                      /\ file' = file \o toWrite
                      /\ toWrite' = <<>>
                      /\ wpc' = "test"
                      /\ UNCHANGED <<current, next, full, nfull, tmp, stopped, spc, history>>

\* append() every buffer, keep one of them as the spare, clear it, flush().
Persist == /\ wpc = "write"
           /\ file' = file \o toWrite
           /\ toWrite' = <<>>
           /\ tmp' = Empty
           /\ wpc' = "test"
           /\ UNCHANGED <<current, next, full, nfull, stopped, spc, history>>

Writer == \/ TestStop \/ Wait \/ Persist
          \/ ExchangeCurrent \/ ExchangeFull \/ ExchangeNothing

(* stop(), which does not take the mutex.                                  *)

StopTest(s) == /\ spc[s] = "idle"
               /\ spc' = [spc EXCEPT ![s] = IF stopped THEN "done" ELSE "set"]
               /\ UNCHANGED <<buffers, wpc, stopped, file, history>>

StopSet(s) == /\ spc[s] = "set"
              /\ stopped' = TRUE
              /\ spc' = [spc EXCEPT ![s] = "join"]
              /\ UNCHANGED <<buffers, wpc, file, history>>

\* Two callers that both saw _stop unset would join one thread, which is
\* undefined: here the second goes on too.
StopJoin(s) == /\ spc[s] = "join"
               /\ wpc = "exit"
               /\ spc' = [spc EXCEPT ![s] = "done"]
               /\ UNCHANGED <<buffers, wpc, stopped, file, history>>

Stop(s) == StopTest(s) \/ StopSet(s) \/ StopJoin(s)

Next == \/ \E t \in Loggers : Log(t)
        \/ Writer
        \/ \E s \in Stoppers : Stop(s)

Spec == Init /\ [][Next]_vars

\* The writer thread is scheduled and its wait_for ends after kFlushInterval;
\* a stop() once begun goes on.
FairSpec == /\ Spec
            /\ WF_vars(Writer)
            /\ \A s \in Stoppers : WF_vars(StopSet(s) \/ StopJoin(s))

-----------------------------------------------------------------------------
(* Properties.                                                             *)

\* Type correctness.
TypeOK == /\ current \in FixedBuffers \cup {Null}
          /\ next \in FixedBuffers \cup {Null}
          /\ tmp \in FixedBuffers \cup {Null}
          /\ full \in Seq(Messages) /\ nfull \in Nat
          /\ toWrite \in Seq(Messages)
          /\ wpc \in {"test", "lock", "wait", "write", "exit"}
          /\ stopped \in BOOLEAN
          /\ spc \in [Stoppers -> {"idle", "set", "join", "done"}]
          /\ file \in Seq(Messages)
          /\ sent \in [Loggers -> 0 .. MaxLogs]
          /\ logged \in Seq(Messages)
          /\ dropped \in SUBSET Messages

\* log() and the writer dereference _current_buffer without a test
\* (async_log.cc:62, :102): it is there whenever the mutex is free, because
\* the writer never reaches an exchange without its spare buffer.
CurrentThere == current # Null /\ (wpc # "write" => tmp # Null)

\* "After this step both current and next are usable" (async_log.cc:59), as
\* far as it is so: until stop, the next buffer is missing only while a full
\* buffer waits for the writer, which then replaces it.
NextThere == next = Null => nfull > 0 \/ stopped

\* What the buffers took reaches the subclass in the order it was logged,
\* nothing twice and nothing skipped: the parts of the pipeline always add up.
InOrder == file \o toWrite \o full \o current.text = logged

\* A message is dropped only when no buffer could ever hold it
\* (async_log.cc:109 ignores the result): a spare buffer is always clean.
OnlyOversizedDropped == \A m \in dropped : m.size > Cap

LP == INSTANCE LogPipe WITH pipe <- toWrite \o full \o current.text,
                            refused <- dropped, ended <- wpc = "exit"

\* The exchange of buffers keeps the promise of LogPipe (async_log.cc:44-112):
\* each thread's messages are taken one by one, a message is refused for its
\* size alone, and a step of the writer moves the oldest messages to the
\* subclass, together and in order, or moves nothing that can be seen; it moves
\* nothing after its thread has ended.
ImplementsLogPipe == LP!Spec

\* The buffer's contents are persisted within a timeout, unless stop() comes.
Flushed == \A m \in Messages :
    m \in {logged[i] : i \in DOMAIN logged}
        ~> m \in {file[i] : i \in DOMAIN file} \/ stopped

\* stop() returns.
StopReturns == \A s \in Stoppers : spc[s] = "join" ~> spc[s] = "done"

\* notify_one may be lost and stop() does not take the mutex: neither keeps a
\* message or the caller of stop() waiting for ever.
NobodyWaits == Flushed /\ StopReturns
=============================================================================
