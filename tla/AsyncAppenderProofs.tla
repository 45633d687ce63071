------------------------ MODULE AsyncAppenderProofs ------------------------
(***************************************************************************)
(* Theorems about the asynchronous appender for all sets of threads, sizes *)
(* and bounds: its pointers are there when they are dereferenced, and what *)
(* it accepts passes through it in order.                                  *)
(***************************************************************************)
EXTENDS AsyncAppender, SequenceTheorems, TLAPS

\* The buffers other threads see are what the comment at async_log.cc:59 says,
\* and every spare buffer is a clean one.
Spares == next \in {Null, Empty} /\ tmp \in {Null, Empty}

IInv == TypeOK /\ Spares /\ CurrentThere /\ NextThere /\ OnlyOversizedDropped

LEMMA EmptyIsBuffer == Empty \in FixedBuffers /\ Empty # Null
<1>1. <<>> \in Seq(Messages) BY EmptySeq
<1>2. 0 \in 0 .. Cap BY CapAssumption
<1>3. Empty \in FixedBuffers BY <1>1, <1>2 DEF Empty, FixedBuffers
<1> QED BY <1>3, NullAssumption

LEMMA CurrentIsBuffer ==
  ASSUME IInv
  PROVE  /\ current \in FixedBuffers
         /\ current.text \in Seq(Messages) /\ current.len \in 0 .. Cap
  BY DEF IInv, TypeOK, CurrentThere, FixedBuffers

\* A write into a buffer with room gives a buffer.
LEMMA WriteType ==
  ASSUME NEW b \in FixedBuffers, NEW m \in Messages, Fits(b, m)
  PROVE  Write(b, m) \in FixedBuffers /\ Write(b, m) # Null
<1>1. m.size \in Nat BY CapAssumption DEF Messages
<1>2. b.len + m.size \in 0 .. Cap BY <1>1, CapAssumption DEF Fits, FixedBuffers
<1>3. Append(b.text, m) \in Seq(Messages) BY AppendProperties DEF FixedBuffers
<1>4. Write(b, m) \in FixedBuffers BY <1>2, <1>3 DEF Write, FixedBuffers
<1> QED BY <1>4, NullAssumption

LEMMA LogSteps ==
  ASSUME IInv, NEW t \in Loggers, Log(t)
  PROVE  IInv'
<1>1. sent[t] < MaxLogs /\ sent' = [sent EXCEPT ![t] = @ + 1] BY DEF Log
<1>2. PICK size \in Sizes :
        \/ LogInto(t, [from |-> t, n |-> sent[t] + 1, size |-> size])
        \/ LogRotating(t, [from |-> t, n |-> sent[t] + 1, size |-> size])
  BY DEF Log
<1> DEFINE m == [from |-> t, n |-> sent[t] + 1, size |-> size]
<1>3. UNCHANGED <<wpc, stopped, spc, file>> BY DEF Log
<1>4. m \in Messages /\ sent' \in [Loggers -> 0 .. MaxLogs]
  BY <1>1, CapAssumption DEF IInv, TypeOK, Messages
<1>5. m.size = size /\ size \in Nat /\ Cap \in Nat BY CapAssumption
<1> HIDE DEF m
<1>6. CASE LogInto(t, m)
  <2>1. current' \in FixedBuffers /\ current' # Null
    BY <1>4, <1>6, CurrentIsBuffer, WriteType DEF LogInto
  <2>2. logged' \in Seq(Messages)
    BY <1>4, <1>6, AppendProperties DEF LogInto, IInv, TypeOK
  <2>3. UNCHANGED <<next, full, nfull, tmp, toWrite, dropped>> BY <1>6 DEF LogInto
  <2> QED BY <1>3, <1>4, <2>1, <2>2, <2>3
          DEF IInv, TypeOK, Spares, CurrentThere, NextThere, OnlyOversizedDropped
<1>7. CASE LogRotating(t, m)
  <2>1. Fresh = Empty /\ Fresh \in FixedBuffers /\ Fresh # Null
    BY EmptyIsBuffer DEF Fresh, IInv, Spares
  <2>2. full' \in Seq(Messages)
    BY <1>7, CurrentIsBuffer, ConcatProperties DEF LogRotating, IInv, TypeOK
  <2>3. /\ nfull' \in Nat /\ nfull' > 0 /\ next' = Null
        /\ UNCHANGED <<tmp, toWrite>>
    BY <1>7 DEF LogRotating, IInv, TypeOK
  <2>4. CASE Fits(Fresh, m)
    <3>1. /\ current' = Write(Fresh, m) /\ logged' = Append(logged, m)
          /\ UNCHANGED dropped
      BY <1>7, <2>4 DEF LogRotating
    <3>2. current' \in FixedBuffers /\ current' # Null
      BY <1>4, <2>1, <2>4, <3>1, WriteType
    <3>3. logged' \in Seq(Messages) BY <1>4, <3>1, AppendProperties DEF IInv, TypeOK
    <3> QED BY <1>3, <1>4, <2>2, <2>3, <3>1, <3>2, <3>3
            DEF IInv, TypeOK, Spares, CurrentThere, NextThere, OnlyOversizedDropped
  <2>5. CASE ~Fits(Fresh, m)
    <3>1. /\ current' = Fresh /\ dropped' = dropped \cup {m} /\ UNCHANGED logged
      BY <1>7, <2>5 DEF LogRotating
    <3>2. m.size > Cap BY <1>5, <2>1, <2>5 DEF Fits, Empty, m
    <3> QED BY <1>3, <1>4, <2>1, <2>2, <2>3, <3>1, <3>2
            DEF IInv, TypeOK, Spares, CurrentThere, NextThere, OnlyOversizedDropped
  <2> QED BY <2>4, <2>5
<1> QED BY <1>2, <1>6, <1>7 DEF m

LEMMA WriterSteps ==
  ASSUME IInv, Writer
  PROVE  IInv'
<1> USE DEF IInv, TypeOK, Spares, CurrentThere, NextThere, OnlyOversizedDropped,
            buffers, history
<1>1. CASE TestStop BY <1>1 DEF TestStop
<1>2. CASE Wait BY <1>2 DEF Wait
<1>3. CASE Persist
  <2>1. file' \in Seq(Messages) BY <1>3, ConcatProperties DEF Persist
  <2>2. toWrite' \in Seq(Messages) BY <1>3, EmptySeq DEF Persist
  <2> QED BY <1>3, <2>1, <2>2, EmptyIsBuffer DEF Persist
<1>4. CASE ExchangeCurrent
  <2>1. toWrite' \in Seq(Messages)
    BY <1>4, CurrentIsBuffer, ConcatProperties DEF ExchangeCurrent
  <2>2. full' \in Seq(Messages) /\ nfull' = 0 BY <1>4, EmptySeq DEF ExchangeCurrent
  <2>3. next' = Null => stopped'
    BY <1>4 DEF ExchangeCurrent
  <2> QED BY <1>4, <2>1, <2>2, <2>3, EmptyIsBuffer DEF ExchangeCurrent, Deciding
<1>5. CASE ExchangeFull
  <2>1. full' \in Seq(Messages) /\ toWrite' \in Seq(Messages)
    BY <1>5, EmptySeq DEF ExchangeFull
  <2> QED BY <1>5, <2>1, EmptyIsBuffer DEF ExchangeFull, Deciding
<1>6. CASE ExchangeNothing BY <1>6 DEF ExchangeNothing, Deciding
<1> QED BY <1>1, <1>2, <1>3, <1>4, <1>5, <1>6 DEF Writer

LEMMA StopSteps ==
  ASSUME IInv, NEW s \in Stoppers, Stop(s)
  PROVE  IInv'
<1> USE DEF IInv, TypeOK, Spares, CurrentThere, NextThere, OnlyOversizedDropped,
            buffers, history
<1>1. CASE StopTest(s) BY <1>1 DEF StopTest
<1>2. CASE StopSet(s) BY <1>2 DEF StopSet
<1>3. CASE StopJoin(s) BY <1>3 DEF StopJoin
<1> QED BY <1>1, <1>2, <1>3 DEF Stop

LEMMA InitHolds == Init => IInv
<1> SUFFICES ASSUME Init PROVE IInv OBVIOUS
<1>1. sent \in [Loggers -> 0 .. MaxLogs] BY CapAssumption DEF Init
<1>2. spc \in [Stoppers -> {"idle", "set", "join", "done"}] BY DEF Init
<1>3. <<>> \in Seq(Messages) BY EmptySeq
<1> QED BY <1>1, <1>2, <1>3, EmptyIsBuffer
        DEF Init, IInv, TypeOK, Spares, CurrentThere, NextThere, OnlyOversizedDropped

LEMMA IInvKept == ASSUME IInv, [Next]_vars PROVE IInv'
<1>1. CASE UNCHANGED vars
  BY <1>1 DEF vars, buffers, history, IInv, TypeOK, Spares, CurrentThere, NextThere,
              OnlyOversizedDropped
<1> QED BY <1>1, LogSteps, WriterSteps, StopSteps DEF Next

LEMMA AlwaysIInv == Spec => []IInv
<1>1. IInv /\ [Next]_vars => IInv' BY IInvKept
<1> QED BY InitHolds, <1>1, PTL DEF Spec

\* log() and the writer thread never dereference an empty pointer, the next
\* buffer is missing only while the writer owes one, and no message is dropped
\* that a buffer could hold: for any number of threads and any sizes.
THEOREM Safety ==
  Spec => [](TypeOK /\ CurrentThere /\ NextThere /\ OnlyOversizedDropped)
<1>1. IInv => TypeOK /\ CurrentThere /\ NextThere /\ OnlyOversizedDropped BY DEF IInv
<1> QED BY <1>1, AlwaysIInv, PTL

\* Messages are never dropped for want of buffers, however many threads log while
\* the writer is slow: log() makes a buffer when there is none, and gives up only
\* what no buffer could hold (async_log.cc:97-118).
THEOREM DropsOnlyOversized == Spec => []OnlyOversizedDropped
<1>1. (TypeOK /\ CurrentThere /\ NextThere /\ OnlyOversizedDropped) => OnlyOversizedDropped
  OBVIOUS
<1> QED BY <1>1, Safety, PTL

-----------------------------------------------------------------------------
(* The pipeline.                                                           *)

Pipeline == file \o toWrite \o full \o current.text

LEMMA PipelineTypes ==
  ASSUME IInv
  PROVE  /\ file \in Seq(Messages) /\ toWrite \in Seq(Messages) /\ full \in Seq(Messages)
         /\ current.text \in Seq(Messages)
         /\ file \o toWrite \in Seq(Messages)
         /\ (file \o toWrite) \o full \in Seq(Messages)
         /\ Pipeline \in Seq(Messages)
         /\ <<>> \in Seq(Messages)
<1>1. /\ file \in Seq(Messages) /\ toWrite \in Seq(Messages) /\ full \in Seq(Messages)
      /\ current.text \in Seq(Messages)
  BY CurrentIsBuffer DEF IInv, TypeOK
<1>2. file \o toWrite \in Seq(Messages) BY <1>1, ConcatProperties
<1>3. (file \o toWrite) \o full \in Seq(Messages) BY <1>1, <1>2, ConcatProperties
<1>4. Pipeline \in Seq(Messages) BY <1>1, <1>3, ConcatProperties DEF Pipeline
<1> QED BY <1>1, <1>2, <1>3, <1>4, EmptySeq

\* Two neighbouring parts of the pipeline may be merged, and an empty one added.
LEMMA AppendAtEnd ==
  ASSUME NEW S, NEW s \in Seq(S), NEW u \in Seq(S), NEW e \in S
  PROVE  s \o Append(u, e) = Append(s \o u, e)
<1>1. <<e>> \in Seq(S) /\ s \o u \in Seq(S) BY ConcatProperties
<1> QED BY <1>1, AppendIsConcat, ConcatAssociative

\* Two borders of the pipeline are the same either way.
LEMMA Regroup ==
  ASSUME NEW p \in Seq(Messages), NEW q \in Seq(Messages), NEW r \in Seq(Messages)
  PROVE  (p \o q) \o r = p \o (q \o r)
<1> DEFINE S == Messages
<1>1. p \in Seq(S) /\ q \in Seq(S) /\ r \in Seq(S) OBVIOUS
<1> HIDE DEF S
<1> QED BY ONLY <1>1, ConcatAssociative

LEMMA LogPipeline ==
  ASSUME IInv, InOrder, NEW t \in Loggers, Log(t)
  PROVE  InOrder'
<1>1. PICK size \in Sizes :
        \/ LogInto(t, [from |-> t, n |-> sent[t] + 1, size |-> size])
        \/ LogRotating(t, [from |-> t, n |-> sent[t] + 1, size |-> size])
  BY DEF Log
<1> DEFINE m == [from |-> t, n |-> sent[t] + 1, size |-> size]
           rest == (file \o toWrite) \o full
<1>2. file' = file BY DEF Log
<1>3. m \in Messages
  BY CapAssumption DEF IInv, TypeOK, Messages, Log
<1>4. logged = rest \o current.text BY DEF InOrder
<1> HIDE DEF m
<1>5. CASE LogInto(t, m)
  <2>1. /\ current'.text = Append(current.text, m) /\ logged' = Append(logged, m)
        /\ UNCHANGED <<toWrite, full>>
    BY <1>5 DEF LogInto, Write
  <2>2. rest \o Append(current.text, m) = Append(rest \o current.text, m)
    <3> DEFINE c == current.text
    <3>1. c \in Seq(Messages) /\ rest \in Seq(Messages) BY PipelineTypes
    <3> HIDE DEF c, rest
    <3>2. rest \o Append(c, m) = Append(rest \o c, m) BY <1>3, <3>1, AppendAtEnd
    <3> QED BY <3>2 DEF c
  <2> QED BY <1>2, <1>4, <2>1, <2>2 DEF InOrder
<1>6. CASE LogRotating(t, m)
  <2>1. full' = full \o current.text /\ UNCHANGED toWrite BY <1>6 DEF LogRotating
  <2>2. (file \o toWrite) \o full' = logged
    <3> DEFINE c == current.text
    <3>1. c \in Seq(Messages) /\ full \in Seq(Messages) /\ file \o toWrite \in Seq(Messages)
      BY PipelineTypes
    <3> HIDE DEF c
    <3>2. PICK p \in Seq(Messages) : p = file \o toWrite BY <3>1
    <3>3. (p \o full) \o c = p \o (full \o c) BY ONLY <3>1, <3>2, Regroup
    <3> QED BY <1>4, <2>1, <3>2, <3>3 DEF c
  <2>3. Fresh = Empty BY DEF Fresh, IInv, Spares
  <2>4. logged \in Seq(Messages) BY <1>4, PipelineTypes DEF Pipeline
  <2>5. CASE Fits(Fresh, m)
    <3>1. current'.text = Append(<<>>, m) /\ logged' = Append(logged, m)
      BY <1>6, <2>3, <2>5 DEF LogRotating, Write, Empty
    <3>2. logged \o Append(<<>>, m) = Append(logged \o <<>>, m)
      BY <1>3, <2>4, PipelineTypes, AppendAtEnd
    <3>3. logged \o <<>> = logged BY <2>4, ConcatEmptySeq
    <3> QED BY <1>2, <2>1, <2>2, <3>1, <3>2, <3>3 DEF InOrder
  <2>6. CASE ~Fits(Fresh, m)
    <3>1. current'.text = <<>> /\ logged' = logged
      BY <1>6, <2>3, <2>6 DEF LogRotating, Empty
    <3>2. logged \o <<>> = logged BY <2>4, ConcatEmptySeq
    <3> QED BY <1>2, <2>1, <2>2, <3>1, <3>2 DEF InOrder
  <2> QED BY <2>5, <2>6
<1> QED BY <1>1, <1>5, <1>6 DEF m

\* Outside "write" the writer holds nothing.
NothingHeld == wpc # "write" => toWrite = <<>>

LEMMA WriterPipeline ==
  ASSUME IInv, NothingHeld, InOrder, Writer
  PROVE  InOrder'
<1>1. CASE TestStop \/ Wait \/ ExchangeNothing
  BY <1>1 DEF TestStop, Wait, ExchangeNothing, buffers, history, InOrder
<1>2. CASE Persist
  <2>1. /\ file' = file \o toWrite /\ toWrite' = <<>>
        /\ UNCHANGED <<full, current, logged>>
    BY <1>2 DEF Persist, history
  <2>2. (file \o toWrite) \o <<>> = file \o toWrite BY PipelineTypes, ConcatEmptySeq
  <2> QED BY <2>1, <2>2 DEF InOrder
<1>3. CASE ExchangeCurrent
  <2>1. /\ toWrite = <<>> /\ toWrite' = full \o current.text /\ full' = <<>>
        /\ current' = Empty /\ UNCHANGED <<file, logged>>
    BY <1>3 DEF ExchangeCurrent, Deciding, NothingHeld, history, IInv, CurrentThere, Spares
  <2>2. current'.text = <<>> BY <2>1 DEF Empty
  <2>3. logged = (file \o full) \o current.text
    BY <2>1, PipelineTypes, ConcatEmptySeq DEF InOrder
  <2>4. file \o toWrite' = logged
    <3> DEFINE c == current.text
    <3>1. c \in Seq(Messages) /\ full \in Seq(Messages) /\ file \in Seq(Messages)
      BY PipelineTypes
    <3> HIDE DEF c
    <3>2. (file \o full) \o c = file \o (full \o c) BY <3>1, Regroup
    <3> QED BY <2>1, <2>3, <3>2 DEF c
  <2>5. logged \in Seq(Messages) BY PipelineTypes DEF InOrder, Pipeline
  <2>6. logged \o <<>> = logged BY <2>5, ConcatEmptySeq
  <2> QED BY <2>1, <2>2, <2>4, <2>6 DEF InOrder
<1>4. CASE ExchangeFull
  <2>1. /\ toWrite = <<>> /\ toWrite' = full /\ full' = <<>>
        /\ UNCHANGED <<file, current, logged>>
    BY <1>4 DEF ExchangeFull, Deciding, NothingHeld, history
  <2>2. logged = (file \o full) \o current.text
    BY <2>1, PipelineTypes, ConcatEmptySeq DEF InOrder
  <2>3. file \o full \in Seq(Messages) BY PipelineTypes, ConcatProperties
  <2>4. (file \o full) \o <<>> = file \o full BY <2>3, ConcatEmptySeq
  <2> QED BY <2>1, <2>2, <2>4 DEF InOrder
<1> QED BY <1>1, <1>2, <1>3, <1>4 DEF Writer

LEMMA NothingHeldKept == ASSUME NothingHeld, [Next]_vars PROVE NothingHeld'
<1>1. CASE \E t \in Loggers : Log(t)
  BY <1>1 DEF NothingHeld, Log, LogInto, LogRotating
<1>2. CASE Writer
  BY <1>2 DEF NothingHeld, Writer, TestStop, Wait, Persist, ExchangeCurrent, ExchangeFull,
              ExchangeNothing, Deciding, buffers
<1>3. CASE \E s \in Stoppers : Stop(s)
  BY <1>3 DEF NothingHeld, Stop, StopTest, StopSet, StopJoin, buffers
<1>4. CASE UNCHANGED vars BY <1>4 DEF NothingHeld, vars, buffers
<1> QED BY <1>1, <1>2, <1>3, <1>4 DEF Next

LEMMA AlwaysNothingHeld == Spec => []NothingHeld
<1>1. Init => NothingHeld BY DEF Init, NothingHeld
<1>2. NothingHeld /\ [Next]_vars => NothingHeld' BY NothingHeldKept
<1> QED BY <1>1, <1>2, PTL DEF Spec

\* What the buffers accept reaches the subclass completely and in the order it
\* was logged, through every exchange, for any number of threads.
THEOREM PipelineTheorem == Spec => []InOrder
<1>1. Init => InOrder
  <2> SUFFICES ASSUME Init PROVE InOrder OBVIOUS
  <2>1. <<>> \o <<>> = <<>> BY EmptySeq, ConcatEmptySeq
  <2> QED BY <2>1 DEF Init, InOrder, Empty
<1>2. ASSUME IInv, NothingHeld, InOrder, [Next]_vars PROVE InOrder'
  <2>1. CASE \E s \in Stoppers : Stop(s)
    BY <1>2, <2>1 DEF InOrder, Stop, StopTest, StopSet, StopJoin, buffers, history
  <2>2. CASE UNCHANGED vars BY <1>2, <2>2 DEF InOrder, vars, buffers, history
  <2> QED BY <1>2, <2>1, <2>2, LogPipeline, WriterPipeline DEF Next
<1>3. IInv /\ NothingHeld /\ InOrder /\ [Next]_vars => InOrder' BY <1>2
<1> QED BY <1>1, <1>3, AlwaysIInv, AlwaysNothingHeld, PTL DEF Spec

-----------------------------------------------------------------------------
(* The appender implements LogPipe.                                        *)

\* What is in the pipe: the parts of the pipeline that are not written.
Pipe == toWrite \o full \o current.text

LEMMA PipeType == ASSUME IInv PROVE Pipe \in Seq(Messages)
<1> DEFINE c == current.text
<1>1. c \in Seq(Messages) /\ full \in Seq(Messages) /\ toWrite \in Seq(Messages)
  BY PipelineTypes
<1> HIDE DEF c
<1>2. toWrite \o full \in Seq(Messages) BY <1>1, ConcatProperties
<1>3. (toWrite \o full) \o c \in Seq(Messages) BY <1>1, <1>2, ConcatProperties
<1> QED BY <1>3 DEF Pipe, c

\* The two halves of a concatenation.
LEMMA Halves ==
  ASSUME NEW S, NEW p \in Seq(S), NEW q \in Seq(S)
  PROVE  /\ SubSeq(p \o q, 1, Len(p)) = p
         /\ SubSeq(p \o q, Len(p) + 1, Len(p \o q)) = q
<1>1. /\ p \o q \in Seq(S) /\ Len(p \o q) = Len(p) + Len(q)
      /\ Len(p) \in Nat /\ Len(q) \in Nat
      /\ \A i \in 1 .. Len(p) : (p \o q)[i] = p[i]
      /\ \A i \in 1 .. Len(q) : (p \o q)[Len(p) + i] = q[i]
  BY ConcatProperties, LenProperties
<1>2. PICK s \in Seq(S) : s = p \o q BY <1>1
<1>3. SubSeq(s, 1, Len(p)) = p BY <1>1, <1>2
<1>4. SubSeq(s, Len(p) + 1, Len(s)) = q BY <1>1, <1>2
<1> QED BY <1>2, <1>3, <1>4

\* log() puts its message at the end of the pipe, or refuses one that is too large.
LEMMA LogIsTaken ==
  ASSUME IInv, NEW t \in Loggers, Log(t)
  PROVE  LP!Next
<1>1. PICK size \in Sizes :
        \/ LogInto(t, [from |-> t, n |-> sent[t] + 1, size |-> size])
        \/ LogRotating(t, [from |-> t, n |-> sent[t] + 1, size |-> size])
  BY DEF Log
<1> DEFINE m == [from |-> t, n |-> sent[t] + 1, size |-> size]
<1>2. m \in Messages BY CapAssumption DEF IInv, TypeOK, Messages, Log
<1>3. LP!Comes(m) BY DEF Log, LP!Comes
<1>4. m.size \in Nat /\ Cap \in Nat BY <1>2, CapAssumption DEF Messages
<1>5. UNCHANGED <<wpc, file>> BY DEF Log
<1> HIDE DEF m
<1>6. CASE LogInto(t, m)
  <2>1. /\ current'.text = Append(current.text, m)
        /\ UNCHANGED <<toWrite, full, dropped>>
    BY <1>6 DEF LogInto, Write
  <2>2. Pipe' = Append(Pipe, m)
    <3> DEFINE c == current.text
    <3>1. c \in Seq(Messages) /\ toWrite \o full \in Seq(Messages)
      BY PipelineTypes, ConcatProperties
    <3> HIDE DEF c
    <3>2. (toWrite \o full) \o Append(c, m) = Append((toWrite \o full) \o c, m)
      BY <1>2, <3>1, AppendAtEnd
    <3> QED BY <2>1, <3>2 DEF Pipe, c
  <2>3. LP!Accept(m) BY <1>3, <1>5, <2>1, <2>2 DEF LP!Accept, Pipe
  <2> QED BY <1>2, <2>3 DEF LP!Next
<1>7. CASE LogRotating(t, m)
  <2>1. full' = full \o current.text /\ UNCHANGED toWrite BY <1>7 DEF LogRotating
  <2>2. toWrite \o full' = Pipe
    <3> DEFINE c == current.text
    <3>1. c \in Seq(Messages) /\ full \in Seq(Messages) /\ toWrite \in Seq(Messages)
      BY PipelineTypes
    <3> HIDE DEF c
    <3>2. (toWrite \o full) \o c = toWrite \o (full \o c) BY ONLY <3>1, Regroup
    <3> QED BY <2>1, <3>2 DEF Pipe, c
  <2>3. Fresh = Empty BY DEF Fresh, IInv, Spares
  <2>4. Pipe \in Seq(Messages) BY PipeType
  <2>5. CASE Fits(Fresh, m)
    <3>1. current'.text = Append(<<>>, m) /\ UNCHANGED dropped
      BY <1>7, <2>3, <2>5 DEF LogRotating, Write, Empty
    <3>2. Pipe \o Append(<<>>, m) = Append(Pipe \o <<>>, m)
      BY <1>2, <2>4, PipelineTypes, AppendAtEnd
    <3>3. Pipe \o <<>> = Pipe BY <2>4, ConcatEmptySeq
    <3>4. Pipe' = Append(Pipe, m) BY <2>1, <2>2, <3>1, <3>2, <3>3 DEF Pipe
    <3>5. LP!Accept(m) BY <1>3, <1>5, <3>1, <3>4 DEF LP!Accept, Pipe
    <3> QED BY <1>2, <3>5 DEF LP!Next
  <2>6. CASE ~Fits(Fresh, m)
    <3>1. current'.text = <<>> /\ dropped' = dropped \cup {m}
      BY <1>7, <2>3, <2>6 DEF LogRotating, Empty
    <3>2. Pipe \o <<>> = Pipe BY <2>4, ConcatEmptySeq
    <3>3. Pipe' = Pipe BY <2>1, <2>2, <3>1, <3>2 DEF Pipe
    <3>4. m.size > Cap BY <1>4, <2>3, <2>6 DEF Fits, Empty
    <3>5. LP!Refuse(m) BY <1>3, <1>5, <3>1, <3>3, <3>4 DEF LP!Refuse, Pipe
    <3> QED BY <1>2, <3>5 DEF LP!Next
  <2> QED BY <2>5, <2>6
<1> QED BY <1>1, <1>6, <1>7 DEF m

\* append() writes what the writer holds, which is the beginning of the pipe.
LEMMA PersistHandsOver ==
  ASSUME IInv, Persist
  PROVE  [LP!Next]_(LP!vars)
<1>1. /\ file' = file \o toWrite /\ toWrite' = <<>>
      /\ UNCHANGED <<full, current, sent, dropped>>
      /\ wpc = "write" /\ wpc' = "test"
  BY DEF Persist, history
<1> DEFINE c == current.text
<1>2. PICK p \in Seq(Messages) : p = full \o c
  BY PipelineTypes, ConcatProperties
<1>3. toWrite \in Seq(Messages) /\ full \in Seq(Messages) /\ c \in Seq(Messages)
  BY PipelineTypes
<1> HIDE DEF c
<1>4. (toWrite \o full) \o c = toWrite \o p BY ONLY <1>2, <1>3, Regroup
<1>5. Pipe = toWrite \o p BY <1>4 DEF Pipe, c
<1>6. <<>> \o full = full BY <1>3, ConcatEmptySeq
<1>7. Pipe' = p BY <1>1, <1>2, <1>6 DEF Pipe, c
<1>8. CASE toWrite = <<>>
  <2>1. file \in Seq(Messages) /\ file \o <<>> = file /\ <<>> \o p = p
    BY <1>2, PipelineTypes, ConcatEmptySeq
  <2>2. file' = file BY <1>1, <1>8, <2>1
  <2>3. Pipe' = Pipe BY <1>5, <1>7, <1>8, <2>1
  <2> QED BY <1>1, <2>2, <2>3 DEF LP!vars, Pipe
<1>9. CASE toWrite # <<>>
  <2>1. PICK n \in Nat : n = Len(toWrite) BY <1>3, LenProperties
  <2>2. /\ SubSeq(Pipe, 1, n) = toWrite
        /\ SubSeq(Pipe, n + 1, Len(Pipe)) = p
    <3>1. /\ SubSeq(toWrite \o p, 1, Len(toWrite)) = toWrite
          /\ SubSeq(toWrite \o p, Len(toWrite) + 1, Len(toWrite \o p)) = p
      BY ONLY <1>2, <1>3, Halves
    <3> QED BY ONLY <1>5, <2>1, <3>1
  <2>3. n \in 1 .. Len(Pipe)
    <3>1. n # 0 BY <1>3, <1>9, <2>1, EmptySeq
    <3>2. Len(Pipe) = n + Len(p) /\ Len(p) \in Nat
      BY <1>2, <1>3, <1>5, <2>1, ConcatProperties, LenProperties
    <3> QED BY <3>1, <3>2
  <2>4. LP!HandOver(n) BY <1>1, <1>7, <2>2 DEF LP!HandOver, Pipe
  <2> QED BY <2>3, <2>4 DEF LP!Next, Pipe
<1> QED BY <1>8, <1>9

\* The exchanges under the mutex move borders inside the pipe.
LEMMA ExchangeKeepsPipe ==
  ASSUME IInv, NothingHeld, ExchangeCurrent \/ ExchangeFull
  PROVE  Pipe' = Pipe
<1> DEFINE c == current.text
<1>1. c \in Seq(Messages) /\ full \in Seq(Messages) BY PipelineTypes
<1>2. toWrite = <<>>
  BY DEF ExchangeCurrent, ExchangeFull, Deciding, NothingHeld
<1>3. Pipe = full \o c BY <1>1, <1>2, ConcatEmptySeq DEF Pipe
<1>4. CASE ExchangeCurrent
  <2>1. /\ toWrite' = full \o c /\ full' = <<>> /\ current'.text = <<>>
    BY <1>4 DEF ExchangeCurrent, IInv, CurrentThere, Spares, Empty, Deciding
  <2> HIDE DEF c
  <2>2. PICK p \in Seq(Messages) : p = full \o c BY <1>1, ConcatProperties
  <2>3. (p \o <<>>) \o <<>> = p BY ConcatEmptySeq
  <2> QED BY <1>3, <2>1, <2>2, <2>3 DEF Pipe
<1>5. CASE ExchangeFull
  <2>1. toWrite' = full /\ full' = <<>> /\ current' = current BY <1>5 DEF ExchangeFull
  <2>2. full \o <<>> = full BY <1>1, ConcatEmptySeq
  <2> QED BY <1>3, <2>1, <2>2 DEF Pipe
<1> QED BY <1>4, <1>5

LEMMA PipeStep ==
  ASSUME IInv, NothingHeld, [Next]_vars
  PROVE  [LP!Next]_(LP!vars)
<1>1. CASE ExchangeCurrent \/ ExchangeFull
  <2>1. Pipe' = Pipe BY <1>1, ExchangeKeepsPipe
  <2>2. /\ UNCHANGED <<sent, file, dropped>>
        /\ wpc # "exit" /\ wpc' # "exit"
    BY <1>1 DEF ExchangeCurrent, ExchangeFull, Deciding, history
  <2> QED BY <2>1, <2>2 DEF LP!vars, Pipe
<1>2. CASE TestStop
  <2>1. UNCHANGED <<sent, file, dropped, toWrite, full, current>> /\ wpc # "exit"
    BY <1>2 DEF TestStop, buffers, history
  <2>2. CASE stopped
    <3>1. LP!End BY <1>2, <2>1, <2>2 DEF LP!End, TestStop
    <3> QED BY <3>1 DEF LP!Next
  <2>3. CASE ~stopped BY <1>2, <2>1, <2>3 DEF LP!vars, TestStop
  <2> QED BY <2>2, <2>3
<1>3. CASE \/ Wait \/ ExchangeNothing
           \/ \E s \in Stoppers : Stop(s)
           \/ UNCHANGED vars
  <2>1. /\ UNCHANGED <<sent, file, dropped, toWrite, full, current>>
        /\ (wpc = "exit") = (wpc' = "exit")
    BY <1>3 DEF Wait, ExchangeNothing, Deciding, Stop, StopTest, StopSet, StopJoin, vars,
                buffers, history
  <2> QED BY <2>1 DEF LP!vars
<1> QED BY <1>1, <1>2, <1>3, LogIsTaken, PersistHandsOver DEF Next, Writer

\* The appender implements LogPipe: whatever threads log while buffers are
\* rotated, exchanged and written, from outside it is one pipe that takes a
\* message at one end and gives its oldest ones to the subclass at the other
\* (async_log.cc:44-112).
THEOREM AppenderIsPipe == Spec => ImplementsLogPipe
<1>1. Init => LP!Init
  <2>1. <<>> \o <<>> = <<>> BY EmptySeq, ConcatEmptySeq
  <2> QED BY <2>1 DEF Init, LP!Init, Empty
<1>2. IInv /\ NothingHeld /\ [Next]_vars => [LP!Next]_(LP!vars) BY PipeStep
<1> QED BY <1>1, <1>2, AlwaysIInv, AlwaysNothingHeld, PTL
        DEF Spec, ImplementsLogPipe, LP!Spec
=============================================================================
