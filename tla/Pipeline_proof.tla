---------------------------- MODULE Pipeline_proof ----------------------------
(***************************************************************************)
(* Proofs about Pipeline.  First, that the serializer is the same with     *)
(* SimpleReceiver as with the abstract receiver of EventsReceiver, so that *)
(* what is proved of TraceSerialization holds in the pipeline as well.     *)
(*                                                                         *)
(* The pipeline has the serializer's operators three times: its own, those *)
(* of Serialization, which its property names, and those of Proved, of     *)
(* which the theorems are.  They are the same operators with the same      *)
(* variables, and the first lemmas say so.                                 *)
(***************************************************************************)
EXTENDS Pipeline, SequenceTheorems, FiniteSetTheorems, TLAPS

Proved == INSTANCE MergesTraces_proof WITH allocated <- HasAllocated

(***************************************************************************)
(* The same operators.                                                     *)
(***************************************************************************)

\* Events, stamps and items are.
LEMMA SameData ==
  /\ Serialization!NoEvent = NoEvent /\ Proved!NoEvent = NoEvent
  /\ Serialization!Events = Events /\ Proved!Events = Events
  /\ Serialization!Stamps = Stamps /\ Proved!Stamps = Stamps
  /\ Serialization!ZeroStamp = ZeroStamp /\ Proved!ZeroStamp = ZeroStamp
  /\ Serialization!Items = Items /\ Proved!Items = Items
BY DEF NoEvent, Serialization!NoEvent, Proved!NoEvent,
       Events, Serialization!Events, Proved!Events,
       Stamps, Serialization!Stamps, Proved!Stamps,
       ZeroStamp, Serialization!ZeroStamp, Proved!ZeroStamp,
       Items, Serialization!Items, Proved!Items

\* An event is found, and what is left after it, alike.
LEMMA SameDecoding ==
  \A items, old, t :
    /\ (Serialization!HasEvent(items) <=> HasEvent(items))
    /\ (Proved!HasEvent(items) <=> HasEvent(items))
    /\ Serialization!FirstEvent(items) = FirstEvent(items)
    /\ Proved!FirstEvent(items) = FirstEvent(items)
    /\ Serialization!NextEvent(items) = NextEvent(items)
    /\ Proved!NextEvent(items) = NextEvent(items)
    /\ Serialization!AfterEvent(items) = AfterEvent(items)
    /\ Proved!AfterEvent(items) = AfterEvent(items)
    /\ Serialization!StampsAfter(t, items) = StampsAfter(t, items)
    /\ Proved!StampsAfter(t, items) = StampsAfter(t, items)
<1> USE SameData
<1>1. \A items : /\ (Serialization!HasEvent(items) <=> HasEvent(items))
                 /\ (Proved!HasEvent(items) <=> HasEvent(items))
  BY DEF HasEvent, Serialization!HasEvent, Proved!HasEvent
<1>2. \A items : /\ Serialization!FirstEvent(items) = FirstEvent(items)
                 /\ Proved!FirstEvent(items) = FirstEvent(items)
  BY DEF FirstEvent, Serialization!FirstEvent, Proved!FirstEvent
<1>3. \A items : /\ Serialization!NextEvent(items) = NextEvent(items)
                 /\ Proved!NextEvent(items) = NextEvent(items)
  BY <1>1, <1>2 DEF NextEvent, Serialization!NextEvent, Proved!NextEvent
<1>4. \A items : /\ Serialization!AfterEvent(items) = AfterEvent(items)
                 /\ Proved!AfterEvent(items) = AfterEvent(items)
  BY <1>1, <1>2 DEF AfterEvent, Serialization!AfterEvent, Proved!AfterEvent
<1>5. \A items, old : /\ Serialization!StampBefore(items, old) = StampBefore(items, old)
                      /\ Proved!StampBefore(items, old) = StampBefore(items, old)
  BY <1>1, <1>2 DEF StampBefore, Serialization!StampBefore, Proved!StampBefore
<1>6. \A items, t : /\ Serialization!StampsAfter(t, items) = StampsAfter(t, items)
                    /\ Proved!StampsAfter(t, items) = StampsAfter(t, items)
  BY <1>5 DEF StampsAfter, Serialization!StampsAfter, Proved!StampsAfter
<1> QED BY <1>1, <1>2, <1>3, <1>4, <1>6

\* The heap and the map of waiting threads are handled alike.
LEMMA SameQueues ==
  \A f, t, ts, x, y :
    /\ (Serialization!IsTop(t) <=> IsTop(t)) /\ (Proved!IsTop(t) <=> IsTop(t))
    /\ Serialization!With(f, x, y) = With(f, x, y)
    /\ Proved!With(f, x, y) = With(f, x, y)
    /\ Serialization!Without(f, x) = Without(f, x)
    /\ Proved!Without(f, x) = Without(f, x)
    /\ Serialization!Requeue(t, ts) = Requeue(t, ts)
    /\ Proved!Requeue(t, ts) = Requeue(t, ts)
    /\ Serialization!Waiter(x) = Waiter(x) /\ Proved!Waiter(x) = Waiter(x)
    /\ Serialization!WakeInto(f, x, y) = WakeInto(f, x, y)
    /\ Proved!WakeInto(f, x, y) = WakeInto(f, x, y)
<1>1. \A f, x, y : /\ Serialization!With(f, x, y) = With(f, x, y)
                    /\ Proved!With(f, x, y) = With(f, x, y)
  BY DEF With, Serialization!With, Proved!With
<1>2. \A f, x : /\ Serialization!Without(f, x) = Without(f, x)
                 /\ Proved!Without(f, x) = Without(f, x)
  BY DEF Without, Serialization!Without, Proved!Without, Restrict,
         Serialization!Restrict, Proved!Restrict
<1>3. \A t, ts : /\ Serialization!Requeue(t, ts) = Requeue(t, ts)
                  /\ Proved!Requeue(t, ts) = Requeue(t, ts)
  BY <1>1, <1>2, SameDecoding DEF Requeue, Serialization!Requeue, Proved!Requeue
<1>4. \A x : Serialization!Waiter(x) = Waiter(x) /\ Proved!Waiter(x) = Waiter(x)
  BY DEF Waiter, Serialization!Waiter, Proved!Waiter
<1>5. \A f, x, y : /\ Serialization!WakeInto(f, x, y) = WakeInto(f, x, y)
                    /\ Proved!WakeInto(f, x, y) = WakeInto(f, x, y)
  BY <1>4 DEF WakeInto, Serialization!WakeInto, Proved!WakeInto
<1>6. \A t : (Serialization!IsTop(t) <=> IsTop(t)) /\ (Proved!IsTop(t) <=> IsTop(t))
  BY DEF IsTop, Serialization!IsTop, Proved!IsTop
<1> QED BY <1>1, <1>2, <1>3, <1>4, <1>5, <1>6

\* The calls are the same.
LEMMA SameCalls ==
  /\ \A t : /\ Serialization!ProcessCalls(t) = ProcessCalls(t)
             /\ Proved!ProcessCalls(t) = ProcessCalls(t)
             /\ Serialization!ReapCalls(t) = ReapCalls(t)
             /\ Proved!ReapCalls(t) = ReapCalls(t)
  /\ Serialization!BarrierCalls = BarrierCalls
  /\ Proved!BarrierCalls = BarrierCalls
<1>1. Serialization!NoCalls = NoCalls /\ Proved!NoCalls = NoCalls
  BY SameData DEF NoCalls, Serialization!NoCalls, Proved!NoCalls
<1> QED
  BY <1>1, SameDecoding
  DEF ProcessCalls, Serialization!ProcessCalls,
      Proved!ProcessCalls, ReapCalls, Serialization!ReapCalls,
      Proved!ReapCalls, BarrierCalls, Serialization!BarrierCalls,
      Proved!BarrierCalls

\* The receiver's part of a step.
LEMMA SameReceiver ==
  \A calls :
    /\ Serialization!Hear(calls) <=> Proved!Hear(calls)
    /\ Serialization!Receive(calls) <=> Proved!Receive(calls)
BY SameData DEF Serialization!Hear, Proved!Hear, Serialization!Receive, Proved!Receive

\* The program's steps.
LEMMA SameProgram ==
  \A t, e :
    /\ (Record(t, e) <=> Serialization!Record(t, e))
    /\ (Record(t, e) <=> Proved!Record(t, e))
    /\ (RecordTok(t, e) <=> Serialization!RecordTok(t, e))
    /\ (RecordTok(t, e) <=> Proved!RecordTok(t, e))
    /\ (Flush(t) <=> Serialization!Flush(t)) /\ (Flush(t) <=> Proved!Flush(t))
    /\ Serialization!BufOf(t, e) = BufOf(t, e) /\ Proved!BufOf(t, e) = BufOf(t, e)
    /\ (Exit(t) <=> Serialization!Exit(t)) /\ (Exit(t) <=> Proved!Exit(t))
BY DEF Running, Serialization!Running, Proved!Running, Record,
       Serialization!Record, Proved!Record, RecordTok,
       Serialization!RecordTok, Proved!RecordTok, Flush, Serialization!Flush,
       Proved!Flush, BufOf, Serialization!BufOf, Proved!BufOf, Exit,
       Serialization!Exit, Proved!Exit

\* The serializer's steps that read the trace.
LEMMA SameReading ==
  \A t, items :
    /\ (ReadBuf(t, items) <=> Serialization!ReadBuf(t, items))
    /\ (ReadBuf(t, items) <=> Proved!ReadBuf(t, items))
    /\ (ReadDeath(t) <=> Serialization!ReadDeath(t))
    /\ (ReadDeath(t) <=> Proved!ReadDeath(t))
    /\ (ReadBarrier(items) <=> Serialization!ReadBarrier(items))
    /\ (ReadBarrier(items) <=> Proved!ReadBarrier(items))
<1> USE DEF thread_vars, Serialization!thread_vars, Proved!thread_vars,
            Asserting, Serialization!Asserting, Proved!Asserting
<1>1. \A t, items : /\ (AppendBuf(t, items) <=> Serialization!AppendBuf(t, items))
                     /\ (AppendBuf(t, items) <=> Proved!AppendBuf(t, items))
  BY DEF AppendBuf, Serialization!AppendBuf, Proved!AppendBuf
<1>2. \A t, items : /\ (StartBuf(t, items) <=> Serialization!StartBuf(t, items))
                     /\ (StartBuf(t, items) <=> Proved!StartBuf(t, items))
  BY SameDecoding, SameQueues
  DEF StartBuf, Serialization!StartBuf,
      Proved!StartBuf, UpdateLastEvent, Serialization!UpdateLastEvent,
      Proved!UpdateLastEvent
<1>3. \A t : (ReadDeath(t) <=> Serialization!ReadDeath(t))
             /\ (ReadDeath(t) <=> Proved!ReadDeath(t))
  BY DEF ReadDeath, Serialization!ReadDeath, Proved!ReadDeath
<1>4. \A b : (ReadBarrier(b) <=> Serialization!ReadBarrier(b))
             /\ (ReadBarrier(b) <=> Proved!ReadBarrier(b))
  BY DEF ReadBarrier, Serialization!ReadBarrier, Proved!ReadBarrier
<1> QED BY <1>1, <1>2, <1>3, <1>4 DEF ReadBuf, Serialization!ReadBuf, Proved!ReadBuf

\* The serializer's other steps.
LEMMA SameSerializing ==
  \A t :
    /\ (Process(t, HasAllocated) <=> Serialization!Process(t, HasAllocated))
    /\ (Process(t, HasAllocated) <=> Proved!Process(t, HasAllocated))
    /\ (Wait(t, HasAllocated) <=> Serialization!Wait(t, HasAllocated))
    /\ (Wait(t, HasAllocated) <=> Proved!Wait(t, HasAllocated))
    /\ (EndDrain <=> Serialization!EndDrain) /\ (EndDrain <=> Proved!EndDrain)
    /\ (Defer(t) <=> Serialization!Defer(t)) /\ (Defer(t) <=> Proved!Defer(t))
    /\ (Reap(t) <=> Serialization!Reap(t)) /\ (Reap(t) <=> Proved!Reap(t))
    /\ (EndReap <=> Serialization!EndReap) /\ (EndReap <=> Proved!EndReap)
<1> USE DEF thread_vars, Serialization!thread_vars, Proved!thread_vars,
            Asserting, Serialization!Asserting, Proved!Asserting,
            Ready, Serialization!Ready, Proved!Ready,
            NewTok, Serialization!NewTok, Proved!NewTok
<1>1. \A t : /\ (Process(t, HasAllocated) <=> Serialization!Process(t, HasAllocated))
              /\ (Process(t, HasAllocated) <=> Proved!Process(t, HasAllocated))
  <2>1. \A t, items :
          /\ (UpdateLastEvent(t, items) <=> Serialization!UpdateLastEvent(t, items))
          /\ (UpdateLastEvent(t, items) <=> Proved!UpdateLastEvent(t, items))
    BY SameDecoding DEF UpdateLastEvent, Serialization!UpdateLastEvent,
                        Proved!UpdateLastEvent
  <2>2. \A t, a : /\ NewTok(t, a) = Serialization!NewTok(t, a)
                   /\ NewTok(t, a) = Proved!NewTok(t, a)
                   /\ (Ready(t, a) <=> Serialization!Ready(t, a))
                   /\ (Ready(t, a) <=> Proved!Ready(t, a))
    OBVIOUS
  <2>3. \A b, x : /\ Asserting(b, x) = Serialization!Asserting(b, x)
                   /\ Asserting(b, x) = Proved!Asserting(b, x)
    OBVIOUS
  <2> HIDE DEF NewTok, Serialization!NewTok, Proved!NewTok,
               Ready, Serialization!Ready, Proved!Ready,
               Asserting, Serialization!Asserting, Proved!Asserting
  <2> QED BY <2>1, <2>2, <2>3, SameData, SameDecoding, SameQueues, SameCalls
          DEF Process, Serialization!Process, Proved!Process
<1>2. \A t : /\ (Wait(t, HasAllocated) <=> Serialization!Wait(t, HasAllocated))
              /\ (Wait(t, HasAllocated) <=> Proved!Wait(t, HasAllocated))
  BY SameQueues DEF Wait, Serialization!Wait, Proved!Wait
<1>3. \A t : /\ (Defer(t) <=> Serialization!Defer(t)) /\ (Defer(t) <=> Proved!Defer(t))
              /\ (Reap(t) <=> Serialization!Reap(t)) /\ (Reap(t) <=> Proved!Reap(t))
  BY DEF Defer, Serialization!Defer, Proved!Defer, Reap, Serialization!Reap,
         Proved!Reap, ReapAssertions, Serialization!ReapAssertions,
         Proved!ReapAssertions, RecvThreadAfterReap,
         Serialization!RecvThreadAfterReap, Proved!RecvThreadAfterReap
<1>4. /\ (EndDrain <=> Serialization!EndDrain) /\ (EndDrain <=> Proved!EndDrain)
      /\ (EndReap <=> Serialization!EndReap) /\ (EndReap <=> Proved!EndReap)
  BY DEF EndDrain, Serialization!EndDrain, Proved!EndDrain, EndReap,
         Serialization!EndReap, Proved!EndReap
<1> QED BY <1>1, <1>2, <1>3, <1>4

(***************************************************************************)
(* Steps.                                                                  *)
(***************************************************************************)

TokensOnly == HasAllocated \subseteq Tokens

\* With SimpleReceiver's map for its table of tokens, the calls have the effect
\* that the interface asks for.
LEMMA CallsAreReceived ==
  ASSUME NEW calls, TokensOnly, Calls(calls)
  PROVE  Serialization!Receive(calls) /\ Proved!Receive(calls)
<1>1. NoTok \notin HasAllocated
  BY TokensAssumption DEF TokensOnly
<1>2. HasAllocated' =
        (HasAllocated \ {calls.event.old}) \cup ({calls.event.new} \ {NoTok})
  <2>1. CASE ReceiveNone(calls)
    <3>1. calls.event.old = NoTok /\ calls.event.new = NoTok
      BY <2>1 DEF ReceiveNone, NoEvent
    <3>2. HasAllocated' = HasAllocated
      BY <2>1 DEF ReceiveNone, HasAllocated
    <3> HIDE DEF HasAllocated
    <3> QED BY <1>1, <3>1, <3>2
  <2>2. ASSUME NEW type, ReceiveMalloc(calls, type)
        PROVE  HasAllocated' =
          (HasAllocated \ {calls.event.old}) \cup ({calls.event.new} \ {NoTok})
    BY <1>1, <2>2 DEF ReceiveMalloc, HasAllocated
  <2>3. CASE ReceiveRealloc(calls)
    BY <2>3 DEF ReceiveRealloc, MapAfterRealloc, HasAllocated
  <2>4. CASE ReceiveFree(calls)
    BY <2>4 DEF ReceiveFree, Restrict, HasAllocated
  <2> QED BY <2>1, <2>2, <2>3, <2>4 DEF Calls, Receive
<1>3. Serialization!Hear(calls)
  BY DEF Calls
<1>4. Serialization!Receive(calls)
  BY <1>2, <1>3 DEF Serialization!Receive
<1> QED BY <1>4, SameReceiver

\* A step of the pipeline is one of the serializer with any receiver, or the
\* serializer takes none.
LEMMA StepSerializes ==
  ASSUME TokensOnly, [Next]_vars
  PROVE  /\ [Serialization!Next]_Serialization!vars
         /\ [Proved!Next]_Proved!vars
<1> USE DEF program_vars, serializer_vars, thread_vars,
            history_vars, postprocess_vars, HasAllocated
<1> DEFINE S == Serialization!Next
           P == Proved!Next
<1>1. CASE Reading
  <2>0. /\ UNCHANGED <<current, emitted, killed>>
        /\ HasAllocated' = HasAllocated
    BY <1>1 DEF Reading
  <2>1. ASSUME NEW t \in Threads, NEW e \in Events,
               Record(t, e), phase = "read", UNCHANGED serializer_vars
        PROVE  S /\ P
    <3>1. Serialization!ProgramRecord(t, e) /\ Proved!ProgramRecord(t, e)
      BY <2>0, <2>1, SameProgram
         DEF Serialization!ProgramRecord, Proved!ProgramRecord,
             Serialization!serializer_vars, Proved!serializer_vars,
             Serialization!thread_vars, Proved!thread_vars,
             Serialization!receiver_vars, Proved!receiver_vars
    <3>2. e \in Serialization!Events /\ e \in Proved!Events
      BY SameData
    <3> QED BY <3>1, <3>2 DEF Serialization!Next, Serialization!Program,
                              Proved!Next, Proved!Program
  <2>2. ASSUME NEW t \in Threads, NEW s \in Stamps,
               RecordTok(t, s), phase = "read", UNCHANGED serializer_vars
        PROVE  S /\ P
    <3>1. Serialization!ProgramRecordTok(t, s) /\ Proved!ProgramRecordTok(t, s)
      BY <2>0, <2>2, SameProgram
         DEF Serialization!ProgramRecordTok, Proved!ProgramRecordTok,
             Serialization!serializer_vars, Proved!serializer_vars,
             Serialization!thread_vars, Proved!thread_vars,
             Serialization!receiver_vars, Proved!receiver_vars
    <3>2. s \in Serialization!Stamps /\ s \in Proved!Stamps
      BY SameData
    <3> QED BY <3>1, <3>2 DEF Serialization!Next, Serialization!Program,
                              Proved!Next, Proved!Program
  <2>3. ASSUME NEW t \in Threads, NEW s \in Stamps,
               Flush(t), ReadBuf(t, BufOf(t, s))
        PROVE  S /\ P
    <3>1. Serialization!Buf(t, s) /\ Proved!Buf(t, s)
      BY <2>0, <2>3, SameProgram, SameReading
         DEF Serialization!Buf, Proved!Buf,
             Serialization!receiver_vars, Proved!receiver_vars
    <3>2. s \in Serialization!Stamps /\ s \in Proved!Stamps
      BY SameData
    <3> QED BY <3>1, <3>2 DEF Serialization!Next, Serialization!Program,
                              Proved!Next, Proved!Program
  <2>4. ASSUME NEW t \in Threads, Exit(t), ReadDeath(t)
        PROVE  S /\ P
    <3>1. Serialization!Death(t) /\ Proved!Death(t)
      BY <2>0, <2>4, SameProgram, SameReading
         DEF Serialization!Death, Proved!Death,
             Serialization!receiver_vars, Proved!receiver_vars
    <3> QED BY <3>1 DEF Serialization!Next, Serialization!Program,
                        Proved!Next, Proved!Program
  <2>5. ASSUME NEW is_end \in BOOLEAN, ReadBarrier(is_end), UNCHANGED program_vars
        PROVE  S /\ P
    <3>1. is_end = TRUE \/ is_end = FALSE
      OBVIOUS
    <3>2. \/ Serialization!End /\ Proved!End
          \/ Serialization!SyncBarrier /\ Proved!SyncBarrier
      BY <2>0, <2>5, <3>1, SameReading
         DEF Serialization!End, Proved!End,
             Serialization!SyncBarrier, Proved!SyncBarrier,
             Serialization!program_vars, Proved!program_vars,
             Serialization!receiver_vars, Proved!receiver_vars
    <3> QED BY <3>2 DEF Serialization!Next, Serialization!Program,
                        Proved!Next, Proved!Program
  <2> QED BY <1>1, <2>1, <2>2, <2>3, <2>4, <2>5 DEF Reading
<1>2. CASE Writing
  <2>0. UNCHANGED program_vars
    BY <1>2 DEF Writing
  <2>1. ASSUME NEW t \in Threads,
               Process(t, HasAllocated), Calls(ProcessCalls(t))
        PROVE  S /\ P
    <3>1. Serialization!Drain(t) /\ Proved!Drain(t)
      BY <2>0, <2>1, SameSerializing, SameCalls, CallsAreReceived
         DEF Serialization!Drain, Proved!Drain,
             Serialization!program_vars, Proved!program_vars
    <3> QED BY <3>1 DEF Serialization!Next, Serialization!Serialize,
                        Proved!Next, Proved!Serialize
  <2>2. ASSUME NEW t \in Threads, Defer(t) \/ Reap(t), Calls(ReapCalls(t))
        PROVE  S /\ P
    <3>1. Serialization!Bury(t) /\ Proved!Bury(t)
      BY <2>0, <2>2, SameSerializing, SameCalls, CallsAreReceived
         DEF Serialization!Bury, Proved!Bury,
             Serialization!program_vars, Proved!program_vars
    <3> QED BY <3>1 DEF Serialization!Next, Serialization!Serialize,
                        Proved!Next, Proved!Serialize
  <2>3. ASSUME EndReap, Calls(BarrierCalls)
        PROVE  S /\ P
    <3>1. Serialization!FinishReap /\ Proved!FinishReap
      BY <2>0, <2>3, SameSerializing, SameCalls, CallsAreReceived
         DEF Serialization!FinishReap, Proved!FinishReap,
             Serialization!program_vars, Proved!program_vars
    <3> QED BY <3>1 DEF Serialization!Next, Serialization!Serialize,
                        Proved!Next, Proved!Serialize
  <2> QED BY <1>2, <2>1, <2>2, <2>3 DEF Writing
<1>3. CASE Waiting
  <2>0. /\ UNCHANGED program_vars /\ UNCHANGED <<current, emitted, killed>>
        /\ HasAllocated' = HasAllocated
    BY <1>3 DEF Waiting
  <2>1. ASSUME NEW t \in Threads, Wait(t, HasAllocated)
        PROVE  S /\ P
    <3>1. Serialization!Drain(t) /\ Proved!Drain(t)
      BY <2>0, <2>1, SameSerializing
         DEF Serialization!Drain, Proved!Drain,
             Serialization!program_vars, Proved!program_vars,
             Serialization!receiver_vars, Proved!receiver_vars
    <3> QED BY <3>1 DEF Serialization!Next, Serialization!Serialize,
                        Proved!Next, Proved!Serialize
  <2>2. ASSUME EndDrain PROVE S /\ P
    <3>1. Serialization!FinishDrain /\ Proved!FinishDrain
      BY <2>0, <2>2, SameSerializing
         DEF Serialization!FinishDrain, Proved!FinishDrain,
             Serialization!program_vars, Proved!program_vars,
             Serialization!receiver_vars, Proved!receiver_vars
    <3> QED BY <3>1 DEF Serialization!Next, Serialization!Serialize,
                        Proved!Next, Proved!Serialize
  <2> QED BY <1>3, <2>1, <2>2 DEF Waiting
<1>4. ASSUME UNCHANGED <<program_vars, serializer_vars, history_vars, allocated_map>>
      PROVE  UNCHANGED Serialization!vars /\ UNCHANGED Proved!vars
  BY <1>4 DEF Serialization!vars, Proved!vars,
             Serialization!program_vars, Proved!program_vars,
             Serialization!serializer_vars, Proved!serializer_vars,
             Serialization!thread_vars, Proved!thread_vars,
             Serialization!receiver_vars, Proved!receiver_vars
<1>5. DumpAllDeallocations \/ Replaying \/ GivingUp \/ Finished \/ UNCHANGED vars
        => UNCHANGED <<program_vars, serializer_vars, history_vars, allocated_map>>
  BY DEF DumpAllDeallocations, DumpDeallocation, Replaying, GivingUp, Finished, vars
<1> QED BY <1>1, <1>2, <1>3, <1>4, <1>5 DEF Next

\* The start is the serializer's start.
LEMMA InitSerializes ==
  Init => Serialization!Init /\ Proved!Init /\ TokensOnly
<1> SUFFICES ASSUME Init PROVE Serialization!Init /\ Proved!Init /\ TokensOnly
  OBVIOUS
<1>1. HasAllocated = {}
  BY DEF Init, ReceiverInit, HasAllocated
<1>2. Serialization!ProgramInit /\ Proved!ProgramInit
  BY DEF Init, ProgramInit, Serialization!ProgramInit, Proved!ProgramInit
<1>3. Serialization!SerializerInit /\ Proved!SerializerInit
  BY SameData DEF Init, SerializerInit, Serialization!SerializerInit,
                  Proved!SerializerInit
<1>4. Serialization!ReceiverInit /\ Proved!ReceiverInit
  BY <1>1 DEF Init, Serialization!ReceiverInit, Proved!ReceiverInit,
              Serialization!NotCalled, Proved!NotCalled
<1> QED BY <1>1, <1>2, <1>3, <1>4 DEF Serialization!Init, Proved!Init, TokensOnly

\* What was proved of the serializer with any receiver has its invariant here.
LEMMA ProvedInit == Proved!Init => Proved!MergeInv
BY Proved!MergeInvInit, ThreadsAssumption, TokensAssumption, TimesAssumption,
   CpusAssumption, NDEBUGAssumption, MaxBufsAssumption

\* And a step keeps it.
LEMMA ProvedStep ==
  Proved!MergeInv /\ [Proved!Next]_Proved!vars => Proved!MergeInv'
BY Proved!MergeInvStep, ThreadsAssumption, TokensAssumption, TimesAssumption,
   CpusAssumption, NDEBUGAssumption, MaxBufsAssumption

\* Among it that only tokens are allocated.
LEMMA ProvedTokens == Proved!MergeInv => TokensOnly
BY DEF Proved!MergeInv, Proved!IInv, Proved!ProgramInv, Proved!TypeOK,
       Proved!ReceiverTypeOK, TokensOnly

\* The serializer's invariant holds in the pipeline.
LEMMA SerializerInvariance == Spec => []Proved!MergeInv
<1>1. Init => Proved!MergeInv
  BY InitSerializes, ProvedInit
<1>2. Proved!MergeInv /\ [Next]_vars => Proved!MergeInv'
  BY StepSerializes, ProvedStep, ProvedTokens
<1> QED BY <1>1, <1>2, PTL DEF Spec

\* SimpleReceiver is the receiver the serializer was written for: with it, too,
\* every behaviour is one of the serializer with its abstract receiver.
THEOREM ImplementsReceiver == Spec => SerializesTrace
<1>1. Init => Serialization!Init
  BY InitSerializes
<1>2. Proved!MergeInv /\ [Next]_vars => [Serialization!Next]_Serialization!vars
  BY StepSerializes, ProvedTokens
<1> QED BY <1>1, <1>2, SerializerInvariance, PTL
        DEF Spec, SerializesTrace, Serialization!Spec

-------------------------------------------------------------------------------
(***************************************************************************)
(* That what comes out of the pipe is what postprocess put in: replay's    *)
(* registers, its threads and its operations, proved against what the      *)
(* serializer has called.                                                  *)
(*                                                                         *)
(* Replay is behind by the instructions that are in the pipe.  The         *)
(* invariant says that executing them, one after the other, leads from     *)
(* the state replay is in to the one postprocess has in mind, and that     *)
(* each of them finds what it needs.  It speaks of the states in between   *)
(* as the members of a sequence that exists, so that a step of postprocess *)
(* adds one at its end, and a step of replay takes one from its front.     *)
(* From it follow what the registers hold, that replay's caches are those  *)
(* of its threads, and that replay performs a merge of the trace.          *)
(***************************************************************************)

(***************************************************************************)
(* The states of replay.                                                   *)
(***************************************************************************)

\* What of replay's state the pipe determines.
StateOf(regs, thread, performed, dead_threads, freed) ==
  [registers |-> regs, thread |-> thread, performed |-> performed,
   dead |-> dead_threads, freed |-> freed]

Now == StateOf(registers, current_thread_id, replayed, replay_killed, swept)

Stores(i) == i.type \in {"MALLOC", "MEMALIGN", "REALLOC"}
Clears(i) == i.type \in {"FREE", "FREE_SIZED", "REALLOC"}
Operates(i) == i.type \in {"MALLOC", "MEMALIGN", "REALLOC", "FREE_SIZED"}
Target(i) == IF i.type = "REALLOC" THEN i.new_reg ELSE i.reg

Operation(i, st) ==
  [old |-> IF i.type \in {"REALLOC", "FREE_SIZED"} THEN st.registers[i.reg] ELSE NoTok,
   new |-> IF Stores(i) THEN i.tok ELSE NoTok]

\* The state after an instruction that finds what it needs.
After(i, st) ==
  StateOf(
    [reg \in (DOMAIN st.registers \ IF Clears(i) THEN {i.reg} ELSE {})
               \cup (IF Stores(i) THEN {Target(i)} ELSE {}) |->
       IF Stores(i) /\ reg = Target(i) THEN i.tok ELSE st.registers[reg]],
    IF i.type = "SWITCH_THREAD" THEN i.thread
    ELSE IF i.type = "KILL_THREAD" THEN NoThread ELSE st.thread,
    IF Operates(i)
    THEN [st.performed EXCEPT ![st.thread] = Append(@, Operation(i, st))]
    ELSE st.performed,
    IF i.type = "KILL_THREAD" THEN Append(st.dead, st.thread) ELSE st.dead,
    IF i.type = "FREE" THEN st.freed \cup {st.registers[i.reg]} ELSE st.freed)

\* What the serializer has been told and has told.
Told == [recorded |-> recorded, emitted |-> emitted, killed |-> killed]

\* No register shares its pointer, with another or with what was freed.
Sound(told, st) ==
  /\ DOMAIN st.registers \subseteq Nat
  /\ st.registers \in [DOMAIN st.registers -> Tokens]
  /\ \A r, q \in DOMAIN st.registers : st.registers[r] = st.registers[q] => r = q
  /\ st.freed \subseteq Tokens
  /\ \A r \in DOMAIN st.registers : st.registers[r] \notin st.freed
  /\ st.thread \in Threads \cup {NoThread}
  /\ st.performed \in [Threads -> Seq(Events)]
  /\ st.dead \in Seq(Threads)
  /\ Range(st.dead) \subseteq Range(told.killed)

\* What instruction i needs of the state in which it is executed.
Fits(told, i, st) ==
  /\ i.type \in Types
  /\ Stores(i) =>
       /\ Target(i) \in Nat \ DOMAIN st.registers
       /\ i.tok \in Tokens \ st.freed
       /\ \A r \in DOMAIN st.registers : st.registers[r] # i.tok
  /\ Clears(i) => i.reg \in DOMAIN st.registers
  /\ Operates(i) =>
       /\ st.thread \in Threads /\ st.thread \notin Range(st.dead)
       /\ Len(st.performed[st.thread]) + 1 \in DOMAIN told.emitted[st.thread]
       /\ told.emitted[st.thread][Len(st.performed[st.thread]) + 1] = Operation(i, st)
  /\ i.type = "SWITCH_THREAD" => i.thread \in Threads \ Range(st.dead)
  /\ i.type = "KILL_THREAD" =>
       /\ st.thread \in Threads /\ st.thread \notin Range(st.dead)
       /\ st.thread \in Range(told.killed)
       /\ st.performed[st.thread] = told.recorded[st.thread]

\* The instructions of q lead from one state to another.
Runs(told, q, from, to) ==
  \E f : /\ f[0] = from /\ f[Len(q)] = to
         /\ \A n \in 0 .. Len(q) : Sound(told, f[n])
         /\ \A n \in 1 .. Len(q) :
              Fits(told, q[n], f[n - 1]) /\ f[n] = After(q[n], f[n - 1])

\* What postprocess has in mind: its map from the side of the registers, its
\* calls, and what it has freed itself at the end.
OneToOne(map, S) == \A x, y \in S : map[x] = map[y] => x = y
Image(map, S) == {map[x] : x \in S}
Inverted(map, S) == [reg \in Image(map, S) |-> CHOOSE x \in S : map[x] = reg]
Holding == Inverted(allocated_map, HasAllocated \ dumped)
End == StateOf(Holding, current, emitted, killed, dumped)

MapInv ==
  /\ allocated_map \in [HasAllocated -> Nat]
  /\ OneToOne(allocated_map, HasAllocated)
  /\ ids_space = Image(allocated_map, HasAllocated)
  /\ IsFiniteSet(ids_space)
  /\ dumped \subseteq HasAllocated
  /\ dumped # {} => phase = "done"

Piped == [type : Types, reg : Nat, new_reg : Nat,
          thread : Threads \cup {NoThread}, tok : Tokens \cup {NoTok}]

PipeInv ==
  /\ Proved!MergeInv
  /\ MapInv
  /\ instructions \in Seq(Piped)
  /\ Runs(Told, instructions, Now, End)

(***************************************************************************)
(* Runs.                                                                   *)
(***************************************************************************)

\* Without instructions nothing changes.
LEMMA RunsNone ==
  ASSUME NEW told, NEW st, Sound(told, st)
  PROVE  Runs(told, <<>>, st, st)
<1> DEFINE f == [n \in {0} |-> st]
<1>1. /\ f[0] = st /\ \A n \in 0 .. 0 : Sound(told, f[n])
      /\ \A n \in 1 .. 0 : Fits(told, <<>>[n], f[n - 1]) /\ f[n] = After(<<>>[n], f[n - 1])
  OBVIOUS
<1> HIDE DEF f
<1> QED BY <1>1 DEF Runs

LEMMA RunsEmpty ==
  ASSUME NEW told, NEW a, NEW b, Runs(told, <<>>, a, b)
  PROVE  a = b
BY DEF Runs

\* The first and the last state of a run are sound.
LEMMA RunsSound ==
  ASSUME NEW told, NEW q \in Seq(Piped), NEW a, NEW b, Runs(told, q, a, b)
  PROVE  Sound(told, a) /\ Sound(told, b)
<1>1. Len(q) \in Nat
  OBVIOUS
<1>2. 0 \in 0 .. Len(q) /\ Len(q) \in 0 .. Len(q)
  BY <1>1
<1> QED BY <1>2 DEF Runs

\* An instruction at the end adds a state at the end.
LEMMA RunsAppend ==
  ASSUME NEW told, NEW q \in Seq(Piped), NEW i \in Piped, NEW a, NEW b,
         Runs(told, q, a, b), Fits(told, i, b), Sound(told, After(i, b))
  PROVE  Append(q, i) \in Seq(Piped) /\ Runs(told, Append(q, i), a, After(i, b))
<1> DEFINE k == Len(q)
           p == Append(q, i)
           c == After(i, b)
<1>1. /\ k \in Nat /\ p \in Seq(Piped) /\ Len(p) = k + 1
      /\ \A n \in 1 .. k : p[n] = q[n]
      /\ p[k + 1] = i
  BY AppendProperties
<1>2. PICK f : /\ f[0] = a /\ f[k] = b
               /\ \A n \in 0 .. k : Sound(told, f[n])
               /\ \A n \in 1 .. k : Fits(told, q[n], f[n - 1]) /\ f[n] = After(q[n], f[n - 1])
  BY DEF Runs
<1> HIDE DEF k, p, c
<1> DEFINE g == [n \in 0 .. k + 1 |-> IF n = k + 1 THEN c ELSE f[n]]
<1>3. /\ \A n \in 0 .. k : g[n] = f[n]
      /\ g[k + 1] = c
      /\ 0 \in 0 .. k
  BY <1>1
<1> HIDE DEF g
<1>4. \A n \in 0 .. k + 1 : n \in 0 .. k \/ n = k + 1
  BY <1>1
<1>5. \A n \in 0 .. k + 1 : Sound(told, g[n])
  BY <1>2, <1>3, <1>4 DEF c
<1>6. ASSUME NEW n \in 1 .. k + 1
      PROVE  Fits(told, p[n], g[n - 1]) /\ g[n] = After(p[n], g[n - 1])
  <2>1. CASE n \in 1 .. k
    <3>1. n \in 0 .. k /\ n - 1 \in 0 .. k
      BY <1>1, <2>1
    <3> QED BY <1>1, <1>2, <1>3, <2>1, <3>1
  <2>2. CASE n = k + 1
    <3>1. n - 1 = k /\ k \in 0 .. k
      <4>1. k \in Nat
        BY <1>1, Zenon
      <4> QED BY <2>2, <4>1
    <3> QED BY <1>1, <1>2, <1>3, <2>2, <3>1 DEF c
  <2> QED BY <1>1, <2>1, <2>2
<1>7. g[0] = a /\ g[k + 1] = c
  BY <1>2, <1>3
<1>8. Runs(told, p, a, c)
  BY <1>1, <1>5, <1>6, <1>7 DEF Runs
<1> QED BY <1>1, <1>8 DEF p, c

\* The first instruction finds what it needs, and leads to where the others
\* start.
LEMMA RunsTail ==
  ASSUME NEW told, NEW q \in Seq(Piped), q # <<>>, NEW a, NEW b, Runs(told, q, a, b)
  PROVE  /\ Head(q) \in Piped /\ Tail(q) \in Seq(Piped)
         /\ Fits(told, Head(q), a)
         /\ Runs(told, Tail(q), After(Head(q), a), b)
<1> DEFINE k == Len(q)
           p == Tail(q)
<1>1. /\ k \in Nat \ {0} /\ Head(q) \in Piped /\ Head(q) = q[1]
      /\ p \in Seq(Piped) /\ Len(p) = k - 1
      /\ \A n \in 1 .. k - 1 : p[n] = q[n + 1]
  BY EmptySeq, HeadTailProperties
<1>2. PICK f : /\ f[0] = a /\ f[k] = b
               /\ \A n \in 0 .. k : Sound(told, f[n])
               /\ \A n \in 1 .. k : Fits(told, q[n], f[n - 1]) /\ f[n] = After(q[n], f[n - 1])
  BY DEF Runs
<1> HIDE DEF k, p
<1> DEFINE g == [n \in 0 .. k - 1 |-> f[n + 1]]
<1>3. \A n \in 0 .. k - 1 : g[n] = f[n + 1] /\ n + 1 \in 0 .. k
  BY <1>1
<1>4. 1 \in 1 .. k /\ 1 - 1 = 0 /\ 0 \in 0 .. k - 1 /\ 0 + 1 = 1
      /\ k - 1 \in 0 .. k - 1 /\ (k - 1) + 1 = k
  BY <1>1
<1> HIDE DEF g
<1>5. Fits(told, q[1], a) /\ f[1] = After(q[1], a)
  BY <1>2, <1>4
<1>6. g[0] = After(q[1], a) /\ g[k - 1] = b
  BY <1>2, <1>3, <1>4, <1>5
<1>7. \A n \in 0 .. k - 1 : Sound(told, g[n])
  BY <1>2, <1>3
<1>8. ASSUME NEW n \in 1 .. k - 1
      PROVE  Fits(told, p[n], g[n - 1]) /\ g[n] = After(p[n], g[n - 1])
  <2>1. /\ n + 1 \in 1 .. k /\ (n + 1) - 1 = n
        /\ n \in 0 .. k - 1 /\ n - 1 \in 0 .. k - 1 /\ (n - 1) + 1 = n
    BY <1>1
  <2>2. Fits(told, q[n + 1], f[n]) /\ f[n + 1] = After(q[n + 1], f[n])
    BY <1>2, <2>1
  <2> QED BY <1>1, <1>3, <2>1, <2>2
<1>9. Runs(told, p, After(q[1], a), b)
  BY <1>1, <1>6, <1>7, <1>8 DEF Runs
<1> QED BY <1>1, <1>5, <1>9 DEF p

\* What has been told grows: more comes out, more threads are killed, and what
\* a killed thread recorded stays.
Grows(told, more) ==
  /\ Range(told.killed) \subseteq Range(more.killed)
  /\ \A t \in Threads : \A n \in DOMAIN told.emitted[t] :
       n \in DOMAIN more.emitted[t] /\ more.emitted[t][n] = told.emitted[t][n]
  /\ \A t \in Range(told.killed) : more.recorded[t] = told.recorded[t]

\* That takes nothing away from what is in the pipe.
LEMMA RunsStay ==
  ASSUME NEW told, NEW more, Grows(told, more),
         NEW q, NEW a, NEW b, Runs(told, q, a, b)
  PROVE  Runs(more, q, a, b)
<1>1. \A st : Sound(told, st) => Sound(more, st)
  BY DEF Sound, Grows
<1>2. \A i, st : Fits(told, i, st) => Fits(more, i, st)
  BY DEF Fits, Grows
<1> QED BY <1>1, <1>2 DEF Runs

\* What a sequence holds after an Append.
LEMMA RangeAppended ==
  ASSUME NEW S, NEW s \in Seq(S), NEW e \in S
  PROVE  Range(Append(s, e)) = Range(s) \cup {e}
<1>1. Proved!Range(Append(s, e)) = Proved!Range(s) \cup {e}
  BY Proved!RangeOfAppend, ThreadsAssumption, TokensAssumption, TimesAssumption,
     CpusAssumption, NDEBUGAssumption, MaxBufsAssumption
<1> QED BY <1>1 DEF Range, Proved!Range

(***************************************************************************)
(* One instruction.                                                        *)
(***************************************************************************)

\* What is performed is an event.
LEMMA OperationType ==
  ASSUME NEW told, NEW st, NEW i, Sound(told, st), Fits(told, i, st), Operates(i)
  PROVE  Operation(i, st) \in Events
<1>1. i.type \in {"REALLOC", "FREE_SIZED"} => st.registers[i.reg] \in Tokens
  BY DEF Sound, Fits, Clears
<1>2. Stores(i) => i.tok \in Tokens
  BY DEF Fits
<1>3. Stores(i) \/ i.type \in {"REALLOC", "FREE_SIZED"}
  BY DEF Operates, Stores
<1> QED BY <1>1, <1>2, <1>3, TokensAssumption DEF Operation, Events, NoEvent

\* Nothing is shared after an instruction that was not before it.
LEMMA SoundAfter ==
  ASSUME NEW told, NEW st, NEW i, Sound(told, st), Fits(told, i, st)
  PROVE  Sound(told, After(i, st))
<1> DEFINE next == After(i, st)
           kept == DOMAIN st.registers \ IF Clears(i) THEN {i.reg} ELSE {}
           added == IF Stores(i) THEN {Target(i)} ELSE {}
<1>1. /\ DOMAIN next.registers = kept \cup added
      /\ \A r \in kept \cup added :
           next.registers[r] = IF Stores(i) /\ r = Target(i) THEN i.tok
                               ELSE st.registers[r]
      /\ next.registers = [r \in DOMAIN next.registers |-> next.registers[r]]
  BY DEF After, StateOf
<1>2. /\ next.thread = IF i.type = "SWITCH_THREAD" THEN i.thread
                       ELSE IF i.type = "KILL_THREAD" THEN NoThread ELSE st.thread
      /\ next.performed =
           IF Operates(i)
           THEN [st.performed EXCEPT ![st.thread] = Append(@, Operation(i, st))]
           ELSE st.performed
      /\ next.dead = IF i.type = "KILL_THREAD" THEN Append(st.dead, st.thread)
                     ELSE st.dead
      /\ next.freed = IF i.type = "FREE" THEN st.freed \cup {st.registers[i.reg]}
                      ELSE st.freed
  BY DEF After, StateOf
<1> HIDE DEF next
<1>3. /\ kept \subseteq DOMAIN st.registers
      /\ \A r \in added : Stores(i) /\ r = Target(i) /\ r \notin DOMAIN st.registers
      /\ kept \cup added \subseteq Nat
  BY DEF Sound, Fits
<1>4. /\ \A r \in kept : next.registers[r] = st.registers[r]
                         /\ next.registers[r] \in Tokens
      /\ \A r \in added : /\ next.registers[r] = i.tok /\ i.tok \in Tokens
                          /\ i.tok \notin st.freed
                          /\ \A q \in kept : st.registers[q] # i.tok
  <2>1. \A r \in kept : /\ next.registers[r] = st.registers[r]
                        /\ st.registers[r] \in Tokens
    BY <1>1, <1>3 DEF Sound
  <2>2. ASSUME Stores(i)
        PROVE  /\ i.tok \in Tokens /\ i.tok \notin st.freed
               /\ \A q \in DOMAIN st.registers : st.registers[q] # i.tok
    BY <2>2 DEF Fits
  <2>3. \A r \in added : next.registers[r] = i.tok
    BY <1>1, <1>3
  <2> HIDE DEF kept, added
  <2> QED BY <1>3, <2>1, <2>2, <2>3
<1>5. i.type = "FREE" => added = {} /\ i.reg \in DOMAIN st.registers \ kept
  BY DEF Fits, Stores, Clears
<1> HIDE DEF kept, added
<1>6. /\ next.registers \in [DOMAIN next.registers -> Tokens]
      /\ DOMAIN next.registers \subseteq Nat
  <2>1. \A r \in DOMAIN next.registers : next.registers[r] \in Tokens
    BY <1>1, <1>4
  <2> QED BY <1>1, <1>3, <2>1
<1>7. \A r, q \in DOMAIN next.registers : next.registers[r] = next.registers[q] => r = q
  BY <1>1, <1>3, <1>4 DEF Sound
<1>8. next.freed \subseteq Tokens
  BY <1>2, <1>5 DEF Sound
<1>9. \A r \in DOMAIN next.registers : next.registers[r] \notin next.freed
  <2>1. \A r \in DOMAIN next.registers : next.registers[r] \notin st.freed
    BY <1>1, <1>3, <1>4 DEF Sound
  <2>2. i.type = "FREE" =>
          \A r \in DOMAIN next.registers : next.registers[r] # st.registers[i.reg]
    BY <1>1, <1>3, <1>4, <1>5 DEF Sound
  <2> QED BY <1>2, <2>1, <2>2
<1>10. next.thread \in Threads \cup {NoThread}
  BY <1>2 DEF Sound, Fits
<1>11. next.performed \in [Threads -> Seq(Events)]
  <2>1. CASE Operates(i)
    <3>1. st.performed \in [Threads -> Seq(Events)] /\ st.thread \in Threads
      BY <2>1 DEF Sound, Fits
    <3>2. Operation(i, st) \in Events
      BY <2>1, OperationType
    <3>3. Append(st.performed[st.thread], Operation(i, st)) \in Seq(Events)
      BY <3>1, <3>2, AppendProperties
    <3> QED BY <1>2, <2>1, <3>1, <3>3
  <2>2. CASE ~Operates(i)
    BY <1>2, <2>2 DEF Sound
  <2> QED BY <2>1, <2>2
<1>12. next.dead \in Seq(Threads) /\ Range(next.dead) \subseteq Range(told.killed)
  <2>1. CASE i.type = "KILL_THREAD"
    <3>1. st.dead \in Seq(Threads) /\ st.thread \in Threads
          /\ Range(st.dead) \cup {st.thread} \subseteq Range(told.killed)
      BY <2>1 DEF Sound, Fits
    <3>2. next.dead = Append(st.dead, st.thread)
      BY <1>2, <2>1
    <3> QED BY <3>1, <3>2, AppendProperties, RangeAppended
  <2>2. CASE i.type # "KILL_THREAD"
    BY <1>2, <2>2 DEF Sound
  <2> QED BY <2>1, <2>2
<1>13. Sound(told, next)
  BY <1>6, <1>7, <1>8, <1>9, <1>10, <1>11, <1>12 DEF Sound
<1> QED BY <1>13 DEF next

(***************************************************************************)
(* Registers.                                                              *)
(***************************************************************************)

\* There is a register to take, and the least one is not in use.  There are no
\* more registers below it than are in use (IdSpace: allocate_id).
LEMMA LeastIsFree ==
  ASSUME IsFiniteSet(ids_space)
  PROVE  /\ Ids!LeastFree \in Nat \ ids_space
         /\ Ids!LeastFree <= Cardinality(ids_space)
<1> DEFINE n == Cardinality(ids_space)
           free == (0 .. n) \ ids_space
<1>1. n \in Nat
  BY FS_CardinalityType
<1>2. free # {}
  <2>1. SUFFICES ASSUME 0 .. n \subseteq ids_space PROVE FALSE
    OBVIOUS
  <2>2. Cardinality(0 .. n) <= n
    BY <2>1, FS_Subset
  <2>3. Cardinality(0 .. n) = n + 1
    BY <1>1, FS_Interval
  <2> QED BY <1>1, <2>2, <2>3
<1>3. free \in SUBSET Nat
  BY <1>1
<1>4. PICK id \in free : \A m \in free : id <= m
  BY <1>2, <1>3, Proved!LeastNumber, ThreadsAssumption, TokensAssumption,
     TimesAssumption, CpusAssumption, NDEBUGAssumption, MaxBufsAssumption
<1>5. \A lower \in 0 .. id - 1 : lower \in ids_space
  BY <1>1, <1>4
<1>6. /\ Ids!LeastFree \in 0 .. Cardinality(ids_space)
      /\ Ids!LeastFree \notin ids_space
  <2>1. /\ id \in 0 .. Cardinality(ids_space) /\ id \notin ids_space
        /\ \A lower \in 0 .. id - 1 : lower \in ids_space
    BY <1>4, <1>5
  <2>2. Ids!Cardinality(ids_space) = Cardinality(ids_space)
    BY Zenon DEF Cardinality, Ids!Cardinality
  <2> HIDE DEF n, free
  <2> QED BY <2>1, <2>2, Zenon DEF Ids!LeastFree
<1> QED BY <1>1, <1>6

\* It leads back, and no other function on its domain does.
LEMMA InvertedIs ==
  ASSUME NEW map, NEW S, OneToOne(map, S)
  PROVE  /\ DOMAIN Inverted(map, S) = Image(map, S)
         /\ \A x \in S : Inverted(map, S)[map[x]] = x
         /\ Inverted(map, S) = [reg \in Image(map, S) |-> Inverted(map, S)[reg]]
BY DEF Inverted, OneToOne, Image

LEMMA OnlyInverted ==
  ASSUME NEW map, NEW S, OneToOne(map, S),
         NEW f, f = [reg \in Image(map, S) |-> f[reg]], \A x \in S : f[map[x]] = x
  PROVE  f = Inverted(map, S)
<1> DEFINE g == Inverted(map, S)
<1>1. /\ g = [reg \in Image(map, S) |-> g[reg]]
      /\ \A x \in S : g[map[x]] = x
  BY InvertedIs
<1> HIDE DEF g
<1>2. \A reg \in Image(map, S) : f[reg] = g[reg]
  BY <1>1 DEF Image
<1>3. f = g
  BY <1>1, <1>2
<1> QED BY <1>3 DEF g

\* A map with one more, and the registers with one more.
Added(map, S, tok, new_reg) ==
  [x \in S \cup {tok} |-> IF x = tok THEN new_reg ELSE map[x]]

Gains(map, S, tok, new_reg) ==
  LET more == Added(map, S, tok, new_reg)
  IN /\ more \in [S \cup {tok} -> Nat]
     /\ OneToOne(more, S \cup {tok})
     /\ Image(more, S \cup {tok}) = Image(map, S) \cup {new_reg}
     /\ Inverted(more, S \cup {tok}) =
          Added(Inverted(map, S), Image(map, S), new_reg, tok)

LEMMA InvertedWith ==
  ASSUME NEW S, NEW map, map \in [S -> Nat], OneToOne(map, S),
         NEW tok, tok \notin S, NEW new_reg, new_reg \in Nat \ Image(map, S)
  PROVE  Gains(map, S, tok, new_reg)
<1> DEFINE more == Added(map, S, tok, new_reg)
           regs == Image(map, S)
<1>1. /\ more[tok] = new_reg
      /\ \A x \in S : more[x] = map[x] /\ map[x] \in regs /\ map[x] # new_reg
  BY DEF Added, Image
<1>2. more \in [S \cup {tok} -> Nat]
  BY DEF Added
<1> HIDE DEF more
<1>3. OneToOne(more, S \cup {tok})
  BY <1>1 DEF OneToOne
<1>4. Image(more, S \cup {tok}) = regs \cup {new_reg}
  BY <1>1 DEF Image
<1> DEFINE f == Added(Inverted(map, S), regs, new_reg, tok)
<1>5. \A x \in S : Inverted(map, S)[map[x]] = x
  BY InvertedIs
<1>6. \A x \in S \cup {tok} : f[more[x]] = x
  BY <1>1, <1>5 DEF Added
<1>7. f = [reg \in regs \cup {new_reg} |-> f[reg]]
  BY DEF Added
<1> HIDE DEF f, regs
<1>8. f = Inverted(more, S \cup {tok})
  BY <1>3, <1>4, <1>6, <1>7, OnlyInverted
<1> QED BY <1>2, <1>3, <1>4, <1>8 DEF Gains, f, more, regs

\* A map without one, and the registers without one.
Loses(map, S, tok, less) ==
  /\ OneToOne(less, S \ {tok})
  /\ Image(less, S \ {tok}) = Image(map, S) \ {map[tok]}
  /\ Inverted(less, S \ {tok}) =
       [reg \in Image(map, S) \ {map[tok]} |-> Inverted(map, S)[reg]]

LEMMA InvertedWithout ==
  ASSUME NEW map, NEW S, OneToOne(map, S), NEW tok, tok \in S,
         NEW less, \A x \in S \ {tok} : less[x] = map[x]
  PROVE  Loses(map, S, tok, less)
<1>1. OneToOne(less, S \ {tok})
  BY DEF OneToOne
<1>2. Image(less, S \ {tok}) = Image(map, S) \ {map[tok]}
  BY DEF OneToOne, Image
<1> DEFINE f == [reg \in Image(map, S) \ {map[tok]} |-> Inverted(map, S)[reg]]
<1>3. \A x \in S : Inverted(map, S)[map[x]] = x
  BY InvertedIs
<1>4. \A x \in S \ {tok} : f[less[x]] = x
  BY <1>3 DEF OneToOne, Image
<1>5. f = [reg \in Image(map, S) \ {map[tok]} |-> f[reg]]
  OBVIOUS
<1> HIDE DEF f
<1>6. f = Inverted(less, S \ {tok})
  BY <1>1, <1>2, <1>4, <1>5, OnlyInverted
<1> QED BY <1>1, <1>2, <1>6 DEF Loses, f

(***************************************************************************)
(* The instructions of a step.                                             *)
(***************************************************************************)

IsState(st) ==
  /\ st = StateOf(st.registers, st.thread, st.performed, st.dead, st.freed)
  /\ st.registers = [reg \in DOMAIN st.registers |-> st.registers[reg]]

\* Another instruction fits, and leads to where it leads.
LEMMA RunsThen ==
  ASSUME NEW told, NEW q \in Seq(Piped), NEW i \in Piped, NEW a, NEW b, NEW c,
         Runs(told, q, a, b), Fits(told, i, b), After(i, b) = c
  PROVE  Append(q, i) \in Seq(Piped) /\ Runs(told, Append(q, i), a, c)
<1>1. Sound(told, b)
  BY RunsSound
<1>2. Sound(told, After(i, b))
  BY <1>1, SoundAfter
<1> QED BY <1>2, RunsAppend

\* Instructions that are written in two parts.
LEMMA WrittenInParts ==
  ASSUME NEW q \in Seq(Piped), NEW a \in Seq(Piped), NEW b \in Seq(Piped)
  PROVE  (q \o a) \o b = q \o (a \o b)
BY ConcatAssociative

\* An Announced writes a switch, when the thread is another, and a time stamp.
LEMMA RunsAnnounced ==
  ASSUME NEW told, NEW q \in Seq(Piped), NEW a, NEW b, Runs(told, q, a, b),
         IsState(b), NEW calls,
         calls.switch => calls.thread \in Threads \ Range(b.dead)
  PROVE  /\ q \o Announced(calls) \in Seq(Piped)
         /\ Runs(told, q \o Announced(calls), a,
                 StateOf(b.registers, IF calls.switch THEN calls.thread ELSE b.thread,
                         b.performed, b.dead, b.freed))
<1> DEFINE switch == [Instruction("SWITCH_THREAD") EXCEPT !.thread = calls.thread]
           set_ts == Instruction("SET_TS_CPU")
           start == IF calls.switch THEN <<switch>> ELSE <<>>
           rest == IF calls.set_ts THEN <<set_ts>> ELSE <<>>
           c == StateOf(b.registers, IF calls.switch THEN calls.thread ELSE b.thread,
                        b.performed, b.dead, b.freed)
<1>1. calls.switch => switch \in Piped
  BY DEF Instruction, Piped, Types
<1>2. set_ts \in Piped
  BY TokensAssumption DEF Instruction, Piped, Types
<1>3. q \o start \in Seq(Piped) /\ Runs(told, q \o start, a, c)
  <2>1. CASE calls.switch
    <3>1. Fits(told, switch, b)
      BY <2>1 DEF Fits, Instruction, Types, Stores, Clears, Operates
    <3>2. After(switch, b) = c
      BY <2>1 DEF After, Instruction, Stores, Clears, Operates, StateOf, IsState
    <3>3. Append(q, switch) \in Seq(Piped) /\ Runs(told, Append(q, switch), a, c)
      BY <1>1, <2>1, <3>1, <3>2, RunsThen
    <3>4. q \o start = Append(q, switch)
      BY <1>1, <2>1
    <3> QED BY <3>3, <3>4
  <2>2. CASE ~calls.switch
    <3>1. q \o start = q
      BY <2>2
    <3>2. c = b
      BY <2>2 DEF StateOf, IsState
    <3> QED BY <3>1, <3>2
  <2> QED BY <2>1, <2>2
<1>4. Fits(told, set_ts, c) /\ After(set_ts, c) = c
  BY DEF Fits, After, Instruction, Types, Stores, Clears, Operates, StateOf, IsState
<1>5. Announced(calls) = start \o rest
  BY DEF Announced
<1>6. start \in Seq(Piped) /\ rest \in Seq(Piped)
  BY <1>1, <1>2
<1>7. q \o (start \o rest) = (q \o start) \o rest
  <2> HIDE DEF start, rest
  <2> QED BY <1>6, WrittenInParts
<1> HIDE DEF start, c
<1>8. (q \o start) \o rest \in Seq(Piped) /\ Runs(told, (q \o start) \o rest, a, c)
  <2>1. CASE calls.set_ts
    <3>1. /\ Append(q \o start, set_ts) \in Seq(Piped)
          /\ Runs(told, Append(q \o start, set_ts), a, c)
      BY <1>2, <1>3, <1>4, RunsThen
    <3>2. (q \o start) \o rest = Append(q \o start, set_ts)
      BY <1>2, <1>3, <2>1
    <3> QED BY <3>1, <3>2
  <2>2. CASE ~calls.set_ts
    <3>1. (q \o start) \o rest = q \o start
      BY <1>3, <2>2
    <3> QED BY <1>3, <3>1
  <2> QED BY <2>1, <2>2
<1> QED BY <1>5, <1>7, <1>8 DEF c

\* A kill is of the thread that is running, when all it recorded is performed.
LEMMA RunsKilled ==
  ASSUME NEW told, NEW q \in Seq(Piped), NEW a, NEW b, Runs(told, q, a, b),
         IsState(b), NEW calls,
         calls.kill =>
           /\ b.thread \in Threads /\ b.thread \notin Range(b.dead)
           /\ b.thread \in Range(told.killed)
           /\ b.performed[b.thread] = told.recorded[b.thread]
  PROVE  /\ q \o Killed(calls) \in Seq(Piped)
         /\ Runs(told, q \o Killed(calls), a,
                 StateOf(b.registers, IF calls.kill THEN NoThread ELSE b.thread,
                         b.performed,
                         IF calls.kill THEN Append(b.dead, b.thread) ELSE b.dead,
                         b.freed))
<1> DEFINE i == Instruction("KILL_THREAD")
           c == StateOf(b.registers, IF calls.kill THEN NoThread ELSE b.thread,
                        b.performed,
                        IF calls.kill THEN Append(b.dead, b.thread) ELSE b.dead,
                        b.freed)
<1>1. i \in Piped
  BY DEF Instruction, Piped, Types
<1>2. CASE calls.kill
  <2>1. Fits(told, i, b)
    BY <1>2 DEF Fits, Instruction, Types, Stores, Clears, Operates
  <2>2. After(i, b) = c
    BY <1>2 DEF After, Instruction, Stores, Clears, Operates, StateOf, IsState
  <2>3. q \o Killed(calls) = Append(q, i)
    BY <1>1, <1>2 DEF Killed
  <2> HIDE DEF c, i
  <2>4. Append(q, i) \in Seq(Piped) /\ Runs(told, Append(q, i), a, c)
    BY <1>1, <2>1, <2>2, RunsThen
  <2> QED BY <2>3, <2>4 DEF c
<1>3. CASE ~calls.kill
  <2>1. q \o Killed(calls) = q
    BY <1>3 DEF Killed
  <2>2. c = b
    BY <1>3 DEF StateOf, IsState
  <2> QED BY <2>1, <2>2
<1> QED BY <1>2, <1>3

(***************************************************************************)
(* The map of SimpleReceiver.                                              *)
(***************************************************************************)

\* The map while nothing is freed for the dump.
LEMMA MapIs ==
  ASSUME MapInv, dumped = {}
  PROVE  /\ allocated_map \in [HasAllocated -> Nat]
         /\ OneToOne(allocated_map, HasAllocated)
         /\ ids_space = Image(allocated_map, HasAllocated)
         /\ IsFiniteSet(ids_space)
         /\ Holding = Inverted(allocated_map, HasAllocated)
         /\ DOMAIN Holding = ids_space
         /\ \A tok \in HasAllocated : Holding[allocated_map[tok]] = tok
         /\ Ids!LeastFree \in Nat \ ids_space
<1>1. HasAllocated \ dumped = HasAllocated
  OBVIOUS
<1>2. Ids!LeastFree \in Nat \ ids_space
  BY LeastIsFree DEF MapInv
<1>3. Holding = Inverted(allocated_map, HasAllocated)
  BY <1>1 DEF Holding
<1> QED BY <1>2, <1>3, InvertedIs DEF MapInv

LEMMA MapNext ==
  ASSUME dumped = {}, dumped' = dumped
  PROVE  /\ Holding' = Inverted(allocated_map', HasAllocated')
         /\ MapInv' <=>
              /\ allocated_map' \in [HasAllocated' -> Nat]
              /\ OneToOne(allocated_map', HasAllocated')
              /\ ids_space' = Image(allocated_map', HasAllocated')
              /\ IsFiniteSet(ids_space')
<1>1. HasAllocated' \ dumped' = HasAllocated'
  OBVIOUS
<1> QED BY <1>1 DEF MapInv, Holding

\* An allocation takes a register that is free.
LEMMA MapMalloc ==
  ASSUME MapInv, dumped = {}, dumped' = dumped, NEW calls, NEW type,
         ReceiveMalloc(calls, type), calls.event.new \notin HasAllocated
  PROVE  /\ MapInv'
         /\ Holding' = Added(Holding, DOMAIN Holding, Ids!LeastFree, calls.event.new)
<1>1. PICK new_reg : new_reg = Ids!LeastFree
  OBVIOUS
<1>2. PICK tok : tok = calls.event.new
  OBVIOUS
<1>3. PICK S, map, regs :
        S = HasAllocated /\ map = allocated_map /\ regs = ids_space
  OBVIOUS
<1>4. /\ ids_space' = regs \cup {new_reg}
      /\ allocated_map' = Added(map, S, tok, new_reg)
      /\ HasAllocated' = S \cup {tok} /\ tok \notin S
  BY <1>1, <1>2, <1>3 DEF ReceiveMalloc, HasAllocated, Added
<1>5. /\ map \in [S -> Nat] /\ OneToOne(map, S) /\ regs = Image(map, S)
      /\ IsFiniteSet(regs) /\ new_reg \in Nat \ regs
      /\ Holding = Inverted(map, S) /\ DOMAIN Holding = regs
  BY <1>1, <1>3, MapIs
<1> DEFINE more == Added(map, S, tok, new_reg)
           T == S \cup {tok}
<1>6. /\ more \in [T -> Nat]
      /\ OneToOne(more, T)
      /\ Image(more, T) = regs \cup {new_reg}
      /\ Inverted(more, T) = Added(Inverted(map, S), regs, new_reg, tok)
  <2>1. map \in [S -> Nat] /\ OneToOne(map, S) /\ tok \notin S
        /\ new_reg \in Nat \ Image(map, S)
    BY <1>4, <1>5
  <2>2. Gains(map, S, tok, new_reg)
    BY <2>1, InvertedWith
  <2> QED BY <1>5, <2>2 DEF Gains
<1>7. IsFiniteSet(regs \cup {new_reg})
  BY <1>5, FS_AddElement
<1>8. allocated_map' = more /\ HasAllocated' = T
  BY <1>4
<1> HIDE DEF more, T
<1>9. MapInv'
  BY <1>4, <1>6, <1>7, <1>8, MapNext
<1>10. Holding' = Inverted(more, T)
  BY <1>8, MapNext
<1> QED BY <1>1, <1>2, <1>5, <1>6, <1>9, <1>10

\* A release gives back the register of its token.
LEMMA MapFree ==
  ASSUME MapInv, dumped = {}, dumped' = dumped, NEW calls,
         ReceiveFree(calls), calls.event.old \in HasAllocated
  PROVE  /\ MapInv'
         /\ Holding' = [reg \in DOMAIN Holding \ {allocated_map[calls.event.old]} |->
                          Holding[reg]]
<1>1. PICK S, map, regs :
        S = HasAllocated /\ map = allocated_map /\ regs = ids_space
  OBVIOUS
<1>2. PICK tok : tok = calls.event.old
  OBVIOUS
<1> DEFINE less == [x \in S \ {tok} |-> map[x]]
           T == S \ {tok}
<1>3. /\ ids_space' = regs \ {map[tok]}
      /\ allocated_map' = less /\ HasAllocated' = T /\ tok \in S
  BY <1>1, <1>2 DEF ReceiveFree, HasAllocated, Restrict
<1>4. /\ map \in [S -> Nat] /\ OneToOne(map, S) /\ regs = Image(map, S)
      /\ IsFiniteSet(regs)
      /\ Holding = Inverted(map, S) /\ DOMAIN Holding = regs
  BY <1>1, MapIs
<1>5. less \in [T -> Nat] /\ \A x \in S \ {tok} : less[x] = map[x]
  BY <1>4
<1> HIDE DEF less
<1>6. /\ OneToOne(less, T)
      /\ Image(less, T) = regs \ {map[tok]}
      /\ Inverted(less, T) = [reg \in regs \ {map[tok]} |-> Inverted(map, S)[reg]]
  <2>1. OneToOne(map, S) /\ tok \in S
    BY <1>3, <1>4
  <2>2. Loses(map, S, tok, less)
    BY <1>5, <2>1, InvertedWithout
  <2> QED BY <1>4, <2>2 DEF Loses
<1>7. IsFiniteSet(regs \ {map[tok]})
  BY <1>4, FS_RemoveElement
<1> HIDE DEF T
<1>8. MapInv'
  BY <1>3, <1>5, <1>6, <1>7, MapNext
<1>9. Holding' = Inverted(less, T)
  BY <1>3, MapNext
<1> QED BY <1>1, <1>2, <1>4, <1>6, <1>8, <1>9

\* A Realloc does both, and the register it takes is not the one it gives back.
LEMMA MapRealloc ==
  ASSUME MapInv, dumped = {}, dumped' = dumped, NEW calls, ReceiveRealloc(calls),
         calls.event.old \in HasAllocated, calls.event.new \notin HasAllocated
  PROVE  /\ MapInv'
         /\ Holding' = Added(Holding, DOMAIN Holding \ {allocated_map[calls.event.old]},
                             Ids!LeastFree, calls.event.new)
<1>1. PICK S, map, regs :
        S = HasAllocated /\ map = allocated_map /\ regs = ids_space
  OBVIOUS
<1>2. PICK old, tok : old = calls.event.old /\ tok = calls.event.new
  OBVIOUS
<1>3. PICK new_reg : new_reg = Ids!LeastFree
  OBVIOUS
<1> DEFINE less == [x \in S \ {old} |-> map[x]]
           R == S \ {old}
           more == Added(less, R, tok, new_reg)
           T == R \cup {tok}
<1>4. /\ ids_space' = (regs \cup {new_reg}) \ {map[old]}
      /\ allocated_map' = more /\ HasAllocated' = T
      /\ old \in S /\ tok \notin S
  BY <1>1, <1>2, <1>3
  DEF ReceiveRealloc, MapAfterRealloc, IdsAfterRealloc, HasAllocated, Added
<1>5. /\ map \in [S -> Nat] /\ OneToOne(map, S) /\ regs = Image(map, S)
      /\ IsFiniteSet(regs) /\ new_reg \in Nat \ regs
      /\ Holding = Inverted(map, S) /\ DOMAIN Holding = regs
  BY <1>1, <1>3, MapIs
<1>6. less \in [R -> Nat] /\ \A x \in S \ {old} : less[x] = map[x]
  BY <1>5
<1> HIDE DEF less
<1>7. /\ OneToOne(less, R)
      /\ Image(less, R) = regs \ {map[old]}
      /\ Inverted(less, R) = [reg \in regs \ {map[old]} |-> Inverted(map, S)[reg]]
  <2>1. OneToOne(map, S) /\ old \in S
    BY <1>4, <1>5
  <2>2. Loses(map, S, old, less)
    BY <1>6, <2>1, InvertedWithout
  <2> QED BY <1>5, <2>2 DEF Loses
<1>8. tok \notin R /\ new_reg \in Nat \ Image(less, R)
  BY <1>4, <1>5, <1>7
<1> HIDE DEF R
<1>9. /\ more \in [T -> Nat]
      /\ OneToOne(more, T)
      /\ Image(more, T) = (regs \ {map[old]}) \cup {new_reg}
      /\ Inverted(more, T) = Added(Inverted(less, R), regs \ {map[old]}, new_reg, tok)
  <2>1. Gains(less, R, tok, new_reg)
    BY <1>6, <1>7, <1>8, InvertedWith
  <2> QED BY <1>7, <2>1 DEF Gains
<1> HIDE DEF more, T
<1>10. map[old] \in regs /\ map[old] # new_reg
  BY <1>4, <1>5 DEF Image
<1>11. ids_space' = Image(more, T)
  BY <1>4, <1>9, <1>10
<1>12. IsFiniteSet((regs \ {map[old]}) \cup {new_reg})
  BY <1>5, FS_AddElement, FS_RemoveElement
<1>13. MapInv'
  BY <1>4, <1>9, <1>11, <1>12, MapNext
<1>14. Holding' = Inverted(more, T)
  BY <1>4, MapNext
<1>15. Added(Inverted(less, R), regs \ {map[old]}, new_reg, tok)
         = Added(Inverted(map, S), regs \ {map[old]}, new_reg, tok)
  BY <1>7 DEF Added
<1> QED BY <1>1, <1>2, <1>3, <1>5, <1>9, <1>13, <1>14, <1>15

\* What is freed for the dump is held no longer.
LEMMA MapDump ==
  ASSUME MapInv, phase = "done", phase' = phase, NEW tok, DumpDeallocation(tok)
  PROVE  /\ MapInv' /\ allocated_map[tok] \in DOMAIN Holding
         /\ Holding[allocated_map[tok]] = tok
         /\ Holding' = [reg \in DOMAIN Holding \ {allocated_map[tok]} |-> Holding[reg]]
<1>1. PICK S, map : S = HasAllocated \ dumped /\ map = allocated_map
  OBVIOUS
<1>2. /\ tok \in S /\ dumped' = dumped \cup {tok}
      /\ UNCHANGED <<allocated_map, ids_space>>
      /\ HasAllocated' = HasAllocated
  BY <1>1 DEF DumpDeallocation, HasAllocated
<1>3. OneToOne(map, S) /\ Holding = Inverted(map, S)
  BY <1>1 DEF MapInv, OneToOne, Holding
<1>4. Loses(map, S, tok, map)
  <2>1. \A x \in S \ {tok} : map[x] = map[x]
    OBVIOUS
  <2> QED BY <1>2, <1>3, <2>1, InvertedWithout
<1>5. Holding' = Inverted(map, S \ {tok})
  <2>1. HasAllocated' \ dumped' = S \ {tok}
    BY <1>1, <1>2
  <2> QED BY <1>1, <1>2, <2>1 DEF Holding
<1>6. /\ DOMAIN Holding = Image(map, S)
      /\ \A x \in S : Holding[map[x]] = x
  BY <1>3, InvertedIs
<1>7. MapInv'
  BY <1>1, <1>2 DEF MapInv
<1>8. map[tok] \in Image(map, S)
  BY <1>2 DEF Image
<1> QED BY <1>1, <1>2, <1>3, <1>4, <1>5, <1>6, <1>7, <1>8 DEF Loses

(***************************************************************************)
(* The calls of a step.                                                    *)
(***************************************************************************)

\* What a step of the serializer is sure of when it makes its calls for thread
\* th.  `told' is what it has told after them.
Warranted(told, calls, th) ==
  /\ th = IF calls.switch THEN calls.thread ELSE current
  /\ calls.switch => th \in Threads \ Range(killed)
  /\ calls.event # NoEvent =>
       /\ calls.event \in Events /\ th \in Threads \ Range(killed)
       /\ Len(emitted[th]) + 1 \in DOMAIN told.emitted[th]
       /\ told.emitted[th][Len(emitted[th]) + 1] = calls.event
       /\ calls.event.new \notin HasAllocated
       /\ calls.event.old \in HasAllocated \cup {NoTok}
  /\ calls.kill =>
       /\ th \in Threads \ Range(killed) /\ th \in Range(told.killed)
       /\ emitted'[th] = told.recorded[th]

\* The states before and after its operation.
Before(th) == StateOf(Holding, th, emitted, killed, dumped)
Done(th) == StateOf(Holding', th, emitted', killed, dumped)

\* The operation's instruction finds the pointer it needs, or a free register.
LEMMA OperationFits ==
  ASSUME PipeInv, dumped = {}, dumped' = dumped, NEW told, NEW calls, NEW th,
         Calls(calls), Warranted(told, calls, th), calls.event # NoEvent
  PROVE  /\ MapInv'
         /\ \E i \in Piped : /\ Dump(calls, <<i>>)
                             /\ Fits(told, i, Before(th))
                             /\ After(i, Before(th)) = Done(th)
<1> DEFINE old == calls.event.old
           new == calls.event.new
<1>1. /\ old = calls.event.old /\ new = calls.event.new
      /\ calls.event = [old |-> old, new |-> new]
      /\ old \in HasAllocated \cup {NoTok}
      /\ new \in (Tokens \cup {NoTok}) \ HasAllocated
  <2>1. /\ calls.event \in [old : Tokens \cup {NoTok}, new : Tokens \cup {NoTok}]
        /\ calls.event.new \notin HasAllocated
        /\ calls.event.old \in HasAllocated \cup {NoTok}
    BY DEF Warranted, Events
  <2>2. calls.event = [old |-> calls.event.old, new |-> calls.event.new]
        /\ calls.event.new \in Tokens \cup {NoTok}
    BY <2>1
  <2> QED BY <2>1, <2>2
<1> HIDE DEF old, new
<1>2. /\ th \in Threads \ Range(killed)
      /\ Len(emitted[th]) + 1 \in DOMAIN told.emitted[th]
      /\ told.emitted[th][Len(emitted[th]) + 1] = calls.event
      /\ emitted' = [emitted EXCEPT ![th] = Append(@, calls.event)]
  BY SameData DEF Warranted, Calls, Serialization!Hear
<1>3. /\ MapInv
      /\ HasAllocated \subseteq Tokens
  BY ProvedTokens DEF PipeInv, TokensOnly
<1>4. PICK new_reg : /\ new_reg = Ids!LeastFree
                     /\ new_reg \in Nat \ DOMAIN Holding
  BY <1>3, MapIs
<1>5. /\ Holding = [reg \in DOMAIN Holding |-> Holding[reg]]
      /\ \A tok \in HasAllocated :
           /\ allocated_map[tok] \in DOMAIN Holding /\ allocated_map[tok] \in Nat
           /\ Holding[allocated_map[tok]] = tok
      /\ \A reg \in DOMAIN Holding : Holding[reg] \in HasAllocated
  BY <1>3, MapIs DEF Inverted, Image
<1>6. NoTok \notin Tokens
  BY TokensAssumption
<1> DEFINE st == Before(th)
<1>7. /\ st.registers = Holding /\ st.thread = th /\ st.performed = emitted
      /\ st.dead = killed /\ st.freed = {}
  BY DEF Before, StateOf
<1> HIDE DEF st
<1>8. ASSUME NEW type \in {"MALLOC", "MEMALIGN"}, ReceiveMalloc(calls, type)
      PROVE  /\ MapInv'
             /\ \E i \in Piped : /\ Dump(calls, <<i>>)
                                 /\ Fits(told, i, st) /\ After(i, st) = Done(th)
  <2> DEFINE i == [Instruction(type) EXCEPT !.reg = new_reg, !.tok = new]
  <2>1. i = [type |-> type, reg |-> new_reg, new_reg |-> 0,
             thread |-> NoThread, tok |-> new]
    <3> DEFINE j == [Instruction(type) EXCEPT !.reg = new_reg]
    <3>1. j = [type |-> type, reg |-> new_reg, new_reg |-> 0,
               thread |-> NoThread, tok |-> NoTok]
      BY DEF Instruction
    <3> HIDE DEF j
    <3>2. [j EXCEPT !.tok = new] = [type |-> type, reg |-> new_reg, new_reg |-> 0,
                                    thread |-> NoThread, tok |-> new]
      BY <3>1
    <3> QED BY <3>2 DEF j
  <2>2. Dump(calls, <<i>>) /\ old = NoTok /\ new # NoTok
    BY <1>1, <1>4, <1>8 DEF ReceiveMalloc
  <2> HIDE DEF i
  <2>3. i \in Piped
    BY <1>1, <1>4, <2>1, <2>2 DEF Piped, Types
  <2>4. /\ Stores(i) /\ ~Clears(i) /\ Operates(i) /\ Target(i) = new_reg
        /\ Operation(i, st) = calls.event
    BY <1>1, <2>1, <2>2 DEF Stores, Clears, Operates, Target, Operation
  <2>5. Fits(told, i, st)
    BY <1>1, <1>2, <1>4, <1>5, <1>7, <2>1, <2>2, <2>4 DEF Fits, Types
  <2>6. MapInv' /\ Holding' = Added(Holding, DOMAIN Holding, new_reg, new)
    BY <1>1, <1>3, <1>4, <1>8, MapMalloc
  <2>7. After(i, st) = Done(th)
    BY <1>2, <1>7, <2>1, <2>4, <2>6 DEF After, Done, Added, StateOf
  <2> QED BY <2>2, <2>3, <2>5, <2>6, <2>7
<1>9. ASSUME ReceiveRealloc(calls)
      PROVE  /\ MapInv'
             /\ \E i \in Piped : /\ Dump(calls, <<i>>)
                                 /\ Fits(told, i, st) /\ After(i, st) = Done(th)
  <2> DEFINE old_reg == allocated_map[old]
             i == [Instruction("REALLOC") EXCEPT
                     !.reg = old_reg, !.new_reg = new_reg, !.tok = new]
  <2>1. i = [type |-> "REALLOC", reg |-> old_reg, new_reg |-> new_reg,
             thread |-> NoThread, tok |-> new]
    <3> DEFINE j == [Instruction("REALLOC") EXCEPT !.reg = old_reg]
               k == [j EXCEPT !.new_reg = new_reg]
    <3> HIDE DEF old_reg
    <3>1. j = [type |-> "REALLOC", reg |-> old_reg, new_reg |-> 0,
               thread |-> NoThread, tok |-> NoTok]
      BY DEF Instruction
    <3> HIDE DEF j
    <3>2. k = [type |-> "REALLOC", reg |-> old_reg, new_reg |-> new_reg,
               thread |-> NoThread, tok |-> NoTok]
      BY <3>1
    <3> HIDE DEF k
    <3>3. [k EXCEPT !.tok = new] = [type |-> "REALLOC", reg |-> old_reg,
                                    new_reg |-> new_reg, thread |-> NoThread,
                                    tok |-> new]
      BY <3>2
    <3> QED BY <3>3 DEF j, k
  <2>2. Dump(calls, <<i>>) /\ old # NoTok /\ new # NoTok
    BY <1>1, <1>4, <1>9 DEF ReceiveRealloc
  <2> HIDE DEF i
  <2>3. i \in Piped
    BY <1>1, <1>4, <1>5, <2>1, <2>2 DEF Piped, Types
  <2>4. /\ Stores(i) /\ Clears(i) /\ Operates(i) /\ Target(i) = new_reg
        /\ Operation(i, st) = calls.event
    BY <1>1, <1>5, <1>7, <2>1, <2>2 DEF Stores, Clears, Operates, Target, Operation
  <2>5. Fits(told, i, st)
    BY <1>1, <1>2, <1>4, <1>5, <1>7, <2>1, <2>2, <2>4 DEF Fits, Types
  <2>6. MapInv' /\ Holding' = Added(Holding, DOMAIN Holding \ {old_reg}, new_reg, new)
    BY <1>1, <1>3, <1>4, <1>9, <2>2, MapRealloc
  <2>7. After(i, st) = Done(th)
    BY <1>2, <1>7, <2>1, <2>4, <2>6 DEF After, Done, Added, StateOf
  <2> QED BY <2>2, <2>3, <2>5, <2>6, <2>7
<1>10. ASSUME ReceiveFree(calls)
       PROVE  /\ MapInv'
              /\ \E i \in Piped : /\ Dump(calls, <<i>>)
                                  /\ Fits(told, i, st) /\ After(i, st) = Done(th)
  <2> DEFINE old_reg == allocated_map[old]
             i == [Instruction("FREE_SIZED") EXCEPT !.reg = old_reg]
  <2>1. i = [type |-> "FREE_SIZED", reg |-> old_reg, new_reg |-> 0,
             thread |-> NoThread, tok |-> NoTok]
    BY DEF Instruction
  <2>2. Dump(calls, <<i>>) /\ old # NoTok /\ new = NoTok
    BY <1>1, <1>10 DEF ReceiveFree
  <2> HIDE DEF i
  <2>3. i \in Piped
    BY <1>1, <1>5, <2>1, <2>2 DEF Piped, Types
  <2>4. /\ ~Stores(i) /\ Clears(i) /\ Operates(i)
        /\ Operation(i, st) = calls.event
    BY <1>1, <1>5, <1>7, <2>1, <2>2 DEF Stores, Clears, Operates, Operation
  <2>5. Fits(told, i, st)
    BY <1>1, <1>2, <1>5, <1>7, <2>1, <2>2, <2>4 DEF Fits, Types
  <2>6. MapInv' /\ Holding' = [reg \in DOMAIN Holding \ {old_reg} |-> Holding[reg]]
    BY <1>1, <1>3, <1>10, <2>2, MapFree
  <2>7. After(i, st) = Done(th)
    BY <1>2, <1>7, <2>1, <2>4, <2>6 DEF After, Done, StateOf
  <2> QED BY <2>2, <2>3, <2>5, <2>6, <2>7
<1>11. ~ReceiveNone(calls)
  BY DEF ReceiveNone
<1> QED BY <1>8, <1>9, <1>10, <1>11 DEF Calls, Receive, st

\* The calls write instructions that lead from what replay will have done to
\* what postprocess has in mind after them.
LEMMA RunsCalls ==
  ASSUME PipeInv, dumped = {}, dumped' = dumped, NEW told, NEW calls, NEW th,
         Calls(calls), Warranted(told, calls, th), Runs(told, instructions, Now, End)
  PROVE  /\ MapInv' /\ instructions' \in Seq(Piped)
         /\ Runs(told, instructions', Now, End')
<1>1. PICK q, q1, now, before :
        /\ q = instructions /\ q1 = q \o Announced(calls)
        /\ now = Now /\ before = Before(th)
  OBVIOUS
<1>2. q \in Seq(Piped) /\ MapInv
  BY <1>1 DEF PipeInv
<1>3. Holding = [reg \in DOMAIN Holding |-> Holding[reg]]
  BY DEF Holding, Inverted
<1>4. q1 \in Seq(Piped) /\ Runs(told, q1, now, before)
  <2>1. PICK e : e = End
    OBVIOUS
  <2>2. IsState(e) /\ Runs(told, q, now, e)
    BY <1>1, <1>3, <2>1 DEF IsState, End, StateOf
  <2>3. /\ e.registers = Holding /\ e.thread = current /\ e.performed = emitted
        /\ e.dead = killed /\ e.freed = dumped
    BY <2>1 DEF End, StateOf
  <2>4. calls.switch => calls.thread \in Threads \ Range(e.dead)
    BY <2>3 DEF Warranted
  <2>5. /\ q \o Announced(calls) \in Seq(Piped)
        /\ Runs(told, q \o Announced(calls), now,
                StateOf(e.registers, IF calls.switch THEN calls.thread ELSE e.thread,
                        e.performed, e.dead, e.freed))
    BY <1>2, <2>2, <2>4, RunsAnnounced
  <2>6. StateOf(e.registers, IF calls.switch THEN calls.thread ELSE e.thread,
                e.performed, e.dead, e.freed) = before
    BY <1>1, <2>3 DEF Before, Warranted
  <2> QED BY <1>1, <2>5, <2>6
<1>5. PICK done : done = Done(th)
  OBVIOUS
<1>6. /\ MapInv'
      /\ \E q2 \in Seq(Piped) : /\ instructions' = q2 \o Killed(calls)
                                /\ Runs(told, q2, now, done)
  <2>1. CASE calls.event = NoEvent
    <3>1. ReceiveNone(calls)
      <4>1. calls.event.old = NoTok /\ calls.event.new = NoTok
        BY <2>1 DEF NoEvent
      <4> QED BY <4>1 DEF Calls, Receive, ReceiveMalloc, ReceiveRealloc, ReceiveFree
    <3>2. /\ instructions' = (q1 \o <<>>) \o Killed(calls)
          /\ UNCHANGED <<allocated_map, ids_space>>
      BY <1>1, <3>1 DEF ReceiveNone, Dump
    <3>3. q1 \o <<>> = q1
      BY <1>4, ConcatEmptySeq
    <3>4. HasAllocated' = HasAllocated
      BY <3>2 DEF HasAllocated
    <3>5. MapInv'
      BY <1>2, <3>2, <3>4, MapIs, MapNext
    <3>6. Holding' = Holding
      BY <1>2, <3>2, <3>4, MapIs, MapNext
    <3>7. emitted' = emitted
      BY <2>1, SameData DEF Calls, Serialization!Hear
    <3>8. done = before
      BY <1>1, <1>5, <3>6, <3>7 DEF Before, Done
    <3> QED BY <1>4, <3>2, <3>3, <3>5, <3>8
  <2>2. CASE calls.event # NoEvent
    <3>1. PICK i \in Piped : /\ MapInv' /\ Dump(calls, <<i>>)
                             /\ Fits(told, i, before) /\ After(i, before) = done
      BY <1>1, <1>5, <2>2, OperationFits
    <3>2. Append(q1, i) \in Seq(Piped) /\ Runs(told, Append(q1, i), now, done)
      BY <1>4, <3>1, RunsThen
    <3>3. instructions' = (q1 \o <<i>>) \o Killed(calls)
      BY <1>1, <3>1 DEF Dump
    <3>4. q1 \o <<i>> = Append(q1, i)
      BY <1>4, AppendIsConcat
    <3> QED BY <3>1, <3>2, <3>3, <3>4
  <2> QED BY <2>1, <2>2
<1>7. PICK q2 \in Seq(Piped) : /\ instructions' = q2 \o Killed(calls)
                               /\ Runs(told, q2, now, done)
  BY <1>6
<1>8. /\ done.registers = Holding' /\ done.thread = th /\ done.performed = emitted'
      /\ done.dead = killed /\ done.freed = dumped /\ IsState(done)
  <2>1. Holding' = [reg \in DOMAIN Holding' |-> Holding'[reg]]
    BY DEF Holding, Inverted
  <2>2. done = StateOf(Holding', th, emitted', killed, dumped)
    BY <1>5 DEF Done
  <2> QED BY <2>1, <2>2 DEF StateOf, IsState
<1>9. calls.kill =>
        /\ done.thread \in Threads /\ done.thread \notin Range(done.dead)
        /\ done.thread \in Range(told.killed)
        /\ done.performed[done.thread] = told.recorded[done.thread]
  BY <1>8 DEF Warranted
<1>10. /\ q2 \o Killed(calls) \in Seq(Piped)
       /\ Runs(told, q2 \o Killed(calls), now,
               StateOf(done.registers, IF calls.kill THEN NoThread ELSE done.thread,
                       done.performed,
                       IF calls.kill THEN Append(done.dead, done.thread) ELSE done.dead,
                       done.freed))
  BY <1>7, <1>8, <1>9, RunsKilled
<1>11. StateOf(done.registers, IF calls.kill THEN NoThread ELSE done.thread,
               done.performed,
               IF calls.kill THEN Append(done.dead, done.thread) ELSE done.dead,
               done.freed) = End'
  <2>1. /\ current' = IF calls.kill THEN NoThread ELSE th
        /\ killed' = IF calls.kill THEN Append(killed, th) ELSE killed
    BY DEF Calls, Warranted, Serialization!Hear
  <2> QED BY <1>8, <2>1 DEF End
<1> QED BY <1>1, <1>6, <1>7, <1>10, <1>11

(***************************************************************************)
(* Steps.                                                                  *)
(***************************************************************************)

\* The types of what has been told.
LEMMA ToldTypes ==
  ASSUME Proved!MergeInv
  PROVE  /\ emitted \in [Threads -> Seq(Events)]
         /\ recorded \in [Threads -> Seq(Events)]
         /\ killed \in Seq(Threads \cup {NoThread})
         /\ Range(killed) \subseteq exited
         /\ HasAllocated \subseteq Tokens
BY SameData, ProvedTokens
DEF Proved!MergeInv, Proved!IInv, Proved!ProgramInv, Proved!TypeOK,
    Proved!ReceiverTypeOK, Proved!ProgramTypeOK, Proved!DeadThreads, Range,
    Proved!Range, TokensOnly

\* Whoever is killed stays killed.
LEMMA RangeGrows ==
  ASSUME NEW S, NEW s \in Seq(S), NEW e \in S
  PROVE  Range(s) \subseteq Range(Append(s, e)) /\ e \in Range(Append(s, e))
BY RangeAppended

\* While the program runs, the killed threads do not.
LEMMA ReadingTellsMore ==
  ASSUME Proved!MergeInv, Reading
  PROVE  Grows(Told, Told')
<1>1. UNCHANGED <<emitted, killed>>
  BY DEF Reading, history_vars
<1>2. \A t \in Range(killed) : recorded'[t] = recorded[t]
  <2>1. UNCHANGED recorded \/ \E t \in Threads, e \in Events : Record(t, e)
    BY DEF Reading, RecordTok, Flush, Exit, program_vars
  <2>2. ASSUME NEW t \in Threads, NEW e \in Events, Record(t, e)
        PROVE  \A u \in Range(killed) : recorded'[u] = recorded[u]
    BY <2>2, ToldTypes DEF Record, Running
  <2> QED BY <2>1, <2>2
<1> QED BY <1>1, <1>2 DEF Grows, Told

\* An event comes out, and its thread may be killed.
LEMMA ProcessTellsMore ==
  ASSUME Proved!MergeInv, Proved!MergeInv', NEW t \in Threads,
         Process(t, HasAllocated), Calls(ProcessCalls(t)), UNCHANGED program_vars
  PROVE  Grows(Told, Told') /\ Warranted(Told', ProcessCalls(t), t)
<1> DEFINE e == last_event[t]
           kill == t \in dead /\ ~HasEvent(todo[t])
<1>1. /\ Proved!Process(t, HasAllocated) /\ Proved!Receive(Proved!ProcessCalls(t))
      /\ UNCHANGED Proved!program_vars
  BY SameSerializing, SameCalls, CallsAreReceived, ProvedTokens
  DEF program_vars, Proved!program_vars
<1>2. /\ t \notin Proved!Range(killed) /\ e \in Proved!Events
      /\ Len(emitted[t]) + 1 \in DOMAIN recorded[t]
      /\ recorded[t][Len(emitted[t]) + 1] = e
      /\ e.old \in HasAllocated \cup {NoTok}
      /\ e.new \notin HasAllocated
      /\ t \in dead /\ ~Proved!HasEvent(todo[t]) => emitted'[t] = recorded[t]
  BY <1>1, Proved!ProcessedIsNext, ThreadsAssumption, TokensAssumption,
     TimesAssumption, CpusAssumption, NDEBUGAssumption, MaxBufsAssumption
<1>3. /\ emitted' = [emitted EXCEPT ![t] = Append(@, e)]
      /\ killed' = IF t \in dead /\ ~Proved!HasEvent(todo[t])
                   THEN Append(killed, t) ELSE killed
  BY <1>1, Proved!ProcessReceived, ThreadsAssumption, TokensAssumption,
     TimesAssumption, CpusAssumption, NDEBUGAssumption, MaxBufsAssumption
<1>4. /\ t \notin Range(killed) /\ e \in Events
      /\ kill => emitted'[t] = recorded[t]
      /\ killed' = IF kill THEN Append(killed, t) ELSE killed
  BY <1>2, <1>3, SameData, SameDecoding DEF Range, Proved!Range
<1>5. /\ emitted[t] \in Seq(Events) /\ emitted \in [Threads -> Seq(Events)]
      /\ killed \in Seq(Threads \cup {NoThread})
  BY ToldTypes
<1>6. /\ Len(emitted[t]) + 1 \in DOMAIN emitted'[t]
      /\ emitted'[t][Len(emitted[t]) + 1] = e
      /\ \A n \in DOMAIN emitted[t] : n \in DOMAIN emitted'[t]
                                      /\ emitted'[t][n] = emitted[t][n]
      /\ \A u \in Threads \ {t} : emitted'[u] = emitted[u]
  <2>1. PICK s : s = emitted[t]
    OBVIOUS
  <2>2. emitted'[t] = Append(s, e) /\ s \in Seq(Events)
    BY <1>3, <1>5, <2>1
  <2>3. /\ Len(s) \in Nat /\ DOMAIN s = 1 .. Len(s)
        /\ DOMAIN Append(s, e) = 1 .. Len(s) + 1
        /\ \A n \in 1 .. Len(s) : Append(s, e)[n] = s[n]
        /\ Append(s, e)[Len(s) + 1] = e
    BY <1>4, <2>2, AppendProperties, LenProperties
  <2>4. \A u \in Threads \ {t} : emitted'[u] = emitted[u]
    BY <1>3, <1>5
  <2> QED BY <2>1, <2>2, <2>3, <2>4
<1>7. Range(killed) \subseteq Range(killed') /\ (kill => t \in Range(killed'))
  BY <1>4, <1>5, RangeGrows
<1>8. recorded' = recorded
  BY DEF program_vars
<1>9. Grows(Told, Told')
  BY <1>6, <1>7, <1>8 DEF Grows, Told
<1>10. recv_thread_id = t => current = t
  BY <1>4 DEF Proved!MergeInv, Proved!ReceiverFollows, Range, Proved!Range
<1>11. PICK calls, told : calls = ProcessCalls(t) /\ told = Told'
  OBVIOUS
<1>12. /\ calls.switch = (t # recv_thread_id) /\ calls.thread = t
       /\ calls.event = e /\ calls.kill = kill
  BY <1>11 DEF ProcessCalls, NoCalls
<1>13. told.emitted = emitted' /\ told.killed = killed' /\ told.recorded = recorded
  BY <1>8, <1>11 DEF Told
<1>14. Warranted(told, calls, t)
  BY <1>2, <1>4, <1>6, <1>7, <1>10, <1>12, <1>13 DEF Warranted
<1> QED BY <1>9, <1>11, <1>14

\* A thread that is reaped is killed, if that was not done before.
LEMMA BuryTellsMore ==
  ASSUME Proved!MergeInv, Proved!MergeInv', NEW t \in Threads,
         Defer(t) \/ Reap(t), Calls(ReapCalls(t)), UNCHANGED program_vars
  PROVE  /\ Grows(Told, Told')
         /\ Warranted(Told', ReapCalls(t), IF ReapCalls(t).switch THEN t ELSE current)
<1> DEFINE quiet == t \in in_pending_frees \cup signalled
<1>1. Proved!Bury(t)
  BY SameSerializing, SameCalls, CallsAreReceived, ProvedTokens
  DEF Proved!Bury, program_vars, Proved!program_vars
<1>2. /\ emitted' = emitted
      /\ quiet => killed' = killed
      /\ ~quiet => killed' = Append(killed, t)
  BY <1>1, Proved!BuryReceived, ThreadsAssumption, TokensAssumption,
     TimesAssumption, CpusAssumption, NDEBUGAssumption, MaxBufsAssumption
  DEF Proved!MergeInv, Proved!IInv, Proved!ProgramInv
<1>3. ~quiet => t \notin Range(killed) /\ emitted'[t] = recorded[t]
  BY <1>1, Proved!ReapedIsComplete, ThreadsAssumption, TokensAssumption,
     TimesAssumption, CpusAssumption, NDEBUGAssumption, MaxBufsAssumption
  DEF Range, Proved!Range
<1>4. Range(killed) \subseteq Range(killed') /\ (~quiet => t \in Range(killed'))
  <2>1. killed \in Seq(Threads \cup {NoThread}) /\ t \in Threads \cup {NoThread}
    BY ToldTypes
  <2>2. /\ Range(killed) \subseteq Range(Append(killed, t))
        /\ t \in Range(Append(killed, t))
    BY <2>1, RangeGrows
  <2> QED BY <1>2, <2>2
<1>5. recorded' = recorded
  BY DEF program_vars
<1>6. Grows(Told, Told')
  BY <1>2, <1>4, <1>5 DEF Grows, Told
<1>7. PICK calls, told : calls = ReapCalls(t) /\ told = Told'
  OBVIOUS
<1>8. /\ calls.event = NoEvent /\ calls.switch = ~quiet /\ calls.kill = ~quiet
      /\ ~quiet => calls.thread = t
  BY <1>7 DEF ReapCalls, NoCalls
<1>9. told.emitted = emitted' /\ told.killed = killed' /\ told.recorded = recorded
  BY <1>5, <1>7 DEF Told
<1>10. Warranted(told, calls, IF calls.switch THEN t ELSE current)
  BY <1>3, <1>4, <1>8, <1>9 DEF Warranted
<1> QED BY <1>6, <1>7, <1>10

\* A Barrier tells nothing new.
LEMMA BarrierTellsMore ==
  ASSUME Proved!MergeInv, Calls(BarrierCalls), UNCHANGED program_vars
  PROVE  Grows(Told, Told') /\ Warranted(Told', BarrierCalls, current)
<1>1. /\ BarrierCalls.event = NoEvent /\ ~BarrierCalls.switch /\ ~BarrierCalls.kill
  BY DEF BarrierCalls, NoCalls
<1>2. UNCHANGED <<emitted, killed, recorded>>
  BY <1>1, SameData DEF Calls, Serialization!Hear, program_vars
<1>3. Grows(Told, Told')
  BY <1>2 DEF Grows, Told
<1> QED BY <1>1, <1>3 DEF Warranted

\* Postprocess frees nothing on its own account before it is done.
LEMMA NothingDumped ==
  ASSUME MapInv, Writing
  PROVE  dumped = {} /\ dumped' = dumped /\ Now' = Now
<1>1. phase \in {"drain", "reap"}
  BY DEF Writing, Process, Defer, Reap, EndReap
<1>2. dumped' = dumped
  BY DEF Writing, Calls, Receive
<1>3. UNCHANGED replay_vars
  BY DEF Writing
<1> QED BY <1>1, <1>2, <1>3 DEF MapInv, Now, replay_vars, process_vars

LEMMA WritingStep ==
  ASSUME PipeInv, Proved!MergeInv', Writing
  PROVE  MapInv' /\ instructions' \in Seq(Piped) /\ Runs(Told', instructions', Now', End')
<1>1. Proved!MergeInv /\ MapInv /\ Runs(Told, instructions, Now, End)
  BY DEF PipeInv
<1>2. dumped = {} /\ dumped' = dumped /\ Now' = Now
  BY <1>1, NothingDumped
<1>3. UNCHANGED program_vars
  BY DEF Writing
<1>4. ASSUME NEW calls, NEW th, Calls(calls), Grows(Told, Told'),
             Warranted(Told', calls, th)
      PROVE  /\ MapInv' /\ instructions' \in Seq(Piped)
             /\ Runs(Told', instructions', Now', End')
  <2>1. PICK told, more : told = Told /\ more = Told'
    OBVIOUS
  <2>2. Runs(told, instructions, Now, End) /\ Grows(told, more)
    BY <1>1, <1>4, <2>1
  <2>3. Runs(more, instructions, Now, End)
    BY <2>2, RunsStay
  <2>4. Warranted(more, calls, th)
    BY <1>4, <2>1
  <2>5. /\ MapInv' /\ instructions' \in Seq(Piped)
        /\ Runs(more, instructions', Now, End')
    BY <1>2, <1>4, <2>3, <2>4, RunsCalls
  <2> QED BY <1>2, <2>1, <2>5
<1>5. ASSUME NEW t \in Threads, Process(t, HasAllocated), Calls(ProcessCalls(t))
      PROVE  /\ MapInv' /\ instructions' \in Seq(Piped)
             /\ Runs(Told', instructions', Now', End')
  <2>1. PICK calls : calls = ProcessCalls(t)
    OBVIOUS
  <2>2. Grows(Told, Told') /\ Warranted(Told', calls, t) /\ Calls(calls)
    BY <1>1, <1>3, <1>5, <2>1, ProcessTellsMore
  <2> QED BY <1>4, <2>2
<1>6. ASSUME NEW t \in Threads, Defer(t) \/ Reap(t), Calls(ReapCalls(t))
      PROVE  /\ MapInv' /\ instructions' \in Seq(Piped)
             /\ Runs(Told', instructions', Now', End')
  <2>1. PICK calls, th : calls = ReapCalls(t) /\ th = IF calls.switch THEN t ELSE current
    OBVIOUS
  <2>2. Grows(Told, Told') /\ Warranted(Told', calls, th) /\ Calls(calls)
    BY <1>1, <1>3, <1>6, <2>1, BuryTellsMore
  <2> QED BY <1>4, <2>2
<1>7. ASSUME EndReap, Calls(BarrierCalls)
      PROVE  /\ MapInv' /\ instructions' \in Seq(Piped)
             /\ Runs(Told', instructions', Now', End')
  <2>1. PICK calls, th : calls = BarrierCalls /\ th = current
    OBVIOUS
  <2>2. Grows(Told, Told') /\ Warranted(Told', calls, th) /\ Calls(calls)
    BY <1>1, <1>3, <1>7, <2>1, BarrierTellsMore
  <2> QED BY <1>4, <2>2
<1> QED BY <1>5, <1>6, <1>7 DEF Writing

\* Replay makes of an instruction that fits what After says.
LEMMA ReplayIsAfter ==
  ASSUME NEW i, ReplayInstruction(i), Fits(Told, i, Now), Sound(Told, Now)
  PROVE  Now' = After(i, Now)
<1>1. PICK st : st = Now
  OBVIOUS
<1>2. /\ st.registers = registers /\ st.thread = current_thread_id
      /\ st.performed = replayed /\ st.dead = replay_killed /\ st.freed = swept
  BY <1>1 DEF Now, StateOf
<1>3. PICK told : told = Told
  OBVIOUS
<1>4. Fits(told, i, st) /\ Sound(told, st)
  BY <1>1, <1>3
<1>5. Clears(i) => At(i.reg) = st.registers[i.reg]
  BY <1>2, <1>4 DEF Fits, At
<1>6. Performed(i) = Operation(i, st)
  BY <1>5 DEF Performed, Operation, Clears, Stores
<1>7. Performed(i) = NoEvent <=> ~Operates(i)
  <2>1. Operates(i) => Operation(i, st) # NoEvent
    BY <1>4, OperationType DEF Events
  <2>2. ~Operates(i) => Operation(i, st) = NoEvent
    BY DEF Operates, Operation, Stores, NoEvent
  <2> QED BY <1>6, <2>1, <2>2
<1>8. registers' =
        [reg \in (DOMAIN st.registers \ IF Clears(i) THEN {i.reg} ELSE {})
                   \cup (IF Stores(i) THEN {Target(i)} ELSE {}) |->
           IF Stores(i) /\ reg = Target(i) THEN i.tok ELSE st.registers[reg]]
  <2>1. registers' = RegistersAfter(i)
    BY DEF ReplayInstruction
  <2> QED BY <1>2, <2>1
          DEF RegistersAfter, RegistersClearing, Stores, Clears, Target
<1>9. current_thread_id' = IF i.type = "SWITCH_THREAD" THEN i.thread
                           ELSE IF i.type = "KILL_THREAD" THEN NoThread ELSE st.thread
  BY <1>2 DEF ReplayInstruction, ThreadAfter
<1>10. replayed' = IF Operates(i)
                   THEN [st.performed EXCEPT ![st.thread] = Append(@, Operation(i, st))]
                   ELSE st.performed
  BY <1>2, <1>6, <1>7 DEF ReplayInstruction
<1>11. replay_killed' = IF i.type = "KILL_THREAD" THEN Append(st.dead, st.thread)
                        ELSE st.dead
  BY <1>2 DEF ReplayInstruction
<1>12. swept' = IF i.type = "FREE" THEN st.freed \cup {st.registers[i.reg]} ELSE st.freed
  BY <1>2, <1>5 DEF ReplayInstruction, Clears
<1> QED BY <1>1, <1>8, <1>9, <1>10, <1>11, <1>12 DEF Now, After

\* The head of the pipe fits what replay is at.
LEMMA HeadFits ==
  ASSUME PipeInv, instructions # <<>>
  PROVE  /\ Head(instructions) \in Piped /\ Tail(instructions) \in Seq(Piped)
         /\ Fits(Told, Head(instructions), Now) /\ Sound(Told, Now)
         /\ Runs(Told, Tail(instructions), After(Head(instructions), Now), End)
<1>1. instructions \in Seq(Piped) /\ Runs(Told, instructions, Now, End)
  BY DEF PipeInv
<1>2. PICK told, now, end : told = Told /\ now = Now /\ end = End
  OBVIOUS
<1>3. /\ Head(instructions) \in Piped /\ Tail(instructions) \in Seq(Piped)
      /\ Fits(told, Head(instructions), now)
      /\ Runs(told, Tail(instructions), After(Head(instructions), now), end)
  BY <1>1, <1>2, RunsTail
<1>4. Sound(told, now)
  BY <1>1, <1>2, RunsSound
<1> QED BY <1>2, <1>3, <1>4

LEMMA ReplayingStep ==
  ASSUME PipeInv, Replaying
  PROVE  MapInv' /\ instructions' \in Seq(Piped) /\ Runs(Told', instructions', Now', End')
<1>1. /\ UNCHANGED <<program_vars, serializer_vars, allocated_map, ids_space, dumped,
                     history_vars>>
      /\ instructions # <<>> /\ instructions' = Tail(instructions)
      /\ ReplayInstruction(Head(instructions))
  BY DEF Replaying
<1>2. MapInv' /\ Told' = Told /\ End' = End
  BY <1>1 DEF PipeInv, MapInv, HasAllocated, Told, End, Holding, program_vars,
              serializer_vars, history_vars
<1>3. Now' = After(Head(instructions), Now)
  BY <1>1, HeadFits, ReplayIsAfter
<1> QED BY <1>1, <1>2, <1>3, HeadFits

\* The steps that write nothing.
LEMMA QuietStep ==
  ASSUME PipeInv, Grows(Told, Told'),
         UNCHANGED <<postprocess_vars, process_vars, history_vars>>,
         phase = "done" => phase' = phase
  PROVE  MapInv' /\ instructions' \in Seq(Piped) /\ Runs(Told', instructions', Now', End')
<1>1. MapInv' /\ Now' = Now /\ End' = End /\ instructions' = instructions
  BY DEF PipeInv, MapInv, HasAllocated, Now, End, Holding, postprocess_vars,
         process_vars, history_vars
<1>2. PICK told, more : told = Told /\ more = Told'
  OBVIOUS
<1>3. Runs(told, instructions, Now, End) /\ Grows(told, more)
  BY <1>2 DEF PipeInv
<1>4. Runs(more, instructions, Now, End)
  BY <1>3, RunsStay
<1> QED BY <1>1, <1>2, <1>4 DEF PipeInv

\* A FREE of what is left.
LEMMA DumpingStep ==
  ASSUME PipeInv, DumpAllDeallocations
  PROVE  MapInv' /\ instructions' \in Seq(Piped) /\ Runs(Told', instructions', Now', End')
<1>1. /\ phase = "done"
      /\ UNCHANGED <<program_vars, serializer_vars, replay_vars, history_vars>>
  BY DEF DumpAllDeallocations
<1>2. PICK tok \in Tokens : DumpDeallocation(tok)
  BY DEF DumpAllDeallocations
<1>3. MapInv /\ phase' = phase
  BY <1>1 DEF PipeInv, serializer_vars
<1> DEFINE reg == allocated_map[tok]
           i == [Instruction("FREE") EXCEPT !.reg = reg]
<1>4. /\ MapInv' /\ reg \in DOMAIN Holding /\ Holding[reg] = tok
      /\ Holding' = [r \in DOMAIN Holding \ {reg} |-> Holding[r]]
  BY <1>1, <1>2, <1>3, MapDump
<1>5. instructions' = Append(instructions, i) /\ dumped' = dumped \cup {tok}
      /\ tok \in HasAllocated
  BY <1>2 DEF DumpDeallocation, HasAllocated
<1>6. reg \in Nat
  BY <1>3, <1>5 DEF MapInv
<1>7. i = [type |-> "FREE", reg |-> reg, new_reg |-> 0, thread |-> NoThread,
           tok |-> NoTok]
  <2> HIDE DEF reg
  <2> QED BY DEF Instruction
<1>8. i \in Piped
  BY <1>6, <1>7 DEF Piped, Types
<1>9. PICK told, now, end : told = Told /\ now = Now /\ end = End
  OBVIOUS
<1>10. /\ end.registers = Holding /\ end.freed = dumped /\ end.thread = current
       /\ end.performed = emitted /\ end.dead = killed
  BY <1>9 DEF End, StateOf
<1>11. Told' = told /\ Now' = now /\ UNCHANGED <<current, emitted, killed>>
  BY <1>1, <1>9 DEF Told, Now, program_vars, history_vars, replay_vars, process_vars
<1> HIDE DEF i, reg
<1>12. Fits(told, i, end)
  BY <1>4, <1>7, <1>10 DEF Fits, Types, Stores, Clears, Operates
<1>13. End' = After(i, end)
  BY <1>4, <1>5, <1>7, <1>10, <1>11
  DEF End, After, StateOf, Stores, Clears, Operates
<1>14. instructions \in Seq(Piped) /\ Runs(told, instructions, now, end)
  BY <1>9 DEF PipeInv
<1>15. PICK next : next = After(i, end)
  OBVIOUS
<1>16. /\ Append(instructions, i) \in Seq(Piped)
       /\ Runs(told, Append(instructions, i), now, next)
  BY <1>8, <1>12, <1>14, <1>15, RunsThen
<1> QED BY <1>4, <1>5, <1>11, <1>13, <1>15, <1>16

\* At the start there is nothing.
LEMMA PipeInit == Init => PipeInv
<1> SUFFICES ASSUME Init PROVE PipeInv
  OBVIOUS
<1>1. Proved!MergeInv
  BY InitSerializes, ProvedInit
<1>2. /\ HasAllocated = {} /\ allocated_map = [tok \in {} |-> 0] /\ ids_space = {}
      /\ instructions = <<>> /\ dumped = {}
      /\ current = NoThread /\ emitted = [t \in Threads |-> <<>>] /\ killed = <<>>
      /\ registers = [reg \in {} |-> NoTok] /\ current_thread_id = NoThread
      /\ replayed = [t \in Threads |-> <<>>] /\ replay_killed = <<>> /\ swept = {}
  BY DEF Init, ReceiverInit, ReplayInit, Serialization!NotCalled, HasAllocated
<1>3. MapInv
  BY <1>2, FS_EmptySet DEF MapInv, OneToOne, Image
<1>4. instructions \in Seq(Piped)
  BY <1>2
<1>5. Now = End
  <2>1. Holding = registers
    BY <1>2 DEF Holding, Inverted, Image
  <2> QED BY <1>2, <2>1 DEF Now, End
<1>6. PICK told, st : told = Told /\ st = Now
  OBVIOUS
<1>7. /\ st.registers = registers /\ st.thread = NoThread /\ st.freed = {}
      /\ st.performed = [t \in Threads |-> <<>>] /\ st.dead = <<>>
  BY <1>2, <1>6 DEF Now, StateOf
<1>8. Sound(told, st)
  BY <1>2, <1>7 DEF Sound, Range
<1>9. Runs(told, <<>>, st, st)
  BY <1>8, RunsNone
<1> QED BY <1>1, <1>2, <1>3, <1>4, <1>5, <1>6, <1>9 DEF PipeInv

LEMMA PipeStep == PipeInv /\ [Next]_vars => PipeInv'
<1> SUFFICES ASSUME PipeInv, [Next]_vars PROVE PipeInv'
  OBVIOUS
<1>1. Proved!MergeInv /\ Proved!MergeInv'
  BY StepSerializes, ProvedStep, ProvedTokens DEF PipeInv
<1>2. CASE Reading
  <2>1. phase # "done" /\ UNCHANGED <<postprocess_vars, replay_vars, history_vars>>
    BY <1>2 DEF Reading, ReadBuf, AppendBuf, StartBuf, ReadDeath, ReadBarrier
  <2> QED BY <1>1, <1>2, <2>1, ReadingTellsMore, QuietStep DEF PipeInv, replay_vars
<1>3. CASE Writing
  BY <1>1, <1>3, WritingStep DEF PipeInv
<1>4. CASE Waiting
  <2>1. /\ phase # "done"
        /\ UNCHANGED <<program_vars, postprocess_vars, replay_vars, history_vars>>
    BY <1>4 DEF Waiting, Wait, EndDrain
  <2>2. Grows(Told, Told')
    BY <2>1 DEF Grows, Told, program_vars, history_vars
  <2> QED BY <1>1, <2>1, <2>2, QuietStep DEF PipeInv, replay_vars
<1>5. CASE DumpAllDeallocations
  BY <1>1, <1>5, DumpingStep DEF PipeInv
<1>6. CASE Replaying
  BY <1>1, <1>6, ReplayingStep DEF PipeInv
<1>7. CASE GivingUp \/ Finished \/ UNCHANGED vars
  <2>1. UNCHANGED <<program_vars, serializer_vars, postprocess_vars, process_vars,
                    history_vars>>
    BY <1>7 DEF GivingUp, AllocationFails, Finished, vars, replay_vars
  <2>2. Grows(Told, Told')
    BY <2>1 DEF Grows, Told, program_vars, history_vars
  <2>3. /\ UNCHANGED <<postprocess_vars, process_vars, history_vars>>
        /\ phase' = phase
    BY <2>1 DEF serializer_vars
  <2> QED BY <1>1, <2>2, <2>3, QuietStep DEF PipeInv
<1> QED BY <1>2, <1>3, <1>4, <1>5, <1>6, <1>7 DEF Next

\* Executing what is in the pipe leads replay to what postprocess has in mind,
\* and every instruction of it finds the pointers and the thread it needs.
THEOREM PipeInvariance == Spec => []PipeInv
BY PipeInit, PipeStep, PTL DEF Spec

(***************************************************************************)
(* What follows for the registers.                                         *)
(***************************************************************************)

\* Replay's state is named by Now.
LEMMA NowIs ==
  /\ Now.registers = registers /\ Now.thread = current_thread_id
  /\ Now.performed = replayed /\ Now.dead = replay_killed /\ Now.freed = swept
BY DEF Now, StateOf

\* An instruction that stores a pointer finds its register empty, MEMALIGN and
\* REALLOC too, where replay does not look (replay.cc:130-214).
THEOREM RegistersFree == Spec => []TargetRegisterEmpty
<1>1. ASSUME PipeInv PROVE TargetRegisterEmpty
  <2>1. SUFFICES ASSUME instructions # <<>>, NEW i, i = Head(instructions)
                 PROVE  /\ i.type \in {"MALLOC", "MEMALIGN"} => At(i.reg) = NoTok
                        /\ i.type = "REALLOC" => At(i.new_reg) = NoTok
                                                 /\ i.new_reg # i.reg
    BY DEF TargetRegisterEmpty
  <2>2. Fits(Told, i, Now)
    BY <1>1, <2>1, HeadFits
  <2>3. /\ Stores(i) => Target(i) \notin DOMAIN registers
        /\ Clears(i) => i.reg \in DOMAIN registers
    BY <2>2, NowIs DEF Fits
  <2> QED BY <2>3 DEF Stores, Clears, Target, At
<1> QED BY <1>1, PipeInvariance, PTL

\* allocated_count counts the registers that hold a pointer.
CountInv ==
  /\ IsFiniteSet(DOMAIN registers)
  /\ allocated_count = Cardinality(DOMAIN registers)

LEMMA CountStep == PipeInv /\ CountInv /\ [Next]_vars => CountInv'
<1> SUFFICES ASSUME PipeInv, CountInv, [Next]_vars PROVE CountInv'
  OBVIOUS
<1>1. CASE Replaying
  <2>1. PICK i : i = Head(instructions)
    OBVIOUS
  <2>2. ReplayInstruction(i) /\ Fits(Told, i, Now) /\ Sound(Told, Now)
    BY <1>1, <2>1, HeadFits DEF Replaying
  <2>3. PICK D : D = DOMAIN registers
    OBVIOUS
  <2>4. /\ i.type \in Types
        /\ Stores(i) => Target(i) \notin D
        /\ Clears(i) => i.reg \in D
    BY <2>2, <2>3, NowIs DEF Fits
  <2>5. DOMAIN registers' = (D \ IF Clears(i) THEN {i.reg} ELSE {})
                              \cup (IF Stores(i) THEN {Target(i)} ELSE {})
    <3>1. Now' = After(i, Now)
      BY <2>2, ReplayIsAfter
    <3>2. Now'.registers = registers'
      BY DEF Now, StateOf
    <3>3. PICK st : st = Now
      OBVIOUS
    <3>4. DOMAIN After(i, st).registers =
            (DOMAIN st.registers \ IF Clears(i) THEN {i.reg} ELSE {})
               \cup (IF Stores(i) THEN {Target(i)} ELSE {})
      BY DEF After, StateOf
    <3> QED BY <2>3, <3>1, <3>2, <3>3, <3>4, NowIs
  <2>6. allocated_count' = CountAfter(i)
    BY <2>2 DEF ReplayInstruction
  <2>7. /\ IsFiniteSet(D) /\ allocated_count = Cardinality(D) /\ Cardinality(D) \in Nat
    BY <2>3, FS_CardinalityType DEF CountInv
  <2>8. CASE i.type \in {"MALLOC", "MEMALIGN"}
    <3>1. DOMAIN registers' = D \cup {Target(i)} /\ Target(i) \notin D
      BY <2>4, <2>5, <2>8 DEF Stores, Clears
    <3>2. IsFiniteSet(D \cup {Target(i)})
          /\ Cardinality(D \cup {Target(i)}) = Cardinality(D) + 1
      BY <2>7, <3>1, FS_AddElement
    <3> QED BY <2>6, <2>7, <2>8, <3>1, <3>2 DEF CountInv, CountAfter
  <2>9. CASE i.type \in {"FREE", "FREE_SIZED"}
    <3>1. DOMAIN registers' = D \ {i.reg} /\ i.reg \in D
      BY <2>4, <2>5, <2>9 DEF Stores, Clears
    <3>2. IsFiniteSet(D \ {i.reg}) /\ Cardinality(D \ {i.reg}) = Cardinality(D) - 1
      BY <2>7, <3>1, FS_RemoveElement
    <3> QED BY <2>6, <2>7, <2>9, <3>1, <3>2 DEF CountInv, CountAfter
  <2>10. CASE i.type = "REALLOC"
    <3>1. /\ DOMAIN registers' = (D \ {i.reg}) \cup {Target(i)}
          /\ i.reg \in D /\ Target(i) \notin D \ {i.reg}
      BY <2>4, <2>5, <2>10 DEF Stores, Clears
    <3>2. IsFiniteSet(D \ {i.reg}) /\ Cardinality(D \ {i.reg}) = Cardinality(D) - 1
      BY <2>7, <3>1, FS_RemoveElement
    <3>3. /\ IsFiniteSet((D \ {i.reg}) \cup {Target(i)})
          /\ Cardinality((D \ {i.reg}) \cup {Target(i)}) = Cardinality(D \ {i.reg}) + 1
      BY <3>1, <3>2, FS_AddElement
    <3> QED BY <2>6, <2>7, <2>10, <3>1, <3>2, <3>3 DEF CountInv, CountAfter
  <2>11. CASE i.type \in {"SWITCH_THREAD", "KILL_THREAD", "SET_TS_CPU"}
    <3>1. DOMAIN registers' = D /\ allocated_count' = allocated_count
      BY <2>5, <2>6, <2>11 DEF Stores, Clears, CountAfter
    <3> QED BY <2>7, <3>1 DEF CountInv
  <2> QED BY <2>4, <2>8, <2>9, <2>10, <2>11 DEF Types
<1>2. CASE ~Replaying
  BY <1>2 DEF CountInv, Next, vars, replay_vars, process_vars, Reading, Writing,
              Waiting, DumpAllDeallocations, GivingUp, AllocationFails, Finished
<1> QED BY <1>1, <1>2

LEMMA CountInvariance == Spec => []CountInv
<1>1. Init => CountInv
  BY FS_EmptySet DEF Init, ReplayInit, CountInv
<1> QED BY <1>1, CountStep, PipeInvariance, PTL DEF Spec

\* When the pipe is empty, replay is where postprocess thinks it is.
LEMMA CaughtUp ==
  ASSUME PipeInv, instructions = <<>>
  PROVE  registers = Holding
<1>1. PICK told, now, end : told = Told /\ now = Now /\ end = End
  OBVIOUS
<1>2. Runs(told, <<>>, now, end)
  BY <1>1 DEF PipeInv
<1>3. now = end
  BY <1>2, RunsEmpty
<1> QED BY <1>1, <1>3 DEF Now, End, StateOf

\* Replay that has caught up holds what allocated_ says, in those registers,
\* and its count is right.
THEOREM CaughtUpRegistersMirror == Spec => []RegistersMirrorMap
<1>1. ASSUME PipeInv, CountInv PROVE RegistersMirrorMap
  <2>1. SUFFICES ASSUME instructions = <<>>, dumped = {}
                 PROVE  /\ ids_space = DOMAIN registers
                        /\ \A tok \in DOMAIN allocated_map : At(allocated_map[tok]) = tok
                        /\ {allocated_map[tok] : tok \in DOMAIN allocated_map} = ids_space
                        /\ allocated_count = Cardinality(ids_space)
    BY DEF RegistersMirrorMap
  <2>2. registers = Holding
    BY <1>1, <2>1, CaughtUp
  <2>3. /\ ids_space = Image(allocated_map, HasAllocated)
        /\ DOMAIN Holding = ids_space
        /\ \A tok \in HasAllocated : Holding[allocated_map[tok]] = tok
    BY <1>1, <2>1, MapIs DEF PipeInv
  <2> QED BY <1>1, <2>2, <2>3 DEF CountInv, At, Image, HasAllocated
<1> QED BY <1>1, PipeInvariance, CountInvariance, PTL

\* After DumpAllDeallocations nothing is left in replay.
THEOREM NothingLeft == Spec => []EverythingFreed
<1>1. ASSUME PipeInv, CountInv PROVE EverythingFreed
  <2>1. SUFFICES ASSUME AllDumped, instructions = <<>>
                 PROVE  allocated_count = 0 /\ DOMAIN registers = {}
    BY DEF EverythingFreed
  <2>2. registers = Holding
    BY <1>1, <2>1, CaughtUp
  <2>3. DOMAIN Holding = {}
    BY <2>1 DEF AllDumped, Holding, Inverted, Image
  <2> QED BY <1>1, <2>2, <2>3, FS_EmptySet DEF CountInv
<1> QED BY <1>1, PipeInvariance, CountInvariance, PTL

(***************************************************************************)
(* The caches of replay's threads.                                         *)
(***************************************************************************)

\* The thread that is running is one thread_states knows.
CacheInv ==
  /\ ThreadsKeepCaches
  /\ current_thread_id # NoThread => current_thread_id \in DOMAIN thread_states

LEMMA CacheStep == PipeInv /\ CacheInv /\ [Next]_vars => CacheInv'
<1> SUFFICES ASSUME PipeInv, CacheInv, [Next]_vars PROVE CacheInv'
  OBVIOUS
<1>1. CASE Replaying
  <2>1. PICK i : i = Head(instructions)
    OBVIOUS
  <2>2. ReplayInstruction(i) /\ Fits(Told, i, Now) /\ Sound(Told, Now)
    BY <1>1, <2>1, HeadFits DEF Replaying
  <2>3. PICK c, dead_threads : c = current_thread_id /\ dead_threads = replay_killed
    OBVIOUS
  <2>4. /\ dead_threads \in Seq(Threads)
        /\ \A n \in DOMAIN dead_threads : dead_threads[n] # NoThread
    BY <2>2, <2>3, NowIs, ThreadsAssumption DEF Sound
  <2>5. /\ c # NoThread =>
             /\ cache = {c} /\ thread_states[c] \in {{}, cache}
             /\ c \in DOMAIN thread_states
        /\ \A t \in DOMAIN thread_states \ {c, NoThread} : thread_states[t] = {t}
        /\ \A n \in DOMAIN dead_threads : dead_threads[n] \notin DOMAIN thread_states
    BY <2>3 DEF CacheInv, ThreadsKeepCaches
  <2>6. CASE i.type = "SWITCH_THREAD"
    <3>1. PICK t : t = i.thread
      OBVIOUS
    <3>2. /\ thread_states' = StatesWith(t) /\ cache' = CacheOf(t)
          /\ current_thread_id' = t /\ replay_killed' = dead_threads
      BY <2>2, <2>3, <2>6, <3>1 DEF ReplayInstruction, CachesAfter, ThreadAfter
    <3>3. t \in Threads /\ \A n \in DOMAIN dead_threads : dead_threads[n] # t
      BY <2>2, <2>3, <2>6, <3>1, NowIs DEF Fits, Range
    <3>4. t # NoThread
      BY <3>3, ThreadsAssumption
    <3> DEFINE states == StatesWith(t)
    <3>5. /\ DOMAIN states = DOMAIN thread_states \cup {c, t}
          /\ \A u \in DOMAIN states :
               states[u] = IF u = c THEN cache
                           ELSE IF u \in DOMAIN thread_states THEN thread_states[u]
                           ELSE {}
      BY <2>3 DEF StatesWith
    <3>6. cache' = IF states[t] = {} THEN {t} ELSE states[t]
      BY <3>2 DEF CacheOf
    <3> HIDE DEF states
    <3>7. cache' = {t} /\ states[t] \in {{}, {t}}
      BY <2>5, <3>4, <3>5, <3>6
    <3>8. \A u \in DOMAIN states \ {t, NoThread} : states[u] = {u}
      BY <2>5, <3>5
    <3>9. \A n \in DOMAIN dead_threads : dead_threads[n] \notin DOMAIN states
      BY <2>4, <2>5, <3>3, <3>5
    <3>10. thread_states' = states /\ t \in DOMAIN states
      BY <3>2, <3>5 DEF states
    <3> QED BY <3>2, <3>7, <3>8, <3>9, <3>10 DEF CacheInv, ThreadsKeepCaches
  <2>7. CASE i.type = "KILL_THREAD"
    <3>1. /\ thread_states' = [u \in DOMAIN thread_states \ {c} |-> thread_states[u]]
          /\ current_thread_id' = NoThread
          /\ replay_killed' = Append(dead_threads, c)
      BY <2>2, <2>3, <2>7 DEF ReplayInstruction, CachesAfter, ThreadAfter
    <3>2. c \in Threads
      BY <2>2, <2>3, <2>7, NowIs DEF Fits
    <3>3. \A n \in DOMAIN Append(dead_threads, c) :
            IF n \in DOMAIN dead_threads
            THEN Append(dead_threads, c)[n] = dead_threads[n]
            ELSE Append(dead_threads, c)[n] = c
      BY <2>4, <3>2, AppendProperties
    <3> QED BY <2>5, <3>1, <3>3 DEF CacheInv, ThreadsKeepCaches
  <2>8. CASE i.type \notin {"SWITCH_THREAD", "KILL_THREAD"}
    <3>1. UNCHANGED <<thread_states, cache, current_thread_id, replay_killed>>
      BY <2>2, <2>8 DEF ReplayInstruction, CachesAfter, ThreadAfter
    <3> QED BY <3>1 DEF CacheInv, ThreadsKeepCaches
  <2> QED BY <2>6, <2>7, <2>8
<1>2. CASE ~Replaying
  <2>1. UNCHANGED process_vars
    BY <1>2 DEF Next, vars, replay_vars, Reading, Writing, Waiting,
                DumpAllDeallocations, GivingUp, AllocationFails, Finished
  <2> QED BY <2>1 DEF CacheInv, ThreadsKeepCaches, process_vars
<1> QED BY <1>1, <1>2

\* A thread runs on its own cache, and a kill deletes the one in use.
THEOREM OwnCaches == Spec => []ThreadsKeepCaches
<1>1. Init => CacheInv
  BY DEF Init, ReplayInit, CacheInv, ThreadsKeepCaches
<1>2. CacheInv => ThreadsKeepCaches
  BY DEF CacheInv
<1> QED BY <1>1, <1>2, CacheStep, PipeInvariance, PTL DEF Spec

(***************************************************************************)
(* What replay does is a merge of the trace.                               *)
(***************************************************************************)

\* The tokens replay has been given and the trace has not freed.
Given == {registers[reg] : reg \in DOMAIN registers} \cup swept

LEMMA ReplayedNames ==
  /\ Replayed!Events = Events /\ \A s : Replayed!Range(s) = Range(s)
BY DEF Replayed!Events, Replayed!NoEvent, Events, NoEvent, Replayed!Range, Range

\* What an instruction does to them.
LEMMA GivenAfter ==
  ASSUME NEW told, NEW st, NEW i, Sound(told, st), Fits(told, i, st),
         NEW given, given = {st.registers[reg] : reg \in DOMAIN st.registers} \cup st.freed,
         NEW next, next = After(i, st), NEW op, op = Operation(i, st)
  PROVE  LET after == {next.registers[reg] : reg \in DOMAIN next.registers}
                        \cup next.freed
         IN /\ Operates(i) => /\ op.old \in given \cup {NoTok} /\ op.new \notin given
                              /\ after = (given \ {op.old}) \cup ({op.new} \ {NoTok})
            /\ ~Operates(i) => after = given
<1> DEFINE kept == DOMAIN st.registers \ IF Clears(i) THEN {i.reg} ELSE {}
           added == IF Stores(i) THEN {Target(i)} ELSE {}
           after == {next.registers[reg] : reg \in DOMAIN next.registers} \cup next.freed
<1>1. /\ DOMAIN next.registers = kept \cup added
      /\ \A r \in kept \cup added :
           next.registers[r] = IF Stores(i) /\ r = Target(i) THEN i.tok
                               ELSE st.registers[r]
      /\ next.freed = IF i.type = "FREE" THEN st.freed \cup {st.registers[i.reg]}
                      ELSE st.freed
  BY DEF After, StateOf
<1>2. /\ \A r \in DOMAIN st.registers : /\ st.registers[r] \in Tokens
                                        /\ st.registers[r] \notin st.freed
      /\ \A r, q \in DOMAIN st.registers : st.registers[r] = st.registers[q] => r = q
      /\ st.freed \subseteq Tokens /\ NoTok \notin Tokens
  BY TokensAssumption DEF Sound
<1>3. /\ Stores(i) => /\ Target(i) \notin DOMAIN st.registers
                      /\ i.tok \in Tokens \ st.freed
                      /\ \A r \in DOMAIN st.registers : st.registers[r] # i.tok
      /\ Clears(i) => i.reg \in DOMAIN st.registers
      /\ i.type \in Types
  BY DEF Fits
<1>4. after = {st.registers[r] : r \in kept}
                \cup (IF Stores(i) THEN {i.tok} ELSE {}) \cup next.freed
  BY <1>1, <1>3
<1>5. {st.registers[r] : r \in kept} =
        {st.registers[r] : r \in DOMAIN st.registers}
          \ (IF Clears(i) THEN {st.registers[i.reg]} ELSE {})
  BY <1>2, <1>3
<1>6. given \subseteq Tokens
  BY <1>2
<1> HIDE DEF kept, added, after
<1>7. CASE i.type \in {"MALLOC", "MEMALIGN"}
  <2>1. Stores(i) /\ ~Clears(i) /\ Operates(i) /\ op = [old |-> NoTok, new |-> i.tok]
    BY <1>7 DEF Stores, Clears, Operates, Operation
  <2>2. next.freed = st.freed
    BY <1>1, <1>7
  <2>3. after = given \cup {i.tok} /\ i.tok \notin given /\ i.tok \in Tokens
    BY <1>3, <1>4, <1>5, <2>1, <2>2
  <2> QED BY <1>2, <1>6, <2>1, <2>3 DEF after
<1>8. CASE i.type = "REALLOC"
  <2>1. Stores(i) /\ Clears(i) /\ Operates(i)
        /\ op = [old |-> st.registers[i.reg], new |-> i.tok]
    BY <1>8 DEF Stores, Clears, Operates, Operation
  <2>2. next.freed = st.freed
    BY <1>1, <1>8
  <2>3. /\ after = (given \ {st.registers[i.reg]}) \cup {i.tok}
        /\ i.tok \notin given /\ i.tok \in Tokens /\ st.registers[i.reg] \in given
    BY <1>2, <1>3, <1>4, <1>5, <2>1, <2>2
  <2> QED BY <1>2, <2>1, <2>3 DEF after
<1>9. CASE i.type = "FREE_SIZED"
  <2>1. ~Stores(i) /\ Clears(i) /\ Operates(i)
        /\ op = [old |-> st.registers[i.reg], new |-> NoTok]
    BY <1>9 DEF Stores, Clears, Operates, Operation
  <2>2. next.freed = st.freed
    BY <1>1, <1>9
  <2>3. /\ after = given \ {st.registers[i.reg]} /\ st.registers[i.reg] \in given
    BY <1>2, <1>3, <1>4, <1>5, <2>1, <2>2
  <2> QED BY <1>2, <1>6, <2>1, <2>3 DEF after
<1>10. CASE i.type = "FREE"
  <2>1. ~Stores(i) /\ Clears(i) /\ ~Operates(i)
    BY <1>10 DEF Stores, Clears, Operates
  <2>2. next.freed = st.freed \cup {st.registers[i.reg]}
    BY <1>1, <1>10
  <2>3. after = given
    BY <1>3, <1>4, <1>5, <2>1, <2>2
  <2> QED BY <2>1, <2>3 DEF after
<1>11. CASE i.type \in {"SWITCH_THREAD", "KILL_THREAD", "SET_TS_CPU"}
  <2>1. ~Stores(i) /\ ~Clears(i) /\ ~Operates(i) /\ next.freed = st.freed
    BY <1>1, <1>11 DEF Stores, Clears, Operates
  <2>2. after = given
    BY <1>4, <1>5, <2>1
  <2> QED BY <2>1, <2>2 DEF after
<1> QED BY <1>3, <1>7, <1>8, <1>9, <1>10, <1>11 DEF Types

\* What has come out of the serializer is a beginning of what was recorded.
LEMMA EmittedIsRecorded ==
  ASSUME Proved!MergeInv, NEW t \in Threads, NEW n \in DOMAIN emitted[t]
  PROVE  n \in DOMAIN recorded[t] /\ recorded[t][n] = emitted[t][n]
<1>1. PICK e, r : e = emitted[t] /\ r = recorded[t]
  OBVIOUS
<1>2. e \in Seq(Events) /\ r \in Seq(Events) /\ n \in DOMAIN e
  BY <1>1, ToldTypes
<1>3. Len(e) <= Len(r) /\ \A m \in 1 .. Len(e) : e[m] = r[m]
  BY <1>1 DEF Proved!MergeInv, Proved!HeldIsTheRest
<1>4. /\ Len(e) \in Nat /\ Len(r) \in Nat
      /\ DOMAIN e = 1 .. Len(e) /\ DOMAIN r = 1 .. Len(r)
  BY <1>2, LenProperties
<1>5. n \in DOMAIN r /\ r[n] = e[n]
  BY <1>2, <1>3, <1>4
<1> QED BY <1>1, <1>5

LEMMA ReplayingMerges ==
  ASSUME PipeInv, Replaying
  PROVE  [Replayed!Next]_Replayed!merged_vars
<1>1. PICK i, st, told, next :
        /\ i = Head(instructions) /\ st = Now /\ told = Told /\ next = After(i, st)
  OBVIOUS
<1>2. /\ Fits(told, i, st) /\ Sound(told, st) /\ next = Now'
      /\ recorded' = recorded
  BY <1>1, HeadFits, ReplayIsAfter DEF Replaying, program_vars
<1>3. /\ st.registers = registers /\ st.thread = current_thread_id
      /\ st.performed = replayed /\ st.dead = replay_killed /\ st.freed = swept
  BY <1>1, NowIs
<1>4. /\ next.registers = registers' /\ next.thread = current_thread_id'
      /\ next.performed = replayed' /\ next.dead = replay_killed'
      /\ next.freed = swept'
  BY <1>2 DEF Now, StateOf
<1>5. PICK t, op, given : /\ t = current_thread_id /\ op = Operation(i, st)
                          /\ given = Given
  OBVIOUS
<1>6. given = {st.registers[reg] : reg \in DOMAIN st.registers} \cup st.freed
  BY <1>3, <1>5 DEF Given
<1>7. {next.registers[reg] : reg \in DOMAIN next.registers} \cup next.freed = Given'
  BY <1>4 DEF Given
<1>8. /\ Operates(i) => /\ op.old \in Given \cup {NoTok} /\ op.new \notin Given
                        /\ Given' = (Given \ {op.old}) \cup ({op.new} \ {NoTok})
      /\ ~Operates(i) => Given' = Given
  BY <1>1, <1>2, <1>5, <1>6, <1>7, GivenAfter
<1>9. /\ replayed' = IF Operates(i) THEN [replayed EXCEPT ![t] = Append(@, op)]
                     ELSE replayed
      /\ replay_killed' = IF i.type = "KILL_THREAD" THEN Append(replay_killed, t)
                          ELSE replay_killed
  <2>1. /\ next.performed =
             IF Operates(i)
             THEN [st.performed EXCEPT ![st.thread] = Append(@, Operation(i, st))]
             ELSE st.performed
        /\ next.dead = IF i.type = "KILL_THREAD" THEN Append(st.dead, st.thread)
                       ELSE st.dead
    BY <1>1 DEF After, StateOf
  <2> QED BY <1>3, <1>4, <1>5, <2>1
<1>10. Proved!MergeInv
  BY DEF PipeInv
<1>11. CASE Operates(i)
  <2>1. t \in Threads /\ t \notin Range(replay_killed)
    BY <1>2, <1>3, <1>5, <1>11 DEF Fits
  <2>2. /\ Len(replayed[t]) + 1 \in DOMAIN emitted[t]
        /\ emitted[t][Len(replayed[t]) + 1] = op
    BY <1>1, <1>2, <1>3, <1>5, <1>11 DEF Fits, Told
  <2>3. /\ Len(replayed[t]) + 1 \in DOMAIN recorded[t]
        /\ recorded[t][Len(replayed[t]) + 1] = op
    BY <1>10, <2>1, <2>2, EmittedIsRecorded
  <2>4. replay_killed' = replay_killed
    BY <1>9, <1>11 DEF Operates
  <2>5. Replayed!Emit(t) /\ UNCHANGED replay_killed
    BY <1>2, <1>8, <1>9, <1>11, <2>1, <2>3, <2>4, ReplayedNames
    DEF Replayed!Emit, Given
  <2> QED BY <2>1, <2>5 DEF Replayed!Next
<1>12. CASE i.type = "KILL_THREAD"
  <2>1. ~Operates(i)
    BY <1>12 DEF Operates
  <2>2. /\ t \in Threads /\ t \notin Range(replay_killed)
        /\ replayed[t] = recorded[t]
    BY <1>1, <1>2, <1>3, <1>5, <1>12 DEF Fits, Told
  <2>3. /\ UNCHANGED <<recorded, replayed>> /\ Given' = Given
        /\ replay_killed' = Append(replay_killed, t)
    BY <1>2, <1>8, <1>9, <1>12, <2>1
  <2>4. Replayed!Kill(t)
    BY <2>2, <2>3, ReplayedNames DEF Replayed!Kill
  <2> QED BY <2>2, <2>3, <2>4 DEF Replayed!Next, Given
<1>13. CASE ~Operates(i) /\ i.type # "KILL_THREAD"
  <2>1. UNCHANGED <<recorded, replayed, replay_killed>> /\ Given' = Given
    BY <1>2, <1>8, <1>9, <1>13
  <2> QED BY <2>1 DEF Replayed!merged_vars, Given
<1> QED BY <1>11, <1>12, <1>13

LEMMA StepReplays == PipeInv /\ [Next]_vars => [Replayed!Next]_Replayed!merged_vars
<1> SUFFICES ASSUME PipeInv, [Next]_vars
             PROVE  [Replayed!Next]_Replayed!merged_vars
  OBVIOUS
<1>1. CASE Replaying
  BY <1>1, ReplayingMerges
<1>2. CASE ~Replaying
  <2>1. UNCHANGED process_vars
    BY <1>2 DEF Next, vars, replay_vars, Reading, Writing, Waiting,
                DumpAllDeallocations, GivingUp, AllocationFails, Finished
  <2>2. UNCHANGED recorded \/ \E t \in Threads, e \in Events : Record(t, e)
    BY <1>2 DEF Next, vars, Reading, Writing, Waiting, DumpAllDeallocations, GivingUp,
                Finished, RecordTok, Flush, Exit, program_vars
  <2>3. CASE UNCHANGED recorded
    BY <2>1, <2>3 DEF process_vars, Replayed!merged_vars
  <2>4. ASSUME NEW t \in Threads, NEW e \in Events, Record(t, e)
        PROVE  Replayed!Next
    <3>1. Sound(Told, Now)
      <4>1. PICK told, now, end : told = Told /\ now = Now /\ end = End
        OBVIOUS
      <4>2. instructions \in Seq(Piped) /\ Runs(told, instructions, now, end)
        BY <4>1 DEF PipeInv
      <4> QED BY <4>1, <4>2, RunsSound
    <3>2. Range(replay_killed) \subseteq Range(killed)
      BY <3>1, NowIs DEF Sound, Told
    <3>3. t \notin Range(replay_killed)
      BY <2>4, <3>2, ToldTypes DEF PipeInv, Record, Running
    <3>4. Replayed!Record(t, e)
      BY <2>1, <2>4, <3>3, ReplayedNames DEF Replayed!Record, Record, process_vars
    <3> QED BY <3>4, ReplayedNames DEF Replayed!Next
  <2> QED BY <2>2, <2>3, <2>4
<1> QED BY <1>1, <1>2

\* From the traced program through the pipe to replay: every operation is
\* performed once, in its thread's order, on the pointer its allocation had
\* returned, and a thread is killed after its last one.
THEOREM ReplayImplementsMergedTrace == Spec => ReplaysTrace
<1>1. Init => Replayed!Init
  BY DEF Init, ProgramInit, ReplayInit, Replayed!Init
<1> QED BY <1>1, StepReplays, PipeInvariance, PTL DEF Spec, ReplaysTrace, Replayed!Spec

(***************************************************************************)
(* Types.                                                                  *)
(***************************************************************************)

\* With finitely many tokens the registers are numbered up to their number.
LEMMA LeastIsRegister ==
  ASSUME IsFiniteSet(Tokens), PipeInv, dumped = {}
  PROVE  Ids!LeastFree \in Registers
<1>1. PICK S, map, regs : S = HasAllocated /\ map = allocated_map /\ regs = ids_space
  OBVIOUS
<1>2. /\ map \in [S -> Nat] /\ regs = Image(map, S) /\ IsFiniteSet(regs)
      /\ S \in SUBSET Tokens
  BY <1>1, MapIs, ToldTypes DEF PipeInv
<1>3. map \in Surjection(S, regs)
  BY <1>2 DEF Surjection, Image
<1>4. IsFiniteSet(S) /\ Cardinality(S) <= Cardinality(Tokens)
  BY <1>2, FS_Subset
<1>5. Cardinality(regs) <= Cardinality(S)
  BY <1>3, <1>4, FS_Surjection
<1>6. /\ Cardinality(regs) \in Nat /\ Cardinality(S) \in Nat
      /\ Cardinality(Tokens) \in Nat
  BY <1>2, <1>4, FS_CardinalityType
<1>7. Ids!LeastFree \in Nat /\ Ids!LeastFree <= Cardinality(regs)
  BY <1>1, <1>2, LeastIsFree
<1> QED BY <1>4, <1>5, <1>6, <1>7 DEF Registers

\* An instruction names registers.
LEMMA InstructionType ==
  ASSUME 0 \in Registers, NEW type \in Types, NEW reg \in Registers,
         NEW new_reg \in Registers, NEW thread \in Threads \cup {NoThread},
         NEW tok \in Tokens \cup {NoTok}
  PROVE  /\ Instruction(type) \in InstructionSet
         /\ [Instruction(type) EXCEPT !.reg = reg] \in InstructionSet
         /\ [Instruction(type) EXCEPT !.thread = thread] \in InstructionSet
         /\ [Instruction(type) EXCEPT !.reg = reg, !.tok = tok] \in InstructionSet
         /\ [Instruction(type) EXCEPT !.reg = reg, !.new_reg = new_reg, !.tok = tok]
              \in InstructionSet
<1>1. Instruction(type) \in InstructionSet
  BY DEF Instruction, InstructionSet
<1>2. \A i \in InstructionSet : /\ [i EXCEPT !.reg = reg] \in InstructionSet
                                /\ [i EXCEPT !.new_reg = new_reg] \in InstructionSet
                                /\ [i EXCEPT !.thread = thread] \in InstructionSet
                                /\ [i EXCEPT !.tok = tok] \in InstructionSet
  BY DEF InstructionSet
<1> QED BY <1>1, <1>2

\* The calls write such instructions.
LEMMA CallsType ==
  ASSUME IsFiniteSet(Tokens), TypeOK, PipeInv, dumped = {}, dumped' = dumped,
         NEW told, NEW calls, NEW th, Calls(calls), Warranted(told, calls, th)
  PROVE  /\ allocated_map' \in [HasAllocated' -> Registers]
         /\ ids_space' \in SUBSET Registers
         /\ instructions' \in Seq(InstructionSet)
<1>1. /\ allocated_map \in [HasAllocated -> Registers] /\ ids_space \in SUBSET Registers
      /\ instructions \in Seq(InstructionSet)
  BY DEF TypeOK, HasAllocated
<1>2. Ids!LeastFree \in Registers /\ 0 \in Registers
  <2>1. Cardinality(Tokens) \in Nat
    BY FS_CardinalityType
  <2> QED BY <2>1, LeastIsRegister DEF Registers
<1>3. Announced(calls) \in Seq(InstructionSet)
  <2>1. calls.switch =>
          [Instruction("SWITCH_THREAD") EXCEPT !.thread = calls.thread]
            \in InstructionSet
    <3>1. ASSUME calls.switch PROVE calls.thread \in Threads \cup {NoThread}
      BY <3>1 DEF Warranted
    <3>2. "SWITCH_THREAD" \in Types
      BY DEF Types
    <3> QED BY <1>2, <3>1, <3>2, TokensAssumption, InstructionType
  <2>2. Instruction("SET_TS_CPU") \in InstructionSet
    BY <1>2, TokensAssumption DEF Instruction, InstructionSet, Types
  <2> HIDE DEF InstructionSet
  <2>3. /\ (IF calls.switch
            THEN <<[Instruction("SWITCH_THREAD") EXCEPT !.thread = calls.thread]>>
            ELSE <<>>) \in Seq(InstructionSet)
        /\ (IF calls.set_ts THEN <<Instruction("SET_TS_CPU")>> ELSE <<>>)
             \in Seq(InstructionSet)
    BY <2>1, <2>2
  <2> QED BY <2>3, ConcatProperties DEF Announced
<1>4. Killed(calls) \in Seq(InstructionSet)
  <2>1. Instruction("KILL_THREAD") \in InstructionSet
    BY <1>2 DEF Instruction, InstructionSet, Types
  <2> QED BY <2>1 DEF Killed
<1>5. ASSUME NEW operation \in Seq(InstructionSet), Dump(calls, operation)
      PROVE  instructions' \in Seq(InstructionSet)
  <2>1. instructions \o Announced(calls) \in Seq(InstructionSet)
    BY <1>1, <1>3, ConcatProperties
  <2>2. instructions \o Announced(calls) \o operation \in Seq(InstructionSet)
    BY <1>5, <2>1, ConcatProperties
  <2> QED BY <1>4, <1>5, <2>2, ConcatProperties DEF Dump
<1>6. CASE ReceiveNone(calls)
  <2>1. instructions' \in Seq(InstructionSet)
    <3>1. <<>> \in Seq(InstructionSet) /\ Dump(calls, <<>>)
      BY <1>6 DEF ReceiveNone
    <3> QED BY <1>5, <3>1
  <2>2. UNCHANGED <<allocated_map, ids_space>> /\ HasAllocated' = HasAllocated
    BY <1>6 DEF ReceiveNone, HasAllocated
  <2> QED BY <1>1, <2>1, <2>2
<1>7. ASSUME ~ReceiveNone(calls)
      PROVE  /\ calls.event.old \in HasAllocated \cup {NoTok}
             /\ calls.event.new \in Tokens \cup {NoTok}
  <2>1. calls.event # NoEvent
    BY <1>7 DEF Calls, Receive, ReceiveMalloc, ReceiveRealloc, ReceiveFree, NoEvent
  <2> QED BY <2>1 DEF Warranted, Events
<1>8. ASSUME NEW type \in {"MALLOC", "MEMALIGN"}, ReceiveMalloc(calls, type),
             ~ReceiveNone(calls)
      PROVE  /\ allocated_map' \in [HasAllocated' -> Registers]
             /\ ids_space' \in SUBSET Registers
             /\ instructions' \in Seq(InstructionSet)
  <2>1. [Instruction(type) EXCEPT !.reg = Ids!LeastFree, !.tok = calls.event.new]
          \in InstructionSet
    BY <1>2, <1>7, <1>8, InstructionType, ThreadsAssumption DEF Types
  <2>2. instructions' \in Seq(InstructionSet)
    <3>1. PICK i : i = [Instruction(type) EXCEPT !.reg = Ids!LeastFree, !.tok = calls.event.new]
      OBVIOUS
    <3>2. <<i>> \in Seq(InstructionSet)
      BY <2>1, <3>1
    <3>3. Dump(calls, <<i>>)
      BY <1>8, <3>1 DEF ReceiveMalloc
    <3> QED BY <1>5, <3>2, <3>3
  <2> QED BY <1>1, <1>2, <1>8, <2>2 DEF ReceiveMalloc, HasAllocated
<1>9. ASSUME ReceiveRealloc(calls), ~ReceiveNone(calls)
      PROVE  /\ allocated_map' \in [HasAllocated' -> Registers]
             /\ ids_space' \in SUBSET Registers
             /\ instructions' \in Seq(InstructionSet)
  <2>1. calls.event.old \in HasAllocated /\ allocated_map[calls.event.old] \in Registers
    BY <1>1, <1>7, <1>9 DEF ReceiveRealloc
  <2>2. [Instruction("REALLOC") EXCEPT
           !.reg = allocated_map[calls.event.old], !.new_reg = Ids!LeastFree,
           !.tok = calls.event.new] \in InstructionSet
    BY <1>2, <1>7, <1>9, <2>1, InstructionType DEF Types
  <2>3. instructions' \in Seq(InstructionSet)
    <3>1. PICK i : i = [Instruction("REALLOC") EXCEPT
                           !.reg = allocated_map[calls.event.old],
                           !.new_reg = Ids!LeastFree, !.tok = calls.event.new]
      OBVIOUS
    <3>2. <<i>> \in Seq(InstructionSet)
      BY <2>2, <3>1
    <3>3. Dump(calls, <<i>>)
      BY <1>9, <3>1 DEF ReceiveRealloc
    <3> QED BY <1>5, <3>2, <3>3
  <2> QED BY <1>1, <1>2, <1>9, <2>3
          DEF ReceiveRealloc, MapAfterRealloc, IdsAfterRealloc, HasAllocated
<1>10. ASSUME ReceiveFree(calls), ~ReceiveNone(calls)
       PROVE  /\ allocated_map' \in [HasAllocated' -> Registers]
              /\ ids_space' \in SUBSET Registers
              /\ instructions' \in Seq(InstructionSet)
  <2>1. calls.event.old \in HasAllocated /\ allocated_map[calls.event.old] \in Registers
    BY <1>1, <1>7, <1>10 DEF ReceiveFree
  <2>2. [Instruction("FREE_SIZED") EXCEPT !.reg = allocated_map[calls.event.old]]
          \in InstructionSet
    BY <1>2, <2>1, InstructionType DEF Types
  <2>3. instructions' \in Seq(InstructionSet)
    <3>1. PICK i : i = [Instruction("FREE_SIZED") EXCEPT
                           !.reg = allocated_map[calls.event.old]]
      OBVIOUS
    <3>2. <<i>> \in Seq(InstructionSet)
      BY <2>2, <3>1
    <3>3. Dump(calls, <<i>>)
      BY <1>10, <3>1 DEF ReceiveFree
    <3> QED BY <1>5, <3>2, <3>3
  <2> QED BY <1>1, <1>10, <2>3 DEF ReceiveFree, Restrict, HasAllocated
<1> QED BY <1>6, <1>8, <1>9, <1>10 DEF Calls, Receive

\* What of replay's state the pipe determines has its type because it is sound.
LEMMA ReplayTypes ==
  ASSUME PipeInv
  PROVE  /\ registers \in [DOMAIN registers -> Tokens]
         /\ current_thread_id \in Threads \cup {NoThread}
         /\ replayed \in [Threads -> Seq(Events)]
         /\ replay_killed \in Seq(Threads)
         /\ swept \in SUBSET Tokens
         /\ dumped \in SUBSET Tokens
<1>1. PICK told, now, end : told = Told /\ now = Now /\ end = End
  OBVIOUS
<1>2. instructions \in Seq(Piped) /\ Runs(told, instructions, now, end)
  BY <1>1 DEF PipeInv
<1>3. Sound(told, now)
  BY <1>2, RunsSound
<1>4. dumped \subseteq HasAllocated /\ HasAllocated \subseteq Tokens
  BY ToldTypes DEF PipeInv, MapInv
<1> QED BY <1>1, <1>3, <1>4, NowIs DEF Sound

\* The caches are those of threads, and the registers those of instructions.
LEMMA ReplayingTypes ==
  ASSUME TypeOK, PipeInv, Replaying
  PROVE  /\ instructions' \in Seq(InstructionSet)
         /\ replay_state' \in {"running", "aborted"}
         /\ DOMAIN registers' \in SUBSET Registers
         /\ DOMAIN thread_states' \in SUBSET (Threads \cup {NoThread})
         /\ thread_states' \in [DOMAIN thread_states' -> SUBSET (Threads \cup {NoThread})]
         /\ cache' \in SUBSET (Threads \cup {NoThread})
<1>1. PICK i : i = Head(instructions)
  OBVIOUS
<1>2. ReplayInstruction(i) /\ Fits(Told, i, Now) /\ instructions # <<>>
      /\ instructions' = Tail(instructions)
  BY <1>1, HeadFits DEF Replaying
<1>3. /\ instructions \in Seq(InstructionSet) /\ DOMAIN registers \in SUBSET Registers
      /\ current_thread_id \in Threads \cup {NoThread}
      /\ DOMAIN thread_states \in SUBSET (Threads \cup {NoThread})
      /\ thread_states \in [DOMAIN thread_states -> SUBSET (Threads \cup {NoThread})]
      /\ cache \in SUBSET (Threads \cup {NoThread})
  BY DEF TypeOK
<1>4. i \in InstructionSet /\ instructions' \in Seq(InstructionSet)
  <2>1. Head(instructions) \in InstructionSet /\ Tail(instructions) \in Seq(InstructionSet)
    BY <1>2, <1>3, HeadTailProperties
  <2> QED BY <1>1, <1>2, <2>1
<1>5. i.reg \in Registers /\ i.new_reg \in Registers
  BY <1>4 DEF InstructionSet
<1>6. replay_state' \in {"running", "aborted"}
  BY <1>2 DEF ReplayInstruction
<1>7. DOMAIN registers' \in SUBSET Registers
  BY <1>2, <1>3, <1>5 DEF ReplayInstruction, RegistersAfter, RegistersClearing
<1>8. CASE i.type = "SWITCH_THREAD"
  <2>1. PICK t \in Threads : t = i.thread
    BY <1>2, <1>8 DEF Fits
  <2>2. thread_states' = StatesWith(t) /\ cache' = CacheOf(t)
    BY <1>2, <1>8, <2>1 DEF ReplayInstruction, CachesAfter
  <2>3. /\ DOMAIN StatesWith(t) \in SUBSET (Threads \cup {NoThread})
        /\ StatesWith(t) \in [DOMAIN StatesWith(t) -> SUBSET (Threads \cup {NoThread})]
        /\ t \in DOMAIN StatesWith(t)
    BY <1>3 DEF StatesWith
  <2>4. CacheOf(t) \in SUBSET (Threads \cup {NoThread})
    BY <2>3 DEF CacheOf
  <2> QED BY <1>4, <1>6, <1>7, <2>2, <2>3, <2>4
<1>9. CASE i.type # "SWITCH_THREAD"
  <2>1. /\ cache' = cache
        /\ \/ thread_states' = thread_states
           \/ thread_states' = [u \in DOMAIN thread_states \ {current_thread_id} |->
                                  thread_states[u]]
    BY <1>2, <1>9 DEF ReplayInstruction, CachesAfter
  <2> QED BY <1>3, <1>4, <1>6, <1>7, <2>1
<1> QED BY <1>8, <1>9

\* The calls of a writing step are warranted ones.
LEMMA WritingCalls ==
  ASSUME Proved!MergeInv, Proved!MergeInv', Writing
  PROVE  \E told, calls, th : Calls(calls) /\ Warranted(told, calls, th)
<1>1. UNCHANGED program_vars
  BY DEF Writing
<1>2. ASSUME NEW t \in Threads, Process(t, HasAllocated), Calls(ProcessCalls(t))
      PROVE  \E told, calls, th : Calls(calls) /\ Warranted(told, calls, th)
  BY <1>1, <1>2, ProcessTellsMore
<1>3. ASSUME NEW t \in Threads, Defer(t) \/ Reap(t), Calls(ReapCalls(t))
      PROVE  \E told, calls, th : Calls(calls) /\ Warranted(told, calls, th)
  BY <1>1, <1>3, BuryTellsMore
<1>4. ASSUME EndReap, Calls(BarrierCalls)
      PROVE  \E told, calls, th : Calls(calls) /\ Warranted(told, calls, th)
  BY <1>1, <1>4, BarrierTellsMore
<1> QED BY <1>2, <1>3, <1>4 DEF Writing

\* The parts of TypeOK that neither the serializer's invariant nor PipeInv has.
OwnTypes ==
  /\ allocated_map \in [HasAllocated -> Registers]
  /\ ids_space \in SUBSET Registers
  /\ instructions \in Seq(InstructionSet)
  /\ replay_state \in {"running", "aborted"}
  /\ DOMAIN registers \in SUBSET Registers
  /\ DOMAIN thread_states \in SUBSET (Threads \cup {NoThread})
  /\ thread_states \in [DOMAIN thread_states -> SUBSET (Threads \cup {NoThread})]
  /\ cache \in SUBSET (Threads \cup {NoThread})

LEMMA TypesTogether == PipeInv /\ CountInv /\ OwnTypes => TypeOK
<1> SUFFICES ASSUME PipeInv, CountInv, OwnTypes PROVE TypeOK
  OBVIOUS
<1>1. Serialization!TypeOK
  <2>1. Proved!TypeOK
    BY DEF PipeInv, Proved!MergeInv, Proved!IInv, Proved!ProgramInv
  <2> QED BY <2>1, SameData
          DEF Serialization!TypeOK, Proved!TypeOK, Serialization!ProgramTypeOK,
              Proved!ProgramTypeOK, Serialization!SerializerTypeOK,
              Proved!SerializerTypeOK, Serialization!ReceiverTypeOK,
              Proved!ReceiverTypeOK, Serialization!Phases, Proved!Phases
<1>2. allocated_count \in Nat
  BY FS_CardinalityType DEF CountInv
<1> QED BY <1>1, <1>2, ReplayTypes DEF TypeOK, OwnTypes, HasAllocated

LEMMA OwnTypesInit ==
  ASSUME IsFiniteSet(Tokens)
  PROVE  Init => OwnTypes
BY DEF Init, ReceiverInit, ReplayInit, OwnTypes, HasAllocated

LEMMA OwnTypesStep ==
  ASSUME IsFiniteSet(Tokens)
  PROVE  PipeInv /\ PipeInv' /\ CountInv /\ OwnTypes /\ [Next]_vars => OwnTypes'
<1> SUFFICES ASSUME PipeInv, PipeInv', CountInv, OwnTypes, [Next]_vars
             PROVE  OwnTypes'
  OBVIOUS
<1>1. TypeOK
  BY TypesTogether
<1>2. CASE Writing
  <2>1. PICK told, calls, th : Calls(calls) /\ Warranted(told, calls, th)
    BY <1>2, WritingCalls DEF PipeInv
  <2>2. dumped = {} /\ dumped' = dumped
    BY <1>2, NothingDumped DEF PipeInv
  <2>3. /\ allocated_map' \in [HasAllocated' -> Registers]
        /\ ids_space' \in SUBSET Registers
        /\ instructions' \in Seq(InstructionSet)
    BY <1>1, <2>1, <2>2, CallsType
  <2>4. UNCHANGED replay_vars
    BY <1>2 DEF Writing
  <2> QED BY <2>3, <2>4 DEF OwnTypes, replay_vars, process_vars
<1>3. CASE DumpAllDeallocations
  <2>1. PICK tok : DumpDeallocation(tok)
    BY <1>3 DEF DumpAllDeallocations
  <2>2. UNCHANGED <<allocated_map, ids_space>> /\ UNCHANGED replay_vars
        /\ HasAllocated' = HasAllocated
    BY <1>3, <2>1 DEF DumpAllDeallocations, DumpDeallocation, HasAllocated
  <2>3. allocated_map[tok] \in Registers /\ 0 \in Registers
    <3>1. Cardinality(Tokens) \in Nat
      BY FS_CardinalityType
    <3> QED BY <2>1, <3>1 DEF DumpDeallocation, OwnTypes, HasAllocated, Registers
  <2>4. [Instruction("FREE") EXCEPT !.reg = allocated_map[tok]] \in InstructionSet
    BY <2>3, TokensAssumption DEF Instruction, InstructionSet, Types
  <2>5. instructions' \in Seq(InstructionSet)
    BY <2>1, <2>4, AppendProperties DEF DumpDeallocation, OwnTypes
  <2> QED BY <2>2, <2>5 DEF OwnTypes, replay_vars, process_vars
<1>4. CASE Replaying
  <2>1. UNCHANGED <<allocated_map, ids_space>> /\ HasAllocated' = HasAllocated
    BY <1>4 DEF Replaying, HasAllocated
  <2> QED BY <1>1, <1>4, <2>1, ReplayingTypes DEF OwnTypes
<1>5. CASE GivingUp
  BY <1>5 DEF GivingUp, AllocationFails, OwnTypes, process_vars, postprocess_vars,
              HasAllocated
<1>6. CASE Reading \/ Waiting \/ Finished \/ UNCHANGED vars
  <2>1. UNCHANGED <<postprocess_vars, replay_vars>> /\ HasAllocated' = HasAllocated
    BY <1>6 DEF Reading, Waiting, Finished, vars, postprocess_vars, HasAllocated
  <2> QED BY <2>1 DEF OwnTypes, postprocess_vars, replay_vars, process_vars
<1> QED BY <1>2, <1>3, <1>4, <1>5, <1>6 DEF Next

\* The types, for any finite set of tokens: with n of them no register above
\* the n-th is ever named, in the map, in the pipe or in replay.
THEOREM PipelineTypeCorrect ==
  ASSUME IsFiniteSet(Tokens)
  PROVE  Spec => []TypeOK
<1>1. Init => OwnTypes
  BY OwnTypesInit
<1>2. PipeInv /\ PipeInv' /\ CountInv /\ OwnTypes /\ [Next]_vars => OwnTypes'
  BY OwnTypesStep
<1>3. PipeInv /\ CountInv /\ OwnTypes => TypeOK
  BY TypesTogether
<1> QED BY <1>1, <1>2, <1>3, PipeInvariance, CountInvariance, PTL DEF Spec
=============================================================================
