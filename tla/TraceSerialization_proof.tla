----------------------- MODULE TraceSerialization_proof -----------------------
(***************************************************************************)
(* Proofs about TraceSerialization, for every set of threads, tokens and   *)
(* stamps, with and without assertions in the build.                       *)
(*                                                                         *)
(* After the types, the bookkeeping of the serializer: every thread with   *)
(* work is in exactly one place, the heap is ordered by current stamps,    *)
(* and no thread waits for a token that is there.  The last two follow     *)
(* from the first; the first needs to know that no two threads ever wait   *)
(* for one token, and so that no token is released twice in what is still  *)
(* to come out.                                                            *)
(***************************************************************************)
EXTENDS TraceSerialization, SequenceTheorems, WellFoundedInduction, TLAPS

(***************************************************************************)
(* Lemmas about decoding.                                                  *)
(***************************************************************************)

\* A non-empty set of numbers has a least member.
LEMMA LeastNumber ==
  ASSUME NEW S \in SUBSET Nat, S # {}
  PROVE  \E n \in S : \A m \in S : n <= m
<1>1. IsWellFoundedOn(OpToRel(<, Nat), Nat)
  BY NatLessThanWellFounded
<1>2. PICK n \in S : \A m \in S : <<m, n>> \notin OpToRel(<, Nat)
  BY <1>1, WFMin
<1>3. \A m \in S : ~(m < n)
  BY <1>2 DEF OpToRel
<1> QED BY <1>3

\* No record is both an event and a stamp: they have other fields.
LEMMA StampsAreNoEvents == Stamps \cap Events = {}
<1> SUFFICES ASSUME NEW s \in Stamps, s \in Events
             PROVE  FALSE
  OBVIOUS
<1>1. DOMAIN s = {"ts", "cpu"} BY DEF Stamps
<1>2. DOMAIN s = {"old", "new"} BY DEF Events
<1> QED BY <1>1, <1>2

\* FirstEvent finds an event, with nothing but stamps before it.
LEMMA FirstEventFound ==
  ASSUME NEW items \in Seq(Items), HasEvent(items)
  PROVE  /\ FirstEvent(items) \in 1 .. Len(items)
         /\ items[FirstEvent(items)] \in Events
         /\ \A j \in 1 .. FirstEvent(items) - 1 : items[j] \in Stamps
<1> DEFINE S == {i \in DOMAIN items : items[i] \in Events}
<1>1. DOMAIN items = 1 .. Len(items) /\ Len(items) \in Nat
  OBVIOUS
<1>2. S \in SUBSET Nat /\ S # {}
  BY <1>1 DEF HasEvent
<1>3. PICK n \in S : \A m \in S : n <= m
  BY <1>2, LeastNumber
<1>4. \E i \in DOMAIN items :
        /\ items[i] \in Events
        /\ \A j \in DOMAIN items : j < i => items[j] \notin Events
  BY <1>1, <1>3
<1>5. /\ FirstEvent(items) \in DOMAIN items
      /\ items[FirstEvent(items)] \in Events
      /\ \A j \in DOMAIN items : j < FirstEvent(items) => items[j] \notin Events
  BY <1>4 DEF FirstEvent
<1>6. \A j \in DOMAIN items : items[j] \in Items
  BY <1>1
<1> QED BY <1>1, <1>5, <1>6 DEF Items

\* Decoding keeps to the items: what update_last_event leaves in a thread's
\* fields is an event of the Bufs or none, the rest of them, and a stamp.
LEMMA DecodingTypes ==
  ASSUME NEW items \in Seq(Items), NEW old \in Stamps
  PROVE  /\ NextEvent(items) \in Events \cup {NoEvent}
         /\ AfterEvent(items) \in Seq(Items)
         /\ StampBefore(items, old) \in Stamps
<1>1. CASE HasEvent(items)
  <2>1. /\ FirstEvent(items) \in 1 .. Len(items)
        /\ items[FirstEvent(items)] \in Events
        /\ \A j \in 1 .. FirstEvent(items) - 1 : items[j] \in Stamps
    BY <1>1, FirstEventFound
  <2>2. NextEvent(items) \in Events
    BY <1>1, <2>1 DEF NextEvent
  <2>3. AfterEvent(items) = SubSeq(items, FirstEvent(items) + 1, Len(items))
    BY <1>1 DEF AfterEvent
  <2>4. \A i \in FirstEvent(items) + 1 .. Len(items) : items[i] \in Items
    BY <2>1
  <2>5. AfterEvent(items) \in Seq(Items)
    BY <2>1, <2>3, <2>4, SubSeqProperties
  <2>6. StampBefore(items, old) \in Stamps
    BY <1>1, <2>1 DEF StampBefore
  <2> QED BY <2>2, <2>5, <2>6
<1>2. CASE ~HasEvent(items)
  <2>1. Len(items) # 0 => items[Len(items)] \in Items \ Events
    BY <1>2 DEF HasEvent
  <2>2. StampBefore(items, old) \in Stamps
    BY <1>2, <2>1 DEF StampBefore, Items
  <2> QED BY <1>2, <2>2 DEF NextEvent, AfterEvent
<1> QED BY <1>1, <1>2

\* A sequence that ends in a stamp still does when its first event is taken.
LEMMA DecodingKeepsEnd ==
  ASSUME NEW items \in Seq(Items), HasEvent(items),
         items[Len(items)] \in Stamps
  PROVE  /\ AfterEvent(items) # <<>>
         /\ AfterEvent(items)[Len(AfterEvent(items))] = items[Len(items)]
<1> DEFINE f == FirstEvent(items)
<1>1. f \in 1 .. Len(items) /\ items[f] \in Events
  BY FirstEventFound
<1>2. f # Len(items)
  BY <1>1, StampsAreNoEvents
<1>3. \A i \in f + 1 .. Len(items) : items[i] \in Items
  BY <1>1
<1>4. /\ Len(SubSeq(items, f + 1, Len(items))) = Len(items) - f
      /\ \A i \in 1 .. Len(items) - f :
           SubSeq(items, f + 1, Len(items))[i] = items[f + i]
  BY <1>1, <1>2, <1>3, SubSeqProperties
<1> DEFINE n == Len(items) - f
<1>5. n \in 1 .. Len(items) - f /\ f + n = Len(items)
  BY <1>1, <1>2
<1>6. SubSeq(items, f + 1, Len(items))[n] = items[f + n]
  BY <1>4, <1>5
<1>7. AfterEvent(items) = SubSeq(items, f + 1, Len(items))
  BY DEF AfterEvent
<1>8. Len(AfterEvent(items)) = n /\ AfterEvent(items)[n] = items[Len(items)]
  BY <1>4, <1>5, <1>6, <1>7
<1>9. AfterEvent(items) # <<>>
  BY <1>5, <1>8, EmptySeq
<1> QED BY <1>8, <1>9

(***************************************************************************)
(* Type correctness.                                                       *)
(***************************************************************************)

\* Every variable has its type at the start.
LEMMA InitType == Init => TypeOK
<1> SUFFICES ASSUME Init PROVE TypeOK
  OBVIOUS
<1>1. ProgramTypeOK
  BY EmptySeq DEF Init, ProgramInit, ProgramTypeOK
<1>2. SerializerTypeOK
  BY EmptySeq DEF Init, SerializerInit, SerializerTypeOK, Phases
<1>3. ReceiverTypeOK
  BY EmptySeq DEF Init, ReceiverInit, NotCalled, ReceiverTypeOK
<1> QED BY <1>1, <1>2, <1>3 DEF TypeOK

\* The steps of the traced program.
LEMMA ProgramTypes ==
  ASSUME ProgramTypeOK, NEW t \in Threads,
         \/ \E e \in Events : Record(t, e)
         \/ \E s \in Stamps : RecordTok(t, s)
         \/ Flush(t)
         \/ Exit(t)
  PROVE  ProgramTypeOK'
<1>1. ASSUME NEW e \in Events, Record(t, e) PROVE ProgramTypeOK'
  <2>1. /\ Append(recorded[t], e) \in Seq(Events)
        /\ Append(buffer[t], e) \in Seq(Items)
    BY AppendProperties DEF ProgramTypeOK, Items
  <2>2. e.new \in Tokens \cup {NoTok}
    BY DEF Events
  <2> QED BY <1>1, <2>1, <2>2 DEF Record, ProgramTypeOK
<1>2. ASSUME NEW s \in Stamps, RecordTok(t, s) PROVE ProgramTypeOK'
  <2>1. Append(buffer[t], s) \in Seq(Items)
    BY AppendProperties DEF ProgramTypeOK, Items
  <2> QED BY <1>2, <2>1 DEF RecordTok, ProgramTypeOK
<1>3. CASE Flush(t)
  BY <1>3, EmptySeq DEF Flush, ProgramTypeOK
<1>4. CASE Exit(t)
  BY <1>4 DEF Exit, ProgramTypeOK
<1> QED BY <1>1, <1>2, <1>3, <1>4

\* What a thread writes is a sequence of items that ends in a stamp.
LEMMA BufType ==
  ASSUME ProgramTypeOK, NEW t \in Threads, NEW s \in Stamps
  PROVE  /\ BufOf(t, s) \in Seq(Items)
         /\ BufOf(t, s)[Len(BufOf(t, s))] \in Stamps
         /\ BufOf(t, s) # <<>>
<1>1. buffer[t] \in Seq(Items) /\ s \in Items
  BY DEF ProgramTypeOK, Items
<1>2. /\ Append(buffer[t], s) \in Seq(Items)
      /\ Append(buffer[t], s) # <<>>
      /\ Len(Append(buffer[t], s)) = Len(buffer[t]) + 1
      /\ Append(buffer[t], s)[Len(buffer[t]) + 1] = s
  BY <1>1, AppendProperties
<1> QED BY <1>2 DEF BufOf

\* The assertions never lead to a phase the code does not know.
LEMMA AssertingType ==
  ASSUME NEW condition, NEW next \in Phases
  PROVE  Asserting(condition, next) \in Phases
BY DEF Asserting, Phases

\* The read phase.
LEMMA ReadTypes ==
  ASSUME SerializerTypeOK, NEW t \in Threads, NEW items \in Seq(Items),
         \/ ReadBuf(t, items)
         \/ ReadDeath(t)
         \/ \E is_end \in BOOLEAN : ReadBarrier(is_end)
  PROVE  SerializerTypeOK'
<1>1. CASE AppendBuf(t, items)
  <2>1. todo[t] \o items \in Seq(Items)
    BY ConcatProperties DEF SerializerTypeOK
  <2>2. phase' \in Phases
    BY <1>1, AssertingType DEF AppendBuf, SerializerTypeOK
  <2> QED BY <1>1, <2>1, <2>2 DEF AppendBuf, SerializerTypeOK
<1>2. CASE StartBuf(t, items)
  <2>1. last_stamp[t] \in Stamps
    BY DEF SerializerTypeOK
  <2>2. /\ NextEvent(items) \in Events \cup {NoEvent}
        /\ AfterEvent(items) \in Seq(Items)
        /\ StampBefore(items, last_stamp[t]) \in Stamps
    BY <2>1, DecodingTypes
  <2>3. StampsAfter(t, items) \in [Threads -> Stamps]
    BY <2>2 DEF StampsAfter, SerializerTypeOK
  <2>4. StampsAfter(t, items)[t].ts \in Times
    BY <2>3 DEF Stamps
  <2>5. /\ DOMAIN heap' \in SUBSET Threads
        /\ heap' \in [DOMAIN heap' -> Times]
    BY <1>2, <2>4 DEF StartBuf, With, SerializerTypeOK
  <2>6. phase' \in Phases
    BY <1>2, AssertingType DEF StartBuf, SerializerTypeOK
  <2> QED BY <1>2, <2>2, <2>3, <2>5, <2>6
          DEF StartBuf, UpdateLastEvent, SerializerTypeOK
<1>3. CASE ReadDeath(t)
  <2>1. Append(to_die, t) \in Seq(Threads)
    BY AppendProperties DEF SerializerTypeOK
  <2>2. phase' \in Phases
    BY <1>3, AssertingType DEF ReadDeath, SerializerTypeOK, Phases
  <2> QED BY <1>3, <2>1, <2>2 DEF ReadDeath, SerializerTypeOK, thread_vars
<1>4. ASSUME NEW is_end \in BOOLEAN, ReadBarrier(is_end)
      PROVE  SerializerTypeOK'
  BY <1>4 DEF ReadBarrier, SerializerTypeOK, thread_vars, Phases
<1> QED BY <1>1, <1>2, <1>3, <1>4 DEF ReadBuf

\* The drain phase.
LEMMA ProcessTypes ==
  ASSUME SerializerTypeOK, NEW t \in Threads, Process(t, allocated)
  PROVE  SerializerTypeOK'
<1> DEFINE items == todo[t]
           tok == last_event[t].new
           stamps == StampsAfter(t, items)
           queue == Requeue(t, stamps[t].ts)
<1>1. /\ items \in Seq(Items)
      /\ last_stamp[t] \in Stamps
      /\ last_event[t] \in Events \cup {NoEvent}
  BY DEF SerializerTypeOK
<1>2. /\ NextEvent(items) \in Events \cup {NoEvent}
      /\ AfterEvent(items) \in Seq(Items)
      /\ StampBefore(items, last_stamp[t]) \in Stamps
  BY <1>1, DecodingTypes
<1>3. stamps \in [Threads -> Stamps]
  BY <1>2 DEF StampsAfter, SerializerTypeOK
<1>4. \A u \in Threads : stamps[u].ts \in Times
  BY <1>3 DEF Stamps
<1>5. DOMAIN queue \in SUBSET Threads /\ queue \in [DOMAIN queue -> Times]
  BY <1>4 DEF Requeue, With, Without, Restrict, SerializerTypeOK
<1>6. Waiter(tok) \in SUBSET Threads
  BY DEF Waiter, SerializerTypeOK
<1>7. heap' = WakeInto(queue, tok, stamps)
  BY DEF Process, NewTok
<1>8. DOMAIN heap' \in SUBSET Threads /\ heap' \in [DOMAIN heap' -> Times]
  BY <1>4, <1>5, <1>6, <1>7 DEF WakeInto
<1>9. /\ DOMAIN pending_frees' \in SUBSET Tokens
      /\ pending_frees' \in [DOMAIN pending_frees' -> Threads]
  BY DEF Process, Without, Restrict, SerializerTypeOK
<1>10. last_event' \in [Threads -> Events \cup {NoEvent}]
  BY <1>2 DEF Process, UpdateLastEvent, SerializerTypeOK
<1>11. todo' \in [Threads -> Seq(Items)] /\ last_stamp' \in [Threads -> Stamps]
  BY <1>2, <1>3 DEF Process, UpdateLastEvent, SerializerTypeOK
<1>12. signalled' \in SUBSET Threads /\ in_pending_frees' \in SUBSET Threads
  BY DEF Process, SerializerTypeOK
<1>13. recv_thread_id' \in Threads /\ recv_stamp' \in Stamps
  BY <1>1 DEF Process
<1>14. phase' \in Phases
  BY AssertingType DEF Process, SerializerTypeOK, Phases
<1> QED
  BY <1>8, <1>9, <1>10, <1>11, <1>12, <1>13, <1>14 DEF Process, SerializerTypeOK

\* An event that is not ready releases a token.
LEMMA NotReady ==
  ASSUME SerializerTypeOK, NEW t \in Threads, ~Ready(t, allocated)
  PROVE  last_event[t].old \in Tokens \ allocated
<1>1. last_event[t] \in Events \cup {NoEvent}
  BY DEF SerializerTypeOK
<1>2. last_event[t].old \in Tokens \cup {NoTok}
  BY <1>1 DEF Events, NoEvent
<1> QED BY <1>2 DEF Ready

\* The step that makes a thread wait keeps the types.
LEMMA WaitTypes ==
  ASSUME SerializerTypeOK, NEW t \in Threads, Wait(t, allocated)
  PROVE  SerializerTypeOK'
<1> DEFINE tok == last_event[t].old
<1>1. tok \in Tokens
  BY NotReady DEF Wait
<1>2. DOMAIN heap' \in SUBSET Threads /\ heap' \in [DOMAIN heap' -> Times]
  BY DEF Wait, Without, Restrict, SerializerTypeOK
<1>3. /\ DOMAIN pending_frees' \in SUBSET Tokens
      /\ pending_frees' \in [DOMAIN pending_frees' -> Threads]
  BY <1>1 DEF Wait, With, SerializerTypeOK
<1>4. phase' \in Phases
  BY AssertingType DEF Wait, SerializerTypeOK
<1> QED BY <1>2, <1>3, <1>4 DEF Wait, SerializerTypeOK, thread_vars

\* The end of the drain, and the reap phase.
LEMMA ReapTypes ==
  ASSUME SerializerTypeOK, NEW t \in Threads,
         EndDrain \/ Defer(t) \/ Reap(t) \/ EndReap
  PROVE  SerializerTypeOK'
<1>1. CASE EndDrain
  BY <1>1 DEF EndDrain, SerializerTypeOK, Phases, thread_vars
<1>2. CASE Defer(t)
  <2>1. Append(next_to_die, t) \in Seq(Threads) /\ Tail(to_die) \in Seq(Threads)
    BY <1>2, AppendProperties, HeadTailProperties DEF Defer, SerializerTypeOK
  <2>2. phase' \in Phases
    BY <1>2, AssertingType DEF Defer, SerializerTypeOK
  <2> QED BY <1>2, <2>1, <2>2 DEF Defer, SerializerTypeOK, thread_vars
<1>3. CASE Reap(t)
  <2>1. Tail(to_die) \in Seq(Threads)
    BY <1>3, HeadTailProperties DEF Reap, SerializerTypeOK
  <2>2. phase' \in Phases
    BY <1>3, AssertingType DEF Reap, SerializerTypeOK
  <2>3. recv_thread_id' \in Threads \cup {NoThread}
    BY <1>3 DEF Reap, RecvThreadAfterReap, SerializerTypeOK
  <2> QED BY <1>3, <2>1, <2>2, <2>3 DEF Reap, SerializerTypeOK
<1>4. CASE EndReap
  BY <1>4, EmptySeq DEF EndReap, SerializerTypeOK, Phases, thread_vars
<1> QED BY <1>1, <1>2, <1>3, <1>4

\* The receiver, for calls about a thread and with an event, or none.
LEMMA ReceiveTypes ==
  ASSUME ReceiverTypeOK, NEW calls,
         calls.switch => calls.thread \in Threads,
         calls.event \in Events \cup {NoEvent},
         Receive(calls)
  PROVE  ReceiverTypeOK'
<1> DEFINE thread == IF calls.switch THEN calls.thread ELSE current
<1>1. thread \in Threads \cup {NoThread}
  BY DEF ReceiverTypeOK
<1>2. calls.event.new \in Tokens \cup {NoTok}
  BY DEF Events, NoEvent
<1>3. emitted' \in [Threads -> Seq(Events)]
  <2>1. CASE calls.event = NoEvent
    BY <2>1 DEF Receive, Hear, ReceiverTypeOK
  <2>2. CASE calls.event # NoEvent
    <3>1. calls.event \in Events
      BY <2>2
    <3>2. emitted' = [emitted EXCEPT ![thread] = Append(@, calls.event)]
      BY <2>2 DEF Receive, Hear
    <3>3. \A u \in Threads : Append(emitted[u], calls.event) \in Seq(Events)
      BY <3>1, AppendProperties DEF ReceiverTypeOK
    <3> QED BY <3>2, <3>3 DEF ReceiverTypeOK
  <2> QED BY <2>1, <2>2
<1>4. allocated' \in SUBSET Tokens
  BY <1>2 DEF Receive, Hear, ReceiverTypeOK
<1>5. current' \in Threads \cup {NoThread}
  BY <1>1 DEF Receive, Hear
<1>6. killed' \in Seq(Threads \cup {NoThread})
  BY <1>1, AppendProperties DEF Receive, Hear, ReceiverTypeOK
<1> QED BY <1>3, <1>4, <1>5, <1>6 DEF ReceiverTypeOK

\* The calls that the serializer makes are such calls.
LEMMA CallTypes ==
  ASSUME SerializerTypeOK, NEW t \in Threads
  PROVE  /\ ProcessCalls(t).event = last_event[t]
         /\ ProcessCalls(t).thread \in Threads
         /\ ProcessCalls(t).event \in Events \cup {NoEvent}
         /\ ReapCalls(t).switch => ReapCalls(t).thread \in Threads
         /\ ReapCalls(t).event = NoEvent
         /\ ~BarrierCalls.switch /\ BarrierCalls.event = NoEvent
<1>1. last_event[t] \in Events \cup {NoEvent}
  BY DEF SerializerTypeOK
<1>2. /\ ProcessCalls(t).event = last_event[t]
      /\ ProcessCalls(t).thread = t
  BY DEF ProcessCalls, NoCalls
<1>3. /\ ReapCalls(t).switch => ReapCalls(t).thread \in Threads
      /\ ReapCalls(t).event = NoEvent
  BY DEF ReapCalls, NoCalls
<1>4. ~BarrierCalls.switch /\ BarrierCalls.event = NoEvent
  BY DEF BarrierCalls, NoCalls
<1> QED BY <1>1, <1>2, <1>3, <1>4

\* Every step keeps the types.
LEMMA NextType == TypeOK /\ [Next]_vars => TypeOK'
<1> SUFFICES ASSUME TypeOK, [Next]_vars PROVE TypeOK'
  OBVIOUS
<1> USE DEF TypeOK
<1>1. ASSUME NEW t \in Threads, NEW e \in Events, ProgramRecord(t, e)
      PROVE  TypeOK'
  <2>1. ProgramTypeOK'
    BY <1>1, ProgramTypes DEF ProgramRecord
  <2> QED BY <1>1, <2>1 DEF ProgramRecord, SerializerTypeOK, ReceiverTypeOK,
             serializer_vars, receiver_vars
<1>2. ASSUME NEW t \in Threads, NEW s \in Stamps, ProgramRecordTok(t, s)
      PROVE  TypeOK'
  <2>1. ProgramTypeOK'
    BY <1>2, ProgramTypes DEF ProgramRecordTok
  <2> QED BY <1>2, <2>1 DEF ProgramRecordTok, SerializerTypeOK, ReceiverTypeOK,
             serializer_vars, receiver_vars
<1>3. ASSUME NEW t \in Threads, NEW s \in Stamps, Buf(t, s) PROVE TypeOK'
  <2>1. ProgramTypeOK'
    BY <1>3, ProgramTypes DEF Buf
  <2>2. SerializerTypeOK'
    BY <1>3, BufType, ReadTypes DEF Buf
  <2> QED BY <1>3, <2>1, <2>2 DEF Buf, ReceiverTypeOK, receiver_vars
<1>4. ASSUME NEW t \in Threads, Death(t) PROVE TypeOK'
  <2>1. ProgramTypeOK'
    BY <1>4, ProgramTypes DEF Death
  <2>2. SerializerTypeOK'
    BY <1>4, ReadTypes, EmptySeq DEF Death
  <2> QED BY <1>4, <2>1, <2>2 DEF Death, ReceiverTypeOK, receiver_vars
<1>5. ASSUME SyncBarrier \/ End PROVE TypeOK'
  <2>1. SerializerTypeOK'
    BY <1>5 DEF SyncBarrier, End, ReadBarrier, SerializerTypeOK, thread_vars,
                Phases
  <2> QED BY <1>5, <2>1 DEF SyncBarrier, End, ProgramTypeOK, ReceiverTypeOK,
             program_vars, receiver_vars
<1>6. ASSUME NEW t \in Threads, Drain(t) PROVE TypeOK'
  <2>1. ProgramTypeOK'
    BY <1>6 DEF Drain, ProgramTypeOK, program_vars
  <2>2. SerializerTypeOK'
    BY <1>6, ProcessTypes, WaitTypes DEF Drain
  <2>3. CASE Receive(ProcessCalls(t))
    BY <2>1, <2>2, <2>3, CallTypes, ReceiveTypes
  <2>4. CASE UNCHANGED receiver_vars
    BY <2>1, <2>2, <2>4 DEF ReceiverTypeOK, receiver_vars
  <2> QED BY <1>6, <2>3, <2>4 DEF Drain
<1>7. CASE FinishDrain
  <2>1. SerializerTypeOK'
    BY <1>7 DEF FinishDrain, EndDrain, SerializerTypeOK, thread_vars, Phases
  <2> QED BY <1>7, <2>1 DEF FinishDrain, ProgramTypeOK, ReceiverTypeOK,
             program_vars, receiver_vars
<1>8. ASSUME NEW t \in Threads, Bury(t) PROVE TypeOK'
  <2>1. ProgramTypeOK'
    BY <1>8 DEF Bury, ProgramTypeOK, program_vars
  <2>2. SerializerTypeOK'
    BY <1>8, ReapTypes DEF Bury
  <2>3. ReceiverTypeOK'
    BY <1>8, CallTypes, ReceiveTypes DEF Bury
  <2> QED BY <2>1, <2>2, <2>3
<1>9. CASE FinishReap
  <2>1. SerializerTypeOK'
    BY <1>9, EmptySeq DEF FinishReap, EndReap, SerializerTypeOK, thread_vars,
                          Phases
  <2>2. ReceiverTypeOK'
    <3>1. ~BarrierCalls.switch /\ BarrierCalls.event = NoEvent
      BY DEF BarrierCalls, NoCalls
    <3> QED BY <1>9, <3>1, ReceiveTypes DEF FinishReap
  <2> QED BY <1>9, <2>1, <2>2 DEF FinishReap, ProgramTypeOK, program_vars
<1>10. CASE UNCHANGED vars
  BY <1>10 DEF vars, program_vars, serializer_vars, receiver_vars,
     ProgramTypeOK, SerializerTypeOK, ReceiverTypeOK
<1> QED BY <1>1, <1>2, <1>3, <1>4, <1>5, <1>6, <1>7, <1>8, <1>9, <1>10
        DEF Next, Program, Serialize, Finished

\* Every variable keeps its type, for every trace and in every build: in
\* particular decoding never takes a stamp for an event, and the receiver is
\* only told of threads and tokens of the trace.
THEOREM TypeCorrect == Spec => []TypeOK
<1>1. Init => TypeOK
  BY InitType
<1>2. TypeOK /\ [Next]_vars => TypeOK'
  BY NextType
<1> QED BY <1>1, <1>2, PTL DEF Spec

-------------------------------------------------------------------------------
(***************************************************************************)
(* The inductive invariant.                                                *)
(***************************************************************************)

\* The decoder never runs off the last Buf: a Buf ends with its stamp.
EndsInStamp ==
  \A t \in Threads : todo[t] # <<>> => todo[t][Len(todo[t])] \in Stamps

LiveNotFresh == live \cap fresh = {}

ProgramInv == TypeOK /\ EndsInStamp /\ LiveNotFresh /\ ReleasedOnce
IInv == ProgramInv /\ ThreadPlaces /\ HeapKeysFresh /\ NoLostWakeup

(***************************************************************************)
(* EndsInStamp.                                                            *)
(***************************************************************************)

\* What decoding leaves of items that end in a stamp.
LEMMA AfterEnds ==
  ASSUME NEW items \in Seq(Items), items # <<>>,
         items[Len(items)] \in Stamps, AfterEvent(items) # <<>>
  PROVE  AfterEvent(items)[Len(AfterEvent(items))] \in Stamps
<1>1. HasEvent(items)
  BY DEF AfterEvent
<1> QED BY <1>1, DecodingKeepsEnd

\* Every step keeps a stamp at the end: what is read ends in one.
LEMMA EndsInStampStep ==
  TypeOK /\ EndsInStamp /\ [Next]_vars => EndsInStamp'
<1> SUFFICES ASSUME TypeOK, EndsInStamp, [Next]_vars,
                    NEW u \in Threads, todo'[u] # <<>>
             PROVE  todo'[u][Len(todo'[u])] \in Stamps
  BY DEF EndsInStamp
<1>0. todo \in [Threads -> Seq(Items)]
  BY DEF TypeOK, SerializerTypeOK
<1>1. ASSUME NEW t \in Threads, NEW s \in Stamps, Buf(t, s)
      PROVE  todo'[u][Len(todo'[u])] \in Stamps
  <2> DEFINE items == BufOf(t, s)
  <2>1. /\ items \in Seq(Items) /\ items # <<>>
        /\ items[Len(items)] \in Stamps
    BY BufType DEF TypeOK
  <2>2. CASE AppendBuf(t, items)
    <3>1. CASE u = t
      <4>1. todo'[u] = todo[t] \o items
        BY <1>0, <2>2, <3>1 DEF AppendBuf
      <4>2. /\ todo[t] \o items \in Seq(Items)
            /\ Len(todo[t] \o items) = Len(todo[t]) + Len(items)
            /\ \A i \in 1 .. Len(todo[t]) + Len(items) :
                 (todo[t] \o items)[i] =
                   IF i <= Len(todo[t]) THEN todo[t][i] ELSE items[i - Len(todo[t])]
        BY <1>0, <2>1, ConcatProperties
      <4>3. Len(items) \in Nat \ {0} /\ Len(todo[t]) \in Nat
        BY <1>0, <2>1, EmptySeq, LenProperties
      <4> DEFINE n == Len(todo[t]) + Len(items)
      <4>4. n \in 1 .. n /\ ~(n <= Len(todo[t])) /\ n - Len(todo[t]) = Len(items)
        BY <4>3
      <4>5. (todo[t] \o items)[n] = items[Len(items)]
        BY <4>2, <4>4
      <4> QED BY <2>1, <4>1, <4>2, <4>5
    <3>2. CASE u # t
      BY <1>0, <2>2, <3>2 DEF AppendBuf, EndsInStamp
    <3> QED BY <3>1, <3>2
  <2>3. CASE StartBuf(t, items)
    <3>1. CASE u = t
      BY <1>0, <2>1, <2>3, <3>1, AfterEnds DEF StartBuf, UpdateLastEvent
    <3>2. CASE u # t
      BY <1>0, <2>3, <3>2 DEF StartBuf, UpdateLastEvent, EndsInStamp
    <3> QED BY <3>1, <3>2
  <2> QED BY <1>1, <2>2, <2>3 DEF Buf, ReadBuf
<1>2. ASSUME NEW t \in Threads, Process(t, allocated)
      PROVE  todo'[u][Len(todo'[u])] \in Stamps
  <2>1. CASE u = t
    <3>1. todo'[t] = AfterEvent(todo[t])
      BY <1>0, <1>2 DEF Process, UpdateLastEvent
    <3>2. todo[t] # <<>>
      BY <2>1, <3>1 DEF AfterEvent, HasEvent
    <3> QED BY <1>0, <2>1, <3>1, <3>2, AfterEnds DEF EndsInStamp
  <2>2. CASE u # t
    BY <1>0, <1>2, <2>2 DEF Process, UpdateLastEvent, EndsInStamp
  <2> QED BY <2>1, <2>2
<1>3. CASE UNCHANGED todo
  BY <1>3 DEF EndsInStamp
<1>4. ASSUME NEW t \in Threads, Drain(t)
      PROVE  Process(t, allocated) \/ UNCHANGED todo
  BY <1>4 DEF Drain, Wait, thread_vars
<1>5. ASSUME NEW t \in Threads, Bury(t) PROVE UNCHANGED todo
  BY <1>5 DEF Bury, Defer, Reap, thread_vars
<1>6. ASSUME NEW t \in Threads, \/ \E e \in Events : ProgramRecord(t, e)
                                \/ \E s \in Stamps : ProgramRecordTok(t, s)
                                \/ Death(t)
      PROVE  UNCHANGED todo
  BY <1>6 DEF ProgramRecord, ProgramRecordTok, Death, ReadDeath, thread_vars,
              serializer_vars
<1>7. SyncBarrier \/ End \/ FinishDrain \/ FinishReap \/ UNCHANGED vars
        => UNCHANGED todo
  BY DEF SyncBarrier, End, ReadBarrier, FinishDrain, EndDrain, FinishReap,
         EndReap, vars, serializer_vars, thread_vars
<1> QED BY <1>1, <1>2, <1>3, <1>4, <1>5, <1>6, <1>7
        DEF Next, Program, Serialize, Finished

(***************************************************************************)
(* ReleasedOnce.  What is held of a thread only ever loses items at its    *)
(* front, gains stamps, or gains one recorded event at its end.            *)
(***************************************************************************)

\* What `next' has of events, `prev' has too, all of them d places later.
ShiftOf(next, prev) ==
  \E d \in Nat : \A i \in DOMAIN next :
    next[i] \in Events => i + d \in DOMAIN prev /\ prev[i + d] = next[i]

\* Two shifts make one.
LEMMA ShiftTransitive ==
  ASSUME NEW n, NEW m, NEW p, DOMAIN n \in SUBSET Nat,
         ShiftOf(n, m), ShiftOf(m, p)
  PROVE  ShiftOf(n, p)
<1>1. PICK d \in Nat : \A i \in DOMAIN n :
        n[i] \in Events => i + d \in DOMAIN m /\ m[i + d] = n[i]
  BY DEF ShiftOf
<1>2. PICK e \in Nat : \A i \in DOMAIN m :
        m[i] \in Events => i + e \in DOMAIN p /\ p[i + e] = m[i]
  BY DEF ShiftOf
<1>3. d + e \in Nat /\ \A i \in DOMAIN n : (i + d) + e = i + (d + e)
  OBVIOUS
<1>4. ASSUME NEW i \in DOMAIN n, n[i] \in Events
      PROVE  i + (d + e) \in DOMAIN p /\ p[i + (d + e)] = n[i]
  BY <1>1, <1>2, <1>3, <1>4
<1> QED BY <1>3, <1>4 DEF ShiftOf

\* What stays as it is has shifted by nothing.
LEMMA ShiftReflexive == \A h : DOMAIN h \in SUBSET Nat => ShiftOf(h, h)
<1> SUFFICES ASSUME NEW h, DOMAIN h \in SUBSET Nat PROVE ShiftOf(h, h)
  OBVIOUS
<1>1. \A i \in DOMAIN h : i + 0 = i
  OBVIOUS
<1> QED BY <1>1 DEF ShiftOf

HeldItems == Items \cup {NoEvent}

\* The places of three joined sequences.
LEMMA Joined ==
  ASSUME NEW x \in HeldItems, NEW a \in Seq(Items), NEW b \in Seq(Items)
  PROVE  LET h == <<x>> \o a \o b
         IN /\ h \in Seq(HeldItems)
            /\ Len(h) = 1 + Len(a) + Len(b)
            /\ DOMAIN h = 1 .. 1 + Len(a) + Len(b)
            /\ h[1] = x
            /\ \A i \in 1 .. Len(a) : h[1 + i] = a[i]
            /\ \A j \in 1 .. Len(b) : h[1 + Len(a) + j] = b[j]
<1>1. /\ <<x>> \in Seq(HeldItems) /\ Len(<<x>>) = 1 /\ <<x>>[1] = x
      /\ a \in Seq(HeldItems) /\ b \in Seq(HeldItems)
  BY SeqMonotonic DEF HeldItems
<1>2. Len(a) \in Nat /\ Len(b) \in Nat
  OBVIOUS
<1> DEFINE xa == <<x>> \o a
<1>3. /\ xa \in Seq(HeldItems) /\ Len(xa) = 1 + Len(a)
      /\ \A i \in 1 .. 1 + Len(a) :
           xa[i] = IF i <= 1 THEN <<x>>[i] ELSE a[i - 1]
  BY <1>1, ConcatProperties
<1>4. /\ xa \o b \in Seq(HeldItems) /\ Len(xa \o b) = Len(xa) + Len(b)
      /\ \A i \in 1 .. Len(xa) + Len(b) :
           (xa \o b)[i] = IF i <= Len(xa) THEN xa[i] ELSE b[i - Len(xa)]
  BY <1>1, <1>3, ConcatProperties
<1>5. DOMAIN (xa \o b) = 1 .. 1 + Len(a) + Len(b)
  BY <1>3, <1>4, LenProperties
<1>6. (xa \o b)[1] = x
  BY <1>1, <1>2, <1>3, <1>4
<1>7. ASSUME NEW i \in 1 .. Len(a) PROVE (xa \o b)[1 + i] = a[i]
  <2>1. 1 + i \in 1 .. 1 + Len(a) /\ ~(1 + i <= 1) /\ (1 + i) - 1 = i
    BY <1>2
  <2> QED BY <1>2, <1>3, <1>4, <2>1
<1>8. ASSUME NEW j \in 1 .. Len(b) PROVE (xa \o b)[1 + Len(a) + j] = b[j]
  <2> DEFINE n == 1 + Len(a) + j
  <2>1. n \in 1 .. 1 + Len(a) + Len(b) /\ ~(n <= 1 + Len(a)) /\ n - (1 + Len(a)) = j
    BY <1>2
  <2> QED BY <1>3, <1>4, <2>1
<1> QED BY <1>3, <1>4, <1>5, <1>6, <1>7, <1>8

\* `next' is what is left of `prev' without its first place and without d of
\* its places in all, none of the others an event.
DropsFront(next, prev, d) ==
  /\ \A i \in DOMAIN next :
       next[i] \in Events => i + d \in DOMAIN prev /\ prev[i + d] = next[i]
  /\ \A j \in DOMAIN prev :
       j > 1 /\ prev[j] \in Events => j - d \in DOMAIN next /\ next[j - d] = prev[j]

\* Decoding one event of `items' only takes away from the front, and no event
\* but the one that was decoded before.
LEMMA DecodingDrops ==
  ASSUME NEW x \in HeldItems, NEW items \in Seq(Items), NEW b \in Seq(Items)
  PROVE  \E d \in Nat :
           /\ items # <<>> => d > 0
           /\ DropsFront(<<NextEvent(items)>> \o AfterEvent(items) \o b,
                         <<x>> \o items \o b, d)
<1> DEFINE after == AfterEvent(items)
           next == <<NextEvent(items)>> \o after \o b
           prev == <<x>> \o items \o b
<1>1. NextEvent(items) \in HeldItems /\ after \in Seq(Items)
  <2>1. CASE HasEvent(items)
    <3>1. FirstEvent(items) \in 1 .. Len(items) /\ items[FirstEvent(items)] \in Events
      BY <2>1, FirstEventFound
    <3>2. \A i \in FirstEvent(items) + 1 .. Len(items) : items[i] \in Items
      BY <3>1
    <3>3. SubSeq(items, FirstEvent(items) + 1, Len(items)) \in Seq(Items)
      BY <3>1, <3>2, SubSeqProperties
    <3> QED BY <2>1, <3>1, <3>3 DEF NextEvent, AfterEvent, HeldItems, Items
  <2>2. CASE ~HasEvent(items)
    BY <2>2, EmptySeq DEF NextEvent, AfterEvent, HeldItems
  <2> QED BY <2>1, <2>2
<1>2. /\ DOMAIN next = 1 .. 1 + Len(after) + Len(b)
      /\ next[1] = NextEvent(items)
      /\ \A i \in 1 .. Len(after) : next[1 + i] = after[i]
      /\ \A j \in 1 .. Len(b) : next[1 + Len(after) + j] = b[j]
  BY <1>1, Joined
<1>3. /\ DOMAIN prev = 1 .. 1 + Len(items) + Len(b)
      /\ \A i \in 1 .. Len(items) : prev[1 + i] = items[i]
      /\ \A j \in 1 .. Len(b) : prev[1 + Len(items) + j] = b[j]
  BY Joined
<1>4. Len(items) \in Nat /\ Len(after) \in Nat /\ Len(b) \in Nat
  BY <1>1
<1>5. CASE HasEvent(items)
  <2> DEFINE f == FirstEvent(items)
  <2>1. f \in 1 .. Len(items) /\ NextEvent(items) = items[f]
    BY <1>5, FirstEventFound DEF NextEvent
  <2>2. \A i \in f + 1 .. Len(items) : items[i] \in Items
    BY <2>1
  <2>3. /\ Len(after) = Len(items) - f
        /\ \A i \in 1 .. Len(items) - f : after[i] = items[(f + 1) + i - 1]
    <3>1. after = SubSeq(items, f + 1, Len(items))
      BY <1>5 DEF AfterEvent
    <3>2. /\ Len(SubSeq(items, f + 1, Len(items))) =
               IF f + 1 <= Len(items) THEN Len(items) - (f + 1) + 1 ELSE 0
          /\ \A i \in 1 .. Len(items) - (f + 1) + 1 :
               SubSeq(items, f + 1, Len(items))[i] = items[(f + 1) + i - 1]
      <4>1. f + 1 \in Int /\ Len(items) \in Int
        BY <1>4, <2>1
      <4> HIDE DEF f
      <4> QED BY <2>2, <4>1, SubSeqProperties
    <3>3. Len(items) - (f + 1) + 1 = Len(items) - f
      BY <1>4, <2>1
    <3> QED BY <1>4, <2>1, <3>1, <3>2, <3>3
  <2>4. ASSUME NEW i \in DOMAIN next
        PROVE  i + f \in DOMAIN prev /\ prev[i + f] = next[i]
    <3>1. CASE i = 1
      BY <1>2, <1>3, <1>4, <2>1, <3>1
    <3>2. CASE i \in 2 .. 1 + Len(after)
      <4> DEFINE k == i - 1
      <4>1. k \in 1 .. Len(after) /\ 1 + k = i
        BY <1>4, <3>2
      <4>2. next[i] = items[f + k]
        <5>1. (f + 1) + k - 1 = f + k
          BY <2>1, <4>1
        <5> QED BY <1>2, <2>3, <4>1, <5>1
      <4>3. f + k \in 1 .. Len(items) /\ 1 + (f + k) = i + f
        <5>1. Len(after) = Len(items) - f
          BY <2>3
        <5> HIDE DEF after, f, k
        <5> QED BY <1>4, <2>1, <4>1, <5>1
      <4>4. prev[1 + (f + k)] = items[f + k]
        BY <1>3, <4>3
      <4>5. i + f \in 1 .. 1 + Len(items) + Len(b)
        <5> HIDE DEF f, k
        <5> QED BY <1>4, <4>3
      <4> QED BY <1>3, <4>2, <4>3, <4>4, <4>5
    <3>3. CASE i \in 2 + Len(after) .. 1 + Len(after) + Len(b)
      <4> DEFINE j == i - 1 - Len(after)
      <4>1. j \in 1 .. Len(b) /\ 1 + Len(after) + j = i
        BY <1>4, <3>3
      <4>2. Len(after) + f = Len(items) /\ f \in Nat /\ j \in Nat
        <5>1. f \in Nat
          BY <1>4, <2>1
        <5>2. j \in Nat
          BY <1>4, <4>1
        <5>3. Len(after) = Len(items) - f
          BY <2>3
        <5> HIDE DEF after, f, j
        <5>4. Len(after) + f = Len(items)
          BY <1>4, <5>1, <5>3
        <5> QED BY <5>1, <5>2, <5>4
      <4>3. 1 + Len(items) + j = i + f
        <5> HIDE DEF after, f, j
        <5>1. i + f = (1 + Len(after) + j) + f
          BY <4>1
        <5>2. (1 + Len(after) + j) + f = 1 + (Len(after) + f) + j
          BY <1>4, <4>2
        <5> QED BY <4>2, <5>1, <5>2
      <4>4. i + f \in 1 .. 1 + Len(items) + Len(b)
        <5>1. j \in 1 .. Len(b)
          BY <4>1
        <5> HIDE DEF after, f, j
        <5>2. 1 + Len(items) + j \in 1 .. 1 + Len(items) + Len(b)
          BY <1>4, <5>1
        <5> QED BY <4>3, <5>2
      <4>5. prev[1 + Len(items) + j] = next[i]
        BY <1>2, <1>3, <4>1
      <4> QED BY <1>3, <4>3, <4>4, <4>5
    <3>4. \/ i = 1 \/ i \in 2 .. 1 + Len(after)
          \/ i \in 2 + Len(after) .. 1 + Len(after) + Len(b)
      <4>1. i \in 1 .. 1 + Len(after) + Len(b)
        BY <1>2
      <4> HIDE DEF after
      <4> QED BY <1>4, <4>1
    <3> QED BY <3>1, <3>2, <3>3, <3>4
  <2>5. f \in Nat /\ f > 0 /\ DOMAIN next = 1 .. 1 + (Len(items) - f) + Len(b)
    BY <1>2, <1>4, <2>1, <2>3
  <2>6. ASSUME NEW j \in DOMAIN prev, j > 1, prev[j] \in Events
        PROVE  j - f \in DOMAIN next /\ next[j - f] = prev[j]
    <3>1. j - 1 \in 1 .. Len(items) => prev[j] = items[j - 1]
      <4>1. j \in Nat /\ 1 + (j - 1) = j
        BY <1>3, <1>4
      <4> QED BY <1>3, <4>1
    <3>2. ~(j - 1 \in 1 .. f - 1)
      <4>1. \A i \in 1 .. f - 1 : items[i] \notin Events
        BY <1>5, FirstEventFound, StampsAreNoEvents
      <4>2. j - 1 \in 1 .. f - 1 => j - 1 \in 1 .. Len(items)
        BY <1>4, <2>1
      <4> QED BY <2>6, <3>1, <4>1, <4>2
    <3>3. j \in 2 .. 1 + Len(items) + Len(b)
      BY <1>3, <1>4, <2>6
    <3>4. f \in 1 .. Len(items)
      BY <2>1
    <3> HIDE DEF f, next, prev, after
    <3>5. j - f \in 1 .. 1 + (Len(items) - f) + Len(b) /\ (j - f) + f = j
      BY <1>4, <3>2, <3>3, <3>4
    <3> QED BY <2>4, <2>5, <3>5
  <2> HIDE DEF f, next, prev
  <2>7. DropsFront(next, prev, f)
    BY <2>4, <2>6 DEF DropsFront
  <2> QED BY <2>5, <2>7 DEF next, prev
<1>6. CASE ~HasEvent(items)
  <2>1. Len(after) = 0 /\ next[1] \notin Events
    BY <1>2, <1>6, EmptySeq DEF AfterEvent, NextEvent, Events
  <2>2. ASSUME NEW i \in DOMAIN next, next[i] \in Events
        PROVE  i + Len(items) \in DOMAIN prev /\ prev[i + Len(items)] = next[i]
    <3> DEFINE j == i - 1
    <3>1. i # 1
      BY <2>1, <2>2
    <3>2. j \in 1 .. Len(b) /\ 1 + Len(after) + j = i
      BY <1>2, <1>4, <2>1, <3>1
    <3>3. 1 + Len(items) + j = i + Len(items)
      BY <1>4, <3>2
    <3>4. i + Len(items) \in 1 .. 1 + Len(items) + Len(b)
      BY <1>4, <3>2
    <3>5. next[i] = b[j] /\ prev[1 + Len(items) + j] = b[j]
      <4> HIDE DEF after, next, prev, j
      <4> QED BY <1>2, <1>3, <3>2
    <3> QED BY <1>3, <3>3, <3>4, <3>5
  <2>3. ASSUME NEW j \in DOMAIN prev, j > 1, prev[j] \in Events
        PROVE  j - Len(items) \in DOMAIN next /\ next[j - Len(items)] = prev[j]
    <3> DEFINE k == j - 1 - Len(items)
    <3>1. j \in Nat /\ 1 + (j - 1) = j
      BY <1>3, <1>4
    <3>2. ~(j - 1 \in 1 .. Len(items))
      BY <1>3, <1>6, <2>3, <3>1 DEF HasEvent
    <3>3. k \in 1 .. Len(b) /\ 1 + Len(items) + k = j
      BY <1>3, <1>4, <2>3, <3>1, <3>2
    <3>4. 1 + Len(after) + k = j - Len(items) /\ j - Len(items) \in DOMAIN next
      BY <1>2, <1>4, <2>1, <3>1, <3>3
    <3>5. next[1 + Len(after) + k] = b[k] /\ prev[1 + Len(items) + k] = b[k]
      BY <1>2, <1>3, <3>3
    <3> HIDE DEF next, prev, after, k
    <3> QED BY <3>3, <3>4, <3>5
  <2>4. DropsFront(next, prev, Len(items))
    BY <2>2, <2>3 DEF DropsFront
  <2>5. items # <<>> => Len(items) > 0
    BY <1>4, EmptySeq
  <2> HIDE DEF next, prev
  <2> QED BY <1>4, <2>4, <2>5 DEF next, prev
<1> QED BY <1>5, <1>6

\* In particular, decoding is a shift.
LEMMA DecodingShifts ==
  ASSUME NEW x \in HeldItems, NEW items \in Seq(Items), NEW b \in Seq(Items)
  PROVE  ShiftOf(<<NextEvent(items)>> \o AfterEvent(items) \o b,
                 <<x>> \o items \o b)
BY DecodingDrops DEF DropsFront, ShiftOf

\* Joined, three sequences of held things are one that starts with the first.
LEMMA JoinedType ==
  ASSUME NEW x \in HeldItems, NEW a \in Seq(Items), NEW b \in Seq(Items)
  PROVE  /\ <<x>> \o a \o b \in Seq(HeldItems)
         /\ DOMAIN (<<x>> \o a \o b) = 1 .. 1 + Len(a) + Len(b)
         /\ DOMAIN (<<x>> \o a \o b) \in SUBSET Nat
         /\ 1 \in DOMAIN (<<x>> \o a \o b)
         /\ (<<x>> \o a \o b)[1] = x
<1> DEFINE h == <<x>> \o a \o b
<1>1. /\ h \in Seq(HeldItems)
      /\ DOMAIN h = 1 .. 1 + Len(a) + Len(b)
      /\ h[1] = x
  <2>1. h \in Seq(HeldItems)
    BY Joined
  <2>2. DOMAIN h = 1 .. 1 + Len(a) + Len(b)
    BY Joined
  <2>3. h[1] = x
    BY Joined
  <2> HIDE DEF h
  <2> QED BY <2>1, <2>2, <2>3
<1>2. Len(a) \in Nat /\ Len(b) \in Nat
  OBVIOUS
<1>3. 1 .. 1 + Len(a) + Len(b) \in SUBSET Nat /\ 1 \in 1 .. 1 + Len(a) + Len(b)
  BY <1>2
<1> QED BY <1>1, <1>3

\* The parts of what is held of a thread.
LEMMA HeldParts ==
  ASSUME TypeOK, NEW t \in Threads
  PROVE  /\ last_event[t] \in HeldItems
         /\ todo[t] \in Seq(Items) /\ buffer[t] \in Seq(Items)
BY DEF TypeOK, SerializerTypeOK, ProgramTypeOK, HeldItems, Items

\* What is held of a thread starts with its decoded event.
LEMMA HeldType ==
  ASSUME TypeOK, NEW t \in Threads
  PROVE  /\ Held(t) \in Seq(HeldItems)
         /\ DOMAIN Held(t) \in SUBSET Nat
         /\ Held(t)[1] = last_event[t] /\ 1 \in DOMAIN Held(t)
<1>1. /\ last_event[t] \in HeldItems
      /\ todo[t] \in Seq(Items) /\ buffer[t] \in Seq(Items)
  BY HeldParts
<1> DEFINE x == last_event[t]
           a == todo[t]
           b == buffer[t]
<1>2. Held(t) = <<x>> \o a \o b
  BY DEF Held
<1> HIDE DEF x, a, b
<1>3. x \in HeldItems /\ a \in Seq(Items) /\ b \in Seq(Items)
  BY <1>1 DEF x, a, b
<1>4. /\ <<x>> \o a \o b \in Seq(HeldItems)
      /\ DOMAIN (<<x>> \o a \o b) \in SUBSET Nat
      /\ 1 \in DOMAIN (<<x>> \o a \o b)
      /\ (<<x>> \o a \o b)[1] = x
  BY <1>3, JoinedType
<1> QED BY <1>2, <1>4 DEF x

\* The same of the next state.
LEMMA HeldTypeNext ==
  ASSUME TypeOK', NEW t \in Threads
  PROVE  /\ Held(t)' \in Seq(HeldItems)
         /\ DOMAIN Held(t)' \in SUBSET Nat
         /\ Held(t)'[1] = last_event'[t] /\ 1 \in DOMAIN Held(t)'
<1>1. /\ last_event'[t] \in HeldItems
      /\ todo'[t] \in Seq(Items) /\ buffer'[t] \in Seq(Items)
  BY DEF TypeOK, SerializerTypeOK, ProgramTypeOK, HeldItems, Items
<1> DEFINE x == last_event'[t]
           a == todo'[t]
           b == buffer'[t]
<1>2. Held(t)' = <<x>> \o a \o b
  BY DEF Held
<1> HIDE DEF x, a, b
<1>3. x \in HeldItems /\ a \in Seq(Items) /\ b \in Seq(Items)
  BY <1>1 DEF x, a, b
<1>4. /\ <<x>> \o a \o b \in Seq(HeldItems)
      /\ DOMAIN (<<x>> \o a \o b) \in SUBSET Nat
      /\ 1 \in DOMAIN (<<x>> \o a \o b)
      /\ (<<x>> \o a \o b)[1] = x
  BY <1>3, JoinedType
<1> QED BY <1>2, <1>4 DEF x

\* A step that only shifts what is held, and hands out no token, keeps
\* ReleasedOnce.
LEMMA ShiftPreserves ==
  ASSUME TypeOK, TypeOK', ReleasedOnce,
         live' \cup fresh' \subseteq live \cup fresh,
         \A u \in Threads : ShiftOf(Held(u)', Held(u))
  PROVE  ReleasedOnce'
<1> SUFFICES ASSUME NEW tok \in Tokens, NEW t \in Threads, NEW i \in DOMAIN Held(t)',
                    Releases(t, i, tok)'
             PROVE  /\ tok \notin live' \cup fresh'
                    /\ \A u \in Threads : \A j \in DOMAIN Held(u)' :
                         Releases(u, j, tok)' => u = t /\ j = i
  BY DEF ReleasedOnce
<1>1. \A u \in Threads : DOMAIN Held(u)' \in SUBSET Nat
  BY HeldTypeNext
<1>2. PICK d \in Nat : \A k \in DOMAIN Held(t)' :
        Held(t)'[k] \in Events =>
          k + d \in DOMAIN Held(t) /\ Held(t)[k + d] = Held(t)'[k]
  BY DEF ShiftOf
<1>3. i + d \in DOMAIN Held(t) /\ Releases(t, i + d, tok)
  BY <1>2 DEF Releases
<1>4. /\ tok \notin live \cup fresh
      /\ \A u \in Threads : \A j \in DOMAIN Held(u) :
           Releases(u, j, tok) => u = t /\ j = i + d
  BY <1>3 DEF ReleasedOnce
<1>5. ASSUME NEW u \in Threads, NEW j \in DOMAIN Held(u)', Releases(u, j, tok)'
      PROVE  u = t /\ j = i
  <2>1. PICK e \in Nat : \A k \in DOMAIN Held(u)' :
          Held(u)'[k] \in Events =>
            k + e \in DOMAIN Held(u) /\ Held(u)[k + e] = Held(u)'[k]
    BY DEF ShiftOf
  <2>2. j + e \in DOMAIN Held(u) /\ Releases(u, j + e, tok)
    BY <1>5, <2>1 DEF Releases
  <2>3. u = t
    BY <1>4, <2>2
  <2>4. j + d \in DOMAIN Held(t) /\ Releases(t, j + d, tok)
    BY <1>2, <1>5, <2>3 DEF Releases
  <2>5. j + d = i + d
    BY <1>4, <2>4
  <2>6. i \in Nat /\ j \in Nat
    BY <1>1
  <2> QED BY <2>3, <2>5, <2>6
<1> QED BY <1>4, <1>5

\* An item more at the end of the last of three joined sequences.
LEMMA JoinedAppend ==
  ASSUME NEW x \in HeldItems, NEW a \in Seq(Items), NEW b \in Seq(Items),
         NEW e \in Items
  PROVE  <<x>> \o a \o Append(b, e) = Append(<<x>> \o a \o b, e)
<1>1. /\ <<x>> \in Seq(HeldItems) /\ <<e>> \in Seq(HeldItems)
      /\ a \in Seq(HeldItems) /\ b \in Seq(HeldItems) /\ e \in HeldItems
  BY SeqMonotonic DEF HeldItems
<1> DEFINE xa == <<x>> \o a
<1>2. xa \in Seq(HeldItems)
  BY <1>1, ConcatProperties
<1> HIDE DEF xa
<1>3. xa \o b \in Seq(HeldItems)
  BY <1>1, <1>2, ConcatProperties
<1>4. Append(b, e) = b \o <<e>> /\ Append(xa \o b, e) = (xa \o b) \o <<e>>
  BY <1>1, <1>3, AppendIsConcat
<1>5. xa \o (b \o <<e>>) = (xa \o b) \o <<e>>
  BY <1>1, <1>2, ConcatAssociative
<1> QED BY <1>4, <1>5 DEF xa

\* A recorded event is one more at the end of what is held.
LEMMA RecordPreserves ==
  ASSUME TypeOK, TypeOK', ReleasedOnce, LiveNotFresh,
         NEW t \in Threads, NEW e \in Events, ProgramRecord(t, e)
  PROVE  ReleasedOnce'
<1>1. \A u \in Threads :
        /\ last_event'[u] = last_event[u]
        /\ todo'[u] = todo[u]
        /\ buffer'[u] = IF u = t THEN Append(buffer[u], e) ELSE buffer[u]
  BY DEF ProgramRecord, Record, serializer_vars, TypeOK, ProgramTypeOK
<1>2. \A u \in Threads :
        /\ last_event[u] \in HeldItems
        /\ todo[u] \in Seq(Items) /\ buffer[u] \in Seq(Items)
        /\ buffer'[u] \in Seq(Items)
  BY DEF TypeOK, SerializerTypeOK, ProgramTypeOK, HeldItems, Items
<1> DEFINE h == Held(t)
           n == Len(h)
<1>3. /\ \A u \in Threads : DOMAIN Held(u) \in SUBSET Nat
      /\ h \in Seq(HeldItems)
  BY HeldType
<1>4. ASSUME NEW u \in Threads, u # t PROVE Held(u)' = Held(u)
  BY <1>1, <1>4 DEF Held
<1>5. /\ DOMAIN h = 1 .. n /\ n \in Nat
      /\ DOMAIN Held(t)' = 1 .. n + 1
      /\ \A i \in 1 .. n : Held(t)'[i] = Held(t)[i]
      /\ Held(t)'[n + 1] = e
  <2>1. Held(t)' = <<last_event[t]>> \o todo[t] \o Append(buffer[t], e)
    BY <1>1 DEF Held
  <2>2. <<last_event[t]>> \o todo[t] \o Append(buffer[t], e) =
          Append(<<last_event[t]>> \o todo[t] \o buffer[t], e)
    <3> DEFINE x == last_event[t]
               a == todo[t]
               b == buffer[t]
    <3>1. x \in HeldItems /\ a \in Seq(Items) /\ b \in Seq(Items) /\ e \in Items
      BY <1>2 DEF Items
    <3> HIDE DEF x, a, b
    <3>2. <<x>> \o a \o Append(b, e) = Append(<<x>> \o a \o b, e)
      BY <3>1, JoinedAppend
    <3> QED BY <3>2 DEF x, a, b
  <2>3. Held(t)' = Append(h, e)
    BY <2>1, <2>2 DEF Held
  <2>4. e \in HeldItems
    BY DEF HeldItems, Items
  <2> HIDE DEF h
  <2>5. /\ DOMAIN h = 1 .. n /\ n \in Nat
        /\ DOMAIN Append(h, e) = 1 .. n + 1
        /\ \A i \in 1 .. n : Append(h, e)[i] = h[i]
        /\ Append(h, e)[n + 1] = e
    BY <1>3, <2>4, AppendProperties, LenProperties
  <2> QED BY <2>3, <2>5 DEF h
<1>6. ASSUME NEW tok \in Tokens, NEW u \in Threads, NEW i \in DOMAIN Held(u)',
             Releases(u, i, tok)'
      PROVE  \/ i \in DOMAIN Held(u) /\ Releases(u, i, tok)
             \/ u = t /\ i = n + 1 /\ e.old = tok
  <2>1. CASE u # t
    BY <1>4, <1>6, <2>1 DEF Releases
  <2>2. CASE u = t /\ i = n + 1
    BY <1>5, <1>6, <2>2 DEF Releases
  <2>3. CASE u = t /\ i # n + 1
    <3>1. i \in 1 .. n
      BY <1>5, <1>6, <2>3
    <3> QED BY <1>5, <1>6, <2>3, <3>1 DEF Releases
  <2> QED BY <2>1, <2>2, <2>3
<1>7. /\ e.old \in Tokens => e.old \in live
      /\ e.new \in fresh \cup {NoTok}
      /\ live' = (live \ {e.old}) \cup ({e.new} \ {NoTok})
      /\ fresh' = fresh \ {e.new}
  BY TokensAssumption DEF ProgramRecord, Record
<1>8. ASSUME NEW tok \in Tokens, NEW u \in Threads, NEW i \in DOMAIN Held(u)',
             Releases(u, i, tok)'
      PROVE  tok \notin live' \cup fresh'
  <2>1. CASE i \in DOMAIN Held(u) /\ Releases(u, i, tok)
    BY <1>7, <2>1 DEF ReleasedOnce
  <2>2. CASE e.old = tok
    BY <1>7, <2>2, TokensAssumption DEF LiveNotFresh
  <2> QED BY <1>6, <1>8, <2>1, <2>2
<1>9. ASSUME NEW tok \in Tokens,
             NEW u \in Threads, NEW i \in DOMAIN Held(u)', Releases(u, i, tok)',
             NEW v \in Threads, NEW j \in DOMAIN Held(v)', Releases(v, j, tok)'
      PROVE  v = u /\ j = i
  <2>1. CASE e.old = tok
    <3>1. tok \in live
      BY <1>7, <2>1
    <3>2. \A w \in Threads : \A k \in DOMAIN Held(w) : ~Releases(w, k, tok)
      BY <3>1 DEF ReleasedOnce
    <3> QED BY <1>6, <1>9, <3>2
  <2>2. CASE e.old # tok
    <3>1. i \in DOMAIN Held(u) /\ Releases(u, i, tok)
      BY <1>6, <1>9, <2>2
    <3>2. j \in DOMAIN Held(v) /\ Releases(v, j, tok)
      BY <1>6, <1>9, <2>2
    <3> QED BY <3>1, <3>2 DEF ReleasedOnce
  <2> QED BY <2>1, <2>2
<1> QED BY <1>8, <1>9 DEF ReleasedOnce
LEMMA AppendStampShifts ==
  ASSUME NEW h \in Seq(HeldItems), NEW s \in Stamps
  PROVE  ShiftOf(Append(h, s), h)
<1> DEFINE k == Append(h, s)
           n == Len(h)
<1>1. s \in HeldItems
  BY DEF HeldItems, Items
<1>2. /\ DOMAIN h = 1 .. n /\ n \in Nat
      /\ DOMAIN k = 1 .. n + 1
      /\ \A i \in 1 .. n : k[i] = h[i]
      /\ k[n + 1] = s
  BY <1>1, AppendProperties, LenProperties
<1>3. s \notin Events
  BY StampsAreNoEvents
<1> HIDE DEF k, n
<1>4. ASSUME NEW i \in DOMAIN k, k[i] \in Events
      PROVE  i + 0 \in DOMAIN h /\ h[i + 0] = k[i]
  <2>1. i \in 1 .. n /\ i + 0 = i
    BY <1>2, <1>3, <1>4
  <2> QED BY <1>2, <2>1
<1> QED BY <1>4 DEF ShiftOf, k

\* A Buf moves what was recorded behind what waits to be decoded.
LEMMA JoinedBuf ==
  ASSUME NEW x \in HeldItems, NEW a \in Seq(Items), NEW b \in Seq(Items),
         NEW s \in Stamps
  PROVE  <<x>> \o (a \o Append(b, s)) \o <<>> = Append(<<x>> \o a \o b, s)
<1> DEFINE c == Append(b, s)
<1>1. /\ <<x>> \in Seq(HeldItems) /\ a \in Seq(HeldItems) /\ s \in Items
      /\ c \in Seq(HeldItems)
  BY SeqMonotonic, AppendProperties DEF HeldItems, Items
<1>2. <<x>> \o a \o c = Append(<<x>> \o a \o b, s)
  BY <1>1, JoinedAppend
<1> HIDE DEF c
<1>3. (<<x>> \o a) \o c = <<x>> \o (a \o c)
  BY <1>1, ConcatAssociative
<1>4. (<<x>> \o (a \o c)) \o <<>> = <<x>> \o (a \o c)
  BY <1>1, ConcatProperties, ConcatEmptySeq
<1> QED BY <1>2, <1>3, <1>4 DEF c

\* Reading a Buf shifts what is held of its thread.
LEMMA BufShifts ==
  ASSUME TypeOK, NEW t \in Threads, NEW s \in Stamps, Buf(t, s)
  PROVE  \A u \in Threads : ShiftOf(Held(u)', Held(u))
<1> DEFINE x == last_event[t]
           a == todo[t]
           b == buffer[t]
           items == Append(b, s)
           h == <<x>> \o a \o b
<1>1. x \in HeldItems /\ a \in Seq(Items) /\ b \in Seq(Items)
  BY HeldParts
<1>2. h = Held(t) /\ h \in Seq(HeldItems)
  BY HeldType DEF Held
<1>3. ShiftOf(Append(h, s), h)
  <2> HIDE DEF h
  <2> QED BY <1>2, AppendStampShifts
<1>4. /\ last_event \in [Threads -> Events \cup {NoEvent}]
      /\ todo \in [Threads -> Seq(Items)]
      /\ buffer \in [Threads -> Seq(Items)]
  BY DEF TypeOK, SerializerTypeOK, ProgramTypeOK
<1>5. ASSUME NEW u \in Threads, u # t PROVE ShiftOf(Held(u)', Held(u))
  <2>1. Held(u)' = Held(u)
    BY <1>4, <1>5 DEF Buf, Flush, ReadBuf, AppendBuf, StartBuf, UpdateLastEvent, Held
  <2> QED BY <2>1, HeldType, ShiftReflexive
<1>6. buffer'[t] = <<>>
  BY <1>4 DEF Buf, Flush
<1>7. CASE AppendBuf(t, items)
  <2>1. Held(t)' = <<x>> \o (a \o items) \o <<>>
    BY <1>4, <1>6, <1>7 DEF AppendBuf, Held
  <2> HIDE DEF x, a, b
  <2>2. <<x>> \o (a \o items) \o <<>> = Append(h, s)
    BY <1>1, JoinedBuf
  <2>3. Held(t)' = Append(h, s)
    BY <2>1, <2>2
  <2> QED BY <1>2, <1>3, <1>5, <2>3
<1>8. CASE StartBuf(t, items)
  <2> DEFINE next == <<NextEvent(items)>> \o AfterEvent(items) \o <<>>
             mid == <<x>> \o items \o <<>>
  <2>1. Held(t)' = next
    BY <1>4, <1>6, <1>8 DEF StartBuf, UpdateLastEvent, Held
  <2>2. items \in Seq(Items)
    BY <1>1, AppendProperties DEF Items
  <2>3. ShiftOf(next, mid)
    <3> HIDE DEF items, x
    <3> QED BY <1>1, <2>2, EmptySeq, DecodingShifts
  <2>4. a = <<>>
    BY <1>8 DEF StartBuf
  <2> HIDE DEF x, a, b
  <2>5. <<x>> \o (a \o items) \o <<>> = Append(h, s)
    BY <1>1, JoinedBuf
  <2> HIDE DEF items
  <2>6. a \o items = items
    BY <2>2, <2>4, ConcatEmptySeq
  <2>7. mid = Append(h, s)
    BY <2>5, <2>6
  <2>8. DOMAIN next \in SUBSET Nat
    <3>1. NextEvent(items) \in HeldItems /\ AfterEvent(items) \in Seq(Items)
      BY <2>2, DecodingTypes DEF HeldItems, Items
    <3> QED BY <3>1, EmptySeq, JoinedType
  <2> HIDE DEF next, mid, h
  <2>9. ShiftOf(next, h)
    BY <1>3, <2>3, <2>7, <2>8, ShiftTransitive
  <2> QED BY <1>2, <1>5, <2>1, <2>9
<1> QED BY <1>7, <1>8 DEF Buf, ReadBuf, BufOf

\* So does processing an event.
LEMMA ProcessShifts ==
  ASSUME TypeOK, NEW t \in Threads, Process(t, allocated), UNCHANGED program_vars
  PROVE  \A u \in Threads : ShiftOf(Held(u)', Held(u))
<1> DEFINE x == last_event[t]
           a == todo[t]
           b == buffer[t]
<1>1. x \in HeldItems /\ a \in Seq(Items) /\ b \in Seq(Items)
  BY HeldParts
<1>2. /\ last_event \in [Threads -> Events \cup {NoEvent}]
      /\ todo \in [Threads -> Seq(Items)]
  BY DEF TypeOK, SerializerTypeOK
<1>3. Held(t)' = <<NextEvent(a)>> \o AfterEvent(a) \o b
  BY <1>2 DEF Process, UpdateLastEvent, program_vars, Held
<1>4. Held(t) = <<x>> \o a \o b
  BY DEF Held
<1>5. ASSUME NEW u \in Threads, u # t PROVE ShiftOf(Held(u)', Held(u))
  <2>1. Held(u)' = Held(u)
    BY <1>2, <1>5 DEF Process, UpdateLastEvent, program_vars, Held
  <2> QED BY <2>1, HeldType, ShiftReflexive
<1> HIDE DEF x, a, b
<1>6. ShiftOf(<<NextEvent(a)>> \o AfterEvent(a) \o b, <<x>> \o a \o b)
  BY <1>1, DecodingShifts
<1> QED BY <1>3, <1>4, <1>5, <1>6
LEMMA ShiftStep ==
  ASSUME TypeOK, TypeOK', ReleasedOnce, LiveNotFresh, [Next]_vars
  PROVE  ReleasedOnce'
<1>1. ASSUME NEW t \in Threads, NEW e \in Events, ProgramRecord(t, e)
      PROVE  ReleasedOnce'
  BY <1>1, RecordPreserves
<1>2. ASSUME NEW t \in Threads, NEW s \in Stamps, ProgramRecordTok(t, s)
      PROVE  ReleasedOnce'
  <2>1. buffer \in [Threads -> Seq(Items)] /\ s \in Items
    BY DEF TypeOK, ProgramTypeOK, Items
  <2>2. ASSUME NEW u \in Threads, u # t PROVE ShiftOf(Held(u)', Held(u))
    <3>1. Held(u)' = Held(u)
      BY <1>2, <2>1, <2>2 DEF ProgramRecordTok, RecordTok, serializer_vars, Held
    <3> QED BY <3>1, HeldType, ShiftReflexive
  <2>3. ShiftOf(Held(t)', Held(t))
    <3> DEFINE x == last_event[t]
               a == todo[t]
               b == buffer[t]
               h == <<x>> \o a \o b
    <3>1. Held(t)' = <<x>> \o a \o Append(b, s) /\ h = Held(t)
      BY <1>2, <2>1 DEF ProgramRecordTok, RecordTok, serializer_vars, Held
    <3>2. x \in HeldItems /\ a \in Seq(Items) /\ b \in Seq(Items)
      BY HeldParts
    <3> HIDE DEF x, a, b
    <3>3. <<x>> \o a \o Append(b, s) = Append(h, s)
      BY <2>1, <3>2, JoinedAppend
    <3> HIDE DEF h
    <3>4. h \in Seq(HeldItems)
      BY <3>1, HeldType
    <3>5. ShiftOf(Append(h, s), h)
      BY <3>4, AppendStampShifts
    <3> QED BY <3>1, <3>3, <3>5
  <2>4. UNCHANGED <<live, fresh>>
    BY <1>2 DEF ProgramRecordTok, RecordTok
  <2> QED BY <2>2, <2>3, <2>4, ShiftPreserves
<1>3. ASSUME NEW t \in Threads, NEW s \in Stamps, Buf(t, s)
      PROVE  ReleasedOnce'
  <2>1. UNCHANGED <<live, fresh>>
    BY <1>3 DEF Buf, Flush
  <2> QED BY <1>3, <2>1, BufShifts, ShiftPreserves
<1>4. ASSUME NEW t \in Threads, Process(t, allocated), UNCHANGED program_vars
      PROVE  ReleasedOnce'
  <2>1. UNCHANGED <<live, fresh>>
    BY <1>4 DEF program_vars
  <2> QED BY <1>4, <2>1, ProcessShifts, ShiftPreserves
<1>5. CASE UNCHANGED <<last_event, todo, buffer, live, fresh>>
  <2>1. ASSUME NEW u \in Threads PROVE ShiftOf(Held(u)', Held(u))
    <3>1. Held(u)' = Held(u)
      BY <1>5 DEF Held
    <3> QED BY <3>1, HeldType, ShiftReflexive
  <2> QED BY <1>5, <2>1, ShiftPreserves
<1>6. ASSUME NEW t \in Threads, Death(t) \/ Bury(t)
      PROVE  UNCHANGED <<last_event, todo, buffer, live, fresh>>
  BY <1>6 DEF Death, Exit, ReadDeath, Bury, Defer, Reap, thread_vars, program_vars
<1>7. ASSUME NEW t \in Threads, Drain(t)
      PROVE  \/ Process(t, allocated) /\ UNCHANGED program_vars
             \/ UNCHANGED <<last_event, todo, buffer, live, fresh>>
  BY <1>7 DEF Drain, Wait, thread_vars, program_vars
<1>8. SyncBarrier \/ End \/ FinishDrain \/ FinishReap \/ UNCHANGED vars
        => UNCHANGED <<last_event, todo, buffer, live, fresh>>
  BY DEF SyncBarrier, End, ReadBarrier, FinishDrain, EndDrain, FinishReap,
         EndReap, vars, serializer_vars, thread_vars, program_vars
<1> QED BY <1>1, <1>2, <1>3, <1>4, <1>5, <1>6, <1>7, <1>8
        DEF Next, Program, Serialize, Finished

\* Every step keeps a live token handed out.
LEMMA LiveNotFreshStep ==
  ASSUME LiveNotFresh, [Next]_vars PROVE LiveNotFresh'
<1>1. ASSUME NEW t \in Threads, NEW e \in Events, ProgramRecord(t, e)
      PROVE  LiveNotFresh'
  BY <1>1 DEF ProgramRecord, Record, LiveNotFresh
<1>2. ASSUME NEW t \in Threads, \/ \E s \in Stamps : ProgramRecordTok(t, s) \/ Buf(t, s)
                                \/ Death(t) \/ Drain(t) \/ Bury(t)
      PROVE  UNCHANGED <<live, fresh>>
  BY <1>2 DEF ProgramRecordTok, RecordTok, Buf, Flush, Death, Exit, Drain, Bury,
              program_vars
<1>3. SyncBarrier \/ End \/ FinishDrain \/ FinishReap \/ UNCHANGED vars
        => UNCHANGED <<live, fresh>>
  BY DEF SyncBarrier, End, FinishDrain, FinishReap, vars, program_vars
<1> QED BY <1>1, <1>2, <1>3 DEF Next, Program, Serialize, Finished, LiveNotFresh

\* Every step keeps what the places rest on.
LEMMA ProgramInvStep == ProgramInv /\ [Next]_vars => ProgramInv'
BY NextType, EndsInStampStep, ShiftStep, LiveNotFreshStep DEF ProgramInv

\* It holds at the start.
LEMMA ProgramInvInit == Init => ProgramInv
<1> SUFFICES ASSUME Init PROVE ProgramInv
  OBVIOUS
<1>1. TypeOK
  BY InitType
<1>2. EndsInStamp /\ LiveNotFresh
  BY DEF Init, ProgramInit, SerializerInit, EndsInStamp, LiveNotFresh
<1>3. ASSUME NEW t \in Threads, NEW i \in DOMAIN Held(t)
      PROVE  Held(t)[i] \notin Events
  <2>1. Held(t) = <<NoEvent>> \o <<>> \o <<>>
    BY DEF Init, ProgramInit, SerializerInit, Held
  <2>2. NoEvent \in HeldItems /\ <<>> \in Seq(Items)
    BY DEF HeldItems
  <2>3. /\ DOMAIN (<<NoEvent>> \o <<>> \o <<>>) = 1 .. 1 + Len(<<>>) + Len(<<>>)
        /\ (<<NoEvent>> \o <<>> \o <<>>)[1] = NoEvent
    BY <2>2, JoinedType
  <2>4. DOMAIN Held(t) = 1 .. 1 /\ Held(t)[1] = NoEvent
    BY <2>1, <2>3
  <2> QED BY <2>4 DEF Events
<1> QED BY <1>1, <1>2, <1>3 DEF ProgramInv, ReleasedOnce, Releases
(***************************************************************************)
(* ThreadPlaces and HeapKeysFresh.                                         *)
(***************************************************************************)
Waiting == {pending_frees[tok] : tok \in DOMAIN pending_frees}

\* No thread waits under two tokens.
LEMMA WaitingOnce ==
  ASSUME ThreadPlaces, NEW k \in DOMAIN pending_frees, NEW m \in DOMAIN pending_frees,
         pending_frees[k] = pending_frees[m]
  PROVE  k = m
BY DEF ThreadPlaces

\* A thread that is read of for the first time goes to the heap if it has an
\* event, and is nowhere otherwise.
LEMMA StartPlaces ==
  ASSUME TypeOK, ThreadPlaces, HeapKeysFresh,
         NEW t \in Threads, NEW s \in Stamps, StartBuf(t, BufOf(t, s))
  PROVE  ThreadPlaces' /\ HeapKeysFresh'
<1> DEFINE items == BufOf(t, s)
<1>1. /\ items \in Seq(Items) /\ items # <<>>
      /\ items[Len(items)] \in Stamps
  BY BufType DEF TypeOK
<1>2. AfterEvent(items) # <<>> <=> HasEvent(items)
  BY <1>1, DecodingKeepsEnd DEF AfterEvent
<1>3. /\ todo \in [Threads -> Seq(Items)]
      /\ last_event \in [Threads -> Events \cup {NoEvent}]
      /\ last_stamp \in [Threads -> Stamps]
  BY DEF TypeOK, SerializerTypeOK
<1>4. /\ todo[t] = <<>>
      /\ todo' = [todo EXCEPT ![t] = AfterEvent(items)]
      /\ last_event' = [last_event EXCEPT ![t] = NextEvent(items)]
      /\ last_stamp' = StampsAfter(t, items)
      /\ heap' = IF HasEvent(items)
                 THEN With(heap, t, StampsAfter(t, items)[t].ts) ELSE heap
      /\ UNCHANGED <<in_pending_frees, pending_frees>>
  BY DEF StartBuf, UpdateLastEvent
<1>5. t \notin DOMAIN heap \cup Waiting
  BY <1>4 DEF ThreadPlaces, Waiting
<1>6. DOMAIN heap' = IF HasEvent(items) THEN DOMAIN heap \cup {t} ELSE DOMAIN heap
  BY <1>4 DEF With
<1>7. \A u \in Threads : u # t =>
        todo'[u] = todo[u] /\ last_event'[u] = last_event[u] /\ last_stamp'[u] = last_stamp[u]
  BY <1>3, <1>4 DEF StampsAfter
<1>8. todo'[t] = AfterEvent(items)
  BY <1>3, <1>4
<1> HIDE DEF items
<1>9. \A u \in Threads : todo'[u] # <<>> <=> u \in DOMAIN heap' \cup Waiting
  <2>1. \A u \in Threads : todo[u] # <<>> <=> u \in DOMAIN heap \cup Waiting
    BY DEF ThreadPlaces, Waiting
  <2> QED BY <1>2, <1>5, <1>6, <1>7, <1>8, <2>1
<1>10. \A tok \in DOMAIN pending_frees : last_event'[pending_frees[tok]].old = tok
  <2>1. \A tok \in DOMAIN pending_frees :
          pending_frees[tok] \in Threads /\ pending_frees[tok] # t
    BY <1>5 DEF Waiting, TypeOK, SerializerTypeOK
  <2> QED BY <1>7, <2>1 DEF ThreadPlaces
<1>11. ThreadPlaces'
  <2>1. Waiting' = Waiting /\ in_pending_frees' = Waiting
    BY <1>4 DEF Waiting, ThreadPlaces
  <2>2. DOMAIN heap' \cap Waiting = {}
    BY <1>5, <1>6 DEF ThreadPlaces, Waiting
  <2> QED BY <1>4, <1>9, <1>10, <2>1, <2>2 DEF ThreadPlaces, Waiting
<1>12. ASSUME NEW u \in DOMAIN heap' PROVE heap'[u] = last_stamp'[u].ts
  <2>1. CASE u = t
    BY <1>4, <1>5, <1>6, <1>12, <2>1 DEF With
  <2>2. CASE u # t
    <3>1. u \in DOMAIN heap /\ heap'[u] = heap[u]
      BY <1>4, <1>6, <1>12, <2>2 DEF With
    <3>2. u \in Threads
      BY <3>1 DEF TypeOK, SerializerTypeOK
    <3> QED BY <1>7, <2>2, <3>1, <3>2 DEF HeapKeysFresh
  <2> QED BY <2>1, <2>2
<1> QED BY <1>11, <1>12 DEF HeapKeysFresh
LEMMA ProcessPlaces ==
  ASSUME TypeOK, EndsInStamp, ThreadPlaces, HeapKeysFresh,
         NEW t \in Threads, Process(t, allocated)
  PROVE  ThreadPlaces' /\ HeapKeysFresh'
<1> DEFINE tok == last_event[t].new
           stamps == StampsAfter(t, todo[t])
           queue == Requeue(t, stamps[t].ts)
           woken == Waiter(tok)
<1>1. /\ todo \in [Threads -> Seq(Items)]
      /\ last_event \in [Threads -> Events \cup {NoEvent}]
      /\ last_stamp \in [Threads -> Stamps]
      /\ DOMAIN heap \in SUBSET Threads
      /\ pending_frees \in [DOMAIN pending_frees -> Threads]
  BY DEF TypeOK, SerializerTypeOK
<1>2. /\ todo' = [todo EXCEPT ![t] = AfterEvent(todo[t])]
      /\ last_event' = [last_event EXCEPT ![t] = NextEvent(todo[t])]
      /\ last_stamp' = stamps
      /\ heap' = WakeInto(queue, tok, stamps)
      /\ in_pending_frees' = in_pending_frees \ woken
      /\ pending_frees' = Without(pending_frees, tok)
      /\ t \in DOMAIN heap
  BY DEF Process, NewTok, UpdateLastEvent, IsTop
<1>3. /\ \A u \in Threads : todo[u] # <<>> <=> u \in DOMAIN heap \cup Waiting
      /\ DOMAIN heap \cap Waiting = {} /\ in_pending_frees = Waiting
      /\ \A k \in DOMAIN pending_frees : last_event[pending_frees[k]].old = k
  BY DEF ThreadPlaces, Waiting
<1>4. AfterEvent(todo[t]) # <<>> <=> HasEvent(todo[t])
  BY <1>1, <1>2, <1>3, DecodingKeepsEnd DEF AfterEvent, EndsInStamp
<1>5. \A u \in Threads : u # t =>
        todo'[u] = todo[u] /\ last_event'[u] = last_event[u] /\ stamps[u] = last_stamp[u]
  BY <1>1, <1>2 DEF StampsAfter
<1>6. todo'[t] = AfterEvent(todo[t])
  BY <1>1, <1>2
<1>7. /\ DOMAIN queue = IF HasEvent(todo[t]) THEN DOMAIN heap ELSE DOMAIN heap \ {t}
      /\ \A u \in DOMAIN queue : queue[u] = stamps[u].ts
  <2>1. DOMAIN queue = IF HasEvent(todo[t]) THEN DOMAIN heap ELSE DOMAIN heap \ {t}
    BY <1>2 DEF Requeue, With, Without, Restrict
  <2>2. ASSUME NEW u \in DOMAIN queue, u # t PROVE queue[u] = stamps[u].ts
    <3>1. u \in DOMAIN heap /\ u \in Threads
      BY <1>1, <2>1, <2>2
    <3>2. queue[u] = heap[u]
      BY <2>2, <3>1 DEF Requeue, With, Without, Restrict
    <3> QED BY <1>5, <2>2, <3>1, <3>2 DEF HeapKeysFresh
  <2>3. ASSUME t \in DOMAIN queue PROVE queue[t] = stamps[t].ts
    <3>1. HasEvent(todo[t])
      BY <2>1, <2>3
    <3> QED BY <3>1 DEF Requeue, With, Without, Restrict
  <2> QED BY <2>1, <2>2, <2>3
<1>8. Waiting' = Waiting \ woken /\ woken \subseteq Waiting
  <2>1. DOMAIN pending_frees' = DOMAIN pending_frees \ {tok}
    BY <1>2 DEF Without, Restrict
  <2>2. \A k \in DOMAIN pending_frees' : pending_frees'[k] = pending_frees[k]
    BY <1>2 DEF Without, Restrict
  <2>3. woken \subseteq Waiting
    BY DEF Waiter, Waiting
  <2>4. ASSUME NEW k \in DOMAIN pending_frees, k # tok
        PROVE  pending_frees[k] \notin woken
    BY <2>4, WaitingOnce DEF Waiter
  <2>5. ASSUME NEW u \in Waiting, u \notin woken PROVE u \in Waiting'
    <3>1. PICK k \in DOMAIN pending_frees : u = pending_frees[k]
      BY DEF Waiting
    <3>2. k # tok
      BY <2>5, <3>1 DEF Waiter
    <3> QED BY <2>1, <2>2, <3>1, <3>2 DEF Waiting
  <2>6. ASSUME NEW u \in Waiting' PROVE u \in Waiting \ woken
    <3>1. PICK k \in DOMAIN pending_frees' : u = pending_frees'[k]
      BY DEF Waiting
    <3> QED BY <2>1, <2>2, <2>4, <3>1 DEF Waiting
  <2> QED BY <2>3, <2>5, <2>6
<1>9. DOMAIN heap' = DOMAIN queue \cup woken
  BY <1>2 DEF WakeInto
<1> HIDE DEF queue, stamps
<1>10. \A u \in Threads : todo'[u] # <<>> <=> u \in DOMAIN heap' \cup Waiting'
  <2>1. t \notin Waiting
    BY <1>2, <1>3
  <2> QED BY <1>2, <1>3, <1>4, <1>5, <1>6, <1>7, <1>8, <1>9, <2>1
<1>11. DOMAIN heap' \cap Waiting' = {}
  BY <1>3, <1>7, <1>8, <1>9
<1>12. ASSUME NEW k \in DOMAIN pending_frees'
       PROVE  last_event'[pending_frees'[k]].old = k
  <2>1. k \in DOMAIN pending_frees /\ pending_frees'[k] = pending_frees[k]
    BY <1>2 DEF Without, Restrict
  <2>2. pending_frees[k] \in Threads /\ pending_frees[k] # t
    BY <1>1, <1>2, <1>3, <2>1 DEF Waiting
  <2> QED BY <1>3, <1>5, <2>1, <2>2
<1>13. in_pending_frees' = Waiting'
  BY <1>2, <1>3, <1>8
<1>14. ThreadPlaces'
  BY <1>10, <1>11, <1>12, <1>13 DEF ThreadPlaces, Waiting
<1>15. ASSUME NEW u \in DOMAIN heap' PROVE heap'[u] = last_stamp'[u].ts
  <2>1. CASE u \in woken
    BY <1>2, <1>9, <1>15, <2>1 DEF WakeInto
  <2>2. CASE u \notin woken
    BY <1>2, <1>7, <1>9, <1>15, <2>2 DEF WakeInto
  <2> QED BY <2>1, <2>2
<1> QED BY <1>14, <1>15 DEF HeapKeysFresh

\* The thread that comes to wait finds nobody waiting for its token.
LEMMA NobodyWaits ==
  ASSUME TypeOK, ReleasedOnce, ThreadPlaces,
         NEW t \in Threads, Wait(t, allocated)
  PROVE  last_event[t].old \in Tokens \ (allocated \cup DOMAIN pending_frees)
<1> DEFINE tok == last_event[t].old
<1>1. tok \in Tokens \ allocated
  BY NotReady DEF Wait, TypeOK
<1>2. ASSUME tok \in DOMAIN pending_frees PROVE FALSE
  <2> DEFINE u == pending_frees[tok]
  <2>1. u \in Threads /\ last_event[u].old = tok /\ u # t
    BY <1>2 DEF ThreadPlaces, TypeOK, SerializerTypeOK, Wait, IsTop
  <2>2. ASSUME NEW v \in Threads, last_event[v].old = tok
        PROVE  Releases(v, 1, tok)
    <3>1. last_event[v] \in Events
      BY <1>1, <2>2, TokensAssumption DEF TypeOK, SerializerTypeOK, NoEvent
    <3>2. 1 \in DOMAIN Held(v) /\ Held(v)[1] = last_event[v]
      BY HeldType
    <3> QED BY <2>2, <3>1, <3>2 DEF Releases
  <2>3. Releases(t, 1, tok) /\ Releases(u, 1, tok)
    BY <2>1, <2>2
  <2>4. 1 \in DOMAIN Held(t) /\ 1 \in DOMAIN Held(u)
    BY <2>3 DEF Releases
  <2> QED BY <1>1, <2>1, <2>3, <2>4 DEF ReleasedOnce
<1> QED BY <1>1, <1>2

\* A thread that waits goes from the heap to pending_frees.
LEMMA WaitPlaces ==
  ASSUME TypeOK, ReleasedOnce, ThreadPlaces, HeapKeysFresh,
         NEW t \in Threads, Wait(t, allocated)
  PROVE  ThreadPlaces' /\ HeapKeysFresh'
<1> DEFINE tok == last_event[t].old
<1>1. tok \notin DOMAIN pending_frees
  BY NobodyWaits
<1>2. /\ heap' = Without(heap, t)
      /\ in_pending_frees' = in_pending_frees \cup {t}
      /\ pending_frees' = With(pending_frees, tok, t)
      /\ UNCHANGED <<todo, last_event, last_stamp>>
      /\ t \in DOMAIN heap
  BY <1>1 DEF Wait, IsTop, thread_vars
<1>3. /\ DOMAIN heap' = DOMAIN heap \ {t}
      /\ \A u \in DOMAIN heap' : heap'[u] = heap[u]
      /\ DOMAIN pending_frees' = DOMAIN pending_frees \cup {tok}
      /\ pending_frees'[tok] = t
      /\ \A k \in DOMAIN pending_frees : pending_frees'[k] = pending_frees[k]
  BY <1>1, <1>2 DEF With, Without, Restrict
<1>4. Waiting' = Waiting \cup {t}
  BY <1>3 DEF Waiting
<1>5. /\ \A u \in Threads : todo[u] # <<>> <=> u \in DOMAIN heap \cup Waiting
      /\ DOMAIN heap \cap Waiting = {} /\ in_pending_frees = Waiting
      /\ \A k \in DOMAIN pending_frees : last_event[pending_frees[k]].old = k
  BY DEF ThreadPlaces, Waiting
<1>6. /\ \A u \in Threads : todo'[u] # <<>> <=> u \in DOMAIN heap' \cup Waiting'
      /\ DOMAIN heap' \cap Waiting' = {} /\ in_pending_frees' = Waiting'
  BY <1>2, <1>3, <1>4, <1>5
<1>7. \A k \in DOMAIN pending_frees' : last_event'[pending_frees'[k]].old = k
  BY <1>2, <1>3, <1>5
<1> QED BY <1>2, <1>3, <1>6, <1>7 DEF ThreadPlaces, Waiting, HeapKeysFresh
LEMMA PlacesStep ==
  ASSUME ProgramInv, ThreadPlaces, HeapKeysFresh, [Next]_vars
  PROVE  ThreadPlaces' /\ HeapKeysFresh'
<1>0. TypeOK /\ EndsInStamp /\ ReleasedOnce
  BY DEF ProgramInv
<1>1. ASSUME NEW t \in Threads, NEW s \in Stamps, AppendBuf(t, BufOf(t, s))
      PROVE  ThreadPlaces' /\ HeapKeysFresh'
  <2>1. BufOf(t, s) \in Seq(Items) /\ BufOf(t, s) # <<>>
    BY <1>0, BufType DEF TypeOK
  <2>2. todo \in [Threads -> Seq(Items)]
    BY <1>0 DEF TypeOK, SerializerTypeOK
  <2>3. todo[t] # <<>> /\ todo' = [todo EXCEPT ![t] = @ \o BufOf(t, s)]
    BY <1>1 DEF AppendBuf
  <2>4. todo[t] \o BufOf(t, s) # <<>>
    BY <2>1, <2>2, ConcatSimplifications!concIsEmpty
  <2>5. \A u \in Threads : todo'[u] # <<>> <=> todo[u] # <<>>
    BY <2>2, <2>3, <2>4
  <2> QED BY <1>1, <2>5 DEF AppendBuf, ThreadPlaces, HeapKeysFresh
<1>2. ASSUME NEW t \in Threads, NEW s \in Stamps, Buf(t, s)
      PROVE  ThreadPlaces' /\ HeapKeysFresh'
  BY <1>0, <1>1, <1>2, StartPlaces DEF Buf, ReadBuf
<1>3. ASSUME NEW t \in Threads, Drain(t)
      PROVE  ThreadPlaces' /\ HeapKeysFresh'
  BY <1>0, <1>3, ProcessPlaces, WaitPlaces DEF Drain
<1>4. CASE UNCHANGED <<todo, last_event, last_stamp, heap, pending_frees,
                       in_pending_frees>>
  BY <1>4 DEF ThreadPlaces, HeapKeysFresh
<1>5. ASSUME NEW t \in Threads, \/ \E e \in Events : ProgramRecord(t, e)
                                \/ \E s \in Stamps : ProgramRecordTok(t, s)
                                \/ Death(t) \/ Bury(t)
      PROVE  UNCHANGED <<todo, last_event, last_stamp, heap, pending_frees,
                         in_pending_frees>>
  BY <1>5 DEF ProgramRecord, ProgramRecordTok, Death, ReadDeath, Bury, Defer,
              Reap, serializer_vars, thread_vars
<1>6. SyncBarrier \/ End \/ FinishDrain \/ FinishReap \/ UNCHANGED vars
        => UNCHANGED <<todo, last_event, last_stamp, heap, pending_frees,
                       in_pending_frees>>
  BY DEF SyncBarrier, End, ReadBarrier, FinishDrain, EndDrain, FinishReap,
         EndReap, vars, serializer_vars, thread_vars
<1> QED BY <1>2, <1>3, <1>4, <1>5, <1>6 DEF Next, Program, Serialize, Finished

\* Every step wakes the thread that waits for what it allocates.
LEMMA WakeupStep ==
  ASSUME TypeOK, NoLostWakeup, [Next]_vars PROVE NoLostWakeup'
<1>1. ASSUME NEW t \in Threads, Process(t, allocated), Receive(ProcessCalls(t))
      PROVE  NoLostWakeup'
  <2>1. DOMAIN pending_frees' = DOMAIN pending_frees \ {last_event[t].new}
    BY <1>1 DEF Process, NewTok, Without, Restrict
  <2>2. allocated' \subseteq allocated \cup {last_event[t].new}
    BY <1>1 DEF Receive, ProcessCalls, NoCalls
  <2> QED BY <2>1, <2>2 DEF NoLostWakeup
<1>2. ASSUME NEW t \in Threads, Wait(t, allocated), UNCHANGED receiver_vars
      PROVE  NoLostWakeup'
  <2>1. last_event[t].old \notin allocated
    BY <1>2, NotReady DEF Wait, TypeOK
  <2>2. DOMAIN pending_frees' \subseteq DOMAIN pending_frees \cup {last_event[t].old}
    BY <1>2 DEF Wait, With
  <2> QED BY <1>2, <2>1, <2>2 DEF NoLostWakeup, receiver_vars
<1>3. CASE UNCHANGED <<pending_frees, allocated>>
  BY <1>3 DEF NoLostWakeup
<1>4. \A calls : calls.event = NoEvent /\ Receive(calls) => allocated' \subseteq allocated
  BY TokensAssumption DEF Receive, NoEvent
<1>5. ASSUME NEW t \in Threads, Bury(t) PROVE NoLostWakeup'
  <2>1. ReapCalls(t).event = NoEvent
    BY DEF ReapCalls, NoCalls
  <2>2. allocated' \subseteq allocated
    BY <1>4, <1>5, <2>1 DEF Bury
  <2>3. pending_frees' = pending_frees
    BY <1>5 DEF Bury, Defer, Reap
  <2> QED BY <2>2, <2>3 DEF NoLostWakeup
<1>6. ASSUME FinishReap PROVE NoLostWakeup'
  <2>1. BarrierCalls.event = NoEvent
    BY DEF BarrierCalls, NoCalls
  <2>2. allocated' \subseteq allocated
    BY <1>4, <1>6, <2>1 DEF FinishReap
  <2>3. pending_frees' = pending_frees
    BY <1>6 DEF FinishReap, EndReap
  <2> QED BY <2>2, <2>3 DEF NoLostWakeup
<1>7. ASSUME NEW t \in Threads, \/ \E e \in Events : ProgramRecord(t, e)
                                \/ \E s \in Stamps : ProgramRecordTok(t, s) \/ Buf(t, s)
                                \/ Death(t)
      PROVE  UNCHANGED <<pending_frees, allocated>>
  BY <1>7 DEF ProgramRecord, ProgramRecordTok, Buf, ReadBuf, AppendBuf, StartBuf,
              Death, ReadDeath, serializer_vars, receiver_vars
<1>8. SyncBarrier \/ End \/ FinishDrain \/ UNCHANGED vars
        => UNCHANGED <<pending_frees, allocated>>
  BY DEF SyncBarrier, End, ReadBarrier, FinishDrain, EndDrain, vars,
         serializer_vars, receiver_vars
<1> QED BY <1>1, <1>2, <1>3, <1>5, <1>6, <1>7, <1>8
        DEF Next, Program, Serialize, Drain, Finished

\* At the start no thread is anywhere.
LEMMA PlacesInit == Init => ThreadPlaces /\ HeapKeysFresh /\ NoLostWakeup
BY DEF Init, SerializerInit, ThreadPlaces, HeapKeysFresh, NoLostWakeup

\* The invariant holds of every behaviour of the specification.
THEOREM Invariance == Spec => []IInv
<1>1. Init => IInv
  BY ProgramInvInit, PlacesInit DEF IInv
<1>2. IInv /\ [Next]_vars => IInv'
  BY ProgramInvStep, PlacesStep, WakeupStep DEF IInv, ProgramInv
<1> QED BY <1>1, <1>2, PTL DEF Spec

\* In every state each thread with undecoded items is in the heap or waits
\* for the token its next event releases, and in one of them only
\* (SerializeMallocEvents, the pushes, pops and inserts).
THEOREM ThreadsHaveOnePlace == Spec => []ThreadPlaces
BY Invariance, PTL DEF IInv

\* No thread ever waits for a token that has been allocated (add_allocated).
THEOREM NoWakeupIsLost == Spec => []NoLostWakeup
BY Invariance, PTL DEF IInv

\* The heap is ordered by the stamps its threads have now (the pop and push
\* after update_last_event).
THEOREM HeapIsOrdered == Spec => []HeapKeysFresh
BY Invariance, PTL DEF IInv

\* What is still to come out never releases a token twice: no two threads can
\* wait for one token (the assertion before pending_frees.insert).
THEOREM TokensReleasedOnce == Spec => []ReleasedOnce
BY Invariance, PTL DEF IInv, ProgramInv
=============================================================================
