-------------------------- MODULE TraceSerialization --------------------------
(***************************************************************************)
(* A traced program, the trace it writes, and postprocess reading it: the  *)
(* serializer of events-serializer.cc between TracedProgram and an         *)
(* EventsReceiver.                                                         *)
(*                                                                         *)
(* The trace is a pipe or a file that the serializer reads in order, so it *)
(* does not matter how far the program is ahead: a record is modelled as   *)
(* read when it is written, and the program, which never looks at the      *)
(* serializer, takes its steps while the serializer reads.                 *)
(***************************************************************************)
EXTENDS TracedProgram, EventsSerializer, EventsReceiver

vars == <<program_vars, serializer_vars, receiver_vars>>

TypeOK == ProgramTypeOK /\ SerializerTypeOK /\ ReceiverTypeOK

Init == ProgramInit /\ SerializerInit /\ ReceiverInit

ProgramRecord(t, e) ==
  /\ phase = "read"
  /\ Record(t, e)
  /\ UNCHANGED <<serializer_vars, receiver_vars>>

ProgramRecordTok(t, s) ==
  /\ phase = "read"
  /\ RecordTok(t, s)
  /\ UNCHANGED <<serializer_vars, receiver_vars>>

Buf(t, s) ==
  /\ Flush(t)
  /\ ReadBuf(t, BufOf(t, s))
  /\ UNCHANGED receiver_vars

Death(t) ==
  /\ Exit(t)
  /\ ReadDeath(t)
  /\ UNCHANGED receiver_vars

\* The tracer writes a barrier when it likes, and the trace may stop short.
SyncBarrier == ReadBarrier(FALSE) /\ UNCHANGED <<program_vars, receiver_vars>>
End == ReadBarrier(TRUE) /\ UNCHANGED <<program_vars, receiver_vars>>

Drain(t) ==
  /\ \/ Process(t, allocated) /\ Receive(ProcessCalls(t))
     \/ Wait(t, allocated) /\ UNCHANGED receiver_vars
  /\ UNCHANGED program_vars

FinishDrain == EndDrain /\ UNCHANGED <<program_vars, receiver_vars>>

Bury(t) ==
  /\ \/ Defer(t)
     \/ Reap(t)
  /\ Receive(ReapCalls(t))
  /\ UNCHANGED program_vars

FinishReap == EndReap /\ Receive(BarrierCalls) /\ UNCHANGED program_vars

Program ==
  \/ \E t \in Threads : \E e \in Events : ProgramRecord(t, e)
  \/ \E t \in Threads : \E s \in Stamps : ProgramRecordTok(t, s)
  \/ \E t \in Threads : \E s \in Stamps : Buf(t, s)
  \/ \E t \in Threads : Death(t)
  \/ SyncBarrier
  \/ End

Serialize ==
  \/ \E t \in Threads : Drain(t)
  \/ FinishDrain
  \/ \E t \in Threads : Bury(t)
  \/ FinishReap

Finished == Halted /\ UNCHANGED vars

Next == Program \/ Serialize \/ Finished

Spec == Init /\ [][Next]_vars

\* The serializer is a loop that nothing blocks: whenever it has a step to
\* take it takes one.  Nothing is assumed of the program.
FairSpec == Spec /\ WF_vars(Serialize)

-------------------------------------------------------------------------------
\* A thread has work exactly while it has undecoded items; then it is in one
\* place, the heap or pending_frees, in the latter once, under the token its
\* next event releases.  A thread in neither would be forgotten, one in both
\* would be processed twice.
\* (SerializeMallocEvents, the pushes, pops and inserts of lines 582-716.)
ThreadPlaces ==
  LET waiting == {pending_frees[tok] : tok \in DOMAIN pending_frees}
  IN /\ \A t \in Threads : todo[t] # <<>> <=> t \in DOMAIN heap \cup waiting
     /\ DOMAIN heap \cap waiting = {}
     /\ waiting = in_pending_frees
     /\ \A tok \in DOMAIN pending_frees :
          last_event[pending_frees[tok]].old = tok

\* No thread waits for a token that is allocated: the wakeup of add_allocated
\* is never lost, also when the token is allocated in a later round.
NoLostWakeup == DOMAIN pending_frees \cap allocated = {}

\* A thread lies in the heap under the stamp it has now.  priority_queue does
\* not notice a key that changes in place, so every change of last_ts must be
\* followed by a pop and a push (lines 690-702, 534-543).
HeapKeysFresh == \A t \in DOMAIN heap : heap[t] = last_stamp[t].ts

\* What is still to come out of a thread: its decoded event, its items, and
\* those it has not written.
Held(t) == <<last_event[t]>> \o todo[t] \o buffer[t]
Releases(t, i, tok) ==
  i \in DOMAIN Held(t) /\ Held(t)[i] \in Events /\ Held(t)[i].old = tok

\* Among all that is still to come out, one event at most releases a token,
\* and none a token that is live or not handed out: a decoder that left an
\* event behind and took it again would break it.  assert(pending_frees.count(
\* wait_tok) == 0) rests on it (line 707): two threads that wait for one token
\* could not both be kept in pending_frees.
ReleasedOnce ==
  \A tok \in Tokens : \A t \in Threads : \A i \in DOMAIN Held(t) :
    Releases(t, i, tok) =>
      /\ tok \notin live \cup fresh
      /\ \A u \in Threads : \A j \in DOMAIN Held(u) :
           Releases(u, j, tok) => u = t /\ j = i

\* The events of a thread reach the receiver in the thread's order, each of
\* them once, under the thread's id, and none before the allocation it needs;
\* a thread is killed once, after its last event.
Merged == INSTANCE MergedTrace
MergesTraces == Merged!Spec

\* When a trace that lacks nothing has been read to its end, all of it has
\* come out, no thread waits, and just the threads that ended are killed and
\* forgotten, whatever the rounds in which events, Deaths and the tokens they
\* needed had arrived.
CompleteTraceDrained ==
  phase = "done" /\ AllWritten =>
    /\ emitted = recorded
    /\ DOMAIN pending_frees = {}
    /\ Range(killed) = exited
    /\ threads = {t \in Threads : written[t] > 0} \ exited

\* In a build with assertions, only one thing makes the serializer abort: a
\* thread that ended while one of its events waits for a token.  The other
\* assertions of SerializeMallocEvents, the panic on a Death of an unknown
\* thread and the one on a thread in the heap without an event are not met:
\* a thread that ran dry is never left in the heap, or woken.
OnlyWaitingDeathsAbort ==
  [][phase' = "aborted" => \E t \in in_pending_frees : Defer(t)]_vars

\* What assert(thread->bufs.empty()) says of a thread that is to be reaped
\* (line 727).
ReapedThreadHasNoBufs ==
  phase = "reap" /\ to_die # <<>> => todo[Head(to_die)] = <<>>

\* Draining and reaping end: the serializer comes back to the trace, or it is
\* done with it.
RoundsEnd == phase \in {"drain", "reap"} ~> phase \in {"read", "done"}

\* A complete trace comes out once its end has been read.
CompleteTraceComesOut ==
  seen_end /\ AllWritten ~> emitted = recorded /\ Range(killed) = exited
=============================================================================
