--------------------------- MODULE EventsSerializer ---------------------------
(***************************************************************************)
(* SerializeMallocEvents of events-serializer.cc: the merge of the         *)
(* per-thread Bufs of a trace into one sequence of calls to an             *)
(* EventsReceiver.                                                         *)
(*                                                                         *)
(* One thread of control loops over three phases: it reads the trace up to *)
(* a sync barrier, drains what it has read in the order of the time        *)
(* stamps, and reaps the threads that died.  A thread whose next event     *)
(* releases a token that is not allocated yet leaves the heap and waits in *)
(* pending_frees until another thread allocates that token.                *)
(*                                                                         *)
(* The actions say which calls a step makes with the operators ...Calls:   *)
(* the module that composes the serializer with a receiver conjoins them   *)
(* with what the receiver does.                                            *)
(***************************************************************************)
EXTENDS TraceData, Functions

VARIABLES
  phase,            \* which loop of SerializeMallocEvents runs
  seen_end,         \* the trace has ended
  threads,          \* the ids find_thread has a FullThreadState for
  todo,             \* per thread: the items of its bufs not decoded yet
  last_event,       \* per thread: the decoded event to be processed next
  last_stamp,       \* per thread: last_ts and last_cpu
  dead, signalled,  \* the flags dead and signalled, as sets of threads
  in_pending_frees, \* the flag of the same name, as a set of threads
  heap,             \* thread |-> the last_ts it has been pushed with
  pending_frees,    \* token |-> the thread that waits for it
  to_die,           \* the threads to reap in this round, in order
  next_to_die,      \* the threads kept for the next round
  recv_thread_id,   \* the thread last announced to the receiver
  recv_stamp        \* the stamp last announced to the receiver

thread_vars == <<threads, todo, last_event, last_stamp>>
serializer_vars ==
  <<phase, seen_end, threads, todo, last_event, last_stamp, dead, signalled,
    in_pending_frees, heap, pending_frees, to_die, next_to_die,
    recv_thread_id, recv_stamp>>

Phases == {"read", "drain", "reap", "done", "aborted"}

\* recv_ts and recv_cpu start as zeros, whatever the trace holds.
ZeroStamp == [ts |-> 0, cpu |-> 0]

SerializerTypeOK ==
  /\ phase \in Phases
  /\ seen_end \in BOOLEAN
  /\ threads \in SUBSET Threads
  /\ todo \in [Threads -> Seq(Items)]
  /\ last_event \in [Threads -> Events \cup {NoEvent}]
  /\ last_stamp \in [Threads -> Stamps]
  /\ dead \in SUBSET Threads
  /\ signalled \in SUBSET Threads
  /\ in_pending_frees \in SUBSET Threads
  /\ DOMAIN heap \in SUBSET Threads
  /\ heap \in [DOMAIN heap -> Times]
  /\ DOMAIN pending_frees \in SUBSET Tokens
  /\ pending_frees \in [DOMAIN pending_frees -> Threads]
  /\ to_die \in Seq(Threads)
  /\ next_to_die \in Seq(Threads)
  /\ recv_thread_id \in Threads \cup {NoThread}
  /\ recv_stamp \in Stamps \cup {ZeroStamp}

\* last_ts and last_cpu have no initializer: a new FullThreadState holds
\* any stamp there until it meets the first one of its trace.
SerializerInit ==
  /\ phase = "read"
  /\ seen_end = FALSE
  /\ threads = {}
  /\ todo = [t \in Threads |-> <<>>]
  /\ last_event = [t \in Threads |-> NoEvent]
  /\ last_stamp \in [Threads -> Stamps]
  /\ dead = {} /\ signalled = {} /\ in_pending_frees = {}
  /\ heap = [t \in {} |-> 0]
  /\ pending_frees = [tok \in {} |-> NoThread]
  /\ to_die = <<>> /\ next_to_die = <<>>
  /\ recv_thread_id = NoThread
  /\ recv_stamp = ZeroStamp

\* An assert() that fails ends the program, in a build that has it.  The ones
\* about active_stream say of it what others say of bufs: it is set when the
\* first Buf is queued and reset with the last, so that it is there exactly
\* while todo is not empty.
Asserting(condition, next) ==
  IF condition \/ NDEBUG THEN next ELSE "aborted"

(***************************************************************************)
(* Decoding.  update_last_event runs over the stamps up to the next event, *)
(* and to the end of the last Buf when there is none.                      *)
(***************************************************************************)
HasEvent(items) == \E i \in DOMAIN items : items[i] \in Events

FirstEvent(items) ==
  CHOOSE i \in DOMAIN items :
    /\ items[i] \in Events
    /\ \A j \in DOMAIN items : j < i => items[j] \notin Events

\* Mistake: the next item is taken as an event, whatever it is.
NextItem(items) == IF items # <<>> THEN items[1] ELSE NoEvent

NextEvent(items) ==
  IF HasEvent(items) THEN items[FirstEvent(items)] ELSE NoEvent

\* Mistake: the event that was decoded is left in the buffer.
FromEvent(items) ==
  IF HasEvent(items) THEN SubSeq(items, FirstEvent(items), Len(items)) ELSE <<>>

AfterEvent(items) ==
  IF HasEvent(items)
  THEN SubSeq(items, FirstEvent(items) + 1, Len(items))
  ELSE <<>>

\* The last stamp before the next event; `old' when there is none.
StampBefore(items, old) ==
  LET end == IF HasEvent(items) THEN FirstEvent(items) - 1 ELSE Len(items)
  IN IF end = 0 THEN old ELSE items[end]

\* The stamps of all threads once t has decoded `items'.
StampsAfter(t, items) ==
  [last_stamp EXCEPT ![t] = StampBefore(items, @)]

UpdateLastEvent(t, items) ==
  /\ last_event' = [last_event EXCEPT ![t] = NextEvent(items)]
  /\ todo' = [todo EXCEPT ![t] = AfterEvent(items)]
  /\ last_stamp' = StampsAfter(t, items)

(***************************************************************************)
(* The heap and the map of waiting threads.                                *)
(***************************************************************************)
With(f, x, y) == [z \in DOMAIN f \cup {x} |-> IF z = x THEN y ELSE f[z]]
Without(f, x) == Restrict(f, DOMAIN f \ {x})

\* std::priority_queue: any of the threads with the least key is the top.
IsTop(t) == t \in DOMAIN heap /\ \A u \in DOMAIN heap : heap[t] <= heap[u]

\* Mistakes: a thread with no event left stays; a new key is put in place;
\* a thread whose time has not changed is popped and not pushed again.
RequeueAlways(t, ts) ==
  IF ts # heap[t] THEN With(Without(heap, t), t, ts) ELSE heap
RequeueInPlace(t, ts) == IF HasEvent(todo[t]) THEN heap ELSE Without(heap, t)
RequeueLater(t, ts) ==
  IF HasEvent(todo[t]) /\ ts # heap[t]
  THEN With(Without(heap, t), t, ts) ELSE Without(heap, t)

\* What becomes of the top t when its next event has been decoded: it leaves
\* the heap when there is none, and moves only when its time has changed.
Requeue(t, ts) ==
  IF ~HasEvent(todo[t]) THEN Without(heap, t)
  ELSE IF ts # heap[t] THEN With(Without(heap, t), t, ts)
  ELSE heap

\* Mistake: nobody is woken.
NoWaiter(tok) == {}

\* add_allocated: the thread that waits for token tok goes back to the heap.
Waiter(tok) == IF tok \in DOMAIN pending_frees THEN {pending_frees[tok]} ELSE {}
WakeInto(queue, tok, stamps) ==
  [u \in DOMAIN queue \cup Waiter(tok) |->
     IF u \in Waiter(tok) THEN stamps[u].ts ELSE queue[u]]

(***************************************************************************)
(* The calls of one step, in the order in which the code makes them:       *)
(* SwitchThread, SetTS, the operation, KillCurrentThread, Barrier.  Every  *)
(* field says whether the call is made, and with what.                     *)
(***************************************************************************)
NoCalls == [switch |-> FALSE, thread |-> NoThread, set_ts |-> FALSE,
            stamp |-> ZeroStamp, event |-> NoEvent, kill |-> FALSE,
            barrier |-> FALSE]

\* maybe_switch_thread before the event of t, the event, and the kill of a
\* dead thread that has no more.
ProcessCalls(t) ==
  [NoCalls EXCEPT
     !.switch = t # recv_thread_id, !.thread = t,
     !.set_ts = last_stamp[t] # recv_stamp, !.stamp = last_stamp[t],
     !.event = last_event[t],
     !.kill = t \in dead /\ ~HasEvent(todo[t])]

\* Mistakes: a thread is killed again; a thread with nothing left is not.
ReapCallsAgain(t) ==
  IF t \in in_pending_frees THEN NoCalls
  ELSE [NoCalls EXCEPT !.switch = TRUE, !.thread = t, !.kill = TRUE]
ReapCallsNever(t) == NoCalls

\* A thread whose kill has not been signalled is switched to without a look
\* at recv_thread_id, and killed.
ReapCalls(t) ==
  IF t \in in_pending_frees \cup signalled THEN NoCalls
  ELSE [NoCalls EXCEPT !.switch = TRUE, !.thread = t, !.kill = TRUE]

BarrierCalls == [NoCalls EXCEPT !.barrier = TRUE]

(***************************************************************************)
(* The read phase.                                                         *)
(***************************************************************************)

\* A Buf of t whose earlier Bufs are not used up is queued behind them.
AppendBuf(t, items) ==
  /\ phase = "read" /\ todo[t] # <<>>
  /\ phase' = Asserting(t \notin dead, phase)
  /\ todo' = [todo EXCEPT ![t] = @ \o items]
  /\ UNCHANGED <<seen_end, threads, last_event, last_stamp, dead, signalled,
                 in_pending_frees, heap, pending_frees, to_die, next_to_die,
                 recv_thread_id, recv_stamp>>

\* A Buf of a thread without any makes it active, if there is an event in it.
StartBuf(t, items) ==
  /\ phase = "read" /\ todo[t] = <<>>
  /\ phase' = Asserting(t \notin dead, phase)
  /\ threads' = threads \cup {t}
  /\ UpdateLastEvent(t, items)
  /\ heap' = IF HasEvent(items)
             THEN With(heap, t, StampsAfter(t, items)[t].ts) ELSE heap
  /\ UNCHANGED <<seen_end, dead, signalled, in_pending_frees, pending_frees,
                 to_die, next_to_die, recv_thread_id, recv_stamp>>

ReadBuf(t, items) == AppendBuf(t, items) \/ StartBuf(t, items)

\* A Death of a thread the trace has said nothing of is a panic.
ReadDeath(t) ==
  /\ phase = "read"
  /\ phase' = IF t \in threads THEN Asserting(t \notin dead, phase)
              ELSE "aborted"
  /\ dead' = dead \cup {t}
  /\ to_die' = Append(to_die, t)
  /\ UNCHANGED <<seen_end, thread_vars, signalled, in_pending_frees, heap,
                 pending_frees, next_to_die, recv_thread_id, recv_stamp>>

\* A SyncBarrier ends the phase; End or the end of the input end the trace.
ReadBarrier(is_end) ==
  /\ phase = "read"
  /\ phase' = "drain"
  /\ seen_end' = is_end
  /\ UNCHANGED <<thread_vars, dead, signalled, in_pending_frees, heap,
                 pending_frees, to_die, next_to_die, recv_thread_id, recv_stamp>>

(***************************************************************************)
(* The drain phase.                                                        *)
(***************************************************************************)

\* Mistakes: a release never waits; a release always waits.
ReadyAlways(t, allocated) == TRUE
ReadyNever(t, allocated) == last_event[t].old = NoTok

\* What t waits for: an event that releases nothing waits for nothing.
Ready(t, allocated) == last_event[t].old \in allocated \cup {NoTok}

\* new_tok: what the iteration allocates, kEmptyTok when the thread waits.
NewTok(t, allocated) ==
  IF Ready(t, allocated) THEN last_event[t].new ELSE NoTok

\* The top of the heap is processed: t's event goes to the receiver, t's
\* next one is decoded, and the thread that waits for the new token wakes.
\* A thread without a decoded event is a panic.
Process(t, allocated) ==
  /\ phase = "drain" /\ IsTop(t)
  /\ Ready(t, allocated)
  /\ phase' = IF last_event[t] = NoEvent THEN "aborted"
              ELSE Asserting(todo[t] # <<>>, phase)
  /\ UpdateLastEvent(t, todo[t])
  /\ LET tok == NewTok(t, allocated)
         stamps == StampsAfter(t, todo[t])
     IN /\ heap' = WakeInto(Requeue(t, stamps[t].ts), tok, stamps)
        /\ in_pending_frees' = in_pending_frees \ Waiter(tok)
        /\ pending_frees' = Without(pending_frees, tok)
  /\ signalled' = IF ProcessCalls(t).kill THEN signalled \cup {t} ELSE signalled
  /\ recv_thread_id' = t
  /\ recv_stamp' = last_stamp[t]
  /\ UNCHANGED <<seen_end, threads, dead, to_die, next_to_die>>

\* The top of the heap waits.  unordered_map::insert does not replace the
\* thread that already waits for the same token; one of the assertions says
\* there is none.
Wait(t, allocated) ==
  LET tok == last_event[t].old
  IN /\ phase = "drain" /\ IsTop(t)
     /\ ~Ready(t, allocated)
     /\ phase' = Asserting(/\ todo[t] # <<>>
                            /\ NewTok(t, allocated) = NoTok
                            /\ tok \notin DOMAIN pending_frees, phase)
     /\ heap' = Without(heap, t)
     /\ in_pending_frees' = in_pending_frees \cup {t}
     /\ pending_frees' = IF tok \in DOMAIN pending_frees THEN pending_frees
                         ELSE With(pending_frees, tok, t)
     /\ UNCHANGED <<seen_end, thread_vars, dead, signalled, to_die,
                    next_to_die, recv_thread_id, recv_stamp>>

EndDrain ==
  /\ phase = "drain" /\ DOMAIN heap = {}
  /\ phase' = "reap"
  /\ UNCHANGED <<seen_end, thread_vars, dead, signalled, in_pending_frees,
                 heap, pending_frees, to_die, next_to_die, recv_thread_id,
                 recv_stamp>>

(***************************************************************************)
(* The reap phase.                                                         *)
(***************************************************************************)

\* assert(thread->dead), assert(thread->bufs.empty()) and, for a thread in
\* pending_frees, assert(!thread->signalled).  The assertions before the
\* erase repeat the second: nothing has changed bufs.
ReapAssertions(t) ==
  /\ t \in dead
  /\ todo[t] = <<>>
  /\ ~(t \in in_pending_frees /\ t \in signalled)

\* A dead thread that still waits is kept for the next round.
Defer(t) ==
  /\ phase = "reap" /\ to_die # <<>> /\ t = Head(to_die)
  /\ t \in in_pending_frees
  /\ phase' = Asserting(ReapAssertions(t), phase)
  /\ to_die' = Tail(to_die)
  /\ next_to_die' = Append(next_to_die, t)
  /\ UNCHANGED <<seen_end, thread_vars, dead, signalled, in_pending_frees,
                 heap, pending_frees, recv_thread_id, recv_stamp>>

\* Mistake: recv_thread_id is kept after a kill.
RecvThreadKept(t) == recv_thread_id

\* Where the receiver is after that: the kill of a thread that had not been
\* signalled leaves it without a thread.
RecvThreadAfterReap(t) == IF t \in signalled THEN recv_thread_id ELSE NoThread

\* Any other is erased, with all its state.
Reap(t) ==
  /\ phase = "reap" /\ to_die # <<>> /\ t = Head(to_die)
  /\ t \notin in_pending_frees
  /\ phase' = Asserting(ReapAssertions(t), phase)
  /\ to_die' = Tail(to_die)
  /\ threads' = threads \ {t}
  /\ dead' = dead \ {t}
  /\ signalled' = signalled \ {t}
  /\ recv_thread_id' = RecvThreadAfterReap(t)
  /\ UNCHANGED <<seen_end, todo, last_event, last_stamp, in_pending_frees, heap,
                 pending_frees, next_to_die, recv_stamp>>

\* The round ends with the receiver's Barrier.
EndReap ==
  /\ phase = "reap" /\ to_die = <<>>
  /\ phase' = IF seen_end THEN "done" ELSE "read"
  /\ to_die' = next_to_die
  /\ next_to_die' = <<>>
  /\ UNCHANGED <<seen_end, thread_vars, dead, signalled, in_pending_frees, heap,
                 pending_frees, recv_thread_id, recv_stamp>>

Halted == phase \in {"done", "aborted"}
=============================================================================
