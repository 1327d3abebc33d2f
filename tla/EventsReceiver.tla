---------------------------- MODULE EventsReceiver ----------------------------
(***************************************************************************)
(* What the calls of the EventsReceiver interface mean to whoever receives *)
(* them.  A call names no thread: an operation, or a kill, is one of the   *)
(* thread of the last SwitchThread.  SimpleReceiver is the implementation; *)
(* this is all that the serializer relies on and all that it owes.         *)
(***************************************************************************)
EXTENDS TraceData

VARIABLES
  current,   \* the thread the calls are about, NoThread after a kill
  emitted,   \* for each thread, the operations received for it
  allocated, \* the tokens for which HasAllocated is true
  killed     \* what has been killed, in that order

receiver_vars == <<current, emitted, allocated, killed>>

ReceiverTypeOK ==
  /\ current \in Threads \cup {NoThread}
  /\ emitted \in [Threads -> Seq(Events)]
  /\ allocated \in SUBSET Tokens
  /\ killed \in Seq(Threads \cup {NoThread})

NotCalled ==
  /\ current = NoThread
  /\ emitted = [t \in Threads |-> <<>>]
  /\ killed = <<>>

ReceiverInit == NotCalled /\ allocated = {}

\* What the calls of one step of the serializer, a record of EventsSerializer,
\* are about.
Hear(calls) ==
  LET thread == IF calls.switch THEN calls.thread ELSE current
      event == calls.event
  IN /\ current' = IF calls.kill THEN NoThread ELSE thread
     /\ emitted' = IF event = NoEvent THEN emitted
                   ELSE [emitted EXCEPT ![thread] = Append(@, event)]
     /\ killed' = IF calls.kill THEN Append(killed, thread) ELSE killed

\* A receiver hears the calls, and says from then on that it has allocated
\* what they have allocated and not freed.
Receive(calls) ==
  /\ Hear(calls)
  /\ allocated' =
       (allocated \ {calls.event.old}) \cup ({calls.event.new} \ {NoTok})
=============================================================================
