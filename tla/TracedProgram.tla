---------------------------- MODULE TracedProgram ----------------------------
(***************************************************************************)
(* The program whose allocations are traced, and the tracer inside its     *)
(* malloc.  Neither is in this repository: both are modelled from what the *)
(* decoder in src/ relies on, the formats of malloc_trace_encoder.h and    *)
(* the way SerializeMallocEvents consumes them.                            *)
(*                                                                         *)
(* Every thread appends its events to a buffer of its own; a full buffer   *)
(* is written to the trace as one Buf, and the order in which Bufs of      *)
(* different threads reach the trace has nothing to do with the order of   *)
(* the operations in them.  What the format does promise is causality:     *)
(* a token is recorded as released only after the allocation that made it  *)
(* was recorded, maybe by another thread whose buffer is still unwritten.  *)
(***************************************************************************)
EXTENDS TraceData

CONSTANTS
  MaxBufs,  \* bound: how many Bufs one thread writes
  TokPlaces \* bound: after how many items of a Buf a Tok item may come

ASSUME MaxBufsAssumption == MaxBufs \in Nat

VARIABLES
  recorded, \* for each thread, every event it has recorded, in its order
  buffer,   \* for each thread, the items recorded and not yet written
  written,  \* for each thread, how many Bufs it has written
  live,     \* the tokens allocated and not released
  fresh,    \* the tokens not handed out yet
  exited    \* the threads whose Death has been written

program_vars == <<recorded, buffer, written, live, fresh, exited>>

ProgramTypeOK ==
  /\ recorded \in [Threads -> Seq(Events)]
  /\ buffer \in [Threads -> Seq(Items)]
  /\ written \in [Threads -> Nat]
  /\ live \in SUBSET Tokens
  /\ fresh \in SUBSET Tokens
  /\ exited \in SUBSET Threads

ProgramInit ==
  /\ recorded = [t \in Threads |-> <<>>]
  /\ buffer = [t \in Threads |-> <<>>]
  /\ written = [t \in Threads |-> 0]
  /\ live = {}
  /\ fresh = Tokens
  /\ exited = {}

Running(t) == t \notin exited /\ written[t] < MaxBufs

(***************************************************************************)
(* Thread t performs one operation of malloc's interface and records it.   *)
(* An operation on a token is possible as soon as its allocation returned. *)
(***************************************************************************)
Record(t, e) ==
  /\ Running(t)
  /\ e.new \in fresh \cup {NoTok}
  /\ e.old \in live \cup {NoTok}
  /\ recorded' = [recorded EXCEPT ![t] = Append(@, e)]
  /\ buffer' = [buffer EXCEPT ![t] = Append(@, e)]
  /\ live' = (live \ {e.old}) \cup ({e.new} \ {NoTok})
  /\ fresh' = fresh \ {e.new}
  /\ UNCHANGED <<written, exited>>

\* A Tok item: a new block of tokens starts, and the item has a fresh stamp.
RecordTok(t, s) ==
  /\ Running(t)
  /\ Len(buffer[t]) \in TokPlaces
  /\ buffer' = [buffer EXCEPT ![t] = Append(@, s)]
  /\ UNCHANGED <<recorded, written, live, fresh, exited>>

\* The buffer is written as a Buf; it may be empty.
Flush(t) ==
  /\ Running(t)
  /\ buffer' = [buffer EXCEPT ![t] = <<>>]
  /\ written' = [written EXCEPT ![t] = @ + 1]
  /\ UNCHANGED <<recorded, live, fresh, exited>>

\* What Flush(t) adds to the trace, for a header stamped s.
BufOf(t, s) == Append(buffer[t], s)

\* The thread ends: its last buffer has been written, and a thread that
\* never wrote a Buf writes no Death either.  Its id is not used again.
Exit(t) ==
  /\ t \notin exited
  /\ buffer[t] = <<>>
  /\ written[t] > 0
  /\ exited' = exited \cup {t}
  /\ UNCHANGED <<recorded, buffer, written, live, fresh>>

\* Nothing that was recorded is missing from the trace.
AllWritten == \A t \in Threads : buffer[t] = <<>>
=============================================================================
