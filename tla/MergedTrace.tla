----------------------------- MODULE MergedTrace -----------------------------
(***************************************************************************)
(* What the post-processing of a trace promises, whatever the Bufs, their  *)
(* order and their stamps were: the events of all threads come out as one  *)
(* sequence in which every thread's events are in its own order and no     *)
(* token is released before it has been allocated.  A thread is killed at  *)
(* most once, and only when all it ever recorded has come out.             *)
(***************************************************************************)
EXTENDS TraceData, Functions

VARIABLES
  recorded,  \* for each thread, the events it has recorded
  emitted,   \* for each thread, those that have come out
  allocated, \* the tokens allocated by what has come out
  killed     \* the threads killed, in that order

merged_vars == <<recorded, emitted, allocated, killed>>

Init ==
  /\ recorded = [t \in Threads |-> <<>>]
  /\ emitted = [t \in Threads |-> <<>>]
  /\ allocated = {}
  /\ killed = <<>>

Record(t, e) ==
  /\ t \notin Range(killed)
  /\ recorded' = [recorded EXCEPT ![t] = Append(@, e)]
  /\ UNCHANGED <<emitted, allocated, killed>>

Emit(t) ==
  LET next == Len(emitted[t]) + 1
      e == recorded[t][next]
  IN /\ t \notin Range(killed)
     /\ next \in DOMAIN recorded[t]
     /\ e.old \in allocated \cup {NoTok}
     /\ e.new \notin allocated
     /\ emitted' = [emitted EXCEPT ![t] = Append(@, e)]
     /\ allocated' = (allocated \ {e.old}) \cup ({e.new} \ {NoTok})
     /\ UNCHANGED recorded

Kill(t) ==
  /\ t \notin Range(killed)
  /\ emitted'[t] = recorded[t]
  /\ killed' = Append(killed, t)

Next ==
  \E t \in Threads :
    \/ \E e \in Events : Record(t, e)
    \/ Emit(t) /\ (Kill(t) \/ UNCHANGED killed)
    \/ Kill(t) /\ UNCHANGED <<recorded, emitted, allocated>>

Spec == Init /\ [][Next]_merged_vars
=============================================================================
