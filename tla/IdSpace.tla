------------------------------- MODULE IdSpace -------------------------------
(***************************************************************************)
(* What an IdTree promises: ids are natural numbers, an allocation takes   *)
(* the least one that is free, and what is given back can be taken again.  *)
(***************************************************************************)
EXTENDS Naturals, FiniteSets

VARIABLE used \* the ids taken

Init == used = {}

\* The least natural number that is not taken.
LeastFree ==
  CHOOSE id \in 0 .. Cardinality(used) :
    /\ id \notin used
    /\ \A lower \in 0 .. id - 1 : lower \in used

Allocate == used' = used \cup {LeastFree}

Free(id) == used' = used \ {id}

Next == Allocate \/ \E id \in used : Free(id)

Spec == Init /\ [][Next]_used
=============================================================================
