---------------------------- MODULE SimpleReceiver ----------------------------
(***************************************************************************)
(* SimpleReceiver of postprocess.cc: it gives every allocated token a      *)
(* register, the least one that is free, and turns the calls into          *)
(* instructions about registers, from which the tokens are gone.           *)
(***************************************************************************)
EXTENDS TraceData, Functions

VARIABLES
  allocated_map, \* allocated_: token |-> register; its sizes are left out
  ids_space,     \* the registers in use in ids_space_
  instructions,  \* what was written to out_ and not read by replay yet
  dumped         \* the elements DumpAllDeallocations has freed

\* ids_space_.allocate_id and free_id, as IdTree implements them.
Ids == INSTANCE IdSpace WITH used <- ids_space

postprocess_vars == <<allocated_map, ids_space, instructions, dumped>>

(***************************************************************************)
(* Instructions.  The field `tok' is not in the code's: it remembers which *)
(* allocation the pointer of a MALLOC, MEMALIGN or REALLOC stands for.     *)
(***************************************************************************)
Instruction(type) ==
  [type |-> type, reg |-> 0, new_reg |-> 0, thread |-> NoThread, tok |-> NoTok]

Types == {"MALLOC", "FREE", "FREE_SIZED", "MEMALIGN", "REALLOC",
          "SWITCH_THREAD", "KILL_THREAD", "SET_TS_CPU"}

ReceiverInit ==
  /\ allocated_map = [tok \in {} |-> 0]
  /\ ids_space = {}
  /\ instructions = <<>>
  /\ dumped = {}

HasAllocated == DOMAIN allocated_map

\* The instructions a step's calls write before and after the operation's.
Announced(calls) ==
  (IF calls.switch
   THEN <<[Instruction("SWITCH_THREAD") EXCEPT !.thread = calls.thread]>>
   ELSE <<>>)
  \o (IF calls.set_ts THEN <<Instruction("SET_TS_CPU")>> ELSE <<>>)
Killed(calls) == IF calls.kill THEN <<Instruction("KILL_THREAD")>> ELSE <<>>

Dump(calls, operation) ==
  instructions' = instructions \o Announced(calls) \o operation \o Killed(calls)

\* No operation among the calls; Barrier only counts.
ReceiveNone(calls) ==
  /\ calls.event = NoEvent
  /\ Dump(calls, <<>>)
  /\ UNCHANGED <<allocated_map, ids_space>>

\* Malloc or Memalign.
ReceiveMalloc(calls, type) ==
  LET tok == calls.event.new
      reg == Ids!LeastFree
  IN /\ calls.event.old = NoTok /\ tok # NoTok
     /\ ids_space' = ids_space \cup {reg}
     /\ allocated_map' = [x \in DOMAIN allocated_map \cup {tok} |->
                            IF x = tok THEN reg ELSE allocated_map[x]]
     /\ Dump(calls, <<[Instruction(type) EXCEPT !.reg = reg, !.tok = tok]>>)

\* The registers in use after a Realloc: the new one is taken before the old
\* one is given back, so the two differ.
IdsAfterRealloc(old_reg, new_reg) == (ids_space \cup {new_reg}) \ {old_reg}

\* Mistake: the old token is not erased from the map.
MapWithBoth(old, new, new_reg) ==
  [x \in DOMAIN allocated_map \cup {new} |->
     IF x = new THEN new_reg ELSE allocated_map[x]]

MapAfterRealloc(old, new, new_reg) ==
  [x \in (DOMAIN allocated_map \ {old}) \cup {new} |->
     IF x = new THEN new_reg ELSE allocated_map[x]]

ReceiveRealloc(calls) ==
  LET old == calls.event.old
      new == calls.event.new
      old_reg == allocated_map[old]
      new_reg == Ids!LeastFree
  IN /\ old # NoTok /\ new # NoTok
     /\ ids_space' = IdsAfterRealloc(old_reg, new_reg)
     /\ allocated_map' = MapAfterRealloc(old, new, new_reg)
     /\ Dump(calls, <<[Instruction("REALLOC") EXCEPT
                         !.reg = old_reg, !.new_reg = new_reg, !.tok = new]>>)

\* Free and FreeSized alike write a FREE_SIZED.
ReceiveFree(calls) ==
  LET tok == calls.event.old
      reg == allocated_map[tok]
  IN /\ tok # NoTok /\ calls.event.new = NoTok
     /\ ids_space' = ids_space \ {reg}
     /\ allocated_map' = Restrict(allocated_map, DOMAIN allocated_map \ {tok})
     /\ Dump(calls, <<[Instruction("FREE_SIZED") EXCEPT !.reg = reg]>>)

Receive(calls) ==
  /\ \/ ReceiveNone(calls)
     \/ \E type \in {"MALLOC", "MEMALIGN"} : ReceiveMalloc(calls, type)
     \/ ReceiveRealloc(calls)
     \/ ReceiveFree(calls)
  /\ UNCHANGED dumped

\* DumpAllDeallocations at one element; the order of elements is the hash
\* table's.  The map and the id space are left as they are.
DumpDeallocation(tok) ==
  /\ tok \in DOMAIN allocated_map \ dumped
  /\ instructions' = Append(instructions,
                       [Instruction("FREE") EXCEPT !.reg = allocated_map[tok]])
  /\ dumped' = dumped \cup {tok}
  /\ UNCHANGED <<allocated_map, ids_space>>
=============================================================================
