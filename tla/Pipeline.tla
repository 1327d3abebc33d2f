------------------------------- MODULE Pipeline -------------------------------
(***************************************************************************)
(* The whole tool: a traced program, postprocess (the serializer and its   *)
(* SimpleReceiver) and replay, which reads postprocess's output through a  *)
(* pipe while postprocess runs.                                            *)
(***************************************************************************)
EXTENDS TracedProgram, EventsSerializer, SimpleReceiver, Replay, FiniteSets

CONSTANT PipeSize \* bound: instructions in the pipe when postprocess moves

ASSUME PipeSizeAssumption == PipeSize \in Nat

\* History: what the receiver has been called with.  No guard reads it.
VARIABLES current, emitted, killed
history_vars == <<current, emitted, killed>>

\* The serializer as it would be with a receiver that only does what the
\* interface asks for.
Serialization == INSTANCE TraceSerialization WITH allocated <- HasAllocated

vars ==
  <<program_vars, serializer_vars, postprocess_vars, replay_vars, history_vars>>

Registers == 0 .. Cardinality(Tokens)
InstructionSet ==
  [type : Types, reg : Registers, new_reg : Registers,
   thread : Threads \cup {NoThread}, tok : Tokens \cup {NoTok}]

TypeOK ==
  /\ Serialization!TypeOK
  /\ allocated_map \in [DOMAIN allocated_map -> Registers]
  /\ ids_space \in SUBSET Registers
  /\ instructions \in Seq(InstructionSet)
  /\ dumped \in SUBSET Tokens
  /\ replay_state \in {"running", "aborted"}
  /\ DOMAIN registers \in SUBSET Registers
  /\ registers \in [DOMAIN registers -> Tokens]
  /\ current_thread_id \in Threads \cup {NoThread}
  /\ DOMAIN thread_states \in SUBSET (Threads \cup {NoThread})
  /\ thread_states \in [DOMAIN thread_states -> SUBSET (Threads \cup {NoThread})]
  /\ cache \in SUBSET (Threads \cup {NoThread})
  /\ allocated_count \in Nat
  /\ replayed \in [Threads -> Seq(Events)]
  /\ replay_killed \in Seq(Threads)
  /\ swept \in SUBSET Tokens

Init ==
  /\ ProgramInit /\ SerializerInit /\ ReceiverInit /\ ReplayInit
  /\ Serialization!NotCalled

Reading ==
  /\ \/ \E t \in Threads : \E e \in Events :
          Record(t, e) /\ phase = "read" /\ UNCHANGED serializer_vars
     \/ \E t \in Threads : \E s \in Stamps :
          RecordTok(t, s) /\ phase = "read" /\ UNCHANGED serializer_vars
     \/ \E t \in Threads : \E s \in Stamps :
          Flush(t) /\ ReadBuf(t, BufOf(t, s))
     \/ \E t \in Threads : Exit(t) /\ ReadDeath(t)
     \/ \E is_end \in BOOLEAN : ReadBarrier(is_end) /\ UNCHANGED program_vars
  /\ UNCHANGED <<postprocess_vars, replay_vars, history_vars>>

\* The calls of a step, as the receiver takes them.
Calls(calls) == Receive(calls) /\ Serialization!Hear(calls)

\* postprocess makes a step that writes only when there is room in the pipe.
Writing ==
  /\ Len(instructions) <= PipeSize
  /\ \/ \E t \in Threads :
          Process(t, HasAllocated) /\ Calls(ProcessCalls(t))
     \/ \E t \in Threads :
          (Defer(t) \/ Reap(t)) /\ Calls(ReapCalls(t))
     \/ EndReap /\ Calls(BarrierCalls)
  /\ UNCHANGED <<program_vars, replay_vars>>

Waiting ==
  /\ \/ \E t \in Threads : Wait(t, HasAllocated)
     \/ EndDrain
  /\ UNCHANGED <<program_vars, postprocess_vars, replay_vars, history_vars>>

\* After SerializeMallocEvents has returned, main frees what is left.
DumpAllDeallocations ==
  /\ phase = "done"
  /\ Len(instructions) <= PipeSize
  /\ \E tok \in Tokens : DumpDeallocation(tok)
  /\ UNCHANGED <<program_vars, serializer_vars, replay_vars, history_vars>>

Replaying ==
  /\ instructions # <<>>
  /\ ReplayInstruction(Head(instructions))
  /\ instructions' = Tail(instructions)
  /\ UNCHANGED <<program_vars, serializer_vars, allocated_map, ids_space, dumped,
                 history_vars>>

\* Replay gives up at an instruction, which counts as still in the pipe.
GivingUp ==
  /\ instructions # <<>>
  /\ AllocationFails(Head(instructions))
  /\ UNCHANGED <<program_vars, serializer_vars, postprocess_vars, history_vars>>

AllDumped == phase = "done" /\ dumped = HasAllocated

Finished ==
  /\ phase = "aborted" \/ replay_state = "aborted" \/ AllDumped
  /\ UNCHANGED vars

Next ==
  \/ Reading \/ Writing \/ Waiting \/ DumpAllDeallocations
  \/ Replaying \/ GivingUp
  \/ Finished

Spec == Init /\ [][Next]_vars

-------------------------------------------------------------------------------
\* SimpleReceiver is the receiver that the serializer was written for:
\* HasAllocated is true of just the tokens that the calls have allocated and
\* not freed (postprocess.cc:275-369), so that with it, too, every thread's
\* events come out in order and no waiting thread is forgotten.
SerializesTrace == Serialization!Spec

\* What replay does is a merge of the trace: every operation is performed
\* once, in its thread's order, under its thread's id, and on the pointer that
\* the same allocation had returned; a thread is killed after its last one.
\* (SimpleReceiver's registers, the switches the serializer leaves out, and
\* replay.cc:97-122.)
Replayed == INSTANCE MergedTrace WITH
              emitted <- replayed,
              killed <- replay_killed,
              allocated <- {registers[reg] : reg \in DOMAIN registers} \cup swept
ReplaysTrace == Replayed!Spec

\* An instruction that stores a pointer finds its register empty.  Replay
\* checks that for MALLOC only; a MEMALIGN or REALLOC to a register in use
\* would lose a pointer, and the program would leak.
TargetRegisterEmpty ==
  instructions # <<>> =>
    LET i == Head(instructions)
    IN /\ i.type \in {"MALLOC", "MEMALIGN"} => At(i.reg) = NoTok
       /\ i.type = "REALLOC" => At(i.new_reg) = NoTok /\ i.new_reg # i.reg

\* When replay has caught up, its registers hold what allocated_ maps to
\* them, and no other; the id space says just those are in use.
RegistersMirrorMap ==
  instructions = <<>> /\ dumped = {} =>
    /\ ids_space = DOMAIN registers
    /\ \A tok \in DOMAIN allocated_map : At(allocated_map[tok]) = tok
    /\ {allocated_map[tok] : tok \in DOMAIN allocated_map} = ids_space
    /\ allocated_count = Cardinality(ids_space)

\* After the deallocations that main adds, replay has freed all it allocated,
\* whatever the trace left allocated and however early it stopped.
EverythingFreed ==
  AllDumped /\ instructions = <<>> =>
    allocated_count = 0 /\ DOMAIN registers = {}

\* A thread runs on the cache that was made for it, from its first switch to
\* its kill, wherever the switches and the kills of others come in between:
\* that one is in use, or kept in thread_states until the thread is back; and
\* a kill hands no other cache than the one in use to delete_malloc_state.
\* Nothing is kept under a killed thread (replay.cc:86-123).
ThreadsKeepCaches ==
  /\ current_thread_id # NoThread =>
       /\ cache = {current_thread_id}
       /\ thread_states[current_thread_id] \in {{}, cache}
  /\ \A t \in DOMAIN thread_states \ {current_thread_id, NoThread} :
       thread_states[t] = {t}
  /\ \A i \in DOMAIN replay_killed : replay_killed[i] \notin DOMAIN thread_states

\* What assert(current_thread_id != thread_id) says of a SWITCH_THREAD
\* (replay.cc:99).
SwitchesToAnotherThread ==
  instructions # <<>> /\ Head(instructions).type = "SWITCH_THREAD" =>
    Head(instructions).thread # current_thread_id
=============================================================================
