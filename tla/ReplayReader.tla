----------------------------- MODULE ReplayReader -----------------------------
(***************************************************************************)
(* How replay.cc gets its instructions: the static buffer that is filled   *)
(* from postprocess's output, and the loop of main, which reads one        *)
(* instruction ahead of the one it executes.                               *)
(*                                                                         *)
(* A byte is its number in the output, from 1 on, and 0 when it was never  *)
(* read.  buf_ptr and buf_end are distances from the start of the buffer.  *)
(* A read that is interrupted is tried again, and left out.                *)
(***************************************************************************)
EXTENDS Integers, Sequences

CONSTANTS
  InstructionSize, \* sizeof(Instruction)
  BufferSize,      \* sizeof(buffer)
  kMinReadAmount,  \* what refill_buffer reads at least; kMinBufSizeToRebase
  OutputSizes      \* how many bytes postprocess may write before it ends

ASSUME InstructionSizeAssumption == InstructionSize \in Nat \ {0}
ASSUME MinReadAmountAssumption ==
  kMinReadAmount \in Nat /\ kMinReadAmount >= InstructionSize
\* Then memcpy never has to copy between places that overlap.
ASSUME BufferSizeAssumption ==
  BufferSize \in Nat /\ BufferSize >= kMinReadAmount + 2 * InstructionSize
ASSUME OutputSizesAssumption == OutputSizes \subseteq Nat

VARIABLES
  size,             \* the bytes of the output
  read,             \* how many of them have been read
  buffer, buf_ptr, buf_end,
  total_read,       \* what this call of refill_buffer has read
  pc,               \* where main is
  next_instr,       \* Instruction(0) until the first one has been read
  instr,
  executed          \* the instructions executed so far

buffer_vars == <<read, buffer, buf_ptr, buf_end, total_read>>
vars == <<size, buffer_vars, pc, next_instr, instr, executed>>

Byte == 0 .. size
Instruction == [1 .. InstructionSize -> Byte]
ZeroInstruction == [i \in 1 .. InstructionSize |-> 0]

TypeOK ==
  /\ read \in 0 .. size
  /\ buffer \in [0 .. BufferSize - 1 -> Byte]
  /\ buf_ptr \in 0 .. BufferSize /\ buf_end \in buf_ptr .. BufferSize
  /\ total_read \in 0 .. BufferSize
  /\ pc \in {"first", "next", "refill", "take", "execute", "last", "done", "aborted"}
  /\ next_instr \in Instruction /\ instr \in Instruction
  /\ executed \in Seq(Instruction)

Init ==
  /\ size \in OutputSizes
  /\ read = 0
  /\ buffer = [i \in 0 .. BufferSize - 1 |-> 0]
  /\ buf_ptr = 0 /\ buf_end = 0
  /\ total_read = 0
  /\ pc = "first"
  /\ next_instr = ZeroInstruction /\ instr = ZeroInstruction
  /\ executed = <<>>

\* Mistake: one byte too few is enough.
AlmostEnough == buf_ptr + InstructionSize <= buf_end + 1

\* Whether buffer_read finds what it is asked for.
Enough == buf_ptr + InstructionSize <= buf_end

\* Mistake: what is left is moved only when there is no room at all.
RebaseWhenFull == buf_end = BufferSize

MustRebase == BufferSize - buf_end < kMinReadAmount

\* Mistake: what is left is not copied.
NotMoved(amount) == buffer

\* The buffer after memcpy(buffer, buf_ptr, amount).
Moved(amount) ==
  [i \in 0 .. BufferSize - 1 |->
     IF i < amount THEN buffer[buf_ptr + i] ELSE buffer[i]]

\* refill_buffer up to its loop.
StartRefill ==
  /\ total_read' = 0
  /\ LET amount == buf_end - buf_ptr
     IN IF MustRebase
        THEN buffer' = Moved(amount) /\ buf_ptr' = 0 /\ buf_end' = amount
        ELSE UNCHANGED <<buffer, buf_ptr, buf_end>>
  /\ UNCHANGED read

\* buffer_read, called for the first instruction, and by the loop for the one
\* after the one it is about to execute.
BufferRead ==
  /\ pc \in {"first", "next"}
  /\ instr' = IF pc = "next" THEN next_instr ELSE instr
  /\ IF Enough THEN pc' = "take" /\ UNCHANGED buffer_vars
     ELSE pc' = "refill" /\ StartRefill
  /\ UNCHANGED <<size, next_instr, executed>>

\* Mistake: the end of the output is waited for like more of it.
KeepReading(amount) == total_read + amount < kMinReadAmount

\* Whether refill_buffer reads again after a read of `amount' bytes.
ReadsAgain(amount) == amount > 0 /\ total_read + amount < kMinReadAmount

\* One read() of refill_buffer: what the pipe has of what fits, and 0 at the
\* end, or when there is no room.
Refill ==
  /\ pc = "refill"
  /\ \E amount \in 0 .. size - read :
       /\ amount <= BufferSize - buf_end
       /\ amount = 0 => read = size \/ buf_end = BufferSize
       /\ buffer' = [i \in 0 .. BufferSize - 1 |->
                       IF i \in buf_end .. buf_end + amount - 1
                       THEN read + (i - buf_end) + 1 ELSE buffer[i]]
       /\ read' = read + amount
       /\ buf_end' = buf_end + amount
       /\ total_read' = total_read + amount
       /\ pc' = IF ReadsAgain(amount) THEN "refill" ELSE "take"
  /\ UNCHANGED <<size, buf_ptr, next_instr, instr, executed>>

\* Mistake: the last instruction read is forgotten at the end of the output.
StopAtEnd == IF next_instr = ZeroInstruction THEN "aborted" ELSE "done"

\* Where main goes on when buffer_read returns false: nothing at all was
\* written, or what was read last is still to be executed.
AtEnd == IF next_instr = ZeroInstruction THEN "aborted" ELSE "last"

\* The rest of buffer_read.
Take ==
  /\ pc = "take"
  /\ \/ /\ Enough
        /\ next_instr' = [i \in 1 .. InstructionSize |-> buffer[buf_ptr + i - 1]]
        /\ buf_ptr' = buf_ptr + InstructionSize
        /\ pc' = IF next_instr = ZeroInstruction THEN "next" ELSE "execute"
     \/ /\ ~Enough
        /\ pc' = AtEnd
        /\ UNCHANGED <<next_instr, buf_ptr>>
  /\ UNCHANGED <<size, read, buffer, buf_end, total_read, instr, executed>>

Execute ==
  /\ pc = "execute"
  /\ executed' = Append(executed, instr)
  /\ pc' = "next"
  /\ UNCHANGED <<size, buffer_vars, next_instr, instr>>

ExecuteLast ==
  /\ pc = "last"
  /\ executed' = Append(executed, next_instr)
  /\ pc' = "done"
  /\ UNCHANGED <<size, buffer_vars, next_instr, instr>>

Halted == pc \in {"done", "aborted"}
Finished == Halted /\ UNCHANGED vars

Next == BufferRead \/ Refill \/ Take \/ Execute \/ ExecuteLast \/ Finished

Spec == Init /\ [][Next]_vars
FairSpec == Spec /\ WF_vars(Next)

-------------------------------------------------------------------------------
\* The n-th instruction that postprocess wrote.
Written(n) == [i \in 1 .. InstructionSize |-> (n - 1) * InstructionSize + i]

\* What is between buf_ptr and buf_end are the last bytes read, in order: no
\* move to the front of the buffer, and no short read, loses, repeats or
\* overwrites one (replay.cc:274-310).
BufferHoldsWhatFollows ==
  \A i \in buf_ptr .. buf_end - 1 : buffer[i] = read - (buf_end - i) + 1

\* No read() is asked for zero bytes: its answer would be taken for the end of
\* the output, and the rest of it would never be executed (replay.cc:284-294).
RoomToRead == pc = "refill" => buf_end < BufferSize

\* The instructions are executed once each, in the order they were written,
\* while main is one ahead; all that postprocess wrote in full have been when
\* the loop is left, and only an output without any aborts (replay.cc:347-382).
ExecutesEveryInstruction ==
  /\ \A n \in DOMAIN executed : executed[n] = Written(n)
  /\ pc = "done" => Len(executed) = size \div InstructionSize
  /\ pc = "aborted" => size < InstructionSize

\* When postprocess has ended, and each of its bytes arrives, replay ends: no
\* refill waits for bytes that will not come (replay.cc:283-297).
ReplayEnds == <>Halted
=============================================================================
