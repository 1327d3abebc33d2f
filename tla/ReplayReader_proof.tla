-------------------------- MODULE ReplayReader_proof --------------------------
(***************************************************************************)
(* Proofs about ReplayReader, for every size of an instruction, of the     *)
(* buffer and of the output.                                               *)
(***************************************************************************)
EXTENDS ReplayReader, SequenceTheorems, TLAPS

\* What arithmetic needs of the types.
Places ==
  /\ size \in Nat
  /\ read \in 0 .. size
  /\ buffer \in [0 .. BufferSize - 1 -> Byte]
  /\ buf_end \in 0 .. BufferSize
  /\ buf_ptr \in 0 .. buf_end
  /\ total_read \in Nat

\* While refill_buffer reads, there is room for all that it is to read.
RoomForTheRest ==
  pc = "refill" => /\ total_read < kMinReadAmount
                   /\ kMinReadAmount - total_read <= BufferSize - buf_end

BufferInv == Places /\ RoomForTheRest /\ BufferHoldsWhatFollows

\* At the start the buffer is empty.
LEMMA BufferInit == Init => BufferInv
  BY InstructionSizeAssumption, MinReadAmountAssumption, BufferSizeAssumption,
     OutputSizesAssumption
  DEF Init, BufferInv, Places, RoomForTheRest, BufferHoldsWhatFollows, Byte

\* refill_buffer moves less than an instruction, and then has room enough.
LEMMA StartRefillKeeps ==
  ASSUME BufferInv, ~Enough, StartRefill, UNCHANGED size, pc' = "refill"
  PROVE  BufferInv'
<1> USE InstructionSizeAssumption, MinReadAmountAssumption, BufferSizeAssumption
<1> DEFINE amount == buf_end - buf_ptr
<1>1. amount \in 0 .. InstructionSize - 1
  BY DEF BufferInv, Places, Enough
<1>2. CASE MustRebase
  <2>1. /\ buf_ptr' = 0 /\ buf_end' = amount /\ total_read' = 0 /\ read' = read
        /\ buffer' = Moved(amount)
    BY <1>2 DEF StartRefill
  <2>2. \A i \in 0 .. amount - 1 : buffer'[i] = buffer[buf_ptr + i]
    BY <1>1, <2>1 DEF BufferInv, Places, Moved
  <2>3. Moved(amount) \in [0 .. BufferSize - 1 -> Byte]
    BY <1>1 DEF BufferInv, Places, Moved
  <2>4. Places'
    BY <1>1, <2>1, <2>3 DEF BufferInv, Places, Byte
  <2>5. RoomForTheRest'
    BY <1>1, <2>1 DEF RoomForTheRest
  <2>6. BufferHoldsWhatFollows'
    <3>1. \A i \in 0 .. amount - 1 :
            buffer[buf_ptr + i] = read - (buf_end - (buf_ptr + i)) + 1
      BY <1>1 DEF BufferInv, Places, BufferHoldsWhatFollows
    <3>2. QED
      BY <1>1, <2>1, <2>2, <3>1 DEF BufferInv, Places, BufferHoldsWhatFollows
  <2>7. QED
    BY <2>4, <2>5, <2>6 DEF BufferInv
<1>3. CASE ~MustRebase
  BY <1>3 DEF StartRefill, MustRebase, BufferInv, Places, RoomForTheRest,
              BufferHoldsWhatFollows, Byte
<1>4. QED
  BY <1>2, <1>3

\* Each step keeps the buffer in order.
LEMMA BufferStep == BufferInv /\ [Next]_vars => BufferInv'
<1> USE InstructionSizeAssumption, MinReadAmountAssumption, BufferSizeAssumption
<1> SUFFICES ASSUME BufferInv, [Next]_vars PROVE BufferInv'
  OBVIOUS
<1>1. CASE BufferRead
  <2>1. CASE Enough
    BY <1>1, <2>1 DEF BufferRead, buffer_vars, BufferInv, Places, RoomForTheRest,
                      BufferHoldsWhatFollows, Byte
  <2>2. CASE ~Enough
    BY <1>1, <2>2, StartRefillKeeps DEF BufferRead
  <2>3. QED
    BY <2>1, <2>2
<1>2. CASE Refill
  <2>1. PICK n \in 0 .. size - read :
          /\ n <= BufferSize - buf_end
          /\ buffer' = [i \in 0 .. BufferSize - 1 |->
                          IF i \in buf_end .. buf_end + n - 1
                          THEN read + (i - buf_end) + 1 ELSE buffer[i]]
          /\ read' = read + n
          /\ buf_end' = buf_end + n
          /\ total_read' = total_read + n
          /\ pc' = IF ReadsAgain(n) THEN "refill" ELSE "take"
    BY <1>2 DEF Refill
  <2>2. UNCHANGED <<size, buf_ptr>> /\ pc = "refill"
    BY <1>2 DEF Refill
  <2>3. buffer' \in [0 .. BufferSize - 1 -> Byte']
    BY <2>1, <2>2 DEF BufferInv, Places, Byte
  <2>4. Places'
    <3>1. /\ size' \in Nat
          /\ read' \in 0 .. size'
          /\ buf_end' \in 0 .. BufferSize
          /\ buf_ptr' \in 0 .. buf_end'
          /\ total_read' \in Nat
      <4>1. /\ size' = size /\ buf_ptr' = buf_ptr /\ read' = read + n
            /\ buf_end' = buf_end + n /\ total_read' = total_read + n
            /\ n <= BufferSize - buf_end
        BY <2>1, <2>2
      <4>2. QED
        BY <4>1 DEF BufferInv, Places
    <3>2. QED
      BY <2>3, <3>1 DEF Places
  <2>5. RoomForTheRest'
    BY <2>1, <2>2 DEF BufferInv, Places, RoomForTheRest, ReadsAgain
  <2>6. BufferHoldsWhatFollows'
    BY <2>1, <2>2 DEF BufferInv, Places, BufferHoldsWhatFollows
  <2>7. QED
    BY <2>4, <2>5, <2>6 DEF BufferInv
<1>3. CASE Take
  BY <1>3 DEF Take, Enough, AtEnd, BufferInv, Places, RoomForTheRest,
              BufferHoldsWhatFollows, Byte
<1>4. CASE Execute \/ ExecuteLast
  BY <1>4 DEF Execute, ExecuteLast, buffer_vars, BufferInv, Places, RoomForTheRest,
              BufferHoldsWhatFollows, Byte
<1>5. CASE UNCHANGED vars
  BY <1>5 DEF vars, buffer_vars, BufferInv, Places, RoomForTheRest,
              BufferHoldsWhatFollows, Byte
<1>6. QED
  BY <1>1, <1>2, <1>3, <1>4, <1>5 DEF Next, Finished

\* The buffer always holds the bytes read last, in order.
THEOREM BufferInOrder == Spec => []BufferHoldsWhatFollows
<1>1. BufferInv => BufferHoldsWhatFollows
  BY DEF BufferInv
<1>2. QED
  BY BufferInit, BufferStep, <1>1, PTL DEF Spec

\* refill_buffer never asks for zero bytes.
THEOREM AlwaysRoomToRead == Spec => []RoomToRead
<1>1. BufferInv => RoomToRead
  BY BufferSizeAssumption, MinReadAmountAssumption
  DEF BufferInv, Places, RoomForTheRest, RoomToRead
<1>2. QED
  BY BufferInit, BufferStep, <1>1, PTL DEF Spec

(***************************************************************************)
(* What is executed.  Instructions are taken from the buffer one after the *)
(* other, none skipped and none split, so that the bytes consumed are      *)
(* those of the instructions taken; main is one or two ahead of executed.  *)
(***************************************************************************)

Consumed == read - (buf_end - buf_ptr)

\* n instructions have been taken, the last into next_instr.
Taken(n) ==
  /\ next_instr = IF n = 0 THEN ZeroInstruction ELSE Written(n)
  /\ Consumed = n * InstructionSize

\* Of the output nothing, or less than an instruction, is left.
NoMore == size - Consumed < InstructionSize

Ahead ==
  LET k == Len(executed)
  IN /\ pc = "first" => k = 0 /\ Taken(0)
     /\ pc = "next" => Taken(k + 1)
     /\ pc \in {"refill", "take"} =>
          \/ k = 0 /\ Taken(0)
          \/ Taken(k + 1) /\ instr = Written(k + 1)
     /\ pc = "execute" => Taken(k + 2) /\ instr = Written(k + 1)
     /\ pc = "last" => Taken(k + 1) /\ NoMore
     /\ pc = "done" => /\ k * InstructionSize <= size
                       /\ size - k * InstructionSize < InstructionSize
     /\ pc = "aborted" => size < InstructionSize

\* When refill_buffer returns there is enough, or all has been read.
RefillReadsEnough ==
  /\ pc = "refill" => total_read <= buf_end - buf_ptr
  /\ pc = "take" => Enough \/ read = size

ExecutedInv ==
  /\ TypeOK
  /\ BufferInv
  /\ RefillReadsEnough
  /\ \A n \in DOMAIN executed : executed[n] = Written(n)
  /\ Ahead

\* The bytes of n instructions, and of the next one.
LEMMA Products ==
  ASSUME NEW n \in Nat
  PROVE  /\ n * InstructionSize \in Nat
         /\ (n + 1) * InstructionSize = n * InstructionSize + InstructionSize
         /\ (n + 2) * InstructionSize = (n + 1) * InstructionSize + InstructionSize
         /\ ((n + 1) - 1) * InstructionSize = n * InstructionSize
         /\ 0 * InstructionSize = 0
BY InstructionSizeAssumption

\* An instruction is none of zeros: its first byte has a number.
LEMMA WrittenIsInstruction ==
  ASSUME NEW n \in Nat, size \in Nat, (n + 1) * InstructionSize <= size
  PROVE  Written(n + 1) \in Instruction /\ Written(n + 1) # ZeroInstruction
<1> DEFINE p == n * InstructionSize
<1>1. p \in Nat /\ p + InstructionSize <= size
  BY Products
<1>2. Written(n + 1) = [i \in 1 .. InstructionSize |-> p + i]
  BY Products DEF Written
<1> HIDE DEF p
<1>3. \A i \in 1 .. InstructionSize : p + i \in Byte /\ p + i # 0
  BY <1>1, InstructionSizeAssumption DEF Byte
<1>4. 1 \in 1 .. InstructionSize
  BY InstructionSizeAssumption
<1>5. [i \in 1 .. InstructionSize |-> p + i] \in Instruction
  BY <1>3 DEF Instruction
<1>6. [i \in 1 .. InstructionSize |-> p + i] # ZeroInstruction
  <2>1. [i \in 1 .. InstructionSize |-> p + i][1] = p + 1 /\ ZeroInstruction[1] = 0
    BY <1>4 DEF ZeroInstruction
  <2> QED BY <1>3, <1>4, <2>1
<1> QED BY <1>2, <1>5, <1>6

\* What is taken from the buffer is the next instruction of the output.
LEMMA TakesNext ==
  ASSUME BufferInv, Enough, NEW n \in Nat, Consumed = n * InstructionSize
  PROVE  /\ [i \in 1 .. InstructionSize |-> buffer[buf_ptr + i - 1]] = Written(n + 1)
         /\ (n + 1) * InstructionSize <= size
<1> DEFINE p == n * InstructionSize
<1>1. p \in Nat /\ (n + 1) * InstructionSize = p + InstructionSize
  BY Products
<1>2. Written(n + 1) = [i \in 1 .. InstructionSize |-> p + i]
  BY Products DEF Written
<1>3. Consumed = p
  OBVIOUS
<1> HIDE DEF p
<1>4. ASSUME NEW i \in 1 .. InstructionSize
      PROVE  buffer[buf_ptr + i - 1] = p + i
  <2>1. buf_ptr + i - 1 \in buf_ptr .. buf_end - 1
    BY InstructionSizeAssumption DEF BufferInv, Places, Enough
  <2>2. buffer[buf_ptr + i - 1] = read - (buf_end - (buf_ptr + i - 1)) + 1
    BY <2>1 DEF BufferInv, BufferHoldsWhatFollows
  <2> QED BY <1>1, <1>3, <2>1, <2>2, InstructionSizeAssumption
          DEF BufferInv, Places, Consumed
<1>5. p + InstructionSize <= size
  BY <1>1, <1>3, InstructionSizeAssumption DEF BufferInv, Places, Enough, Consumed
<1> QED BY <1>1, <1>2, <1>4, <1>5

\* Division: k instructions fit, and not another one.
LEMMA Quotient ==
  ASSUME NEW k \in Nat, NEW n \in Nat,
         k * InstructionSize <= n, n - k * InstructionSize < InstructionSize
  PROVE  k = n \div InstructionSize
BY InstructionSizeAssumption

\* At the start nothing has been taken.
LEMMA ExecutedInit == Init => ExecutedInv
<1> SUFFICES ASSUME Init PROVE ExecutedInv
  OBVIOUS
<1> USE InstructionSizeAssumption, MinReadAmountAssumption, BufferSizeAssumption,
        OutputSizesAssumption
<1>1. size \in Nat /\ 0 \in Byte
  BY DEF Init, Byte
<1>2. ZeroInstruction \in Instruction
  BY <1>1 DEF ZeroInstruction, Instruction
<1>3. /\ executed \in Seq(Instruction) /\ Len(executed) = 0 /\ DOMAIN executed = {}
  BY DEF Init
<1>4. TypeOK
  BY <1>1, <1>2, <1>3 DEF Init, TypeOK
<1>5. RefillReadsEnough /\ Ahead
  BY <1>3, Products DEF Init, RefillReadsEnough, Ahead, Taken, Consumed
<1> QED BY <1>3, <1>4, <1>5, BufferInit DEF ExecutedInv

\* buffer_read moves bytes, and takes none.
LEMMA StartRefillConsumes ==
  ASSUME BufferInv, StartRefill
  PROVE  /\ Consumed' = Consumed
         /\ buf_end' - buf_ptr' = buf_end - buf_ptr
         /\ total_read' = 0
<1>1. /\ read' = read /\ total_read' = 0
      /\ \/ buf_ptr' = 0 /\ buf_end' = buf_end - buf_ptr
         \/ buf_ptr' = buf_ptr /\ buf_end' = buf_end
  BY DEF StartRefill
<1> QED BY <1>1 DEF BufferInv, Places, Consumed

\* The steps that call buffer_read.
LEMMA BufferReadKeeps ==
  ASSUME ExecutedInv, BufferRead, BufferInv'
  PROVE  ExecutedInv'
<1>0. /\ TypeOK /\ BufferInv /\ RefillReadsEnough /\ Ahead
      /\ BufferSize \in Nat /\ size \in Nat
  BY BufferSizeAssumption DEF ExecutedInv, BufferInv, Places
<1>1. /\ pc \in {"first", "next"} /\ pc' \in {"take", "refill"}
      /\ instr' = IF pc = "next" THEN next_instr ELSE instr
      /\ UNCHANGED <<size, next_instr, executed>>
  BY DEF BufferRead
<1>2. /\ Consumed' = Consumed
      /\ pc' = "take" => Enough'
      /\ pc' = "refill" => total_read' = 0
      /\ total_read' \in 0 .. BufferSize
  <2>1. CASE Enough
    BY <1>0, <2>1 DEF BufferRead, buffer_vars, Consumed, Enough, TypeOK
  <2>2. CASE ~Enough
    <3>1. StartRefill /\ pc' = "refill"
      BY <2>2 DEF BufferRead
    <3> QED BY <1>0, <3>1, StartRefillConsumes
  <2> QED BY <2>1, <2>2
<1>3. /\ buffer' \in [0 .. BufferSize - 1 -> Byte'] /\ read' \in 0 .. size'
      /\ buf_end' \in 0 .. BufferSize /\ buf_ptr' \in 0 .. buf_end'
  BY DEF BufferInv, Places
<1>4. buf_ptr' \in 0 .. BufferSize /\ buf_end' \in buf_ptr' .. BufferSize
      /\ buf_end' - buf_ptr' >= 0
  <2> DEFINE p == buf_ptr'
             e == buf_end'
  <2>1. e \in 0 .. BufferSize /\ p \in 0 .. e /\ BufferSize \in Nat
    BY <1>0, <1>3
  <2> HIDE DEF p, e
  <2>2. p \in 0 .. BufferSize /\ e \in p .. BufferSize /\ e - p >= 0
    BY <2>1
  <2> QED BY <2>2 DEF p, e
<1>5. TypeOK'
  BY <1>0, <1>1, <1>2, <1>3, <1>4 DEF TypeOK, Byte, Instruction
<1>6. RefillReadsEnough'
  BY <1>1, <1>2, <1>4 DEF RefillReadsEnough
<1>7. Ahead'
  <2>1. \A n : Taken(n) => Taken(n)'
    BY <1>1, <1>2 DEF Taken, Written
  <2>2. \A n \in Nat : Taken(n + 1) => next_instr = Written(n + 1)
    BY DEF Taken
  <2>3. Len(executed) \in Nat
    BY <1>0 DEF TypeOK
  <2> QED BY <1>0, <1>1, <2>1, <2>2, <2>3 DEF Ahead, Written
<1>8. \A n \in DOMAIN executed' : executed'[n] = Written(n)'
  BY <1>1 DEF ExecutedInv, Written
<1> QED BY <1>5, <1>6, <1>7, <1>8 DEF ExecutedInv

\* A read adds to what is there; the last one leaves enough, unless the output
\* has ended.
LEMMA RefillKeeps ==
  ASSUME ExecutedInv, Refill, BufferInv'
  PROVE  ExecutedInv'
<1> USE InstructionSizeAssumption, MinReadAmountAssumption, BufferSizeAssumption
<1>0. TypeOK /\ BufferInv /\ RefillReadsEnough /\ Ahead /\ pc = "refill"
  BY DEF ExecutedInv, Refill
<1>1. PICK n \in 0 .. size - read :
        /\ n <= BufferSize - buf_end
        /\ n = 0 => read = size \/ buf_end = BufferSize
        /\ read' = read + n
        /\ buf_end' = buf_end + n
        /\ total_read' = total_read + n
        /\ pc' = IF ReadsAgain(n) THEN "refill" ELSE "take"
  BY DEF Refill
<1>2. UNCHANGED <<size, buf_ptr, next_instr, instr, executed>>
  BY DEF Refill
<1>3. /\ read \in 0 .. size /\ size \in Nat /\ buf_end \in 0 .. BufferSize
      /\ buf_ptr \in 0 .. buf_end /\ total_read \in Nat
      /\ total_read <= buf_end - buf_ptr
      /\ total_read < kMinReadAmount
      /\ kMinReadAmount - total_read <= BufferSize - buf_end
  BY <1>0 DEF BufferInv, Places, RoomForTheRest, RefillReadsEnough
<1>4. /\ buffer' \in [0 .. BufferSize - 1 -> Byte'] /\ read' \in 0 .. size'
      /\ buf_end' \in 0 .. BufferSize /\ buf_ptr' \in 0 .. buf_end'
  BY DEF BufferInv, Places
<1>5. /\ Consumed' = Consumed
      /\ total_read' <= buf_end' - buf_ptr'
      /\ total_read' \in 0 .. BufferSize
      /\ buf_ptr' \in 0 .. BufferSize /\ buf_end' \in buf_ptr' .. BufferSize
  BY <1>1, <1>2, <1>3, <1>4 DEF Consumed
<1>6. TypeOK'
  BY <1>0, <1>1, <1>2, <1>4, <1>5 DEF TypeOK, Byte, Instruction
<1>7. RefillReadsEnough'
  <2>1. ~ReadsAgain(n) => Enough' \/ read' = size'
    BY <1>1, <1>2, <1>3, <1>5 DEF ReadsAgain, Enough
  <2> QED BY <1>1, <1>5, <2>1 DEF RefillReadsEnough
<1>8. Ahead'
  <2>1. \A k : Taken(k) => Taken(k)'
    BY <1>2, <1>5 DEF Taken, Written
  <2> QED BY <1>0, <1>1, <1>2, <2>1 DEF Ahead, Written
<1>9. \A k \in DOMAIN executed' : executed'[k] = Written(k)'
  BY <1>2 DEF ExecutedInv, Written
<1> QED BY <1>6, <1>7, <1>8, <1>9 DEF ExecutedInv

\* The rest of buffer_read takes the next instruction, or finds the end.
LEMMA TakeKeeps ==
  ASSUME ExecutedInv, Take, BufferInv'
  PROVE  ExecutedInv'
<1> USE InstructionSizeAssumption, BufferSizeAssumption
<1> DEFINE k == Len(executed)
<1>0. /\ TypeOK /\ BufferInv /\ RefillReadsEnough /\ Ahead /\ pc = "take"
      /\ k \in Nat /\ size \in Nat
  BY DEF ExecutedInv, Take, TypeOK, BufferInv, Places
<1>1. /\ UNCHANGED <<size, read, buffer, buf_end, total_read, instr, executed>>
      /\ pc' # "refill" /\ pc' # "take" /\ pc' # "first"
  BY DEF Take, AtEnd
<1>2. \/ k = 0 /\ Taken(0)
      \/ Taken(k + 1) /\ instr = Written(k + 1)
  BY <1>0 DEF Ahead
<1>3. PICK n \in {0, k + 1} :
        /\ Taken(n) /\ n \in Nat
        /\ n = 0 => k = 0
        /\ n # 0 => n = k + 1 /\ instr = Written(k + 1)
  BY <1>0, <1>2
<1>4. Consumed = n * InstructionSize /\ Consumed <= size
      /\ next_instr = IF n = 0 THEN ZeroInstruction ELSE Written(n)
  BY <1>0, <1>3 DEF Taken, Consumed, BufferInv, Places
<1>5. n # 0 => next_instr # ZeroInstruction
  BY <1>0, <1>3, <1>4, WrittenIsInstruction
<1>6. \A m \in DOMAIN executed' : executed'[m] = Written(m)'
  BY <1>1 DEF ExecutedInv, Written
<1>7. CASE Enough /\ pc' = (IF next_instr = ZeroInstruction THEN "next" ELSE "execute")
           /\ buf_ptr' = buf_ptr + InstructionSize
           /\ next_instr' = [i \in 1 .. InstructionSize |-> buffer[buf_ptr + i - 1]]
  <2>1. next_instr' = Written(n + 1) /\ (n + 1) * InstructionSize <= size
    BY <1>0, <1>3, <1>4, <1>7, TakesNext
  <2>2. Written(n + 1) \in Instruction
    BY <1>0, <1>3, <2>1, WrittenIsInstruction
  <2>3. Consumed' = Consumed + InstructionSize
        /\ buf_ptr' \in 0 .. BufferSize /\ buf_end' \in buf_ptr' .. BufferSize
    BY <1>0, <1>1, <1>7 DEF Consumed, Enough, BufferInv, Places
  <2>4. Taken(n + 1)'
    <3>1. Consumed' = (n + 1) * InstructionSize
      BY <1>3, <1>4, <2>3, Products
    <3>2. n + 1 # 0
      BY <1>3
    <3> QED BY <2>1, <3>1, <3>2 DEF Taken, Written
  <2>5. TypeOK'
    BY <1>0, <1>1, <1>7, <2>1, <2>2, <2>3 DEF TypeOK, Byte, Instruction
  <2>6. ASSUME n = 0 PROVE Ahead'
    <3>1. pc' = "next" /\ n + 1 = k + 1
      BY <1>0, <1>3, <1>4, <1>7, <2>6
    <3> QED BY <1>1, <2>4, <3>1 DEF Ahead
  <2>7. ASSUME n # 0 PROVE Ahead'
    <3>1. pc' = "execute" /\ n + 1 = k + 2
      BY <1>0, <1>3, <1>5, <1>7, <2>7
    <3> QED BY <1>1, <1>3, <2>4, <2>7, <3>1 DEF Ahead, Written
  <2>8. Ahead'
    BY <2>6, <2>7
  <2> QED BY <1>1, <1>6, <2>5, <2>8 DEF ExecutedInv, RefillReadsEnough
<1>8. CASE ~Enough /\ pc' = AtEnd /\ UNCHANGED <<next_instr, buf_ptr>>
  <2>1. read = size /\ Consumed' = Consumed
    BY <1>0, <1>1, <1>8 DEF RefillReadsEnough, Consumed
  <2>2. NoMore
    BY <1>0, <1>8, <2>1 DEF NoMore, Consumed, Enough, BufferInv, Places
  <2>3. TypeOK'
    BY <1>0, <1>1, <1>8 DEF TypeOK, AtEnd, Byte, Instruction
  <2>4. CASE n = 0
    <3>0. 0 * InstructionSize = 0
      BY Products
    <3>1. size < InstructionSize
      BY <1>0, <1>4, <2>2, <2>4, <3>0 DEF NoMore
    <3> QED BY <1>1, <1>4, <1>6, <1>8, <2>3, <2>4, <3>1
            DEF AtEnd, Ahead, ExecutedInv, RefillReadsEnough
  <2>5. CASE n # 0
    <3>1. pc' = "last" /\ n = k + 1
      BY <1>3, <1>5, <1>8, <2>5 DEF AtEnd
    <3>2. Taken(k + 1)' /\ NoMore'
      BY <1>1, <1>3, <1>8, <2>1, <2>2, <3>1 DEF Taken, NoMore, Written
    <3> QED BY <1>1, <1>6, <2>3, <3>1, <3>2 DEF Ahead, ExecutedInv, RefillReadsEnough
  <2> QED BY <2>4, <2>5
<1> QED BY <1>7, <1>8 DEF Take

\* Executing appends the instruction that was written next.
LEMMA ExecuteKeeps ==
  ASSUME ExecutedInv, Execute \/ ExecuteLast, BufferInv'
  PROVE  ExecutedInv'
<1> DEFINE k == Len(executed)
           i == IF pc = "execute" THEN instr ELSE next_instr
<1>0. TypeOK /\ BufferInv /\ Ahead /\ k \in Nat /\ size \in Nat
  BY DEF ExecutedInv, TypeOK, BufferInv, Places
<1>1. /\ \/ pc = "execute" /\ pc' = "next"
         \/ pc = "last" /\ pc' = "done"
      /\ executed' = Append(executed, i)
      /\ UNCHANGED <<size, buffer_vars, next_instr, instr>>
  BY DEF Execute, ExecuteLast
<1>2. i \in Instruction /\ i = Written(k + 1)
  BY <1>0, <1>1 DEF TypeOK, Ahead, Taken
<1>3. executed \in Seq(Instruction)
  BY <1>0 DEF TypeOK
<1> HIDE DEF i
<1>4. /\ executed' \in Seq(Instruction) /\ Len(executed') = k + 1
      /\ \A n \in DOMAIN executed' : executed'[n] = Written(n)
  <2>1. /\ Append(executed, i) \in Seq(Instruction)
        /\ Len(Append(executed, i)) = k + 1
        /\ \A n \in 1 .. k : Append(executed, i)[n] = executed[n]
        /\ Append(executed, i)[k + 1] = i
    BY <1>2, <1>3, AppendProperties
  <2>2. /\ DOMAIN Append(executed, i) = 1 .. k + 1 /\ DOMAIN executed = 1 .. k
    BY <1>3, <2>1, LenProperties
  <2>3. \A n \in 1 .. k + 1 : n \in 1 .. k \/ n = k + 1
    BY <1>0
  <2> QED BY <1>1, <1>2, <2>1, <2>2, <2>3 DEF ExecutedInv
<1>5. TypeOK'
  BY <1>0, <1>1, <1>4 DEF TypeOK, Byte, Instruction, buffer_vars
<1>6. Consumed' = Consumed /\ RefillReadsEnough'
  BY <1>1 DEF Consumed, buffer_vars, RefillReadsEnough
<1>7. ASSUME pc = "execute", pc' = "next"
      PROVE  Ahead'
  <2>1. Taken(k + 2)
    BY <1>0, <1>7 DEF Ahead
  <2>2. Len(executed') + 1 = k + 2
    BY <1>0, <1>4
  <2>3. Taken(Len(executed) + 1)'
    BY <1>1, <1>6, <2>1, <2>2 DEF Taken, Written
  <2> QED BY <1>7, <2>3 DEF Ahead
<1>8. ASSUME pc = "last", pc' = "done"
      PROVE  Ahead'
  <2>1. Consumed = (k + 1) * InstructionSize /\ NoMore
    BY <1>0, <1>8 DEF Ahead, Taken
  <2>2. Consumed <= size
    BY <1>0 DEF Consumed, BufferInv, Places
  <2> QED BY <1>1, <1>4, <1>8, <2>1, <2>2 DEF Ahead, NoMore
<1>9. \A n \in DOMAIN executed' : executed'[n] = Written(n)'
  BY <1>4 DEF Written
<1> QED BY <1>1, <1>5, <1>6, <1>7, <1>8, <1>9 DEF ExecutedInv

\* The invariant of the loop, and with it the types.
LEMMA ExecutedInvariance == Spec => [](ExecutedInv)
<1>1. ExecutedInv /\ [Next]_vars => ExecutedInv'
  <2> SUFFICES ASSUME ExecutedInv, [Next]_vars PROVE ExecutedInv'
    OBVIOUS
  <2>1. BufferInv'
    BY BufferStep DEF ExecutedInv
  <2>2. CASE UNCHANGED vars
    <3>1. RefillReadsEnough' /\ Ahead' /\ TypeOK'
      BY <2>2 DEF ExecutedInv, vars, buffer_vars, RefillReadsEnough, Ahead, Taken,
                  Consumed, NoMore, Enough, Written, TypeOK, Byte, Instruction
    <3> QED BY <2>1, <2>2, <3>1 DEF ExecutedInv, vars, Written
  <2> QED BY <2>1, <2>2, BufferReadKeeps, RefillKeeps, TakeKeeps, ExecuteKeeps
          DEF Next, Finished
<1> QED BY <1>1, ExecutedInit, PTL DEF Spec

\* Every variable of replay's reader keeps its type: the buffer is never read
\* or written outside its bounds (replay.cc:274-310).
THEOREM ReaderTypeCorrect == Spec => []TypeOK
<1>1. ExecutedInv => TypeOK
  BY DEF ExecutedInv
<1> QED BY <1>1, ExecutedInvariance, PTL

\* However short the reads are, and wherever they split an instruction, replay
\* executes what was written, in order and once, all of it but a torn end; it
\* aborts only when there was not one instruction (replay.cc:347-382).
THEOREM EveryInstructionExecuted == Spec => []ExecutesEveryInstruction
<1>1. ExecutedInv => ExecutesEveryInstruction
  <2> SUFFICES ASSUME ExecutedInv PROVE ExecutesEveryInstruction
    OBVIOUS
  <2>1. Len(executed) \in Nat /\ size \in Nat
    BY DEF ExecutedInv, TypeOK, BufferInv, Places
  <2>2. pc = "done" => Len(executed) = size \div InstructionSize
    BY <2>1, Quotient DEF ExecutedInv, Ahead
  <2> QED BY <2>2 DEF ExecutedInv, Ahead, ExecutesEveryInstruction
<1> QED BY <1>1, ExecutedInvariance, PTL
=============================================================================
