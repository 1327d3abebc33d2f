CONSTANTS
  InstructionSize = 3
  BufferSize = 11
  kMinReadAmount = 4
  OutputSizes <- MCOutputSizes
SPECIFICATION FairSpec
INVARIANTS
  TypeOK
  BufferHoldsWhatFollows
  RoomToRead
  ExecutesEveryInstruction
PROPERTIES
  ReplayEnds
