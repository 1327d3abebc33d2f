CONSTANTS
  B = 4
  kExtTypeShift = 6
  kTSShift = 2
  Threads <- MCThreads
  Sizes <- MCSizes
  Alignments <- MCAlignments
  Tokens <- MCTokens
  FormatStamps <- MCStamps
  Fills <- MCFills
  MaxEvents = 2
  MaxRecords = 3
SPECIFICATION Spec
INVARIANTS
  TypeOK
  CodecFollowsTable
  DecodesWhatWasRecorded
  DeltaStatesAgree
