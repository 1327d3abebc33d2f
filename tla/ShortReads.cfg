CONSTANTS
  Inputs <- MCInputs
  MagicSize = 1
  MaxSize = 3
  Page = 4
  RealizeSize = 4
  UnrealizeStep = 12
  MinRead = 3
SPECIFICATION Spec
INVARIANTS
  GivesUpAtEndOfData
