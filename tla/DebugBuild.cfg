CONSTANTS
  t1 = t1
  t2 = t2
  a = a
  b = b
  Threads = {t1, t2}
  NoThread = NoThread
  Tokens = {a, b}
  NoTok = NoTok
  Times = {0, 1}
  Cpus = {0}
  MaxBufs = 1
  TokPlaces = {1}
  NDEBUG = FALSE
SPECIFICATION Spec
SYMMETRY MCSymmetry
INVARIANTS
  HeapKeysFresh
PROPERTIES
  OnlyWaitingDeathsAbort
