CONSTANTS
  t1 = t1
  t2 = t2
  t3 = t3
  a = a
  b = b
  Threads = {t1, t2, t3}
  NoThread = NoThread
  Tokens = {a, b}
  NoTok = NoTok
  Times = {0, 1}
  Cpus = {0}
  MaxBufs = 1
  TokPlaces = {}
  NDEBUG = TRUE
SPECIFICATION Spec
SYMMETRY MCSymmetry
INVARIANTS
  ThreadPlaces
  CompleteTraceDrained
PROPERTIES
  MergesTraces
