CONSTANTS
  t1 = t1
  t2 = t2
  a = a
  b = b
  Threads = {t1, t2}
  NoThread = NoThread
  Tokens = {a, b}
  NoTok = NoTok
  Times = {0, 1}
  Cpus = {0}
  MaxBufs = 2
  TokPlaces = {}
  NDEBUG = TRUE
SPECIFICATION Spec
SYMMETRY MCSymmetry
INVARIANTS
  TypeOK
  ThreadPlaces
  NoLostWakeup
  ReleasedOnce
  CompleteTraceDrained
PROPERTIES
  MergesTraces
