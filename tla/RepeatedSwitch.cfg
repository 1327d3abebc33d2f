CONSTANTS
  t1 = t1
  t2 = t2
  a = a
  b = b
  Threads = {t1, t2}
  NoThread = NoThread
  Tokens = {a, b}
  NoTok = NoTok
  Times = {0}
  Cpus = {0}
  MaxBufs = 1
  TokPlaces = {}
  NDEBUG = FALSE
  PipeSize = 0
SPECIFICATION Spec
INVARIANTS
  SwitchesToAnotherThread
