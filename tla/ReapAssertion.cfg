CONSTANTS
  t1 = t1
  t2 = t2
  a = a
  Threads = {t1, t2}
  NoThread = NoThread
  Tokens = {a}
  NoTok = NoTok
  Times = {0}
  Cpus = {0}
  MaxBufs = 1
  TokPlaces = {}
  NDEBUG = FALSE
SPECIFICATION Spec
SYMMETRY MCSymmetry
INVARIANTS
  ReapedThreadHasNoBufs
