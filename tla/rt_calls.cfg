CONSTANTS
  t1 = t1  t2 = t2  h1 = h1  h2 = h2  h3 = h3  k1 = k1  k2 = k2  q1 = q1  q2 = q2
  a = a  b = b  c = c  NULL = NULL  app = app  worker = worker
  None = None
  Threads = {t1, t2}
  Handles = {h1, h2, h3}
  First = h1
  Kernels = {k1, k2}
  ImageQueues = {q1, q2}
  Procs = {app}
  Ptrs = {a, b}
  UnmapArgs = {a, b, c, NULL}
  NullUnmap = FALSE
  InitSize = 2
  MaxMaps = 5
  Calls <- MCCalls
  MaxDimSize = 4
  MaxGroupSize = 8
  MaxWorkGroup = 24
  Block = 16
  NoPiece = NoPiece
  Period = 8
  Word = 128
  Limit = 24
  MaxSpan = 6
SPECIFICATION RtSpec
CHECK_DEADLOCK FALSE
SYMMETRY Symmetry
INVARIANT RefExact
INVARIANT FreedAlone
INVARIANT FreedOnce
INVARIANT TableHoldsMappings
INVARIANT MapRefCounts
INVARIANT ShrinkFits
 
INVARIANT NDRangeCovered
INVARIANT EventsSettled
INVARIANT StampsOrdered
