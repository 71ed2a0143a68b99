CONSTANTS
  p1 = p1  p2 = p2  c1 = c1  c2 = c2  c3 = c3  w1 = w1
  Setters = {p1, p2}
  Callbacks = {c1, c2, c3}
  Waiters = {w1}
  Unset = Unset
SPECIFICATION FairSpec
INVARIANT CalledOnce
INVARIANT NoneStranded
INVARIANT NoLostSignal
PROPERTY KeepsPromise
CHECK_DEADLOCK FALSE
