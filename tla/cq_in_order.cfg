CONSTANTS
  t1 = t1  t2 = t2  h = h  q1 = q1  q2 = q2
  e1 = e1  e2 = e2  e3 = e3  e4 = e4
  Threads = {t1, h}
  Hosts = {h}
  Queues = {q1}
  Events = {e1, e2, e3}
  InitQueues = {q1}
  OutOfOrder = {}
  Calls = {"user", "nd", "barrier_all", "flush", "finish"}
  Blocking = {FALSE}
  MaxWaitList = 1
  MayFail = FALSE
  None = None
  Ctx = Ctx
SPECIFICATION Spec
 
INVARIANT SyncPost
