SPECIFICATION Spec
CONSTANTS
  Thread = {t1, t2, t3}
  Main = t1
  Idle = idle
  NULL = null
  l1 = l1
  c1 = c1
  Sema = {s1}
  Lock = {l1, l2}
  Cond = {}
  CondLock <- NoCondLock
  TIME_SLICE = 2
  MaxSleep = 1
  MaxValue = 2
INVARIANTS LockInv ElemInv NoLostWakeup
PROPERTIES ImplementsSched
