SPECIFICATION Spec
CONSTANTS
  Thread = {t1, t2, t3}
  Main = t1
  Idle = idle
  NULL = null
  l1 = l1
  c1 = c1
  Sema = {}
  Lock = {l1}
  Cond = {c1}
  CondLock <- OneCondLock
  TIME_SLICE = 2
  MaxSleep = 2
  MaxValue = 1
INVARIANTS QueueInv SleepInv SignalInv
PROPERTIES WakesOnTime ReadyRuns ImplementsMonitor WaitersProceed
