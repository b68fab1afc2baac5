SPECIFICATION Spec
CONSTANTS
  Process = {main, a, b}
  InitialThread = main
  Code = {0, 1}
  NULL = null
INVARIANTS ResultsDelivered StrayUses NoLeak
PROPERTIES WaitEnds
CHECK_DEADLOCK FALSE
