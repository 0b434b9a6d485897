CONSTANTS
  Scenario <- BlockSyscall
  Ticks = {1, 3}
  SchedMod = 100
SPECIFICATION Spec
INVARIANT BlockSchedFits
CHECK_DEADLOCK FALSE
