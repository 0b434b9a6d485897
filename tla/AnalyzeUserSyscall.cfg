CONSTANTS
  Scenario <- UserSyscall
  Ticks = {1}
  SchedMod = 100
SPECIFICATION Spec
INVARIANT EveryReturnRecorded
CHECK_DEADLOCK FALSE
