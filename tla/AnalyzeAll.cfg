CONSTANTS
  Scenario <- AllScenarios
  Ticks = {1}
  SchedMod = 100
SPECIFICATION Spec
INVARIANTS LatencyIsReal ExactWhenComplete BlockSchedFits ChildrenFit RecordedWhenComplete LossWithinTrace BlockStartsReached
PROPERTY OnlyInsideAncestor
CHECK_DEADLOCK FALSE
