CONSTANTS
  q1 = q1
  q2 = q2
  Scenario <- SplitPsb
SPECIFICATION Spec
INVARIANT DecodedOnce
CHECK_DEADLOCK FALSE
