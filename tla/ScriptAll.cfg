CONSTANTS
  q1 = q1
  q2 = q2
  Scenario <- AllScenarios
SPECIFICATION Spec
INVARIANTS WorkerPidsInBounds BatchesPartition WholeDecodedOnce NothingLost LookaheadInShare
CHECK_DEADLOCK FALSE
