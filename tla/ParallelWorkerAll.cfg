CONSTANTS
  PoolSize = 2
  ParseJobs = 3
  MaxThreads = 2
  NULL = NULL
  Garbage = Garbage
SPECIFICATION FairSpec
INVARIANTS TypeOK PhaseBarrier NothingAbandoned ExecutedOnceInOrder BreakAsserted
PROPERTY PhasesFinish
CHECK_DEADLOCK FALSE
