CONSTANTS
  PoolSize = 2
  ParseJobs = 2
  MaxThreads = 1
  NULL = NULL
  Garbage = Garbage
SPECIFICATION FairSpec
PROPERTY ExitTerminates
CHECK_DEADLOCK FALSE
