CONSTANTS
  Commands <- MCCommands
  Trace <- MCTrace
  Shares <- MCShares
  LatencyMin = 0
  LatencyMax = 60
  CodeBlock = FALSE
SPECIFICATION Spec
CHECK_DEADLOCK FALSE
INVARIANTS ReportTrue HistoryKept NothingLeft
PROPERTY EverythingEnds
