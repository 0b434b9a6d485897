CONSTANTS
  main = main
  t1 = t1
  t2 = t2
  k1 = k1
  k2 = k2
  Proc = {main, t1, t2}
  Main = main
  Key = {k1, k2}
  NoProc = NoProc
  WRITE = 4
SPECIFICATION FairSpec
INVARIANTS MutualExclusion EveryBlockHasLine
PROPERTIES FirstPutWins ReportPrinted
CHECK_DEADLOCK FALSE
