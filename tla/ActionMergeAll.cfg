CONSTANTS
  t1 = t1
  t2 = t2
  Tid = {t1, t2}
  Inputs <- AllInputs
  LinesPerWorker = 1
  UINT32_MAX = 100
  UINT64_MAX = 100
SPECIFICATION Spec
INVARIANTS ThreadOrder FileOrder NothingDropped RealSpansActions
CHECK_DEADLOCK FALSE
