SPECIFICATION Spec
CONSTANTS
  nr_queues = 5
  Traces <- MCTraces
INVARIANTS DeliveredInOrder HeapSound Attributed OutInOrder AllDecoded
PROPERTY ScriptEnds
CHECK_DEADLOCK FALSE
