\* Batches of two points, arrays of up to two messages, every failure.
SPECIFICATION Spec
CONSTANTS
  TraceMessages <- SmallTrace
  MaxArray = 2
  MaxSeen = 5
  SinkFaults = {"init", "configure", "upstream", "transport", "memory"}
  Batch = 2
INVARIANTS
  NoneOverwritten
  StoredIsPrefix
  LossIsBounded
  ReleasedOnce
CHECK_DEADLOCK FALSE
