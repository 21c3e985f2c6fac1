\* Every message kind and every failure, two runs of the program in one group.
SPECIFICATION Spec
CONSTANTS
  Messages <- MixedMessages
  MaxLog = 4
  Capacity = 2
  MaxLives = 2
  Faults = {"new", "setup", "poll", "memstream", "convert", "configure", "lazy", "stream", "crash"}
INVARIANTS
  TypeOK
  DeliveryInOrder
  NothingSkipped
  StreamBeginsFirst
  MetadataFirst
  OneMsgIter
PROPERTIES
  InterruptIsFinal
  ImplementsOrderedDelivery
CHECK_DEADLOCK FALSE
