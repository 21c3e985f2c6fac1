\* From the topic to the database, with every failure of both components that
\* the sink survives, and progress from the topic to the points.
SPECIFICATION FairSpec
CONSTANTS
  Messages <- SomeMessages
  MaxLog = 3
  Capacity = 2
  MaxLives = 1
  Faults = {"new", "setup", "poll", "lazy", "crash"}
  SinkFaults = {"init", "configure", "upstream", "transport", "memory"}
  Batch = 2
  Tick = 1
INVARIANTS
  StoredAreFirstDue
  EventsBecomePoints
PROPERTY EventsArrive
CHECK_DEADLOCK FALSE
