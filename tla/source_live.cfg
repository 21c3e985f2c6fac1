\* Progress under the fairness of the graph and of the topic.
SPECIFICATION FairSpec
CONSTANTS
  Messages <- SteadyMessages
  MaxLog = 3
  Capacity = 2
  MaxLives = 1
  Faults = {"poll"}
PROPERTY DofDecoded
PROPERTY DataDelivered
PROPERTY CancelStops
CHECK_DEADLOCK FALSE
