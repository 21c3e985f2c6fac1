SPECIFICATION Spec
CONSTANTS
  Layouts <- AllLayouts
  Requests <- AllRequests
  MaxDepth = 5
INVARIANT LinksAreRight
INVARIANT ValidIsComplete
INVARIANT GivenUntouched
CHECK_DEADLOCK FALSE
