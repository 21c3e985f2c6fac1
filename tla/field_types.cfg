SPECIFICATION Spec
CONSTANTS
  Starts <- Trees
  MaxCalls = 3
  MaxTypes = 8
  MaxKids = 2
  Names = {"a", "b"}
  Data = {1, 2}
  Unnamed = 2
  Alignments = {3, 4}
  ByteOrders = {"native", "big"}
  Bits = 1
INVARIANT FlagsAreDeep
INVARIANT CachesAreTrue
INVARIANT CopyIsEqual
PROPERTY FrozenUnchanged
CHECK_DEADLOCK FALSE
