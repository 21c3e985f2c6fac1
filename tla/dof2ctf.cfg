\* Every failure of a load or of the writer, on DOFs of two and three ECBs.
SPECIFICATION FairSpec
CONSTANTS
  Dofs <- MixedDofs
  Faults = {"header", "writer"}
  Strays <- Behind
  MaxStrays = 2
INVARIANTS
  DescribesAllOrNothing
  CutOffIsRefused
  OnlySizedIsDescribed
PROPERTY Returns
CHECK_DEADLOCK FALSE
