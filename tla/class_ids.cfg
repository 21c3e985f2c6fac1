SPECIFICATION Spec
CONSTANTS
  Writer = Writer
  Trace = Trace
  None = None
  s1 = s1
  s2 = s2
  e1 = e1
  e2 = e2
  c1 = c1
  c2 = c2
  StreamClasses = {s1, s2}
  EventClasses = {e1, e2}
  Clocks = {c1, c2}
  TypesOf <- ScopeTypes
  Kept = {"event_header"}
  Clients <- MCClients
  Ids = {0}
  Words = {"w"}
  Names = {"n"}
  MaxHeld = 2
INVARIANT EventIdsDiffer
CHECK_DEADLOCK FALSE
