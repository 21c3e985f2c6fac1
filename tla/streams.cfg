SPECIFICATION Spec
CONSTANTS
    Shape <- MCShape
    WordBits = 9
    StreamNames = {s1, s2}
    EventNames = {e1, e2, e3}
    Ids = {0, 1}
    AutoId = AutoId
    Nobody = Nobody
    Clients <- MCClients
    Times = {0, 1, 2, 511}
    Values = {0, 1, 2}
    Counts = {1, 511}
    FailSets <- MCFailSets
    Order <- MCOrder
INVARIANT EventsHaveOneHome
INVARIANT OrphansHoldTheirClass
INVARIANT PacketsAreReadable
INVARIANT TimesEnclose
INVARIANT FirstWrapIsCarried
INVARIANT PendingCanBeWritten
CHECK_DEADLOCK FALSE
