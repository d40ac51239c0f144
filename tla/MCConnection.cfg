CONSTANTS
    Ircs = {i1, i2}
    Clients = {k1, k2}
    None = None
    Closed = FALSE
    Interval = 1
    Timeout = 1
    LoginTimeout = 1
    Packets <- MCPackets
SPECIFICATION Spec
INVARIANTS
    EventsBelongToSessions
    OutputIsNeverStuck
PROPERTIES
    OneSessionPerClient
    SilenceWasAskedAbout
    AbortedIsFreed
    SilentClientsAreDropped
CHECK_DEADLOCK FALSE
