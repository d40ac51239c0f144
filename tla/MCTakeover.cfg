CONSTANTS
    Procs = {p1, p2}
    Nicks = {n1, n2}
    Private = {}
    Manual = {n2}
    Null = Null
    MaxLogins = 2
    MaxEvents = 1
SPECIFICATION Spec
INVARIANTS
    LinksPairSessions
PROPERTIES
    MovesToItsUser
    LoginIsDecided
CHECK_DEADLOCK FALSE
