CONSTANTS
    Procs = {p1, p2, p3}
    Nicks = {n1}
    Private = {}
    Manual = {}
    Null = Null
    MaxLogins = 1
    MaxEvents = 1
SPECIFICATION Safety
SYMMETRY Symmetry
PROPERTIES
    DoneIsTakenOver
CHECK_DEADLOCK FALSE
