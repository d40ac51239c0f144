CONSTANTS
    Settings <- MCSettings
    Quirks = {"half"}
    Unasked = {}
    MaxOut = 1
SPECIFICATION Spec
INVARIANT
    Attended
CHECK_DEADLOCK FALSE
