CONSTANTS
    Settings <- MCSettings
    Quirks = {}
    Unasked = {}
    MaxOut = 1
SPECIFICATION Spec
INVARIANT
    Attended
PROPERTY
    LoginEnds
CHECK_DEADLOCK FALSE
