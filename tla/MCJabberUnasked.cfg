CONSTANTS
    Settings <- MCRequiredTls
    Quirks = {}
    Unasked = {"challenge"}
    MaxOut = 1
SPECIFICATION Spec
INVARIANT
    SecretsStayInside
CHECK_DEADLOCK FALSE
