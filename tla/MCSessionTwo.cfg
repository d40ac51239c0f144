CONSTANTS
    Sessions = {s1, s2}
    Nicks = {n1}
    Passwords = {p1}
    IMAccounts = {a1}
    Unloadable = {}
    Null = Null
    Alone = FALSE
    Synced = TRUE
SPECIFICATION Spec
PROPERTY DroppedStaysDropped
