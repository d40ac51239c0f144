CONSTANTS
    Sessions = {s1, s2}
    Nicks = {n1, n2}
    Passwords = {p1, p2}
    IMAccounts = {a1, a2}
    Unloadable = {a2}
    Null = Null
    Alone = TRUE
    Synced = TRUE
SPECIFICATION Spec
SYMMETRY Symmetry
INVARIANTS
    TypeOK
    IdentifiedWithPassword
PROPERTIES
    SavedAccountsAreKept
    DroppedStaysDropped
