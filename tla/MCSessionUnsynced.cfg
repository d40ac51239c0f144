CONSTANTS
    Sessions = {s1}
    Nicks = {n1}
    Passwords = {p1}
    IMAccounts = {a1}
    Unloadable = {}
    Null = Null
    Alone = TRUE
    Synced = FALSE
SPECIFICATION Spec
PROPERTY SavedAccountsAreKept
