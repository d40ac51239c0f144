CONSTANTS
    Accounts = {a1}
    Conns = {c1}
    EventIds = {1, 2}
    Null = Null
    IntMax = 15
    LoginOutcomes = {"connecting", "connected"}
    DelaySettings <- MCDelaySettings
SPECIFICATION Spec
INVARIANT LoginTimerOnlyBeforeLogin
