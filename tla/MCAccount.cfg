CONSTANTS
    Accounts = {a1, a2}
    Conns = {c1, c2}
    EventIds = {1, 2}
    Null = Null
    IntMax = 15
    LoginOutcomes = {"connecting", "slow", "refused", "failed"}
    DelaySettings <- MCDelaySettings
SPECIFICATION FairSpec
INVARIANTS
    TypeOK
    OneAccountPerConnection
    TimersBelongToTheirOwner
    NoReconnectWhileConnected
    OffStaysOff
    LoginTimerOnlyBeforeLogin
PROPERTIES
    WantedIsRetried
    DelayShrinksOnlyOnSuccess
    ImplementsAccountStatus
    LoginEnds
