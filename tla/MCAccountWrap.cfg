CONSTANTS
    Accounts = {a1}
    Conns = {c1}
    EventIds = {1, 2}
    Null = Null
    IntMax = 15
    LoginOutcomes = {"connecting", "failed"}
    DelaySettings <- MCWrapSettings
SPECIFICATION Spec
PROPERTY DelayShrinksOnlyOnSuccess
