CONSTANTS
    c1 = c1
    c2 = c2
    Clients = {c1, c2}
    Callers = {c1, c2}
    MaxQueries = 1
    MaxUpsets = 2
    MaxMounts = 2
    MaxHuman = 1
    MaxFrames = 1
    MaxOut = 1
    MaxTurns = 4
    None = None
SPECIFICATION CodeSpec
INVARIANTS TurnsKeptApart WholeFrames TurnsContinue
PROPERTY QueriesSettle
CHECK_DEADLOCK FALSE
