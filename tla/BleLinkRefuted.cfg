\* The formula below is violated.
SPECIFICATION FairSpec
CONSTANTS
    Keys = {k1, k2}
    NoKey = NoKey
    Totals = {1, 2}
    Weathers = {w1, w2}
    MaxConnections = 2
    MaxRequests = 2
    MaxWrites = 2
CHECK_DEADLOCK FALSE
PROPERTY EveryWriteIsAnswered
