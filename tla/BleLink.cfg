SPECIFICATION FairSpec
CONSTANTS
    Keys = {k1, k2}
    NoKey = NoKey
    Totals = {1, 2}
    Weathers = {w1, w2}
    MaxConnections = 2
    MaxRequests = 2
    MaxWrites = 2
CHECK_DEADLOCK FALSE
INVARIANTS AuthedMeansProof ResponseIsWhole WeatherIsOneUpdate
PROPERTIES ResponseFinishes LastWriteIsAnswered
