SPECIFICATION BenchSpec
CONSTANTS
    m0 = m0
    d1 = d1
    Commands <- MCCommands
    NoText = NoText
    Waits = TRUE
    MaxSeq = 4
    Address = 48
    Probes <- MCProbes
    MaxValues = 3
    MayBeSilent = TRUE
    AnyBit = FALSE
    MaxBad = 1
CHECK_DEADLOCK FALSE
INVARIANTS AcceptedIsWhole AcceptedIsOwn ValuesAreTheProbes
PROPERTIES CommandIsAnswered
