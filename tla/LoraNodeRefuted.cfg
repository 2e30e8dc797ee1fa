\* Each of the formulas below is violated: one at a time, the others as comments.
SPECIFICATION Spec
CONSTANTS
    Period = 4
    MinNap = 2
    Naps <- MCNaps
    Works <- MCWorks
    MaxWork = 1
    Slips <- MCNoSlip
    MaxSlip = 0
    AgeMax = 8
    Coords = {c1}
    NoCoords = NoCoords
    Pins = {p1}
    NoPins = NoPins
    DeepSleepEnabled = TRUE
    Edits = 2
    Patches = 1
    Cuts = 0
    Sleeps = 1
INVARIANT OwedAckIsQueued
\* INVARIANT DueNowMeansDue
\* INVARIANT MarkedMeansSent
\* PROPERTY PingIsPlain
\* INVARIANT OneBootPerPowerCycle
