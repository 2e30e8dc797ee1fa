SPECIFICATION FairSpec
CONSTANTS
    Period = 3
    MinNap = 2
    Naps <- MCNaps
    Works <- MCWorks
    MaxWork = 1
    Slips <- MCSlips
    MaxSlip = 1
    AgeMax = 6
    Coords = {c1, c2}
    NoCoords = NoCoords
    Pins = {p1}
    NoPins = NoPins
    DeepSleepEnabled = TRUE
    Edits = 1
    Patches = 1
    Cuts = 1
    Sleeps = 1
INVARIANTS NotTooOften BootOnce
PROPERTIES NapKeepsTheCadence OwedAckGoesOut CoordsGoOut
