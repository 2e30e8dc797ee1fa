SPECIFICATION FairSpec
CONSTANTS
    N = 2
    Gpios <- MCGpios
    Tables <- MCTables
    Modes = {TRUE}
    Clients = {c1, c2}
    None = None
INVARIANTS OutputsMatchSlots
PROPERTIES RequestsDieWithClient QueuedSwitchHappens
