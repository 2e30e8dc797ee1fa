\* Each of the formulas below is violated: one at a time, the others as comments.
SPECIFICATION ConfigSpec
CONSTANTS
    Gpios <- MCGpios
    NoPin <- MCNoPin
    Wireless <- MCWireless
    WakeButton = 15
    Adcs <- MCAdcs
    Slots <- MCSlots
    Periods <- MCPeriods
    Degrees <- MCDegrees
    Unset = Unset
    Absent = Absent
    Patches <- MCPatches
    Tlvs <- MCTlvs
INVARIANT UnsavedIsDirty
\* INVARIANT LoraPinsNeverShared
\* INVARIANT CoordsComeInPairs  \* with Patches <- MCCoordPatches and Tlvs <- MCCoordTlvs
