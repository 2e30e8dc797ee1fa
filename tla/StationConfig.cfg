SPECIFICATION ConfigSpec
CONSTANTS
    Gpios <- MCGpios
    NoPin <- MCNoPin
    Wireless <- MCWireless
    WakeButton = 15
    Adcs <- MCAdcs
    Slots <- MCSlots
    Periods <- MCPeriods
    Degrees <- MCDegrees
    Unset = Unset
    Absent = Absent
    Patches <- MCPatches
    Tlvs <- MCTlvs
INVARIANTS ConfigTyped SensorPinsSound LoraPinsSound LocalNeedsModel
