\* Each of the formulas below is violated: one at a time, the others as comments.
SPECIFICATION Spec
CONSTANTS
    N = 2
    Gpios <- MCGpios
    Tables <- MCAllTables
    Modes = {TRUE, FALSE}
    Clients = {c1, c2}
    None = None
INVARIANT OutputsAlwaysMatch
\* PROPERTY QueuedSwitchStays
\* PROPERTY QueuedInferenceRuns
\* PROPERTY OnlyActuatorsAreDriven
\* PROPERTY SwitchedAsAsked
