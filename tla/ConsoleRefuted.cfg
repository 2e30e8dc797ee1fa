\* Each of the formulas below is violated: one at a time, the others as comments.
SPECIFICATION Spec
CONSTANTS
    m0 = m0
    d1 = d1
    Commands <- MCCommands
    None = None
    Patient = FALSE
    MaxSeq = 4
CHECK_DEADLOCK FALSE
INVARIANT AcceptedIsWhole
\* INVARIANT RunsWhatWasAsked
