\* Each of the formulas below is violated: one at a time, the others as comments.
SPECIFICATION Spec
CONSTANTS
  Cap = 4
  Past = 2
  Ahead = 1
  ProvMax = 100
  MaxNow = 4
  MaxBoots = 2
CHECK_DEADLOCK FALSE
INVARIANT RebasedIsTrue
\* INVARIANT WokenTimed
\* INVARIANT NeverMixed
\* PROPERTY TopLeavesOneKind
\* PROPERTY ResetKeepsKindsApart
