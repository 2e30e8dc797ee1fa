\* Both attempts of a command may be struck.  With AnyBit = TRUE one is enough.
SPECIFICATION Spec
CONSTANTS
  Address = 48
  Probes <- MCProbes
  MaxValues = 3
  MayBeSilent = TRUE
  AnyBit = FALSE
  MaxBad = 2
INVARIANT ValuesAreTheProbes
