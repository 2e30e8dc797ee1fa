SPECIFICATION Spec
CONSTANTS
  Cap = 3
  Past = 1
  Ahead = 1
  ProvMax = 100
  MaxNow = 2
  MaxBoots = 1
INVARIANTS OwnStampsAreTrue CaughtUp NoTwins KindsKeptApart
