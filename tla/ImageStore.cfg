CONSTANTS
  empty = empty
  short = short
  long = long
  w1 = w1
  Erased = Erased
  Torn = Torn
  NoWindow = NoWindow
  EmptyRing = empty
  LastPage = 4
  LastSector = 2
  MaxSeq = 3
  Rings <- MCRings
  Windows <- MCWindows
  SectorOf <- MCSectorOf
  PageCount <- MCPageCount
SPECIFICATION FairSpec
INVARIANTS CleanMeansDurable
PROPERTIES PowerCutCostsOnlyTheNewImage NewestMovesForward RingReachesFlash
