CONSTANTS
  empty = empty
  short = short
  long = long
  w1 = w1
  Erased = Erased
  Torn = Torn
  NoWindow = NoWindow
  EmptyRing = empty
  LastPage = 4
  LastSector = 2
  MaxSeq = 2
  Rings <- MCRings
  Windows <- MCWindows
  SectorOf <- MCSectorOf
  PageCount <- MCPageCount
SPECIFICATION FairSpec
PROPERTIES WindowReachesFlash
\* The other formula the code does not satisfy:
\*   PROPERTIES EveryChangeReachesFlash
