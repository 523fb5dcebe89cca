\* Two documents whose lines take the same two bins, in either order.
SPECIFICATION FairSpec
CONSTANTS
  None = None
  Session = {s1, s2}
  Entry = {e1, e2}
  b1 = b1
  b2 = b2
  Bin <- MCBin
  ItemBins <- MCEachItem
  Doc <- CrossingDocs
  Opening <- MCOpening
  Seeded <- MCBin
  Maintenance = TRUE
  MaxRows = 14
PROPERTIES EveryTransactionEnds
