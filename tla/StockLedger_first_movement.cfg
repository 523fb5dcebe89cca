\* No bin has a row yet; rebuilds run in a maintenance window.
SPECIFICATION Spec
CONSTANTS
  None = None
  Session = {s1, s2}
  Entry = {e1, e2}
  b1 = b1
  b2 = b2
  Bin <- MCBin
  ItemBins <- MCEachItem
  Doc <- RacingDocs
  Opening <- MCNothing
  Seeded = {}
  Maintenance = TRUE
  MaxRows = 14
SYMMETRY Symmetric
INVARIANTS LedgerChains
