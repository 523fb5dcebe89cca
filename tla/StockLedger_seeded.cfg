\* Every bin has a row and rebuilds run in a maintenance window.
SPECIFICATION Spec
CONSTANTS
  None = None
  Session = {s1, s2}
  Entry = {e1, e2}
  b1 = b1
  b2 = b2
  Bin <- MCBin
  ItemBins <- MCOneItem
  Doc <- PostingDocs
  Opening <- MCOpening
  Seeded <- MCBin
  Maintenance = TRUE
  MaxRows = 14
INVARIANTS TypeOK BinsMatchLedger LedgerChains
PROPERTIES ImplementsBook
SYMMETRY Symmetric
