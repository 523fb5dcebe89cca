\* No bin has a row yet, and rebuilds run beside the postings.
SPECIFICATION Spec
CONSTANTS
  None = None
  Session = {s1, s2}
  Entry = {e1, e2}
  b1 = b1
  b2 = b2
  Bin <- MCBin
  ItemBins <- MCEachItem
  Doc <- RacingDocs
  Opening <- MCNothing
  Seeded = {}
  Maintenance = FALSE
  MaxRows = 14
SYMMETRY Symmetric
INVARIANTS NeverNegative RowsHaveDocument
PROPERTIES RowsOnlyWithTransition
