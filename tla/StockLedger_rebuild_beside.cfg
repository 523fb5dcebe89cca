\* Every bin has a row; rebuilds run beside the postings, as the route allows.
SPECIFICATION Spec
CONSTANTS
  None = None
  Session = {s1, s2}
  Entry = {e1, e2}
  b1 = b1
  b2 = b2
  Bin <- MCBin
  ItemBins <- MCOneItem
  Doc <- PostingDocs
  Opening <- MCOpening
  Seeded <- MCBin
  Maintenance = FALSE
  MaxRows = 14
INVARIANTS BinsMatchLedger
SYMMETRY Symmetric
