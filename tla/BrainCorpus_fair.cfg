\* Two workers, two ingests at a time, two jobs at a time, two events.
SPECIFICATION FairSpec
CONSTANTS
  None = None
  Job = {j1, j2}
  Worker = {w1, w2}
  Ref = {"dirty", "reconcile"}
  Dirty = "dirty"
  Reconcile = "reconcile"
  Cursor <- MCCursor
  Conv <- MCConv
  Order <- MCOrder
  Texts <- MCTexts
  Start <- MCStart
  c1 = c1
  c2 = c2
  Raw = {c2}
  Request = {r1, r2}
  MaxEvents = 2
INVARIANTS TypeOK EmbeddingsFit NoChangeForgotten
PROPERTIES CorpusConverges
