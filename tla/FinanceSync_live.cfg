\* One sync and its successors after crashes and spent budgets: it ends.
SPECIFICATION FairSpec
CONSTANTS
  None = None
  Worker = {w1, w2}
  NJobs = 1
  NDocs = 2
  MaxTime = 2
  MaxChanges = 1
  Overlap = 1
  Window = 1
  Windowed = {FALSE}
  Slow = TRUE
  First <- Never
INVARIANTS CursorCovers NothingLeftBehind
PROPERTY SyncsEnd
\* At the end of the bounded time, with the job ended, nothing is left to do.
CHECK_DEADLOCK FALSE
