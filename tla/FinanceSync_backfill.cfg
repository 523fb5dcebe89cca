\* A nightly sync is clamped to its window, then a manual sync runs.
SPECIFICATION Spec
CONSTANTS
  None = None
  Worker = {w1, w2}
  NJobs = 2
  NDocs = 1
  MaxTime = 3
  MaxChanges = 1
  Overlap = 1
  Window = 1
  Windowed = {FALSE, TRUE}
  Slow = FALSE
  First = 0
SYMMETRY Symmetry
INVARIANT ManualSyncBackfills
CHECK_DEADLOCK FALSE
