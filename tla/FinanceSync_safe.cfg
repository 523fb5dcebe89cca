\* Two syncs in a row of a document that changes: crashes, failures,
\* cancellations and, once, a slow worker that is taken for dead.
SPECIFICATION Spec
CONSTANTS
  None = None
  Worker = {w1, w2}
  NJobs = 2
  NDocs = 1
  MaxTime = 2
  MaxChanges = 1
  Overlap = 1
  Window = 1
  Windowed = {FALSE}
  Slow = TRUE
  First <- Never
SYMMETRY Symmetry
INVARIANTS TypeOK OneWorkerPerSource NothingLeftBehind
PROPERTY JobsStayEnded
\* At the end of the bounded time, with all jobs ended, nothing is left to do.
CHECK_DEADLOCK FALSE
