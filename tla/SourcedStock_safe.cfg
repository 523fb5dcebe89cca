\* A ticket with two requests at work on it, or a booking with two; stock is
\* short at first and comes and goes on the stock page.
CONSTANTS
  Ticket = {t}
  Booking = {b}
  Bin = {i}
  MaxEntry = 3
  MaxTimes = 2
  InStock = 0
  None = None
  Till = {c1, c2}
  Desk = {d1, d2}
SPECIFICATION MCSpec
SYMMETRY Symmetry
INVARIANTS TypeOK StampIsOwnIssue VoidTakesBack ShiftAddsUp
  RealizedByIssue NeverResurrected OneIssuePerSource
PROPERTIES StampKept SettledRowsStay
\* When the entries are used up and the shift is closed nothing is left to do.
CHECK_DEADLOCK FALSE
