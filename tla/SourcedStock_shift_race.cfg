\* A sale or a void beside the closing of the shift.
CONSTANTS
  Ticket = {t}
  Booking = {b}
  Bin = {i}
  MaxEntry = 3
  MaxTimes = 2
  InStock = 0
  None = None
  Till = {c1, c2}
  Desk = {d1, d2}
SPECIFICATION MCSpec
SYMMETRY Symmetry
INVARIANTS ExpectedIsStanding
\* When the entries are used up and the shift is closed nothing is left to do.
CHECK_DEADLOCK FALSE
