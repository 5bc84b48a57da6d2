\* Four bookings, pages of one and of two, two of them cancelled.  The system
\* stops when all are booked and the client has read its last page.
SPECIFICATION ListSpec
CONSTANTS
  Bookings = {b1, b2, b3, b4}
  Limits = {1, 2}
  Cap = 2
  MaxUpdates = 2
SYMMETRY BookingSymmetry
INVARIANTS
  ListTypeOK
  WalkIsComplete
  NothingSkipped
  RepeatsAreNewRows
CHECK_DEADLOCK FALSE
