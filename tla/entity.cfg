\* A payment window of two and a clock that runs past two windows.  A booking
\* that is COMPLETED when the clock reaches its bound has no further step.
SPECIFICATION Spec
CONSTANTS
  Expiry = 2
  MaxNow = 5
INVARIANTS
  TypeOK
  NoServiceWithoutPayment
  PaidIsKept
  PendingHasDeadline
  ReasonMeansCancelled
CHECK_DEADLOCK FALSE
