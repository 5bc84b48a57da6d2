\* Two racing requests for overlapping slots, a cancellation, the expiry job,
\* one failure anywhere.  2 * MaxRequest < TTL.
SPECIFICATION Spec
CONSTANTS
  b1 = b1
  b2 = b2
  u1 = u1
  u2 = u2
  Bookings = {b1, b2}
  SlotOf <- HourSlots
  UserOf <- TwoUsers
  Cancellers = {c1}
  Expirers = {e1}
  MinHour = 6
  MaxHour = 18
  MinMinutes = 30
  TTL = 3
  Expiry = 2
  DbOffset = 0
  MaxRequest = 1
  MaxNow = 4
  MaxFaults = 1
  RedisVolatile = FALSE
  AmbiguousCommit = FALSE
INVARIANTS
  TypeOK
  NoDoubleBooking
  SavedHoldsItsLocks
  RefusedHoldsNothing
  AnswerMatchesRow
  CreatedEventHasRow
  ExpiredEventOnce
  NeverExpiredEarly
  ReportedIsReleased
  
  RefusedOnlyForARival
  IInv
PROPERTIES
  ImplementsReservations
  LocksStayWithOwner
  InactiveStaysInactive
  RowsFollowTheTable
