\* A COMMIT that takes effect and raises: the handler releases the locks of a
\* booking that exists.
SPECIFICATION Spec
CONSTANTS
  b1 = b1
  b2 = b2
  u1 = u1
  u2 = u2
  Bookings = {b1, b2}
  SlotOf <- HourSlots
  UserOf <- TwoUsers
  Cancellers = {}
  Expirers = {e1}
  MinHour = 6
  MaxHour = 18
  MinMinutes = 30
  TTL = 3
  Expiry = 4
  DbOffset = 0
  MaxRequest = 1
  MaxNow = 6
  MaxFaults = 1
  RedisVolatile = FALSE
  AmbiguousCommit = TRUE
INVARIANTS
  NoDoubleBooking
