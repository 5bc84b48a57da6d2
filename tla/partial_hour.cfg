\* Slots that do not end on the hour, no failure at all.
SPECIFICATION Spec
CONSTANTS
  b1 = b1
  b2 = b2
  u1 = u1
  u2 = u2
  Bookings = {b1, b2}
  SlotOf <- PartialHourSlots
  UserOf <- TwoUsers
  Cancellers = {}
  Expirers = {e1}
  MinHour = 6
  MaxHour = 18
  MinMinutes = 30
  TTL = 3
  Expiry = 4
  DbOffset = 0
  MaxRequest = 1
  MaxNow = 6
  MaxFaults = 0
  RedisVolatile = FALSE
  AmbiguousCommit = FALSE
INVARIANTS
  NoDoubleBooking
