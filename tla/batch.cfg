\* Two overdue bookings in one batch of the job, one SQL error.
SPECIFICATION Spec
CONSTANTS
  b1 = b1
  b2 = b2
  u1 = u1
  u2 = u2
  Bookings = {b1, b2}
  SlotOf <- DisjointSlots
  UserOf <- TwoUsers
  Cancellers = {}
  Expirers = {e1}
  MinHour = 6
  MaxHour = 18
  MinMinutes = 30
  TTL = 3
  Expiry = 1
  DbOffset = 0
  MaxRequest = 1
  MaxNow = 3
  MaxFaults = 1
  RedisVolatile = FALSE
  AmbiguousCommit = FALSE
INVARIANTS
  FailuresAreIsolated
