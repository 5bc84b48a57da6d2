\* Two requests that compete for an hour, one of them almost too late, a
\* cancellation and the job; locks that vanish, commits that raise, the death of
\* a worker: one failure of any kind.
SPECIFICATION FairSpec
CONSTANTS
  b1 = b1
  b2 = b2
  u1 = u1
  u2 = u2
  Bookings = {b1, b2}
  SlotOf <- SoonSlots
  UserOf <- TwoUsers
  Cancellers = {c1}
  Expirers = {e1}
  MinHour = 6
  MaxHour = 18
  MinMinutes = 30
  TTL = 2
  Expiry = 1
  DbOffset = 420
  MaxRequest = 1
  MaxNow = 2
  MaxFaults = 1
  RedisVolatile = TRUE
  AmbiguousCommit = TRUE
INVARIANTS
  CreatedEventHasRow
  ReportedIsReleased
PROPERTIES
  EveryRequestAnswered
  OverdueIsExpired
  KeepsItsWord
