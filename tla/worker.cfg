\* Two requests that publish and two that read, three threads, two connections to
\* PostgreSQL and one to Redis, two attempts to connect, two failures.  A worker
\* that has stopped has no further step.
SPECIFICATION FairWorkerSpec
CONSTANTS
  Calls = {p1, p2}
  Readers = {r1, r2}
  MaxThreads = 3
  MaxDb = 2
  MaxRedis = 1
  MaxRetries = 2
  MaxFaults = 2
INVARIANTS
  TypeOK
  PoolBound
  BrokerWaitHoldsNoDb
  NothingIsLeftTaken
  LossIsExplained
  PublishesOnDeclared
PROPERTIES
  EveryRequestEnds
CHECK_DEADLOCK FALSE
