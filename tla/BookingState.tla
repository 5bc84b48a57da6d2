---------------------------- MODULE BookingState ----------------------------
(***************************************************************************)
(* What the use cases share: the clock, the `bookings` table in PostgreSQL *)
(* (BookingRepository), the slot locks in Redis (RedisSlotLock) and the    *)
(* events on the RabbitMQ exchange (RabbitMQBookingPublisher).             *)
(*                                                                         *)
(* A booking's id is made by the request that creates it, so a member of   *)
(* Bookings names both the request and its row.  PostgreSQL runs at its    *)
(* default isolation, READ COMMITTED: a query sees the committed rows, and *)
(* the only row a transaction here writes is its own booking's.            *)
(***************************************************************************)
EXTENDS BookingStatus, SlotKeys, FiniteSets

CONSTANTS Bookings,
          SlotOf,          \* the slot each request asks for
          UserOf,          \* the user each request comes from
          TTL,             \* REDIS_SLOT_LOCK_TTL_SECONDS
          Expiry,          \* BOOKING_EXPIRY_MINUTES
          DbOffset,        \* offset of the timezone of the database session
          MaxFaults,       \* bound on failures of a process or a service
          RedisVolatile,   \* may Redis drop a lock (allkeys-lru, a restart)?
          AmbiguousCommit  \* may COMMIT take effect and still raise?

ASSUME StateAssumption ==
  /\ TTL \in Nat \ {0} /\ Expiry \in Nat /\ MaxFaults \in Nat
  /\ RedisVolatile \in BOOLEAN /\ AmbiguousCommit \in BOOLEAN

VARIABLES now,        \* the wall clock, in minutes
          status,     \* bookings.status by id, "ABSENT" where there is no row
          expiredAt,  \* bookings.expired_at by id
          locks,      \* the Redis keys that are set: key, owner, expiry time
          events,     \* how often each event of a booking was given to _publish
          faults      \* failures so far

stateVars == <<now, status, expiredAt, locks, events, faults>>

EventTypes == {"booking.created", "booking.expired"}

StateTypeOK ==
  /\ now \in Nat /\ faults \in Nat
  /\ status \in [Bookings -> Statuses \cup {"ABSENT"}]
  /\ expiredAt \in [Bookings -> Nat]
  /\ events \in [EventTypes -> [Bookings -> Nat]]
  /\ \A l \in locks : l.owner \in Bookings /\ l.until \in Nat

StateInit == /\ now = 0 /\ faults = 0
             /\ status = [b \in Bookings |-> "ABSENT"]
             /\ expiredAt = [b \in Bookings |-> 0]
             /\ locks = {}
             /\ events = [t \in EventTypes |-> [b \in Bookings |-> 0]]

\* A step on which a call to a service raises, whatever the reason (the service, the
\* network, a pool that is empty), or a process dies.
Fault == faults < MaxFaults /\ faults' = faults + 1

-----------------------------------------------------------------------------
(* PostgreSQL: the queries of BookingRepository.                           *)

IsActive(b) == status[b] \in Active

FindOverlapping(slot) == {b \in Bookings : IsActive(b) /\ Overlap(SlotOf[b], slot)}

\* A plausible slip: the deadline ignored.
FindAllPending == {b \in Bookings : status[b] = "PENDING_PAYMENT"}

FindExpired ==
  {b \in Bookings : status[b] = "PENDING_PAYMENT" /\ expiredAt[b] <= now}

\* get_by_id_and_user: the row, if the user owns it
Visible(b, user) == status[b] # "ABSENT" /\ UserOf[b] = user

\* session.merge reads the row afresh (the session holds no object for it, its
\* identity map is weak) and flush updates only the columns that differ, so
\* saving an entity whose status equals the row's writes nothing.
Dirty(b, new) == status[b] # new

-----------------------------------------------------------------------------
(* Redis: RedisSlotLock.                                                   *)

Taken(k) == \E l \in locks : l.key = k

Lock(k, b) == [key |-> k, owner |-> b, until |-> now + TTL]

\* A plausible slip: SET without NX.
SetWithoutNX(k, b) == locks' = {l \in locks : l.key # k} \cup {Lock(k, b)}

\* acquire_lock, when SET key owner NX EX ttl answers OK
SetNX(k, b) == ~Taken(k) /\ locks' = locks \cup {Lock(k, b)}

\* A plausible slip: DEL without the comparison of the owner.
DelAny(k, b) == locks' = {l \in locks : l.key # k}

\* release_lock: the Lua script deletes the key if its value is the booking
Release(k, b) == locks' = {l \in locks : ~(l.key = k /\ l.owner = b)}

\* A call that raises may or may not have reached the server.
MaybeRelease(k, b) == Release(k, b) \/ UNCHANGED locks

\* A key set with EX ttl is gone once ttl has passed.
Unexpired(t) == {l \in locks : l.until > t}

\* maxmemory-policy allkeys-lru, or a restart that lost the last writes
Evict == /\ RedisVolatile /\ Fault
         /\ \E l \in locks : locks' = locks \ {l}
         /\ UNCHANGED <<now, status, expiredAt, events>>

-----------------------------------------------------------------------------
(* RabbitMQ: _publish makes one attempt and swallows every exception, so   *)
(* for its caller a call is a call.  Each message arrives once or, without *)
(* anybody being told, never: RabbitMQConnection says when.                *)

Publish(type, b) == events' = [events EXCEPT ![type][b] = @ + 1]
=============================================================================
