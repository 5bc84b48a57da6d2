---------------------------- MODULE CreateBooking ----------------------------
(***************************************************************************)
(* POST /bookings: CreateBookingUseCase.execute and the answers of         *)
(* create_booking, one process per request.  The steps between two calls   *)
(* to PostgreSQL, Redis or RabbitMQ are atomic; requests interleave at     *)
(* each of those calls.                                                    *)
(***************************************************************************)
EXTENDS BookingState

VARIABLES pc,         \* where a request is
          todo,       \* hours left in the loop it is in
          checkedAt,  \* when it found no overlapping booking
          dueAt       \* expired_at of the entity it saved

createVars == <<pc, todo, checkedAt, dueAt>>

\* Between the overlap query and the end of the transaction.
InFlight(r) == pc[r] \in {"locking", "saved"}
Releasing(r) == pc[r] \in {"undo", "failing"}
Answered == {"201", "409", "422", "500", "503"}

Hours(r) == LockHours(SlotOf[r])
KeyOf(r, h) == Key(SlotOf[r], h)

CreateTypeOK ==
  /\ pc \in [Bookings -> {"idle", "locking", "saved", "committed", "undo",
                          "failing", "crashed"} \cup Answered]
  /\ todo \in [Bookings -> SUBSET Int]
  /\ \A r \in Bookings : todo[r] \subseteq Hours(r)
  /\ checkedAt \in [Bookings -> Nat] /\ dueAt \in [Bookings -> Nat]

CreateInit == /\ pc = [r \in Bookings |-> "idle"]
              /\ todo = [r \in Bookings |-> {}]
              /\ checkedAt = [r \in Bookings |-> 0]
              /\ dueAt = [r \in Bookings |-> 0]

GoTo(r, place) == pc' = [pc EXCEPT ![r] = place]
Loop(r, hours) == todo' = [todo EXCEPT ![r] = hours]

\* range() runs upwards, and acquired_hours is appended to in that order.
NextHour(r, h) == h \in todo[r] /\ \A g \in todo[r] : h <= g

-----------------------------------------------------------------------------
\* A plausible slip: the locks trusted alone, without the overlap query.
StartUnchecked(r) ==
  /\ pc[r] = "idle"
  /\ ValidNewBooking(SlotOf[r], now)
  /\ checkedAt' = [checkedAt EXCEPT ![r] = now]
  /\ GoTo(r, "locking") /\ Loop(r, Hours(r))
  /\ UNCHANGED <<dueAt, stateVars>>

\* Steps 1 and 2: the rules, then the query, whose result is not looked at again.
Start(r) ==
  /\ pc[r] = "idle"
  /\ ValidNewBooking(SlotOf[r], now)
  /\ FindOverlapping(SlotOf[r]) = {}
  /\ checkedAt' = [checkedAt EXCEPT ![r] = now]
  /\ GoTo(r, "locking") /\ Loop(r, Hours(r))
  /\ UNCHANGED <<dueAt, stateVars>>

\* DomainRuleViolationError, SlotConflictError, or a DatabaseError of the query
Refuse(r) ==
  /\ pc[r] = "idle"
  /\ \/ ~ValidNewBooking(SlotOf[r], now) /\ GoTo(r, "422") /\ UNCHANGED faults
     \/ /\ ValidNewBooking(SlotOf[r], now)
        /\ FindOverlapping(SlotOf[r]) # {}
        /\ GoTo(r, "409") /\ UNCHANGED faults
     \/ ValidNewBooking(SlotOf[r], now) /\ GoTo(r, "500") /\ Fault
  /\ UNCHANGED <<todo, checkedAt, dueAt, now, status, expiredAt, locks, events>>

\* Step 3, acquire_locks_for_booking: one SET NX per hour.
AcquireLock(r) ==
  \E h \in todo[r] :
    /\ pc[r] = "locking" /\ NextHour(r, h)
    /\ SetNX(KeyOf(r, h), r)
    /\ Loop(r, todo[r] \ {h})
    /\ UNCHANGED <<pc, checkedAt, dueAt, now, status, expiredAt, events, faults>>

\* A plausible slip: giving up without releasing acquired_hours.
LockTakenNoRollback(r) ==
  \E h \in todo[r] :
    /\ pc[r] = "locking" /\ NextHour(r, h)
    /\ Taken(KeyOf(r, h))
    /\ GoTo(r, "undo") /\ Loop(r, {})
    /\ UNCHANGED <<checkedAt, dueAt, stateVars>>

\* A plausible slip: waiting for the hour with the others in hand.
LockTakenWaits(r) ==
  /\ pc[r] = "locking"
  /\ \E h \in todo[r] : NextHour(r, h) /\ Taken(KeyOf(r, h))
  /\ UNCHANGED <<createVars, stateVars>>

\* One hour is taken: go back over acquired_hours.
LockTaken(r) ==
  \E h \in todo[r] :
    /\ pc[r] = "locking" /\ NextHour(r, h)
    /\ Taken(KeyOf(r, h))
    /\ GoTo(r, "undo") /\ Loop(r, Hours(r) \ todo[r])
    /\ UNCHANGED <<checkedAt, dueAt, stateVars>>

\* A plausible slip: the payment window subtracted.
SaveDueInPast(r) ==
  /\ pc[r] = "locking" /\ todo[r] = {}
  /\ dueAt' = [dueAt EXCEPT ![r] = now - Expiry]
  /\ GoTo(r, "saved")
  /\ UNCHANGED <<todo, checkedAt, stateVars>>

\* Step 4: the entity becomes PENDING_PAYMENT and is flushed, not yet visible.
SaveBooking(r) ==
  /\ pc[r] = "locking" /\ todo[r] = {}
  /\ dueAt' = [dueAt EXCEPT ![r] = now + Expiry]
  /\ GoTo(r, "saved")
  /\ UNCHANGED <<todo, checkedAt, stateVars>>

\* The row a COMMIT makes visible.
Insert(r) == /\ status' = [status EXCEPT ![r] = "PENDING_PAYMENT"]
             /\ expiredAt' = [expiredAt EXCEPT ![r] = dueAt[r]]

CommitBooking(r) ==
  /\ pc[r] = "saved"
  /\ Insert(r)
  /\ GoTo(r, "committed")
  /\ UNCHANGED <<todo, checkedAt, dueAt, now, locks, events, faults>>

\* A plausible slip: the event published before the commit.
PublishBeforeCommit(r) ==
  /\ pc[r] \in {"saved", "committed"}
  /\ Publish("booking.created", r)
  /\ GoTo(r, IF pc[r] = "saved" THEN "saved" ELSE "201")
  /\ UNCHANGED <<todo, checkedAt, dueAt, now, status, expiredAt, locks, faults>>

\* A plausible slip: a failed publish raises into the except clause of execute.
PublishRaises(r) ==
  /\ pc[r] = "committed"
  /\ \/ /\ Publish("booking.created", r) /\ UNCHANGED faults
        /\ GoTo(r, "201") /\ UNCHANGED todo
     \/ /\ Fault /\ UNCHANGED events
        /\ GoTo(r, "failing") /\ Loop(r, Hours(r))
  /\ UNCHANGED <<checkedAt, dueAt, now, status, expiredAt, locks>>

\* A plausible slip: the event left to a background task that never runs.
PublishInBackground(r) ==
  /\ pc[r] = "committed"
  /\ GoTo(r, "201")
  /\ UNCHANGED <<todo, checkedAt, dueAt, stateVars>>

\* Step 5, and the answer.
PublishCreated(r) ==
  /\ pc[r] = "committed"
  /\ Publish("booking.created", r)
  /\ GoTo(r, "201")
  /\ UNCHANGED <<todo, checkedAt, dueAt, now, status, expiredAt, locks, faults>>

\* save or commit raises: release_locks_for_booking, then rollback.  The
\* exception is the outcome of a COMMIT that PostgreSQL may have carried out.
SaveOrCommitFails(r) ==
  /\ \/ pc[r] = "locking" /\ todo[r] = {} /\ UNCHANGED <<status, expiredAt>>
     \/ pc[r] = "saved" /\ UNCHANGED <<status, expiredAt>>
     \/ pc[r] = "saved" /\ AmbiguousCommit /\ Insert(r)
  /\ Fault
  /\ GoTo(r, "failing") /\ Loop(r, Hours(r))
  /\ UNCHANGED <<checkedAt, dueAt, now, locks, events>>

\* One hour of either release loop.
ReleaseLock(r) ==
  \E h \in todo[r] :
    /\ Releasing(r) /\ NextHour(r, h)
    /\ Release(KeyOf(r, h), r)
    /\ Loop(r, todo[r] \ {h})
    /\ UNCHANGED <<pc, checkedAt, dueAt, now, status, expiredAt, events, faults>>

\* A plausible slip: any failure after the locks answered like a taken lock.
GiveUpUnavailable(r) ==
  /\ Releasing(r) /\ todo[r] = {}
  /\ GoTo(r, "503")
  /\ UNCHANGED <<todo, checkedAt, dueAt, stateVars>>

\* SlotLockError is 503; anything else that was re-raised is 500.
GiveUp(r) ==
  /\ Releasing(r) /\ todo[r] = {}
  /\ GoTo(r, IF pc[r] = "undo" THEN "503" ELSE "500")
  /\ UNCHANGED <<todo, checkedAt, dueAt, stateVars>>

\* A Redis call raises, in acquire_locks_for_booking (outside the try) or in a
\* release loop: nothing releases what is still held.
RedisFails(r) ==
  \E h \in todo[r] :
    /\ NextHour(r, h)
    /\ \/ pc[r] = "locking" /\ (SetNX(KeyOf(r, h), r) \/ UNCHANGED locks)
       \/ Releasing(r) /\ MaybeRelease(KeyOf(r, h), r)
    /\ Fault
    /\ GoTo(r, "500") /\ Loop(r, {})
    /\ UNCHANGED <<checkedAt, dueAt, now, status, expiredAt, events>>

\* The worker process dies; PostgreSQL rolls an open transaction back.
Crash(r) ==
  /\ pc[r] \in {"locking", "saved", "committed", "undo", "failing"}
  /\ Fault
  /\ GoTo(r, "crashed") /\ Loop(r, {})
  /\ UNCHANGED <<checkedAt, dueAt, now, status, expiredAt, locks, events>>

\* What a request does by itself once it has begun.
Proceed(r) == \/ AcquireLock(r) \/ LockTaken(r) \/ SaveBooking(r)
              \/ CommitBooking(r) \/ PublishCreated(r)
              \/ ReleaseLock(r) \/ GiveUp(r)

CreateNext(r) == \/ Start(r) \/ Refuse(r) \/ Proceed(r)
                 \/ SaveOrCommitFails(r) \/ RedisFails(r) \/ Crash(r)
=============================================================================
