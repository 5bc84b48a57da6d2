---------------------------- MODULE BookingSystem ----------------------------
(***************************************************************************)
(* The booking feature: create requests, cancel requests and the expiry    *)
(* job running at once over one PostgreSQL, one Redis and one exchange.    *)
(***************************************************************************)
EXTENDS CreateBooking, CancelBooking, ExpireBooking

CONSTANTS MaxNow,     \* bound on the clock
          MaxRequest  \* longest time from a request's overlap query to its commit

ASSUME SystemAssumption == MaxNow \in Nat /\ MaxRequest \in Nat

vars == <<stateVars, createVars, cancelVars, expireVars>>

\* Time passes, and Redis drops the keys whose ttl is over.  Nothing in the code
\* bounds a request's stay between query and commit; MaxRequest states a bound.
Tick == /\ now < MaxNow
        /\ \A r \in Bookings : InFlight(r) => now < checkedAt[r] + MaxRequest
        /\ now' = now + 1
        /\ locks' = Unexpired(now + 1)
        /\ UNCHANGED <<status, expiredAt, events, faults, createVars, cancelVars, expireVars>>

Init == StateInit /\ CreateInit /\ CancelInit /\ ExpireInit

Next == \/ Tick
        \/ Evict /\ UNCHANGED <<createVars, cancelVars, expireVars>>
        \/ \E r \in Bookings : CreateNext(r) /\ UNCHANGED <<cancelVars, expireVars>>
        \/ \E c \in Cancellers : CancelNext(c) /\ UNCHANGED <<createVars, expireVars>>
        \/ \E e \in Expirers : ExpireNext(e) /\ UNCHANGED <<createVars, cancelVars>>

Spec == Init /\ [][Next]_vars

\* A handler that has begun goes on to its end, the scheduler calls the job
\* again and again, and time passes.  Nobody has to send a request.
Fairness ==
  /\ WF_vars(Tick)
  /\ \A r \in Bookings : WF_vars(Proceed(r) /\ UNCHANGED <<cancelVars, expireVars>>)
  /\ \A c \in Cancellers : WF_vars(CancelProceed(c) /\ UNCHANGED <<createVars, expireVars>>)
  /\ \A e \in Expirers : WF_vars(ExpireProceed(e) /\ UNCHANGED <<createVars, cancelVars>>)

FairSpec == Spec /\ Fairness

-----------------------------------------------------------------------------
(* Safety                                                                  *)

\* Every variable holds what its table, store or process can hold.
TypeOK == StateTypeOK /\ CreateTypeOK /\ CancelTypeOK /\ ExpireTypeOK

\* The promise of the feature: a drone is never booked twice for one moment
\* (find_overlapping and the Redis locks of create_booking.py together).
NoDoubleBooking ==
  \A a, b \in Bookings : a # b /\ IsActive(a) /\ IsActive(b)
                           => ~Overlap(SlotOf[a], SlotOf[b])

\* The critical section of create_booking.py is protected: a request whose row
\* is flushed and not yet committed still holds every lock it acquired, none
\* expired, none released by a slower request or by the expiry job.
SavedHoldsItsLocks ==
  \A r \in Bookings : pc[r] = "saved" =>
    \A h \in Hours(r) : \E l \in locks : l.key = KeyOf(r, h) /\ l.owner = r

\* acquire_locks_for_booking is all or nothing: a request that was refused, or
\* told 503, leaves no lock behind that would refuse somebody else.
RefusedHoldsNothing ==
  \A r \in Bookings : pc[r] \in {"409", "422", "503"} => \A l \in locks : l.owner # r

\* What the client is told is what the table holds: a refused request has no row,
\* an accepted one has, one that failed has none unless its COMMIT took effect
\* and raised, and a booking whose cancellation was accepted does not occupy its
\* slot (the answers of booking_controller.py).
AnswerMatchesRow ==
  /\ \A r \in Bookings :
       /\ pc[r] \in {"409", "422", "503"} => status[r] = "ABSENT"
       /\ pc[r] = "500" /\ ~AmbiguousCommit => status[r] = "ABSENT"
       /\ pc[r] = "201" => status[r] # "ABSENT"
  /\ \A c \in Cancellers : cpc[c] = "200" => status[target[c]] \in Terminal

\* No event about a booking that is not in the table, and none twice
\* (publish_booking_created comes after the commit).
CreatedEventHasRow ==
  \A b \in Bookings :
    /\ events["booking.created"][b] > 0 => status[b] # "ABSENT"
    /\ events["booking.created"][b] <= 1

\* Each job announces a booking's expiry at most once, however often it fails and
\* is run again, and only after the row left PENDING_PAYMENT.
ExpiredEventOnce ==
  \A b \in Bookings :
    /\ events["booking.expired"][b] > 0 => status[b] \in Terminal
    /\ events["booking.expired"][b] <= Cardinality(Expirers)

\* The payment window is honoured: nothing expires before its deadline, and the
\* deadline is a whole window after the moment the request found the slot free.
NeverExpiredEarly ==
  \A b \in Bookings :
    status[b] = "EXPIRED" => /\ checkedAt[b] + Expiry <= expiredAt[b]
                             /\ expiredAt[b] <= now

\* Changes of the table whose event nobody gave to _publish, or is about to.
Announcing(b) == \E e \in Expirers : b \in current[e] /\ epc[e] = "releasing"
UnannouncedRows ==
  {b \in Bookings : /\ status[b] # "ABSENT" /\ pc[b] # "committed"
                    /\ events["booking.created"][b] = 0}
UnannouncedExpiries ==
  {b \in Bookings : /\ status[b] = "EXPIRED" /\ ~Announcing(b)
                    /\ events["booking.expired"][b] = 0}
Unannounced == ({"booking.created"} \X UnannouncedRows)
                 \cup ({"booking.expired"} \X UnannouncedExpiries)

\* Each call that raises, or process that dies, silences one event at most, however
\* requests, cancellations and jobs interleave: every other new row and every other
\* expiry is announced (execute and _expire_single publish after their commit).
OneSilencedPerFailure == Cardinality(Unannounced) <= faults

\* Locks and overlap query refuse a request only for a rival: whoever gets 409
\* asked for a time of which another booking is in the table, and whoever gets
\* 503 met a rival that went on to its locks, and not longer ago than they live:
\* the locks a failed or cancelled booking leaves behind do not refuse for good.
RefusedOnlyForARival ==
  \A r \in Bookings : pc[r] \in {"409", "503"} =>
    \E b \in Bookings \ {r} :
      /\ Overlap(SlotOf[b], SlotOf[r])
      /\ pc[r] = "409" => status[b] # "ABSENT"
      /\ pc[r] = "503" => /\ pc[b] \notin {"idle", "409", "422"}
                          /\ checkedAt[r] < checkedAt[b] + MaxRequest + TTL

\* The ids the job returns are bookings it took out of the way of new ones.
ReportedIsReleased ==
  \A e \in Expirers : \A b \in expired[e] : status[b] \in Terminal

-----------------------------------------------------------------------------
(* What a step may never do                                                *)

\* A request's locks stay its own while it relies on them: no other process
\* and no failure removes one before its ttl is over (release_lock's script).
LocksStayWithOwner ==
  [][\A l \in locks \ locks' :
        l.until > now' => ~(InFlight(l.owner) /\ InFlight(l.owner)')]_vars

\* A slot given back is not taken again behind the back of the overlap query:
\* a row that stopped being active never becomes active.
InactiveStaysInactive ==
  [][\A b \in Bookings : status[b] \in Terminal => status'[b] \in Terminal]_vars

\* An edge of can_transition_to, or a cancellation and an expiry that overwrite
\* each other.
MayBecome(s, t) == \/ s = t
                   \/ s = "ABSENT" /\ t = "PENDING_PAYMENT"
                   \/ CanTransitionTo(s, t)
                   \/ {s, t} = {"CANCELLED", "EXPIRED"}

\* What the entity checks on its copy holds of the rows, whose transaction checks
\* nothing: but for cancellation and expiry a status changes as the table allows.
RowsFollowTheTable == [][\A b \in Bookings : MayBecome(status[b], status'[b])]_vars

\* BookingStatus.is_terminal: "a final, non-changeable state".
TerminalIsFinal ==
  [][\A b \in Bookings : status[b] \in Terminal => status'[b] = status[b]]_vars

\* ExpireBookingUseCase: "Each booking is processed independently to ensure
\* partial failures don't block other expirations": one failure, one casualty.
FailuresAreIsolated ==
  \A e \in Expirers : Cardinality(failed[e]) <= faults

-----------------------------------------------------------------------------
(* Liveness                                                                *)

\* A booking that is not paid in time leaves PENDING_PAYMENT and frees its slot,
\* if the scheduler keeps running the job, whatever failed in earlier runs: again
\* and again nothing is overdue.  (A deadline that passed stays passed, so each
\* overdue booking is out of PENDING_PAYMENT by the next such moment.)
Overdue(b) == status[b] = "PENDING_PAYMENT" /\ expiredAt[b] <= now
OverdueIsExpired == []<>(\A b \in Bookings : ~Overdue(b))

\* No request waits for another: again and again nobody who began, to book or to
\* cancel, is without an answer, unless its worker died.  (No request is idle again
\* once it has begun.)
EveryRequestAnswered ==
  []<>(/\ \A r \in Bookings : pc[r] \in {"idle", "crashed"} \cup Answered
       /\ \A c \in Cancellers : cpc[c] \notin {"loaded", "merged"})
=============================================================================
