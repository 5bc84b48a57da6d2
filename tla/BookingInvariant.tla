--------------------------- MODULE BookingInvariant ---------------------------
(***************************************************************************)
(* Why no drone is booked twice: the inductive invariant behind            *)
(* NoDoubleBooking, and what it takes for granted.                         *)
(*                                                                         *)
(* A request that found the slot free stays in flight for MaxRequest at    *)
(* most.  A rival it did not see committed during that flight, so its own  *)
(* flight had begun at most MaxRequest before the request's check, and its *)
(* locks, kept after the commit, outlive the request's flight if TTL is    *)
(* more than twice MaxRequest.  They share a key, so the request never     *)
(* gets all its locks.                                                     *)
(***************************************************************************)
EXTENDS BookingSystem

\* The hypotheses.  The code enforces none of them: README.md says when they hold.
\* SlotsCovered is about the slots that get past the rules only.
SlotsCovered ==
  \A a, b \in Bookings :
    a # b /\ OperatingHours(SlotOf[a]) /\ OperatingHours(SlotOf[b])
      => KeysCollide(SlotOf[a], SlotOf[b])
TimelyRequests == 2 * MaxRequest < TTL
ReliableStores == ~RedisVolatile /\ ~AmbiguousCommit

\* Tick lets no request outstay MaxRequest.
Timely == \A r \in Bookings :
            InFlight(r) => checkedAt[r] <= now /\ now <= checkedAt[r] + MaxRequest

OneOwnerPerKey == \A l, m \in locks : l.key = m.key => l = m

\* Request r holds the lock of hour h, at least until TTL after its check.
Holds(r, h) == \E l \in locks : /\ l.key = KeyOf(r, h)
                                /\ l.owner = r
                                /\ l.until >= checkedAt[r] + TTL

AcquiredIsHeld ==
  \A r \in Bookings :
    /\ InFlight(r) => \A h \in Hours(r) \ todo[r] : Holds(r, h)
    /\ pc[r] = "saved" => todo[r] = {}

\* What a request in flight does not know about a row that was committed after
\* its overlap query.
RivalIsLocked ==
  \A b, r \in Bookings :
    (b # r /\ IsActive(b) /\ InFlight(r) /\ Overlap(SlotOf[b], SlotOf[r]))
      => /\ checkedAt[r] <= checkedAt[b] + MaxRequest
         /\ \A h \in Hours(b) : Holds(b, h)

\* A row and its request.
RowHasRequest ==
  \A r \in Bookings :
    /\ status[r] # "ABSENT" => pc[r] \in {"committed", "201", "crashed"}
    /\ pc[r] \in {"committed", "201"} => status[r] # "ABSENT"

\* Who got past the rules asked for a time within the operating hours.
AskedInHours == \A r \in Bookings : pc[r] \notin {"idle", "422"} => OperatingHours(SlotOf[r])

\* A cancel request works on a row that exists.
CancelKnowsRow ==
  \A c \in Cancellers :
    /\ cpc[c] \in {"loaded", "merged", "200"} => status[target[c]] # "ABSENT"
    /\ cpc[c] = "200" \/ (cpc[c] = "merged" /\ ~cdirty[c])
         => status[target[c]] \in Terminal

\* The expiry job works on rows that exist, one at a time, and releases locks of
\* rows that occupy no slot.
KnowsFound(e) == \A b \in found[e] : status[b] # "ABSENT"
KnowsCurrent(e) ==
  \A b \in current[e] :
    /\ current[e] = {b} /\ status[b] # "ABSENT"
    /\ epc[e] = "releasing" \/ (epc[e] = "merged" /\ ~edirty[e]) => status[b] \in Terminal

ExpirerKnowsRow == \A e \in Expirers : KnowsFound(e) /\ KnowsCurrent(e)

\* What holds of rows and requests, whatever Redis does.
RowInv == TypeOK /\ RowHasRequest /\ CancelKnowsRow /\ ExpirerKnowsRow

IInv == /\ RowInv /\ AskedInHours
        /\ Timely /\ OneOwnerPerKey /\ AcquiredIsHeld /\ RivalIsLocked /\ NoDoubleBooking

-----------------------------------------------------------------------------
(* What needs none of the hypotheses: RecordInv holds of table, events,    *)
(* reports and locks although Redis may lose keys and COMMIT may raise     *)
(* after taking effect.                                                    *)

\* A row comes from a request that reached its COMMIT.
RowAfterCommit ==
  \A r \in Bookings :
    /\ status[r] # "ABSENT" => pc[r] \in {"committed", "201", "crashed", "failing", "500"}
    /\ pc[r] \in {"committed", "201"} => status[r] # "ABSENT"

\* Each request publishes once, at its end.
CreatedAtTheEnd ==
  \A b \in Bookings : /\ events["booking.created"][b] <= 1
                      /\ events["booking.created"][b] > 0 => pc[b] = "201"

\* The job works on overdue bookings only, each of them once.
DeadlinesPassed ==
  \A e \in Expirers : /\ \A b \in found[e] \cup current[e] : expiredAt[b] <= now
                      /\ found[e] \cap current[e] = {}

\* The locks of a request are those its loops have passed.
LocksFollowLoop ==
  \A l \in locks :
    LET r == l.owner
    IN /\ pc[r] \notin {"idle", "409", "422", "503"}
       /\ pc[r] = "locking" => \E h \in Hours(r) \ todo[r] : l.key = KeyOf(r, h)
       /\ pc[r] = "undo" => \E h \in todo[r] : l.key = KeyOf(r, h)

\* No row gets any other status.
RowStatuses ==
  \A b \in Bookings : status[b] \in {"ABSENT", "PENDING_PAYMENT", "CANCELLED", "EXPIRED"}

\* A deadline is a payment window or more after the request's overlap query.
WindowGranted ==
  \A r \in Bookings :
    /\ pc[r] = "saved" => checkedAt[r] + Expiry <= dueAt[r]
    /\ status[r] # "ABSENT" => checkedAt[r] + Expiry <= expiredAt[r]

RecordInv == /\ TypeOK /\ CancelKnowsRow /\ ExpirerKnowsRow /\ Timely
             /\ RowAfterCommit /\ RowStatuses /\ CreatedAtTheEnd /\ DeadlinesPassed
             /\ WindowGranted
             /\ NeverExpiredEarly /\ ReportedIsReleased /\ LocksFollowLoop

\* A job that has announced a booking does not meet it again: the announcements
\* made and the jobs that may still make one are no more than the jobs.
Handling(b) == {e \in Expirers : b \in found[e] \cup current[e]}
OncePerJob ==
  \A b \in Bookings :
    events["booking.expired"][b] + Cardinality(Handling(b)) <= Cardinality(Expirers)
OnceInv == RecordInv /\ ExpiredEventOnce /\ OncePerJob

\* Only what was counted can be compared with the failures.
SilencedInv == RecordInv /\ IsFiniteSet(Unannounced) /\ OneSilencedPerFailure

-----------------------------------------------------------------------------
(* Why a request is refused for a rival only, whatever fails: a lock is of *)
(* an hour its owner asked for, and outlives the owner's flight by TTL.    *)

\* The hypothesis: every request names one and the same offset, as in a
\* deployment whose clients live in one timezone.
OneTimezone == \A a, b \in Bookings : IsSlot(SlotOf[a]) /\ SameOffset(SlotOf[a], SlotOf[b])

\* No slot ends in the first hour of the day it starts on, which MinHour > 0 excludes.
NobodyLocksADay == \A b \in Bookings : ~LocksWholeDay(SlotOf[b])

LocksInTime ==
  \A l \in locks : /\ l.key \in LockKeys(SlotOf[l.owner])
                   /\ now < l.until /\ l.until <= checkedAt[l.owner] + MaxRequest + TTL

\* The owner of the lock that request r ran into.
RivalInTime(b, r) == /\ Overlap(SlotOf[b], SlotOf[r])
                     /\ pc[b] \notin {"idle", "409", "422"}
                     /\ checkedAt[r] < checkedAt[b] + MaxRequest + TTL

UndoneForARival ==
  \A r \in Bookings :
    /\ pc[r] \in {"undo", "503"} => \E b \in Bookings \ {r} : RivalInTime(b, r)
    /\ pc[r] = "409" => \E b \in Bookings \ {r} : /\ Overlap(SlotOf[b], SlotOf[r])
                                                  /\ status[b] # "ABSENT"

RefusalInv == RecordInv /\ AskedInHours /\ LocksInTime /\ UndoneForARival
===============================================================================
