---------------------------- MODULE ExpireBooking ----------------------------
(***************************************************************************)
(* The background job: ExpireBookingUseCase.execute, called through        *)
(* BookingService.process_expired_bookings by a scheduler that is not part *)
(* of the repository.  A member of Expirers is one scheduled job; each run *)
(* of it gets a database session of its own.                               *)
(***************************************************************************)
EXTENDS BookingState

CONSTANT Expirers

ASSUME ExpirersAssumption == IsFiniteSet(Expirers)

VARIABLES epc,      \* where the job is
          found,    \* bookings of this run not yet processed
          current,  \* the booking being processed, a set of at most one
          etodo,    \* hours left to release for it
          edirty,   \* did the merge find a status to change?
          broken,   \* has an SQL error left the session unusable?
          expired,  \* expired_ids of this run
          failed    \* bookings of this run whose processing raised

expireVars == <<epc, found, current, etodo, edirty, broken, expired, failed>>

\* The hours and keys the job computes from the row it has read.
Reloaded(b) == InDbZone(SlotOf[b], DbOffset)
EHours(b) == LockHours(Reloaded(b))
EKeyOf(b, h) == Key(Reloaded(b), h)

ExpireTypeOK ==
  /\ epc \in [Expirers -> {"idle", "batch", "merged", "releasing"}]
  /\ found \in [Expirers -> SUBSET Bookings] /\ current \in [Expirers -> SUBSET Bookings]
  /\ etodo \in [Expirers -> SUBSET Int]
  /\ edirty \in [Expirers -> BOOLEAN] /\ broken \in [Expirers -> BOOLEAN]
  /\ expired \in [Expirers -> SUBSET Bookings] /\ failed \in [Expirers -> SUBSET Bookings]

ExpireInit == /\ epc = [e \in Expirers |-> "idle"]
              /\ found = [e \in Expirers |-> {}]
              /\ current = [e \in Expirers |-> {}]
              /\ etodo = [e \in Expirers |-> {}]
              /\ edirty = [e \in Expirers |-> FALSE]
              /\ broken = [e \in Expirers |-> FALSE]
              /\ expired = [e \in Expirers |-> {}]
              /\ failed = [e \in Expirers |-> {}]

EGoTo(e, place) == epc' = [epc EXCEPT ![e] = place]

\* A plausible slip: one session for all runs of the job.
NewRunKeepsSession(e, rows) == /\ found' = [found EXCEPT ![e] = rows]
                               /\ current' = [current EXCEPT ![e] = {}]
                               /\ etodo' = [etodo EXCEPT ![e] = {}]
                               /\ expired' = [expired EXCEPT ![e] = {}]
                               /\ failed' = [failed EXCEPT ![e] = {}]
                               /\ UNCHANGED <<edirty, broken>>

\* The local variables of a run that has read `rows`.
NewRun(e, rows) == /\ found' = [found EXCEPT ![e] = rows]
                   /\ current' = [current EXCEPT ![e] = {}]
                   /\ etodo' = [etodo EXCEPT ![e] = {}]
                   /\ edirty' = [edirty EXCEPT ![e] = FALSE]
                   /\ broken' = [broken EXCEPT ![e] = FALSE]
                   /\ expired' = [expired EXCEPT ![e] = {}]
                   /\ failed' = [failed EXCEPT ![e] = {}]

\* find_expired; the entities are snapshots from here on
Find(e) == /\ epc[e] = "idle"
           /\ NewRun(e, FindExpired)
           /\ EGoTo(e, "batch")
           /\ UNCHANGED stateVars

\* find_expired raises: the run returns an empty list.
FindFails(e) == /\ epc[e] = "idle"
                /\ Fault
                /\ UNCHANGED <<expireVars, now, status, expiredAt, locks, events>>

\* _expire_single of the next booking: mark_as_expired on the snapshot, which is
\* PENDING_PAYMENT, then save, whose merge selects the row again.  The query
\* orders by nothing.
MergeExpired(e, b) ==
  /\ epc[e] = "batch" /\ b \in found[e] /\ ~broken[e]
  /\ found' = [found EXCEPT ![e] = @ \ {b}]
  /\ current' = [current EXCEPT ![e] = {b}]
  /\ edirty' = [edirty EXCEPT ![e] = Dirty(b, "EXPIRED")]
  /\ EGoTo(e, "merged")
  /\ UNCHANGED <<etodo, broken, expired, failed, stateVars>>

\* A plausible slip: the snapshot saved before it is marked as expired.
WriteSnapshot(e, b) == status' = [status EXCEPT ![b] = "PENDING_PAYMENT"]

WriteExpired(e, b) ==
  status' = IF edirty[e] THEN [status EXCEPT ![b] = "EXPIRED"] ELSE status

\* A plausible slip: the locks released, and the event sent, before the commit.
CommitExpiredLast(e, b) ==
  /\ epc[e] = "merged" /\ b \in current[e]
  /\ etodo' = [etodo EXCEPT ![e] = EHours(b)]
  /\ EGoTo(e, "releasing")
  /\ UNCHANGED <<found, current, edirty, broken, expired, failed, stateVars>>

\* flush, commit, and the hours of release_locks_for_booking
CommitExpired(e, b) ==
  /\ epc[e] = "merged" /\ b \in current[e]
  /\ WriteExpired(e, b)
  /\ etodo' = [etodo EXCEPT ![e] = EHours(b)]
  /\ EGoTo(e, "releasing")
  /\ UNCHANGED <<found, current, edirty, broken, expired, failed,
                 now, expiredAt, locks, events, faults>>

ENextHour(e, h) == h \in etodo[e] /\ \A g \in etodo[e] : h <= g

ReleaseExpired(e, b) ==
  \E h \in etodo[e] :
    /\ epc[e] = "releasing" /\ b \in current[e] /\ ENextHour(e, h)
    /\ Release(EKeyOf(b, h), b)
    /\ etodo' = [etodo EXCEPT ![e] = @ \ {h}]
    /\ UNCHANGED <<epc, found, current, edirty, broken, expired, failed,
                   now, status, expiredAt, events, faults>>

\* publish_booking_expired, then expired_ids.append in the loop
PublishExpired(e, b) ==
  /\ epc[e] = "releasing" /\ b \in current[e] /\ etodo[e] = {}
  /\ Publish("booking.expired", b)
  /\ expired' = [expired EXCEPT ![e] = @ \cup {b}]
  /\ current' = [current EXCEPT ![e] = {}]
  /\ EGoTo(e, "batch")
  /\ UNCHANGED <<found, etodo, edirty, broken, failed,
                 now, status, expiredAt, locks, faults>>

\* The except clause of the loop: log, and go on with the next booking.
Skip(e, b) == /\ found' = [found EXCEPT ![e] = @ \ {b}]
              /\ current' = [current EXCEPT ![e] = {}]
              /\ etodo' = [etodo EXCEPT ![e] = {}]
              /\ failed' = [failed EXCEPT ![e] = @ \cup {b}]
              /\ EGoTo(e, "batch")
              /\ UNCHANGED <<edirty, expired>>

\* SELECT, UPDATE or COMMIT raises.  Nothing rolls the session back, and until
\* then every statement on it raises.
SqlFails(e, b) ==
  /\ \/ epc[e] = "batch" /\ b \in found[e] /\ ~broken[e] /\ UNCHANGED status
     \/ epc[e] = "merged" /\ b \in current[e] /\ UNCHANGED status
     \/ epc[e] = "merged" /\ b \in current[e] /\ AmbiguousCommit /\ WriteExpired(e, b)
  /\ Fault
  /\ broken' = [broken EXCEPT ![e] = TRUE]
  /\ Skip(e, b)
  /\ UNCHANGED <<now, expiredAt, locks, events>>

\* The next booking meets the session of the last failure.
SessionUnusable(e, b) ==
  /\ epc[e] = "batch" /\ b \in found[e] /\ broken[e]
  /\ Skip(e, b)
  /\ UNCHANGED <<broken, stateVars>>

\* Redis raises after the commit: the status stays EXPIRED and no later run
\* finds the booking, so its event is never sent.
RedisFailsExpiring(e, b) ==
  \E h \in etodo[e] :
    /\ epc[e] = "releasing" /\ b \in current[e] /\ ENextHour(e, h)
    /\ MaybeRelease(EKeyOf(b, h), b)
    /\ Fault
    /\ Skip(e, b)
    /\ UNCHANGED <<broken, now, status, expiredAt, events>>

\* All processed: the run returns, its session is closed.
Finish(e) == /\ epc[e] = "batch" /\ found[e] = {}
             /\ EGoTo(e, "idle")
             /\ UNCHANGED <<found, current, etodo, edirty, broken, expired, failed, stateVars>>

\* The process dies; the next scheduled run starts from the database.
ExpirerCrash(e) == /\ epc[e] # "idle"
                   /\ Fault
                   /\ NewRun(e, {})
                   /\ EGoTo(e, "idle")
                   /\ UNCHANGED <<now, status, expiredAt, locks, events>>

ExpireProceed(e) ==
  \/ Find(e) \/ Finish(e)
  \/ \E b \in Bookings : \/ MergeExpired(e, b) \/ CommitExpired(e, b)
                         \/ ReleaseExpired(e, b) \/ PublishExpired(e, b)
                         \/ SessionUnusable(e, b)

ExpireNext(e) ==
  \/ ExpireProceed(e) \/ FindFails(e) \/ ExpirerCrash(e)
  \/ \E b \in Bookings : SqlFails(e, b) \/ RedisFailsExpiring(e, b)
=============================================================================
