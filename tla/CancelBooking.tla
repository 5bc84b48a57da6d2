---------------------------- MODULE CancelBooking ----------------------------
(***************************************************************************)
(* PATCH /bookings/{id}/cancel: BookingService.cancel_booking, one process *)
(* per request.  The entity is loaded, cancelled in memory and saved with  *)
(* no check that the row is still the one loaded.  Neither the slot locks  *)
(* nor the event exchange is touched.                                      *)
(***************************************************************************)
EXTENDS BookingState

CONSTANT Cancellers

VARIABLES cpc,     \* where a request is
          target,  \* the booking it is about
          cdirty   \* did the merge find a status to change?

cancelVars == <<cpc, target, cdirty>>

CancelTypeOK ==
  /\ cpc \in [Cancellers -> {"idle", "loaded", "merged", "200", "404", "422", "500"}]
  /\ target \in [Cancellers -> Bookings]
  /\ cdirty \in [Cancellers -> BOOLEAN]

CancelInit == /\ cpc = [c \in Cancellers |-> "idle"]
              /\ target \in [Cancellers -> Bookings]
              /\ cdirty = [c \in Cancellers |-> FALSE]

CGoTo(c, place) == cpc' = [cpc EXCEPT ![c] = place]

\* entity.cancel(), on the status the entity was loaded with
Cancellable(s) == CanBeCancelled(s) /\ CanTransitionTo(s, "CANCELLED")

\* get_by_id_and_user and entity.cancel
Load(c, user) ==
  /\ cpc[c] = "idle"
  /\ \/ ~Visible(target[c], user) /\ CGoTo(c, "404")
     \/ /\ Visible(target[c], user)
        /\ CGoTo(c, IF Cancellable(status[target[c]]) THEN "loaded" ELSE "422")
  /\ UNCHANGED <<target, cdirty, stateVars>>

\* save: merge selects the row again
Merge(c) ==
  /\ cpc[c] = "loaded"
  /\ cdirty' = [cdirty EXCEPT ![c] = Dirty(target[c], "CANCELLED")]
  /\ CGoTo(c, "merged")
  /\ UNCHANGED <<target, stateVars>>

WriteCancelled(c) ==
  status' = IF cdirty[c] THEN [status EXCEPT ![target[c]] = "CANCELLED"] ELSE status

\* save: flush writes the row, which stays locked until the commit
CommitCancel(c) ==
  /\ cpc[c] = "merged"
  /\ WriteCancelled(c)
  /\ CGoTo(c, "200")
  /\ UNCHANGED <<target, cdirty, now, expiredAt, locks, events, faults>>

\* A query, the flush or the commit raises, or the process dies: no answer but
\* 500, and the transaction is rolled back, unless COMMIT had taken effect.
CancelFails(c) ==
  /\ cpc[c] \in {"idle", "loaded", "merged"}
  /\ Fault
  /\ CGoTo(c, "500")
  /\ \/ UNCHANGED status
     \/ cpc[c] = "merged" /\ AmbiguousCommit /\ WriteCancelled(c)
  /\ UNCHANGED <<target, cdirty, now, expiredAt, locks, events>>

CancelProceed(c) == Merge(c) \/ CommitCancel(c)

CancelNext(c) == \/ \E b \in Bookings : Load(c, UserOf[b])  \* any user may ask
                 \/ CancelProceed(c) \/ CancelFails(c)
=============================================================================
