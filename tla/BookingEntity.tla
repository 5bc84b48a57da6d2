---------------------------- MODULE BookingEntity ----------------------------
(***************************************************************************)
(* The life of one booking as domain/booking_entity.py lets it be lived:   *)
(* every business method as an action, in any order a caller could choose. *)
(* A method that raises DomainRuleViolationError leaves the entity as it   *)
(* is and is not an action.  The use cases call mark_as_pending_payment,   *)
(* mark_as_expired and cancel; the other methods have no caller yet.       *)
(***************************************************************************)
EXTENDS BookingStatus, Naturals

CONSTANTS Expiry,   \* BOOKING_EXPIRY_MINUTES
          MaxNow    \* bound on the clock

ASSUME EntityAssumption == Expiry \in Nat /\ MaxNow \in Nat

VARIABLES now,
          status,     \* BookingEntity.status
          expired_at, \* BookingEntity.expired_at, a set of at most one time
          reason,     \* is BookingEntity.cancellation_reason set?
          visited     \* history: the statuses the booking has had

vars == <<now, status, expired_at, reason, visited>>

TypeOK == /\ now \in Nat
          /\ status \in Statuses
          /\ expired_at \subseteq Nat
          /\ reason \in BOOLEAN
          /\ visited \subseteq Statuses

Init == /\ now = 0
        /\ status = "DRAFT"
        /\ expired_at = {}
        /\ reason = FALSE
        /\ visited = {"DRAFT"}

\* A plausible slip: the table asked about the wrong end of the transition.
TransitionToAnyNext(new) ==
  /\ \E s \in Statuses : CanTransitionTo(s, new)
  /\ status' = new
  /\ visited' = visited \cup {new}
  /\ UNCHANGED now

\* transition_to, less the reason
TransitionTo(new) ==
  /\ CanTransitionTo(status, new)
  /\ status' = new
  /\ visited' = visited \cup {new}
  /\ UNCHANGED now

\* A plausible slip: the deadline never stored, so that find_expired, which
\* compares it with the clock, never matches the row.
MarkAsPendingNoDeadline ==
  TransitionTo("PENDING_PAYMENT") /\ UNCHANGED <<expired_at, reason>>

\* A plausible slip: the payment window subtracted.
MarkAsPendingInPast == /\ TransitionTo("PENDING_PAYMENT")
                       /\ expired_at' = {now - Expiry}
                       /\ UNCHANGED reason

\* execute passes the present time plus the payment window.
MarkAsPendingPayment == /\ TransitionTo("PENDING_PAYMENT")
                        /\ expired_at' = {now + Expiry}
                        /\ UNCHANGED reason

Mark(new) == TransitionTo(new) /\ UNCHANGED <<expired_at, reason>>

MarkAsPaid == Mark("PAID")
MarkAsConfirmed == Mark("CONFIRMED")
MarkAsInProgress == Mark("IN_PROGRESS")
MarkAsCompleted == Mark("COMPLETED")
MarkAsExpired == Mark("EXPIRED")
PaymentFails == Mark("PAYMENT_FAILED")  \* transition_to itself: no mark_ method

\* A plausible slip: the reason noted before the transition is known to be legal.
CancelNotesFirst == /\ \/ CanBeCancelled(status) /\ TransitionTo("CANCELLED")
                       \/ ~CanBeCancelled(status) /\ UNCHANGED <<now, status, visited>>
                    /\ reason' \in {reason, TRUE}
                    /\ UNCHANGED expired_at

\* cancel, with or without a reason
Cancel == /\ CanBeCancelled(status)
          /\ TransitionTo("CANCELLED")
          /\ reason' \in {reason, TRUE}
          /\ UNCHANGED expired_at

Tick == now < MaxNow /\ now' = now + 1 /\ UNCHANGED <<status, expired_at, reason, visited>>

Next == \/ Tick
        \/ MarkAsPendingPayment \/ MarkAsPaid \/ MarkAsConfirmed
        \/ MarkAsInProgress \/ MarkAsCompleted \/ MarkAsExpired
        \/ PaymentFails \/ Cancel

Spec == Init /\ [][Next]_vars

-----------------------------------------------------------------------------
\* No drone flies, and no mission is complete, without payment and the
\* operator's confirmation, whatever calls came before.
NoServiceWithoutPayment ==
  status \in {"IN_PROGRESS", "COMPLETED"} => {"PAID", "CONFIRMED"} \subseteq visited

\* A payment is not lost: a booking that was paid once never expires, never fails for
\* payment and is never asked to pay again.  That is what can_transition_to lets happen.
\* The docstring of BookingStatus and the status flow of the repository's README.md have
\* any state that is not final go to EXPIRED, a paid and confirmed booking among them.
PaidIsKept ==
  "PAID" \in visited => status \in {"PAID", "CONFIRMED", "IN_PROGRESS", "COMPLETED", "CANCELLED"}

\* A booking that waits for payment has a deadline, one window after some past
\* moment, also when the payment is tried again after it failed: find_expired
\* compares the column with the clock and skips NULL.
PendingHasDeadline ==
  status = "PENDING_PAYMENT" => \E t \in 0 .. now : expired_at = {t + Expiry}

\* A reason is noted only on a booking that is cancelled.
ReasonMeansCancelled == reason => status = "CANCELLED"
==============================================================================
