---------------------------- MODULE BookingStatus ----------------------------
(***************************************************************************)
(* The statuses of a booking and the table of transitions between them     *)
(* (domain/booking_status.py).                                             *)
(***************************************************************************)

\* BookingStatus.is_terminal
Terminal == {"COMPLETED", "EXPIRED", "CANCELLED", "PAYMENT_FAILED"}

\* BookingStatus.is_active: the statuses that occupy a slot
Active == {"DRAFT", "PENDING_PAYMENT", "PAID", "CONFIRMED", "IN_PROGRESS"}

Statuses == Active \cup Terminal

\* The `allowed` table of can_transition_to, as a set of edges.
Allowed ==
  ({"DRAFT"} \X {"PENDING_PAYMENT", "CANCELLED"})
    \cup ({"PENDING_PAYMENT"} \X {"PAID", "PAYMENT_FAILED", "EXPIRED", "CANCELLED"})
    \cup ({"PAID"} \X {"CONFIRMED", "CANCELLED"})
    \cup ({"CONFIRMED"} \X {"IN_PROGRESS", "CANCELLED"})
    \cup {<<"IN_PROGRESS", "COMPLETED">>, <<"PAYMENT_FAILED", "PENDING_PAYMENT">>}

CanTransitionTo(from, to) == <<from, to>> \in Allowed

\* BookingEntity.can_be_cancelled: what BookingEntity.cancel asks of a status
\* before it asks the table.
CanBeCancelled(s) == s \notin Terminal /\ s # "IN_PROGRESS"
==============================================================================
