------------------------- MODULE BookingEntity_proofs -------------------------
(***************************************************************************)
(* The guarantees of the transition table, for every payment window and    *)
(* every sequence of calls.                                                *)
(***************************************************************************)
EXTENDS BookingEntity, TLAPS

\* The history each status implies.
PathTaken ==
  /\ status \in {"PAID", "CONFIRMED", "IN_PROGRESS", "COMPLETED"} => "PAID" \in visited
  /\ status \in {"CONFIRMED", "IN_PROGRESS", "COMPLETED"} => "CONFIRMED" \in visited

EInv == /\ TypeOK /\ PathTaken /\ PaidIsKept
        /\ PendingHasDeadline /\ ReasonMeansCancelled

\* Where a transition may lead, and from where.
LEMMA Predecessors ==
  ASSUME NEW s, NEW n, CanTransitionTo(s, n)
  PROVE  /\ n \in Statuses /\ n # "DRAFT"
         /\ s # "CANCELLED" /\ s # "EXPIRED" /\ s # "COMPLETED"
         /\ n = "PENDING_PAYMENT" => s \in {"DRAFT", "PAYMENT_FAILED"}
         /\ n \in {"PAID", "PAYMENT_FAILED", "EXPIRED"} => s = "PENDING_PAYMENT"
         /\ n = "CONFIRMED" => s = "PAID"
         /\ n = "IN_PROGRESS" => s = "CONFIRMED"
         /\ n = "COMPLETED" => s = "IN_PROGRESS"
  BY DEF CanTransitionTo, Allowed, Statuses, Active, Terminal

\* A transition keeps the history in step with the status, whatever else the
\* method changes.
LEMMA TransitionKeepsPath ==
  ASSUME EInv, NEW n, TransitionTo(n)
  PROVE  /\ PathTaken' /\ PaidIsKept'
         /\ status' = n /\ n \in Statuses /\ visited' \subseteq Statuses
         /\ now' = now /\ ~reason
<1>1. CanTransitionTo(status, n) /\ status' = n /\ visited' = visited \cup {n} /\ now' = now
  BY DEF TransitionTo
<1>2. n \in Statuses /\ status # "CANCELLED"
  BY <1>1, Predecessors
<1>3. PathTaken'
  BY <1>1, Predecessors DEF EInv, PathTaken
<1>4. PaidIsKept'
  <2>1. CASE "PAID" \in visited
    BY <1>1, <1>2, <2>1, Predecessors
    DEF EInv, PaidIsKept, Statuses, Active, Terminal
  <2>2. CASE n = "PAID"
    BY <1>1, <2>2 DEF PaidIsKept
  <2>3. CASE "PAID" \notin visited /\ n # "PAID"
    BY <1>1, <2>3 DEF PaidIsKept
  <2> QED
    BY <2>1, <2>2, <2>3
<1> QED
  BY <1>1, <1>2, <1>3, <1>4 DEF EInv, TypeOK, ReasonMeansCancelled

LEMMA EInvInit == Init => EInv
<1> SUFFICES ASSUME Init PROVE EInv
  OBVIOUS
<1> QED
  BY DEF Init, EInv, TypeOK, PathTaken, PaidIsKept, PendingHasDeadline,
         ReasonMeansCancelled, Statuses, Active

LEMMA EInvNext == EInv /\ [Next]_vars => EInv'
<1> SUFFICES ASSUME EInv, [Next]_vars PROVE EInv'
  OBVIOUS
<1> USE EntityAssumption
<1>1. CASE UNCHANGED vars
  BY <1>1 DEF EInv, vars, TypeOK, PathTaken, PaidIsKept, PendingHasDeadline,
              ReasonMeansCancelled
<1>2. CASE Tick
  <2>1. now \in Nat /\ now' = now + 1 /\ UNCHANGED <<status, expired_at, reason, visited>>
    BY <1>2 DEF Tick, EInv, TypeOK
  <2>2. PendingHasDeadline'
    <3> SUFFICES ASSUME status = "PENDING_PAYMENT"
                 PROVE  \E t \in 0 .. now' : expired_at = {t + Expiry}
      BY <2>1 DEF PendingHasDeadline
    <3>1. PICK t \in 0 .. now : expired_at = {t + Expiry}
      BY DEF EInv, PendingHasDeadline
    <3>2. t \in 0 .. now'
      BY <2>1
    <3> QED
      BY <3>1, <3>2
  <2> QED
    BY <2>1, <2>2 DEF EInv, TypeOK, PathTaken, PaidIsKept, ReasonMeansCancelled
<1>3. CASE MarkAsPendingPayment
  <2>1. TransitionTo("PENDING_PAYMENT") /\ expired_at' = {now + Expiry} /\ reason' = reason
    BY <1>3 DEF MarkAsPendingPayment
  <2>2. /\ PathTaken' /\ PaidIsKept' /\ status' = "PENDING_PAYMENT"
        /\ visited' \subseteq Statuses /\ now' = now /\ ~reason
        /\ "PENDING_PAYMENT" \in Statuses
    BY <2>1, TransitionKeepsPath
  <2>3. now \in 0 .. now /\ now + Expiry \in Nat
    BY DEF EInv, TypeOK
  <2>4. TypeOK'
    BY <2>1, <2>2, <2>3 DEF EInv, TypeOK
  <2>5. PendingHasDeadline'
    BY <2>1, <2>2, <2>3 DEF PendingHasDeadline
  <2> QED
    BY <2>1, <2>2, <2>4, <2>5 DEF EInv, ReasonMeansCancelled
<1>4. ASSUME NEW n \in Statuses \ {"PENDING_PAYMENT"}, Mark(n) PROVE EInv'
  <2>1. TransitionTo(n) /\ UNCHANGED <<expired_at, reason>>
    BY <1>4 DEF Mark
  <2>2. /\ PathTaken' /\ PaidIsKept' /\ status' = n /\ n \in Statuses
        /\ visited' \subseteq Statuses /\ now' = now /\ ~reason
    BY <2>1, TransitionKeepsPath
  <2> QED
    BY <2>1, <2>2, <1>4 DEF EInv, TypeOK, PendingHasDeadline, ReasonMeansCancelled
<1>5. CASE Cancel
  <2>1. TransitionTo("CANCELLED") /\ reason' \in {reason, TRUE} /\ UNCHANGED expired_at
    BY <1>5 DEF Cancel
  <2>2. /\ PathTaken' /\ PaidIsKept' /\ status' = "CANCELLED" /\ "CANCELLED" \in Statuses
        /\ visited' \subseteq Statuses /\ now' = now
    BY <2>1, TransitionKeepsPath
  <2> QED
    BY <2>1, <2>2 DEF EInv, TypeOK, PendingHasDeadline, ReasonMeansCancelled
<1>6. CASE MarkAsPaid \/ MarkAsConfirmed \/ MarkAsInProgress \/ MarkAsCompleted
           \/ MarkAsExpired \/ PaymentFails
  BY <1>4, <1>6 DEF MarkAsPaid, MarkAsConfirmed, MarkAsInProgress, MarkAsCompleted,
                    MarkAsExpired, PaymentFails, Statuses, Active, Terminal
<1> QED
  BY <1>1, <1>2, <1>3, <1>5, <1>6 DEF Next

LEMMA EInvAlways == Spec => []EInv
  BY EInvInit, EInvNext, PTL DEF Spec

\* No mission flies, and none completes, without payment and confirmation
\* (BookingEntity.transition_to and the table it asks).
THEOREM PaymentPrecedesService == Spec => []NoServiceWithoutPayment
<1>1. EInv => NoServiceWithoutPayment
  BY DEF EInv, PathTaken, NoServiceWithoutPayment
<1> QED
  BY EInvAlways, <1>1, PTL

\* A booking that was paid once never expires, never fails for payment and
\* never waits for payment again.
THEOREM PaymentIsNeverLost == Spec => []PaidIsKept
<1>1. EInv => PaidIsKept
  BY DEF EInv
<1> QED
  BY EInvAlways, <1>1, PTL

\* Whoever waits for payment has a deadline that find_expired can compare with
\* the clock, one payment window after a moment that has passed.
THEOREM DeadlineIsSet == Spec => []PendingHasDeadline
<1>1. EInv => PendingHasDeadline
  BY DEF EInv
<1> QED
  BY EInvAlways, <1>1, PTL

\* A reason for cancelling is noted on cancelled bookings only, although cancel
\* may be called on a booking in any status.
THEOREM ReasonsMeanCancelled == Spec => []ReasonMeansCancelled
<1>1. EInv => ReasonMeansCancelled
  BY DEF EInv
<1> QED
  BY EInvAlways, <1>1, PTL

\* The entity's fields keep within their types.
THEOREM EntityTypes == Spec => []TypeOK
<1>1. EInv => TypeOK
  BY DEF EInv
<1> QED
  BY EInvAlways, <1>1, PTL
===============================================================================
