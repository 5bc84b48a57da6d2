--------------------------- MODULE BookingRefinement ---------------------------
(***************************************************************************)
(* How the booking feature implements SlotReservations.                    *)
(***************************************************************************)
EXTENDS BookingInvariant

\* A row holds its slot while its status is active.
PlaceOf(s) == IF s = "ABSENT" THEN "nothing"
              ELSE IF s \in Active THEN "held" ELSE "given back"

\* A client whose worker died was told nothing.
ToldBy(place) == IF place = "201" THEN "yes"
                 ELSE IF place \in Answered THEN "no" ELSE "nothing"

Reservations ==
  INSTANCE SlotReservations WITH
    Requests <- Bookings,
    Clash <- {p \in Bookings \X Bookings : p[1] # p[2] /\ Overlap(SlotOf[p[1]], SlotOf[p[2]])},
    place <- [b \in Bookings |-> PlaceOf(status[b])],
    told <- [b \in Bookings |-> ToldBy(pc[b])]

\* Requests, cancellations and the expiry job together do what SlotReservations
\* promises: every step grants a free slot, gives one back, answers a client in
\* accordance with it, or is none of the client's business.
ImplementsReservations == Reservations!Spec

\* What a client can rely on: a 500 leaves open what became of its request.
SurelyToldBy(place) == IF place = "201" THEN "yes"
                       ELSE IF place \in {"409", "422", "503"} THEN "no" ELSE "nothing"

Accounts ==
  INSTANCE SlotReservations WITH
    Requests <- Bookings,
    Clash <- {},
    place <- [b \in Bookings |-> PlaceOf(status[b])],
    told <- [b \in Bookings |-> SurelyToldBy(pc[b])]

\* When Redis loses locks, or a COMMIT takes effect and raises, two slots that
\* clash may both be granted; all the rest of the promise is kept: one grant per
\* request, given back once and for all, and answers in accordance with it.
KeepsItsWord == Accounts!Spec
================================================================================
