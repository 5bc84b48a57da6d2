----------------------------- MODULE BookingList -----------------------------
(***************************************************************************)
(* GET /bookings: one user's bookings, newest first, read page by page by  *)
(* a client while other requests of the user commit new bookings and       *)
(* cancel old ones (list_bookings of the controller and of BookingService, *)
(* find_by_user of BookingRepository).                                     *)
(*                                                                         *)
(* created_at is PostgreSQL's now(), which is the start of the inserting   *)
(* transaction, the overlap query of the create request: rows may become   *)
(* visible in another order than that of their created_at, and two may     *)
(* have the same.  ORDER BY has no tiebreaker, so every query puts tied    *)
(* rows in an order of its own.                                            *)
(***************************************************************************)
EXTENDS Naturals, FiniteSets

CONSTANTS Bookings,   \* of one user
          Limits,     \* page sizes a client may ask for
          Cap,        \* most rows find_by_user returns
          MaxUpdates  \* bound on cancellations and expiries

ASSUME ListAssumption == /\ IsFiniteSet(Bookings)
                         /\ Limits \subseteq Nat \ {0}
                         /\ Cap \in Nat /\ \A l \in Limits : l <= Cap
                         /\ MaxUpdates \in Nat

VARIABLES clock,      \* now()
          createdAt,  \* bookings.created_at, 0 before the insert
          updatedAt,  \* bookings.updated_at
          visible,    \* committed rows
          inactive,   \* rows that were cancelled or expired
          limit, offset,  \* what the client asks for next
          walking,    \* is it still reading?
          seen,       \* bookings it was shown
          repeats,    \* how often it was shown an untied one again
          before      \* history: rows committed when it began

listVars == <<clock, createdAt, updatedAt, visible, inactive,
              limit, offset, walking, seen, repeats, before>>

ListTypeOK ==
  /\ clock \in Nat /\ offset \in Nat /\ repeats \in Nat /\ limit \in Limits
  /\ createdAt \in [Bookings -> 0..clock] /\ updatedAt \in [Bookings -> 0..clock]
  /\ visible \subseteq Bookings /\ inactive \subseteq visible
  /\ before \subseteq visible /\ seen \subseteq visible /\ walking \in BOOLEAN

\* The walk begins after some bookings have been made.
ListInit == /\ clock = 1 /\ visible = {} /\ inactive = {}
            /\ createdAt = [b \in Bookings |-> 0] /\ updatedAt = [b \in Bookings |-> 0]
            /\ limit \in Limits /\ offset = 0 /\ walking = FALSE
            /\ seen = {} /\ repeats = 0 /\ before = {}

-----------------------------------------------------------------------------
(* The table                                                               *)

\* The transaction of a create request starts, perhaps in the microsecond of another.
BeginCreate(b) == /\ createdAt[b] = 0
                  /\ clock' \in {clock, clock + 1}
                  /\ createdAt' = [createdAt EXCEPT ![b] = clock']
                  /\ updatedAt' = [updatedAt EXCEPT ![b] = clock']
                  /\ UNCHANGED <<visible, inactive, limit, offset, walking, seen, repeats, before>>

\* It commits.  (One that rolls back never appears.)
CommitCreate(b) == /\ createdAt[b] # 0 /\ b \notin visible
                   /\ visible' = visible \cup {b}
                   /\ UNCHANGED <<clock, createdAt, updatedAt, inactive, limit, offset,
                                  walking, seen, repeats, before>>

\* cancel_booking or the expiry job: updated_at is set by onupdate.  No row is
\* ever deleted.
Deactivate(b) == /\ b \in visible \ inactive /\ Cardinality(inactive) < MaxUpdates
                 /\ clock' \in {clock, clock + 1}
                 /\ updatedAt' = [updatedAt EXCEPT ![b] = clock']
                 /\ inactive' = inactive \cup {b}
                 /\ UNCHANGED <<createdAt, visible, limit, offset, walking, seen, repeats, before>>

-----------------------------------------------------------------------------
(* find_by_user                                                            *)

\* A plausible slip: the last touched first.
NewerUpdate(a, b) == updatedAt[a] > updatedAt[b]

\* ORDER BY created_at DESC: a comes before b.
Newer(a, b) == createdAt[a] > createdAt[b]

\* A plausible slip: rows of transactions that are still open.
OpenRows == {b \in Bookings : createdAt[b] # 0}

\* A plausible slip: the bookings that are over left out.
ActiveRows == visible \ inactive

\* WHERE user_id = ...
Rows == visible

\* The place of a row that is tied with no other.
Position(b) == Cardinality({a \in Rows : Newer(a, b)})

\* A plausible slip: a cap below the limit the controller lets through.
AtMostFewer(l) == IF l < Cap THEN l ELSE Cap - 1

\* min(limit, 100)
AtMost(l) == IF l <= Cap THEN l ELSE Cap

\* What the first n rows of the list may be.
Prefixes(n) == {S \in SUBSET Rows :
                  /\ Cardinality(S) = IF n <= Cardinality(Rows) THEN n ELSE Cardinality(Rows)
                  /\ \A b \in S : \A a \in Rows : Newer(a, b) => a \in S}

\* .limit(...).offset(...): what is left of the first o + l rows without the first o.
Pages(l, o) ==
  UNION {{T \ S : S \in {S \in Prefixes(o) : S \subseteq T}} : T \in Prefixes(o + AtMost(l))}

-----------------------------------------------------------------------------
(* The client, which goes on until a page is not full.                     *)

\* No other row of the user has its created_at.
Untied(b) == \A a \in visible : createdAt[a] = createdAt[b] => a = b

StartWalk == /\ ~walking /\ offset = 0
             /\ walking' = TRUE
             /\ before' = visible
             /\ UNCHANGED <<clock, createdAt, updatedAt, visible, inactive, limit, offset,
                            seen, repeats>>

\* list_bookings
ListBookings == /\ walking
                /\ \E page \in Pages(limit, offset) :
                     /\ seen' = seen \cup page
                     /\ repeats' = repeats + Cardinality({b \in page \cap seen : Untied(b)})
                     /\ offset' = offset + limit
                     /\ walking' = (Cardinality(page) = limit)
                /\ UNCHANGED <<clock, createdAt, updatedAt, visible, inactive, limit, before>>

ListNext == \/ \E b \in Bookings : BeginCreate(b) \/ CommitCreate(b) \/ Deactivate(b)
            \/ StartWalk \/ ListBookings

ListSpec == ListInit /\ [][ListNext]_listVars

-----------------------------------------------------------------------------
Walked == offset > 0 /\ ~walking

\* Whoever reads to the last page was shown every booking that was there when they
\* began, whatever is booked, cancelled or committed late in between, but for one that
\* is tied: each query may put that on the other side of a page boundary.
WalkIsComplete == Walked => \A b \in before \ seen : ~Untied(b)

\* No untied row that was there slips past the page boundary the client has reached,
\* whatever ties there are among the others: the invariant behind the one above.
NothingSkipped ==
  offset > 0 => \A b \in before \ seen : Untied(b) => Position(b) >= offset

\* The price: an untied booking is shown again only because another one was committed
\* since, one repetition for each.
RepeatsAreNewRows == repeats <= Cardinality(visible \ before)

-----------------------------------------------------------------------------
(* The inductive invariant behind the three.                               *)

RowsHaveTimes == \A b \in visible : createdAt[b] # 0

NothingBeforeTheWalk == offset = 0 => seen = {} /\ repeats = 0

\* What was shown already and lies ahead of the client will be shown again; it was
\* pushed there by one new row each.
PushedAhead == {b \in seen : Untied(b) /\ Position(b) >= offset}
RepeatsToCome == repeats + Cardinality(PushedAhead) <= Cardinality(visible \ before)

ListInv == /\ ListTypeOK /\ RowsHaveTimes /\ NothingBeforeTheWalk
           /\ NothingSkipped /\ WalkIsComplete /\ RepeatsToCome
=============================================================================
