------------------------- MODULE BookingList_proofs -------------------------
(***************************************************************************)
(* Why a client that pages through its bookings misses none, for any       *)
(* number of bookings, any page sizes up to the cap and any interleaving   *)
(* with inserts and cancellations.                                         *)
(*                                                                         *)
(* Rows are only added, so the position of a row in the list only grows    *)
(* (PositionStep), by at most one for each row added: what the client has  *)
(* passed comes back, what it has not passed stays ahead.  Whatever order  *)
(* a query gives to tied rows, a row tied with none is among the first n   *)
(* of the list if and only if its position is less than n (InPrefix): the  *)
(* pages are those of its position, and a page is full as long as there is *)
(* such a row behind it (FullPage).                                        *)
(***************************************************************************)
EXTENDS BookingList, FiniteSetTheorems, TLAPS

Ahead(b) == {a \in visible : createdAt[a] > createdAt[b]}

\* The times of the rows are numbers.
Ordered == visible \subseteq Bookings /\ createdAt \in [Bookings -> Nat]

LEMMA InvIsOrdered == ListInv => Ordered
BY DEF ListInv, ListTypeOK, Ordered

LEMMA Finite ==
  ASSUME Ordered, NEW S, S \subseteq visible
  PROVE  IsFiniteSet(S) /\ Cardinality(S) \in Nat
BY ListAssumption, FS_Subset, FS_CardinalityType DEF ListAssumption, Ordered

LEMMA PositionType ==
  ASSUME Ordered, NEW b \in visible
  PROVE  Position(b) = Cardinality(Ahead(b)) /\ Position(b) \in Nat
BY Finite DEF Position, Rows, Newer, Ahead

\* Newer rows come first, and nothing shares the place of an untied row.
LEMMA NewerIsAhead ==
  ASSUME Ordered, NEW a \in visible, NEW b \in visible, createdAt[a] > createdAt[b]
  PROVE  Position(a) < Position(b)
<1>1. Ahead(a) \subseteq Ahead(b) /\ a \in Ahead(b) /\ a \notin Ahead(a)
  BY DEF Ordered, Ahead
<1>2. IsFiniteSet(Ahead(b))
  BY Finite DEF Ahead
<1>3. /\ Cardinality(Ahead(a)) <= Cardinality(Ahead(b))
      /\ Cardinality(Ahead(a)) # Cardinality(Ahead(b))
  BY <1>1, <1>2, FS_Subset
<1> QED BY <1>3, PositionType

LEMMA PositionsDiffer ==
  ASSUME Ordered, NEW a \in visible, NEW b \in visible, Untied(b), a # b
  PROVE  Position(a) # Position(b)
<1>1. createdAt[a] > createdAt[b] \/ createdAt[b] > createdAt[a]
  BY DEF Ordered, Untied
<1> QED BY <1>1, NewerIsAhead, PositionType

\* However ties are broken, an untied row is among the first n rows exactly if fewer
\* than n are newer.
LEMMA InPrefix ==
  ASSUME Ordered, NEW b \in visible, Untied(b), NEW n \in Nat, NEW S \in Prefixes(n)
  PROVE  b \in S <=> Position(b) < n
<1>1. /\ S \subseteq visible
      /\ Cardinality(S) = IF n <= Cardinality(visible) THEN n ELSE Cardinality(visible)
      /\ \A c \in S : \A a \in visible : createdAt[a] > createdAt[c] => a \in S
  BY DEF Prefixes, Rows, Newer
<1>2. /\ IsFiniteSet(S) /\ IsFiniteSet(Ahead(b)) /\ Position(b) = Cardinality(Ahead(b))
      /\ Cardinality(S) \in Nat /\ Position(b) \in Nat
      /\ IsFiniteSet(visible) /\ Cardinality(visible) \in Nat
  BY <1>1, Finite, PositionType DEF Ahead
<1>3. ASSUME b \in S PROVE Position(b) < n
  <2>1. Ahead(b) \cup {b} \subseteq S /\ b \notin Ahead(b)
    BY <1>1, <1>3 DEF Ordered, Ahead
  <2>2. Cardinality(Ahead(b) \cup {b}) = Position(b) + 1
    BY <1>2, <2>1, FS_AddElement
  <2>3. Cardinality(Ahead(b) \cup {b}) <= Cardinality(S)
    BY <1>2, <2>1, FS_Subset
  <2> QED BY <1>1, <1>2, <2>2, <2>3
<1>4. ASSUME b \notin S PROVE Position(b) >= n
  <2>1. S \subseteq Ahead(b)
    BY <1>1, <1>4 DEF Ordered, Untied, Ahead
  <2>2. Cardinality(S) <= Position(b)
    BY <1>2, <2>1, FS_Subset
  <2>3. Cardinality(S) # Cardinality(visible)
    BY <1>1, <1>2, <1>4, FS_Subset
  <2> QED BY <1>1, <1>2, <2>2, <2>3
<1> QED BY <1>2, <1>3, <1>4

\* A page shows an untied row exactly if its position is within, and a page with such a
\* row behind it is full.
LEMMA OnPage ==
  ASSUME Ordered, NEW o \in Nat, NEW l \in Nat, AtMost(l) = l, NEW page \in Pages(l, o)
  PROVE  /\ page \subseteq visible
         /\ \A b \in visible : Untied(b) =>
              (b \in page <=> o <= Position(b) /\ Position(b) < o + l)
<1>1. PICK T \in Prefixes(o + l), S \in Prefixes(o) : page = T \ S
  BY DEF Pages
<1>2. T \subseteq visible
  BY DEF Prefixes, Rows
<1>3. ASSUME NEW b \in visible, Untied(b)
      PROVE  b \in page <=> o <= Position(b) /\ Position(b) < o + l
  <2>1. b \in T <=> Position(b) < o + l
    BY <1>3, InPrefix
  <2>2. b \in S <=> Position(b) < o
    BY <1>3, InPrefix
  <2> QED BY <1>1, <2>1, <2>2, PositionType
<1> QED BY <1>1, <1>2, <1>3

LEMMA FullPage ==
  ASSUME Ordered, NEW o \in Nat, NEW l \in Nat, AtMost(l) = l, NEW page \in Pages(l, o),
         NEW b \in visible, Untied(b), Position(b) >= o + l
  PROVE  Cardinality(page) = l
<1>1. PICK T \in Prefixes(o + l), S \in Prefixes(o) : page = T \ S /\ S \subseteq T
  BY DEF Pages
<1>2. /\ T \subseteq visible
      /\ Cardinality(T) = IF o + l <= Cardinality(visible) THEN o + l ELSE Cardinality(visible)
      /\ Cardinality(S) = IF o <= Cardinality(visible) THEN o ELSE Cardinality(visible)
  BY DEF Prefixes, Rows
<1>3. /\ IsFiniteSet(T) /\ IsFiniteSet(S) /\ IsFiniteSet(visible)
      /\ Cardinality(visible) \in Nat
  BY <1>1, <1>2, Finite
<1>4. b \notin T
  BY InPrefix, PositionType
<1>5. Cardinality(T) # Cardinality(visible) /\ Cardinality(T) <= Cardinality(visible)
  BY <1>2, <1>3, <1>4, FS_Subset
<1>6. Cardinality(T) = o + l /\ Cardinality(S) = o
  BY <1>2, <1>3, <1>5
<1>7. T \cap S = S
  BY <1>1
<1>8. Cardinality(T \ S) = Cardinality(T) - Cardinality(T \cap S)
  BY <1>3, FS_Difference
<1> QED BY <1>1, <1>6, <1>7, <1>8
-----------------------------------------------------------------------------
(* How positions move.                                                     *)

\* Rows are never changed and only added, one at a time.
LEMMA PositionStep ==
  ASSUME Ordered, Ordered', NEW x, visible \subseteq visible', visible' \subseteq visible \cup {x},
         \A c \in visible : createdAt'[c] = createdAt[c], NEW b \in visible
  PROVE  Position(b) <= Position(b)' /\ Position(b)' <= Position(b) + 1
<1>1. /\ Position(b) = Cardinality(Ahead(b)) /\ Position(b) \in Nat
      /\ IsFiniteSet(Ahead(b))
  BY PositionType, Finite DEF Ahead
<1>2. Position(b)' = Cardinality(Ahead(b)') /\ IsFiniteSet(Ahead(b)')
  <2>1. Ahead(b)' = {a \in visible' : createdAt'[a] > createdAt'[b]}
    BY DEF Ahead
  <2>2. IsFiniteSet(visible')
    BY ListAssumption, FS_Subset DEF ListAssumption, Ordered
  <2> QED BY <2>1, <2>2, FS_Subset DEF Position, Rows, Newer
<1>3. Ahead(b) \subseteq Ahead(b)' /\ Ahead(b)' \subseteq Ahead(b) \cup {x}
  BY DEF Ahead
<1>4. Cardinality(Ahead(b)) <= Cardinality(Ahead(b)')
  BY <1>2, <1>3, FS_Subset
<1>5. Cardinality(Ahead(b)') <= Cardinality(Ahead(b)) + 1
  <2>1. /\ IsFiniteSet(Ahead(b) \cup {x})
        /\ Cardinality(Ahead(b) \cup {x}) = IF x \in Ahead(b) THEN Cardinality(Ahead(b))
                                           ELSE Cardinality(Ahead(b)) + 1
    BY <1>1, FS_AddElement
  <2>2. Cardinality(Ahead(b)') <= Cardinality(Ahead(b) \cup {x})
    BY <1>3, <2>1, FS_Subset
  <2>3. Cardinality(Ahead(b)') \in Nat
    BY <1>2, FS_CardinalityType
  <2> QED BY <1>1, <2>1, <2>2, <2>3
<1> QED BY <1>1, <1>2, <1>4, <1>5

\* Where no row is added, none moves and none is tied.
LEMMA PositionStays ==
  ASSUME visible' = visible,
         \A c \in visible : createdAt'[c] = createdAt[c], NEW b \in visible
  PROVE  Position(b)' = Position(b) /\ (Untied(b)' <=> Untied(b))
<1>1. {a \in visible' : createdAt'[a] > createdAt'[b]}
        = {a \in visible : createdAt[a] > createdAt[b]}
  OBVIOUS
<1> QED BY <1>1 DEF Position, Rows, Newer, Untied

\* A new row may be tied with a row, and unties none.
LEMMA TiesStay ==
  ASSUME visible \subseteq visible', \A c \in visible : createdAt'[c] = createdAt[c],
         NEW b \in visible
  PROVE  Untied(b)' => Untied(b)
BY DEF Untied
-----------------------------------------------------------------------------
(* The invariant.                                                          *)

LEMMA PushedType ==
  ASSUME Ordered, seen \subseteq visible
  PROVE  /\ IsFiniteSet(PushedAhead) /\ Cardinality(PushedAhead) \in Nat
         /\ IsFiniteSet(visible \ before) /\ Cardinality(visible \ before) \in Nat
BY Finite DEF PushedAhead

LEMMA ListInitInv == ListInit => ListInv
<1> SUFFICES ASSUME ListInit PROVE ListInv
  OBVIOUS
<1>1. ListTypeOK
  <2>1. /\ clock = 1 /\ offset = 0 /\ repeats = 0 /\ limit \in Limits /\ walking = FALSE
        /\ visible = {} /\ inactive = {} /\ before = {} /\ seen = {}
    BY DEF ListInit
  <2>2. createdAt \in [Bookings -> 0..clock] /\ updatedAt \in [Bookings -> 0..clock]
    BY DEF ListInit
  <2> QED BY <2>1, <2>2 DEF ListTypeOK
<1>2. RowsHaveTimes /\ NothingBeforeTheWalk /\ NothingSkipped /\ WalkIsComplete
  BY DEF ListInit, RowsHaveTimes, NothingBeforeTheWalk, NothingSkipped, WalkIsComplete,
         Walked
<1>3. RepeatsToCome
  BY FS_EmptySet DEF ListInit, RepeatsToCome, PushedAhead
<1> QED BY <1>1, <1>2, <1>3 DEF ListInv

\* A transaction that begins, or takes a booking out of use, moves no row.
LEMMA TableKeeps ==
  ASSUME ListInv, NEW b \in Bookings, BeginCreate(b) \/ Deactivate(b)
  PROVE  ListInv'
<1>1. /\ visible' = visible
      /\ UNCHANGED <<limit, offset, walking, seen, repeats, before>>
      /\ \A c \in visible : createdAt'[c] = createdAt[c]
  BY DEF ListInv, ListTypeOK, RowsHaveTimes, BeginCreate, Deactivate
<1>2. ListTypeOK' /\ RowsHaveTimes'
  <2>1. CASE BeginCreate(b)
    <3>1. /\ clock' \in {clock, clock + 1} /\ createdAt' = [createdAt EXCEPT ![b] = clock']
          /\ updatedAt' = [updatedAt EXCEPT ![b] = clock'] /\ inactive' = inactive
          /\ createdAt[b] = 0
      BY <2>1 DEF BeginCreate
    <3>2. createdAt' \in [Bookings -> 0..clock'] /\ updatedAt' \in [Bookings -> 0..clock']
      BY <3>1 DEF ListInv, ListTypeOK
    <3>3. RowsHaveTimes'
      BY <1>1, <3>1 DEF ListInv, ListTypeOK, RowsHaveTimes
    <3> QED BY <1>1, <3>1, <3>2, <3>3 DEF ListInv, ListTypeOK
  <2>2. CASE Deactivate(b)
    BY <2>2 DEF ListInv, ListTypeOK, RowsHaveTimes, Deactivate
  <2> QED BY <2>1, <2>2
<1>4. \A c \in visible : Position(c)' = Position(c) /\ (Untied(c)' <=> Untied(c))
  BY <1>1, PositionStays
<1>5. before \subseteq visible /\ seen \subseteq visible
  BY DEF ListInv, ListTypeOK
<1>6. NothingBeforeTheWalk' /\ NothingSkipped' /\ WalkIsComplete'
  BY <1>1, <1>4, <1>5 DEF ListInv, NothingBeforeTheWalk, NothingSkipped, WalkIsComplete,
                         Walked
<1>7. PushedAhead' = PushedAhead
  BY <1>1, <1>4, <1>5 DEF PushedAhead
<1>8. RepeatsToCome'
  BY <1>1, <1>7 DEF ListInv, RepeatsToCome
<1> QED BY <1>2, <1>6, <1>8 DEF ListInv

\* A row that is committed pushes at most one shown row back ahead of the client.
LEMMA CommitMoves ==
  ASSUME ListInv, NEW b \in Bookings, CommitCreate(b)
  PROVE  ListInv'
<1>1. /\ visible' = visible \cup {b} /\ b \notin visible /\ createdAt[b] # 0
      /\ UNCHANGED <<clock, createdAt, updatedAt, inactive, limit, offset, walking, seen,
                     repeats, before>>
  BY DEF CommitCreate
<1>2. ListTypeOK' /\ RowsHaveTimes'
  BY <1>1 DEF ListInv, ListTypeOK, RowsHaveTimes
<1>3. Ordered /\ Ordered'
  BY <1>2 DEF ListInv, ListTypeOK, Ordered
<1>4. \A c \in visible : /\ Position(c) <= Position(c)' /\ Position(c)' <= Position(c) + 1
                         /\ Untied(c)' => Untied(c)
  BY <1>1, <1>3, PositionStep, TiesStay
<1>5. \A c \in visible : Position(c) \in Nat /\ Position(c)' \in Nat
  <2>1. \A c \in visible' : IsFiniteSet({a \in visible' : createdAt'[a] > createdAt'[c]})
    BY <1>3, ListAssumption, FS_Subset DEF ListAssumption, Ordered
  <2>2. \A c \in visible' : Position(c)' \in Nat
    BY <2>1, FS_CardinalityType DEF Position, Rows, Newer
  <2> QED BY <1>1, <1>3, <2>2, PositionType
<1>6. before \subseteq visible /\ seen \subseteq visible /\ offset \in Nat /\ repeats \in Nat
  BY DEF ListInv, ListTypeOK
<1>7. NothingBeforeTheWalk' /\ NothingSkipped' /\ WalkIsComplete'
  <2>1. NothingSkipped'
    <3> SUFFICES ASSUME offset > 0, NEW c \in before \ seen, Untied(c)'
                 PROVE  Position(c)' >= offset
      BY <1>1 DEF NothingSkipped
    <3>1. Position(c) >= offset
      BY <1>4, <1>6 DEF ListInv, NothingSkipped
    <3> QED BY <1>4, <1>5, <1>6, <3>1
  <2>2. WalkIsComplete'
    BY <1>1, <1>4, <1>6 DEF ListInv, WalkIsComplete, Walked
  <2> QED BY <2>2, <1>1, <2>1 DEF ListInv, NothingBeforeTheWalk, WalkIsComplete, Walked
<1>8. Cardinality(PushedAhead') <= Cardinality(PushedAhead) + 1
  <2>1. /\ IsFiniteSet(PushedAhead) /\ Cardinality(PushedAhead) \in Nat
        /\ IsFiniteSet(PushedAhead') /\ Cardinality(PushedAhead') \in Nat
    BY <1>1, <1>3, <1>6, PushedType, Finite, FS_Subset, FS_CardinalityType DEF PushedAhead
  <2>2. \A c, d \in PushedAhead' \ PushedAhead : c = d
    <3> SUFFICES ASSUME NEW c \in PushedAhead' \ PushedAhead,
                        NEW d \in PushedAhead' \ PushedAhead
                 PROVE  c = d
      OBVIOUS
    <3>1. /\ c \in visible /\ d \in visible /\ Position(c)' >= offset /\ Position(d)' >= offset
          /\ ~(Position(c) >= offset) /\ ~(Position(d) >= offset)
          /\ Untied(c)
      BY <1>1, <1>4, <1>6 DEF PushedAhead
    <3>2. Position(c) = Position(d)
      BY <1>4, <1>5, <1>6, <3>1
    <3> QED BY <1>3, <3>1, <3>2, PositionsDiffer
  <2>3. CASE PushedAhead' \subseteq PushedAhead
    BY <2>1, <2>3, FS_Subset
  <2>4. ASSUME NEW c \in PushedAhead' \ PushedAhead
        PROVE  Cardinality(PushedAhead') <= Cardinality(PushedAhead) + 1
    <3>1. PushedAhead' \subseteq PushedAhead \cup {c}
      BY <2>2
    <3>2. /\ IsFiniteSet(PushedAhead \cup {c})
          /\ Cardinality(PushedAhead \cup {c}) = Cardinality(PushedAhead) + 1
      BY <2>1, FS_AddElement
    <3> QED BY <3>1, <3>2, FS_Subset
  <2> QED BY <2>3, <2>4
<1>9. Cardinality(visible' \ before') = Cardinality(visible \ before) + 1
  <2>1. visible' \ before' = (visible \ before) \cup {b} /\ b \notin visible \ before
    BY <1>1, <1>6
  <2>2. IsFiniteSet(visible \ before)
    BY <1>3, Finite
  <2> QED BY <2>1, <2>2, FS_AddElement
<1>10. RepeatsToCome'
  <2>1. /\ Cardinality(PushedAhead) \in Nat /\ Cardinality(visible \ before) \in Nat
        /\ Cardinality(PushedAhead') \in Nat
    BY <1>1, <1>3, <1>6, PushedType, Finite, FS_Subset, FS_CardinalityType DEF PushedAhead
  <2>2. repeats + Cardinality(PushedAhead) <= Cardinality(visible \ before)
    BY DEF ListInv, RepeatsToCome
  <2>3. repeats' + Cardinality(PushedAhead') <= Cardinality(visible' \ before')
    BY <1>1, <1>6, <1>8, <1>9, <2>1, <2>2
  <2> QED BY <2>3 DEF RepeatsToCome
<1> QED BY <1>2, <1>7, <1>10 DEF ListInv

LEMMA StartKeeps == ASSUME ListInv, StartWalk PROVE ListInv'
<1>1. /\ offset = 0 /\ walking' = TRUE /\ before' = visible /\ seen = {} /\ repeats = 0
      /\ UNCHANGED <<clock, createdAt, updatedAt, visible, inactive, limit, offset, seen,
                     repeats>>
  BY DEF ListInv, NothingBeforeTheWalk, StartWalk
<1>2. PushedAhead' = {} /\ Cardinality(visible' \ before') \in Nat
  <2>1. visible' \ before' = {}
    BY <1>1
  <2> QED BY <1>1, <2>1, FS_EmptySet DEF PushedAhead
<1>3. RepeatsToCome'
  BY <1>1, <1>2, FS_EmptySet DEF RepeatsToCome
<1>4. ListTypeOK' /\ RowsHaveTimes' /\ NothingBeforeTheWalk' /\ NothingSkipped' /\ WalkIsComplete'
  BY <1>1 DEF ListInv, ListTypeOK, RowsHaveTimes, NothingBeforeTheWalk, NothingSkipped,
              WalkIsComplete, Walked
<1> QED BY <1>3, <1>4 DEF ListInv

LEMMA PageKeeps == ASSUME ListInv, ListBookings PROVE ListInv'
<1>1. /\ Ordered /\ limit \in Nat /\ limit > 0 /\ AtMost(limit) = limit /\ offset \in Nat
      /\ repeats \in Nat /\ before \subseteq visible /\ seen \subseteq visible
  BY InvIsOrdered, ListAssumption DEF ListInv, ListTypeOK, AtMost, ListAssumption
<1>2. PICK page \in Pages(limit, offset) :
        /\ seen' = seen \cup page
        /\ repeats' = repeats + Cardinality({b \in page \cap seen : Untied(b)})
        /\ offset' = offset + limit /\ walking' = (Cardinality(page) = limit)
  BY DEF ListBookings
<1> DEFINE again == {b \in page \cap seen : Untied(b)}
<1>3. walking /\ UNCHANGED <<clock, createdAt, updatedAt, visible, inactive, limit, before>>
  BY DEF ListBookings
<1>4. /\ page \subseteq visible
      /\ \A c \in visible : Untied(c) =>
           (c \in page <=> offset <= Position(c) /\ Position(c) < offset + limit)
  BY <1>1, OnPage
<1>5. \A c \in visible : /\ Position(c)' = Position(c) /\ Position(c) \in Nat
                         /\ Untied(c)' <=> Untied(c)
  BY <1>1, <1>3, PositionType, PositionStays
<1>6. IsFiniteSet(again) /\ Cardinality(again) \in Nat
  BY <1>1, Finite
<1>7. ListTypeOK' /\ RowsHaveTimes' /\ NothingBeforeTheWalk'
  <2>1. /\ seen' \subseteq visible /\ repeats' \in Nat /\ offset' \in Nat /\ offset' > 0
        /\ walking' \in BOOLEAN
    BY <1>1, <1>2, <1>4, <1>6
  <2> HIDE DEF again
  <2> QED BY <1>3, <2>1 DEF ListInv, ListTypeOK, RowsHaveTimes, NothingBeforeTheWalk
<1>8. \A c \in before \ seen' : Untied(c) => Position(c) >= offset + limit
  <2> SUFFICES ASSUME NEW c \in before \ seen', Untied(c) PROVE Position(c) >= offset + limit
    OBVIOUS
  <2>1. c \in visible /\ c \notin page /\ c \in before \ seen /\ Position(c) \in Nat
    BY <1>1, <1>2, <1>5
  <2>2. Position(c) >= offset
    BY <1>1, <2>1 DEF ListInv, NothingSkipped
  <2> QED BY <1>1, <1>4, <2>1, <2>2
<1>9. NothingSkipped'
  <2>1. \A c \in before \ seen' : Untied(c)' => Position(c)' >= offset'
    BY <1>1, <1>2, <1>5, <1>8
  <2> QED BY <1>3, <2>1 DEF NothingSkipped
<1>10. WalkIsComplete'
  <2> SUFFICES ASSUME ~walking', NEW c \in before \ seen', Untied(c)' PROVE FALSE
    BY <1>3 DEF WalkIsComplete, Walked
  <2>1. c \in visible /\ Untied(c)
    BY <1>1, <1>5
  <2>2. Cardinality(page) = limit
    BY <1>1, <1>8, <2>1, FullPage
  <2> QED BY <1>2, <2>2
<1>11. RepeatsToCome'
  <2>1. /\ IsFiniteSet(PushedAhead) /\ Cardinality(PushedAhead) \in Nat
        /\ Cardinality(visible \ before) \in Nat
    BY <1>1, PushedType
  <2>2. PushedAhead' \subseteq PushedAhead \ again
    <3> SUFFICES ASSUME NEW c \in PushedAhead' PROVE c \in PushedAhead \ again
      OBVIOUS
    <3>1. c \in seen \cup page /\ Position(c)' >= offset + limit /\ Untied(c)'
      BY <1>2 DEF PushedAhead
    <3>2. c \in visible /\ Position(c) >= offset + limit /\ Position(c) \in Nat /\ Untied(c)
      BY <1>1, <1>4, <1>5, <3>1
    <3>3. c \notin page /\ Position(c) >= offset
      BY <1>1, <1>4, <3>2
    <3> QED BY <3>1, <3>2, <3>3 DEF PushedAhead
  <2>3. again \subseteq PushedAhead
    BY <1>1, <1>4 DEF PushedAhead
  <2>4. IsFiniteSet(PushedAhead') /\ Cardinality(PushedAhead') \in Nat
    BY <2>1, <2>2, FS_Subset, FS_CardinalityType
  <2>5. Cardinality(PushedAhead') + Cardinality(again) <= Cardinality(PushedAhead)
    <3> HIDE DEF again
    <3>1. PushedAhead' \cap again = {} /\ PushedAhead' \cup again \subseteq PushedAhead
      BY <2>2, <2>3
    <3>2. Cardinality(PushedAhead' \cup again)
            = Cardinality(PushedAhead') + Cardinality(again) - Cardinality(PushedAhead' \cap again)
      BY <1>6, <2>4, FS_Union
    <3>3. Cardinality(PushedAhead' \cap again) = 0
      BY <3>1, FS_EmptySet
    <3>4. Cardinality(PushedAhead' \cup again) <= Cardinality(PushedAhead)
      BY <2>1, <3>1, FS_Subset
    <3> QED BY <1>6, <2>4, <3>2, <3>3, <3>4
  <2>6. repeats + Cardinality(PushedAhead) <= Cardinality(visible \ before)
    BY DEF ListInv, RepeatsToCome
  <2>7. repeats' + Cardinality(PushedAhead') <= Cardinality(visible' \ before')
    <3> HIDE DEF again
    <3>1. repeats' = repeats + Cardinality(again)
      BY <1>2 DEF again
    <3> QED BY <1>1, <1>3, <1>6, <2>1, <2>4, <2>5, <2>6, <3>1
  <2> QED BY <2>7 DEF RepeatsToCome
<1> QED BY <1>7, <1>9, <1>10, <1>11 DEF ListInv

LEMMA ListStep == ListInv /\ [ListNext]_listVars => ListInv'
<1> SUFFICES ASSUME ListInv, [ListNext]_listVars PROVE ListInv'
  OBVIOUS
<1>1. CASE ListNext
  BY <1>1, TableKeeps, CommitMoves, StartKeeps, PageKeeps DEF ListNext
<1>2. CASE UNCHANGED listVars
  BY <1>2 DEF listVars, ListInv, ListTypeOK, RowsHaveTimes, NothingBeforeTheWalk,
              NothingSkipped, WalkIsComplete, Walked, RepeatsToCome, PushedAhead, Position,
              Rows, Newer, Untied
<1> QED BY <1>1, <1>2

LEMMA ListInvariant == ListSpec => []ListInv
BY ListInitInv, ListStep, PTL DEF ListSpec

-----------------------------------------------------------------------------
\* The listing keeps its types: what was shown, and what was there when the client began,
\* are rows, and only rows are cancelled.
THEOREM ListTypes == ListSpec => []ListTypeOK
BY ListInvariant, PTL DEF ListInv

\* A client that reads to the last page was shown every booking there was when it
\* began and that no other is tied with, however many are made, cancelled and expire
\* meanwhile and however each query orders those that are tied.
THEOREM ListingIsComplete == ListSpec => []WalkIsComplete
BY ListInvariant, PTL DEF ListInv

\* No booking but a tied one slips behind the offset unseen.
THEOREM ListingSkipsNothing == ListSpec => []NothingSkipped
BY ListInvariant, PTL DEF ListInv

\* The client sees untied bookings again no more often than bookings were added.
THEOREM ListingRepeatsLittle == ListSpec => []RepeatsAreNewRows
<1>1. ListInv => RepeatsAreNewRows
  <2> SUFFICES ASSUME ListInv PROVE RepeatsAreNewRows
    OBVIOUS
  <2>1. /\ Cardinality(PushedAhead) \in Nat /\ Cardinality(visible \ before) \in Nat
        /\ repeats \in Nat
    BY InvIsOrdered, PushedType DEF ListInv, ListTypeOK
  <2> QED BY <2>1 DEF ListInv, RepeatsToCome, RepeatsAreNewRows
<1> QED BY <1>1, ListInvariant, PTL
=============================================================================
