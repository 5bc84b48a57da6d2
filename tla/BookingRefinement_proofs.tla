------------------------ MODULE BookingRefinement_proofs ------------------------
(***************************************************************************)
(* The booking feature implements SlotReservations.                        *)
(***************************************************************************)
EXTENDS BookingRecord_proofs, BookingRefinement

\* The step of SlotReservations that a step of the system maps to.
AbstractStep == [Reservations!Next]_Reservations!vars

LEMMA UnseenStep == ASSUME UNCHANGED status, UNCHANGED pc PROVE AbstractStep
  BY DEF AbstractStep, Reservations!vars

\* A row that turns terminal gives its slot back, unless it had done so.
LEMMA RowEnds ==
  ASSUME TypeOK, NEW b \in Bookings, NEW s \in Terminal, status[b] # "ABSENT",
         status' = [status EXCEPT ![b] = s], UNCHANGED pc
  PROVE  AbstractStep
<1> USE DEF TypeOK, StateTypeOK, PlaceOf
<1>1. s # "ABSENT" /\ s \notin Active
  BY DEF Terminal, Active
<1>2. CASE status[b] \in Active
  <2>1. Reservations!GiveBack(b)
    BY <1>1, <1>2 DEF Reservations!GiveBack
  <2> QED
    BY <2>1 DEF AbstractStep, Reservations!Next
<1>3. CASE status[b] \notin Active
  <2>1. [d \in Bookings |-> PlaceOf(status[d])]' = [d \in Bookings |-> PlaceOf(status[d])]
    BY <1>1, <1>3
  <2> QED
    BY <2>1 DEF AbstractStep, Reservations!vars
<1> QED
  BY <1>2, <1>3

\* A commit grants the slot.
LEMMA CommitGrants ==
  ASSUME SlotsCovered, IInv, NEW r \in Bookings, CommitBooking(r)
  PROVE  AbstractStep
<1> USE DEF IInv, RowInv, TypeOK, StateTypeOK, CreateTypeOK
<1>1. status[r] = "ABSENT" /\ pc[r] = "saved"
  BY DEF CommitBooking, RowHasRequest
<1>2. /\ status' = [status EXCEPT ![r] = "PENDING_PAYMENT"]
      /\ pc' = [pc EXCEPT ![r] = "committed"]
  BY DEF CommitBooking, Insert, GoTo
<1>3. ASSUME NEW q \in Bookings, q # r, Overlap(SlotOf[q], SlotOf[r])
      PROVE  PlaceOf(status[q]) # "held"
  BY <1>3, CommitMeetsNoRival DEF PlaceOf, IsActive
<1>4. [b \in Bookings |-> PlaceOf(status[b])]'
        = [[b \in Bookings |-> PlaceOf(status[b])] EXCEPT ![r] = "held"]
  BY <1>1, <1>2 DEF PlaceOf, Active
<1>5. [b \in Bookings |-> ToldBy(pc[b])]' = [b \in Bookings |-> ToldBy(pc[b])]
  BY <1>1, <1>2 DEF ToldBy, Answered
<1>6. Reservations!Grant(r)
  BY <1>1, <1>3, <1>4, <1>5 DEF Reservations!Grant, PlaceOf, ToldBy, Answered
<1> QED
  BY <1>6 DEF AbstractStep, Reservations!Next

\* An answer tells the truth about the row.
LEMMA AnswerTells ==
  ASSUME RowInv, NEW r \in Bookings, NEW answer \in Answered, pc[r] \notin Answered,
         pc' = [pc EXCEPT ![r] = answer], UNCHANGED status,
         answer = "201" <=> pc[r] = "committed", pc[r] # "crashed"
  PROVE  AbstractStep
<1> USE DEF RowInv, TypeOK, StateTypeOK, CreateTypeOK
<1>1. CASE answer = "201"
  <2>1. status[r] # "ABSENT"
    BY <1>1 DEF RowHasRequest
  <2>2. Reservations!TellYes(r)
    BY <1>1, <2>1 DEF Reservations!TellYes, PlaceOf, ToldBy, Answered
  <2> QED
    BY <2>2 DEF AbstractStep, Reservations!Next
<1>2. CASE answer # "201"
  <2>1. status[r] = "ABSENT"
    BY <1>2 DEF RowHasRequest, Answered
  <2>2. Reservations!TellNo(r)
    BY <1>2, <2>1 DEF Reservations!TellNo, PlaceOf, ToldBy, Answered
  <2> QED
    BY <2>2 DEF AbstractStep, Reservations!Next
<1> QED
  BY <1>1, <1>2

\* A step between two answers is none of the client's business.
LEMMA QuietStep ==
  ASSUME TypeOK, UNCHANGED status, NEW r \in Bookings, NEW p,
         pc' = [pc EXCEPT ![r] = p], pc[r] \notin Answered, p \notin Answered
  PROVE  AbstractStep
<1>1. [b \in Bookings |-> ToldBy(pc[b])]' = [b \in Bookings |-> ToldBy(pc[b])]
  BY DEF ToldBy, Answered, TypeOK, CreateTypeOK
<1> QED
  BY <1>1 DEF AbstractStep, Reservations!vars

LEMMA CreateImplements ==
  ASSUME SlotsCovered, ~AmbiguousCommit, IInv, NEW r \in Bookings, CreateNext(r)
  PROVE  AbstractStep
<1> USE DEF IInv, RowInv, GoTo
<1>1. CASE CommitBooking(r)
  BY <1>1, CommitGrants
<1>2. CASE AcquireLock(r) \/ ReleaseLock(r)
  BY <1>2, UnseenStep DEF AcquireLock, ReleaseLock
<1>3. CASE Start(r) \/ LockTaken(r) \/ SaveBooking(r) \/ SaveOrCommitFails(r) \/ Crash(r)
  <2>1. /\ UNCHANGED status /\ pc[r] \notin Answered
        /\ \E p \in {"locking", "undo", "saved", "failing", "crashed"} :
             pc' = [pc EXCEPT ![r] = p]
    BY <1>3 DEF Start, LockTaken, SaveBooking, SaveOrCommitFails, Crash, Answered, stateVars
  <2> QED
    BY <2>1, QuietStep DEF Answered
<1>4. CASE PublishCreated(r)
  BY <1>4, AnswerTells DEF PublishCreated, Answered
<1>5. CASE Refuse(r) \/ GiveUp(r) \/ RedisFails(r)
  <2>1. /\ UNCHANGED status
        /\ pc[r] \in {"idle", "locking", "undo", "failing"}
        /\ \E answer \in Answered \ {"201"} : pc' = [pc EXCEPT ![r] = answer]
    BY <1>5 DEF Refuse, GiveUp, RedisFails, Releasing, Answered, stateVars
  <2> QED
    BY <2>1, AnswerTells DEF Answered
<1> QED
  BY <1>1, <1>2, <1>3, <1>4, <1>5 DEF CreateNext, Proceed

LEMMA CancelImplements ==
  ASSUME ~AmbiguousCommit, RowInv, UNCHANGED createVars, NEW c \in Cancellers, CancelNext(c)
  PROVE  AbstractStep
<1>1. UNCHANGED pc
  BY DEF createVars
<1>2. CASE UNCHANGED status
  BY <1>1, <1>2, UnseenStep
<1>3. CASE CommitCancel(c) /\ cdirty[c]
  <2>1. /\ target[c] \in Bookings /\ status[target[c]] # "ABSENT" /\ "CANCELLED" \in Terminal
        /\ status' = [status EXCEPT ![target[c]] = "CANCELLED"]
    BY <1>3 DEF CommitCancel, WriteCancelled, RowInv, TypeOK, CancelTypeOK, CancelKnowsRow,
                Terminal
  <2> QED
    BY <1>1, <2>1, RowEnds DEF RowInv
<1> QED
  BY <1>2, <1>3 DEF CancelNext, CancelProceed, Load, Merge, CommitCancel, WriteCancelled,
                    CancelFails, stateVars

LEMMA ExpireImplements ==
  ASSUME ~AmbiguousCommit, RowInv, UNCHANGED createVars, NEW e \in Expirers, ExpireNext(e)
  PROVE  AbstractStep
<1>1. UNCHANGED pc
  BY DEF createVars
<1>2. CASE UNCHANGED status
  BY <1>1, <1>2, UnseenStep
<1>3. ASSUME NEW b \in Bookings, CommitExpired(e, b), edirty[e] PROVE AbstractStep
  <2>1. /\ status[b] # "ABSENT" /\ "EXPIRED" \in Terminal
        /\ status' = [status EXCEPT ![b] = "EXPIRED"]
    BY <1>3 DEF CommitExpired, WriteExpired, RowInv, ExpirerKnowsRow, KnowsCurrent, Terminal
  <2> QED
    BY <1>1, <2>1, RowEnds DEF RowInv
<1> QED
  BY <1>2, <1>3 DEF ExpireNext, ExpireProceed, Find, Finish, MergeExpired, CommitExpired,
     WriteExpired, ReleaseExpired, PublishExpired, SessionUnusable, FindFails, ExpirerCrash,
     SqlFails, RedisFailsExpiring, stateVars

LEMMA InitImplements == Init => Reservations!Init
  BY DEF Init, StateInit, CreateInit, Reservations!Init, PlaceOf, ToldBy, Answered

LEMMA NextImplements ==
  ASSUME SlotsCovered, ~AmbiguousCommit
  PROVE  IInv /\ [Next]_vars => [Reservations!Next]_Reservations!vars
<1> SUFFICES ASSUME IInv, [Next]_vars PROVE AbstractStep
  BY DEF AbstractStep
<1>1. CASE UNCHANGED vars \/ Tick \/ (Evict /\ UNCHANGED <<createVars, cancelVars, expireVars>>)
  BY <1>1, UnseenStep DEF vars, stateVars, createVars, Tick, Evict
<1>2. ASSUME NEW r \in Bookings, CreateNext(r) PROVE AbstractStep
  BY <1>2, CreateImplements
<1>3. ASSUME NEW c \in Cancellers, CancelNext(c), UNCHANGED createVars PROVE AbstractStep
  BY <1>3, CancelImplements DEF IInv
<1>4. ASSUME NEW e \in Expirers, ExpireNext(e), UNCHANGED createVars PROVE AbstractStep
  BY <1>4, ExpireImplements DEF IInv
<1> QED
  BY <1>1, <1>2, <1>3, <1>4 DEF Next

\* The feature keeps its promise to clients: for any number of requests,
\* cancellations, jobs and failures, BookingSystem implements SlotReservations.
THEOREM Implementation ==
  ASSUME SlotsCovered, TimelyRequests, ReliableStores
  PROVE  Spec => ImplementsReservations
<1>1. ~AmbiguousCommit
  BY DEF ReliableStores
<1> QED
  BY <1>1, InitImplements, NextImplements, InvariantHolds, PTL
  DEF Spec, ImplementsReservations, Reservations!Spec

-----------------------------------------------------------------------------
(* What is left of the promise when the stores fail.                       *)

AccountStep == [Accounts!Next]_Accounts!vars

\* A step that leaves the table alone answers one client at most.
LEMMA AnswerAccords ==
  ASSUME RecordInv, RecordInv', UNCHANGED status, NEW r \in Bookings,
         Begins(r) \/ GoesOn(r) \/ pc'[r] = pc[r],
         \A b \in Bookings \ {r} : pc'[b] = pc[b]
  PROVE  AccountStep
<1> DEFINE told == [b \in Bookings |-> SurelyToldBy(pc[b])]
<1> USE DEF RecordInv, TypeOK, CreateTypeOK, SurelyToldBy
<1>1. UNCHANGED [b \in Bookings |-> PlaceOf(status[b])]
  OBVIOUS
<1>2. told' = [told EXCEPT ![r] = SurelyToldBy(pc'[r])]
  OBVIOUS
<1>3. CASE SurelyToldBy(pc'[r]) = SurelyToldBy(pc[r])
  <2>1. told' = told
    BY <1>2, <1>3
  <2> QED
    BY <1>1, <2>1 DEF AccountStep, Accounts!vars
<1>4. CASE SurelyToldBy(pc'[r]) # SurelyToldBy(pc[r])
  <2>1. SurelyToldBy(pc[r]) = "nothing"
    BY <1>4 DEF Begins, GoesOn
  <2>2. CASE pc'[r] = "201"
    <3>1. PlaceOf(status[r]) # "nothing"
      BY <2>2 DEF RowAfterCommit, PlaceOf
    <3>2. Accounts!TellYes(r)
      BY <1>1, <1>2, <2>1, <2>2, <3>1 DEF Accounts!TellYes
    <3> QED
      BY <3>2 DEF AccountStep, Accounts!Next
  <2>3. CASE pc'[r] \in {"409", "422", "503"}
    <3>1. PlaceOf(status[r]) = "nothing"
      BY <2>3 DEF RowAfterCommit, PlaceOf
    <3>2. Accounts!TellNo(r)
      BY <1>1, <1>2, <2>1, <2>3, <3>1 DEF Accounts!TellNo
    <3> QED
      BY <3>2 DEF AccountStep, Accounts!Next
  <2> QED
    BY <1>4, <2>1, <2>2, <2>3
<1> QED
  BY <1>3, <1>4

\* A COMMIT grants the slot, whether or not it raises.
LEMMA InsertAccords ==
  ASSUME RecordInv, NEW r \in Bookings, Inserts(r), status[r] = "ABSENT",
         \A b \in Bookings \ {r} : pc'[b] = pc[b]
  PROVE  AccountStep
<1> USE DEF RecordInv, TypeOK, StateTypeOK, CreateTypeOK
<1>1. [b \in Bookings |-> PlaceOf(status[b])]'
        = [[b \in Bookings |-> PlaceOf(status[b])] EXCEPT ![r] = "held"]
  BY DEF Inserts, Insert, PlaceOf, Active
<1>2. [b \in Bookings |-> SurelyToldBy(pc[b])]' = [b \in Bookings |-> SurelyToldBy(pc[b])]
  BY DEF Inserts, SurelyToldBy
<1>3. Accounts!Grant(r)
  BY <1>1, <1>2 DEF Accounts!Grant, Inserts, PlaceOf, SurelyToldBy
<1> QED
  BY <1>3 DEF AccountStep, Accounts!Next

\* A row that ends gives its slot back, unless it had done so.
LEMMA EndAccords ==
  ASSUME RecordInv, NEW b \in Bookings, Ends(b), UNCHANGED pc
  PROVE  AccountStep
<1> USE DEF RecordInv, TypeOK, StateTypeOK, PlaceOf
<1>1. PICK s \in {"CANCELLED", "EXPIRED"} : status' = [status EXCEPT ![b] = s]
  BY DEF Ends
<1>2. s # "ABSENT" /\ s \notin Active /\ status[b] # "ABSENT"
  BY <1>1 DEF Ends, Active
<1>3. CASE status[b] \in Active
  <2>1. Accounts!GiveBack(b)
    BY <1>1, <1>2, <1>3 DEF Accounts!GiveBack
  <2> QED
    BY <2>1 DEF AccountStep, Accounts!Next
<1>4. CASE status[b] \notin Active
  <2>1. [d \in Bookings |-> PlaceOf(status[d])]' = [d \in Bookings |-> PlaceOf(status[d])]
    BY <1>1, <1>2, <1>4
  <2> QED
    BY <2>1 DEF AccountStep, Accounts!vars
<1> QED
  BY <1>3, <1>4

LEMMA NextAccords == RecordInv /\ [Next]_vars => AccountStep
<1> SUFFICES ASSUME RecordInv, [Next]_vars PROVE AccountStep
  OBVIOUS
<1>1. RecordInv' /\ RequestStep
  BY RecordInvNext, RequestSteps DEF RecordInv
<1>2. CASE UNCHANGED pc
  <2>1. ASSUME NEW r \in Bookings PROVE ~Inserts(r)
    BY <1>2 DEF Inserts
  <2>2. CASE TableKept
    BY <1>2, <2>2 DEF TableKept, AccountStep, Accounts!vars
  <2> QED
    BY <1>2, <2>1, <2>2, TableSteps, EndAccords
<1>3. ASSUME NEW r \in Bookings, CreateNext(r) PROVE AccountStep
  <2>1. \A b \in Bookings \ {r} : pc'[b] = pc[b]
    BY <1>3 DEF RecordInv, TypeOK, CreateTypeOK, GoTo, CreateNext, Proceed, Start, Refuse,
       AcquireLock, LockTaken, SaveBooking, CommitBooking, PublishCreated, SaveOrCommitFails,
       ReleaseLock, GiveUp, RedisFails, Crash, stateVars
  <2>2. CASE TableKept
    BY <1>1, <2>1, <2>2, AnswerAccords DEF TableKept, RequestStep, Stays
  <2>3. CASE Inserts(r)
    BY <2>1, <2>3, InsertAccords DEF Inserts, RecordInv, RowAfterCommit
  <2> QED
    BY <1>3, <2>2, <2>3, CreateTable DEF RecordInv
<1> QED
  BY <1>2, <1>3 DEF Next, vars, createVars, Tick

\* Whatever Redis and the COMMITs do, the feature grants each request at most once,
\* takes a slot back for good, and answers in accordance with that.
THEOREM WordIsKept == Spec => KeepsItsWord
<1>1. Init => Accounts!Init
  BY DEF Init, StateInit, CreateInit, Accounts!Init, PlaceOf, SurelyToldBy
<1> QED
  BY <1>1, NextAccords, RecordsAgree, PTL DEF Spec, KeepsItsWord, Accounts!Spec, AccountStep

-----------------------------------------------------------------------------
(* What SlotReservations is good for.                                      *)

Held(b) == PlaceOf(status[b]) = "held"
ClashFree == \A a, b \in Bookings :
               a # b /\ Held(a) /\ Held(b) => ~Overlap(SlotOf[a], SlotOf[b])

\* The abstract specification alone forbids two bookings of one moment, whatever
\* system implements it: no request of a clashing pair is granted the other's slot.
THEOREM PromiseIsEnough == ImplementsReservations => []NoDoubleBooking
<1>1. Reservations!Init => ClashFree
  BY DEF Reservations!Init, ClashFree, Held
<1>2. ClashFree /\ [Reservations!Next]_Reservations!vars => ClashFree'
  <2> DEFINE place == [b \in Bookings |-> PlaceOf(status[b])]
  <2> SUFFICES ASSUME ClashFree, [Reservations!Next]_Reservations!vars,
                      NEW a \in Bookings, NEW b \in Bookings, a # b, Held(a)', Held(b)',
                      Overlap(SlotOf[a], SlotOf[b])
               PROVE  FALSE
    BY DEF ClashFree
  <2>0. Overlap(SlotOf[b], SlotOf[a])
    BY OverlapIsSymmetric
  <2>1. \A c \in Bookings : /\ Held(c) <=> place[c] = "held"
                            /\ Held(c)' <=> place'[c] = "held"
    BY DEF Held
  <2>2. CASE place' = place
    BY <2>1, <2>2 DEF ClashFree
  <2>3. ASSUME NEW r \in Bookings, Reservations!GiveBack(r) PROVE FALSE
    <3>1. place' = [place EXCEPT ![r] = "given back"]
      BY <2>3 DEF Reservations!GiveBack
    <3>2. \A c \in Bookings : place'[c] = "held" => place[c] = "held"
      BY <3>1
    <3> QED
      BY <2>1, <3>2 DEF ClashFree
  <2>4. ASSUME NEW r \in Bookings, Reservations!Grant(r) PROVE FALSE
    <3>1. place' = [place EXCEPT ![r] = "held"]
      BY <2>4 DEF Reservations!Grant
    <3>2. \A q \in Bookings :
            q # r /\ Overlap(SlotOf[q], SlotOf[r]) => place[q] # "held"
      BY <2>4 DEF Reservations!Grant
    <3>3. \A c \in Bookings \ {r} : place'[c] = place[c]
      BY <3>1
    <3>4. CASE a = r
      BY <2>0, <2>1, <3>2, <3>3, <3>4
    <3>5. CASE b = r
      BY <2>1, <3>2, <3>3, <3>5
    <3>6. CASE a # r /\ b # r
      BY <2>1, <3>3, <3>6 DEF ClashFree
    <3> QED
      BY <3>4, <3>5, <3>6
  <2>5. ASSUME NEW r \in Bookings, Reservations!TellYes(r) \/ Reservations!TellNo(r)
        PROVE  place' = place
    BY <2>5 DEF Reservations!TellYes, Reservations!TellNo
  <2> QED
    BY <2>2, <2>3, <2>4, <2>5 DEF Reservations!Next, Reservations!vars
<1>3. ClashFree => NoDoubleBooking
  BY DEF ClashFree, Held, NoDoubleBooking, PlaceOf, IsActive, Active
<1> QED
  BY <1>1, <1>2, <1>3, PTL DEF ImplementsReservations, Reservations!Spec
================================================================================
